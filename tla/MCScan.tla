------------------------------- MODULE MCScan -------------------------------
(* Scans of a few trees, with the sizes of the code scaled down: a buffer  *)
(* of 12 bytes, lines from 2 bytes, chunks of 2 to 4 in lines from 6.      *)
EXTENDS Scan, TLC

MCHashTable == [b \in {"a", "b", "c", "$", ",", " ", "#", "r", "u", "v"} |->
    CASE b = "a" -> {0, 2} [] b = "b" -> {1} [] b = "c" -> {0, 1, 3}
      [] b = "$" -> {2, 3} [] b = "," -> {1, 2} [] OTHER -> {0}]

(* A core file, and variations of it. *)
Core(data) == [data |-> data, ext |-> TRUE, known |-> TRUE, excluded |-> FALSE, match |-> TRUE]

nl == <<"n">>
Short == <<"a", "b">> \o nl \o <<"#", "b", "b">> \o nl \o <<" ", "b", "r", "a">>
Long == <<"a", "b", "c", "a", ",", "b", "b", "a", "c", "$">>
Twice == <<"b", "c">> \o nl \o <<"a", "$">> \o nl \o <<"c", "c", "c">> \o nl \o <<"a", "b", "a", "$">>
Moved == <<"a", "b">> \o nl \o <<"a", "b", "c", "a", "a", "b", "b", "a", "c", "$">>

MCIndexed == {Short, Long}

TreeOf(files) == [single |-> FALSE, files |-> files]

MCTree ==
    {TreeOf(<<Core(Short), Core(<<"$", "a">> \o nl \o <<"a", "b">>), Core(<<"c", "c">>)>>),
     TreeOf(<<Core(Long), Core(<<"a", "b", "c", "a", "a", "b", "b", "a", "c", "$">>)>>),
     TreeOf(<<Core(<<"c", "c">> \o nl \o <<"a", "b", "c", "a", ",", "b", "b", "a", "c", "$", "c", "c">>),
              [Core(<<"a", "b", "u", "v">>) EXCEPT !.ext = FALSE]>>),
     TreeOf(<<[Core(Short) EXCEPT !.known = FALSE],
              [Core(Short) EXCEPT !.excluded = TRUE],
              [Core(Twice) EXCEPT !.match = FALSE],
              Core(<< >>)>>),
     TreeOf(<<Core(<<"a", "b", "c", "a", "b", "c", "a", "u", "v">>),
              Core(<<"a", "b", "c", "a", "b", "c", "u", "v">>),
              Core(<<"b", "u">>)>>),
     [single |-> TRUE, files |-> <<[Core(Moved) EXCEPT !.known = FALSE]>>]}

Default == [ignorePaths |-> FALSE, suspectOnly |-> FALSE,
            allValidText |-> FALSE, pathFilter |-> FALSE]

MCOption ==
    {Default, [Default EXCEPT !.suspectOnly = TRUE], [Default EXCEPT !.pathFilter = TRUE],
     [Default EXCEPT !.ignorePaths = TRUE, !.allValidText = TRUE]}
=============================================================================
