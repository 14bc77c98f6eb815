----------------------------- MODULE MCZipFetch -----------------------------
(* A URL whose archive the server rebuilds: once with another root and one *)
(* file more, of which one does not decompress, and once above the limit.  *)
EXTENDS ZipFetch, TLC

MCNames ==
    [c \in Content |->
       CASE c = "small" -> <<<<"r1", "">>, <<"r1", "A.php">>>>
         [] c = "other" -> <<<<"r2", "A.php">>, <<"r2", "B.php">>>>
         [] c = "huge"  -> <<<<"A.php">>, <<"B.php">>, <<"logo.png">>>>]

MCHasValidExt == {<<"A.php">>, <<"B.php">>}
MCUnreadable == {<<"other", 1>>}
MCPrefix == <<"vendor", "x", "y">>
MCSymmetry == Permutations(Worker)
=============================================================================
