----------------------------- MODULE Normalize ------------------------------
(***************************************************************************)
(* What a line of code is hashed as (internal/normalize/normalize.go).     *)
(* Contents of files are sequences of bytes.  A hash is the text it is of, *)
(* which leaves collisions of xxh3 out.                                    *)
(*                                                                         *)
(* One byte value stands for each class of bytes the code tells apart; one *)
(* of them, Reference, for a whole 'reference' => '...', entry, which the  *)
(* regular expression removes.                                             *)
(***************************************************************************)
EXTENDS Chunker

CONSTANTS
    MinSize,       \* shorter lines are skipped: 10 bytes
    MaxTokenSize,  \* 10 MB, the size of a read buffer
    ProbeSize,     \* the bytes IsValidUtf8 looks at: 8 KB
    Space,         \* white space other than a newline
    Newline,
    Comment,       \* a byte that begins a comment line
    Reference,     \* a 'reference' entry
    Lead, Trail    \* the two bytes of a multi-byte character

ASSUME NormalizeAssumption ==
    /\ {MinSize, MaxTokenSize, ProbeSize} \subseteq Nat \ {0}
    /\ MinSize <= ChunkThreshold /\ ProbeSize <= MaxTokenSize
    /\ {Space, Comment, Reference, Lead, Trail} \subseteq DOMAIN HashTable

(* What HashLine passes on: a text, and where in the raw line it begins; 0 *)
(* when it is a copy.                                                      *)
Piece(text, at) == [text |-> text, at |-> at]

(* Some positions in ascending order, and what a sequence has there. *)
InOrder[at \in SUBSET Nat] ==
    [k \in 1..Cardinality(at) |-> CHOOSE i \in at : Cardinality({j \in at : j <= i}) = k]

Selected(seq, at) ==
    LET order == InOrder[at] IN [k \in DOMAIN order |-> seq[order[k]]]

(* bytes.TrimSpace *)
TrimSpace(b) ==
    LET ink == {i \in DOMAIN b : b[i] # Space}
        first == CHOOSE i \in ink : \A j \in ink : i <= j
        last == CHOOSE i \in ink : \A j \in ink : j <= i
    IN IF ink = {} THEN Piece(<< >>, 1) ELSE Piece(SubSeq(b, first, last), first)

(* A comment is empty, and a 'reference' entry is cut out, which copies    *)
(* the line.                                                               *)
normLine(b) ==
    LET trimmed == TrimSpace(b)
        text == trimmed.text
    IN IF Len(text) < MinSize THEN trimmed
       ELSE IF Head(text) = Comment THEN Piece(<< >>, 0)
       ELSE IF Reference \in Range(text)
       THEN Piece(Selected(text, {i \in DOMAIN text : text[i] # Reference}), 0)
       ELSE trimmed

HashLine[raw \in Seq(DOMAIN HashTable)] ==
    LET norm == normLine(raw)
        ends == ChunkLine(norm.text)
    IN IF Len(norm.text) < MinSize THEN << >>
       ELSE [k \in DOMAIN ends |->
               Piece(ChunkText(norm.text, ends, k),
                     IF norm.at = 0 THEN 0 ELSE norm.at + ChunkStart(ends, k) - 1)]

(* The lines bufio.Scanner yields of these contents: up to the last, which *)
(* need not have a newline, or to one that does not fit into the buffer.   *)
Lines(data) ==
    LET breaks == InOrder[{i \in DOMAIN data : data[i] = Newline}]
        stops == IF data # << >> /\ data[Len(data)] # Newline
                 THEN Append(breaks, Len(data) + 1) ELSE breaks
        line == [k \in DOMAIN stops |-> SubSeq(data, ChunkStart(stops, k), stops[k] - 1)]
    IN SubSeq(line, 1, SelectInSeq(Append(line, [i \in 1..MaxTokenSize |-> Newline]),
                                   LAMBDA l : Len(l) >= MaxTokenSize) - 1)

(* Mutant of HashReader: a long line is hashed as one piece. *)
HashReaderWhole(data) ==
    {normLine(Lines(data)[n]).text : n \in DOMAIN Lines(data)}

(* The hashes an indexer stores of a file. *)
HashReader(data) ==
    UNION {{piece.text : piece \in Range(HashLine[Lines(data)[n]])} :
             n \in DOMAIN Lines(data)}

(* Characters are whole: a lead byte and its trail come together. *)
ValidText(data) ==
    \A i \in DOMAIN data :
        /\ data[i] = Lead => i < Len(data) /\ data[i + 1] = Trail
        /\ data[i] = Trail => i > 1 /\ data[i - 1] = Lead

(* The first ProbeSize bytes; reading an empty file is an error. *)
IsValidUtf8(data) ==
    data # << >>
    /\ ValidText(SubSeq(data, 1, IF Len(data) < ProbeSize THEN Len(data) ELSE ProbeSize))
=============================================================================
