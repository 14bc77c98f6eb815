------------------------------ MODULE Chunker -------------------------------
(***************************************************************************)
(* Content-defined chunks of long lines (internal/chunker/chunker.go).     *)
(* A line is a sequence of bytes.  A 64-bit hash word is the set of the    *)
(* positions of its one bits: xor is the symmetric difference, a rotation  *)
(* adds to the positions modulo the width of the word.  A chunking is the  *)
(* sequence of the positions its chunks end at.                            *)
(***************************************************************************)
EXTENDS Integers, Sequences, FiniteSets, SequencesExt

CONSTANTS
    WordSize,        \* 64
    WindowSize,      \* 32 bytes
    MinChunk,        \* 32
    MaxChunk,        \* 128
    ChunkThreshold,  \* lines up to 512 bytes are one chunk
    Mask,            \* the bits of 0x3F
    Comma,           \* the byte ','
    HashTable        \* byte -> hash word

ASSUME ChunkerAssumption ==
    /\ WordSize \in Nat \ {0} /\ Mask \subseteq 0..WordSize - 1
    /\ \A b \in DOMAIN HashTable : HashTable[b] \subseteq 0..WordSize - 1
    /\ {WindowSize, MinChunk, MaxChunk, ChunkThreshold} \subseteq Nat \ {0}
    /\ WindowSize <= MinChunk /\ MinChunk <= MaxChunk /\ MaxChunk <= ChunkThreshold

Xor(g, h) == (g \ h) \cup (h \ g)

(* rotateLeft, n times *)
Rotate(h, n) == {(bit + n) % WordSize : bit \in h}

(* The outgoing byte is taken back rotated as often as it has been since.  *)
OutTable(byte) == Rotate(HashTable[byte], WindowSize)

(* Mutant of Roll: the window is one byte too wide before a byte leaves.   *)
RollLate(data, start, hash, i) ==
    LET entered == Xor(Rotate(hash, 1), HashTable[data[i]]) IN
    IF i - start > WindowSize
    THEN Xor(entered, OutTable(data[i - WindowSize]))
    ELSE entered

(* The rolling hash at position i of a chunk that begins at start: the     *)
(* byte comes in, and one leaves once the window is full.                  *)
Roll(data, start, hash, i) ==
    LET entered == Xor(Rotate(hash, 1), HashTable[data[i]]) IN
    IF i - start >= WindowSize
    THEN Xor(entered, OutTable(data[i - WindowSize]))
    ELSE entered

(* A chunk of this length, ending with this byte and hash, is complete.    *)
IsCut(length, byte, hash) ==
    /\ length >= MinChunk
    /\ length >= MaxChunk \/ hash \cap Mask = {} \/ byte = Comma

(* Mutant of CutAt: the hash is not reset behind a chunk. *)
CutAtKeepingHash(data, c, i) ==
    LET hash == Roll(data, c.start, c.hash, i) IN
    IF IsCut(i - c.start + 1, data[i], hash)
    THEN [start |-> i + 1, hash |-> hash, ends |-> Append(c.ends, i)]
    ELSE [c EXCEPT !.hash = hash]

(* One turn of the loop of chunk: start and hash are its variables. *)
CutAt(data, c, i) ==
    LET hash == Roll(data, c.start, c.hash, i) IN
    IF IsCut(i - c.start + 1, data[i], hash)
    THEN [start |-> i + 1, hash |-> {}, ends |-> Append(c.ends, i)]
    ELSE [c EXCEPT !.hash = hash]

(* The loop; after[i] holds the one state it has after i bytes (as a set,  *)
(* so that TLC computes it once for all its uses).                         *)
Chunk[data \in Seq(DOMAIN HashTable)] ==
    LET after[i \in 0..Len(data)] ==
          IF i = 0 THEN {[start |-> 1, hash |-> {}, ends |-> << >>]}
          ELSE {CutAt(data, c, i) : c \in after[i - 1]}
        all == CHOOSE c \in after[Len(data)] : TRUE
    IN IF Len(data) <= MinChunk THEN <<Len(data)>>
       ELSE all.ends \o (IF all.start <= Len(data) THEN <<Len(data)>> ELSE << >>)

ChunkLine(line) ==
    IF Len(line) <= ChunkThreshold THEN <<Len(line)>> ELSE Chunk[line]

(* Where chunk k begins, and its text. *)
ChunkStart(ends, k) == IF k = 1 THEN 1 ELSE ends[k - 1] + 1
ChunkText(line, ends, k) == SubSeq(line, ChunkStart(ends, k), ends[k])
-----------------------------------------------------------------------------
(* Reference definitions.  The hash of the last WindowSize bytes of a      *)
(* chunk, from the bytes themselves: a bit is set when an odd number of    *)
(* them contributes it.                                                    *)
WindowHash(data, start, i) ==
    LET first == IF i - start >= WindowSize THEN i - WindowSize + 1 ELSE start
    IN {bit \in 0..WordSize - 1 :
          Cardinality({j \in first..i :
                         bit \in Rotate(HashTable[data[j]], i - j)}) % 2 = 1}

(* The chunks of a line are a partition of it, and each ends at the first  *)
(* place, MinChunk bytes or more from its beginning, where the hash of the *)
(* window, a comma or the length says so, or at the end of the line.       *)
IsChunking(line, ends) ==
    /\ ends # << >> /\ ends[Len(ends)] = Len(line)
    /\ \A k \in DOMAIN ends :
         LET start == ChunkStart(ends, k)
             Ends(i) == i = Len(line)
                        \/ IsCut(i - start + 1, line[i], WindowHash(line, start, i))
         IN /\ start <= ends[k]
            /\ Ends(ends[k])
            /\ \A i \in start..ends[k] - 1 : ~Ends(i)

(* Two lines of one length that differ in one place have the same chunks   *)
(* before it, and once an end behind it is an end of both they have the    *)
(* same chunks from there on. The two may share no such end but the last:  *)
(* where ends are, depends on where a chunk began as well, and nothing     *)
(* brings two rows of chunks together that are cut at MaxChunk only. So    *)
(* this is less than "small edits only affect nearby chunks"               *)
(* (internal/chunker/chunker.go), which the code makes likely.             *)
EditSettles(line, other) ==
    LET ends == Range(ChunkLine(line))
        others == Range(ChunkLine(other))
        Differ(i) == line[i] # other[i]
    IN \A p \in {i \in DOMAIN line : Differ(i)} :
         /\ {e \in ends : e < p} = {e \in others : e < p}
         /\ \A k \in ends \cap others : k >= p =>
              {e \in ends : e > k} = {e \in others : e > k}
=============================================================================
