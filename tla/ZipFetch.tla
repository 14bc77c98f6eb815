------------------------------ MODULE ZipFetch ------------------------------
(***************************************************************************)
(* Zip archives (internal/indexer/zip.go): the workers of one or more      *)
(* sessions that index the same version from the same URL, through a cache *)
(* file that is written in place and that nobody locks.                    *)
(*                                                                         *)
(* An archive is a sequence of cells: one for each entry and the directory *)
(* behind them, without which it cannot be opened.  A server may build the *)
(* archive of a URL anew, with other bytes: a content is one such build.   *)
(* All workers have the cache directory; without one nothing is shared.    *)
(***************************************************************************)
EXTENDS Integers, Sequences, FiniteSets, SequencesExt

CONSTANTS
    Worker,
    Content,     \* what the server may send
    NoContent,
    Names,       \* content -> the paths of its entries; a directory ends in ""
    HasValidExt, \* paths, without the common root, of code files
    Unreadable,  \* <<content, entry>> that are binary or do not decompress
    Prefix,      \* IndexOptions.PathPrefix
    maxZipSize,  \* in cells
    Faults       \* subset of {"kill", "http_error", "read_error", "write_error"}

Cell == [content : Content \cup {NoContent}, place : Nat]
Hole == [content |-> NoContent, place |-> 0]

ASSUME ZipAssumption ==
    /\ Content # {} /\ NoContent \notin Content
    /\ Names \in [Content -> Seq(Seq(STRING))]
    /\ maxZipSize \in Nat
    /\ Faults \subseteq {"kill", "http_error", "read_error", "write_error"}

VARIABLES
    exists,   \* the file at zipCachePath exists
    cache,    \* its cells
    pc,       \* worker -> the call it is in
    data,     \* worker -> the bytes it has
    offset,   \* worker -> how many of them it has written
    hashed,   \* hashes computed by any worker
    marked,   \* OnVersionDone has been called
    raced     \* history: a cache file was created over an existing one

vars == <<exists, cache, pc, data, offset, hashed, marked, raced>>
-----------------------------------------------------------------------------
(***************************************************************************)
(* Archives                                                                *)
(***************************************************************************)

Size(c) == Len(Names[c]) + 1

(* io.LimitReader cuts what is too long, without an error. *)
Received(c) ==
    [i \in 1..(IF Size(c) <= maxZipSize THEN Size(c) ELSE maxZipSize) |->
        [content |-> c, place |-> i]]

(* What has been read or written so far of c, as it was received. *)
PartOf(d, c) ==
    /\ Len(d) <= Len(Received(c))
    /\ \A i \in 1..Len(d) : d[i] = Received(c)[i]

(* zip.NewReader finds the directory at the end. *)
Opens(d) ==
    /\ d # << >>
    /\ Last(d).content # NoContent
    /\ Last(d).place = Size(Last(d).content)

commonRootPrefix(c) ==
    LET roots == {Head(n) : n \in Range(Names[c])}
    IN  IF Cardinality(roots) = 1 /\ \A n \in Range(Names[c]) : Len(n) > 1
        THEN <<CHOOSE r \in roots : TRUE>> ELSE << >>

(* The name of an entry without the common root. *)
Name(c, i) ==
    LET n == Names[c][i]
    IN  SubSeq(n, Len(commonRootPrefix(c)) + 1, Len(n))

(* Entries that are files with the extension of code. *)
Code(c) ==
    {i \in 1..Len(Names[c]) : Last(Names[c][i]) # "" /\ Name(c, i) \in HasValidExt}

PathHash(c, i) == [path |-> Prefix \o Name(c, i)]
LinesHash(c, i) == [lines |-> <<c, i>>]

(* The bytes of entry i are those the directory describes. *)
Intact(d, c, i) == d[i] = [content |-> c, place |-> i] /\ <<c, i>> \notin Unreadable
-----------------------------------------------------------------------------
TypeOK ==
    /\ cache \in Seq(Cell)
    /\ pc \in [Worker -> {"idle", "read", "download", "create", "write", "open",
                          "index", "mark"}]
    /\ data \in [Worker -> Seq(Cell)]
    /\ offset \in [Worker -> Nat]
    /\ \A w \in Worker :
          /\ offset[w] <= Len(data[w])
          /\ pc[w] \in {"idle", "read", "download", "create"} => offset[w] = 0
          /\ pc[w] = "idle" => data[w] = << >>
    /\ exists \in BOOLEAN /\ marked \in BOOLEAN /\ raced \in BOOLEAN

Init ==
    /\ exists = FALSE /\ cache = << >>
    /\ pc = [w \in Worker |-> "idle"]
    /\ data = [w \in Worker |-> << >>]
    /\ offset = [w \in Worker |-> 0]
    /\ hashed = {} /\ marked = FALSE /\ raced = FALSE

Goto(w, label) == pc' = [pc EXCEPT ![w] = label]

(* Mutant of Forget: the data is kept. *)
ForgetNot(w) ==
    /\ Goto(w, "idle")
    /\ offset' = [offset EXCEPT ![w] = 0]
    /\ UNCHANGED data

(* IndexZip returns, or its process ends. *)
Forget(w) ==
    /\ Goto(w, "idle")
    /\ data' = [data EXCEPT ![w] = << >>]
    /\ offset' = [offset EXCEPT ![w] = 0]

(* A version the manifest does not have; os.ReadFile opens the cache file. *)
Begin(w) ==
    /\ pc[w] = "idle" /\ ~marked
    /\ Goto(w, IF exists THEN "read" ELSE "download")
    /\ UNCHANGED <<exists, cache, data, offset, hashed, marked, raced>>

(* os.ReadFile reads up to the end of the file as it then is; after an     *)
(* error the archive is downloaded.                                        *)
Read(w) ==
    /\ pc[w] = "read"
    /\ LET next == Len(data[w]) + 1 IN
       \/ /\ next <= Len(cache)
          /\ data' = [data EXCEPT ![w] = Append(@, cache[next])]
          /\ UNCHANGED pc
       \/ next > Len(cache) /\ Goto(w, "open") /\ UNCHANGED data
       \/ /\ "read_error" \in Faults
          /\ data' = [data EXCEPT ![w] = << >>] /\ Goto(w, "download")
    /\ UNCHANGED <<exists, cache, offset, hashed, marked, raced>>

(* Mutant of Download: the status of the answer is not looked at. *)
DownloadAnyStatus(w) ==
    /\ pc[w] = "download"
    /\ \E d \in {Received(c) : c \in Content} \cup {<<Hole>>} :
          data' = [data EXCEPT ![w] = d]
    /\ Goto(w, "create")
    /\ UNCHANGED <<exists, cache, offset, hashed, marked, raced>>

(* downloadZip: an error ends IndexZip; so does an answer that is cut by   *)
(* the network.  When os.MkdirAll fails, the cache is left alone.          *)
Download(w) ==
    /\ pc[w] = "download"
    /\ \/ /\ \E c \in Content : data' = [data EXCEPT ![w] = Received(c)]
          /\ \/ Goto(w, "create")
             \/ "write_error" \in Faults /\ Goto(w, "open")
          /\ UNCHANGED offset
       \/ "http_error" \in Faults /\ Forget(w)
    /\ UNCHANGED <<exists, cache, hashed, marked, raced>>

(* os.WriteFile creates the file or empties it. *)
Create(w) ==
    /\ pc[w] = "create"
    /\ \/ /\ exists' = TRUE /\ cache' = << >> /\ raced' = (raced \/ exists)
          /\ Goto(w, "write")
       \/ /\ "write_error" \in Faults
          /\ Goto(w, "open")
          /\ UNCHANGED <<exists, cache, raced>>
    /\ UNCHANGED <<data, offset, hashed, marked>>

(* One cell goes to the worker's own offset, which another worker may have *)
(* cut the file below; an error is a warning.                              *)
Write(w) ==
    /\ pc[w] = "write"
    /\ LET next == offset[w] + 1 IN
       \/ /\ next <= Len(data[w])
          /\ cache' = [i \in 1..(IF next > Len(cache) THEN next ELSE Len(cache)) |->
                         IF i = next THEN data[w][next]
                         ELSE IF i <= Len(cache) THEN cache[i] ELSE Hole]
          /\ offset' = [offset EXCEPT ![w] = next]
          /\ UNCHANGED pc
       \/ next > Len(data[w]) /\ Goto(w, "open") /\ UNCHANGED <<cache, offset>>
       \/ "write_error" \in Faults /\ Goto(w, "open") /\ UNCHANGED <<cache, offset>>
    /\ UNCHANGED <<exists, data, hashed, marked, raced>>

(* Mutant of Open: an archive that cannot be opened counts as empty. *)
OpenAnyway(w) ==
    /\ pc[w] = "open"
    /\ Goto(w, IF Opens(data[w]) THEN "index" ELSE "mark")
    /\ UNCHANGED <<exists, cache, data, offset, hashed, marked, raced>>

(* zip.NewReader; its error ends IndexZip. *)
Open(w) ==
    /\ pc[w] = "open"
    /\ \/ Opens(data[w]) /\ Goto(w, "index") /\ UNCHANGED <<data, offset>>
       \/ ~Opens(data[w]) /\ Forget(w)
    /\ UNCHANGED <<exists, cache, hashed, marked, raced>>

(* Mutant of Index: the loop ends at an entry that cannot be read. *)
IndexUpToFirst(w) ==
    /\ pc[w] = "index"
    /\ LET d    == data[w]
           c    == Last(d).content
           good == {i \in Code(c) : \A j \in Code(c) : j <= i => Intact(d, c, j)}
       IN  hashed' = hashed \cup {PathHash(c, i) : i \in good}
                            \cup {LinesHash(c, i) : i \in good}
    /\ Goto(w, "mark")
    /\ UNCHANGED <<exists, cache, data, offset, marked, raced>>

(* The loop of IndexZip.  An entry whose bytes are not those the directory *)
(* describes, or do not decompress, is skipped or read in part.            *)
Index(w) ==
    /\ pc[w] = "index"
    /\ LET d    == data[w]
           c    == Last(d).content
           good == {i \in Code(c) : Intact(d, c, i)}
       IN  \E part \in SUBSET (Code(c) \ good) :
             hashed' = hashed \cup {PathHash(c, i) : i \in good \cup part}
                              \cup {LinesHash(c, i) : i \in good}
    /\ Goto(w, "mark")
    /\ UNCHANGED <<exists, cache, data, offset, marked, raced>>

(* OnVersionDone, which follows whenever IndexZip returns no error. *)
Mark(w) ==
    /\ pc[w] = "mark"
    /\ marked' = TRUE
    /\ Forget(w)
    /\ UNCHANGED <<exists, cache, hashed, raced>>

Kill(w) ==
    /\ "kill" \in Faults
    /\ pc[w] # "idle"
    /\ Forget(w)
    /\ UNCHANGED <<exists, cache, hashed, marked, raced>>

Next == \E w \in Worker :
    \/ Begin(w) \/ Read(w) \/ Download(w) \/ Create(w) \/ Write(w)
    \/ Open(w) \/ Index(w) \/ Mark(w)
    \/ Kill(w)

Spec == Init /\ [][Next]_vars
-----------------------------------------------------------------------------
(* Unless two workers created the cache file, it is the beginning of one   *)
(* download, and so is what any worker has: a reader that is overtaken by  *)
(* the writer, or follows a killed one, sees a cut archive and no mixture. *)
OnlyPrefixes ==
    ~raced => /\ \E c \in Content : PartOf(cache, c)
              /\ \A w \in Worker : \E c \in Content : PartOf(data[w], c)

Whole(c) ==
    \A i \in Code(c) : <<c, i>> \notin Unreadable
                         => {PathHash(c, i), LinesHash(c, i)} \subseteq hashed

(* A version that is recorded was hashed whole, although archives are cut  *)
(* by crashes, full disks and the size limit, and are read while they are  *)
(* written: only entries that do not decompress are missing.  A version    *)
(* whose cache file was created over an existing one (raced) is excepted,  *)
(* whatever the two downloads were.                                        *)
MarkedIsWhole == marked /\ ~raced => \E c \in Content : Whole(c)
-----------------------------------------------------------------------------
(***************************************************************************)
(* The inductive invariant behind both.                                    *)
(***************************************************************************)

(* Who has found no cache file has not read or written one. *)
AbsentInv ==
    ~exists => /\ cache = << >>
               /\ \A w \in Worker : pc[w] \notin {"read", "write"}

(* A reader has the beginning of the file, which only grows. *)
ReaderInv ==
    \A w \in Worker : pc[w] = "read" =>
        /\ Len(data[w]) <= Len(cache)
        /\ \A i \in 1..Len(data[w]) : data[w][i] = cache[i]

(* The one writer has written what the file holds. *)
WriterInv ==
    /\ \A w \in Worker : pc[w] = "write" =>
          /\ Len(cache) = offset[w]
          /\ \A i \in 1..Len(cache) : cache[i] = data[w][i]
    /\ \A v, w \in Worker : pc[v] = "write" /\ pc[w] = "write" => v = w

IndexInv ==
    /\ \A w \in Worker : pc[w] = "index" => Opens(data[w])
    /\ (\E w \in Worker : pc[w] = "mark") /\ ~raced
          => \E c \in Content : Whole(c)

(* The inductive invariant: nobody wrote a cache file over another's, so   *)
(* writer, file and readers agree on one download (fetchZip, IndexZip).    *)
ZipIInv ==
    /\ TypeOK /\ AbsentInv /\ IndexInv
    /\ OnlyPrefixes /\ MarkedIsWhole
    /\ ~raced => ReaderInv /\ WriterInv
=============================================================================
