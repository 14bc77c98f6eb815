------------------------------- MODULE HashDB -------------------------------
(***************************************************************************)
(* The hash database of internal/hashdb as one process sees it: a set of   *)
(* hashes in memory backed by a file of a 16-byte header (magic, version,  *)
(* count) and 8-byte entries of which the first `count' are data.          *)
(*                                                                         *)
(* Every system call of Merge, Flush, Close and OpenForWrite is a step of  *)
(* its own, so that the process can be killed, or the machine can lose     *)
(* power, between any two of them.  HashDB.mu makes the methods mutually   *)
(* exclusive: a method starts only at pc = "idle" (or "closed").           *)
(*                                                                         *)
(* `file' is what open(2) and read(2) show; `disk' is what the last        *)
(* successful fsync made permanent.                                        *)
(***************************************************************************)
EXTENDS Naturals, Sequences, FiniteSets, SequencesExt

CONSTANTS
    Hash,    \* the hashes the indexers compute (XXH3 values)
    Zero,    \* what an entry reads as when its block never reached the disk
    Modes,   \* how sessions insert: "merge" (worker pool), "add" (direct)
    Faults   \* what the environment may do besides killing the process:
             \*   "power"        the machine loses power
             \*   "create_fail"  the write of the header fails
             \*   "short_write"  a write of entries lands a proper prefix, a
             \*                  write of the count nothing
             \*   "sync_fail"    fsync(2) fails

ASSUME HashAssumption == IsFiniteSet(Hash) /\ Zero \notin Hash
ASSUME ModesAssumption == Modes \subseteq {"merge", "add"}
ASSUME FaultsAssumption ==
    Faults \subseteq {"power", "create_fail", "short_write", "sync_fail"}

VARIABLES
    file,     \* the file as other processes and later opens see it
    disk,     \* the part of it a power loss cannot take away
    set,      \* HashDB.set of the running process
    mode,     \* how the running session inserts hashes
    pc,       \* where the running process is
    pending,  \* Merge: the entries still to be written
    onSynced, \* where pc goes after the sync that follows writeCount
    acked,    \* history: hashes covered by a Merge, Flush or Close that returned
    added,    \* history: hashes ever handed to Add or Merge
    cut       \* history: the creation of the file was cut short

vars == <<file, disk, set, mode, pc, pending, onSynced, acked, added, cut>>
-----------------------------------------------------------------------------
Cell == Hash \cup {Zero}

(* "short" and "zero" are headers without a magic: shorter than 16 bytes,  *)
(* and 16 zero bytes.                                                      *)
Header == {"none", "empty", "short", "zero", "ok"}

Absent == [hdr |-> "none", count |-> 0, entries |-> << >>]

File == [hdr : Header, count : Nat, entries : Seq(Cell)]

(* The checks of readDB: an empty file is an empty database, any other     *)
(* needs the magic and at least as many entries as the header counts.      *)
Loadable(f) ==
    \/ f.hdr \in {"none", "empty"}
    \/ f.hdr = "ok" /\ f.count <= Len(f.entries)

(* What readDB returns, as the set that Open and OpenForWrite build.       *)
Contents(f) == {f.entries[i] : i \in 1..f.count}

Creating == pc \in {"created_file", "wrote_header"}

OpenPC == {"idle", "write", "sync_data", "count", "sync_count"}

TypeOK ==
    /\ file \in File
    /\ disk \in File
    /\ set \subseteq Cell
    /\ mode \in {"merge", "add"}
    /\ pc \in {"down", "created_file", "wrote_header", "idle", "write",
               "sync_data", "count", "sync_count", "closed"}
    /\ pending \in Seq(Hash)
    /\ onSynced \in {"idle", "closed"}
    /\ acked \subseteq Cell
    /\ added \subseteq Hash
    /\ cut \in BOOLEAN

Init ==
    /\ file = Absent
    /\ disk = Absent
    /\ set = {}
    /\ mode \in Modes
    /\ pc = "down"
    /\ pending = << >>
    /\ onSynced = "idle"
    /\ acked = {}
    /\ added = {}
    /\ cut = FALSE
-----------------------------------------------------------------------------
(* f.Sync(): everything written so far becomes permanent, or nothing does. *)
Sync ==
    \/ disk' = file
    \/ "sync_fail" \in Faults /\ UNCHANGED disk

(***************************************************************************)
(* OpenForWrite                                                            *)
(***************************************************************************)

(* No file: os.Create ... *)
Create ==
    /\ pc = "down" /\ file.hdr = "none"
    /\ file' = [hdr |-> "empty", count |-> 0, entries |-> << >>]
    /\ pc' = "created_file"
    /\ mode' \in Modes
    /\ cut' = FALSE
    /\ UNCHANGED <<disk, set, pending, onSynced, acked, added>>

(* ... then the header with count 0, in one write; when that write fails   *)
(* OpenForWrite gives up, and what it wrote of the header stays behind ... *)
WriteHeader ==
    /\ pc = "created_file"
    /\ \/ /\ file' = [file EXCEPT !.hdr = "ok"]
          /\ pc' = "wrote_header" /\ UNCHANGED cut
       \/ /\ "create_fail" \in Faults
          /\ \E h \in {"empty", "short"} : file' = [file EXCEPT !.hdr = h]
          /\ pc' = "down" /\ cut' = TRUE
    /\ UNCHANGED <<disk, set, mode, pending, onSynced, acked, added>>

(* ... then fsync, whose failure is returned. *)
SyncHeader ==
    /\ pc = "wrote_header"
    /\ \/ disk' = file /\ pc' = "idle"
       \/ "sync_fail" \in Faults /\ UNCHANGED disk /\ pc' = "down"
    /\ UNCHANGED <<file, set, mode, pending, onSynced, acked, added, cut>>

(* Mutant of OpenExisting: the uncounted tail is not truncated. *)
OpenWithoutTruncate ==
    /\ pc = "down" /\ file.hdr # "none" /\ Loadable(file)
    /\ set' = Contents(file)
    /\ pc' = "idle"
    /\ mode' \in Modes
    /\ UNCHANGED <<file, disk, pending, onSynced, acked, added, cut>>

(* Mutant of OpenExisting: all entries are loaded, counted or not. *)
OpenWithoutCount ==
    /\ pc = "down" /\ file.hdr # "none" /\ Loadable(file)
    /\ set' = Range(file.entries)
    /\ pc' = "idle"
    /\ mode' \in Modes
    /\ UNCHANGED <<file, disk, pending, onSynced, acked, added, cut>>

(* Mutant of OpenExisting: the size is not checked against the count, and  *)
(* the truncation extends a short file with zero entries.                  *)
OpenUnchecked ==
    /\ pc = "down" /\ file.hdr = "ok"
    /\ file' = [file EXCEPT !.entries =
                   [i \in 1..file.count |-> IF i <= Len(file.entries)
                                            THEN file.entries[i] ELSE Zero]]
    /\ set' = Contents(file')
    /\ pc' = "idle"
    /\ mode' \in Modes
    /\ UNCHANGED <<disk, pending, onSynced, acked, added, cut>>

(* A file readDB accepts: load the counted entries, truncate what follows  *)
(* them.  Truncating an empty file to header size makes 16 zero bytes.     *)
OpenExisting ==
    /\ pc = "down" /\ file.hdr # "none" /\ Loadable(file)
    /\ set' = Contents(file)
    /\ file' = [hdr     |-> IF file.hdr = "empty" THEN "zero" ELSE file.hdr,
                count   |-> file.count,
                entries |-> SubSeq(file.entries, 1, file.count)]
    /\ pc' = "idle"
    /\ mode' \in Modes
    /\ UNCHANGED <<disk, pending, onSynced, acked, added, cut>>

(***************************************************************************)
(* Add (executeLocalPaths, executeGitURL)                                  *)
(***************************************************************************)
Add(h) ==
    /\ pc \in {"idle", "closed"} /\ mode = "add"
    /\ h \notin set
    /\ set' = set \cup {h}
    /\ added' = added \cup {h}
    /\ \/ pc = "idle" /\ file' = [file EXCEPT !.entries = Append(@, h)]
       \/ UNCHANGED file /\ (pc = "closed" \/ "short_write" \in Faults)
    /\ UNCHANGED <<disk, mode, pc, pending, onSynced, acked, cut>>

(* Mutant of MergeCollect: what is already in the database is appended too. *)
MergeCollectAll(new) ==
    /\ pc = "idle" /\ mode = "merge"
    /\ new # {}
    /\ set' = set \cup new
    /\ added' = added \cup new
    /\ pending' \in SetToSeqs(new)
    /\ pc' = "write"
    /\ UNCHANGED <<file, disk, mode, onSynced, acked, cut>>

(***************************************************************************)
(* Merge (concurrentMerger).  `new' is what the other database has and     *)
(* this one has not; map iteration appends it in any order.  With no file  *)
(* handle the merge stays in memory; with nothing new Merge changes        *)
(* nothing.                                                                *)
(***************************************************************************)
MergeCollect(new) ==
    /\ pc \in {"idle", "closed"} /\ mode = "merge"
    /\ new # {} /\ new \cap set = {}
    /\ set' = set \cup new
    /\ added' = added \cup new
    /\ \/ /\ pc = "idle"
          /\ pending' \in SetToSeqs(new)
          /\ pc' = "write"
       \/ pc = "closed" /\ UNCHANGED <<pending, pc>>
    /\ UNCHANGED <<file, disk, mode, onSynced, acked, cut>>

(* Mutant of MergeWrite: the count is written before the data is synced. *)
MergeWriteUnsynced ==
    /\ pc = "write"
    /\ file' = [file EXCEPT !.entries = @ \o pending]
    /\ pending' = << >>
    /\ pc' = "count"
    /\ onSynced' = "idle"
    /\ UNCHANGED <<disk, set, mode, acked, added, cut>>

(* 1. append the entries in one write, whose error is ignored *)
MergeWrite ==
    /\ pc = "write"
    /\ \E n \in 0..Len(pending) :
          /\ n = Len(pending) \/ "short_write" \in Faults
          /\ file' = [file EXCEPT !.entries = @ \o SubSeq(pending, 1, n)]
    /\ pending' = << >>
    /\ pc' = "sync_data"
    /\ UNCHANGED <<disk, set, mode, onSynced, acked, added, cut>>

(* 2. sync them *)
MergeSyncData ==
    /\ pc = "sync_data"
    /\ Sync
    /\ pc' = "count"
    /\ onSynced' = "idle"
    /\ UNCHANGED <<file, set, mode, pending, acked, added, cut>>

(* Flush and Close start here: they write the count and sync once. *)
FlushBegin ==
    /\ pc = "idle"
    /\ pc' = "count"
    /\ onSynced' = "idle"
    /\ UNCHANGED <<file, disk, set, mode, pending, acked, added, cut>>

CloseBegin ==
    /\ pc = "idle"
    /\ pc' = "count"
    /\ onSynced' = "closed"
    /\ UNCHANGED <<file, disk, set, mode, pending, acked, added, cut>>

(* Mutant of WriteCount: one less than the set has. *)
WriteCountShort ==
    /\ pc = "count"
    /\ file' = [file EXCEPT !.count = Cardinality(set) - 1]
    /\ pc' = "sync_count"
    /\ UNCHANGED <<disk, set, mode, pending, onSynced, acked, added, cut>>

(* 3. writeCount: len(set) into the header, and the error ignored again *)
WriteCount ==
    /\ pc = "count"
    /\ \/ file' = [file EXCEPT !.count = Cardinality(set)]
       \/ "short_write" \in Faults /\ UNCHANGED file
    /\ pc' = "sync_count"
    /\ UNCHANGED <<disk, set, mode, pending, onSynced, acked, added, cut>>

(* 4. sync the header; the method returns *)
SyncCount ==
    /\ pc = "sync_count"
    /\ Sync
    /\ pc' = onSynced
    /\ acked' = acked \cup set
    /\ UNCHANGED <<file, set, mode, pending, onSynced, added, cut>>
-----------------------------------------------------------------------------
(***************************************************************************)
(* The environment                                                         *)
(***************************************************************************)
Die ==
    /\ set' = {}
    /\ pending' = << >>
    /\ onSynced' = "idle"
    /\ pc' = "down"
    /\ UNCHANGED <<mode, acked, added>>

(* The process exits or is killed (also in the middle of Merge's write,    *)
(* after some of the entries); the page cache survives.  Between os.Create *)
(* and the write of the header that leaves an empty file.                  *)
Kill ==
    /\ pc # "down"
    /\ \E n \in 0..Len(pending) :
          file' = [file EXCEPT !.entries = @ \o SubSeq(pending, 1, n)]
    /\ cut' = (cut \/ pc = "created_file")
    /\ UNCHANGED disk
    /\ Die

(* What a power loss may leave of the unsynced part: the old or the new    *)
(* header and count; any length between the synced and the current one; an *)
(* entry as it was, as it is, or as a block that was allocated and never   *)
(* written.                                                                *)
SurvivesAs(f) ==
    /\ f.hdr \in {disk.hdr, file.hdr}
                 \cup (IF disk.hdr = file.hdr THEN {} ELSE {"empty", "zero"})
    /\ f.count \in {disk.count, file.count}
    /\ f.hdr \in {"none", "empty"} => f.count = 0 /\ f.entries = << >>
    /\ f.hdr = "ok" =>
          \/ Len(f.entries) >= Len(disk.entries)
          \/ Len(f.entries) >= Len(file.entries)
    /\ \A i \in 1..Len(f.entries) :
          \/ i <= Len(file.entries) /\ f.entries[i] = file.entries[i]
          \/ i <= Len(disk.entries) /\ f.entries[i] = disk.entries[i]
          \/ i > Len(disk.entries) /\ f.entries[i] = Zero

PowerLoss ==
    /\ "power" \in Faults
    /\ \E n \in {m \in 0..Len(file.entries) + Len(disk.entries) :
                    m <= Len(file.entries) \/ m <= Len(disk.entries)} :
       \E e \in [1..n -> Cell], hdr \in Header, count \in {disk.count, file.count} :
          LET f == [hdr |-> hdr, count |-> count, entries |-> e]
          IN  SurvivesAs(f) /\ file' = f /\ disk' = f
    /\ cut' = (cut \/ (disk.hdr = "none" /\ file'.hdr \in {"empty", "zero"}))
    /\ Die
-----------------------------------------------------------------------------
Next ==
    \/ Create \/ WriteHeader \/ SyncHeader \/ OpenExisting
    \/ \E h \in Hash : Add(h)
    \/ \E new \in SUBSET Hash : MergeCollect(new)
    \/ MergeWrite \/ MergeSyncData
    \/ FlushBegin \/ CloseBegin \/ WriteCount \/ SyncCount
    \/ Kill \/ PowerLoss

Spec == Init /\ [][Next]_vars
-----------------------------------------------------------------------------
(* Hashes whose Merge, Flush or Close returned are in the file that the    *)
(* next open reads, wherever a kill or a power loss falls among the steps  *)
(* of this session or a later one ("header count is updated + synced for   *)
(* crash durability", Merge in hashdb.go).  The exception is `cut': a file *)
(* left without a header by a crash in its creation is opened, filled and  *)
(* acknowledged all the same, and then refused by every open.              *)
Durability == ~cut => Loadable(file) /\ acked \subseteq Contents(file)

(* A database that loads never yields a hash that nobody inserted: not the *)
(* tail of an interrupted write read as data (readDB ignores what follows  *)
(* the counted entries, OpenForWrite truncates it), and, where Merge syncs *)
(* the entries before it counts them, not a hole that a power loss left.   *)
NoInvention == Loadable(file) => Contents(file) \subseteq added

(* While the handle is open every hash of the process is in the file, or   *)
(* about to be, exactly once: len(set), which writeCount stores, is the    *)
(* number of entries behind the header.                                    *)
FileMatchesMemory ==
    pc \in OpenPC =>
        /\ Len(file.entries) + Len(pending) = Cardinality(set)
        /\ Range(file.entries) \cup Range(pending) = set
-----------------------------------------------------------------------------
(***************************************************************************)
(* The inductive invariant behind these properties, for an environment     *)
(* whose writes and syncs work and that loses power only under sessions    *)
(* that merge.  Kills are possible in every state.                         *)
(***************************************************************************)
Reliable ==
    /\ Faults \subseteq {"power"}
    /\ "power" \in Faults => Modes \subseteq {"merge"}

(* What a file whose creation was cut short holds between sessions is out  *)
(* of reach, or nothing.                                                   *)
Lost == cut /\ pc = "down"

(* A file without magic comes only from a creation that was cut short, and *)
(* until the header is synced there is nothing on the disk.                *)
HeaderInv ==
    /\ mode \in Modes
    /\ pc = "created_file" => file = [hdr |-> "empty", count |-> 0, entries |-> << >>]
    /\ pc = "wrote_header" => file = [hdr |-> "ok", count |-> 0, entries |-> << >>]
    /\ Creating => disk = Absent /\ ~cut
    /\ Creating \/ pc = "down" => set = {}
    /\ pc \in OpenPC \cup {"closed"} => file.hdr \in {"zero", "ok"}
    /\ pc # "write" => pending = << >>
    /\ cut => file.hdr \in {"none", "empty", "zero"}
    /\ ~cut /\ ~Creating => file.hdr \in {"none", "ok"}
    /\ ~cut => disk.hdr \in {"none", file.hdr}
    /\ file.hdr = "none" => file = Absent
    /\ file.hdr = "empty" => file.count = 0 /\ file.entries = << >>
    /\ disk.hdr = "none" => disk = Absent
    /\ disk.hdr = "empty" => disk.count = 0
    /\ file.hdr = "none" => disk.hdr = "none"
    /\ disk.hdr \in {"none", "empty", file.hdr}
    /\ disk.hdr \in {"none", "empty"} => acked = {}

(* The counted entries are there, and are distinct. *)
CountInv ==
    ~Lost =>
        /\ file.count <= Len(file.entries)
        /\ disk.count <= file.count
        /\ \A i, j \in 1..file.count : file.entries[i] = file.entries[j] => i = j

(* Entries, written or pending, enumerate the set of the open database. *)
OpenInv ==
    pc \in OpenPC =>
        /\ IsInjective(file.entries) /\ IsInjective(pending)
        /\ Range(file.entries) \cap Range(pending) = {}
        /\ pc = "sync_count" => file.count = Len(file.entries)

(* The counted entries are on the disk, and all entries are except while   *)
(* Merge has written and not yet synced them.                              *)
StableInv ==
    "power" \in Faults /\ ~Lost =>
        /\ file.count <= Len(disk.entries)
        /\ \A i \in 1..file.count : disk.entries[i] = file.entries[i]
        /\ pc \in OpenPC \ {"sync_data"} =>
              /\ Len(file.entries) <= Len(disk.entries)
              /\ \A i \in 1..Len(file.entries) : disk.entries[i] = file.entries[i]

HistoryInv ==
    ~Lost =>
        /\ acked \subseteq Contents(file)
        /\ "power" \in Faults => acked \subseteq Contents(disk)
        /\ Contents(file) \subseteq added
        /\ set \subseteq added

IInv ==
    /\ TypeOK /\ HeaderInv /\ CountInv
    /\ FileMatchesMemory /\ OpenInv /\ StableInv /\ HistoryInv
-----------------------------------------------------------------------------
(* What scans and later sessions rely on: the database implements the      *)
(* abstract durable set.  A file without a header holds nothing for them,  *)
(* however much a session writes into it.                                  *)
Readable(f) == IF f.hdr = "ok" THEN Contents(f) ELSE {}

Abs == INSTANCE DurableSet WITH
          Elem    <- Cell,
          live    <- pc # "down",
          mem     <- set,
          content <- Readable(file),
          stable  <- Readable(disk)

AbsSpec == Abs!Spec
=============================================================================
