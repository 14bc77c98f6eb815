----------------------------- MODULE Processes ------------------------------
(***************************************************************************)
(* Several corediff processes on one database and its manifest: `db index' *)
(* of packages and of local paths (Execute in cmd/corediff/db_index.go),   *)
(* and `db merge' (cmd/corediff/db_merge.go).  The manifest is locked, the *)
(* database is not: `db index' reads and truncates it before it asks for   *)
(* the lock, and local paths and `db merge' do not ask.  Each process      *)
(* writes entries at the offset its own file handle has reached, and the   *)
(* count from its own set.  `db merge' replaces the file, and handles that *)
(* were open stay with the old one, which nobody can open any more.        *)
(*                                                                         *)
(* The hashes of a package version are one entry of the database, written  *)
(* as the manifest entry itself.                                           *)
(***************************************************************************)
EXTENDS Manifest

CONSTANTS
    Zero,          \* what an entry reads as that a truncation made up
    MaxSessions,   \* bound on the processes that are started
    Commands,      \* what they run: a subset of {"index", "local", "merge"}
    Input          \* the entries of the databases that `db merge' reads

ASSUME ProcessesAssumption ==
    /\ Zero \notin Line /\ MaxSessions \in Nat
    /\ Commands \subseteq {"index", "local", "merge"} /\ Input \subseteq Entry

VARIABLES
    header,      \* the magic of the database file: "none" without a file,
                 \* "empty" at zero length, "zero" when it is zero bytes
    count,       \* the count behind it
    cells,       \* its entries
    pc,          \* process -> where it is
    set,         \* process -> HashDB.set
    offset,      \* process -> entries in front of its file offset
    orphan,      \* the processes whose handle is of a file that was replaced
    got,         \* process -> hashes its workers have not merged
    sessions,    \* how many processes have been started
    overlapped,  \* history: two processes have run at the same time
    torn,        \* history: the file was created and got no header (yet)
    kept,        \* history: what local paths and merges that ended put there
    lost         \* history: what killed processes had not counted yet, and
                 \* what a merge that could not read the database drops

fileVars == <<header, count, cells, orphan, torn>>
dbVars == <<fileVars, set, offset>>
history == <<sessions, overlapped, kept, lost>>
vars == <<manifestVars, dbVars, pc, got, history>>

Cell == Entry \cup {Zero}

TypeOK ==
    /\ ManifestTypeOK
    /\ header \in {"none", "empty", "zero", "ok"}
    /\ count \in Nat
    /\ cells \in Seq(Cell)
    /\ header = "empty" => count = 0 /\ cells = << >>
    /\ pc \in [Process -> {"out", "create", "header", "truncate", "ask", "wait", "work",
                           "count", "close", "local", "merge"}]
    /\ set \in [Process -> SUBSET Cell]
    /\ offset \in [Process -> Nat]
    /\ orphan \subseteq Process
    /\ got \in [Process -> SUBSET Entry]
    /\ sessions \in 0..MaxSessions
    /\ overlapped \in BOOLEAN /\ torn \in BOOLEAN
    /\ kept \subseteq Cell /\ lost \subseteq Cell

Init ==
    /\ ManifestInit
    /\ header = "none" /\ count = 0 /\ cells = << >>
    /\ pc = [p \in Process |-> "out"]
    /\ set = [p \in Process |-> {}]
    /\ offset = [p \in Process |-> 0]
    /\ got = [p \in Process |-> {}]
    /\ sessions = 0 /\ overlapped = FALSE /\ torn = FALSE
    /\ orphan = {} /\ kept = {} /\ lost = {}
-----------------------------------------------------------------------------
(* The checks of readDB: an empty file is an empty database. *)
Loadable == header \in {"none", "empty"} \/ (header = "ok" /\ count <= Len(cells))

Contents == {cells[i] : i \in 1..count}

Goto(p, to) == pc' = [pc EXCEPT ![p] = to]

Begin(p) ==
    /\ pc[p] = "out" /\ sessions < MaxSessions
    /\ sessions' = sessions + 1
    /\ overlapped' = (overlapped \/ \E q \in Process : pc[q] # "out")

(* OpenForWrite: stat and read the file; a file it cannot read ends the    *)
(* session ...                                                             *)
Open(p) ==
    /\ Commands \cap {"index", "local"} # {}
    /\ Begin(p) /\ Loadable
    /\ IF header # "none"
       THEN /\ set' = [set EXCEPT ![p] = Contents]
            /\ offset' = [offset EXCEPT ![p] = count]
            /\ Goto(p, "truncate")
       ELSE /\ Goto(p, "create")
            /\ UNCHANGED <<set, offset>>
    /\ UNCHANGED <<manifestVars, fileVars, got, kept, lost>>

(* The command a process goes on to: executeLocalPaths, or one of those    *)
(* that load the manifest.                                                 *)
Dispatch(p) ==
    \/ "index" \in Commands /\ Goto(p, "ask")
    \/ "local" \in Commands /\ Goto(p, "local")

(* ... os.Create, which also empties a file that has appeared since, ...   *)
Create(p) ==
    /\ pc[p] = "create"
    /\ header' = "empty" /\ count' = 0 /\ cells' = << >>
    /\ torn' = TRUE
    /\ orphan' = orphan \ {p}
    /\ Goto(p, "header")
    /\ UNCHANGED <<manifestVars, set, offset, got, history>>

(* ... and the header, with count 0 ...                                    *)
WriteHeader(p) ==
    /\ pc[p] = "header"
    /\ IF p \in orphan
       THEN UNCHANGED <<header, count, torn>>
       ELSE header' = "ok" /\ count' = 0 /\ torn' = FALSE
    /\ Dispatch(p)
    /\ UNCHANGED <<manifestVars, cells, orphan, set, offset, got, history>>

(* A write behind the header of an empty file leaves zero bytes for it.    *)
Extend == header' = IF header = "empty" THEN "zero" ELSE header

(* Mutant of Truncate: the tail of an interrupted merge stays, and the     *)
(* offset is behind it.                                                    *)
TruncateNot(p) ==
    /\ pc[p] = "truncate"
    /\ offset' = [offset EXCEPT ![p] = Len(cells)]
    /\ orphan' = orphan \ {p}
    /\ Dispatch(p)
    /\ UNCHANGED <<manifestVars, header, count, cells, torn, set, got, history>>

(* ... or open it again, truncate it to the entries that were read, which  *)
(* extends a file that is or has become shorter, and seek to the end.      *)
Truncate(p) ==
    /\ pc[p] = "truncate"
    /\ Extend
    /\ cells' = [i \in 1..offset[p] |-> IF i <= Len(cells) THEN cells[i] ELSE Zero]
    /\ orphan' = orphan \ {p}
    /\ Dispatch(p)
    /\ UNCHANGED <<manifestVars, count, torn, set, offset, got, history>>

(* manifest.Load, in its two steps *)
AskLock(p) ==
    /\ pc[p] = "ask"
    /\ Ask(p)
    /\ Goto(p, "wait")
    /\ UNCHANGED <<dbVars, got, history>>

LoadManifest(p) ==
    /\ pc[p] = "wait"
    /\ Load(p)
    /\ Goto(p, "work")
    /\ UNCHANGED <<dbVars, got, history>>

(* A worker indexes a version the manifest does not have and marks it.     *)
Index(p, e) ==
    /\ pc[p] = "work" /\ e \notin known[p]
    /\ Mark(p, e) \/ MarkFails(p, e)
    /\ got' = [got EXCEPT ![p] = @ \cup {e}]
    /\ UNCHANGED <<dbVars, pc, history>>

(* MarkReplaced and MarkTracked are called for entries the map may have.   *)
MarkOnly(p, e) ==
    /\ pc[p] = "work" /\ e \in known[p]
    /\ Mark(p, e)
    /\ UNCHANGED <<dbVars, pc, got, history>>

(* The handle of p writes new entries where its offset is, ... *)
AppendEntries(p, new) ==
    LET end == offset[p] + Len(new) IN
    /\ offset' = [offset EXCEPT ![p] = end]
    /\ IF p \in orphan \/ new = << >>
       THEN UNCHANGED <<header, cells>>
       ELSE /\ Extend
            /\ cells' = [i \in 1..(IF end < Len(cells) THEN Len(cells) ELSE end) |->
                           IF i > offset[p] /\ i <= end THEN new[i - offset[p]]
                           ELSE IF i <= Len(cells) THEN cells[i] ELSE Zero]

(* ... and the size of its set as the count. *)
WriteCount(p) ==
    IF p \in orphan THEN UNCHANGED <<header, count>>
                    ELSE Extend /\ count' = Cardinality(set[p])

(* HashDB.Merge: the new entries, ... *)
MergeWrite(p) ==
    /\ pc[p] = "work" /\ got[p] # {}
    /\ \E new \in SetToSeqs(got[p] \ set[p]) :
         /\ AppendEntries(p, new)
         /\ Goto(p, IF new = << >> THEN "work" ELSE "count")
    /\ set' = [set EXCEPT ![p] = @ \cup got[p]]
    /\ got' = [got EXCEPT ![p] = {}]
    /\ UNCHANGED <<manifestVars, count, orphan, torn, history>>

(* ... and the count. *)
MergeCount(p) ==
    /\ pc[p] = "count"
    /\ WriteCount(p)
    /\ Goto(p, "work")
    /\ UNCHANGED <<manifestVars, cells, orphan, torn, set, offset, got, history>>

(* addPath: HashDB.Add of a hash the set does not have. *)
AddLocal(p, e) ==
    /\ pc[p] = "local" /\ e \notin set[p]
    /\ AppendEntries(p, <<e>>)
    /\ set' = [set EXCEPT ![p] = @ \cup {e}]
    /\ UNCHANGED <<manifestVars, count, orphan, torn, pc, got, history>>

(* The workers are done: mf.Close, deferred last, runs first ... *)
CloseManifest(p) ==
    /\ pc[p] = "work" /\ got[p] = {}
    /\ Release(p)
    /\ Goto(p, "close")
    /\ UNCHANGED <<dbVars, got, history>>

Forget(p) ==
    /\ set' = [set EXCEPT ![p] = {}]
    /\ offset' = [offset EXCEPT ![p] = 0]
    /\ got' = [got EXCEPT ![p] = {}]
    /\ Goto(p, "out")

(* Mutant of CloseDB: one less than the set has. *)
CloseShort(p) ==
    /\ pc[p] \in {"close", "local"}
    /\ count' = Cardinality(set[p]) - 1
    /\ kept' = IF pc[p] = "local" THEN kept \cup set[p] ELSE kept
    /\ Forget(p)
    /\ UNCHANGED <<manifestVars, header, cells, orphan, torn, sessions, overlapped, lost>>

(* ... then db.Close, which writes the count once more, without the lock.  *)
(* For local paths this is the only count.                                 *)
CloseDB(p) ==
    /\ pc[p] \in {"close", "local"}
    /\ WriteCount(p)
    /\ kept' = IF pc[p] = "local" THEN kept \cup set[p] ELSE kept
    /\ Forget(p)
    /\ UNCHANGED <<manifestVars, cells, orphan, torn, sessions, overlapped, lost>>

(* `db merge' reads the output database, or starts from an empty one       *)
(* whatever the error is, ...                                              *)
OpenOutput(p) ==
    /\ "merge" \in Commands
    /\ Begin(p)
    /\ \/ /\ header # "none" /\ Loadable
          /\ set' = [set EXCEPT ![p] = Contents]
          /\ UNCHANGED lost
       \/ /\ header = "none" \/ ~Loadable \/ "open_error" \in Faults
          /\ lost' = lost \cup Range(cells)
          /\ UNCHANGED set
    /\ Goto(p, "merge")
    /\ UNCHANGED <<manifestVars, fileVars, offset, got, kept>>

(* ... adds the input databases, and saves the result to a new file that   *)
(* it renames over the database.                                           *)
Save(p) ==
    /\ pc[p] = "merge"
    /\ cells' \in SetToSeqs(set[p] \cup Input)
    /\ count' = Cardinality(set[p] \cup Input)
    /\ header' = "ok" /\ torn' = FALSE
    /\ orphan' = {q \in Process : pc[q] \notin {"out", "create", "truncate", "merge"}}
    /\ kept' = kept \cup set[p] \cup Input
    /\ Forget(p)
    /\ UNCHANGED <<manifestVars, sessions, overlapped, lost>>

(* An input that cannot be loaded, or a Save that fails, ends it before    *)
(* the rename.                                                             *)
MergeFails(p) ==
    /\ pc[p] = "merge"
    /\ Forget(p)
    /\ UNCHANGED <<manifestVars, fileVars, history>>

(* SIGKILL or a crash, also between os.Create and the header: the lock is  *)
(* released with the file handle.                                          *)
Kill(p) ==
    /\ "kill" \in Faults /\ pc[p] \notin {"out", "merge"}
    /\ Release(p)
    /\ Forget(p)
    /\ lost' = lost \cup got[p] \cup (IF pc[p] = "count" /\ count <= Len(cells)
                                         THEN set[p] \ Contents ELSE {})
    /\ UNCHANGED <<fileVars, sessions, overlapped, kept>>

Step(p) ==
    \/ Open(p) \/ Create(p) \/ WriteHeader(p) \/ Truncate(p) \/ AskLock(p) \/ LoadManifest(p)
    \/ \E e \in Entry : Index(p, e) \/ MarkOnly(p, e) \/ AddLocal(p, e)
    \/ MergeWrite(p) \/ MergeCount(p) \/ CloseManifest(p) \/ CloseDB(p)
    \/ OpenOutput(p) \/ Save(p) \/ MergeFails(p)

Next == \E p \in Process : Step(p) \/ Kill(p)

Spec == Init /\ [][Next]_vars
-----------------------------------------------------------------------------
(* Processes that do not overlap share the database: it loads, and when    *)
(* none runs it has what local paths and merges that ended put there, and  *)
(* everything the manifest says was recorded, but for what a killed        *)
(* process held, what a merge dropped that could not read the database,    *)
(* and one version for each failed write of the manifest, the one its cut  *)
(* line reads as.  The exception is a file that has no header because its  *)
(* creator was killed before the write: sessions fill it all the same, and *)
(* it is lost until `db merge' writes another (OpenForWrite in storage.go).*)
ApartIsSafe ==
    ~overlapped /\ ~torn =>
        /\ Loadable
        /\ (\A p \in Process : pc[p] = "out") =>
              /\ kept \subseteq Contents \cup lost
              /\ Cardinality(recorded \ (Contents \cup lost)) <= failed

(* Processes on one database do not harm each other: when all of them have *)
(* ended normally, every recorded version is in a database that loads      *)
(* ("flock'd for cross-process safety", doc/indexing.md).  The code does   *)
(* not keep this: the lock is taken after the database has been read.      *)
CrossProcessSafe ==
    (\A p \in Process : pc[p] = "out") =>
        Loadable /\ recorded \subseteq Contents
=============================================================================
