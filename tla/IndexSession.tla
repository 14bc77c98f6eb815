---------------------------- MODULE IndexSession ----------------------------
(***************************************************************************)
(* `corediff db index' with a manifest (cmd/corediff/db_index.go): main    *)
(* starts one worker per job under a semaphore, each worker indexes the    *)
(* versions of a package into a database of its own, records every version *)
(* in the manifest as it completes, and merges its database into the       *)
(* shared one at the end.  Sessions follow one another; a session can be   *)
(* killed, or interrupted by a signal, at any step.                        *)
(*                                                                         *)
(* The hashes of a package version are one element, the version itself:    *)
(* those of what could be read of it, when some of it could not.           *)
(* A merge into the open database is one step: module HashDB shows that a  *)
(* crash leaves a merge either published or not.  The database file is     *)
(* taken to have its header; module Processes is about one that has not.   *)
(***************************************************************************)
EXTENDS Naturals, FiniteSets

CONSTANTS
    Slot,       \* places in the semaphore: parallelLimit() of them
    Pkg,        \* package names and git URLs
    GitURL,     \* those that are git URLs
    Version,
    NoPin,      \* the pin of an argument without a version
    Upstream,   \* package -> versions the repository offers
    LockDeps,   \* git URL -> package versions its composer.lock files name
    Replaces,   \* package -> packages its composer.json replaces
    Args,       \* packages given to --packagist (with their position)
    Lock,       \* package versions in the composer.lock given to --composer
    Unreadable, \* package versions with files that may fail to be read
    Commands,   \* subset of {"packagist", "composer", "update", "giturl"}
    Faults      \* subset of {"kill", "signal", "manifest_write"}

Item == Pkg \X Version

Job == [pkg : Pkg, pin : Version \cup {NoPin}, pos : Nat]

ASSUME SessionAssumption ==
    /\ Pkg # {} /\ GitURL \subseteq Pkg /\ NoPin \notin Version
    /\ Upstream \in [Pkg -> SUBSET Version]
    /\ LockDeps \in [Pkg -> SUBSET Item]
    /\ Replaces \in [Pkg -> SUBSET Pkg]
    /\ Args \subseteq Job
    /\ Lock \subseteq Item /\ Unreadable \subseteq Item
    /\ Commands \subseteq {"packagist", "composer", "update", "giturl"}

VARIABLES
    proc,        \* "down", "running" (main in its loop or in wait), "closing"
    cmd,         \* the command of the session
    queue,       \* jobs main has not started yet
    worker,      \* slot -> the goroutine that holds it
    handle,      \* the shared database has its write handle (db.file # nil)
    mem,         \* the shared database in memory
    saved,       \* the database file, as the next session will load it
    indexed, replaced, tracked,    \* the manifest
    interrupted, \* the signal handler has run db.Close
    computed,    \* history: versions whose hashes were computed to the end
    partly,      \* history: versions computed without what could not be read
    lost,        \* history: recorded versions that a killed or interrupted
                 \* session still held
    claimed      \* history: versions --composer goes on to record although
                 \* they could not be indexed

manifest == <<indexed, replaced, tracked>>
db == <<handle, mem, saved>>
history == <<computed, partly, lost, claimed>>
vars == <<proc, cmd, queue, worker, handle, mem, saved, indexed, replaced,
          tracked, interrupted, computed, partly, lost, claimed>>
-----------------------------------------------------------------------------
WorkerPC == {"free", "track", "fetch", "index", "mark", "replaces", "deps",
             "composer", "merge"}

NoJob == [pkg |-> CHOOSE p \in Pkg : TRUE, pin |-> NoPin, pos |-> 0]

Free == [pc |-> "free", job |-> NoJob, todo |-> {}, done |-> {}, got |-> {},
         deps |-> FALSE]

TypeOK ==
    /\ proc \in {"down", "running", "closing"}
    /\ cmd \in Commands
    /\ queue \subseteq Job
    /\ worker \in [Slot -> [pc : WorkerPC, job : Job, todo : SUBSET Item,
                            done : SUBSET Item, got : SUBSET Item,
                            deps : BOOLEAN]]
    /\ handle \in BOOLEAN
    /\ mem \subseteq Item /\ saved \subseteq Item
    /\ indexed \subseteq Item /\ replaced \subseteq Pkg /\ tracked \subseteq Pkg
    /\ interrupted \in BOOLEAN
    /\ computed \subseteq Item /\ partly \subseteq Item
    /\ lost \subseteq Item /\ claimed \subseteq Item

Init ==
    /\ proc = "down"
    /\ cmd \in Commands
    /\ queue = {}
    /\ worker = [s \in Slot |-> Free]
    /\ handle = FALSE
    /\ mem = {} /\ saved = {}
    /\ indexed = {} /\ replaced = {} /\ tracked = {}
    /\ interrupted = FALSE
    /\ computed = {} /\ partly = {} /\ lost = {} /\ claimed = {}
-----------------------------------------------------------------------------
(***************************************************************************)
(* Main                                                                    *)
(***************************************************************************)
Bare(p) == [pkg |-> p, pin |-> NoPin, pos |-> 1]

(* newPkgs: what neither IsIndexed nor IsReplaced filters out of the lock   *)
(* file.  With none left the command returns before it starts a worker.    *)
NewPackages ==
    {[pkg |-> i[1], pin |-> i[2], pos |-> 1] :
        i \in {x \in Lock \ indexed : x[1] \notin replaced}}

(* gitURLs and packagistPkgs: a replaced package is dropped, a URL is not.  *)
PackagesToUpdate ==
    {Bare(p) : p \in {q \in tracked : q \in GitURL \/ q \notin replaced}}

(* The jobs of a session, settled before its first worker starts. *)
Plan(c) ==
    CASE c = "packagist" -> Args
      [] c = "composer"  -> NewPackages
      [] c = "update"    -> PackagesToUpdate
      [] c = "giturl"    -> {Bare(u) : u \in GitURL}

(* Mutant of Start: the database starts out empty. *)
StartAfresh(c) ==
    /\ proc = "down"
    /\ c = "update" => tracked # {}
    /\ proc' = "running"
    /\ cmd' = c
    /\ queue' = Plan(c)
    /\ handle' = TRUE
    /\ mem' = {}
    /\ UNCHANGED <<worker, saved, manifest, interrupted, history>>

(* Execute: OpenForWrite, then manifest.Load.  Update refuses to run       *)
(* without tracked packages.                                               *)
Start(c) ==
    /\ proc = "down"
    /\ c = "update" => tracked # {}
    /\ proc' = "running"
    /\ cmd' = c
    /\ queue' = Plan(c)
    /\ handle' = TRUE
    /\ mem' = saved
    /\ UNCHANGED <<worker, saved, manifest, interrupted, history>>

(* executeGitURL has no worker pool: the job runs alone and its hashes go  *)
(* straight into the shared database.                                      *)
Direct == cmd = "giturl"

FirstStep == CASE cmd = "composer" -> "composer"
               [] cmd = "update"   -> "fetch"
               [] OTHER            -> "track"

(* concurrentMerger.run: take a place in the semaphore, start the worker. *)
Spawn(s) ==
    /\ proc = "running"
    /\ worker[s].pc = "free"
    /\ Direct => \A t \in Slot : worker[t].pc = "free"
    /\ \E j \in queue :
          /\ queue' = queue \ {j}
          /\ worker' = [worker EXCEPT ![s] = [Free EXCEPT !.pc = FirstStep,
                                                          !.job = j]]
    /\ UNCHANGED <<proc, cmd, db, manifest, interrupted, history>>

(* Mutant of Drain: main returns without waiting for the workers. *)
DrainAtOnce ==
    /\ proc = "running" /\ queue = {}
    /\ proc' = "closing"
    /\ UNCHANGED <<cmd, queue, worker, db, manifest, interrupted, history>>

(* wait returns; the deferred mf.Close and signal.Stop run ... *)
Drain ==
    /\ proc = "running" /\ queue = {}
    /\ \A s \in Slot : worker[s].pc = "free"
    /\ proc' = "closing"
    /\ UNCHANGED <<cmd, queue, worker, db, manifest, interrupted, history>>

(* What the process may hold that no file has: what the workers have not   *)
(* merged, what a direct session has not flushed, and what was merged      *)
(* after the signal handler closed the file.                               *)
InFlight ==
    ((UNION {worker[s].got : s \in Slot})
        \cup IF Direct \/ interrupted THEN mem ELSE {}) \ saved

(* Mutant of Exit: the database is not closed. *)
ExitUnsaved ==
    /\ proc = "closing"
    /\ proc' = "down"
    /\ handle' = FALSE
    /\ lost' = IF interrupted THEN lost \cup (InFlight \cap indexed) ELSE lost
    /\ mem' = {}
    /\ interrupted' = FALSE
    /\ UNCHANGED <<cmd, queue, worker, saved, manifest, computed, partly,
                   claimed>>

(* ... then the deferred db.Close, a no-op after the signal handler's. *)
Exit ==
    /\ proc = "closing"
    /\ proc' = "down"
    /\ handle' = FALSE
    /\ saved' = IF handle THEN mem ELSE saved
    /\ lost' = IF interrupted THEN lost \cup (InFlight \cap indexed) ELSE lost
    /\ mem' = {}
    /\ interrupted' = FALSE
    /\ UNCHANGED <<cmd, queue, worker, manifest, computed, partly,
                   claimed>>
-----------------------------------------------------------------------------
(***************************************************************************)
(* A worker                                                                *)
(***************************************************************************)
Goto(s, pc) == worker' = [worker EXCEPT ![s].pc = pc]

(* Mutant of Track: a worker that gives up keeps its place. *)
TrackKeepsPlace(s) ==
    /\ worker[s].pc = "track"
    /\ LET job == worker[s].job IN
       \/ /\ tracked' = IF job.pin = NoPin THEN tracked \cup {job.pkg} ELSE tracked
          /\ Goto(s, "fetch")
       \/ /\ "manifest_write" \in Faults
          /\ UNCHANGED tracked
          /\ Goto(s, "gone")
    /\ UNCHANGED <<proc, cmd, queue, db, indexed, replaced, interrupted,
                   history>>

(* MarkTracked of an unpinned argument; on a write error the job gives up. *)
Track(s) ==
    /\ worker[s].pc = "track"
    /\ LET job == worker[s].job IN
       \/ /\ tracked' = IF job.pin = NoPin THEN tracked \cup {job.pkg} ELSE tracked
          /\ Goto(s, "fetch")
       \/ /\ "manifest_write" \in Faults
          /\ job.pin = NoPin /\ job.pkg \notin tracked
          /\ UNCHANGED tracked
          /\ Goto(s, "merge")
    /\ UNCHANGED <<proc, cmd, queue, db, indexed, replaced, interrupted,
                   history>>

(* Versions, or RefsFromTags, then the filter of what the manifest has.    *)
(* A failed fetch and an empty rest end the job.                           *)
Fetch(s) ==
    /\ worker[s].pc = "fetch"
    /\ LET job  == worker[s].job
           want == {v \in Upstream[job.pkg] : job.pin \in {v, NoPin}}
           rest == ({job.pkg} \X want) \ indexed
       IN  \/ rest # {} /\ worker' = [worker EXCEPT ![s].todo = rest,
                                                    ![s].pc = "index"]
           \/ Goto(s, "merge")
    /\ UNCHANGED <<proc, cmd, queue, db, manifest, interrupted, history>>

(* Mutant of IndexVersion: a version that failed is recorded as well. *)
IndexVersionAnyway(s) ==
    /\ worker[s].pc = "index"
    /\ \E i \in worker[s].todo, ok \in BOOLEAN :
          /\ computed' = IF ok THEN computed \cup {i} ELSE computed
          /\ worker' = [worker EXCEPT ![s].todo = @ \ {i}, ![s].done = {i},
                                      ![s].pc = "mark"]
    /\ UNCHANGED <<proc, cmd, queue, db, manifest, interrupted, partly, lost,
                   claimed>>

(* The files of a version: a blob or an archive member that cannot be read *)
(* is skipped, and the version counts as indexed all the same.             *)
ReadFiles(i) ==
    \/ computed' = computed \cup {i} /\ UNCHANGED partly
    \/ i \in Unreadable /\ partly' = partly \cup {i} /\ UNCHANGED computed

(* One version of indexVersions or IndexRepo: its files are read, or it    *)
(* fails (no ref, no dist, bad archive) and is skipped with a warning.     *)
IndexVersion(s) ==
    /\ worker[s].pc = "index"
    /\ \E i \in worker[s].todo :
       \/ /\ ReadFiles(i)
          /\ worker' = [worker EXCEPT ![s].todo = @ \ {i},
                                      ![s].done = {i},
                                      ![s].got = IF Direct THEN @ ELSE @ \cup {i},
                                      ![s].pc = "mark"]
          /\ mem' = IF Direct THEN mem \cup {i} ELSE mem
       \/ /\ worker' = [worker EXCEPT ![s].todo = @ \ {i}]
          /\ UNCHANGED <<computed, partly, mem>>
    /\ UNCHANGED <<proc, cmd, queue, handle, saved, manifest, interrupted, lost,
                   claimed>>

(* Mutant of Mark: the entry names the package only. *)
MarkPackage(s) ==
    /\ worker[s].pc = "mark"
    /\ indexed' = indexed \cup {i[1] : i \in worker[s].done}
    /\ Goto(s, "index")
    /\ UNCHANGED <<proc, cmd, queue, db, replaced, tracked, interrupted,
                   history>>

(* OnVersionDone: MarkIndexed; a write error is only a warning.  Composer  *)
(* marks its one version here too.                                         *)
Mark(s) ==
    /\ worker[s].pc = "mark"
    /\ \/ indexed' = indexed \cup worker[s].done
       \/ "manifest_write" \in Faults /\ UNCHANGED indexed
    /\ worker' = [worker EXCEPT ![s].done = {},
                                ![s].pc = IF cmd = "composer" THEN "merge"
                                                              ELSE "index"]
    /\ UNCHANGED <<proc, cmd, queue, db, replaced, tracked, interrupted,
                   history>>

(* No version left: the package's own are followed by its replaces, the    *)
(* lock dependencies of a git URL by the merge.                            *)
IndexDone(s) ==
    /\ worker[s].pc = "index" /\ worker[s].todo = {}
    /\ Goto(s, IF worker[s].deps THEN "merge" ELSE "replaces")
    /\ UNCHANGED <<proc, cmd, queue, db, manifest, interrupted, history>>

(* MarkReplaced for what a git index found in the versions it read; the    *)
(* zip fallback finds nothing, and a write error is only a warning.        *)
MarkReplaces(s) ==
    /\ worker[s].pc = "replaces"
    /\ LET p == worker[s].job.pkg IN
       /\ \E found \in SUBSET Replaces[p] : replaced' = replaced \cup found
       /\ Goto(s, IF p \in GitURL THEN "deps" ELSE "merge")
    /\ UNCHANGED <<proc, cmd, queue, db, indexed, tracked, interrupted,
                   history>>

(* The lock dependencies the index found, without those the manifest has   *)
(* indexed or replaced.                                                    *)
Dependencies(s) ==
    /\ worker[s].pc = "deps"
    /\ \E found \in SUBSET LockDeps[worker[s].job.pkg] :
       worker' = [worker EXCEPT
                    ![s].todo = {i \in found \ indexed : i[1] \notin replaced},
                    ![s].deps = TRUE,
                    ![s].pc = "index"]
    /\ UNCHANGED <<proc, cmd, queue, db, manifest, interrupted, history>>

(* indexComposerPackage returns nothing: the worker goes on to mark the    *)
(* version whether or not its hashes were computed.                        *)
IndexComposerPackage(s) ==
    /\ worker[s].pc = "composer"
    /\ LET i == <<worker[s].job.pkg, worker[s].job.pin>> IN
       /\ \/ /\ worker' = [worker EXCEPT ![s].got = {i}, ![s].done = {i},
                                         ![s].pc = "mark"]
             /\ ReadFiles(i)
             /\ UNCHANGED claimed
          \/ /\ worker' = [worker EXCEPT ![s].done = {i}, ![s].pc = "mark"]
             /\ claimed' = claimed \cup {i}
             /\ UNCHANGED <<computed, partly>>
    /\ UNCHANGED <<proc, cmd, queue, db, manifest, interrupted, lost>>

(* Mutant of Merge: the merge stays in memory. *)
MergeMemory(s) ==
    /\ worker[s].pc = "merge"
    /\ mem' = mem \cup worker[s].got
    /\ worker' = [worker EXCEPT ![s] = Free]
    /\ UNCHANGED <<proc, cmd, queue, handle, saved, manifest, interrupted,
                   history>>

(* The worker's last step: Merge under the merger's mutex, which reaches   *)
(* the file only while it is open, and the release of the semaphore.       *)
Merge(s) ==
    /\ worker[s].pc = "merge"
    /\ mem' = mem \cup worker[s].got
    /\ saved' = IF handle /\ ~Direct THEN mem' ELSE saved
    /\ worker' = [worker EXCEPT ![s] = Free]
    /\ UNCHANGED <<proc, cmd, queue, handle, manifest, interrupted, history>>

Work(s) ==
    \/ Track(s) \/ Fetch(s) \/ IndexVersion(s) \/ Mark(s) \/ IndexDone(s)
    \/ MarkReplaces(s) \/ Dependencies(s) \/ IndexComposerPackage(s) \/ Merge(s)
-----------------------------------------------------------------------------
(***************************************************************************)
(* Signals and kills                                                       *)
(***************************************************************************)

(* The signal handler: db.Close ... *)
Interrupt ==
    /\ "signal" \in Faults
    /\ proc = "running" /\ handle
    /\ interrupted' = TRUE
    /\ handle' = FALSE
    /\ saved' = mem
    /\ UNCHANGED <<proc, cmd, queue, worker, mem, manifest, history>>

Die ==
    /\ proc' = "down"
    /\ queue' = {}
    /\ worker' = [s \in Slot |-> Free]
    /\ handle' = FALSE
    /\ mem' = {}
    /\ lost' = lost \cup (InFlight \cap indexed)
    /\ interrupted' = FALSE
    /\ UNCHANGED <<cmd, saved, manifest, computed, partly,
                   claimed>>

(* ... then os.Exit, which ends every worker where it is. *)
InterruptExit == interrupted /\ proc # "down" /\ Die

Kill == "kill" \in Faults /\ proc # "down" /\ Die
-----------------------------------------------------------------------------
Next ==
    \/ \E c \in Commands : Start(c)
    \/ \E s \in Slot : Spawn(s) \/ Work(s)
    \/ Drain \/ Exit \/ Interrupt \/ InterruptExit \/ Kill

Spec == Init /\ [][Next]_vars

Main == (\E s \in Slot : Spawn(s)) \/ Drain \/ Exit

(* The Go scheduler runs every goroutine: main, the signal handler and the *)
(* workers; and calls to the network return.                               *)
Fairness ==
    /\ WF_vars(Main) /\ WF_vars(InterruptExit)
    /\ \A s \in Slot : WF_vars(Work(s))

FairSpec == Spec /\ Fairness
-----------------------------------------------------------------------------
(* A version that failed is not recorded, so a later session tries it      *)
(* again ("tracks which package@version pairs have been indexed",          *)
(* manifest.go): what the manifest names had all its files read, but for   *)
(* versions with files that could not be read, which are skipped without   *)
(* a mark of their own, and versions --composer claims to have indexed.    *)
MarkedIsComputed == indexed \subseteq computed \cup partly \cup claimed

(* What the manifest says is indexed is in the database file, or still     *)
(* held by the running process, or was held by a session that was killed   *)
(* or interrupted, or was never computed by --composer: a session that     *)
(* ends normally loses nothing, and one that does not loses at most what   *)
(* its workers had not merged, never what an earlier worker of it merged.  *)
OnlyInFlightIsLost ==
    indexed \subseteq saved \cup InFlight \cup lost \cup claimed

(* No command, and no way a session ends, takes hashes out of the database *)
(* file: every session starts from the file, and what the signal handler   *)
(* or the deferred Close writes contains what it read.                     *)
DatabaseGrows == [][saved \subseteq saved']_vars

(* When main closes the database no worker is left that would merge into a *)
(* closed file; only the signal handler closes it under running workers.   *)
ClosedAfterWorkers ==
    (proc = "closing" \/ ~handle) /\ ~interrupted =>
        \A s \in Slot : worker[s].pc = "free"

(* Interrupting a session loses no version that the manifest records       *)
(* ("Flush progress on Ctrl-C so hashes computed so far are not lost",     *)
(* db_index.go).  The code does not keep this: workers record a version    *)
(* before they merge its hashes.                                           *)
ProgressKept == proc = "down" => indexed \subseteq saved

(* Every session ends, whatever fails: no worker keeps its place in the    *)
(* semaphore, and main does not wait for a place that is never released.   *)
SessionEnds == proc # "down" ~> proc = "down"
-----------------------------------------------------------------------------
(***************************************************************************)
(* The inductive invariants behind the safety properties.                  *)
(***************************************************************************)

(* For every command: the file is open exactly while a session runs that   *)
(* was not interrupted, workers exist only while main waits for them, and  *)
(* the open file has what the session's set has (unless Add filled it).    *)
HandleInv ==
    /\ handle <=> proc # "down" /\ ~interrupted
    /\ proc = "down" => ~interrupted /\ mem = {}
    /\ proc # "running" => \A s \in Slot : worker[s].pc = "free"
    /\ handle => saved \subseteq mem /\ (Direct \/ mem \subseteq saved)

(* What a worker is about to mark was read and is in the database the  *)
(* worker fills, except what --composer claims.                            *)
WorkerInv ==
    \A s \in Slot :
       /\ worker[s].pc \in {"free", "composer"} => worker[s].got = {}
       /\ worker[s].pc = "composer" => cmd = "composer"
       /\ worker[s].pc # "mark" => worker[s].done = {}
       /\ worker[s].done \subseteq computed \cup partly \cup claimed
       /\ worker[s].done \subseteq
              claimed \cup IF Direct THEN mem ELSE worker[s].got

SessionIInv ==
    TypeOK /\ HandleInv /\ WorkerInv /\ MarkedIsComputed /\ OnlyInFlightIsLost
=============================================================================
