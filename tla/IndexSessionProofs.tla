------------------------- MODULE IndexSessionProofs -------------------------
(***************************************************************************)
(* Proofs about index sessions, for every command and fault: that main     *)
(* closes the database after its workers, that the file never shrinks,     *)
(* that the manifest names no version that failed, unless --composer       *)
(* claims so, and that a session loses at most what its workers held when  *)
(* it was killed.                                                          *)
(***************************************************************************)
EXTENDS IndexSession, TLAPS

(* The history variables are written by few actions: their tuple is always *)
(* expanded.                                                               *)
USE DEF history

(* A worker that has just started, or has none to run, is well typed. *)
LEMMA FreeTyped ==
    /\ NoJob \in Job
    /\ Free \in [pc : WorkerPC, job : Job, todo : SUBSET Item,
                 done : SUBSET Item, got : SUBSET Item, deps : BOOLEAN]
<1>1. (CHOOSE p \in Pkg : TRUE) \in Pkg
  BY SessionAssumption
<1>2. NoJob \in Job
  BY <1>1 DEF NoJob, Job
<1>. QED
  BY <1>2 DEF Free, WorkerPC

(* A worker that goes on to its lock dependencies stays well typed. *)
LEMMA DependenciesTyped ==
    ASSUME NEW w, w \in [Slot -> [pc : WorkerPC, job : Job, todo : SUBSET Item,
                                  done : SUBSET Item, got : SUBSET Item,
                                  deps : BOOLEAN]],
           NEW s \in Slot, NEW rest \in SUBSET Item
    PROVE  [w EXCEPT ![s].todo = rest, ![s].deps = TRUE, ![s].pc = "index"]
             \in [Slot -> [pc : WorkerPC, job : Job, todo : SUBSET Item,
                           done : SUBSET Item, got : SUBSET Item,
                           deps : BOOLEAN]]
<1>1. "index" \in WorkerPC
  BY DEF WorkerPC
<1>. QED
  BY <1>1

(* The jobs of a session are jobs. *)
LEMMA PlanTyped ==
    ASSUME TypeOK, NEW c \in Commands
    PROVE  Plan(c) \subseteq Job
<1>1. CASE c = "packagist"
  BY <1>1, SessionAssumption DEF Plan
<1>2. CASE c = "composer"
  <2>1. \A i \in Lock : [pkg |-> i[1], pin |-> i[2], pos |-> 1] \in Job
    BY SessionAssumption DEF Job, Item
  <2>. QED
    BY <1>2, <2>1 DEF Plan, NewPackages
<1>3. CASE c = "update"
  BY <1>3 DEF Plan, PackagesToUpdate, Bare, Job, TypeOK
<1>4. CASE c = "giturl"
  BY <1>4, SessionAssumption DEF Plan, Bare, Job
<1>. QED
  BY <1>1, <1>2, <1>3, <1>4, SessionAssumption

(* Every variable has its type initially ... *)
LEMMA TypeInit == Init => TypeOK
  BY FreeTyped DEF Init, TypeOK

(* ... and after every step of main, a worker, a signal or a kill. *)
LEMMA TypeStep == TypeOK /\ [Next]_vars => TypeOK'
<1>. SUFFICES ASSUME TypeOK, [Next]_vars PROVE TypeOK'
  OBVIOUS
<1>. USE DEF TypeOK
<1>1. ASSUME NEW c \in Commands, Start(c) PROVE TypeOK'
  BY <1>1, PlanTyped DEF Start, manifest
<1>2. ASSUME NEW s \in Slot, Spawn(s) PROVE TypeOK'
  <2>1. FirstStep \in WorkerPC
    BY DEF FirstStep, WorkerPC
  <2>2. PICK j \in queue :
          /\ queue' = queue \ {j}
          /\ worker' = [worker EXCEPT ![s] = [Free EXCEPT !.pc = FirstStep,
                                                          !.job = j]]
    BY <1>2 DEF Spawn
  <2>3. [Free EXCEPT !.pc = FirstStep, !.job = j]
          \in [pc : WorkerPC, job : Job, todo : SUBSET Item,
               done : SUBSET Item, got : SUBSET Item, deps : BOOLEAN]
    BY <2>1, FreeTyped
  <2>. QED
    BY <1>2, <2>2, <2>3 DEF Spawn, db, manifest
<1>3. CASE Drain
  BY <1>3 DEF Drain, db, manifest
<1>4. CASE Exit
  <2>1. lost' \subseteq Item
    BY <1>4 DEF Exit
  <2>. QED
    BY <1>4, <2>1 DEF Exit, manifest
<1>5. ASSUME NEW s \in Slot, Work(s) PROVE TypeOK'
  <2>0. /\ worker[s].job \in Job /\ worker[s].job.pkg \in Pkg
        /\ worker[s].todo \subseteq Item /\ worker[s].done \subseteq Item
        /\ worker[s].got \subseteq Item
    BY DEF Job
  <2>1. CASE Track(s)
    BY <2>0, <2>1 DEF Track, Goto, db, WorkerPC
  <2>2. CASE Fetch(s)
    <3>. DEFINE job  == worker[s].job
                want == {v \in Upstream[job.pkg] : job.pin \in {v, NoPin}}
                rest == ({job.pkg} \X want) \ indexed
    <3>1. rest \subseteq Item
      BY <2>0, SessionAssumption DEF Item
    <3>. HIDE DEF rest
    <3>2. \/ worker' = [worker EXCEPT ![s].todo = rest, ![s].pc = "index"]
          \/ worker' = [worker EXCEPT ![s].pc = "merge"]
      BY <2>2 DEF Fetch, Goto, rest
    <3>. QED
      BY <2>2, <3>1, <3>2 DEF Fetch, db, manifest, WorkerPC
  <2>3. CASE IndexVersion(s)
    <3>1. PICK i \in worker[s].todo :
       \/ /\ ReadFiles(i)
          /\ worker' = [worker EXCEPT ![s].todo = @ \ {i},
                                      ![s].done = {i},
                                      ![s].got = IF Direct THEN @ ELSE @ \cup {i},
                                      ![s].pc = "mark"]
          /\ mem' = IF Direct THEN mem \cup {i} ELSE mem
       \/ /\ worker' = [worker EXCEPT ![s].todo = @ \ {i}]
          /\ UNCHANGED <<computed, partly, mem>>
      BY <2>3 DEF IndexVersion
    <3>. QED
      BY <2>0, <2>3, <3>1 DEF IndexVersion, ReadFiles, manifest, WorkerPC
  <2>4. CASE Mark(s)
    BY <2>0, <2>4 DEF Mark, db, WorkerPC
  <2>5. CASE IndexDone(s)
    BY <2>5 DEF IndexDone, Goto, db, manifest, WorkerPC
  <2>6. CASE MarkReplaces(s)
    BY <2>0, <2>6, SessionAssumption DEF MarkReplaces, Goto, db, WorkerPC
  <2>7. CASE Dependencies(s)
    <3>1. PICK found \in SUBSET LockDeps[worker[s].job.pkg] :
            worker' = [worker EXCEPT
                         ![s].todo = {i \in found \ indexed : i[1] \notin replaced},
                         ![s].deps = TRUE,
                         ![s].pc = "index"]
      BY <2>7 DEF Dependencies
    <3>. DEFINE rest == {i \in found \ indexed : i[1] \notin replaced}
    <3>2. rest \subseteq Item
      BY <2>0, SessionAssumption
    <3>3. worker' = [worker EXCEPT ![s].todo = rest, ![s].deps = TRUE,
                                   ![s].pc = "index"]
      BY <3>1
    <3>. HIDE DEF rest
    <3>4. worker' \in [Slot -> [pc : WorkerPC, job : Job, todo : SUBSET Item,
                                done : SUBSET Item, got : SUBSET Item,
                                deps : BOOLEAN]]
      BY <3>2, <3>3, DependenciesTyped
    <3>5. UNCHANGED <<proc, cmd, queue, handle, mem, saved, indexed, replaced,
                      tracked, interrupted, computed, partly, lost, claimed>>
      BY <2>7 DEF Dependencies, db, manifest
    <3>. QED
      BY <3>4, <3>5
  <2>8. CASE IndexComposerPackage(s)
    BY <2>0, <2>8 DEF IndexComposerPackage, ReadFiles, db, manifest, WorkerPC
  <2>9. CASE Merge(s)
    BY <2>0, <2>9, FreeTyped DEF Merge, manifest
  <2>. QED
    BY <1>5, <2>1, <2>2, <2>3, <2>4, <2>5, <2>6, <2>7, <2>8, <2>9 DEF Work
<1>6. CASE Interrupt
  BY <1>6 DEF Interrupt, manifest
<1>7. CASE InterruptExit \/ Kill
  BY <1>7, FreeTyped DEF InterruptExit, Kill, Die, manifest
<1>8. CASE UNCHANGED vars
  BY <1>8 DEF vars
<1>. QED
  BY <1>1, <1>2, <1>3, <1>4, <1>5, <1>6, <1>7, <1>8 DEF Next

(* Every variable keeps its type. *)
THEOREM TypeCorrect == Spec => []TypeOK
  BY TypeInit, TypeStep, PTL DEF Spec
-----------------------------------------------------------------------------
(* The database handle, for every command *)

HInv == TypeOK /\ HandleInv

(* No session runs yet, and nothing is open. *)
LEMMA HandleInit == Init => HInv
  BY TypeInit DEF Init, HInv, HandleInv, Free

(* A worker's step leaves the process as it is, needs main to be in its    *)
(* loop, and changes no other worker.                                      *)
LEMMA WorkFacts ==
    ASSUME TypeOK, NEW s \in Slot, Work(s)
    PROVE  /\ UNCHANGED <<proc, cmd, queue, handle, interrupted, lost>>
           /\ worker[s].pc # "free"
           /\ \A t \in Slot \ {s} : worker'[t] = worker[t]
           /\ Merge(s) \/ UNCHANGED saved
           /\ mem \subseteq mem' /\ claimed \subseteq claimed'
<1>. USE DEF TypeOK
<1>1. CASE Track(s)
  BY <1>1 DEF Track, Goto, db
<1>2. CASE Fetch(s)
  BY <1>2 DEF Fetch, Goto, db, manifest
<1>3. CASE IndexVersion(s)
  BY <1>3 DEF IndexVersion, manifest
<1>4. CASE Mark(s)
  BY <1>4 DEF Mark, db
<1>5. CASE IndexDone(s)
  BY <1>5 DEF IndexDone, Goto, db, manifest
<1>6. CASE MarkReplaces(s)
  BY <1>6 DEF MarkReplaces, Goto, db
<1>7. CASE Dependencies(s)
  BY <1>7 DEF Dependencies, db, manifest
<1>8. CASE IndexComposerPackage(s)
  BY <1>8 DEF IndexComposerPackage, db, manifest
<1>9. CASE Merge(s)
  BY <1>9 DEF Merge, manifest
<1>. QED
  BY <1>1, <1>2, <1>3, <1>4, <1>5, <1>6, <1>7, <1>8, <1>9 DEF Work

(* Only Add, in a direct session, puts hashes in the set that are not in   *)
(* the file.                                                               *)
LEMMA WorkMem ==
    ASSUME TypeOK, NEW s \in Slot, Work(s), ~Direct
    PROVE  Merge(s) \/ UNCHANGED mem
  BY DEF Work, Track, Fetch, IndexVersion, Mark, IndexDone, MarkReplaces,
         Dependencies, IndexComposerPackage, db, Direct

(* Every step keeps the handle, the set and the file in agreement. *)
LEMMA HandleStep == HInv /\ [Next]_vars => HInv'
<1>. SUFFICES ASSUME HInv, [Next]_vars PROVE HandleInv'
  BY TypeStep DEF HInv
<1>. USE DEF HInv
<1>1. ASSUME NEW c \in Commands, Start(c) PROVE HandleInv'
  BY <1>1 DEF Start, HandleInv, manifest
<1>2. ASSUME NEW s \in Slot, Spawn(s) PROVE HandleInv'
  BY <1>2 DEF Spawn, HandleInv, Direct, db
<1>3. CASE Drain
  BY <1>3 DEF Drain, HandleInv, Direct, db
<1>4. CASE Exit
  BY <1>4 DEF Exit, HandleInv
<1>5. ASSUME NEW s \in Slot, Work(s) PROVE HandleInv'
  <2>1. /\ UNCHANGED <<proc, cmd, handle, interrupted>>
        /\ proc = "running"
        /\ mem \subseteq mem'
    BY <1>5, WorkFacts DEF HandleInv
  <2>2. CASE Merge(s)
    BY <2>1, <2>2 DEF HandleInv, Merge, Direct
  <2>3. CASE ~Merge(s)
    BY <1>5, <2>1, <2>3, WorkFacts, WorkMem DEF HandleInv, Direct
  <2>. QED
    BY <2>2, <2>3
<1>6. CASE Interrupt
  BY <1>6 DEF Interrupt, HandleInv
<1>7. CASE InterruptExit \/ Kill
  BY <1>7 DEF InterruptExit, Kill, Die, HandleInv, Free
<1>8. CASE UNCHANGED vars
  BY <1>8 DEF vars, HandleInv, Direct
<1>. QED
  BY <1>1, <1>2, <1>3, <1>4, <1>5, <1>6, <1>7, <1>8 DEF Next

(* For every command: main closes the database only when no worker is left *)
(* that would merge into it.                                               *)
THEOREM ClosedTheorem == Spec => []ClosedAfterWorkers
<1>1. HInv => ClosedAfterWorkers
  BY DEF HInv, HandleInv, ClosedAfterWorkers, TypeOK
<1>. QED
  BY <1>1, HandleInit, HandleStep, PTL DEF Spec

(* For every command: no step takes hashes out of the database file. *)
THEOREM GrowsTheorem == Spec => DatabaseGrows
<1>1. HInv /\ [Next]_vars => [saved \subseteq saved']_vars
  <2>. SUFFICES ASSUME HInv, Next PROVE saved \subseteq saved'
    BY DEF vars
  <2>. USE DEF HInv
  <2>1. ASSUME NEW s \in Slot, Work(s) PROVE saved \subseteq saved'
    BY <2>1, WorkFacts DEF Merge, HandleInv
  <2>. QED
    BY <2>1 DEF Next, Start, Spawn, Drain, Exit, Interrupt, InterruptExit,
                Kill, Die, HandleInv, db
<1>. QED
  BY <1>1, HandleInit, HandleStep, PTL DEF Spec, DatabaseGrows
-----------------------------------------------------------------------------
(* What is marked, what is lost                                            *)

(* A worker that turns to its lock dependencies keeps what it has.         *)
LEMMA DependenciesFacts ==
    ASSUME TypeOK, NEW s \in Slot, Dependencies(s)
    PROVE  /\ UNCHANGED <<cmd, mem, computed, partly, claimed>>
           /\ worker'[s].pc = "index"
           /\ worker[s].pc = "deps"
           /\ worker'[s].done = worker[s].done
           /\ worker'[s].got = worker[s].got
           /\ \A t \in Slot \ {s} : worker'[t] = worker[t]
<1>1. PICK found \in SUBSET LockDeps[worker[s].job.pkg] :
        worker' = [worker EXCEPT
                     ![s].todo = {i \in found \ indexed : i[1] \notin replaced},
                     ![s].deps = TRUE,
                     ![s].pc = "index"]
  BY DEF Dependencies
<1>. DEFINE rest == {i \in found \ indexed : i[1] \notin replaced}
<1>2. worker' = [worker EXCEPT ![s].todo = rest, ![s].deps = TRUE,
                               ![s].pc = "index"]
  BY <1>1
<1>. HIDE DEF rest
<1>3. /\ UNCHANGED <<cmd, mem, computed, partly, claimed>>
      /\ worker[s].pc = "deps"
  BY DEF Dependencies, db
<1>. QED
  BY <1>2, <1>3 DEF TypeOK

(* No session runs yet, and nothing is recorded. *)
LEMMA SessionInit == Init => SessionIInv
  BY HandleInit DEF Init, SessionIInv, HInv, WorkerInv, MarkedIsComputed,
                    OnlyInFlightIsLost, Free

(* What is about to be marked was computed and is in the database the      *)
(* worker fills, after every step.                                         *)
LEMMA WorkerStep == SessionIInv /\ [Next]_vars => WorkerInv'
<1>. SUFFICES ASSUME SessionIInv, [Next]_vars PROVE WorkerInv'
  OBVIOUS
<1>. USE DEF SessionIInv
<1>. USE DEF WorkerInv
<1>3. ASSUME NEW c \in Commands, Start(c) PROVE WorkerInv'
  BY <1>3 DEF Start, HandleInv, Direct, manifest, TypeOK
<1>4. ASSUME NEW s \in Slot, Spawn(s) PROVE WorkerInv'
  <2>1. PICK j \in queue :
          worker' = [worker EXCEPT ![s] = [Free EXCEPT !.pc = FirstStep,
                                                       !.job = j]]
    BY <1>4 DEF Spawn
  <2>2. /\ FirstStep # "free" /\ FirstStep # "mark"
        /\ FirstStep = "composer" => cmd = "composer"
    BY DEF FirstStep
  <2>. QED
    BY <1>4, <2>1, <2>2 DEF Spawn, Free, Direct, db, TypeOK
<1>5. ASSUME NEW s \in Slot, Work(s) PROVE WorkerInv'
  <2>. USE DEF TypeOK
  <2>1. CASE Track(s)
    BY <2>1 DEF Track, Goto, db, Direct
  <2>2. CASE Fetch(s)
    BY <2>2 DEF Fetch, Goto, db, manifest, Direct
  <2>3. CASE IndexVersion(s)
    <3>1. PICK i \in worker[s].todo :
       \/ /\ ReadFiles(i)
          /\ worker' = [worker EXCEPT ![s].todo = @ \ {i},
                                      ![s].done = {i},
                                      ![s].got = IF Direct THEN @ ELSE @ \cup {i},
                                      ![s].pc = "mark"]
          /\ mem' = IF Direct THEN mem \cup {i} ELSE mem
       \/ /\ worker' = [worker EXCEPT ![s].todo = @ \ {i}]
          /\ UNCHANGED <<computed, partly, mem>>
      BY <2>3 DEF IndexVersion
    <3>. QED
      BY <2>3, <3>1 DEF IndexVersion, ReadFiles, Direct
  <2>4. CASE Mark(s)
    BY <2>4 DEF Mark, db, Direct
  <2>5. CASE IndexDone(s)
    BY <2>5 DEF IndexDone, Goto, db, manifest, Direct
  <2>6. CASE MarkReplaces(s)
    BY <2>6 DEF MarkReplaces, Goto, db, Direct
  <2>7. CASE Dependencies(s)
    BY <2>7, DependenciesFacts DEF Direct
  <2>8. CASE IndexComposerPackage(s)
    BY <2>8 DEF IndexComposerPackage, ReadFiles, Direct, db, manifest
  <2>9. CASE Merge(s)
    BY <2>9 DEF Merge, Free, Direct
  <2>. QED
    BY <1>5, <2>1, <2>2, <2>3, <2>4, <2>5, <2>6, <2>7, <2>8, <2>9 DEF Work
<1>6. CASE Drain \/ Interrupt
  BY <1>6 DEF Drain, Interrupt, Direct, db
<1>7. CASE Exit
  BY <1>7 DEF Exit, HandleInv, TypeOK
<1>8. CASE InterruptExit \/ Kill
  BY <1>8 DEF InterruptExit, Kill, Die, Free
<1>9. CASE UNCHANGED vars
  BY <1>9 DEF vars, Direct
<1>. QED
  BY <1>3, <1>4, <1>5, <1>6, <1>7, <1>8, <1>9 DEF Next

(* A version is recorded only by Mark, from what its worker has computed. *)
LEMMA MarkedStep == SessionIInv /\ [Next]_vars => MarkedIsComputed'
<1>. SUFFICES ASSUME SessionIInv, [Next]_vars PROVE MarkedIsComputed'
  OBVIOUS
<1>. USE DEF SessionIInv, MarkedIsComputed
<1>1. ASSUME NEW s \in Slot, Work(s) PROVE MarkedIsComputed'
  <2>1. CASE Mark(s)
    BY <2>1 DEF Mark, WorkerInv
  <2>2. CASE ~Mark(s)
    BY <1>1, <2>2 DEF Work, Track, Fetch, IndexVersion, ReadFiles, IndexDone,
         MarkReplaces, Dependencies, IndexComposerPackage, Merge, manifest
  <2>. QED
    BY <2>1, <2>2
<1>2. CASE UNCHANGED vars
  BY <1>2 DEF vars
<1>. QED
  BY <1>1, <1>2 DEF Next, Start, Spawn, Drain, Exit, Interrupt, InterruptExit,
                    Kill, Die, manifest
-----------------------------------------------------------------------------
(* A recorded version that is not in the file, lost or claimed is in a     *)
(* worker's database, or in the shared set while that is ahead of the file.*)
Held(i) ==
    \/ i \in saved \cup lost \cup claimed
    \/ \E s \in Slot : i \in worker[s].got
    \/ (Direct \/ interrupted) /\ i \in mem

LEMMA HeldIsLoss == OnlyInFlightIsLost <=> \A i \in indexed : Held(i)
  BY DEF OnlyInFlightIsLost, InFlight, Held

(* A worker never drops hashes: it keeps its database until it merges it.  *)
LEMMA WorkHeld ==
    ASSUME SessionIInv, NEW s \in Slot, Work(s), NEW i, Held(i)
    PROVE  Held(i)'
<1>. USE DEF SessionIInv
<1>1. /\ UNCHANGED <<proc, cmd, handle, interrupted, lost>>
      /\ proc = "running"
      /\ mem \subseteq mem' /\ claimed \subseteq claimed'
      /\ \A t \in Slot \ {s} : worker'[t] = worker[t]
  BY WorkFacts DEF HandleInv
<1>2. CASE Merge(s)
  <2>1. i \in saved => i \in saved'
    BY <1>2 DEF Merge, HandleInv
  <2>2. i \in worker[s].got => Held(i)'
    BY <1>1, <1>2 DEF Merge, HandleInv, Held, Direct
  <2>. QED
    BY <1>1, <2>1, <2>2 DEF Held, Direct
<1>3. CASE ~Merge(s)
  <2>1. UNCHANGED saved
    BY <1>3, WorkFacts
  <2>2. worker[s].got \subseteq worker'[s].got
    <3>. USE DEF TypeOK
    <3>1. CASE Track(s) \/ Fetch(s) \/ IndexDone(s) \/ MarkReplaces(s)
      BY <3>1 DEF Track, Fetch, IndexDone, MarkReplaces, Goto
    <3>2. CASE IndexVersion(s)
      BY <3>2 DEF IndexVersion
    <3>3. CASE Mark(s)
      BY <3>3 DEF Mark
    <3>4. CASE Dependencies(s)
      BY <3>4, DependenciesFacts
    <3>5. CASE IndexComposerPackage(s)
      BY <3>5 DEF IndexComposerPackage, WorkerInv
    <3>. QED
      BY <1>3, <3>1, <3>2, <3>3, <3>4, <3>5 DEF Work
  <2>. QED
    BY <1>1, <2>1, <2>2 DEF Held, Direct
<1>. QED
  BY <1>2, <1>3

(* No step of main, a worker, a signal or a kill makes a recorded version  *)
(* disappear unnoticed.                                                    *)
LEMMA LossStep == SessionIInv /\ [Next]_vars => OnlyInFlightIsLost'
<1>. SUFFICES ASSUME SessionIInv, [Next]_vars PROVE OnlyInFlightIsLost'
  OBVIOUS
<1>. USE DEF SessionIInv
<1>0. \A i \in indexed : Held(i)
  BY HeldIsLoss
<1>. SUFFICES ASSUME NEW i \in indexed' PROVE Held(i)'
  BY DEF OnlyInFlightIsLost, InFlight, Held
<1>1. ASSUME NEW c \in Commands, Start(c) PROVE Held(i)'
  BY <1>0, <1>1 DEF Start, Held, HandleInv, WorkerInv, manifest
<1>2. ASSUME NEW s \in Slot, Spawn(s) PROVE Held(i)'
  BY <1>0, <1>2 DEF Spawn, Held, WorkerInv, Free, Direct, TypeOK, db, manifest
<1>3. CASE Drain
  BY <1>0, <1>3 DEF Drain, Held, Direct, db, manifest
<1>4. CASE Exit
  <2>1. \A s \in Slot : worker[s].got = {}
    BY <1>4 DEF Exit, HandleInv, WorkerInv
  <2>2. i \in indexed
    BY <1>4 DEF Exit, manifest
  <2>3. CASE interrupted
    BY <1>0, <1>4, <2>2, <2>3 DEF Exit, Held, InFlight, HandleInv
  <2>4. CASE ~interrupted
    BY <1>0, <1>4, <2>1, <2>2, <2>4 DEF Exit, Held, HandleInv
  <2>. QED
    BY <2>3, <2>4
<1>5. ASSUME NEW s \in Slot, Work(s) PROVE Held(i)'
  <2>1. CASE i \in indexed
    BY <1>0, <1>5, <2>1, WorkHeld
  <2>2. CASE i \notin indexed
    <3>1. Mark(s) /\ i \in worker[s].done
      BY <1>5, <2>2 DEF Work, Track, Fetch, IndexVersion, Mark, IndexDone,
           MarkReplaces, Dependencies, IndexComposerPackage, Merge, manifest
    <3>2. Held(i)
      BY <3>1 DEF WorkerInv, Held
    <3>. QED
      BY <1>5, <3>2, WorkHeld
  <2>. QED
    BY <2>1, <2>2
<1>6. CASE Interrupt
  BY <1>0, <1>6 DEF Interrupt, Held, HandleInv, Direct, manifest
<1>7. CASE InterruptExit \/ Kill
  BY <1>0, <1>7 DEF InterruptExit, Kill, Die, Held, InFlight, manifest
<1>8. CASE UNCHANGED vars
  BY <1>0, <1>8 DEF vars, Held, Direct
<1>. QED
  BY <1>1, <1>2, <1>3, <1>4, <1>5, <1>6, <1>7, <1>8 DEF Next

(* The inductive invariant holds in every reachable state. *)
THEOREM SessionInvariant == Spec => []SessionIInv
<1>1. SessionIInv /\ [Next]_vars => SessionIInv'
  BY HandleStep, WorkerStep, MarkedStep, LossStep DEF SessionIInv, HInv
<1>. QED
  BY <1>1, SessionInit, PTL DEF Spec

(* A version that could not be indexed is not recorded, whatever else      *)
(* failed and however sessions ended: what the manifest names had all its  *)
(* files read, but for the versions with files that could not be           *)
(* (`partly', which indexFileCount and indexZip skip), and those that      *)
(* --composer claimed.                                                     *)
THEOREM MarkedTheorem == Spec => []MarkedIsComputed
  BY SessionInvariant, PTL DEF SessionIInv

(* A recorded version is in the database file unless --composer claimed    *)
(* it, or the session that recorded it still holds it, or was killed or    *)
(* interrupted while it did.                                               *)
THEOREM LossTheorem == Spec => []OnlyInFlightIsLost
  BY SessionInvariant, PTL DEF SessionIInv
=============================================================================
