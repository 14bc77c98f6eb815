----------------------------- MODULE ScanProofs -----------------------------
(***************************************************************************)
(* Theorems about Scan, for every tree, contents of its files, database,   *)
(* number of workers, size of buffer and failure.  The first part is about *)
(* the walk, the channel and the pool: no file that is to be scanned is    *)
(* overlooked, and the statistics add up.  The second is about the data:   *)
(* what a worker has read, where its buffer has moved to and what it has   *)
(* found are at each step those of the first lines of its file.            *)
(***************************************************************************)
EXTENDS Scan, NormalizeProofs

BusyPC == {"open", "scan", "report"}

(* The workers that have a file, and the files they have. *)
Busy == {w \in Worker : worker[w].pc \in BusyPC}
InHand == {worker[w].file : w \in Busy}

(* The files main is done with, but for the one it is sending. *)
Visited == 1..(IF walker.pc = "send" THEN walker.next ELSE walker.next - 1)

FailedAt(i, call) == [file |-> i, call |-> call] \in failed

Seen == {i \in Files : ~FailedAt(i, "lstat")}
Dropped == {i \in Files : IsCode(i) /\ FilteredOut(i) /\ ~FailedAt(i, "probe")}

(* Main is at a file of the tree or behind the last, and no call of main   *)
(* has failed for a file ahead of it.                                      *)
WalkInv ==
    /\ tree \in Tree /\ args \in Option
    /\ walker \in [pc : {"walk", "send", "wait", "done"}, next : 1..Len(tree.files) + 1]
    /\ walker.pc = "send" => walker.next \in Files
    /\ walker.pc \in {"wait", "done"} => walker.next = Len(tree.files) + 1
    /\ \A i \in Files \ Visited : ~FailedAt(i, "lstat") /\ ~FailedAt(i, "probe")

(* A worker as far as the pool knows it. *)
IsWorker(me) ==
    /\ DOMAIN me = DOMAIN Idle
    /\ me.pc \in BusyPC \cup {"idle", "gone"}

(* Each file a worker has was sent to it, to no other, and is not reported *)
(* yet; when the scan is done nobody has any.                              *)
PoolInv ==
    /\ worker = [w \in Worker |-> worker[w]]
    /\ \A w \in Worker : IsWorker(worker[w])
    /\ \A w \in Busy : worker[w].file \in 1..walker.next - 1 /\ worker[w].file \notin DOMAIN report
    /\ \A v, w \in Busy : v # w => worker[v].file # worker[w].file
    /\ DOMAIN report \subseteq 1..walker.next - 1
    /\ walker.pc = "done" => Busy = {}

(* A file to scan that main has passed is in a worker's hand or reported.  *)
CoverInv ==
    \A i \in 1..walker.next - 1 :
        ToScan(i) /\ Sound(i) => i \in DOMAIN report \cup InHand

(* The statistics while the scan runs. *)
CountInv ==
    /\ count \in [total : Nat, code : Nat, custom : Nat]
    /\ stats \in [changed : Nat, suspect : Nat, unchanged : Nat]
    /\ count.total = Cardinality(Seen \cap Visited)
    /\ count.code = count.custom + Cardinality(DOMAIN report)
                    + Cardinality(Dropped \cap Seen \cap Visited)
                    + Cardinality(Busy) + (IF walker.pc = "send" THEN 1 ELSE 0)
    /\ stats.changed + stats.unchanged = Cardinality(DOMAIN report)
    /\ stats.suspect <= stats.changed

ScanIInv == WalkInv /\ PoolInv /\ CoverInv /\ CountInv
-----------------------------------------------------------------------------
(* A file to be scanned passes every test on its way to the workers: a     *)
(* prefix of valid text that cuts no character is valid.                   *)
LEMMA ToScanPasses ==
    ASSUME NEW i \in Files, tree \in Tree, ToScan(i)
    PROVE  IsCode(i) /\ ~FilteredOut(i) /\ ~IsCustom(i)
<1>. DEFINE data == file(i).data
            n    == IF Len(data) < ProbeSize THEN Len(data) ELSE ProbeSize
            part == SubSeq(data, 1, n)
<1>1. data \in Seq(DOMAIN HashTable \cup {Newline}) /\ ProbeSize \in Nat
  <2>1. tree.files \in Seq(File)
    BY ScanAssumption
  <2>2. tree.files[i] \in File
    BY <2>1 DEF Files
  <2>. QED
    BY <2>2, NormalizeAssumption DEF file, File
<1>2. n \in Nat /\ n <= Len(data)
  BY <1>1
<1>. HIDE DEF data
<1>3. DOMAIN part = 1..n /\ Len(part) = n /\ \A j \in 1..n : part[j] = data[j]
  BY <1>1, <1>2
<1>4. ValidText(data) /\ (n < Len(data) => data[n] # Lead) /\ data # << >>
  BY <1>1 DEF ToScan, data
<1>5. ValidText(part)
  <2>. SUFFICES ASSUME NEW j \in 1..n
                PROVE  /\ part[j] = Lead => j < n /\ part[j + 1] = Trail
                       /\ part[j] = Trail => j > 1 /\ part[j - 1] = Lead
    BY <1>3 DEF ValidText
  <2>1. /\ data[j] = Lead => j < Len(data) /\ data[j + 1] = Trail
        /\ data[j] = Trail => j > 1 /\ data[j - 1] = Lead
    <3>1. j \in DOMAIN data
      BY <1>1, <1>2
    <3>2. ValidText(data)
      BY <1>4
    <3>. QED
      BY <3>1, <3>2 DEF ValidText
  <2>2. data[j] = Lead => j < n
    BY <1>1, <1>2, <1>4, <2>1
  <2>. QED
    BY <1>2, <1>3, <2>1, <2>2
<1>6. IsValidUtf8(data)
  BY <1>4, <1>5 DEF IsValidUtf8
<1>. QED
  BY <1>6 DEF ToScan, IsCode, HasValidExt, FilteredOut, IsCustom, data

(* Files is an interval, so that every set of files is finite. *)
LEMMA FilesFinite ==
    ASSUME tree \in Tree
    PROVE  /\ Len(tree.files) \in Nat
           /\ Files = 1..Len(tree.files)
           /\ \A S \in SUBSET Files : IsFiniteSet(S) /\ Cardinality(S) \in Nat
<1>1. tree.files \in Seq(File)
  BY ScanAssumption
<1>2. Len(tree.files) \in Nat /\ Files = 1..Len(tree.files)
  BY <1>1 DEF Files
<1>3. IsFiniteSet(Files)
  BY <1>2, FS_Interval
<1>. QED
  BY <1>2, <1>3, FS_Subset, FS_CardinalityType

(* The types of the scene do not change. *)
LEMMA SceneStays == [Next]_vars => UNCHANGED scene
  BY DEF Next, Main, Work, vars, scene, Inaccessible, NoCode, Filtered, Custom,
         Send, Close, Finish, Receive, Leave, Open, ScanLine, ScanRest, Read,
         ReadFails, EndOfScan, Report

(* A worker that has a new record keeps the others as they are.            *)
LEMMA SetFacts ==
    ASSUME PoolInv, NEW w \in Worker, NEW me, Set(w, me)
    PROVE  /\ worker'[w] = me
           /\ \A v \in Worker \ {w} : worker'[v] = worker[v]
           /\ worker' = [v \in Worker |-> worker'[v]]
  BY DEF PoolInv, Set

(* What the pool sees of a worker that reads its file: nothing.            *)
Works(w) ==
    /\ w \in Busy
    /\ worker' = [v \in Worker |-> worker'[v]]
    /\ \A v \in Worker \ {w} : worker'[v] = worker[v]
    /\ IsWorker(worker'[w]) /\ worker'[w].pc \in BusyPC
    /\ worker'[w].file = worker[w].file
    /\ UNCHANGED <<scene, walker, count, stats, report>>
    /\ \E call \in {"open", "read"} :
          failed' \in {failed, failed \cup {[file |-> worker[w].file, call |-> call]}}

Reads(w) ==
    Open(w) \/ ScanLine(w) \/ ScanRest(w) \/ Read(w) \/ ReadFails(w) \/ EndOfScan(w)

(* Every step of a worker with its file is such a step. *)
LEMMA ReadsWorks ==
    ASSUME PoolInv, NEW w \in Worker, Reads(w)
    PROVE  Works(w)
<1>. DEFINE me == worker[w]
<1>1. IsWorker(me)
  BY DEF PoolInv
<1>2. me.pc \in BusyPC /\ w \in Busy
  BY DEF Reads, Open, ScanLine, ScanRest, Read, ReadFails, EndOfScan, NeedsData, Busy, BusyPC
<1>. DEFINE Stays(to) == DOMAIN to = DOMAIN me /\ to.pc \in BusyPC /\ to.file = me.file
<1>3. \E to : Set(w, to) /\ Stays(to)
  <2>1. "pc" \in DOMAIN me /\ "file" \in DOMAIN me
    BY <1>1 DEF IsWorker, Idle
  <2>2. CASE Open(w)
    <3>1. \A pc \in {"scan", "report"} : Stays([me EXCEPT !.pc = pc])
      BY <2>1 DEF BusyPC
    <3>2. Set(w, [me EXCEPT !.pc = "scan"]) \/ Set(w, [me EXCEPT !.pc = "report"])
      BY <2>2 DEF Open
    <3>. HIDE DEF me, Stays
    <3>. QED
      BY <3>1, <3>2
  <2>3. ASSUME NEW length, NEW advance, Take(w, length, advance)
        PROVE  \E to : Set(w, to) /\ Stays(to)
    <3>1. \A token, line, start, hits :
            Stays([me EXCEPT !.token = token, !.line = line, !.start = start, !.hits = hits])
      BY <1>2, <2>1
    <3>2. \E token, line, start, hits :
            Set(w, [me EXCEPT !.token = token, !.line = line, !.start = start, !.hits = hits])
      BY <2>3, Zenon DEF Take
    <3>. HIDE DEF me, Stays
    <3>. QED
      BY <3>1, <3>2
  <2>4. CASE ScanLine(w)
    BY <2>3, <2>4 DEF ScanLine
  <2>5. CASE ScanRest(w)
    BY <2>3, <2>5 DEF ScanRest
  <2>6. CASE Read(w) \/ ReadFails(w)
    <3>1. \A start, end, pos, err :
            /\ Stays([me EXCEPT !.start = start, !.end = end, !.pos = pos, !.err = err])
            /\ Stays([me EXCEPT !.start = start, !.end = end, !.err = err])
      BY <1>2, <2>1
    <3>2. \E start, end, pos, err :
            \/ Set(w, [me EXCEPT !.start = start, !.end = end, !.pos = pos, !.err = err])
            \/ Set(w, [me EXCEPT !.start = start, !.end = end, !.err = err])
      BY <2>6, Zenon DEF Read, ReadFails
    <3>. HIDE DEF me, Stays
    <3>. QED
      BY <3>1, <3>2
  <2>7. CASE EndOfScan(w)
    <3>1. Stays([me EXCEPT !.pc = "report"])
      BY <2>1 DEF BusyPC
    <3>. QED
      BY <2>7, <3>1 DEF EndOfScan
  <2>. QED
    BY <2>2, <2>4, <2>5, <2>6, <2>7 DEF Reads
<1>4. /\ UNCHANGED <<scene, walker, count, stats, report>>
      /\ \E call \in {"open", "read"} :
            failed' \in {failed, failed \cup {[file |-> worker[w].file, call |-> call]}}
  BY DEF Reads, Open, ScanLine, ScanRest, Read, ReadFails, EndOfScan, scene, Fail
<1>. QED
  BY <1>1, <1>2, <1>3, <1>4, SetFacts DEF Works, IsWorker

(* What depends on the scene only stays, and failures stay failures.       *)
LEMMA SceneFacts ==
    ASSUME UNCHANGED scene
    PROVE  /\ Files' = Files /\ tree' = tree /\ args' = args
           /\ \A i : ToScan(i)' <=> ToScan(i)
           /\ \A i : IsCode(i)' <=> IsCode(i)
           /\ \A i : FilteredOut(i)' <=> FilteredOut(i)
           /\ failed \subseteq failed' => \A i : Sound(i)' => Sound(i)
  BY DEF scene, Files, ToScan, IsCode, HasValidExt, FilteredOut, file, Sound

(* Seen and Dropped do not notice other failures.                          *)
LEMMA SameFailures ==
    ASSUME UNCHANGED scene,
           \A i \in Files : /\ FailedAt(i, "lstat")' <=> FailedAt(i, "lstat")
                            /\ FailedAt(i, "probe")' <=> FailedAt(i, "probe")
    PROVE  Seen' = Seen /\ Dropped' = Dropped
<1>1. Files' = Files
  BY SceneFacts
<1>. QED
  BY <1>1, SceneFacts DEF Seen, Dropped

(* A step of a worker with its file keeps the invariant. *)
LEMMA WorksStep ==
    ASSUME ScanIInv, NEW w \in Worker, Works(w)
    PROVE  ScanIInv'
<1>1. /\ UNCHANGED <<scene, walker, count, stats, report>>
      /\ failed \subseteq failed'
      /\ \A i : /\ FailedAt(i, "lstat")' <=> FailedAt(i, "lstat")
                /\ FailedAt(i, "probe")' <=> FailedAt(i, "probe")
  BY DEF Works, FailedAt
<1>2. Seen' = Seen /\ Dropped' = Dropped /\ Visited' = Visited /\ Files' = Files
  BY <1>1, SameFailures, SceneFacts DEF Visited
<1>3. /\ Busy' = Busy
      /\ \A v \in Worker : worker'[v].file = worker[v].file
  BY DEF Works, Busy
<1>4. InHand' = InHand
  BY <1>3 DEF InHand, Busy
<1>5. WalkInv'
  BY <1>1, <1>2, SceneFacts DEF ScanIInv, WalkInv
<1>6. PoolInv'
  BY <1>1, <1>3 DEF ScanIInv, PoolInv, Works, Busy
<1>7. CoverInv'
  BY <1>1, <1>4, SceneFacts DEF ScanIInv, CoverInv
<1>8. CountInv'
  BY <1>1, <1>2, <1>3 DEF ScanIInv, CountInv
<1>. QED
  BY <1>5, <1>6, <1>7, <1>8 DEF ScanIInv

(* A worker with no file leaves. *)
LEMMA LeaveStep ==
    ASSUME ScanIInv, NEW w \in Worker, Leave(w)
    PROVE  ScanIInv'
<1>1. UNCHANGED <<scene, walker, count, stats, report, failed>>
  BY DEF Leave, scene
<1>2. Seen' = Seen /\ Dropped' = Dropped /\ Visited' = Visited /\ Files' = Files
  BY <1>1, SameFailures, SceneFacts DEF Visited, FailedAt
<1>3. /\ worker'[w] = [Idle EXCEPT !.pc = "gone"] /\ worker[w].pc = "idle"
      /\ \A v \in Worker \ {w} : worker'[v] = worker[v]
      /\ worker' = [v \in Worker |-> worker'[v]]
  BY SetFacts DEF ScanIInv, Leave
<1>4. worker'[w].pc = "gone" /\ DOMAIN worker'[w] = DOMAIN Idle
  BY <1>3 DEF Idle
<1>5. Busy' = Busy /\ \A v \in Busy : worker'[v] = worker[v]
  BY <1>3, <1>4 DEF Busy, BusyPC
<1>6. InHand' = InHand
  BY <1>5 DEF InHand
<1>7. WalkInv'
  BY <1>1, <1>2, SceneFacts DEF ScanIInv, WalkInv, FailedAt
<1>8. PoolInv'
  <2>0. IsWorker(worker'[w])
    BY <1>4 DEF IsWorker
  <2>1. \A v \in Worker : IsWorker(worker'[v])
    BY <1>3, <2>0 DEF ScanIInv, PoolInv
  <2>2. \A v \in Busy : worker'[v].file = worker[v].file
    BY <1>5
  <2>. QED
    BY <1>1, <1>3, <1>5, <2>1, <2>2 DEF ScanIInv, PoolInv
<1>9. CoverInv'
  BY <1>1, <1>6, SceneFacts DEF ScanIInv, CoverInv
<1>10. CountInv'
  BY <1>1, <1>2, <1>5 DEF ScanIInv, CountInv
<1>. QED
  BY <1>7, <1>8, <1>9, <1>10 DEF ScanIInv

(* The statistics have room for one more: a finite set and a new element.  *)
LEMMA OneMore ==
    ASSUME NEW S, IsFiniteSet(S), NEW x, x \notin S
    PROVE  /\ Cardinality(S) \in Nat
           /\ Cardinality(S \cup {x}) = Cardinality(S) + 1
  BY FS_AddElement, FS_CardinalityType

(* The same when the element is there under a condition only. *)
LEMMA OneMoreIf ==
    ASSUME NEW S, IsFiniteSet(S), NEW x, x \notin S, NEW c
    PROVE  /\ Cardinality(S) \in Nat
           /\ Cardinality(S \cup (IF c THEN {x} ELSE {})) = Cardinality(S) + (IF c THEN 1 ELSE 0)
<1>1. CASE c
  BY <1>1, OneMore
<1>2. CASE ~c
  <2>1. S \cup (IF c THEN {x} ELSE {}) = S
    BY <1>2
  <2>2. Cardinality(S) \in Nat
    BY FS_CardinalityType
  <2>. QED
    BY <1>2, <2>1, <2>2
<1>. QED
  BY <1>1, <1>2

(* The sets the statistics count are finite. *)
LEMMA PoolFinite ==
    ASSUME ScanIInv
    PROVE  /\ IsFiniteSet(Busy) /\ IsFiniteSet(DOMAIN report)
           /\ IsFiniteSet(Seen \cap Visited) /\ IsFiniteSet(Dropped \cap Seen \cap Visited)
<1>1. Busy \subseteq Worker /\ IsFiniteSet(Worker)
  BY ScanAssumption DEF Busy
<1>2. DOMAIN report \subseteq Files
  BY FilesFinite DEF ScanIInv, WalkInv, PoolInv
<1>3. Seen \subseteq Files
  BY DEF Seen
<1>. QED
  BY <1>1, <1>2, <1>3, FilesFinite, FS_Subset DEF ScanIInv, WalkInv

(* A worker receives the file main is sending. *)
LEMMA ReceiveStep ==
    ASSUME ScanIInv, NEW w \in Worker, Receive(w)
    PROVE  ScanIInv'
<1>. DEFINE n == walker.next
<1>1. /\ UNCHANGED <<scene, count, stats, report, failed>>
      /\ walker.pc = "send" /\ walker' = [pc |-> "walk", next |-> n + 1]
  BY DEF Receive, scene
<1>2. n \in Nat \ {0} /\ n \in Files /\ Len(tree.files) \in Nat /\ Files = 1..Len(tree.files)
  BY <1>1, FilesFinite DEF ScanIInv, WalkInv
<1>3. walker'.pc = "walk" /\ walker'.next = n + 1 /\ n + 1 \in 1..Len(tree.files) + 1
  BY <1>1, <1>2
<1>4. Visited' = Visited /\ Visited = 1..n
  BY <1>1, <1>2, <1>3 DEF Visited
<1>5. Seen' = Seen /\ Dropped' = Dropped /\ Files' = Files
  BY <1>1, SameFailures, SceneFacts DEF FailedAt
<1>6. /\ worker'[w] = [Idle EXCEPT !.pc = "open", !.file = n] /\ worker[w].pc = "idle"
      /\ \A v \in Worker \ {w} : worker'[v] = worker[v]
      /\ worker' = [v \in Worker |-> worker'[v]]
  BY SetFacts DEF ScanIInv, Receive
<1>7. worker'[w].pc = "open" /\ worker'[w].file = n /\ DOMAIN worker'[w] = DOMAIN Idle
  BY <1>6 DEF Idle
<1>8. w \notin Busy /\ Busy' = Busy \cup {w} /\ \A v \in Busy : worker'[v] = worker[v]
  BY <1>6, <1>7 DEF Busy, BusyPC
<1>9. InHand \cup {n} \subseteq InHand'
  BY <1>7, <1>8 DEF InHand
<1>10. WalkInv'
  BY <1>1, <1>2, <1>3, <1>4, <1>5, SceneFacts DEF ScanIInv, WalkInv, FailedAt
<1>11. PoolInv'
  <2>0. IsWorker(worker'[w])
    BY <1>7 DEF IsWorker, BusyPC
  <2>1. \A v \in Worker : IsWorker(worker'[v])
    BY <1>6, <2>0 DEF ScanIInv, PoolInv
  <2>2. \A v \in Busy : /\ worker'[v].file = worker[v].file
                        /\ worker[v].file \in 1..n - 1 /\ worker[v].file \notin DOMAIN report
    BY <1>8 DEF ScanIInv, PoolInv
  <2>3. n \notin DOMAIN report /\ DOMAIN report \subseteq 1..n
    BY <1>2 DEF ScanIInv, PoolInv
  <2>4. \A v \in Busy : worker'[v].file # n
    BY <1>2, <2>2
  <2>5. \A u, v \in Busy' : u # v => worker'[u].file # worker'[v].file
    BY <1>7, <1>8, <2>2, <2>4 DEF ScanIInv, PoolInv
  <2>6. \A v \in Busy' : worker'[v].file \in 1..n /\ worker'[v].file \notin DOMAIN report
    BY <1>2, <1>7, <1>8, <2>2, <2>3
  <2>. QED
    BY <1>1, <1>2, <1>3, <1>6, <2>1, <2>3, <2>5, <2>6 DEF PoolInv
<1>12. CoverInv'
  BY <1>1, <1>2, <1>3, <1>9, SceneFacts DEF ScanIInv, CoverInv
<1>13. CountInv'
  <2>1. Cardinality(Busy') = Cardinality(Busy) + 1 /\ Cardinality(Busy) \in Nat
    BY <1>8, PoolFinite, OneMore
  <2>2. /\ Cardinality(DOMAIN report) \in Nat
        /\ Cardinality(Dropped \cap Seen \cap Visited) \in Nat
    BY PoolFinite, FS_CardinalityType
  <2>. QED
    BY <1>1, <1>3, <1>4, <1>5, <2>1, <2>2 DEF ScanIInv, CountInv
<1>. QED
  BY <1>10, <1>11, <1>12, <1>13 DEF ScanIInv

(* A file is counted once, and a suspect one among the changed ones.       *)
LEMMA ReportCounts ==
    ASSUME NEW w \in Worker, Report(w), stats \in [changed : Nat, suspect : Nat, unchanged : Nat],
           stats.suspect <= stats.changed
    PROVE  /\ stats' \in [changed : Nat, suspect : Nat, unchanged : Nat]
           /\ stats'.changed + stats'.unchanged = stats.changed + stats.unchanged + 1
           /\ stats'.suspect <= stats'.changed
<1>1. PICK hits :
         stats' = [changed |-> stats.changed + One(Printed(hits) # << >>),
                   suspect |-> stats.suspect + One(IsSuspect(Printed(hits))),
                   unchanged |-> stats.unchanged + One(Printed(hits) = << >>)]
  BY Zenon DEF Report
<1>. DEFINE printed == Printed(hits)
<1>2. IsSuspect(printed) => printed # << >>
  BY DEF IsSuspect
<1>. HIDE DEF printed
<1>. QED
  BY <1>1, <1>2 DEF One, printed

(* A worker reports its file. *)
LEMMA ReportStep ==
    ASSUME ScanIInv, NEW w \in Worker, Report(w)
    PROVE  ScanIInv'
<1>. DEFINE i == worker[w].file
<1>1. UNCHANGED <<scene, walker, count, failed>>
  BY DEF Report, scene
<1>2. Seen' = Seen /\ Dropped' = Dropped /\ Visited' = Visited /\ Files' = Files
  BY <1>1, SameFailures, SceneFacts DEF Visited, FailedAt
<1>3. /\ worker'[w] = Idle /\ worker[w].pc = "report"
      /\ \A v \in Worker \ {w} : worker'[v] = worker[v]
      /\ worker' = [v \in Worker |-> worker'[v]]
  BY SetFacts DEF ScanIInv, Report
<1>4. worker'[w].pc = "idle" /\ IsWorker(worker'[w])
  BY <1>3 DEF Idle, IsWorker, BusyPC
<1>5. /\ w \in Busy /\ w \notin Busy' /\ Busy = Busy' \cup {w}
      /\ \A v \in Busy' : worker'[v] = worker[v]
  BY <1>3, <1>4 DEF Busy, BusyPC
<1>6. DOMAIN report' = DOMAIN report \cup {i}
  BY DEF Report
<1>7. i \in 1..walker.next - 1 /\ i \notin DOMAIN report
  BY <1>5 DEF ScanIInv, PoolInv
<1>8. InHand \subseteq InHand' \cup {i}
  BY <1>5 DEF InHand
<1>9. WalkInv'
  BY <1>1, <1>2, SceneFacts DEF ScanIInv, WalkInv, FailedAt
<1>10. PoolInv'
  <2>1. \A v \in Worker : IsWorker(worker'[v])
    BY <1>3, <1>4 DEF ScanIInv, PoolInv
  <2>2. \A u, v \in Busy : u # v => worker[u].file # worker[v].file
    BY DEF ScanIInv, PoolInv
  <2>3. \A v \in Busy' : /\ worker'[v].file = worker[v].file /\ v \in Busy
                         /\ worker'[v].file # i
    BY <1>5, <2>2
  <2>4. \A v \in Busy' : /\ worker'[v].file \in 1..walker.next - 1
                         /\ worker'[v].file \notin DOMAIN report'
    BY <1>6, <2>3 DEF ScanIInv, PoolInv
  <2>5. \A u, v \in Busy' : u # v => worker'[u].file # worker'[v].file
    BY <2>2, <2>3
  <2>6. walker.pc # "done"
    BY <1>5 DEF ScanIInv, PoolInv
  <2>7. DOMAIN report' \subseteq 1..walker.next - 1
    BY <1>6, <1>7 DEF ScanIInv, PoolInv
  <2>. QED
    BY <1>1, <1>3, <2>1, <2>4, <2>5, <2>6, <2>7 DEF PoolInv
<1>11. CoverInv'
  BY <1>1, <1>6, <1>8, SceneFacts DEF ScanIInv, CoverInv
<1>12. CountInv'
  <2>1. /\ stats' \in [changed : Nat, suspect : Nat, unchanged : Nat]
        /\ stats'.changed + stats'.unchanged = stats.changed + stats.unchanged + 1
        /\ stats'.suspect <= stats'.changed
    BY ReportCounts DEF ScanIInv, CountInv
  <2>2. Cardinality(Busy) = Cardinality(Busy') + 1 /\ Cardinality(Busy') \in Nat
    <3>1. IsFiniteSet(Busy')
      BY <1>5, PoolFinite, FS_Subset
    <3>. QED
      BY <1>5, <3>1, OneMore
  <2>3. /\ Cardinality(DOMAIN report') = Cardinality(DOMAIN report) + 1
        /\ Cardinality(DOMAIN report) \in Nat
    BY <1>6, <1>7, PoolFinite, OneMore
  <2>4. Cardinality(Dropped \cap Seen \cap Visited) \in Nat
    BY PoolFinite, FS_CardinalityType
  <2>. QED
    BY <1>1, <1>2, <2>1, <2>2, <2>3, <2>4 DEF ScanIInv, CountInv
<1>. QED
  BY <1>9, <1>10, <1>11, <1>12 DEF ScanIInv

(* Main does not touch the workers or what they reported. *)
MainOnly == UNCHANGED <<scene, worker, stats, report>>

(* The pool does not notice a step of main that changes no worker. *)
LEMMA PoolStays ==
    ASSUME ScanIInv, MainOnly, walker' \in [pc : {"walk", "send", "wait"}, next : Nat],
           walker'.next >= walker.next
    PROVE  PoolInv' /\ Busy' = Busy /\ InHand' = InHand
<1>1. Busy' = Busy /\ InHand' = InHand
  BY DEF MainOnly, Busy, InHand
<1>2. walker.next \in Nat
  BY FilesFinite DEF ScanIInv, WalkInv
<1>3. walker'.next \in Nat /\ walker'.pc # "done"
  OBVIOUS
<1>. QED
  BY <1>1, <1>2, <1>3 DEF ScanIInv, PoolInv, MainOnly

(* Main is done with file n, or begins to send it. *)
Passes(n) ==
    /\ n \in Files /\ At(n)
    /\ MainOnly
    /\ walker' \in {[walker EXCEPT !.next = n + 1], [walker EXCEPT !.pc = "send"]}
    /\ \/ failed' = failed
       \/ \E call \in {"lstat", "probe"} :
            failed' = failed \cup {[file |-> n, call |-> call]}

(* Main is one file further, or about to send this one. *)
LEMMA PassWalk ==
    ASSUME ScanIInv, NEW n \in Files, Passes(n)
    PROVE  /\ WalkInv' /\ n \in Nat /\ n = walker.next /\ walker.pc = "walk"
           /\ Visited = 1..n - 1 /\ Visited' = Visited \cup {n} /\ n \notin Visited
           /\ walker' \in [pc : {"walk", "send", "wait"}, next : Nat]
           /\ \/ walker'.pc = "walk" /\ walker'.next = n + 1
              \/ walker'.pc = "send" /\ walker'.next = n
<1>1. /\ n \in Nat \ {0} /\ n <= Len(tree.files) /\ Len(tree.files) \in Nat
      /\ Files = 1..Len(tree.files)
  BY FilesFinite DEF ScanIInv, WalkInv
<1>2. n = walker.next /\ walker.pc = "walk" /\ Visited = 1..n - 1
  BY DEF Passes, At, Visited
<1>3. walker \in [pc : {"walk", "send", "wait", "done"}, next : 1..Len(tree.files) + 1]
  BY DEF ScanIInv, WalkInv
<1>4. /\ walker' \in [pc : {"walk", "send", "wait"}, next : 1..Len(tree.files) + 1]
      /\ \/ walker'.pc = "walk" /\ walker'.next = n + 1
         \/ walker'.pc = "send" /\ walker'.next = n
  BY <1>1, <1>2, <1>3 DEF Passes
<1>5. Visited' = 1..n /\ Visited' = Visited \cup {n} /\ n \notin Visited
  BY <1>1, <1>2, <1>4 DEF Visited
<1>6. \A i \in Files \ Visited' : ~FailedAt(i, "lstat")' /\ ~FailedAt(i, "probe")'
  <2>. SUFFICES ASSUME NEW i \in Files, i \notin Visited'
                PROVE  ~FailedAt(i, "lstat")' /\ ~FailedAt(i, "probe")'
    OBVIOUS
  <2>1. i # n /\ ~FailedAt(i, "lstat") /\ ~FailedAt(i, "probe")
    BY <1>5 DEF ScanIInv, WalkInv
  <2>2. \A c, call : [file |-> i, call |-> c] # [file |-> n, call |-> call]
    BY <2>1
  <2>. QED
    BY <2>1, <2>2 DEF Passes, FailedAt
<1>7. Files' = Files /\ tree' = tree /\ args' = args
  BY SceneFacts DEF Passes, MainOnly
<1>8. WalkInv'
  BY <1>1, <1>4, <1>6, <1>7 DEF ScanIInv, WalkInv
<1>. QED
  BY <1>1, <1>2, <1>4, <1>5, <1>8

(* What Seen and Dropped have of the files main has passed. *)
LEMMA PassCounts ==
    ASSUME ScanIInv, NEW n \in Files, Passes(n)
    PROVE  LET seen == ~FailedAt(n, "lstat")'
               dropped == IsCode(n) /\ FilteredOut(n) /\ seen /\ ~FailedAt(n, "probe")'
           IN /\ Cardinality(Seen' \cap Visited')
                   = Cardinality(Seen \cap Visited) + (IF seen THEN 1 ELSE 0)
              /\ Cardinality(Dropped' \cap Seen' \cap Visited')
                   = Cardinality(Dropped \cap Seen \cap Visited) + (IF dropped THEN 1 ELSE 0)
              /\ Cardinality(Seen \cap Visited) \in Nat
              /\ Cardinality(Dropped \cap Seen \cap Visited) \in Nat
<1>1. Visited' = Visited \cup {n} /\ n \notin Visited
  BY PassWalk
<1>2. /\ \A i \in Visited : /\ FailedAt(i, "lstat")' <=> FailedAt(i, "lstat")
                            /\ FailedAt(i, "probe")' <=> FailedAt(i, "probe")
      /\ UNCHANGED scene /\ Files' = Files
  BY <1>1, SceneFacts DEF Passes, FailedAt, MainOnly
<1>. DEFINE seen == ~FailedAt(n, "lstat")'
            dropped == IsCode(n) /\ FilteredOut(n) /\ seen /\ ~FailedAt(n, "probe")'
<1>3. Seen' \cap Visited' = (Seen \cap Visited) \cup (IF seen THEN {n} ELSE {})
  <2>1. \A i : i \in Seen' <=> i \in Files /\ ~FailedAt(i, "lstat")'
    BY <1>2 DEF Seen
  <2>. QED
    BY <1>1, <1>2, <2>1 DEF Seen
<1>4. Dropped' \cap Seen' \cap Visited'
        = (Dropped \cap Seen \cap Visited) \cup (IF dropped THEN {n} ELSE {})
  <2>1. \A i : i \in Seen' <=> i \in Files /\ ~FailedAt(i, "lstat")'
    BY <1>2 DEF Seen
  <2>2. \A i : i \in Dropped' <=> i \in Files /\ IsCode(i) /\ FilteredOut(i)
                                   /\ ~FailedAt(i, "probe")'
    BY <1>2, SceneFacts DEF Dropped
  <2>. QED
    BY <1>1, <1>2, <2>1, <2>2 DEF Seen, Dropped
<1>5. n \notin Seen \cap Visited /\ n \notin Dropped \cap Seen \cap Visited
  BY <1>1
<1>. HIDE DEF seen, dropped
<1>6. Cardinality(Seen' \cap Visited')
        = Cardinality(Seen \cap Visited) + (IF seen THEN 1 ELSE 0)
      /\ Cardinality(Seen \cap Visited) \in Nat
  BY <1>3, <1>5, PoolFinite, OneMoreIf
<1>7. Cardinality(Dropped' \cap Seen' \cap Visited')
        = Cardinality(Dropped \cap Seen \cap Visited) + (IF dropped THEN 1 ELSE 0)
      /\ Cardinality(Dropped \cap Seen \cap Visited) \in Nat
  BY <1>4, <1>5, PoolFinite, OneMoreIf
<1>. QED
  BY <1>6, <1>7 DEF seen, dropped

(* Main passes over a file that need not be scanned. *)
LEMMA PassCover ==
    ASSUME ScanIInv, NEW n \in Files, Passes(n), walker'.next = n + 1 => ~(ToScan(n) /\ Sound(n)')
    PROVE  CoverInv'
<1>1. /\ n \in Nat /\ n = walker.next
      /\ walker'.next \in {n, n + 1}
      /\ walker' \in [pc : {"walk", "send", "wait"}, next : Nat]
  BY PassWalk
<1>2. InHand' = InHand /\ report' = report
  BY <1>1, PoolStays DEF Passes, MainOnly
<1>3. \A i : (ToScan(i)' <=> ToScan(i)) /\ (Sound(i)' => Sound(i))
  BY SceneFacts DEF Passes, MainOnly
<1>. QED
  BY <1>1, <1>2, <1>3 DEF ScanIInv, CoverInv

(* The statistics when main passes a file that was seen (or not), and was  *)
(* dropped by the filter, custom, is being sent, or none of these.         *)
Counts(n, seen, dropped, custom) ==
    /\ FailedAt(n, "lstat")' <=> ~seen
    /\ (IsCode(n) /\ FilteredOut(n) /\ ~FailedAt(n, "probe")' /\ seen) <=> dropped
    /\ count' = [total |-> count.total + (IF seen THEN 1 ELSE 0),
                 code |-> count.code + (IF dropped \/ custom \/ walker'.pc = "send" THEN 1 ELSE 0),
                 custom |-> count.custom + (IF custom THEN 1 ELSE 0)]
    /\ custom => ~dropped /\ walker'.pc = "walk"
    /\ dropped => walker'.pc = "walk"

(* A step of main that passes a file keeps the invariant, when it counts   *)
(* the file as what it is and overlooks none that is to be scanned.        *)
LEMMA PassStep ==
    ASSUME ScanIInv, NEW n \in Files, Passes(n),
           NEW seen \in BOOLEAN, NEW dropped \in BOOLEAN, NEW custom \in BOOLEAN,
           Counts(n, seen, dropped, custom),
           walker'.next = n + 1 => ~(ToScan(n) /\ Sound(n)')
    PROVE  ScanIInv'
<1>1. /\ WalkInv' /\ walker.pc = "walk" /\ n = walker.next /\ n \in Nat
      /\ walker' \in [pc : {"walk", "send", "wait"}, next : Nat]
      /\ walker'.pc \in {"walk", "send"} /\ walker'.next >= walker.next
  BY PassWalk
<1>2. PoolInv' /\ Busy' = Busy /\ stats' = stats /\ report' = report
  BY <1>1, PoolStays DEF Passes, MainOnly
<1>3. CoverInv'
  BY PassCover
<1>4. /\ Cardinality(Seen' \cap Visited')
           = Cardinality(Seen \cap Visited) + (IF seen THEN 1 ELSE 0)
      /\ Cardinality(Dropped' \cap Seen' \cap Visited')
           = Cardinality(Dropped \cap Seen \cap Visited) + (IF dropped THEN 1 ELSE 0)
      /\ Cardinality(Seen \cap Visited) \in Nat
      /\ Cardinality(Dropped \cap Seen \cap Visited) \in Nat
  <2>1. /\ (~FailedAt(n, "lstat")') <=> seen
        /\ (IsCode(n) /\ FilteredOut(n) /\ ~FailedAt(n, "lstat")' /\ ~FailedAt(n, "probe")')
             <=> dropped
    BY DEF Counts
  <2>. QED
    BY <2>1, PassCounts
<1>5. Cardinality(Busy) \in Nat /\ Cardinality(DOMAIN report) \in Nat
  BY PoolFinite, FS_CardinalityType
<1>6. CountInv'
  BY <1>1, <1>2, <1>4, <1>5 DEF ScanIInv, CountInv, Counts
<1>. QED
  BY <1>1, <1>2, <1>3, <1>6 DEF ScanIInv

(* Each step of the walk is such a step. *)
LEMMA WalkSteps ==
    ASSUME ScanIInv, Inaccessible \/ NoCode \/ Filtered \/ Custom \/ Send
    PROVE  ScanIInv'
<1>1. PICK n \in Files : n = walker.next /\ At(n) /\ MainOnly
  BY DEF Inaccessible, NoCode, Filtered, Custom, Send, At, MainOnly
<1>2. /\ count \in [total : Nat, code : Nat, custom : Nat]
      /\ walker \in [pc : {"walk", "send", "wait", "done"}, next : 1..Len(tree.files) + 1]
      /\ walker.pc = "walk" /\ tree \in Tree
      /\ ~FailedAt(n, "lstat") /\ ~FailedAt(n, "probe")
  <2>1. n \notin Visited /\ walker.pc = "walk"
    BY <1>1, FilesFinite DEF ScanIInv, WalkInv, At, Visited
  <2>. QED
    BY <1>1, <2>1 DEF ScanIInv, WalkInv, CountInv
<1>3. n \in Nat /\ [walker EXCEPT !.next = n + 1].pc = "walk" /\ [walker EXCEPT !.pc = "send"].pc = "send"
      /\ [walker EXCEPT !.next = n + 1].next = n + 1 /\ [walker EXCEPT !.pc = "send"].next = n
      /\ n # n + 1
  BY <1>1, <1>2, FilesFinite
<1>4. ToScan(n) => IsCode(n) /\ ~FilteredOut(n) /\ ~IsCustom(n)
  BY <1>1, <1>2, ToScanPasses
<1>c. Counted = [total |-> count.total + 1, code |-> count.code + 1, custom |-> count.custom + 0]
  <2>1. count.custom \in Nat /\ count.custom + 0 = count.custom
    BY <1>2
  <2>2. /\ Counted \in [total : Nat, code : Nat, custom : Nat]
        /\ Counted.total = count.total + 1 /\ Counted.code = count.code + 1
        /\ Counted.custom = count.custom
    <3>. DEFINE one == [count EXCEPT !.total = @ + 1]
    <3>1. /\ one \in [total : Nat, code : Nat, custom : Nat]
          /\ one.total = count.total + 1 /\ one.code = count.code /\ one.custom = count.custom
      BY <1>2
    <3>2. Counted = [one EXCEPT !.code = count.code + 1]
      BY DEF Counted
    <3>. HIDE DEF one
    <3>. QED
      BY <1>2, <3>1, <3>2
  <2>. QED
    BY <2>1, <2>2
<1>5. CASE Inaccessible
  <2>1. Passes(n) /\ walker'.pc = "walk"
    BY <1>1, <1>3, <1>5 DEF Inaccessible, Passes, GoOn, Fail
  <2>2. FailedAt(n, "lstat")' /\ ~Sound(n)'
    <3>1. [file |-> n, call |-> "lstat"] \in failed'
      BY <1>1, <1>5 DEF Inaccessible, Fail
    <3>. QED
      BY <3>1 DEF FailedAt, Sound
  <2>3. Counts(n, FALSE, FALSE, FALSE)
    BY <1>1, <1>2, <1>5, <2>1, <2>2 DEF Inaccessible, Counts
  <2>. QED
    BY <1>1, <2>1, <2>2, <2>3, PassStep
<1>6. CASE NoCode
  <2>1. Passes(n) /\ walker'.pc = "walk"
    BY <1>1, <1>3, <1>6 DEF NoCode, Passes, GoOn, Fail
  <2>2. ~FailedAt(n, "lstat")' /\ (~IsCode(n) \/ (FailedAt(n, "probe")' /\ ~Sound(n)'))
    BY <1>1, <1>2, <1>6 DEF NoCode, Fail, FailedAt, IsCode, Sound
  <2>3. Counts(n, TRUE, FALSE, FALSE)
    BY <1>1, <1>2, <1>6, <2>1, <2>2 DEF NoCode, Counts
  <2>. QED
    BY <1>1, <1>4, <2>1, <2>2, <2>3, PassStep
<1>7. CASE Filtered
  <2>1. Passes(n) /\ walker'.pc = "walk" /\ failed' = failed
    BY <1>1, <1>3, <1>7 DEF Filtered, Passes, GoOn
  <2>2. Counts(n, TRUE, TRUE, FALSE)
    <3>1. count' = Counted /\ IsCode(n) /\ FilteredOut(n)
      BY <1>1, <1>7 DEF Filtered
    <3>. QED
      BY <1>2, <1>c, <2>1, <3>1 DEF Counts, FailedAt
  <2>. QED
    BY <1>1, <1>4, <1>7, <2>1, <2>2, PassStep DEF Filtered
<1>8. CASE Custom
  <2>1. Passes(n) /\ walker'.pc = "walk" /\ failed' = failed
    BY <1>1, <1>3, <1>8 DEF Custom, Passes, GoOn
  <2>2. Counts(n, TRUE, FALSE, TRUE)
    BY <1>1, <1>2, <1>8, <2>1 DEF Custom, Counts, Counted, FailedAt
  <2>. QED
    BY <1>1, <1>4, <1>8, <2>1, <2>2, PassStep DEF Custom
<1>9. CASE Send
  <2>1. Passes(n) /\ walker'.pc = "send" /\ walker'.next = n /\ failed' = failed
    BY <1>1, <1>3, <1>9 DEF Send, Passes
  <2>2. Counts(n, TRUE, FALSE, FALSE)
    <3>1. count' = Counted /\ ~FilteredOut(n)
      BY <1>1, <1>9 DEF Send
    <3>. QED
      BY <1>2, <1>c, <2>1, <3>1 DEF Counts, FailedAt
  <2>. QED
    BY <1>1, <1>3, <2>1, <2>2, PassStep
<1>. QED
  BY <1>5, <1>6, <1>7, <1>8, <1>9

(* The end of the walk, and of the scan. *)
LEMMA EndSteps ==
    ASSUME ScanIInv, Close \/ Finish
    PROVE  ScanIInv'
<1>1. UNCHANGED <<scene, count, worker, stats, report, failed>>
  BY DEF Close, Finish, scene
<1>2. walker \in [pc : {"walk", "send", "wait", "done"}, next : 1..Len(tree.files) + 1]
      /\ Len(tree.files) \in Nat
  BY FilesFinite DEF ScanIInv, WalkInv
<1>3. /\ walker'.next = walker.next /\ walker.pc # "send" /\ walker'.pc \in {"wait", "done"}
      /\ walker' \in [pc : {"walk", "send", "wait", "done"}, next : 1..Len(tree.files) + 1]
      /\ walker.next = Len(tree.files) + 1
  BY <1>2 DEF Close, Finish, ScanIInv, WalkInv
<1>4. Seen' = Seen /\ Dropped' = Dropped /\ Visited' = Visited /\ Files' = Files
      /\ Busy' = Busy /\ InHand' = InHand
  BY <1>1, <1>3, SameFailures, SceneFacts DEF Visited, FailedAt, Busy, InHand
<1>5. walker'.pc = "done" => Busy = {}
  BY <1>2 DEF Close, Finish, Busy, BusyPC
<1>6. WalkInv'
  BY <1>1, <1>3, <1>4, SceneFacts DEF ScanIInv, WalkInv, FailedAt
<1>7. PoolInv'
  BY <1>1, <1>3, <1>4, <1>5 DEF ScanIInv, PoolInv
<1>8. CoverInv'
  BY <1>1, <1>3, <1>4, SceneFacts DEF ScanIInv, CoverInv
<1>9. CountInv'
  BY <1>1, <1>3, <1>4 DEF ScanIInv, CountInv
<1>. QED
  BY <1>6, <1>7, <1>8, <1>9 DEF ScanIInv

(* The invariant holds before the walk. *)
LEMMA InitHolds == Init => ScanIInv
<1>. SUFFICES ASSUME Init PROVE ScanIInv
  OBVIOUS
<1>1. Len(tree.files) \in Nat /\ Files = 1..Len(tree.files)
  BY FilesFinite DEF Init
<1>2. Visited = {} /\ Busy = {} /\ DOMAIN report = {} /\ 1..walker.next - 1 = {}
  BY DEF Init, Visited, Busy, BusyPC, Idle
<1>3. Cardinality({}) = 0
  BY FS_EmptySet
<1>4. WalkInv
  BY <1>1 DEF Init, WalkInv, FailedAt
<1>5. PoolInv
  BY <1>2 DEF Init, PoolInv, IsWorker, Idle
<1>6. CoverInv
  BY <1>2 DEF CoverInv
<1>7. CountInv
  <2>1. Seen \cap Visited = {} /\ Dropped \cap Seen \cap Visited = {}
    BY <1>2
  <2>. QED
    BY <1>2, <1>3, <2>1 DEF Init, CountInv
<1>. QED
  BY <1>4, <1>5, <1>6, <1>7 DEF ScanIInv

(* The invariant does not notice steps that change nothing. *)
LEMMA StutterHolds ==
    ASSUME ScanIInv, UNCHANGED vars
    PROVE  ScanIInv'
<1>1. UNCHANGED <<scene, walker, count, worker, stats, report, failed>>
  BY DEF vars, scene
<1>2. Seen' = Seen /\ Dropped' = Dropped /\ Visited' = Visited /\ Files' = Files
      /\ Busy' = Busy /\ InHand' = InHand
  BY <1>1, SameFailures, SceneFacts DEF Visited, FailedAt, Busy, InHand
<1>3. WalkInv'
  BY <1>1, <1>2, SceneFacts DEF ScanIInv, WalkInv, FailedAt
<1>4. PoolInv'
  BY <1>1, <1>2 DEF ScanIInv, PoolInv
<1>5. CoverInv'
  BY <1>1, <1>2, SceneFacts DEF ScanIInv, CoverInv
<1>6. CountInv'
  BY <1>1, <1>2 DEF ScanIInv, CountInv
<1>. QED
  BY <1>3, <1>4, <1>5, <1>6 DEF ScanIInv

(* The inductive invariant of the walk and its pool. *)
THEOREM ScanInvariant == Spec => []ScanIInv
<1>1. ScanIInv /\ [Next]_vars => ScanIInv'
  <2>. SUFFICES ASSUME ScanIInv, [Next]_vars PROVE ScanIInv'
    OBVIOUS
  <2>1. CASE UNCHANGED vars
    BY <2>1, StutterHolds
  <2>2. CASE Main
    BY <2>2, WalkSteps, EndSteps DEF Main
  <2>3. ASSUME NEW w \in Worker, Work(w) PROVE ScanIInv'
    BY <2>3, ReceiveStep, LeaveStep, ReportStep, ReadsWorks, WorksStep
       DEF Work, Reads, ScanIInv
  <2>. QED
    BY <2>1, <2>2, <2>3 DEF Next
<1>. QED
  BY <1>1, InitHolds, PTL DEF Spec

(* No file that is to be scanned is overlooked, whatever the order of the  *)
(* workers and whatever fails (walkFiles, walkPath).                       *)
THEOREM NothingOverlookedTheorem == Spec => []NothingOverlooked
<1>1. ScanIInv => NothingOverlooked
  <2>. SUFFICES ASSUME ScanIInv, walker.pc = "done", NEW i \in Files, ToScan(i), Sound(i)
                PROVE  i \in DOMAIN report
    BY DEF NothingOverlooked
  <2>1. i \in 1..walker.next - 1
    BY FilesFinite DEF ScanIInv, WalkInv
  <2>2. InHand = {}
    BY DEF ScanIInv, PoolInv, InHand
  <2>. QED
    BY <2>1, <2>2 DEF ScanIInv, CoverInv
<1>. QED
  BY <1>1, ScanInvariant, PTL

(* When the scan is done its statistics add up to the files of the tree    *)
(* (walkFiles, walkPath, scanOneFile).                                     *)
THEOREM CountedTheorem == Spec => []EveryFileCounted
<1>1. ScanIInv => EveryFileCounted
  <2>. SUFFICES ASSUME ScanIInv, walker.pc = "done" PROVE EveryFileCounted
    BY DEF EveryFileCounted
  <2>1. Visited = Files
    BY FilesFinite DEF ScanIInv, WalkInv, Visited
  <2>2. Seen \subseteq Visited /\ Dropped \cap Seen \cap Visited = Dropped \cap Seen
        /\ Seen \cap Visited = Seen
    BY <2>1 DEF Seen
  <2>3. Cardinality(Busy) = 0
    BY FS_EmptySet DEF ScanIInv, PoolInv
  <2>4. /\ Cardinality(DOMAIN report) \in Nat /\ Cardinality(Dropped \cap Seen) \in Nat
    BY <2>2, PoolFinite, FS_CardinalityType
  <2>5. /\ count \in [total : Nat, code : Nat, custom : Nat]
        /\ stats \in [changed : Nat, suspect : Nat, unchanged : Nat]
        /\ count.total = Cardinality(Seen)
        /\ count.code = count.custom + Cardinality(DOMAIN report) + Cardinality(Dropped \cap Seen)
        /\ stats.changed + stats.unchanged = Cardinality(DOMAIN report)
        /\ stats.suspect <= stats.changed
    <3>1. /\ CountInv
          /\ Cardinality(Seen \cap Visited) = Cardinality(Seen)
          /\ Cardinality(Dropped \cap Seen \cap Visited) = Cardinality(Dropped \cap Seen)
          /\ walker.pc # "send"
      BY <2>2 DEF ScanIInv
    <3>. QED
      BY <2>3, <2>4, <3>1 DEF CountInv
  <2>. QED
    BY <2>4, <2>5 DEF EveryFileCounted, Seen, Dropped, FailedAt
<1>. QED
  BY <1>1, ScanInvariant, PTL
-----------------------------------------------------------------------------
(* A buffer, and a worker with its place in a file. *)
Buffer == [1..MaxTokenSize -> Byte]
Reader == [pc : {"idle", "open", "scan", "report", "gone"}, file : {0} \cup Files,
           pos : Nat, start : 0..MaxTokenSize, end : 0..MaxTokenSize, err : BOOLEAN,
           line : Nat, token : Text, hits : Seq(Hit)]

(* The bytes of the file a worker is done with. *)
Used(me) == me.pos - (me.end - me.start)

(* The window of the buffer holds what follows them in the file, and hits  *)
(* are in the buffer.                                                      *)
WindowInv(me, b, data) ==
    /\ me.start <= me.end /\ me.end - me.start <= me.pos /\ me.pos <= Len(data)
    /\ \A k \in 1..me.end - me.start : b[me.start + k] = data[Used(me) + k]
    /\ me.err => me.end - me.start < MaxTokenSize
    /\ \A k \in DOMAIN me.hits :
         me.hits[k].at # 0 => me.hits[k].at + Len(me.hits[k].missed) - 1 <= MaxTokenSize

(* A small file is never moved: the buffer begins with what was read of    *)
(* it, and hits are where they are in the file.                            *)
SmallInv(me, b, data) ==
    /\ me.end = me.pos /\ \A k \in 1..me.end : b[k] = data[k]
    /\ \A k \in DOMAIN me.hits : LET hit == me.hits[k] IN
         hit.at # 0 => /\ hit.at + Len(hit.missed) - 1 <= me.start
                       /\ hit.missed = SubSeq(data, hit.at, hit.at + Len(hit.missed) - 1)

(* The numbers and texts of hits, and those a line is to have. *)
Found(hits) == [k \in DOMAIN hits |-> <<hits[k].line, hits[k].missed>>]
LineMisses(n, line) ==
    LET pieces == Missing(line) IN [k \in DOMAIN pieces |-> <<n, pieces[k].text>>]
MissesUpTo(data, m) == FlattenSeq([n \in 1..m |-> LineMisses(n, Lines(data)[n])])

(* After so many lines, a worker has consumed these and found what they    *)
(* miss; it stops behind the last, unless a read fails.                    *)
ExactInv(me, data) ==
    /\ me.line <= Len(Lines(data)) /\ Used(me) = Consumed(data, me.line)
    /\ Found(me.hits) = MissesUpTo(data, me.line)
    /\ me.err => me.pos = Len(data)
    /\ me.pc = "report" => me.line = Len(Lines(data))

ReadInv(me, b, data, sound) ==
    /\ WindowInv(me, b, data)
    /\ Len(data) <= MaxTokenSize \div 2 => SmallInv(me, b, data)
    /\ sound => ExactInv(me, data)

IsReport(hits, data, sound) ==
    /\ hits \in Seq(Shown)
    /\ Len(data) <= MaxTokenSize \div 2 =>
         \A k \in DOMAIN hits : hits[k].shown = hits[k].missed
    /\ sound => Found(hits) = MissesUpTo(data, Len(Lines(data)))

DataInv ==
    /\ worker \in [Worker -> Reader] /\ buf \in [Worker -> Buffer]
    /\ failed \subseteq [file : Files, call : Call]
    /\ \A w \in Busy : ReadInv(worker[w], buf[w], file(worker[w].file).data, Sound(worker[w].file))
    /\ \A i \in DOMAIN report : IsReport(report[i], file(i).data, Sound(i))

(* The contents of the files of a tree. *)
LEMMA FileData ==
    ASSUME tree \in Tree, NEW i \in Files
    PROVE  file(i).data \in Contents
<1>1. tree.files \in Seq(File)
  BY ScanAssumption
<1>2. tree.files[i] \in File
  BY <1>1 DEF Files
<1>. QED
  BY <1>2 DEF file, File, Contents

(* A buffer is a sequence of bytes. *)
LEMMA BufferIsSeq ==
    ASSUME NEW b \in Buffer
    PROVE  /\ MaxTokenSize \in Nat \ {0} /\ b \in Seq(Byte) /\ Len(b) = MaxTokenSize
           /\ \A i \in 1..MaxTokenSize : b[i] \in Byte
<1>1. MaxTokenSize \in Nat \ {0}
  BY NormalizeAssumption
<1>. QED
  BY <1>1 DEF Buffer

(* What the database misses of a line is pieces of the line. *)
LEMMA MissingIs ==
    ASSUME NEW line \in Text
    PROVE  /\ Missing(line) \in Seq([text : Text, at : Nat])
           /\ \A k \in DOMAIN Missing(line) :
                IsPieceOf(Missing(line)[k], line) /\ Len(Missing(line)[k].text) >= 1
           /\ (\A k \in DOMAIN HashLine[line] : HashLine[line][k].text \in db) => Missing(line) = << >>
<1>. DEFINE pieces == HashLine[line]
            at == {k \in DOMAIN pieces : pieces[k].text \notin db}
<1>1. /\ pieces \in Seq([text : Text, at : Nat])
      /\ \A k \in DOMAIN pieces : IsPieceOf(pieces[k], line) /\ Len(pieces[k].text) >= 1
  BY HashLineIsPieces
<1>. HIDE DEF pieces
<1>2. Missing(line) = Selected(pieces, at)
  BY <1>1 DEF Missing, Unknown, Pieces, Text, pieces
<1>3. at \in SUBSET DOMAIN pieces
  OBVIOUS
<1>. HIDE DEF at
<1>4. /\ Missing(line) \in Seq([text : Text, at : Nat])
      /\ \A k \in DOMAIN Missing(line) : \E i \in at : Missing(line)[k] = pieces[i]
      /\ at = {} => Missing(line) = << >>
  BY <1>1, <1>2, <1>3, SelectedIs
<1>5. (\A k \in DOMAIN pieces : pieces[k].text \in db) => at = {}
  BY DEF at
<1>. QED
  BY <1>1, <1>3, <1>4, <1>5 DEF pieces

(* The hits of a line that is in the buffer are in the buffer. *)
AreHits(hits, pieces, number, start, token) ==
    /\ hits \in Seq(Hit) /\ Len(hits) = Len(pieces) /\ DOMAIN hits = DOMAIN pieces
    /\ \A k \in DOMAIN hits :
         /\ hits[k].line = number /\ hits[k].missed = pieces[k].text
         /\ hits[k].at # 0 =>
              \E at \in Nat \ {0} :
                /\ hits[k].at = start + at
                /\ at + Len(hits[k].missed) - 1 <= Len(token)
                /\ hits[k].missed = SubSeq(token, at, at + Len(hits[k].missed) - 1)

(* The hits of a line (scanFileWithDB's callback) are pieces of the token  *)
(* it has, at their place in the buffer.                                   *)
LEMMA HitsAre ==
    ASSUME NEW number \in Nat, NEW start \in Nat, NEW token \in Text,
           start + Len(token) <= MaxTokenSize
    PROVE  AreHits(Hits(Missing(token), number, start), Missing(token), number, start, token)
<1>. DEFINE pieces == Missing(token)
            hits == Hits(pieces, number, start)
<1>1. /\ pieces \in Seq([text : Text, at : Nat])
      /\ \A k \in DOMAIN pieces : IsPieceOf(pieces[k], token) /\ Len(pieces[k].text) >= 1
  BY MissingIs
<1>2. Len(token) \in Nat /\ MaxTokenSize \in Nat
  BY NormalizeAssumption DEF Text
<1>. HIDE DEF pieces
<1>3. hits = [k \in DOMAIN pieces |->
                [line |-> number, missed |-> pieces[k].text,
                 at |-> IF pieces[k].at = 0 THEN 0 ELSE start + pieces[k].at]]
  BY DEF Hits
<1>. HIDE DEF hits
<1>4. ASSUME NEW k \in DOMAIN pieces
      PROVE  /\ hits[k] \in Hit /\ hits[k].line = number /\ hits[k].missed = pieces[k].text
             /\ hits[k].at # 0 =>
                  \E at \in Nat \ {0} :
                    /\ hits[k].at = start + at
                    /\ at + Len(hits[k].missed) - 1 <= Len(token)
                    /\ hits[k].missed = SubSeq(token, at, at + Len(hits[k].missed) - 1)
  <2>. DEFINE p == pieces[k]
  <2>1. /\ p.text \in Text /\ p.at \in Nat /\ Len(p.text) >= 1
        /\ p.at # 0 => /\ p.at + Len(p.text) - 1 <= Len(token)
                       /\ p.text = SubSeq(token, p.at, p.at + Len(p.text) - 1)
    BY <1>1 DEF IsPieceOf
  <2>. HIDE DEF p
  <2>2. hits[k] = [line |-> number, missed |-> p.text,
                   at |-> IF p.at = 0 THEN 0 ELSE start + p.at]
    BY <1>3 DEF p
  <2>3. Len(p.text) \in Nat /\ p.text \in Seq(Byte)
    BY <2>1 DEF Text, Byte
  <2>4. p.at # 0 => start + p.at <= MaxTokenSize /\ start + p.at # 0
    BY <1>2, <2>1, <2>3
  <2>5. (IF p.at = 0 THEN 0 ELSE start + p.at) \in 0..MaxTokenSize
    BY <1>2, <2>1, <2>4
  <2>6. hits[k] \in Hit
    BY <2>2, <2>3, <2>5 DEF Hit
  <2>7. hits[k].line = number /\ hits[k].missed = p.text
        /\ (hits[k].at # 0 => p.at # 0 /\ hits[k].at = start + p.at)
    BY <2>2
  <2>. QED
    BY <2>1, <2>6, <2>7 DEF p
<1>5. hits \in [DOMAIN pieces -> Hit]
  BY <1>3, <1>4
<1>6. hits \in Seq(Hit) /\ Len(hits) = Len(pieces) /\ DOMAIN hits = DOMAIN pieces
  BY <1>1, <1>5, SeqOfFcn
<1>. QED
  BY <1>4, <1>6 DEF hits, pieces, AreHits

(* One sequence behind another. *)
LEMMA ConcatIs ==
    ASSUME NEW S, NEW s \in Seq(S), NEW t \in Seq(S)
    PROVE  /\ s \o t \in Seq(S) /\ Len(s \o t) = Len(s) + Len(t)
           /\ \A k \in 1..Len(s) + Len(t) :
                (s \o t)[k] = IF k <= Len(s) THEN s[k] ELSE t[k - Len(s)]
  OBVIOUS

(* A worker that has taken so many bytes for a line. *)
Taken(me, token, advance) ==
    [me EXCEPT !.token = token, !.line = @ + 1, !.start = @ + advance,
               !.hits = @ \o Hits(Missing(token), me.line + 1, me.start)]

(* The line is so many bytes of the window; so many are consumed. *)
IsTaken(me, b, token, length, advance) ==
    /\ length <= advance /\ advance <= me.end - me.start
    /\ token = SubSeq(b, me.start + 1, me.start + length)

(* Hits in the buffer, and where they are in a file that is not moved. *)
HitFits(hit) == hit.at # 0 => hit.at + Len(hit.missed) - 1 <= MaxTokenSize
HitStays(hit, start, data) ==
    hit.at # 0 => /\ hit.at + Len(hit.missed) - 1 <= start
                  /\ hit.missed = SubSeq(data, hit.at, hit.at + Len(hit.missed) - 1)

(* A worker takes a line from its window: everything about its window and  *)
(* hits stays, and the hits of the line are added.                         *)
LEMMA TakenKeeps ==
    ASSUME NEW data \in Contents, NEW me \in Reader, NEW b \in Buffer, WindowInv(me, b, data),
           NEW token \in Text, NEW length \in Nat, NEW advance \in Nat,
           IsTaken(me, b, token, length, advance)
    PROVE  LET you == Taken(me, token, advance) IN
           /\ you \in Reader /\ WindowInv(you, b, data)
           /\ SmallInv(me, b, data) => SmallInv(you, b, data)
           /\ Found(you.hits) = Found(me.hits) \o LineMisses(me.line + 1, token)
           /\ Used(you) = Used(me) + advance
           /\ token = SubSeq(data, Used(me) + 1, Used(me) + length)
<1>. DEFINE you == Taken(me, token, advance)
            pieces == Missing(token)
            new == Hits(pieces, me.line + 1, me.start)
            used == Used(me)
            start == me.start
            end == me.end
            pos == me.pos
            number == me.line + 1
            old == me.hits
<1>1. /\ start \in Nat /\ end \in Nat /\ pos \in Nat /\ number \in Nat /\ old \in Seq(Hit)
      /\ start <= MaxTokenSize /\ end <= MaxTokenSize
  BY BufferIsSeq DEF Reader
<1>2. MaxTokenSize \in Nat \ {0} /\ b \in Seq(Byte) /\ Len(b) = MaxTokenSize
  BY BufferIsSeq
<1>3. start <= end /\ end - start <= pos /\ pos <= Len(data)
  BY DEF WindowInv
<1>4. \A k \in 1..end - start : b[start + k] = data[used + k]
  BY DEF WindowInv
<1>5. /\ me.err => end - start < MaxTokenSize
      /\ \A k \in DOMAIN old : HitFits(old[k])
  BY DEF WindowInv, HitFits
<1>6. used = pos - (end - start) /\ used \in Nat /\ Len(data) \in Nat
  BY <1>1, <1>3 DEF Used, Contents
<1>7. used + (end - start) = pos
  BY <1>1, <1>6
<1>8. length <= advance /\ advance <= end - start
  BY DEF IsTaken
<1>9. token = SubSeq(b, start + 1, start + length)
  BY DEF IsTaken
<1>10. number = me.line + 1 /\ new = Hits(pieces, number, start)
  OBVIOUS
<1>. HIDE DEF you, new, used, start, end, pos, number, old
<1>11. /\ start + length <= MaxTokenSize /\ start + length \in Nat
       /\ start + 1 \in Nat \ {0} /\ start + length <= Len(b)
       /\ start + 1 <= start + length + 1
  BY <1>1, <1>2, <1>3, <1>8
<1>12. Len(token) = length /\ \A k \in 1..length : token[k] = b[start + k]
  <2>1. /\ Len(token) = (start + length) - (start + 1) + 1
        /\ \A k \in 1..(start + length) - (start + 1) + 1 : token[k] = b[start + 1 + k - 1]
    BY <1>2, <1>11, <1>9, SubSeqIs
  <2>2. (start + length) - (start + 1) + 1 = length
    BY <1>1, <1>8
  <2>3. \A k \in 1..length : start + 1 + k - 1 = start + k
    BY <1>1
  <2>. QED
    BY <2>1, <2>2, <2>3
<1>13. token = SubSeq(data, used + 1, used + length)
  <2>1. /\ used + 1 \in Nat \ {0} /\ used + length \in Nat /\ used + 1 <= used + length + 1
        /\ used + length <= Len(data) /\ (used + length) - (used + 1) + 1 = length
    BY <1>1, <1>3, <1>6, <1>7, <1>8
  <2>. DEFINE slice == SubSeq(data, used + 1, used + length)
  <2>2. /\ slice \in Seq(Byte) /\ Len(slice) = length
        /\ \A k \in 1..length : slice[k] = data[used + 1 + k - 1]
    BY <2>1, SubSeqIs DEF Contents, Byte
  <2>. HIDE DEF slice
  <2>3. \A k \in 1..length : used + 1 + k - 1 = used + k
    BY <1>6
  <2>4. \A k \in 1..length : slice[k] = data[used + k]
    BY <2>2, <2>3
  <2>5. \A k \in 1..length : b[start + k] = data[used + k]
    BY <1>1, <1>4, <1>8
  <2>6. token \in Seq(Byte)
    BY DEF Text, Byte
  <2>7. \A k \in 1..length : token[k] = slice[k]
    BY <1>12, <2>4, <2>5
  <2>8. token = slice
    BY <1>12, <2>2, <2>6, <2>7, SameSeq
  <2>. QED
    BY <2>8 DEF slice
<1>14. AreHits(new, pieces, number, start, token)
  <2>1. number \in Nat /\ start \in Nat /\ start + Len(token) <= MaxTokenSize
    BY <1>1, <1>11, <1>12
  <2>2. pieces \in Seq([text : Text, at : Nat])
    BY MissingIs
  <2>. QED
    BY <1>10, <2>1, <2>2, HitsAre DEF pieces
<1>15. pieces \in Seq([text : Text, at : Nat])
  BY MissingIs
<1>16. /\ new \in Seq(Hit) /\ Len(new) = Len(pieces) /\ DOMAIN new = DOMAIN pieces
       /\ \A k \in DOMAIN new : new[k].line = number /\ new[k].missed = pieces[k].text
  BY <1>14 DEF AreHits
<1>. HIDE DEF pieces
<1>17. you = [me EXCEPT !.token = token, !.line = number, !.start = start + advance,
                       !.hits = old \o new]
  BY DEF Taken, you, new, pieces, Reader, start, number, old
<1>18. old \o new \in Seq(Hit)
  BY <1>1, <1>16
<1>19. start + advance \in 0..MaxTokenSize /\ number \in Nat
  BY <1>1, <1>2, <1>3, <1>8
<1>20. you \in Reader
  BY <1>17, <1>18, <1>19 DEF Reader
<1>21. /\ you.pos = pos /\ you.end = end /\ you.err = me.err /\ you.line = number
       /\ you.start = start + advance /\ you.hits = old \o new
  BY <1>17 DEF Reader, pos, end
<1>22. Used(you) = used + advance
  BY <1>1, <1>6, <1>7, <1>21 DEF Used
<1>23. \A k \in DOMAIN you.hits :
         (k \in DOMAIN old /\ you.hits[k] = old[k])
         \/ (k - Len(old) \in DOMAIN new /\ you.hits[k] = new[k - Len(old)])
  BY <1>1, <1>16, <1>21
<1>24. ASSUME NEW k \in DOMAIN new
       PROVE  /\ HitFits(new[k])
              /\ end = pos => HitStays(new[k], you.start, data)
  <2>. DEFINE h == new[k]
              size == Len(h.missed)
  <2>1. CASE h.at = 0
    BY <2>1 DEF HitFits, HitStays
  <2>2. CASE h.at # 0
    <3>1. PICK at \in Nat \ {0} :
                  /\ h.at = start + at
                  /\ at + size - 1 <= length
                  /\ h.missed = SubSeq(token, at, at + size - 1)
      BY <1>12, <1>14, <2>2 DEF AreHits
    <3>2. h \in Hit
      BY <1>16
    <3>3. size \in Nat
      BY <3>2 DEF Hit
    <3>. HIDE DEF h, size
    <3>4. at \in Nat \ {0} /\ h.at = start + at /\ at + size - 1 <= length
      BY <3>1
    <3>5. h.at + size - 1 <= start + length
      BY <1>1, <3>3, <3>4
    <3>6. HitFits(h)
      <4>1. h.at + size - 1 <= MaxTokenSize
        BY <1>1, <1>2, <1>11, <3>3, <3>4, <3>5
      <4>. QED
        BY <4>1 DEF HitFits, size
    <3>7. ASSUME end = pos
          PROVE  HitStays(h, you.start, data)
      <4>1. used = start
        BY <1>1, <1>6, <3>7
      <4>2. h.at + size - 1 <= you.start
        BY <1>1, <1>8, <1>21, <3>3, <3>4, <3>5
      <4>3. token = SubSeq(data, start + 1, start + length)
        BY <1>13, <4>1
      <4>4. /\ start + 1 \in Nat \ {0} /\ start + length \in Nat
            /\ start + 1 <= start + length + 1 /\ start + length <= Len(data)
            /\ at \in Nat \ {0} /\ at + size - 1 \in Nat /\ at <= at + size - 1 + 1
            /\ at + size - 1 <= (start + length) - (start + 1) + 1
        BY <1>1, <1>3, <1>6, <1>8, <3>3, <3>4, <4>1
      <4>5. SubSeq(SubSeq(data, start + 1, start + length), at, at + size - 1)
              = SubSeq(data, start + 1 + at - 1, start + 1 + (at + size - 1) - 1)
        <5>1. data \in Seq(Byte)
          BY DEF Contents, Byte
        <5>. DEFINE from == start + 1
                    to == start + length
                    last == at + size - 1
        <5>2. /\ from \in Nat \ {0} /\ to \in Nat /\ from <= to + 1 /\ to <= Len(data)
              /\ at \in Nat \ {0} /\ last \in Nat /\ at <= last + 1 /\ last <= to - from + 1
          BY <4>4
        <5>. HIDE DEF from, to, last
        <5>3. SubSeq(SubSeq(data, from, to), at, last) = SubSeq(data, from + at - 1, from + last - 1)
          BY <5>1, <5>2, SubSubSeq
        <5>. QED
          BY <5>3 DEF from, to, last
      <4>6. start + 1 + at - 1 = h.at /\ start + 1 + (at + size - 1) - 1 = h.at + size - 1
        BY <1>1, <3>3, <3>4
      <4>7. h.missed = SubSeq(data, h.at, h.at + size - 1)
        BY <3>1, <4>3, <4>5, <4>6
      <4>. QED
        BY <4>2, <4>7 DEF HitStays, size
    <3>. QED
      BY <3>6, <3>7 DEF h
  <2>. QED
    BY <2>1, <2>2
<1>25. WindowInv(you, b, data)
  <2>1. ASSUME NEW k \in DOMAIN you.hits
        PROVE  HitFits(you.hits[k])
    <3>1. CASE k \in DOMAIN old /\ you.hits[k] = old[k]
      <4>1. \A j \in DOMAIN old : HitFits(old[j])
        BY <1>5
      <4>. QED
        BY <3>1, <4>1
    <3>2. CASE \E j \in DOMAIN new : you.hits[k] = new[j]
      <4>1. \A j \in DOMAIN new : HitFits(new[j])
        BY <1>24
      <4>. QED
        BY <3>2, <4>1
    <3>. QED
      BY <1>23, <3>1, <3>2
  <2>2. /\ you.start <= you.end /\ you.end - you.start <= you.pos /\ you.pos <= Len(data)
        /\ you.err => you.end - you.start < MaxTokenSize
    BY <1>1, <1>2, <1>3, <1>5, <1>6, <1>8, <1>21
  <2>3. ASSUME NEW k \in 1..you.end - you.start
        PROVE  b[you.start + k] = data[Used(you) + k]
    <3>1. advance + k \in 1..end - start
      BY <1>1, <1>8, <1>21
    <3>2. b[start + (advance + k)] = data[used + (advance + k)]
      BY <1>4, <3>1
    <3>3. start + (advance + k) = you.start + k /\ used + (advance + k) = Used(you) + k
      BY <1>1, <1>6, <1>21, <1>22
    <3>. QED
      BY <3>2, <3>3
  <2>. QED
    BY <2>1, <2>2, <2>3 DEF WindowInv, HitFits
<1>26. ASSUME SmallInv(me, b, data)
       PROVE  SmallInv(you, b, data)
  <2>1. /\ end = pos /\ \A k \in 1..end : b[k] = data[k]
        /\ \A k \in DOMAIN old : HitStays(old[k], start, data)
    BY <1>26 DEF SmallInv, HitStays, start, end, pos, old
  <2>2. \A k \in DOMAIN old : HitStays(old[k], you.start, data)
    <3>1. \A k \in DOMAIN old : old[k] \in Hit
      BY <1>1
    <3>2. \A k \in DOMAIN old : old[k].at \in Nat /\ Len(old[k].missed) \in Nat
      BY <1>2, <3>1 DEF Hit
    <3>3. \A hit : hit.at \in Nat /\ Len(hit.missed) \in Nat /\ HitStays(hit, start, data)
                   => HitStays(hit, you.start, data)
      BY <1>1, <1>21 DEF HitStays
    <3>. QED
      BY <2>1, <3>2, <3>3
  <2>3. ASSUME NEW k \in DOMAIN you.hits
        PROVE  HitStays(you.hits[k], you.start, data)
    <3>1. CASE k \in DOMAIN old /\ you.hits[k] = old[k]
      <4>1. HitStays(old[k], you.start, data)
        BY <2>2, <3>1
      <4>. QED
        BY <3>1, <4>1
    <3>2. CASE \E j \in DOMAIN new : you.hits[k] = new[j]
      <4>1. \A j \in DOMAIN new : HitStays(new[j], you.start, data)
        BY <1>24, <2>1
      <4>. QED
        BY <3>2, <4>1
    <3>. QED
      BY <1>23, <3>1, <3>2
  <2>. QED
    BY <1>21, <2>1, <2>3 DEF SmallInv, HitStays
<1>27. Found(you.hits) = Found(old) \o LineMisses(number, token)
  <2>. DEFINE all == old \o new
              Pair == Nat \X Seq(Byte)
              misses == LineMisses(number, token)
  <2>1. misses = [k \in DOMAIN pieces |-> <<number, pieces[k].text>>]
    BY DEF LineMisses, pieces
  <2>2. \A h \in Hit : h.line \in Nat /\ h.missed \in Seq(Byte)
    BY DEF Hit
  <2>3. misses = Found(new)
    <3>1. \A k \in DOMAIN pieces : pieces[k].text = new[k].missed /\ number = new[k].line
      BY <1>16
    <3>2. Found(new) = [k \in DOMAIN pieces |-> <<new[k].line, new[k].missed>>]
      BY <1>16 DEF Found
    <3>3. [k \in DOMAIN pieces |-> <<new[k].line, new[k].missed>>]
            = [k \in DOMAIN pieces |-> <<number, pieces[k].text>>]
      BY <3>1
    <3>. QED
      BY <2>1, <3>2, <3>3
  <2>4. \A hits \in Seq(Hit) :
          /\ Found(hits) \in Seq(Pair) /\ Len(Found(hits)) = Len(hits)
          /\ \A k \in 1..Len(hits) : Found(hits)[k] = <<hits[k].line, hits[k].missed>>
    <3>1. SUFFICES ASSUME NEW hits \in Seq(Hit)
                   PROVE  /\ Found(hits) \in Seq(Pair) /\ Len(Found(hits)) = Len(hits)
                          /\ \A k \in 1..Len(hits) : Found(hits)[k] = <<hits[k].line, hits[k].missed>>
      OBVIOUS
    <3>2. DOMAIN hits = 1..Len(hits) /\ Len(hits) \in Nat
      OBVIOUS
    <3>3. \A k \in DOMAIN hits : <<hits[k].line, hits[k].missed>> \in Pair
      BY <2>2
    <3>4. Found(hits) \in [DOMAIN hits -> Pair]
      BY <3>3 DEF Found
    <3>5. Found(hits) \in Seq(Pair) /\ Len(Found(hits)) = Len(hits)
      BY <3>4, SeqOfFcn
    <3>6. \A k \in 1..Len(hits) : Found(hits)[k] = <<hits[k].line, hits[k].missed>>
      BY <3>2 DEF Found
    <3>. QED
      BY <3>5, <3>6
  <2>5. Len(all) = Len(old) + Len(new) /\ Len(old) \in Nat /\ Len(new) \in Nat
    BY <1>1, <1>16
  <2>. DEFINE left == Found(all)
              right == Found(old) \o Found(new)
  <2>6. left \in Seq(Pair) /\ Len(left) = Len(all)
    BY <1>18, <2>4
  <2>7. /\ Found(old) \in Seq(Pair) /\ Found(new) \in Seq(Pair)
        /\ Len(Found(old)) = Len(old) /\ Len(Found(new)) = Len(new)
    BY <1>1, <1>16, <2>4
  <2>8. /\ right \in Seq(Pair) /\ Len(right) = Len(all)
        /\ \A k \in 1..Len(all) :
             right[k] = IF k <= Len(old) THEN Found(old)[k]
                        ELSE Found(new)[k - Len(old)]
    <3>. DEFINE s == Found(old)
                t == Found(new)
    <3>. HIDE DEF s, t
    <3>1. s \in Seq(Pair) /\ t \in Seq(Pair) /\ Len(s) = Len(old) /\ Len(t) = Len(new)
      BY <2>7 DEF s, t
    <3>2. /\ s \o t \in Seq(Pair) /\ Len(s \o t) = Len(s) + Len(t)
          /\ \A k \in 1..Len(s) + Len(t) :
               (s \o t)[k] = IF k <= Len(s) THEN s[k] ELSE t[k - Len(s)]
      BY <3>1, ConcatIs
    <3>. QED
      BY <2>5, <3>1, <3>2 DEF s, t
  <2>9. ASSUME NEW k \in 1..Len(all)
        PROVE  left[k] = right[k]
    <3>1. left[k] = <<all[k].line, all[k].missed>>
      BY <1>18, <2>4
    <3>2. CASE k <= Len(old)
      <4>1. k \in 1..Len(old) /\ all[k] = old[k]
        BY <1>1, <1>16, <2>5, <3>2
      <4>2. Found(old)[k] = <<old[k].line, old[k].missed>>
        BY <1>1, <2>4, <4>1
      <4>. QED
        BY <2>8, <3>1, <3>2, <4>1, <4>2
    <3>3. CASE ~(k <= Len(old))
      <4>1. k - Len(old) \in 1..Len(new) /\ all[k] = new[k - Len(old)]
        BY <1>1, <1>16, <2>5, <3>3
      <4>2. Found(new)[k - Len(old)]
              = <<new[k - Len(old)].line, new[k - Len(old)].missed>>
        BY <1>16, <2>4, <4>1
      <4>. QED
        BY <2>8, <3>1, <3>3, <4>1, <4>2
    <3>. QED
      BY <3>2, <3>3
  <2>. HIDE DEF left, right
  <2>10. left = right
    BY <2>6, <2>8, <2>9, SameSeq
  <2>. QED
    BY <1>21, <2>3, <2>10 DEF left, right
<1>. QED
  BY <1>13, <1>20, <1>22, <1>25, <1>26, <1>27 DEF you, used, number, old

(* SelectInSeq finds the first of the bytes that are there. *)
FirstOf(s, x) == SelectInSeq(s, LAMBDA byte : byte = x)

(* It finds the first of them, as bytes.IndexByte does. *)
LEMMA FirstIs ==
    ASSUME NEW S, NEW s \in Seq(S), NEW x, Contains(s, x)
    PROVE  LET n == FirstOf(s, x) IN
           n \in 1..Len(s) /\ s[n] = x /\ \A k \in 1..n - 1 : s[k] # x
<1>. DEFINE at == {i \in DOMAIN s : s[i] = x}
            n == FirstOf(s, x)
<1>1. DOMAIN s = 1..Len(s) /\ Len(s) \in Nat
  OBVIOUS
<1>2. at \in SUBSET Nat /\ at # {}
  BY <1>1 DEF Contains, Range
<1>3. PICK m \in at : \A i \in at : m <= i
  BY <1>2, LeastNumber
<1>4. n = Min(at)
  <2>1. {i \in 1..Len(s) : s[i] = x} = at
    BY <1>1
  <2>. QED
    BY <1>2, <2>1 DEF SelectInSeq, FirstOf
<1>5. Min(at) = m
  BY <1>2, <1>3 DEF Min
<1>. HIDE DEF n
<1>6. n = m /\ m \in 1..Len(s) /\ s[m] = x
  BY <1>1, <1>3, <1>4, <1>5
<1>7. \A k \in 1..n - 1 : s[k] # x
  <2>1. SUFFICES ASSUME NEW k \in 1..m - 1, s[k] = x  PROVE FALSE
    BY <1>6
  <2>2. k \in at
    BY <1>1, <1>6, <2>1
  <2>. QED
    BY <1>2, <1>3, <2>2
<1>. QED
  BY <1>6, <1>7 DEF n

(* So many bytes behind the consumed ones are the next line: there is no   *)
(* newline among them, and then a newline or the end of the file.          *)
IsNext(data, used, length) ==
    /\ used + length <= Len(data)
    /\ \A k \in used + 1..used + length : data[k] # Newline
    /\ used + length < Len(data) => data[used + length + 1] = Newline

(* With their newline. *)
NextUsed(data, used, length) ==
    IF used + length < Len(data) THEN used + length + 1 ELSE used + length

(* Such a line is the next of the reference definition. *)
LEMMA NextLine ==
    ASSUME NEW data \in Contents, NEW done \in 0..Len(Lines(data)),
           NEW used \in Nat, used = Consumed(data, done), used < Len(data),
           NEW length \in Nat, length < MaxTokenSize, IsNext(data, used, length)
    PROVE  /\ done + 1 <= Len(Lines(data))
           /\ Lines(data)[done + 1] = SubSeq(data, used + 1, used + length)
           /\ Consumed(data, done + 1) = NextUsed(data, used, length)
<1>. DEFINE stops == Stops(data)
            stop == stops[done + 1]
            n == Len(data)
            m == Len(Lines(data))
<1>1. n \in Nat /\ m \in Nat /\ Len(stops) \in Nat /\ m <= Len(stops) /\ DOMAIN stops = 1..Len(stops)
  <2>1. m \in Nat
    BY LinesAre
  <2>. QED
    BY <2>1, StopsAre, LinesAre
<1>2. done \in 0..Len(stops) /\ used < n
  BY <1>1
<1>3. /\ done < Len(stops)
      /\ ChunkStart(stops, done + 1) = used + 1
      /\ stop \in used + 1..n + 1
      /\ stop <= n => data[stop] = Newline
      /\ \A s \in used + 1..n : data[s] = Newline => stop <= s
  BY <1>2, NextStop
<1>. HIDE DEF n, m, stop, stops
<1>4. stop = used + length + 1
  <2>1. /\ used + length <= n /\ \A k \in used + 1..used + length : data[k] # Newline
        /\ used + length < n => data[used + length + 1] = Newline
    BY DEF IsNext, n
  <2>2. CASE used + length < n
    <3>1. stop <= used + length + 1
      BY <1>1, <1>3, <2>1, <2>2
    <3>2. ~(stop <= used + length)
      BY <1>1, <1>3, <2>1, <2>2, <3>1
    <3>. QED
      BY <1>1, <1>3, <3>1, <3>2
  <2>3. CASE used + length = n
    <3>1. ~(stop <= n)
      BY <1>1, <1>3, <2>1, <2>3
    <3>. QED
      BY <1>1, <1>3, <2>3, <3>1
  <2>. QED
    BY <1>1, <2>1, <2>2, <2>3
<1>5. done + 1 \in DOMAIN stops
  BY <1>1, <1>3
<1>6. LineAt(data, done + 1) = SubSeq(data, used + 1, used + length)
  <2>1. LineAt(data, done + 1) = SubSeq(data, used + 1, stop - 1)
    BY <1>3 DEF LineAt, stop, stops
  <2>2. stop - 1 = used + length
    BY <1>4
  <2>. QED
    BY <2>1, <2>2
<1>7. ~TooLong(LineAt(data, done + 1))
  <2>1. Len(LineAt(data, done + 1)) = stop - (used + 1)
    BY <1>3, <1>5, LineAtIs DEF stop, stops
  <2>2. Len(LineAt(data, done + 1)) = length
    BY <1>4, <2>1
  <2>. QED
    BY <2>2, BufferIsSeq, NormalizeAssumption DEF TooLong
<1>8. done + 1 <= m
  <2>1. m < Len(stops) => TooLong(LineAt(data, m + 1))
    BY LinesAre DEF m, stops
  <2>2. CASE done = m
    BY <1>3, <1>7, <2>1, <2>2
  <2>3. done <= m /\ done \in Nat
    BY <1>1 DEF m
  <2>. QED
    BY <1>1, <2>2, <2>3
<1>9. Lines(data)[done + 1] = LineAt(data, done + 1)
  <2>1. done + 1 \in 1..m
    BY <1>1, <1>8
  <2>. QED
    BY <2>1, LinesAre DEF m
<1>10. Consumed(data, done + 1) = NextUsed(data, used, length)
  <2>1. Consumed(data, done + 1) = IF stop <= n THEN stop ELSE n
    BY DEF Consumed, stop, stops, n
  <2>2. used + length <= n
    BY DEF IsNext, n
  <2>3. NextUsed(data, used, length) = IF used + length < n THEN used + length + 1 ELSE used + length
    BY DEF NextUsed, n
  <2>. QED
    BY <1>1, <1>4, <2>1, <2>2, <2>3
<1>. QED
  BY <1>6, <1>8, <1>9, <1>10 DEF m

(* What a line misses is a sequence of its number and texts. *)
LEMMA LineMissesType ==
    ASSUME NEW n \in Nat, NEW line \in Text
    PROVE  LineMisses(n, line) \in Seq(Nat \X Text)
<1>. DEFINE pieces == Missing(line)
            All == [text : Text, at : Nat]
<1>1. \A p \in All : p.text \in Text
  OBVIOUS
<1>2. pieces \in Seq(All)
  BY MissingIs
<1>. HIDE DEF pieces, All
<1>3. [k \in DOMAIN pieces |-> <<n, pieces[k].text>>] \in [DOMAIN pieces -> Nat \X Text]
  <2>1. \A k \in DOMAIN pieces : pieces[k] \in All
    BY <1>2
  <2>2. \A k \in DOMAIN pieces : <<n, pieces[k].text>> \in Nat \X Text
    BY <1>1, <2>1
  <2>. QED
    BY <2>2
<1>4. LineMisses(n, line) = [k \in DOMAIN pieces |-> <<n, pieces[k].text>>]
  BY DEF LineMisses, pieces
<1>. QED
  BY <1>2, <1>3, <1>4, SeqOfFcn

(* What is missing of one line more. *)
LEMMA MissesNext ==
    ASSUME NEW data \in Contents, NEW m \in Nat, m + 1 <= Len(Lines(data))
    PROVE  MissesUpTo(data, m + 1)
             = MissesUpTo(data, m) \o LineMisses(m + 1, Lines(data)[m + 1])
<1>. DEFINE lines == Lines(data)
            Pairs == Seq(Nat \X Text)
            first == [n \in 1..m |-> LineMisses(n, lines[n])]
            all == [n \in 1..m + 1 |-> LineMisses(n, lines[n])]
            next == LineMisses(m + 1, lines[m + 1])
<1>1. lines \in Seq(Text)
  BY LinesAre
<1>2. \A n \in 1..m + 1 : LineMisses(n, lines[n]) \in Pairs
  <2>1. \A n \in 1..m + 1 : n \in Nat /\ lines[n] \in Text
    BY <1>1
  <2>. QED
    BY <2>1, LineMissesType
<1>3. /\ first \in [1..m -> Pairs] /\ all \in [1..m + 1 -> Pairs] /\ next \in Pairs
      /\ \A n \in 1..m : first[n] = all[n]
      /\ all[m + 1] = next
  BY <1>2
<1>4. /\ MissesUpTo(data, m + 1) = FlattenSeq(all)
      /\ MissesUpTo(data, m) = FlattenSeq(first)
  BY DEF MissesUpTo
<1>. HIDE DEF first, all, next, Pairs, lines
<1>5. /\ first \in Seq(Pairs) /\ Len(first) = m
      /\ all \in Seq(Pairs) /\ Len(all) = m + 1
  BY <1>3
<1>6. all = Append(first, next)
  <2>1. Append(first, next) \in Seq(Pairs) /\ Len(Append(first, next)) = m + 1
    BY <1>3, <1>5
  <2>2. \A k \in 1..m + 1 : all[k] = Append(first, next)[k]
    BY <1>3, <1>5
  <2>. QED
    BY <1>5, <2>1, <2>2, SameSeq
<1>7. FlattenSeq(Append(first, next)) = FlattenSeq(first) \o next
  BY <1>3, <1>5, FlattenAppend DEF Pairs
<1>. QED
  BY <1>4, <1>6, <1>7 DEF next, lines

(* So many bytes of the window are a line: up to the first newline, or all *)
(* there is left of the file.                                              *)
IsFront(me, b, length, advance) ==
    /\ advance <= me.end - me.start
    /\ \A k \in 1..length : b[me.start + k] # Newline
    /\ \/ advance = length + 1 /\ b[me.start + length + 1] = Newline
       \/ advance = length /\ length = me.end - me.start /\ length # 0 /\ me.err

(* A worker that takes it is where it should be, one line further.         *)
LEMMA TakenReads ==
    ASSUME NEW data \in Contents, NEW me \in Reader, NEW b \in Buffer, NEW sound \in BOOLEAN,
           ReadInv(me, b, data, sound), me.pc = "scan",
           NEW length \in Nat, NEW advance \in Nat, IsFront(me, b, length, advance)
    PROVE  LET you == Taken(me, SubSeq(b, me.start + 1, me.start + length), advance) IN
           you \in Reader /\ ReadInv(you, b, data, sound)
<1>. DEFINE token == SubSeq(b, me.start + 1, me.start + length)
            you == Taken(me, token, advance)
            used == Used(me)
            start == me.start
            end == me.end
            pos == me.pos
            done == me.line
<1>1. /\ start \in Nat /\ end \in Nat /\ pos \in Nat /\ done \in Nat
      /\ start <= MaxTokenSize /\ end <= MaxTokenSize
  BY BufferIsSeq DEF Reader
<1>2. MaxTokenSize \in Nat \ {0} /\ b \in Seq(Byte) /\ Len(b) = MaxTokenSize
      /\ \A i \in 1..MaxTokenSize : b[i] \in Byte
  BY BufferIsSeq
<1>3. WindowInv(me, b, data)
  BY DEF ReadInv
<1>4. start <= end /\ end - start <= pos /\ pos <= Len(data) /\ Len(data) \in Nat
  BY <1>3 DEF WindowInv, Contents
<1>5. \A k \in 1..end - start : b[start + k] = data[used + k]
  BY <1>3 DEF WindowInv
<1>6. me.err => end - start < MaxTokenSize
  BY <1>3 DEF WindowInv
<1>7. used = pos - (end - start)
  BY DEF Used
<1>8. /\ advance <= end - start
      /\ \A k \in 1..length : b[start + k] # Newline
      /\ \/ advance = length + 1 /\ b[start + length + 1] = Newline
         \/ advance = length /\ length = end - start /\ length # 0 /\ me.err
  BY DEF IsFront
<1>9. me.pc = "scan" /\ token = SubSeq(b, start + 1, start + length)
  OBVIOUS
<1>. HIDE DEF token, you, used, start, end, pos, done
<1>10. used \in Nat /\ used < Len(data) /\ length <= advance /\ length <= end - start
       /\ used + (end - start) = pos /\ length < MaxTokenSize /\ start + length <= MaxTokenSize
  BY <1>1, <1>2, <1>4, <1>6, <1>7, <1>8
<1>11. token \in Text
  <2>1. /\ start + 1 \in Nat \ {0} /\ start + length \in Nat /\ start + 1 <= start + length + 1
        /\ start + length <= Len(b) /\ (start + length) - (start + 1) + 1 = length
        /\ \A k \in 1..length : start + 1 + k - 1 = start + k /\ start + k \in 1..MaxTokenSize
    BY <1>1, <1>2, <1>10
  <2>2. /\ token \in Seq(Byte) /\ Len(token) = length
        /\ \A k \in 1..length : token[k] = b[start + 1 + k - 1]
    BY <1>2, <1>9, <2>1, SubSeqIs
  <2>3. \A k \in 1..length : token[k] = b[start + k] /\ b[start + k] \in Byte
    BY <1>2, <2>1, <2>2
  <2>4. \A k \in 1..length : token[k] \in DOMAIN HashTable
    BY <1>8, <2>3 DEF Byte
  <2>. QED
    BY <2>2, <2>4 DEF Text
<1>12. IsTaken(me, b, token, length, advance)
  BY <1>8, <1>9, <1>10 DEF IsTaken, start, end
<1>13. /\ you \in Reader /\ WindowInv(you, b, data)
       /\ SmallInv(me, b, data) => SmallInv(you, b, data)
       /\ Found(you.hits) = Found(me.hits) \o LineMisses(done + 1, token)
       /\ Used(you) = used + advance
       /\ token = SubSeq(data, used + 1, used + length)
  BY <1>3, <1>11, <1>12, TakenKeeps DEF you, used, done
<1>14. you.pos = pos /\ you.err = me.err /\ you.line = done + 1 /\ you.pc = "scan"
  BY <1>9 DEF you, Taken, Reader, pos, done
<1>15. ASSUME sound
       PROVE  ExactInv(you, data)
  <2>1. /\ done <= Len(Lines(data)) /\ used = Consumed(data, done)
        /\ Found(me.hits) = MissesUpTo(data, done)
        /\ me.err => pos = Len(data)
    BY <1>15 DEF ReadInv, ExactInv, used, done, pos
  <2>2. IsNext(data, used, length)
    <3>1. used + length <= Len(data)
      BY <1>1, <1>4, <1>10
    <3>2. ASSUME NEW k \in used + 1..used + length
          PROVE  data[k] # Newline
      <4>1. k - used \in 1..length /\ k - used \in 1..end - start /\ used + (k - used) = k
        BY <1>1, <1>10
      <4>2. b[start + (k - used)] = data[used + (k - used)]
        BY <1>5, <4>1
      <4>3. b[start + (k - used)] # Newline
        BY <1>8, <4>1
      <4>. QED
        BY <4>1, <4>2, <4>3
    <3>3. ASSUME used + length < Len(data)
          PROVE  data[used + length + 1] = Newline
      <4>1. advance = length + 1 /\ b[start + length + 1] = Newline
        BY <1>1, <1>4, <1>8, <1>10, <2>1, <3>3
      <4>2. length + 1 \in 1..end - start
        BY <1>1, <1>8, <4>1
      <4>3. b[start + (length + 1)] = data[used + (length + 1)]
        BY <1>5, <4>2
      <4>4. start + (length + 1) = start + length + 1 /\ used + (length + 1) = used + length + 1
        BY <1>1, <1>10
      <4>. QED
        BY <4>1, <4>3, <4>4
    <3>. QED
      BY <3>1, <3>2, <3>3 DEF IsNext
  <2>3. Len(Lines(data)) \in Nat
    BY LinesAre
  <2>4. done \in 0..Len(Lines(data))
    BY <1>1, <2>1, <2>3
  <2>5. /\ done + 1 <= Len(Lines(data))
        /\ Lines(data)[done + 1] = token
        /\ Consumed(data, done + 1) = NextUsed(data, used, length)
    BY <1>10, <1>13, <2>1, <2>2, <2>4, NextLine
  <2>6. NextUsed(data, used, length) = used + advance
    <3>1. CASE advance = length + 1
      <4>1. used + length < Len(data)
        BY <1>1, <1>4, <1>8, <1>10, <3>1
      <4>. QED
        BY <1>10, <3>1, <4>1 DEF NextUsed
    <3>2. CASE advance = length /\ length = end - start /\ me.err
      <4>1. used + length = Len(data)
        BY <1>10, <2>1, <3>2
      <4>. QED
        BY <1>4, <3>2, <4>1 DEF NextUsed
    <3>. QED
      BY <1>8, <3>1, <3>2
  <2>7. MissesUpTo(data, done + 1) = MissesUpTo(data, done) \o LineMisses(done + 1, token)
    BY <1>1, <2>5, MissesNext
  <2>. QED
    BY <1>13, <1>14, <2>1, <2>5, <2>6, <2>7 DEF ExactInv
<1>16. ReadInv(you, b, data, sound)
  BY <1>13, <1>15 DEF ReadInv
<1>. QED
  BY <1>13, <1>16 DEF you, token

(* What a read gets: so many of the next bytes of the file. *)
IsGot(got, w, data) ==
    /\ worker[w].pos + Len(got) <= Len(data) /\ Filled(w) + Len(got) <= MaxTokenSize
    /\ \A k \in 1..Len(got) : got[k] = data[worker[w].pos + k]

AfterRead(w, got, err) ==
    [worker[w] EXCEPT !.start = Kept(w), !.end = Filled(w) + Len(got),
                      !.pos = @ + Len(got), !.err = err]

(* A read leaves the window in front of what it gets, moved or not; a      *)
(* small file is not moved.                                                *)
LEMMA ReadKeeps ==
    ASSUME NEW w \in Worker, NEW data \in Contents, NEW sound \in BOOLEAN,
           worker[w] \in Reader, buf[w] \in Buffer, ReadInv(worker[w], buf[w], data, sound),
           NeedsData(w), Filled(w) < MaxTokenSize,
           NEW got \in Contents, IsGot(got, w, data), NEW err \in BOOLEAN,
           err => Len(got) = 0, err /\ sound => worker[w].pos = Len(data)
    PROVE  /\ AfterRead(w, got, err) \in Reader /\ Loaded(w, got) \in Buffer
           /\ ReadInv(AfterRead(w, got, err), Loaded(w, got), data, sound)
<1>. DEFINE me == worker[w]
            b == buf[w]
            you == AfterRead(w, got, err)
            c == Loaded(w, got)
            start == me.start
            end == me.end
            pos == me.pos
            kept == Kept(w)
            filled == Filled(w)
            more == Len(got)
<1>1. /\ start \in Nat /\ end \in Nat /\ pos \in Nat /\ more \in Nat /\ Len(data) \in Nat
      /\ start <= MaxTokenSize /\ end <= MaxTokenSize
  BY BufferIsSeq DEF Reader, Contents
<1>2. MaxTokenSize \in Nat \ {0} /\ \A i \in 1..MaxTokenSize : b[i] \in Byte
  BY BufferIsSeq
<1>3. start <= end /\ end - start <= pos /\ pos <= Len(data)
  BY DEF ReadInv, WindowInv
<1>4. /\ \A k \in 1..end - start : b[start + k] = data[Used(me) + k]
      /\ \A k \in DOMAIN me.hits :
           me.hits[k].at # 0 => me.hits[k].at + Len(me.hits[k].missed) - 1 <= MaxTokenSize
  BY DEF ReadInv, WindowInv
<1>5. /\ Shifts(w) => kept = 0 /\ filled = end - start
      /\ ~Shifts(w) => kept = start /\ filled = end
  BY DEF Kept, Filled
<1>6. pos + more <= Len(data) /\ filled + more <= MaxTokenSize /\ filled < MaxTokenSize
  BY DEF IsGot
<1>7. \A k \in 1..more : got[k] = data[pos + k] /\ got[k] \in Byte
  BY DEF IsGot, Contents, Byte
<1>8. c = [i \in 1..MaxTokenSize |->
             CASE i <= filled -> IF Shifts(w) THEN b[start + i] ELSE b[i]
               [] i > filled /\ i <= filled + more -> got[i - filled]
               [] i > filled + more -> b[i]]
  BY DEF Loaded
<1>9. you = [me EXCEPT !.start = kept, !.end = filled + more, !.pos = pos + more, !.err = err]
  BY DEF AfterRead, Reader
<1>10. Used(me) = pos - (end - start)
  BY DEF Used
<1>11. err => more = 0
  OBVIOUS
<1>12. err /\ sound => pos = Len(data)
  OBVIOUS
<1>13. me \in Reader /\ me.pc = "scan" /\ ReadInv(me, b, data, sound)
  BY DEF NeedsData
<1>. HIDE DEF me, b, you, c, start, end, pos, kept, filled, more
<1>14. /\ kept \in Nat /\ filled \in Nat /\ kept <= filled /\ filled - kept = end - start
       /\ filled + more \in Nat /\ pos + more \in Nat /\ kept <= MaxTokenSize
       /\ Shifts(w) => start + filled = end
  <2>1. CASE Shifts(w)
    <3>1. kept = 0 /\ filled = end - start
      BY <1>5, <2>1
    <3>. QED
      BY <1>1, <1>2, <1>3, <3>1
  <2>2. CASE ~Shifts(w)
    <3>1. kept = start /\ filled = end
      BY <1>5, <2>2
    <3>. QED
      BY <1>1, <1>3, <2>2, <3>1
  <2>. QED
    BY <2>1, <2>2
<1>15. you \in Reader
  <2>1. kept \in 0..MaxTokenSize /\ filled + more \in 0..MaxTokenSize /\ pos + more \in Nat
    BY <1>1, <1>2, <1>6, <1>14
  <2>. QED
    BY <1>9, <1>13, <2>1 DEF Reader
<1>16. /\ you.start = kept /\ you.end = filled + more /\ you.pos = pos + more /\ you.err = err
       /\ you.pc = "scan" /\ you.line = me.line /\ you.hits = me.hits
  BY <1>9, <1>13 DEF Reader
<1>17. /\ DOMAIN c = 1..MaxTokenSize
       /\ \A i \in 1..MaxTokenSize :
            /\ i <= filled => c[i] = IF Shifts(w) THEN b[start + i] ELSE b[i]
            /\ i > filled /\ i <= filled + more => c[i] = got[i - filled]
            /\ i > filled + more => c[i] = b[i]
  <2>1. DOMAIN c = 1..MaxTokenSize
    BY <1>8
  <2>2. ASSUME NEW i \in 1..MaxTokenSize
        PROVE  /\ i <= filled => c[i] = IF Shifts(w) THEN b[start + i] ELSE b[i]
               /\ i > filled /\ i <= filled + more => c[i] = got[i - filled]
               /\ i > filled + more => c[i] = b[i]
    <3>1. c[i] = CASE i <= filled -> IF Shifts(w) THEN b[start + i] ELSE b[i]
                   [] i > filled /\ i <= filled + more -> got[i - filled]
                   [] i > filled + more -> b[i]
      BY <1>8
    <3>2. /\ ~(i <= filled /\ i > filled) /\ ~(i <= filled + more /\ i > filled + more)
          /\ ~(i <= filled /\ i > filled + more)
      BY <1>1, <1>14
    <3>. QED
      BY <3>1, <3>2
  <2>. QED
    BY <2>1, <2>2
<1>18. c \in Buffer
  <2>1. ASSUME NEW i \in 1..MaxTokenSize
        PROVE  c[i] \in Byte
    <3>1. CASE i <= filled
      <4>1. Shifts(w) => start + i \in 1..MaxTokenSize
        BY <1>1, <1>2, <1>14, <3>1
      <4>. QED
        BY <1>2, <1>17, <3>1, <4>1
    <3>2. CASE i > filled /\ i <= filled + more
      <4>1. i - filled \in 1..more
        BY <1>1, <1>14, <3>2
      <4>. QED
        BY <1>7, <1>17, <3>2, <4>1
    <3>3. CASE i > filled + more
      BY <1>2, <1>17, <3>3
    <3>. QED
      BY <1>2, <1>14, <3>1, <3>2, <3>3
  <2>2. c = [i \in 1..MaxTokenSize |-> c[i]]
    BY <1>8
  <2>. QED
    BY <2>1, <2>2 DEF Buffer
<1>19. Used(you) = Used(me) /\ you.end - you.start = (end - start) + more
  BY <1>1, <1>10, <1>14, <1>16 DEF Used
<1>20. WindowInv(you, c, data)
  <2>1. ASSUME NEW k \in 1..you.end - you.start
        PROVE  c[you.start + k] = data[Used(you) + k]
    <3>1. k \in Nat \ {0} /\ kept + k \in 1..MaxTokenSize /\ k <= (end - start) + more
      BY <1>1, <1>2, <1>6, <1>14, <1>16
    <3>2. CASE k <= end - start
      <4>1. kept + k <= filled /\ k \in 1..end - start
        BY <1>1, <1>14, <3>1, <3>2
      <4>2. (IF Shifts(w) THEN b[start + (kept + k)] ELSE b[kept + k]) = b[start + k]
        <5>1. Shifts(w) => start + (kept + k) = start + k
          BY <1>1, <1>5, <3>1
        <5>2. ~Shifts(w) => kept + k = start + k
          BY <1>5
        <5>. QED
          BY <5>1, <5>2
      <4>. QED
        BY <1>4, <1>16, <1>17, <1>19, <3>1, <4>1, <4>2
    <3>3. CASE ~(k <= end - start)
      <4>1. /\ kept + k > filled /\ kept + k <= filled + more
            /\ (kept + k) - filled \in 1..more
        BY <1>1, <1>14, <3>1, <3>3
      <4>2. pos + ((kept + k) - filled) = Used(me) + k
        <5>1. (kept + k) - filled = k - (end - start)
          BY <1>1, <1>14, <3>1
        <5>2. pos + (k - (end - start)) = (pos - (end - start)) + k
          BY <1>1, <3>1
        <5>. QED
          BY <1>10, <5>1, <5>2
      <4>3. c[kept + k] = got[(kept + k) - filled]
        BY <1>17, <3>1, <4>1
      <4>4. got[(kept + k) - filled] = data[pos + ((kept + k) - filled)]
        BY <1>7, <4>1
      <4>. QED
        BY <1>16, <1>19, <4>2, <4>3, <4>4
    <3>. QED
      BY <3>2, <3>3
  <2>2. /\ you.start <= you.end /\ you.end - you.start <= you.pos /\ you.pos <= Len(data)
        /\ you.err => you.end - you.start < MaxTokenSize
    BY <1>1, <1>2, <1>3, <1>6, <1>11, <1>14, <1>16
  <2>. QED
    BY <1>4, <1>16, <2>1, <2>2 DEF WindowInv
<1>21. ASSUME Len(data) <= MaxTokenSize \div 2
       PROVE  SmallInv(you, c, data)
  <2>1. SmallInv(me, b, data)
    BY <1>13, <1>21 DEF ReadInv
  <2>2. end = pos /\ \A k \in 1..end : b[k] = data[k]
    BY <2>1 DEF SmallInv, end, pos
  <2>3. ~Shifts(w)
    <3>1. \A m \in Nat \ {0} : m \div 2 < m /\ m \div 2 \in Nat
      OBVIOUS
    <3>2. end <= MaxTokenSize \div 2 /\ MaxTokenSize \div 2 < MaxTokenSize
          /\ MaxTokenSize \div 2 \in Nat
      BY <1>1, <1>2, <1>3, <1>21, <2>2, <3>1
    <3>3. end # MaxTokenSize /\ ~(start > MaxTokenSize \div 2)
      BY <1>1, <1>2, <1>3, <3>2
    <3>. QED
      BY <3>3 DEF Shifts, start, end, me
  <2>4. kept = start /\ filled = end
    BY <1>5, <2>3
  <2>5. ASSUME NEW k \in 1..you.end
        PROVE  c[k] = data[k]
    <3>1. k \in 1..MaxTokenSize /\ k \in Nat /\ k <= filled + more
      BY <1>1, <1>2, <1>6, <1>14, <1>16
    <3>2. CASE k <= filled
      BY <1>17, <2>2, <2>3, <2>4, <3>1, <3>2
    <3>3. CASE k > filled
      <4>1. k - filled \in 1..more /\ pos + (k - filled) = k
        BY <1>1, <1>14, <2>2, <2>4, <3>1, <3>3
      <4>. QED
        BY <1>7, <1>17, <3>1, <3>3, <4>1
    <3>. QED
      BY <1>14, <3>1, <3>2, <3>3
  <2>. QED
    BY <1>16, <2>1, <2>2, <2>4, <2>5 DEF SmallInv, start
<1>22. ASSUME sound
       PROVE  ExactInv(you, data)
  <2>1. ExactInv(me, data)
    BY <1>13, <1>22 DEF ReadInv
  <2>2. you.err => you.pos = Len(data)
    BY <1>1, <1>11, <1>12, <1>16, <1>22
  <2>. QED
    BY <1>16, <1>19, <2>1, <2>2 DEF ExactInv
<1>. QED
  BY <1>15, <1>18, <1>20, <1>21, <1>22 DEF ReadInv, you, c

(* A file is scanned to its end when nothing is left of it, or when a full *)
(* buffer holds no newline: then the line it is in is too long.            *)
LEMMA EndIsLast ==
    ASSUME NEW data \in Contents, NEW me \in Reader, NEW b \in Buffer,
           WindowInv(me, b, data), ExactInv(me, data),
           \/ me.err /\ me.end = me.start
           \/ /\ me.end - me.start = MaxTokenSize
              /\ \A k \in 1..me.end - me.start : b[me.start + k] # Newline
    PROVE  me.line = Len(Lines(data))
<1>. DEFINE stops == Stops(data)
            m == Len(Lines(data))
            n == Len(data)
            used == Used(me)
            start == me.start
            end == me.end
            pos == me.pos
            done == me.line
            stop == stops[done + 1]
<1>1. /\ start \in Nat /\ end \in Nat /\ pos \in Nat /\ done \in Nat /\ n \in Nat
      /\ MaxTokenSize \in Nat \ {0}
  BY BufferIsSeq DEF Reader, Contents
<1>2. start <= end /\ end - start <= pos /\ pos <= n
  BY DEF WindowInv
<1>3. \A k \in 1..end - start : b[start + k] = data[used + k]
  BY DEF WindowInv
<1>4. done <= m /\ used = Consumed(data, done) /\ (me.err => pos = n)
  BY DEF ExactInv
<1>5. m \in Nat /\ Len(stops) \in Nat /\ m <= Len(stops) /\ DOMAIN stops = 1..Len(stops)
  <2>1. m \in Nat
    BY LinesAre
  <2>. QED
    BY <2>1, LinesAre, StopsAre
<1>6. used = pos - (end - start)
  BY DEF Used
<1>7. \/ me.err /\ end = start
      \/ end - start = MaxTokenSize /\ \A k \in 1..end - start : b[start + k] # Newline
  OBVIOUS
<1>. HIDE DEF stops, m, n, used, start, end, pos, done, stop
<1>8. used \in Nat /\ done \in 0..Len(stops)
  BY <1>1, <1>2, <1>4, <1>5, <1>6
<1>9. CASE me.err /\ end = start
  <2>1. Consumed(data, done) = n
    BY <1>1, <1>4, <1>6, <1>9
  <2>2. done = Len(stops)
    BY <1>8, <2>1, NoMoreStops DEF stops, n
  <2>. QED
    BY <1>1, <1>4, <1>5, <2>2 DEF done, m
<1>10. CASE end - start = MaxTokenSize /\ \A k \in 1..end - start : b[start + k] # Newline
  <2>1. used + MaxTokenSize <= n /\ used < n
    BY <1>1, <1>2, <1>6, <1>10
  <2>2. /\ done < Len(stops)
        /\ ChunkStart(stops, done + 1) = used + 1
        /\ stop \in used + 1..n + 1
        /\ stop <= n => data[stop] = Newline
    BY <1>4, <1>8, <2>1, NextStop DEF stops, n, stop
  <2>3. stop > used + MaxTokenSize
    <3>1. SUFFICES ASSUME stop <= used + MaxTokenSize  PROVE FALSE
      BY <1>1, <1>8, <2>2
    <3>2. data[stop] = Newline
      BY <1>1, <1>8, <2>1, <2>2, <3>1
    <3>3. stop - used \in 1..end - start /\ used + (stop - used) = stop
      BY <1>1, <1>8, <1>10, <2>2, <3>1
    <3>4. b[start + (stop - used)] = data[used + (stop - used)]
      BY <1>3, <3>3
    <3>. QED
      BY <1>10, <3>2, <3>3, <3>4
  <2>4. TooLong(LineAt(data, done + 1))
    <3>1. done + 1 \in DOMAIN stops
      BY <1>1, <1>5, <2>2
    <3>2. Len(LineAt(data, done + 1)) = stop - (used + 1)
      BY <2>2, <3>1, LineAtIs DEF stop, stops
    <3>. QED
      BY <1>1, <1>8, <2>2, <2>3, <3>2 DEF TooLong
  <2>5. ~(done < m)
    <3>1. SUFFICES ASSUME done < m  PROVE FALSE
      OBVIOUS
    <3>2. done + 1 \in 1..m
      BY <1>1, <1>5, <3>1
    <3>. QED
      BY <2>4, <3>2, LinesAre DEF m
  <2>. QED
    BY <1>1, <1>4, <1>5, <2>5 DEF done, m
<1>. QED
  BY <1>7, <1>9, <1>10

(* A worker that goes on to another place in scanFileWithDB. *)
LEMMA PlaceReads ==
    ASSUME NEW data, NEW me \in Reader, NEW b, NEW sound \in BOOLEAN, NEW after \in BOOLEAN,
           ReadInv(me, b, data, sound), after => sound,
           NEW pc \in {"scan", "report"},
           pc = "report" /\ after => me.line = Len(Lines(data))
    PROVE  LET you == [me EXCEPT !.pc = pc] IN
           you \in Reader /\ ReadInv(you, b, data, after)
<1>. DEFINE you == [me EXCEPT !.pc = pc]
<1>1. /\ you \in Reader /\ you.pc = pc
      /\ you.start = me.start /\ you.end = me.end /\ you.pos = me.pos /\ you.err = me.err
      /\ you.line = me.line /\ you.hits = me.hits
  BY DEF Reader
<1>. HIDE DEF you
<1>2. WindowInv(me, b, data) => WindowInv(you, b, data)
  BY <1>1 DEF WindowInv, Used
<1>3. SmallInv(me, b, data) => SmallInv(you, b, data)
  BY <1>1 DEF SmallInv
<1>4. after => ExactInv(you, data)
  BY <1>1 DEF ReadInv, ExactInv, Used
<1>5. ReadInv(you, b, data, after)
  BY <1>2, <1>3, <1>4 DEF ReadInv
<1>. QED
  BY <1>1, <1>5 DEF you

(* A worker without a file. *)
LEMMA IdleReader == Idle \in Reader
<1>1. MaxTokenSize \in Nat \ {0} /\ << >> \in Text /\ << >> \in Seq(Hit)
  BY NormalizeAssumption DEF Text
<1>2. 0 \in 0..MaxTokenSize /\ 0 \in Nat /\ FALSE \in BOOLEAN /\ 0 \in {0} \cup Files
  BY <1>1
<1>. QED
  BY <1>1, <1>2 DEF Idle, Reader

(* A worker that has just received a file. *)
LEMMA FreshReads ==
    ASSUME NEW data \in Contents, NEW b \in Buffer, NEW sound \in BOOLEAN, NEW i \in Files
    PROVE  LET you == [Idle EXCEPT !.pc = "open", !.file = i] IN
           you \in Reader /\ ReadInv(you, b, data, sound)
<1>. DEFINE you == [Idle EXCEPT !.pc = "open", !.file = i]
<1>1. /\ MaxTokenSize \in Nat \ {0} /\ Len(data) \in Nat /\ << >> \in Text /\ << >> \in Seq(Hit)
  BY BufferIsSeq DEF Contents, Text
<1>2. Idle \in Reader
  BY IdleReader
<1>3. /\ Idle.pos = 0 /\ Idle.start = 0 /\ Idle.end = 0 /\ Idle.err = FALSE /\ Idle.line = 0
      /\ Idle.hits = << >>
  BY DEF Idle
<1>4. /\ you \in Reader /\ you.pc = "open" /\ you.pos = 0 /\ you.start = 0 /\ you.end = 0
      /\ you.err = FALSE /\ you.line = 0 /\ you.hits = << >>
  BY <1>2, <1>3 DEF Reader
<1>. HIDE DEF you
<1>5. WindowInv(you, b, data) /\ SmallInv(you, b, data)
  BY <1>1, <1>4 DEF WindowInv, SmallInv
<1>6. ExactInv(you, data)
  <2>1. Len(Lines(data)) \in Nat
    BY LinesAre
  <2>2. Used(you) = 0 /\ Consumed(data, 0) = 0
    BY <1>4 DEF Used, Consumed
  <2>3. MissesUpTo(data, 0) = << >>
    <3>1. [n \in 1..0 |-> LineMisses(n, Lines(data)[n])] = << >>
      OBVIOUS
    <3>. QED
      BY <3>1, FlattenEmpty DEF MissesUpTo
  <2>4. Found(you.hits) = << >>
    BY <1>4 DEF Found
  <2>. QED
    BY <1>4, <2>1, <2>2, <2>3, <2>4 DEF ExactInv
<1>7. ReadInv(you, b, data, sound)
  BY <1>5, <1>6 DEF ReadInv
<1>. QED
  BY <1>4, <1>7 DEF you

(* What is printed of a worker's hits. *)
LEMMA ReportIs ==
    ASSUME NEW w \in Worker, NEW data \in Contents, NEW sound \in BOOLEAN,
           worker[w] \in Reader, buf[w] \in Buffer, worker[w].pc = "report",
           ReadInv(worker[w], buf[w], data, sound)
    PROVE  IsReport([k \in DOMAIN worker[w].hits |-> Show(w, worker[w].hits[k])], data, sound)
<1>. DEFINE old == worker[w].hits
            b == buf[w]
            start == worker[w].start
            end == worker[w].end
            small == Len(data) <= MaxTokenSize \div 2
            hits == [k \in DOMAIN old |-> Show(w, old[k])]
<1>1. /\ old \in Seq(Hit) /\ start \in Nat /\ end \in Nat /\ end <= MaxTokenSize
      /\ MaxTokenSize \in Nat \ {0} /\ b \in Seq(Byte) /\ Len(b) = MaxTokenSize
      /\ data \in Seq(Byte) /\ Len(data) \in Nat
  BY BufferIsSeq DEF Reader, Contents, Byte
<1>2. start <= end /\ \A k \in DOMAIN old : HitFits(old[k])
  BY DEF ReadInv, WindowInv, HitFits
<1>3. small => /\ end <= Len(data) /\ \A k \in 1..end : b[k] = data[k]
               /\ \A k \in DOMAIN old : HitStays(old[k], start, data)
  BY DEF ReadInv, SmallInv, WindowInv, HitStays
<1>4. sound => Found(old) = MissesUpTo(data, Len(Lines(data)))
  BY DEF ReadInv, ExactInv
<1>5. hits = [k \in DOMAIN old |->
                [line |-> old[k].line, missed |-> old[k].missed,
                 shown |-> IF old[k].at = 0 THEN old[k].missed
                           ELSE SubSeq(b, old[k].at, old[k].at + Len(old[k].missed) - 1)]]
  BY DEF Show
<1>. HIDE DEF old, b, start, end, small, hits
<1>6. ASSUME NEW k \in DOMAIN old
      PROVE  /\ hits[k] \in Shown /\ hits[k].line = old[k].line /\ hits[k].missed = old[k].missed
             /\ small => hits[k].shown = hits[k].missed
  <2>. DEFINE h == old[k]
              at == h.at
              size == Len(h.missed)
              last == at + size - 1
              slice == SubSeq(b, at, last)
  <2>1. h \in Hit
    BY <1>1
  <2>2. at \in Nat /\ h.line \in Nat /\ h.missed \in Seq(Byte) /\ size \in Nat
    BY <1>1, <2>1 DEF Hit
  <2>3. hits[k] = [line |-> h.line, missed |-> h.missed, shown |-> IF at = 0 THEN h.missed ELSE slice]
    BY <1>5
  <2>4. at # 0 => last <= MaxTokenSize
    BY <1>2 DEF HitFits
  <2>5. small /\ at # 0 => last <= start /\ h.missed = SubSeq(data, at, last)
    BY <1>3 DEF HitStays
  <2>6. last = at + size - 1
    OBVIOUS
  <2>7. slice = SubSeq(b, at, last)
    OBVIOUS
  <2>. HIDE DEF h, at, size, last, slice
  <2>8. at # 0 => at \in Nat \ {0} /\ last \in Nat /\ at <= last + 1 /\ last <= Len(b)
    BY <1>1, <2>2, <2>4, <2>6
  <2>9. at # 0 => /\ slice \in Seq(Byte) /\ Len(slice) = last - at + 1
                  /\ \A j \in 1..last - at + 1 : slice[j] = b[at + j - 1]
    BY <1>1, <2>7, <2>8, SubSeqIs
  <2>10. hits[k] \in Shown
    BY <2>2, <2>3, <2>9 DEF Shown
  <2>11. hits[k].line = h.line /\ hits[k].missed = h.missed
         /\ hits[k].shown = IF at = 0 THEN h.missed ELSE slice
    BY <2>3
  <2>12. ASSUME small, at # 0
         PROVE  slice = h.missed
    <3>. DEFINE there == SubSeq(data, at, last)
    <3>1. last <= Len(data) /\ last <= end
      BY <1>1, <1>2, <1>3, <2>5, <2>8, <2>12
    <3>2. /\ there \in Seq(Byte) /\ Len(there) = last - at + 1
          /\ \A j \in 1..last - at + 1 : there[j] = data[at + j - 1]
      <4>1. /\ data \in Seq(Byte) /\ at \in Nat \ {0} /\ last \in Nat /\ at <= last + 1
            /\ last <= Len(data)
        BY <1>1, <2>8, <2>12, <3>1
      <4>. QED
        BY <4>1, SubSeqIs
    <3>3. \A j \in 1..last - at + 1 : at + j - 1 \in 1..end
      BY <1>1, <2>8, <2>12, <3>1
    <3>4. \A j \in 1..last - at + 1 : b[at + j - 1] = data[at + j - 1]
      BY <1>3, <2>12, <3>3
    <3>5. h.missed = there
      BY <2>5, <2>12
    <3>. HIDE DEF there
    <3>6. slice = there
      <4>1. \A j \in 1..Len(slice) : slice[j] = there[j]
        BY <2>9, <2>12, <3>2, <3>4
      <4>. QED
        BY <2>9, <2>12, <3>2, <4>1, SameSeq
    <3>. QED
      BY <3>5, <3>6
  <2>. QED
    BY <2>10, <2>11, <2>12 DEF h
<1>7. hits \in Seq(Shown) /\ DOMAIN hits = DOMAIN old
  <2>1. hits \in [DOMAIN old -> Shown]
    BY <1>5, <1>6
  <2>. QED
    BY <1>1, <2>1, SeqOfFcn
<1>8. Found(hits) = Found(old)
  <2>1. \A k \in DOMAIN old : hits[k].line = old[k].line /\ hits[k].missed = old[k].missed
    BY <1>6
  <2>. QED
    BY <1>7, <2>1 DEF Found
<1>9. small => \A k \in DOMAIN hits : hits[k].shown = hits[k].missed
  BY <1>6, <1>7
<1>. QED
  BY <1>4, <1>7, <1>8, <1>9 DEF IsReport, hits, old, small

(* Whether a file is sound when these calls have failed. *)
SoundIn(calls, i) == \A f \in calls : f.file # i

Calls == [file : Files, call : Call]

(* What is known of a sound reader holds of one whose calls have failed    *)
(* since.                                                                  *)
LEMMA LessSound ==
    ASSUME NEW me, NEW b, NEW data, NEW hits, NEW sound \in BOOLEAN, NEW after \in BOOLEAN,
           after => sound
    PROVE  /\ ReadInv(me, b, data, sound) => ReadInv(me, b, data, after)
           /\ IsReport(hits, data, sound) => IsReport(hits, data, after)
  BY DEF ReadInv, IsReport

(* DataInv, one worker and one report at a time. *)
LEMMA DataFacts ==
    ASSUME DataInv
    PROVE  /\ worker \in [Worker -> Reader] /\ buf \in [Worker -> Buffer] /\ failed \subseteq Calls
           /\ \A w \in Worker : worker[w].pc \in BusyPC =>
                ReadInv(worker[w], buf[w], file(worker[w].file).data,
                        SoundIn(failed, worker[w].file))
           /\ \A i \in DOMAIN report :
                IsReport(report[i], file(i).data, SoundIn(failed, i))
<1>1. \A i : Sound(i) = SoundIn(failed, i)
  BY DEF Sound, SoundIn
<1>. QED
  BY <1>1 DEF DataInv, Busy, Calls

(* A step that changes at most one worker, its buffer, and reports.        *)
LEMMA DataStep ==
    ASSUME DataInv, UNCHANGED scene,
           failed \subseteq failed', failed' \subseteq Calls,
           NEW w \in Worker, NEW you \in Reader, NEW b \in Buffer,
           worker' = [worker EXCEPT ![w] = you], buf' = [buf EXCEPT ![w] = b],
           you.pc \in BusyPC => ReadInv(you, b, file(you.file).data, SoundIn(failed', you.file)),
           \A i \in DOMAIN report' :
              \/ i \in DOMAIN report /\ report'[i] = report[i]
              \/ IsReport(report'[i], file(i).data, SoundIn(failed', i))
    PROVE  DataInv'
<1>1. Files' = Files /\ tree' = tree /\ \A i : file(i)' = file(i)
  BY SceneFacts DEF file
<1>2. Reader' = Reader
  BY <1>1 DEF Reader
<1>3. /\ worker \in [Worker -> Reader] /\ buf \in [Worker -> Buffer]
      /\ \A v \in Worker : worker[v].pc \in BusyPC =>
            ReadInv(worker[v], buf[v], file(worker[v].file).data, SoundIn(failed, worker[v].file))
      /\ \A i \in DOMAIN report : IsReport(report[i], file(i).data, SoundIn(failed, i))
  BY DataFacts
<1>4. /\ worker' \in [Worker -> Reader] /\ buf' \in [Worker -> Buffer]
      /\ worker'[w] = you /\ buf'[w] = b
      /\ \A v \in Worker \ {w} : worker'[v] = worker[v] /\ buf'[v] = buf[v]
  BY <1>3
<1>5. \A i : /\ SoundIn(failed, i) \in BOOLEAN /\ SoundIn(failed', i) \in BOOLEAN
             /\ SoundIn(failed', i) => SoundIn(failed, i)
  BY DEF SoundIn
<1>6. ASSUME NEW v \in Worker, worker'[v].pc \in BusyPC
      PROVE  ReadInv(worker'[v], buf'[v], file(worker'[v].file).data,
                     SoundIn(failed', worker'[v].file))
  <2>1. CASE v = w
    BY <1>4, <1>6, <2>1
  <2>2. CASE v # w
    <3>1. worker'[v] = worker[v] /\ buf'[v] = buf[v]
      BY <1>4, <2>2
    <3>2. ReadInv(worker[v], buf[v], file(worker[v].file).data, SoundIn(failed, worker[v].file))
      BY <1>3, <1>6, <3>1
    <3>3. ReadInv(worker[v], buf[v], file(worker[v].file).data, SoundIn(failed', worker[v].file))
      BY <1>5, <3>2, LessSound
    <3>. QED
      BY <3>1, <3>3
  <2>. QED
    BY <2>1, <2>2
<1>7. ASSUME NEW i \in DOMAIN report'
      PROVE  IsReport(report'[i], file(i).data, SoundIn(failed', i))
  <2>1. CASE i \in DOMAIN report /\ report'[i] = report[i]
    <3>1. IsReport(report[i], file(i).data, SoundIn(failed, i))
      BY <1>3, <2>1
    <3>2. IsReport(report[i], file(i).data, SoundIn(failed', i))
      BY <1>5, <3>1, LessSound
    <3>. QED
      BY <2>1, <3>2
  <2>. QED
    BY <2>1, <1>7
<1>8. \A i : Sound(i)' = SoundIn(failed', i)
  BY DEF Sound, SoundIn
<1>9. \A v \in Busy' : ReadInv(worker'[v], buf'[v], file(worker'[v].file).data,
                               (Sound(worker[v].file))')
  BY <1>6 DEF Busy, Sound, SoundIn
<1>10. \A v \in Busy' : file(worker[v].file)' = file(worker'[v].file)
  BY <1>1 DEF file
<1>11. \A i \in DOMAIN report' : IsReport(report'[i], file(i).data, Sound(i)')
  BY <1>7, <1>8
<1>. QED
  BY <1>1, <1>2, <1>4, <1>9, <1>10, <1>11 DEF DataInv, Calls

(* A step that leaves workers, buffers and reports alone. *)
LEMMA QuietStep ==
    ASSUME DataInv, UNCHANGED <<scene, worker, buf, report>>,
           failed \subseteq failed', failed' \subseteq Calls
    PROVE  DataInv'
<1>1. Files' = Files /\ tree' = tree /\ \A i : file(i)' = file(i)
  BY SceneFacts DEF file
<1>2. Reader' = Reader
  BY <1>1 DEF Reader
<1>3. /\ worker \in [Worker -> Reader] /\ buf \in [Worker -> Buffer]
      /\ \A v \in Worker : worker[v].pc \in BusyPC =>
            ReadInv(worker[v], buf[v], file(worker[v].file).data, SoundIn(failed, worker[v].file))
      /\ \A i \in DOMAIN report : IsReport(report[i], file(i).data, SoundIn(failed, i))
  BY DataFacts
<1>4. \A i : /\ SoundIn(failed, i) \in BOOLEAN /\ SoundIn(failed', i) \in BOOLEAN
             /\ SoundIn(failed', i) => SoundIn(failed, i)
  BY DEF SoundIn
<1>5. \A v \in Worker : worker[v].pc \in BusyPC =>
        ReadInv(worker[v], buf[v], file(worker[v].file).data, SoundIn(failed', worker[v].file))
  BY <1>3, <1>4, LessSound
<1>6. \A i \in DOMAIN report : IsReport(report[i], file(i).data, SoundIn(failed', i))
  BY <1>3, <1>4, LessSound
<1>7. \A i : Sound(i)' = SoundIn(failed', i)
  BY DEF Sound, SoundIn
<1>8. \A v \in Busy' : ReadInv(worker'[v], buf'[v], file(worker'[v].file).data,
                               (Sound(worker[v].file))')
  BY <1>5 DEF Busy, Sound, SoundIn
<1>9. \A v \in Busy' : file(worker[v].file)' = file(worker'[v].file)
  BY <1>1 DEF file
<1>10. \A i \in DOMAIN report' : IsReport(report'[i], file(i).data, Sound(i)')
  BY <1>6, <1>7
<1>. QED
  BY <1>1, <1>2, <1>3, <1>8, <1>9, <1>10 DEF DataInv, Calls

(* Main does nothing to the workers but see calls fail. *)
LEMMA MainData ==
    ASSUME ScanIInv, DataInv, Main
    PROVE  DataInv'
<1>1. failed \subseteq Calls
  BY DataFacts
<1>2. /\ UNCHANGED <<scene, worker, buf, report>> /\ failed \subseteq failed'
      /\ failed' \subseteq Calls
  <2>1. \A i, call : At(i) /\ call \in Call /\ Fail(i, call) => failed \subseteq failed' /\ failed' \subseteq Calls
    BY <1>1 DEF At, Fail, Calls
  <2>2. CASE Inaccessible
    BY <2>1, <2>2 DEF Inaccessible, Call, scene
  <2>3. CASE NoCode
    BY <1>1, <2>1, <2>3 DEF NoCode, Call, scene
  <2>4. CASE Filtered \/ Custom \/ Send \/ Close \/ Finish
    BY <1>1, <2>4 DEF Filtered, Custom, Send, Close, Finish, scene
  <2>. QED
    BY <2>2, <2>3, <2>4 DEF Main
<1>. QED
  BY <1>2, QuietStep

(* What is known of a worker with a file. *)
LEMMA BusyFacts ==
    ASSUME ScanIInv, DataInv, NEW w \in Worker, worker[w].pc \in BusyPC
    PROVE  LET i == worker[w].file IN
           /\ i \in Files /\ file(i).data \in Contents
           /\ worker[w] \in Reader /\ buf[w] \in Buffer /\ failed \subseteq Calls
           /\ ReadInv(worker[w], buf[w], file(i).data, SoundIn(failed, i))
<1>1. w \in Busy
  BY DEF Busy
<1>2. worker[w].file \in 1..walker.next - 1
  BY <1>1 DEF ScanIInv, PoolInv
<1>3. walker.next \in 1..Len(tree.files) + 1 /\ tree \in Tree
  BY DEF ScanIInv, WalkInv
<1>4. worker[w].file \in Files
  BY <1>2, <1>3, FilesFinite
<1>. QED
  BY <1>3, <1>4, DataFacts, FileData

(* A worker that receives a file keeps DataInv: its reader is fresh. *)
LEMMA ReceiveData ==
    ASSUME ScanIInv, DataInv, NEW w \in Worker, Receive(w)
    PROVE  DataInv'
<1>. DEFINE i == walker.next
            you == [Idle EXCEPT !.pc = "open", !.file = i]
<1>1. i \in Files /\ tree \in Tree
  BY DEF Receive, ScanIInv, WalkInv
<1>2. file(i).data \in Contents
  BY <1>1, FileData
<1>3. buf \in [Worker -> Buffer] /\ failed \subseteq Calls
  BY DataFacts
<1>4. SoundIn(failed, i) \in BOOLEAN
  BY DEF SoundIn
<1>5. you \in Reader /\ ReadInv(you, buf[w], file(i).data, SoundIn(failed, i))
  BY <1>1, <1>2, <1>3, <1>4, FreshReads
<1>6. you.file = i
  BY DEF Idle
<1>7. worker' = [worker EXCEPT ![w] = you] /\ UNCHANGED <<scene, buf, failed, report>>
  BY DEF Receive, Set
<1>8. buf' = [buf EXCEPT ![w] = buf[w]] /\ buf[w] \in Buffer
  BY <1>3, <1>7
<1>. HIDE DEF you, i
<1>9. ReadInv(you, buf[w], file(you.file).data, SoundIn(failed', you.file))
  BY <1>5, <1>6, <1>7
<1>. QED
  BY <1>3, <1>5, <1>7, <1>8, <1>9, DataStep

(* A worker that leaves keeps DataInv: it has no file. *)
LEMMA LeaveData ==
    ASSUME ScanIInv, DataInv, NEW w \in Worker, Leave(w)
    PROVE  DataInv'
<1>. DEFINE you == [Idle EXCEPT !.pc = "gone"]
<1>1. buf \in [Worker -> Buffer] /\ failed \subseteq Calls
  BY DataFacts
<1>2. you \in Reader /\ you.pc = "gone"
  BY IdleReader DEF Reader
<1>3. worker' = [worker EXCEPT ![w] = you] /\ UNCHANGED <<scene, buf, failed, report>>
  BY DEF Leave, Set
<1>4. buf' = [buf EXCEPT ![w] = buf[w]] /\ buf[w] \in Buffer
  BY <1>1, <1>3
<1>. HIDE DEF you
<1>5. you.pc \notin BusyPC
  BY <1>2 DEF BusyPC
<1>. QED
  BY <1>1, <1>2, <1>3, <1>4, <1>5, DataStep

(* Opening a file, or failing to, keeps DataInv. *)
LEMMA OpenData ==
    ASSUME ScanIInv, DataInv, NEW w \in Worker, Open(w)
    PROVE  DataInv'
<1>. DEFINE me == worker[w]
            i == me.file
            data == file(i).data
<1>1. /\ i \in Files /\ data \in Contents /\ me \in Reader /\ buf[w] \in Buffer
      /\ failed \subseteq Calls /\ ReadInv(me, buf[w], data, SoundIn(failed, i))
  BY BusyFacts DEF Open, BusyPC
<1>2. UNCHANGED <<scene, buf, report>> /\ buf' = [buf EXCEPT ![w] = buf[w]]
  BY DataFacts DEF Open
<1>3. SoundIn(failed, i) \in BOOLEAN /\ SoundIn(failed', i) \in BOOLEAN
  BY DEF SoundIn
<1>4. CASE Set(w, [me EXCEPT !.pc = "scan"]) /\ failed' = failed
  <2>. DEFINE you == [me EXCEPT !.pc = "scan"]
              sound == SoundIn(failed, i)
  <2>1. "scan" \in {"scan", "report"} /\ "scan" # "report"
    OBVIOUS
  <2>2. you \in Reader /\ ReadInv(you, buf[w], data, sound)
    <3>1. sound \in BOOLEAN /\ ReadInv(me, buf[w], data, sound) /\ me \in Reader
      BY <1>1, <1>3
    <3>. HIDE DEF sound, me, data
    <3>2. CASE sound = TRUE
      BY <2>1, <3>1, <3>2, PlaceReads
    <3>3. CASE sound = FALSE
      BY <2>1, <3>1, <3>3, PlaceReads
    <3>. QED
      BY <3>1, <3>2, <3>3
  <2>3. you.file = i /\ worker' = [worker EXCEPT ![w] = you]
    BY <1>1, <1>4 DEF Reader, Set
  <2>. HIDE DEF you, i
  <2>4. ReadInv(you, buf[w], file(you.file).data, SoundIn(failed', you.file))
    BY <1>4, <2>2, <2>3
  <2>. QED
    BY <1>1, <1>2, <1>4, <2>2, <2>3, <2>4, DataStep
<1>5. CASE Set(w, [me EXCEPT !.pc = "report"]) /\ Fail(i, "open")
  <2>. DEFINE you == [me EXCEPT !.pc = "report"]
  <2>1. /\ failed \subseteq failed' /\ failed' \subseteq Calls
        /\ SoundIn(failed', i) = FALSE
    <3>1. failed' = failed \cup {[file |-> i, call |-> "open"]} /\ "open" \in Call
      BY <1>5 DEF Fail, Call
    <3>2. [file |-> i, call |-> "open"] \in failed' /\ [file |-> i, call |-> "open"].file = i
      BY <3>1
    <3>3. SoundIn(failed', i) = FALSE
      BY <3>2 DEF SoundIn
    <3>. QED
      BY <1>1, <3>1, <3>3 DEF Calls
  <2>2. you \in Reader /\ ReadInv(you, buf[w], data, FALSE)
    BY <1>1, <1>3, PlaceReads
  <2>3. you.file = i /\ worker' = [worker EXCEPT ![w] = you]
    BY <1>1, <1>5 DEF Reader, Set
  <2>. HIDE DEF you, i
  <2>4. ReadInv(you, buf[w], file(you.file).data, SoundIn(failed', you.file))
    BY <2>1, <2>2, <2>3
  <2>. QED
    BY <1>1, <1>2, <2>1, <2>2, <2>3, <2>4, DataStep
<1>. QED
  BY <1>4, <1>5 DEF Open

(* What the guards say of the bytes of the window. *)
LEMMA WindowIs ==
    ASSUME NEW w \in Worker, worker[w] \in Reader, buf[w] \in Buffer,
           worker[w].start <= worker[w].end
    PROVE  LET start == worker[w].start
               n == worker[w].end - start
           IN /\ n \in 0..MaxTokenSize /\ Window(w) \in Seq(Byte) /\ Len(Window(w)) = n
              /\ \A k \in 1..n : Window(w)[k] = buf[w][start + k]
              /\ ~Contains(Window(w), Newline) => \A k \in 1..n : buf[w][start + k] # Newline
<1>. DEFINE start == worker[w].start
            end == worker[w].end
            b == buf[w]
            window == Window(w)
<1>1. /\ start \in Nat /\ end \in Nat /\ end <= MaxTokenSize /\ start <= end
      /\ MaxTokenSize \in Nat \ {0} /\ b \in Seq(Byte) /\ Len(b) = MaxTokenSize
  BY BufferIsSeq DEF Reader
<1>2. window = SubSeq(b, start + 1, end)
  BY DEF Window
<1>. HIDE DEF start, end, b, window
<1>3. start + 1 \in Nat \ {0} /\ start + 1 <= end + 1 /\ end <= Len(b) /\ end - (start + 1) + 1 = end - start
  BY <1>1
<1>4. /\ window \in Seq(Byte) /\ Len(window) = end - start
      /\ \A k \in 1..end - start : window[k] = b[start + 1 + k - 1]
  BY <1>1, <1>2, <1>3, SubSeqIs
<1>5. \A k \in 1..end - start : window[k] = b[start + k]
  <2>1. \A k \in 1..end - start : start + 1 + k - 1 = start + k
    BY <1>1
  <2>. QED
    BY <1>4, <2>1
<1>6. ~Contains(window, Newline) => \A k \in 1..end - start : b[start + k] # Newline
  BY <1>4, <1>5 DEF Contains, Range
<1>7. end - start \in 0..MaxTokenSize
  BY <1>1
<1>. QED
  BY <1>4, <1>5, <1>6, <1>7 DEF start, end, b, window

(* A worker takes a line. *)
LEMMA TakeData ==
    ASSUME ScanIInv, DataInv, NEW w \in Worker, worker[w].pc = "scan",
           NEW length \in Nat, NEW advance \in Nat, IsFront(worker[w], buf[w], length, advance),
           Take(w, length, advance), UNCHANGED <<scene, buf, failed, report>>
    PROVE  DataInv'
<1>. DEFINE me == worker[w]
            i == me.file
            data == file(i).data
            sound == SoundIn(failed, i)
            token == Line(w, length)
            you == Taken(me, token, advance)
<1>1. /\ i \in Files /\ data \in Contents /\ me \in Reader /\ buf[w] \in Buffer
      /\ failed \subseteq Calls /\ ReadInv(me, buf[w], data, sound)
  BY BusyFacts DEF BusyPC
<1>2. buf' = [buf EXCEPT ![w] = buf[w]] /\ failed' = failed
  BY DataFacts
<1>3. sound \in BOOLEAN
  BY DEF SoundIn
<1>4. token = SubSeq(buf[w], me.start + 1, me.start + length)
  BY DEF Line
<1>5. Set(w, you)
  BY Zenon DEF Take, Taken
<1>6. you.file = i
  BY <1>1 DEF Taken, Reader
<1>7. worker' = [worker EXCEPT ![w] = you]
  BY <1>5 DEF Set
<1>8. IsFront(me, buf[w], length, advance) /\ me.pc = "scan"
  OBVIOUS
<1>9. you \in Reader /\ ReadInv(you, buf[w], data, sound)
  <2>. HIDE DEF me, data, sound
  <2>1. CASE sound = TRUE
    BY <1>1, <1>4, <1>8, <2>1, TakenReads
  <2>2. CASE sound = FALSE
    BY <1>1, <1>4, <1>8, <2>2, TakenReads
  <2>. QED
    BY <1>3, <2>1, <2>2
<1>. HIDE DEF you, i, me
<1>10. ReadInv(you, buf[w], file(you.file).data, SoundIn(failed', you.file))
  BY <1>2, <1>6, <1>9
<1>. QED
  BY <1>1, <1>2, <1>7, <1>9, <1>10, DataStep

(* A line that ends in a newline in the buffer (bufio.ScanLines) keeps     *)
(* DataInv.                                                                *)
LEMMA ScanLineData ==
    ASSUME ScanIInv, DataInv, NEW w \in Worker, ScanLine(w)
    PROVE  DataInv'
<1>. DEFINE me == worker[w]
            b == buf[w]
            n == LineLength(w)
            first == FirstOf(Window(w), Newline)
            size == me.end - me.start
<1>1. me \in Reader /\ b \in Buffer /\ me.start <= me.end
  BY BusyFacts DEF ScanLine, BusyPC, ReadInv, WindowInv
<1>2. /\ size \in 0..MaxTokenSize /\ Window(w) \in Seq(Byte) /\ Len(Window(w)) = size
      /\ \A k \in 1..size : Window(w)[k] = b[me.start + k]
  BY <1>1, WindowIs
<1>3. /\ Contains(Window(w), Newline) /\ me.pc = "scan" /\ Take(w, n, n + 1)
      /\ UNCHANGED <<scene, buf, failed, report>>
  BY DEF ScanLine
<1>4. /\ first \in 1..size /\ Window(w)[first] = Newline
      /\ \A k \in 1..first - 1 : Window(w)[k] # Newline
  BY <1>2, <1>3, FirstIs
<1>5. n = first - 1
  BY DEF LineLength, FirstOf
<1>6. me.start \in Nat /\ MaxTokenSize \in Nat /\ size \in Nat
  BY <1>1, <1>2, BufferIsSeq DEF Reader
<1>. HIDE DEF n, first, b, size
<1>7. n \in Nat /\ n + 1 = first /\ n + 1 \in Nat /\ n + 1 <= size /\ \A k \in 1..n : k \in 1..size
  BY <1>4, <1>5, <1>6
<1>8. me.start + n + 1 = me.start + first
  BY <1>6, <1>7
<1>9. b[me.start + n + 1] = Newline /\ \A k \in 1..n : b[me.start + k] # Newline
  BY <1>2, <1>4, <1>5, <1>7, <1>8
<1>10. IsFront(me, b, n, n + 1)
  BY <1>7, <1>9 DEF IsFront, size
<1>. QED
  BY <1>3, <1>7, <1>10, TakeData DEF b

(* The rest of a file that does not end in a newline keeps DataInv. *)
LEMMA ScanRestData ==
    ASSUME ScanIInv, DataInv, NEW w \in Worker, ScanRest(w)
    PROVE  DataInv'
<1>. DEFINE me == worker[w]
            b == buf[w]
            n == Len(Window(w))
            size == me.end - me.start
<1>1. me \in Reader /\ b \in Buffer /\ me.start <= me.end
  BY BusyFacts DEF ScanRest, BusyPC, ReadInv, WindowInv
<1>2. me.pc = "scan" /\ ~Contains(Window(w), Newline) /\ me.err /\ Window(w) # << >>
      /\ Take(w, n, n) /\ UNCHANGED <<scene, buf, failed, report>>
  BY DEF ScanRest
<1>3. /\ size \in 0..MaxTokenSize /\ Window(w) \in Seq(Byte) /\ n = size
      /\ \A k \in 1..size : b[me.start + k] # Newline
  BY <1>1, <1>2, WindowIs
<1>4. n # 0 /\ n \in Nat
  BY <1>2, <1>3
<1>5. IsFront(me, b, n, n)
  <2>1. n <= me.end - me.start /\ n = me.end - me.start /\ \A k \in 1..n : b[me.start + k] # Newline
    BY <1>3, <1>4
  <2>. HIDE DEF n, b
  <2>. QED
    BY <1>2, <1>4, <2>1 DEF IsFront
<1>. QED
  BY <1>2, <1>4, <1>5, TakeData

(* A read gets what IsGot says, all that is left or as much as fits. *)
LEMMA UnreadIs ==
    ASSUME NEW w \in Worker, worker[w] \in Reader, Filled(w) \in Nat, Filled(w) < MaxTokenSize,
           file(worker[w].file).data \in Contents,
           worker[w].pos <= Len(file(worker[w].file).data)
    PROVE  LET data == file(worker[w].file).data IN
           /\ Unread(w) \in Contents /\ IsGot(Unread(w), w, data)
           /\ Unread(w) = << >> => worker[w].pos = Len(data)
<1>. DEFINE data == file(worker[w].file).data
            pos == worker[w].pos
            rest == Len(data) - pos
            space == MaxTokenSize - Filled(w)
            n == IF rest < space THEN rest ELSE space
            got == Unread(w)
<1>1. /\ pos \in Nat /\ MaxTokenSize \in Nat \ {0} /\ Len(data) \in Nat
      /\ pos <= Len(data) /\ Filled(w) \in Nat /\ Filled(w) < MaxTokenSize
  BY NormalizeAssumption DEF Reader, Contents
<1>2. got = SubSeq(data, pos + 1, pos + n)
  BY DEF Unread
<1>3. n \in Nat /\ n <= rest /\ n <= space /\ (n = 0 => rest = 0)
  BY <1>1
<1>. HIDE DEF got, n, pos
<1>4. /\ pos + 1 \in Nat \ {0} /\ pos + n \in Nat /\ pos + 1 <= pos + n + 1 /\ pos + n <= Len(data)
      /\ (pos + n) - (pos + 1) + 1 = n /\ Filled(w) + n <= MaxTokenSize
      /\ n = 0 => pos = Len(data)
  BY <1>1, <1>3
<1>5. data \in Contents
  OBVIOUS
<1>. HIDE DEF data
<1>6. /\ got \in Contents /\ Len(got) = n
      /\ \A k \in 1..n : got[k] = data[pos + 1 + k - 1]
  BY <1>2, <1>4, <1>5, SubSeqIs DEF Contents
<1>7. \A k \in 1..n : got[k] = data[pos + k]
  <2>1. \A k \in 1..n : pos + 1 + k - 1 = pos + k
    BY <1>1
  <2>. QED
    BY <1>6, <2>1
<1>8. got = << >> => n = 0
  BY <1>6
<1>. QED
  BY <1>4, <1>6, <1>7, <1>8 DEF IsGot, data, pos, got

(* A worker whose read comes back. *)
LEMMA GotData ==
    ASSUME ScanIInv, DataInv, NEW w \in Worker, NeedsData(w), Filled(w) < MaxTokenSize,
           NEW got \in Contents, IsGot(got, w, file(worker[w].file).data),
           NEW err \in BOOLEAN, err => Len(got) = 0,
           failed \subseteq failed', failed' \subseteq Calls,
           err /\ SoundIn(failed', worker[w].file) =>
              worker[w].pos = Len(file(worker[w].file).data),
           worker' = [worker EXCEPT ![w] = AfterRead(w, got, err)],
           buf' = [buf EXCEPT ![w] = Loaded(w, got)], UNCHANGED <<scene, report>>
    PROVE  DataInv'
<1>. DEFINE me == worker[w]
            i == me.file
            data == file(i).data
            sound == SoundIn(failed', i)
            you == AfterRead(w, got, err)
            b == Loaded(w, got)
<1>1. /\ i \in Files /\ data \in Contents /\ me \in Reader /\ buf[w] \in Buffer
      /\ ReadInv(me, buf[w], data, SoundIn(failed, i))
  BY BusyFacts DEF NeedsData, BusyPC
<1>2. /\ sound \in BOOLEAN /\ SoundIn(failed, i) \in BOOLEAN
      /\ sound => SoundIn(failed, i)
  BY DEF SoundIn
<1>3. ReadInv(me, buf[w], data, sound)
  <2>. HIDE DEF sound, me, data
  <2>. QED
    BY <1>1, <1>2, LessSound
<1>4. you.file = i
  BY <1>1 DEF AfterRead, Reader
<1>5. err /\ sound => me.pos = Len(data)
  OBVIOUS
<1>6. /\ NeedsData(w) /\ Filled(w) < MaxTokenSize /\ IsGot(got, w, data)
      /\ err => Len(got) = 0
  OBVIOUS
<1>7. you \in Reader /\ b \in Buffer /\ ReadInv(you, b, data, sound)
  <2>. HIDE DEF sound, data
  <2>1. CASE sound = TRUE
    BY <1>1, <1>3, <1>5, <1>6, <2>1, ReadKeeps
  <2>2. CASE sound = FALSE
    BY <1>1, <1>3, <1>5, <1>6, <2>2, ReadKeeps
  <2>. QED
    BY <1>2, <2>1, <2>2
<1>8. worker' = [worker EXCEPT ![w] = you] /\ buf' = [buf EXCEPT ![w] = b]
  OBVIOUS
<1>. HIDE DEF you, b, i
<1>9. ReadInv(you, b, file(you.file).data, SoundIn(failed', you.file))
  BY <1>4, <1>7
<1>. QED
  BY <1>7, <1>8, <1>9, DataStep

(* How far the buffer is filled when it has been moved to its beginning. *)
LEMMA FilledIs ==
    ASSUME NEW w \in Worker, worker[w] \in Reader, worker[w].start <= worker[w].end
    PROVE  Filled(w) \in Nat
  BY NormalizeAssumption DEF Reader, Filled

(* A read that moves the buffer and fills it (bufio.Scanner.Scan) keeps    *)
(* DataInv.                                                                *)
LEMMA ReadData ==
    ASSUME ScanIInv, DataInv, NEW w \in Worker, Read(w)
    PROVE  DataInv'
<1>. DEFINE me == worker[w]
            data == file(me.file).data
            got == Unread(w)
            err == got = << >>
<1>1. /\ data \in Contents /\ me \in Reader /\ failed \subseteq Calls
      /\ me.pos <= Len(data) /\ me.start <= me.end
  BY BusyFacts DEF Read, NeedsData, BusyPC, ReadInv, WindowInv
<1>2. NeedsData(w) /\ Filled(w) < MaxTokenSize /\ UNCHANGED <<scene, report, failed>>
  BY DEF Read, scene
<1>3. got \in Contents /\ IsGot(got, w, data) /\ (err => me.pos = Len(data))
  BY <1>1, <1>2, FilledIs, UnreadIs
<1>4. /\ worker' = [worker EXCEPT ![w] = AfterRead(w, got, err)]
      /\ buf' = [buf EXCEPT ![w] = Loaded(w, got)]
  BY DEF Read, Set, AfterRead
<1>5. err \in BOOLEAN /\ (err => Len(got) = 0)
  BY DEF err
<1>. HIDE DEF got, err
<1>6. CASE err = TRUE
  BY <1>1, <1>2, <1>3, <1>4, <1>5, <1>6, GotData
<1>7. CASE err = FALSE
  BY <1>1, <1>2, <1>3, <1>4, <1>5, <1>7, GotData
<1>. QED
  BY <1>5, <1>6, <1>7

(* A read that fails keeps DataInv: nothing is claimed of the hits of such *)
(* a file but that they are in the buffer.                                 *)
LEMMA ReadFailsData ==
    ASSUME ScanIInv, DataInv, NEW w \in Worker, ReadFails(w)
    PROVE  DataInv'
<1>. DEFINE me == worker[w]
            i == me.file
            data == file(i).data
            got == << >>
<1>1. /\ i \in Files /\ data \in Contents /\ me \in Reader /\ failed \subseteq Calls
      /\ me.pos <= Len(data) /\ me.start <= me.end
  BY BusyFacts DEF ReadFails, NeedsData, BusyPC, ReadInv, WindowInv
<1>2. NeedsData(w) /\ Filled(w) < MaxTokenSize /\ UNCHANGED <<scene, report>> /\ Fail(i, "read")
  BY DEF ReadFails, scene
<1>3. /\ me.pos \in Nat /\ Filled(w) \in Nat /\ MaxTokenSize \in Nat
      /\ got \in Contents /\ Len(got) = 0
  BY <1>1, <1>2, FilledIs, NormalizeAssumption DEF Reader, Contents
<1>4. IsGot(got, w, data)
  BY <1>1, <1>2, <1>3 DEF IsGot
<1>5. AfterRead(w, got, TRUE) = [me EXCEPT !.start = Kept(w), !.end = Filled(w), !.err = TRUE]
  <2>1. Filled(w) + Len(got) = Filled(w) /\ me.pos + Len(got) = me.pos
    BY <1>3
  <2>2. [me EXCEPT !.start = Kept(w), !.end = Filled(w), !.pos = me.pos, !.err = TRUE]
          = [me EXCEPT !.start = Kept(w), !.end = Filled(w), !.err = TRUE]
    BY <1>1 DEF Reader
  <2>. QED
    BY <2>1, <2>2 DEF AfterRead
<1>6. /\ worker' = [worker EXCEPT ![w] = AfterRead(w, got, TRUE)]
      /\ buf' = [buf EXCEPT ![w] = Loaded(w, got)]
  BY <1>5 DEF ReadFails, Set
<1>7. /\ failed \subseteq failed' /\ failed' \subseteq Calls /\ SoundIn(failed', i) = FALSE
  <2>1. failed' = failed \cup {[file |-> i, call |-> "read"]} /\ "read" \in Call
    BY <1>2 DEF Fail, Call
  <2>2. [file |-> i, call |-> "read"] \in failed' /\ [file |-> i, call |-> "read"].file = i
    BY <2>1
  <2>3. SoundIn(failed', i) = FALSE
    BY <2>2 DEF SoundIn
  <2>. QED
    BY <1>1, <2>1, <2>3 DEF Calls
<1>. HIDE DEF got
<1>. QED
  BY <1>2, <1>3, <1>4, <1>6, <1>7, GotData

(* The end of a file, or a line that is too long for the buffer, keeps     *)
(* DataInv.                                                                *)
LEMMA EndOfScanData ==
    ASSUME ScanIInv, DataInv, NEW w \in Worker, EndOfScan(w)
    PROVE  DataInv'
<1>. DEFINE me == worker[w]
            b == buf[w]
            i == me.file
            data == file(i).data
            sound == SoundIn(failed, i)
            you == [me EXCEPT !.pc = "report"]
            size == me.end - me.start
<1>1. /\ i \in Files /\ data \in Contents /\ me \in Reader /\ b \in Buffer
      /\ failed \subseteq Calls /\ ReadInv(me, b, data, sound)
  BY BusyFacts DEF EndOfScan, BusyPC
<1>2. WindowInv(me, b, data) /\ me.start <= me.end
  BY <1>1 DEF ReadInv, WindowInv
<1>3. /\ Set(w, you) /\ UNCHANGED <<scene, buf, failed, report>>
      /\ \/ me.err /\ Window(w) = << >>
         \/ NeedsData(w) /\ Filled(w) = MaxTokenSize
  BY DEF EndOfScan
<1>4. /\ size \in 0..MaxTokenSize /\ Window(w) \in Seq(Byte) /\ Len(Window(w)) = size
      /\ ~Contains(Window(w), Newline) => \A k \in 1..size : b[me.start + k] # Newline
  BY <1>1, <1>2, WindowIs
<1>5. /\ me.start \in Nat /\ me.end \in Nat /\ MaxTokenSize \in Nat \ {0} /\ me.end <= MaxTokenSize
  BY <1>1, BufferIsSeq DEF Reader
<1>6. \/ me.err /\ me.end = me.start
      \/ size = MaxTokenSize /\ \A k \in 1..size : b[me.start + k] # Newline
  <2>1. CASE me.err /\ Window(w) = << >>
    BY <1>4, <1>5, <2>1
  <2>2. CASE NeedsData(w) /\ Filled(w) = MaxTokenSize
    <3>1. ~Contains(Window(w), Newline)
      BY <2>2 DEF NeedsData
    <3>2. size = MaxTokenSize
      <4>1. CASE Shifts(w)
        BY <2>2, <4>1 DEF Filled
      <4>2. CASE ~Shifts(w)
        <5>1. me.end = MaxTokenSize
          BY <2>2, <4>2 DEF Filled
        <5>2. ~(me.start > 0)
          BY <4>2, <5>1 DEF Shifts
        <5>. QED
          BY <1>5, <5>1, <5>2
      <4>. QED
        BY <4>1, <4>2
    <3>. QED
      BY <1>4, <3>1, <3>2
  <2>. QED
    BY <1>3, <2>1, <2>2
<1>7. sound => me.line = Len(Lines(data))
  <2>1. ASSUME sound  PROVE me.line = Len(Lines(data))
    <3>1. ExactInv(me, data)
      BY <1>1, <2>1 DEF ReadInv
    <3>. HIDE DEF me, b, data
    <3>. QED
      BY <1>1, <1>2, <1>6, <3>1, EndIsLast DEF size
  <2>. QED
    BY <2>1
<1>8. sound \in BOOLEAN /\ "report" \in {"scan", "report"}
  BY DEF SoundIn
<1>9. you \in Reader /\ ReadInv(you, b, data, sound)
  <2>. HIDE DEF me, b, data, sound
  <2>1. CASE sound = TRUE
    BY <1>1, <1>7, <1>8, <2>1, PlaceReads
  <2>2. CASE sound = FALSE
    BY <1>1, <1>8, <2>2, PlaceReads
  <2>. QED
    BY <1>8, <2>1, <2>2
<1>10. you.file = i /\ worker' = [worker EXCEPT ![w] = you]
  BY <1>1, <1>3 DEF Reader, Set
<1>11. buf' = [buf EXCEPT ![w] = b]
  BY <1>3, DataFacts
<1>. HIDE DEF you, i, b
<1>12. ReadInv(you, b, file(you.file).data, SoundIn(failed', you.file))
  BY <1>3, <1>9, <1>10
<1>. QED
  BY <1>1, <1>3, <1>9, <1>10, <1>11, <1>12, DataStep

(* What is reported of a file is what its reader found. *)
LEMMA ReportData ==
    ASSUME ScanIInv, DataInv, NEW w \in Worker, Report(w)
    PROVE  DataInv'
<1>. DEFINE me == worker[w]
            b == buf[w]
            i == me.file
            data == file(i).data
            sound == SoundIn(failed, i)
            hits == [k \in DOMAIN me.hits |-> Show(w, me.hits[k])]
<1>1. /\ i \in Files /\ data \in Contents /\ me \in Reader /\ b \in Buffer
      /\ failed \subseteq Calls /\ ReadInv(me, b, data, sound)
  BY BusyFacts DEF Report, BusyPC
<1>2. sound \in BOOLEAN /\ me.pc = "report"
  BY DEF SoundIn, Report
<1>3. IsReport(hits, data, sound)
  <2>. HIDE DEF data, sound
  <2>1. CASE sound = TRUE
    BY <1>1, <1>2, <2>1, ReportIs
  <2>2. CASE sound = FALSE
    BY <1>1, <1>2, <2>2, ReportIs
  <2>. QED
    BY <1>2, <2>1, <2>2
<1>4. /\ worker' = [worker EXCEPT ![w] = Idle] /\ UNCHANGED <<scene, buf, failed>>
      /\ report' = [j \in DOMAIN report \cup {i} |-> IF j = i THEN hits ELSE report[j]]
  BY DEF Report, Set
<1>5. buf' = [buf EXCEPT ![w] = b]
  BY <1>4, DataFacts
<1>6. ASSUME NEW j \in DOMAIN report'
      PROVE  \/ j \in DOMAIN report /\ report'[j] = report[j]
             \/ IsReport(report'[j], file(j).data, SoundIn(failed', j))
  <2>. HIDE DEF hits, i
  <2>1. CASE j = i
    BY <1>3, <1>4, <2>1
  <2>2. CASE j # i
    BY <1>4, <2>2
  <2>. QED
    BY <2>1, <2>2
<1>7. Idle \in Reader /\ Idle.pc \notin BusyPC
  BY IdleReader DEF Idle, BusyPC
<1>. HIDE DEF b
<1>. QED
  BY <1>1, <1>4, <1>5, <1>6, <1>7, DataStep

(* Each file a worker has or has reported is read right. *)
LEMMA DataInit == ScanIInv /\ Init => DataInv
<1>. SUFFICES ASSUME ScanIInv, Init  PROVE DataInv
  OBVIOUS
<1>1. worker = [w \in Worker |-> Idle] /\ buf = [w \in Worker |-> Erased]
      /\ report = << >> /\ failed = {}
  BY DEF Init
<1>2. Erased \in Buffer
  BY NormalizeAssumption DEF Erased, Buffer, Byte
<1>3. Busy = {}
  BY <1>1 DEF Busy, BusyPC, Idle
<1>4. DOMAIN report = {}
  BY <1>1
<1>. QED
  BY <1>1, <1>2, <1>3, <1>4, IdleReader DEF DataInv

(* Every step keeps DataInv. *)
LEMMA DataNext ==
    ASSUME ScanIInv, DataInv, [Next]_vars
    PROVE  DataInv'
<1>1. CASE UNCHANGED vars
  <2>1. UNCHANGED <<scene, worker, buf, report>> /\ failed \subseteq failed' /\ failed' \subseteq Calls
    BY <1>1, DataFacts DEF vars, scene
  <2>. QED
    BY <2>1, QuietStep
<1>2. CASE Main
  BY <1>2, MainData
<1>3. ASSUME NEW w \in Worker, Work(w)
      PROVE  DataInv'
  BY <1>3, ReceiveData, LeaveData, OpenData, ScanLineData, ScanRestData, ReadData,
     ReadFailsData, EndOfScanData, ReportData DEF Work
<1>. QED
  BY <1>1, <1>2, <1>3 DEF Next

(* Whatever the files hold and whatever fails, each worker's buffer, place *)
(* and hits are those its file has at the line it is at, and so is each    *)
(* report (scanFileWithDB, bufio.Scanner): the inductive invariant of the  *)
(* workers.                                                                *)
THEOREM DataInvariant == Spec => []DataInv
<1>1. ScanIInv /\ Init => DataInv
  BY DataInit
<1>2. ScanIInv /\ DataInv /\ [Next]_vars => DataInv'
  BY DataNext
<1>3. Spec => []ScanIInv
  BY ScanInvariant
<1>. QED
  BY <1>1, <1>2, <1>3, PTL DEF Spec

(* Every variable keeps its type. *)
THEOREM TypeCorrect == Spec => []TypeOK
<1>1. ScanIInv /\ DataInv => TypeOK
  <2>. SUFFICES ASSUME ScanIInv, DataInv  PROVE TypeOK
    OBVIOUS
  <2>1. /\ worker \in [Worker -> Reader] /\ buf \in [Worker -> Buffer]
        /\ failed \subseteq Calls
        /\ \A i \in DOMAIN report : IsReport(report[i], file(i).data, SoundIn(failed, i))
    BY DataFacts
  <2>2. Text \subseteq Seq(Byte)
    BY DEF Text, Byte
  <2>3. Reader \subseteq [pc : {"idle", "open", "scan", "report", "gone"},
                          file : {0} \cup Files, pos : Nat,
                          start : 0..MaxTokenSize, end : 0..MaxTokenSize,
                          err : BOOLEAN, line : Nat, token : Seq(Byte), hits : Seq(Hit)]
    BY <2>2 DEF Reader
  <2>4. \A i \in DOMAIN report : report[i] \in Seq(Shown)
    BY <2>1 DEF IsReport
  <2>5. DOMAIN report \subseteq Files
    BY FilesFinite DEF ScanIInv, WalkInv, PoolInv
  <2>6. /\ tree \in Tree /\ args \in Option
        /\ walker \in [pc : {"walk", "send", "wait", "done"}, next : 1..Len(tree.files) + 1]
        /\ count \in [total : Nat, code : Nat, custom : Nat]
        /\ stats \in [changed : Nat, suspect : Nat, unchanged : Nat]
    BY DEF ScanIInv, WalkInv, CountInv
  <2>. QED
    BY <2>1, <2>3, <2>4, <2>5, <2>6 DEF TypeOK, Buffer, Calls
<1>2. Spec => []ScanIInv
  BY ScanInvariant
<1>3. Spec => []DataInv
  BY DataInvariant
<1>. QED
  BY <1>1, <1>2, <1>3, PTL

(* What the database misses of a file, in the words of the specification.  *)
LEMMA MissesAre ==
    ASSUME NEW i, file(i).data \in Contents
    PROVE  Misses(i) = MissesUpTo(file(i).data, Len(Lines(file(i).data)))
<1>. DEFINE lines == Lines(file(i).data)
<1>1. DOMAIN lines = 1..Len(lines)
  BY LinesAre
<1>. QED
  BY <1>1 DEF Misses, MissesUpTo, LineMisses

(* A worker finds exactly the lines of its file that the database misses.  *)
THEOREM ReportsAreExact == Spec => []HitsAreExact
<1>1. ScanIInv /\ DataInv => HitsAreExact
  <2>. SUFFICES ASSUME ScanIInv, DataInv, NEW i \in DOMAIN report, Sound(i)
                PROVE  [k \in DOMAIN report[i] |-> <<report[i][k].line, report[i][k].missed>>]
                         = Misses(i)
    BY DEF HitsAreExact
  <2>1. file(i).data \in Contents
    BY FilesFinite, FileData DEF ScanIInv, WalkInv, PoolInv
  <2>2. Found(report[i]) = MissesUpTo(file(i).data, Len(Lines(file(i).data)))
    BY DEF DataInv, IsReport
  <2>. QED
    BY <2>1, <2>2, MissesAre DEF Found
<1>2. Spec => []ScanIInv
  BY ScanInvariant
<1>3. Spec => []DataInv
  BY DataInvariant
<1>. QED
  BY <1>1, <1>2, <1>3, PTL

(* The lines printed of a small file are lines of the file. *)
THEOREM SmallFilesAreShown == Spec => []SmallFilesShown
<1>1. DataInv => SmallFilesShown
  BY DEF DataInv, IsReport, SmallFilesShown
<1>2. Spec => []DataInv
  BY DataInvariant
<1>. QED
  BY <1>1, <1>2, PTL

(* Nothing that was indexed misses anything: by induction over its lines.  *)
LEMMA IndexedMisses ==
    ASSUME NEW data \in Contents, data \in Indexed
    PROVE  MissesUpTo(data, Len(Lines(data))) = << >>
<1>. DEFINE lines == Lines(data)
            m == Len(lines)
            T == {n \in 0..m : MissesUpTo(data, n) = << >>}
<1>1. lines \in Seq(Text) /\ m \in Nat
  <2>1. lines \in Seq(Text)
    BY LinesAre
  <2>. QED
    BY <2>1
<1>2. ASSUME NEW n \in 1..m
      PROVE  LineMisses(n, lines[n]) = << >>
  <2>1. lines[n] \in Text /\ n \in DOMAIN lines
    BY <1>1
  <2>2. \A k \in DOMAIN HashLine[lines[n]] : HashLine[lines[n]][k].text \in HashReader(data)
    BY <2>1 DEF HashReader, Range
  <2>3. HashReader(data) \subseteq db
    BY DEF db
  <2>4. Missing(lines[n]) = << >>
    BY <2>1, <2>2, <2>3, MissingIs
  <2>. QED
    BY <2>4 DEF LineMisses
<1>3. MissesUpTo(data, 0) = << >>
  <2>1. [n \in 1..0 |-> LineMisses(n, Lines(data)[n])] = << >>
    OBVIOUS
  <2>. QED
    BY <2>1, FlattenEmpty DEF MissesUpTo
<1>4. ASSUME NEW n \in 1..m, MissesUpTo(data, n - 1) = << >>
      PROVE  MissesUpTo(data, n) = << >>
  <2>1. n - 1 \in Nat /\ (n - 1) + 1 = n /\ n <= m
    BY <1>1
  <2>2. MissesUpTo(data, (n - 1) + 1) = MissesUpTo(data, n - 1) \o LineMisses((n - 1) + 1, lines[(n - 1) + 1])
    BY <2>1, MissesNext
  <2>3. MissesUpTo(data, n) = << >> \o << >>
    BY <1>2, <1>4, <2>1, <2>2
  <2>. QED
    BY <2>3
<1>5. 0 \in T /\ \A n \in 1..m : n - 1 \in T => n \in T
  BY <1>1, <1>3, <1>4
<1>. HIDE DEF T
<1>6. 0..m \subseteq T
  BY <1>1, <1>5, Induction
<1>7. m \in T
  BY <1>1, <1>6
<1>. QED
  BY <1>7 DEF T

(* Nothing that was indexed is reported as changed. *)
THEOREM IndexedStaysClean == Spec => []IndexedIsClean
<1>1. ScanIInv /\ DataInv => IndexedIsClean
  <2>. SUFFICES ASSUME ScanIInv, DataInv, NEW i \in DOMAIN report, Sound(i),
                       file(i).data \in Indexed
                PROVE  report[i] = << >>
    BY DEF IndexedIsClean
  <2>1. file(i).data \in Contents
    BY FilesFinite, FileData DEF ScanIInv, WalkInv, PoolInv
  <2>2. report[i] \in Seq(Shown)
        /\ Found(report[i]) = MissesUpTo(file(i).data, Len(Lines(file(i).data)))
    BY DEF DataInv, IsReport
  <2>3. Found(report[i]) = << >>
    BY <2>1, <2>2, IndexedMisses
  <2>4. DOMAIN report[i] = {}
    BY <2>3 DEF Found
  <2>. QED
    BY <2>2, <2>4
<1>2. Spec => []ScanIInv
  BY ScanInvariant
<1>3. Spec => []DataInv
  BY DataInvariant
<1>. QED
  BY <1>1, <1>2, <1>3, PTL

(* The chunks of every long line are those of the reference definition.    *)
THEOREM ChunksStayCuts == Spec => []ChunksAreCuts
<1>1. DataInv => ChunksAreCuts
  <2>1. \A w \in Worker : worker[w] \in Reader => worker[w].token \in Text
    BY DEF Reader
  <2>. QED
    BY <2>1, ChunkIsChunking DEF DataInv, ChunksAreCuts
<1>2. Spec => []DataInv
  BY DataInvariant
<1>. QED
  BY <1>1, <1>2, PTL

(* A change of one byte of a long line leaves the chunks before it, and those *)
(* from an end behind it that is an end of both lines.                        *)
THEOREM EditsSettleTheorem == Spec => []EditsSettle
<1>1. DataInv => EditsSettle
  <2>. SUFFICES ASSUME DataInv, NEW w \in Worker, NEW line, line = worker[w].token,
                       Len(line) > ChunkThreshold, NEW p \in DOMAIN line, NEW b \in Range(line)
                PROVE  EditSettles(line, [line EXCEPT ![p] = b])
    BY DEF EditsSettle
  <2>. DEFINE other == [line EXCEPT ![p] = b]
  <2>1. line \in Text
    BY DEF DataInv, Reader
  <2>2. b \in DOMAIN HashTable /\ p \in 1..Len(line)
    BY <2>1 DEF Text, Range
  <2>3. /\ other \in Text /\ Len(other) = Len(line)
        /\ \A j \in 1..Len(line) : j # p => line[j] = other[j]
    BY <2>1, <2>2 DEF Text
  <2>. HIDE DEF other
  <2>4. EditSettles(line, other)
    BY <2>1, <2>2, <2>3, OneByteSettles
  <2>. QED
    BY <2>4 DEF other
<1>2. Spec => []DataInv
  BY DataInvariant
<1>. QED
  BY <1>1, <1>2, PTL
=============================================================================
