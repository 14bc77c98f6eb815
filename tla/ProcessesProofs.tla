--------------------------- MODULE ProcessesProofs --------------------------
(***************************************************************************)
(* Theorems about Processes, for any number of processes, entries,         *)
(* commands, kills and failed writes: types, what the manifest lock        *)
(* guarantees (from ManifestProofs), and that processes which do not       *)
(* overlap lose nothing.                                                   *)
(***************************************************************************)
EXTENDS Processes, ManifestProofs

(* At most one process runs. *)
Alone == \A p, q \in Process : pc[p] # "out" /\ pc[q] # "out" => p = q

(* The counted entries are there, each once, also behind a header that was *)
(* never written.                                                          *)
FileInv ==
    /\ header = "none" => count = 0 /\ cells = << >>
    /\ IF torn THEN header \in {"empty", "zero"} ELSE header \in {"none", "ok"}
    /\ count <= Len(cells)
    /\ \A i, j \in 1..count : cells[i] = cells[j] => i = j

(* The file of a process that writes is its set, each hash once, and its   *)
(* offset is the end.                                                      *)
Enumerates(p) ==
    /\ header \in {"zero", "ok"}
    /\ Len(cells) = offset[p]
    /\ \A i, j \in 1..Len(cells) : cells[i] = cells[j] => i = j
    /\ set[p] = {cells[i] : i \in 1..Len(cells)}

PlaceInv(p) ==
    /\ pc[p] = "out" => set[p] = {} /\ offset[p] = 0
    /\ pc[p] # "work" => got[p] = {}
    /\ pc[p] = "create" => header = "none" /\ set[p] = {} /\ offset[p] = 0
    /\ pc[p] = "header" => header = "empty" /\ set[p] = {} /\ offset[p] = 0
    /\ pc[p] = "truncate" => header # "none" /\ set[p] = Contents /\ offset[p] = count
    /\ pc[p] \in {"ask", "wait", "work", "close"} => Enumerates(p) /\ count = Len(cells)
    /\ pc[p] \in {"count", "local"} => Enumerates(p)
    /\ pc[p] = "merge" => Contents \subseteq set[p] \cup lost

(* Where what the manifest claims is safe: in the database, lost with a    *)
(* process that was killed, or in a process's hands.                       *)
Held == UNION {got[p] \cup (IF pc[p] = "count" THEN set[p] ELSE {}) : p \in Process}
Safe == Contents \cup lost \cup Held

KeptInv ==
    /\ kept \subseteq Contents \cup lost
    /\ Cardinality(Claims \ Safe) <= failed

ApartInv ==
    ~overlapped =>
        /\ Alone /\ orphan = {} /\ FileInv
        /\ \A p \in Process : PlaceInv(p)
        /\ KeptInv

ApartIInv == TypeOK /\ ManifestIInv /\ ApartInv
-----------------------------------------------------------------------------
(* Every step is one of the manifest's, or leaves it alone. *)
LEMMA ManifestStep ==
    ASSUME ManifestIInv, [Next]_vars
    PROVE  ManifestIInv'
<1>1. ASSUME UNCHANGED manifestVars  PROVE ManifestIInv'
  BY <1>1, ManifestStays
<1>2. CASE UNCHANGED vars
  BY <1>1, <1>2 DEF vars
<1>3. ASSUME NEW p \in Process, Step(p) \/ Kill(p)  PROVE ManifestIInv'
  <2>1. CASE Open(p) \/ Create(p) \/ WriteHeader(p) \/ Truncate(p) \/ MergeWrite(p)
             \/ MergeCount(p) \/ CloseDB(p) \/ OpenOutput(p) \/ Save(p) \/ MergeFails(p)
    BY <1>1, <2>1 DEF Open, Create, WriteHeader, Truncate, MergeWrite, MergeCount, CloseDB,
                     OpenOutput, Save, MergeFails
  <2>2. CASE AskLock(p)
    BY <2>2, AskHolds DEF AskLock
  <2>3. CASE LoadManifest(p)
    BY <2>3, LoadHolds DEF LoadManifest
  <2>4. CASE CloseManifest(p) \/ Kill(p)
    BY <2>4, ReleaseHolds DEF CloseManifest, Kill
  <2>5. ASSUME NEW e \in Entry, Index(p, e) \/ MarkOnly(p, e) \/ AddLocal(p, e)
        PROVE  ManifestIInv'
    <3>1. CASE Index(p, e)
      BY <3>1, MarkHolds, MarkFailsHolds DEF Index
    <3>2. CASE MarkOnly(p, e)
      BY <3>2, MarkHolds DEF MarkOnly
    <3>3. CASE AddLocal(p, e)
      BY <1>1, <3>3 DEF AddLocal
    <3>. QED
      BY <2>5, <3>1, <3>2, <3>3
  <2>. QED
    BY <1>3, <2>1, <2>2, <2>3, <2>4, <2>5 DEF Step
<1>. QED
  BY <1>2, <1>3 DEF Next
-----------------------------------------------------------------------------
LEMMA FiniteCells ==
    ASSUME NEW S \in SUBSET Cell
    PROVE  IsFiniteSet(S) /\ Cardinality(S) \in Nat
<1>1. IsFiniteSet(Cell)
  BY ManifestAssumption, FS_AddElement DEF Cell
<1>. QED
  BY <1>1, FS_Subset, FS_CardinalityType

(* An order of a set has its elements, each once. *)
LEMMA Orders ==
    ASSUME NEW S \in SUBSET Cell, NEW new \in SetToSeqs(S)
    PROVE  /\ new \in Seq(S) /\ Len(new) = Cardinality(S) /\ Len(new) \in Nat
           /\ \A i, j \in 1..Len(new) : new[i] = new[j] => i = j
           /\ S = {new[i] : i \in 1..Len(new)}
           /\ new = << >> => S = {}
<1>. DEFINE n == Cardinality(S)
<1>1. IsFiniteSet(S) /\ n \in Nat
  BY FiniteCells
<1>2. /\ new \in [1..n -> S]
      /\ \A i, j \in 1..n : i # j => new[i] # new[j]
  BY DEF SetToSeqs
<1>3. new \in Seq(S) /\ Len(new) = n
  BY <1>1, <1>2
<1>4. S = {new[i] : i \in 1..n}
  <2>. DEFINE T == {new[i] : i \in 1..n}
  <2>1. new \in Injection(1..n, S)
    BY <1>2 DEF Injection, IsInjective
  <2>2. IsFiniteSet(1..n) /\ Cardinality(1..n) = n
    BY <1>1, FS_Interval
  <2>3. new \in Surjection(1..n, S)
    BY <1>1, <2>1, <2>2, FS_Injection
  <2>. QED
    BY <1>2, <2>3 DEF Surjection
<1>5. new = << >> => S = {}
  BY <1>3, <1>4
<1>. QED
  BY <1>1, <1>2, <1>3, <1>4, <1>5

(* Without repetition there are as many elements as places. *)
LEMMA CountOf ==
    ASSUME NEW s \in Seq(Cell), \A i, j \in 1..Len(s) : s[i] = s[j] => i = j
    PROVE  Cardinality({s[i] : i \in 1..Len(s)}) = Len(s)
<1>. DEFINE T == {s[i] : i \in 1..Len(s)}
<1>1. Len(s) \in Nat /\ IsFiniteSet(1..Len(s)) /\ Cardinality(1..Len(s)) = Len(s)
  BY FS_Interval
<1>2. s \in [1..Len(s) -> T] /\ T \subseteq Cell
  <2>1. s \in [1..Len(s) -> Cell]
    OBVIOUS
  <2>2. \A i \in 1..Len(s) : s[i] \in T
    OBVIOUS
  <2>3. s \in [1..Len(s) -> T]
    BY <2>1, <2>2
  <2>. QED
    BY <2>1, <2>3
<1>3. s \in Surjection(1..Len(s), T)
  BY <1>2 DEF Surjection
<1>4. s \in Injection(1..Len(s), T)
  BY <1>2 DEF Injection, IsInjective
<1>. QED
  BY <1>1, <1>3, <1>4, FS_Surjection

(* The entries behind an offset that is in the file. *)
LEMMA Appends ==
    ASSUME cells \in Seq(Cell), offset \in [Process -> Nat], NEW p \in Process,
           header \in {"none", "empty", "zero", "ok"},
           NEW new \in Seq(Cell), AppendEntries(p, new)
    PROVE  /\ offset' \in [Process -> Nat] /\ cells' \in Seq(Cell)
           /\ header' \in {"none", "empty", "zero", "ok"}
           /\ header' = "empty" => header' = header /\ cells' = cells
           /\ header \in {"zero", "ok"} => header' = header
           /\ offset'[p] = offset[p] + Len(new)
           /\ \A q \in Process \ {p} : offset'[q] = offset[q]
           /\ p \notin orphan /\ Len(cells) = offset[p] =>
                /\ Len(cells') = offset[p] + Len(new)
                /\ \A i \in 1..Len(cells) : cells'[i] = cells[i]
                /\ \A i \in 1..Len(new) : cells'[Len(cells) + i] = new[i]
<1>. DEFINE end == offset[p] + Len(new)
            len == IF end < Len(cells) THEN Len(cells) ELSE end
            At(i) == IF i > offset[p] /\ i <= end THEN new[i - offset[p]]
                     ELSE IF i <= Len(cells) THEN cells[i] ELSE Zero
<1>1. offset[p] \in Nat /\ Len(new) \in Nat /\ end \in Nat /\ len \in Nat /\ Len(cells) \in Nat
  OBVIOUS
<1>2. offset' = [offset EXCEPT ![p] = end]
  BY DEF AppendEntries
<1>3. offset' \in [Process -> Nat] /\ offset'[p] = end /\ \A q \in Process \ {p} : offset'[q] = offset[q]
  BY <1>1, <1>2
<1>4. cells' = IF p \in orphan \/ new = << >> THEN cells ELSE [i \in 1..len |-> At(i)]
  BY DEF AppendEntries
<1>5. \A i \in 1..len : At(i) \in Cell
  <2>. SUFFICES ASSUME NEW i \in 1..len  PROVE At(i) \in Cell
    OBVIOUS
  <2>1. CASE i > offset[p] /\ i <= end
    <3>1. i - offset[p] \in 1..Len(new)
      BY <1>1, <2>1
    <3>. QED
      BY <2>1, <3>1
  <2>2. CASE ~(i > offset[p] /\ i <= end)
    BY <1>1, <2>2 DEF Cell
  <2>. QED
    BY <2>1, <2>2
<1>6. cells' \in Seq(Cell)
  <2>1. CASE p \in orphan \/ new = << >>
    BY <1>4, <2>1
  <2>2. CASE ~(p \in orphan \/ new = << >>)
    <3>. HIDE DEF At, len
    <3>1. cells' \in [1..len -> Cell]
      BY <1>4, <1>5, <2>2
    <3>. QED
      BY <1>1, <3>1
  <2>. QED
    BY <2>1, <2>2
<1>7. ASSUME p \notin orphan, Len(cells) = offset[p], new # << >>
      PROVE  /\ Len(cells') = offset[p] + Len(new)
             /\ \A i \in 1..Len(cells) : cells'[i] = cells[i]
             /\ \A i \in 1..Len(new) : cells'[Len(cells) + i] = new[i]
  <2>1. len = end /\ cells' = [i \in 1..end |-> At(i)]
    <3>1. cells' = [i \in 1..len |-> At(i)]
      BY <1>4, <1>7
    <3>2. len = end
      BY <1>1, <1>7
    <3>. QED
      BY <3>1, <3>2
  <2>2. Len(cells') = end
    BY <1>1, <2>1
  <2>3. ASSUME NEW i \in 1..Len(cells)  PROVE cells'[i] = cells[i]
    BY <1>1, <1>7, <2>1
  <2>4. ASSUME NEW i \in 1..Len(new)  PROVE cells'[Len(cells) + i] = new[i]
    <3>1. Len(cells) + i \in 1..end /\ Len(cells) + i > offset[p] /\ Len(cells) + i <= end
          /\ Len(cells) + i - offset[p] = i
      BY <1>1, <1>7
    <3>2. cells'[Len(cells) + i] = At(Len(cells) + i)
      BY <2>1, <3>1
    <3>. QED
      BY <3>1, <3>2
  <2>. QED
    BY <2>2, <2>3, <2>4
<1>8. ASSUME new = << >>
      PROVE  cells' = cells /\ Len(new) = 0 /\ 1..Len(new) = {}
  BY <1>4, <1>8
<1>9. header \in {"zero", "ok"} => header' = header
  BY DEF AppendEntries, Extend
<1>10. header' \in {"none", "empty", "zero", "ok"}
  BY DEF AppendEntries, Extend
<1>11. header' = "empty" => header' = header /\ cells' = cells
  BY DEF AppendEntries, Extend
<1>. QED
  BY <1>1, <1>3, <1>6, <1>7, <1>8, <1>9, <1>10, <1>11
-----------------------------------------------------------------------------
LEMMA InitTyped == Init => TypeOK
<1>. SUFFICES ASSUME Init  PROVE TypeOK
  OBVIOUS
<1>1. ManifestTypeOK
  BY ManifestInitHolds DEF Init, ManifestIInv
<1>2. cells \in Seq(Cell) /\ sessions \in 0..MaxSessions
  BY ProcessesAssumption DEF Init
<1>3. set \in [Process -> SUBSET Cell] /\ got \in [Process -> SUBSET Entry]
  BY DEF Init
<1>. QED
  BY <1>1, <1>2, <1>3 DEF Init, TypeOK

LEMMA TypeStep ==
    ASSUME TypeOK, ManifestIInv, [Next]_vars
    PROVE  TypeOK'
<1>0. ManifestTypeOK' /\ Line \subseteq Entry \cup {Nothing} /\ Entry \subseteq Cell
  BY ManifestStep DEF ManifestIInv, Line, Cell
<1>1. CASE UNCHANGED vars
  BY <1>0, <1>1 DEF vars, dbVars, fileVars, history, TypeOK
<1>2. ASSUME NEW p \in Process, Step(p) \/ Kill(p)  PROVE TypeOK'
  <2>. USE <1>0 DEF TypeOK
  <2>1. CASE Open(p)
    <3>1. sessions' \in 0..MaxSessions /\ overlapped' \in BOOLEAN
      BY <2>1, ProcessesAssumption DEF Open, Begin
    <3>2. header # "none" => Contents \subseteq Cell
      BY <2>1 DEF Open, Loadable, Contents
    <3>. QED
      BY <2>1, <3>1, <3>2 DEF Open, Goto, fileVars
  <2>2. CASE Create(p)
    <3>1. pc' \in [Process -> {"out", "create", "header", "truncate", "ask", "wait", "work",
                               "count", "close", "local", "merge"}]
      BY <2>2 DEF Create, Dispatch, Goto
    <3>2. cells' \in Seq(Cell)
      BY <2>2 DEF Create
    <3>. QED
      BY <2>2, <3>1, <3>2 DEF Create, history
  <2>16. CASE WriteHeader(p)
    <3>1. pc' \in [Process -> {"out", "create", "header", "truncate", "ask", "wait", "work",
                               "count", "close", "local", "merge"}]
      BY <2>16 DEF WriteHeader, Dispatch, Goto
    <3>2. CASE p \in orphan
      BY <2>16, <3>1, <3>2 DEF WriteHeader, history
    <3>3. CASE p \notin orphan
      <4>1. header' = "ok" /\ count' = 0
        BY <2>16, <3>3 DEF WriteHeader
      <4>2. torn' \in BOOLEAN
        BY <2>16, <3>3 DEF WriteHeader
      <4>. QED
        BY <2>16, <3>1, <4>1, <4>2 DEF WriteHeader, history
    <3>. QED
      BY <3>2, <3>3
  <2>3. CASE Truncate(p)
    <3>1. pc' \in [Process -> {"out", "create", "header", "truncate", "ask", "wait", "work",
                               "count", "close", "local", "merge"}]
      BY <2>3 DEF Truncate, Dispatch, Goto
    <3>2. cells' \in Seq(Cell)
      <4>1. \A i \in 1..offset[p] : (IF i <= Len(cells) THEN cells[i] ELSE Zero) \in Cell
        BY DEF Cell
      <4>2. cells' \in [1..offset[p] -> Cell]
        <5>1. cells' = [i \in 1..offset[p] |-> IF i <= Len(cells) THEN cells[i] ELSE Zero]
          BY <2>3 DEF Truncate
        <5>. QED
          BY ONLY <4>1, <5>1
      <4>3. offset[p] \in Nat
        OBVIOUS
      <4>. QED
        BY ONLY <4>2, <4>3
    <3>. QED
      BY <2>3, <3>1, <3>2 DEF Truncate, Extend, history
  <2>4. CASE AskLock(p)
    BY <2>4 DEF AskLock, Goto, dbVars, fileVars, history
  <2>5. CASE LoadManifest(p)
    BY <2>5 DEF LoadManifest, Goto, dbVars, fileVars, history
  <2>6. ASSUME NEW e \in Entry, Index(p, e) \/ MarkOnly(p, e) \/ AddLocal(p, e)
        PROVE  TypeOK'
    <3>1. CASE Index(p, e)
      BY <3>1 DEF Index, dbVars, fileVars, history
    <3>2. CASE MarkOnly(p, e)
      BY <3>2 DEF MarkOnly, dbVars, fileVars, history
    <3>3. CASE AddLocal(p, e)
      <4>1. /\ offset' \in [Process -> Nat] /\ cells' \in Seq(Cell)
            /\ header' \in {"none", "empty", "zero", "ok"}
            /\ header' = "empty" => header' = header /\ cells' = cells
        <5>1. <<e>> \in Seq(Cell)
          OBVIOUS
        <5>. QED
          BY <3>3, <5>1, Appends DEF AddLocal
      <4>. QED
        BY <3>3, <4>1 DEF AddLocal, history
    <3>. QED
      BY <2>6, <3>1, <3>2, <3>3
  <2>7. CASE MergeWrite(p)
    <3>1. PICK new \in SetToSeqs(got[p] \ set[p]) :
                 /\ AppendEntries(p, new)
                 /\ Goto(p, IF new = << >> THEN "work" ELSE "count")
      BY <2>7 DEF MergeWrite
    <3>2. new \in Seq(Cell)
      <4>1. got[p] \ set[p] \in SUBSET Cell
        OBVIOUS
      <4>2. new \in Seq(got[p] \ set[p])
        BY <4>1, Orders
      <4>. QED
        BY <4>1, <4>2
    <3>3. /\ offset' \in [Process -> Nat] /\ cells' \in Seq(Cell)
          /\ header' \in {"none", "empty", "zero", "ok"}
          /\ header' = "empty" => header' = header /\ cells' = cells
      BY <3>1, <3>2, Appends
    <3>4. pc' \in [Process -> {"out", "create", "header", "truncate", "ask", "wait", "work",
                               "count", "close", "local", "merge"}]
      BY <3>1 DEF Goto
    <3>. QED
      BY <2>7, <3>3, <3>4 DEF MergeWrite, history
  <2>8. Cardinality(set[p]) \in Nat
    BY FiniteCells
  <2>9. CASE MergeCount(p)
    BY <2>8, <2>9 DEF MergeCount, WriteCount, Extend, Goto, history
  <2>10. CASE CloseManifest(p)
    BY <2>10 DEF CloseManifest, Goto, dbVars, fileVars, history
  <2>11. CASE CloseDB(p)
    BY <2>8, <2>11 DEF CloseDB, WriteCount, Extend, Forget, Goto
  <2>12. CASE OpenOutput(p)
    <3>1. sessions' \in 0..MaxSessions /\ overlapped' \in BOOLEAN
      BY <2>12, ProcessesAssumption DEF OpenOutput, Begin
    <3>2. header # "none" /\ Loadable => Contents \subseteq Cell
      BY DEF Loadable, Contents
    <3>3. Range(cells) \subseteq Cell
      BY DEF Range
    <3>4. set' \in [Process -> SUBSET Cell] /\ lost' \subseteq Cell
      BY <2>12, <3>2, <3>3 DEF OpenOutput
    <3>. QED
      BY <2>12, <3>1, <3>4 DEF OpenOutput, Goto, fileVars
  <2>13. CASE Save(p)
    <3>1. set[p] \cup Input \in SUBSET Cell
      BY ProcessesAssumption
    <3>2. Cardinality(set[p] \cup Input) \in Nat
      BY <3>1, FiniteCells
    <3>3. cells' \in Seq(Cell)
      <4>1. cells' \in Seq(set[p] \cup Input)
        BY <2>13, <3>1, Orders DEF Save
      <4>. QED
        BY <3>1, <4>1
    <3>. QED
      BY <2>13, <3>1, <3>2, <3>3 DEF Save, Forget, Goto
  <2>14. CASE MergeFails(p)
    BY <2>14 DEF MergeFails, Forget, Goto, fileVars, history
  <2>15. CASE Kill(p)
    BY <2>15 DEF Kill, Forget, Goto, fileVars
  <2>. QED
    BY <1>2, <2>1, <2>2, <2>3, <2>4, <2>5, <2>6, <2>7, <2>9, <2>10, <2>11, <2>12,
       <2>13, <2>14, <2>15, <2>16 DEF Step
<1>. QED
  BY <1>1, <1>2 DEF Next
-----------------------------------------------------------------------------
OthersOut(p) == \A q \in Process \ {p} : pc[q] = "out"

(* A step of p leaves what the others have alone. *)
Keeps(p) ==
    \A q \in Process \ {p} : /\ pc'[q] = pc[q] /\ set'[q] = set[q]
                             /\ offset'[q] = offset[q] /\ got'[q] = got[q]

ApartNow ==
    /\ Alone /\ orphan = {} /\ FileInv /\ KeptInv
    /\ \A p \in Process : PlaceInv(p)

LEMMA Frame ==
    ASSUME NEW p \in Process, OthersOut(p), \A q \in Process : PlaceInv(q), Keeps(p),
           orphan' = {}, FileInv', PlaceInv(p)', KeptInv'
    PROVE  ApartNow'
<1>1. \A q \in Process \ {p} : pc'[q] = "out"
  BY DEF OthersOut, Keeps
<1>2. Alone'
  BY <1>1 DEF Alone
<1>3. ASSUME NEW q \in Process \ {p}  PROVE PlaceInv(q)'
  <2>1. pc'[q] = "out" /\ set'[q] = {} /\ offset'[q] = 0 /\ got'[q] = {}
    BY DEF OthersOut, Keeps, PlaceInv
  <2>. QED
    BY <2>1 DEF PlaceInv
<1>. QED
  BY <1>2, <1>3 DEF ApartNow

(* What is held is what p holds. *)
LEMMA HeldByOne ==
    ASSUME NEW p \in Process, OthersOut(p), \A q \in Process : PlaceInv(q)
    PROVE  Held = got[p] \cup (IF pc[p] = "count" THEN set[p] ELSE {})
  BY DEF Held, OthersOut, PlaceInv

LEMMA HeldByOneNext ==
    ASSUME NEW p \in Process, OthersOut(p), \A q \in Process : PlaceInv(q), Keeps(p)
    PROVE  Held' = got'[p] \cup (IF pc'[p] = "count" THEN set'[p] ELSE {})
<1>1. \A q \in Process \ {p} : pc'[q] = "out" /\ got'[q] = {}
  BY DEF OthersOut, PlaceInv, Keeps
<1>. QED
  BY <1>1 DEF Held

(* No claim is added and nothing becomes unsafe. *)
LEMMA KeptStays ==
    ASSUME TypeOK, ManifestIInv, KeptInv, failed' = failed,
           kept' \subseteq Contents' \cup lost',
           Safe \subseteq Safe', Claims' \subseteq Claims \cup Safe'
    PROVE  KeptInv'
<1>. DEFINE U == Claims \ Safe
<1>1. U' \subseteq U /\ U \subseteq Entry
  BY ClaimsTyped
<1>2. Cardinality(U') <= Cardinality(U) /\ Cardinality(U) \in Nat /\ Cardinality(U') \in Nat
  BY <1>1, SmallerEntries, FiniteEntries
<1>3. Cardinality(U) <= failed /\ failed \in Nat
  BY DEF KeptInv, TypeOK, ManifestTypeOK
<1>. QED
  BY <1>2, <1>3 DEF KeptInv

LEMMA ContentsFacts ==
    ASSUME TypeOK, FileInv
    PROVE  /\ Contents \subseteq {cells[i] : i \in 1..Len(cells)}
           /\ count = Len(cells) => Contents = {cells[i] : i \in 1..Len(cells)}
           /\ header \in {"none", "empty"} => Contents = {}
           /\ ~torn => Loadable
  BY DEF TypeOK, FileInv, Contents, Loadable

(* The entries a process appends to the file it enumerates. *)
LEMMA AppendEnumerates ==
    ASSUME TypeOK, FileInv, orphan = {}, NEW p \in Process, Enumerates(p),
           NEW S \in SUBSET Cell, NEW new \in Seq(Cell), S = {new[i] : i \in 1..Len(new)},
           \A i, j \in 1..Len(new) : new[i] = new[j] => i = j,
           S \cap set[p] = {}, AppendEntries(p, new), set'[p] = set[p] \cup S,
           UNCHANGED <<torn, count>>
    PROVE  Enumerates(p)' /\ FileInv' /\ Contents' = Contents
<1>. DEFINE n == Len(cells)
            k == Len(new)
<1>1. /\ n \in Nat /\ k \in Nat /\ n = offset[p] /\ offset'[p] = n + k
      /\ cells' \in Seq(Cell) /\ Len(cells') = n + k /\ header' = header
      /\ \A i \in 1..n : cells'[i] = cells[i]
      /\ \A i \in 1..k : cells'[n + i] = new[i]
  BY Appends DEF TypeOK, Enumerates
<1>2. set[p] = {cells[i] : i \in 1..n} /\ \A i, j \in 1..n : cells[i] = cells[j] => i = j
  BY DEF Enumerates
<1>3. \A i \in 1..n + k : i \in 1..n \/ (i - n \in 1..k /\ i = n + (i - n))
  BY <1>1
<1>4. \A i \in 1..k : n + i \in 1..n + k
  BY <1>1
<1>5. 1..n \subseteq 1..n + k
  BY <1>1
<1>6. \A i \in 1..n + k : \/ i \in 1..n /\ cells'[i] = cells[i] /\ cells'[i] \in set[p]
                          \/ i - n \in 1..k /\ cells'[i] = new[i - n] /\ cells'[i] \in S
  <2>. TAKE i \in 1..n + k
  <2>1. CASE i \in 1..n
    BY <1>1, <1>2, <2>1
  <2>2. CASE i - n \in 1..k /\ i = n + (i - n)
    <3>1. cells'[n + (i - n)] = new[i - n]
      BY <1>1, <2>2
    <3>. QED
      BY <2>2, <3>1
  <2>. QED
    BY <1>3, <2>1, <2>2
<1>7. ASSUME NEW i \in 1..n + k, NEW j \in 1..n + k, cells'[i] = cells'[j]
      PROVE  i = j
  <2>1. CASE i \in 1..n /\ j \in 1..n
    BY <1>1, <1>2, <1>7, <2>1
  <2>2. CASE /\ i - n \in 1..k /\ cells'[i] = new[i - n]
             /\ j - n \in 1..k /\ cells'[j] = new[j - n]
    <3>1. new[i - n] = new[j - n]
      BY <1>7, <2>2
    <3>2. i - n = j - n
      BY <2>2, <3>1
    <3>. QED
      BY <1>1, <3>2
  <2>3. CASE cells'[i] \in S /\ cells'[i] \in set[p]
    BY <2>3
  <2>. QED
    BY <1>6, <1>7, <2>1, <2>2, <2>3
<1>8. set'[p] = {cells'[i] : i \in 1..n + k}
  <2>1. ASSUME NEW x \in set[p]  PROVE \E i \in 1..n + k : x = cells'[i]
    <3>1. PICK i \in 1..n : x = cells[i]
      BY <1>2
    <3>2. i \in 1..n + k /\ cells'[i] = cells[i]
      BY <1>1, <1>5
    <3>. QED
      BY <3>1, <3>2
  <2>2. \A x \in S : \E i \in 1..n + k : x = cells'[i]
    BY <1>1, <1>4
  <2>. QED
    BY <1>6, <2>1, <2>2
<1>9. Enumerates(p)'
  BY <1>1, <1>7, <1>8 DEF Enumerates
<1>10. count \in Nat /\ count <= n
  BY DEF TypeOK, FileInv
<1>11. \A i \in 1..count : cells'[i] = cells[i]
  <2>1. 1..count \subseteq 1..n
    BY <1>1, <1>10
  <2>. QED
    BY <1>1, <2>1
<1>12. Contents' = Contents
  BY <1>11 DEF Contents
<1>13. FileInv'
  BY <1>1, <1>10, <1>11 DEF FileInv, Enumerates
<1>. QED
  BY <1>9, <1>12, <1>13
-----------------------------------------------------------------------------
(* The steps of a process that runs alone. *)
Ready(p) == TypeOK /\ TypeOK' /\ ManifestIInv /\ ApartNow /\ OthersOut(p)

(* A step that leaves the file and what is held as they are. *)
LEMMA QuietStep ==
    ASSUME NEW p \in Process, Ready(p), Keeps(p), PlaceInv(p)',
           UNCHANGED <<header, torn, count, cells, orphan, kept, failed>>,
           lost \subseteq lost', Claims' \subseteq Claims,
           Held \subseteq Held' \cup Contents \cup lost'
    PROVE  ApartNow'
<1>1. Contents' = Contents
  BY DEF Contents
<1>2. FileInv' /\ orphan' = {}
  BY DEF Ready, ApartNow, FileInv
<1>3. Safe \subseteq Safe'
  BY <1>1 DEF Safe
<1>4. KeptInv'
  BY <1>1, <1>3, KeptStays DEF Ready, ApartNow, KeptInv
<1>. QED
  BY <1>2, <1>4, Frame DEF Ready, ApartNow

LEMMA OpenApart ==
    ASSUME NEW p \in Process, Ready(p), Open(p), pc[p] = "out"
    PROVE  ApartNow'
<1>1. Keeps(p)
  BY DEF Keeps, Ready, TypeOK, Open, Goto
<1>2. /\ PlaceInv(p) /\ got' = got
      /\ UNCHANGED <<header, torn, count, cells, orphan, kept, lost, failed>> /\ UNCHANGED manifestVars
  BY DEF Ready, ApartNow, Open, fileVars, manifestVars
<1>3. Contents' = Contents
  BY <1>2 DEF Contents
<1>4. PlaceInv(p)' /\ pc'[p] \in {"create", "truncate"}
  <2>1. CASE header # "none"
    <3>1. pc'[p] = "truncate" /\ set'[p] = Contents /\ offset'[p] = count
      BY <2>1 DEF Open, Goto, Ready, TypeOK
    <3>. QED
      BY <1>2, <1>3, <2>1, <3>1 DEF PlaceInv
  <2>2. CASE header = "none"
    <3>1. pc'[p] = "create" /\ set'[p] = set[p] /\ offset'[p] = offset[p]
      BY <2>2 DEF Open, Goto, Ready, TypeOK
    <3>. QED
      BY <1>2, <2>2, <3>1 DEF PlaceInv
  <2>. QED
    BY <2>1, <2>2
<1>5. Held = {}
  BY <1>2, HeldByOne DEF Ready, ApartNow, PlaceInv
<1>6. Claims' \subseteq Claims
  BY <1>2, ClaimsStay DEF Ready
<1>. QED
  BY <1>1, <1>2, <1>4, <1>5, <1>6, QuietStep

LEMMA CreateApart ==
    ASSUME NEW p \in Process, Ready(p), Create(p)
    PROVE  ApartNow'
<1>1. Keeps(p) /\ pc'[p] = "header"
  BY DEF Keeps, Ready, TypeOK, Create, Goto
<1>2. /\ header' = "empty" /\ torn' /\ count' = 0 /\ cells' = << >> /\ orphan' = {}
      /\ UNCHANGED <<set, offset, got, kept, lost, failed>> /\ UNCHANGED manifestVars
  BY DEF Ready, ApartNow, Create, history, manifestVars
<1>3. header = "none" /\ set[p] = {} /\ offset[p] = 0 /\ got[p] = {} /\ pc[p] = "create"
  BY DEF Ready, ApartNow, PlaceInv, Create
<1>4. Contents = {} /\ Contents' = {}
  <2>1. 1..0 = {}
    OBVIOUS
  <2>2. Contents' = {}
    BY <1>2, <2>1 DEF Contents
  <2>. QED
    BY <1>3, <2>2, ContentsFacts DEF Ready, ApartNow
<1>5. FileInv'
  <2>1. Len(cells') = 0 /\ 1..0 = {}
    BY <1>2
  <2>. QED
    BY <1>2, <2>1 DEF FileInv
<1>6. PlaceInv(p)'
  BY <1>1, <1>2, <1>3 DEF PlaceInv
<1>7. Held = {}
  BY <1>3, HeldByOne DEF Ready, ApartNow
<1>8. KeptInv'
  <2>1. Safe \subseteq Safe'
    BY <1>2, <1>4, <1>7 DEF Safe
  <2>2. kept' \subseteq Contents' \cup lost'
    BY <1>2, <1>4 DEF Ready, ApartNow, KeptInv
  <2>3. Claims' \subseteq Claims
    BY <1>2, ClaimsStay DEF Ready
  <2>. QED
    BY <1>2, <2>1, <2>2, <2>3, KeptStays DEF Ready, ApartNow
<1>. QED
  BY <1>1, <1>2, <1>5, <1>6, <1>8, Frame DEF Ready, ApartNow

LEMMA HeaderApart ==
    ASSUME NEW p \in Process, Ready(p), WriteHeader(p)
    PROVE  ApartNow'
<1>1. Keeps(p) /\ pc'[p] \in {"ask", "local"}
  BY DEF Keeps, Ready, TypeOK, WriteHeader, Dispatch, Goto
<1>2. /\ header' = "ok" /\ count' = 0 /\ cells' = cells /\ orphan' = {}
      /\ UNCHANGED <<set, offset, got, kept, lost, failed>> /\ UNCHANGED manifestVars
  BY DEF Ready, ApartNow, WriteHeader, history, manifestVars
<1>3. ~torn'
  BY DEF Ready, ApartNow, WriteHeader
<1>4. /\ header = "empty" /\ set[p] = {} /\ offset[p] = 0 /\ got[p] = {} /\ pc[p] = "header"
      /\ cells = << >> /\ count = 0
  BY DEF Ready, ApartNow, PlaceInv, WriteHeader, TypeOK
<1>5. Len(cells') = 0 /\ 1..0 = {}
  BY <1>2, <1>4
<1>6. Contents' = Contents
  BY <1>2, <1>4 DEF Contents
<1>7. FileInv'
  BY <1>2, <1>3, <1>5 DEF FileInv
<1>8. Enumerates(p)'
  <2>1. {cells'[i] : i \in 1..Len(cells')} = {}
    BY <1>5
  <2>. QED
    BY <1>2, <1>4, <1>5, <2>1 DEF Enumerates
<1>9. PlaceInv(p)'
  BY <1>1, <1>2, <1>4, <1>5, <1>8 DEF PlaceInv
<1>10. Held = {}
  BY <1>4, HeldByOne DEF Ready, ApartNow
<1>11. KeptInv'
  <2>1. Safe \subseteq Safe'
    BY <1>2, <1>6, <1>10 DEF Safe
  <2>2. kept' \subseteq Contents' \cup lost'
    BY <1>2, <1>6 DEF Ready, ApartNow, KeptInv
  <2>3. Claims' \subseteq Claims
    BY <1>2, ClaimsStay DEF Ready
  <2>. QED
    BY <1>2, <2>1, <2>2, <2>3, KeptStays DEF Ready, ApartNow
<1>. QED
  BY <1>1, <1>2, <1>7, <1>9, <1>11, Frame DEF Ready, ApartNow

LEMMA TruncateApart ==
    ASSUME NEW p \in Process, Ready(p), Truncate(p)
    PROVE  ApartNow'
<1>1. Keeps(p) /\ pc'[p] \in {"ask", "local"}
  BY DEF Keeps, Ready, TypeOK, Truncate, Dispatch, Goto
<1>2. /\ orphan' = {} /\ UNCHANGED <<torn, count, set, offset, got, kept, lost, failed>>
      /\ UNCHANGED manifestVars
  BY DEF Ready, ApartNow, Truncate, history, manifestVars
<1>3. /\ header # "none" /\ set[p] = Contents /\ offset[p] = count /\ got[p] = {} /\ pc[p] = "truncate"
      /\ count \in Nat /\ Len(cells) \in Nat /\ count <= Len(cells)
      /\ \A i, j \in 1..count : cells[i] = cells[j] => i = j
  BY DEF Ready, ApartNow, PlaceInv, FileInv, Truncate, TypeOK
<1>4. Len(cells') = count /\ \A i \in 1..count : cells'[i] = cells[i]
  <2>1. cells' = [i \in 1..count |-> IF i <= Len(cells) THEN cells[i] ELSE Zero]
    BY <1>3 DEF Truncate
  <2>. QED
    BY <1>3, <2>1
<1>5. Contents' = Contents
  BY <1>2, <1>4 DEF Contents
<1>6. FileInv' /\ header' \in {"zero", "ok"}
  <2>1. header' = IF header = "empty" THEN "zero" ELSE header
    BY DEF Truncate, Extend
  <2>2. header' \in {"zero", "ok"} /\ (torn => header' = "zero") /\ (~torn => header' = "ok")
    BY <1>3, <2>1 DEF Ready, ApartNow, FileInv, TypeOK
  <2>3. IF torn' THEN header' \in {"empty", "zero"} ELSE header' \in {"none", "ok"}
    BY <1>2, <2>2
  <2>. QED
    BY <1>2, <1>3, <1>4, <2>2, <2>3 DEF FileInv
<1>7. Enumerates(p)'
  BY <1>2, <1>3, <1>4, <1>6 DEF Enumerates, Contents
<1>8. PlaceInv(p)'
  BY <1>1, <1>2, <1>3, <1>4, <1>7 DEF PlaceInv
<1>9. Held = {}
  BY <1>3, HeldByOne DEF Ready, ApartNow
<1>10. KeptInv'
  <2>1. Safe \subseteq Safe'
    BY <1>2, <1>5, <1>9 DEF Safe
  <2>2. kept' \subseteq Contents' \cup lost'
    BY <1>2, <1>5 DEF Ready, ApartNow, KeptInv
  <2>3. Claims' \subseteq Claims
    BY <1>2, ClaimsStay DEF Ready
  <2>. QED
    BY <1>2, <2>1, <2>2, <2>3, KeptStays DEF Ready, ApartNow
<1>. QED
  BY <1>1, <1>2, <1>6, <1>8, <1>10, Frame DEF Ready, ApartNow

(* The manifest is asked for, read, or closed. *)
LEMMA LockApart ==
    ASSUME NEW p \in Process, Ready(p), AskLock(p) \/ LoadManifest(p) \/ CloseManifest(p)
    PROVE  ApartNow'
<1>1. /\ Keeps(p) /\ pc'[p] \in {"wait", "work", "close"}
      /\ pc[p] \in {"ask", "wait", "work"} /\ got[p] = {}
  BY DEF Keeps, Ready, ApartNow, PlaceInv, TypeOK, AskLock, LoadManifest, CloseManifest, Goto,
         dbVars, fileVars
<1>2. UNCHANGED <<header, torn, count, cells, orphan, set, offset, got, kept, lost, failed>>
  BY DEF AskLock, LoadManifest, CloseManifest, Ask, Load, Release, dbVars, fileVars, history
<1>3. Enumerates(p) /\ count = Len(cells)
  BY <1>1 DEF Ready, ApartNow, PlaceInv
<1>4. PlaceInv(p)'
  BY <1>1, <1>2, <1>3 DEF PlaceInv, Enumerates
<1>5. Held = {}
  BY <1>1, HeldByOne DEF Ready, ApartNow
<1>6. Claims' \subseteq Claims
  BY ClaimsStay DEF Ready, AskLock, LoadManifest, CloseManifest
<1>. QED
  BY <1>1, <1>2, <1>4, <1>5, <1>6, QuietStep
-----------------------------------------------------------------------------
(* A version is hashed, and its mark is written or fails.                  *)
LEMMA IndexApart ==
    ASSUME NEW p \in Process, Ready(p), NEW e \in Entry, Index(p, e)
    PROVE  ApartNow'
<1>1. /\ pc[p] = "work" /\ pc' = pc /\ got' = [got EXCEPT ![p] = @ \cup {e}]
      /\ UNCHANGED <<header, torn, count, cells, orphan, set, offset, kept, lost>>
  BY DEF Index, dbVars, fileVars, history
<1>2. Keeps(p) /\ got'[p] = got[p] \cup {e}
  BY <1>1 DEF Keeps, Ready, TypeOK
<1>3. PlaceInv(p)' /\ FileInv' /\ Contents' = Contents
  BY <1>1 DEF Ready, ApartNow, PlaceInv, FileInv, Enumerates, Contents
<1>4. Held' = Held \cup {e}
  <2>1. Held = got[p]
    BY <1>1, HeldByOne DEF Ready, ApartNow
  <2>2. Held' = got'[p]
    BY <1>1, <1>2, HeldByOneNext DEF Ready, ApartNow
  <2>. QED
    BY <1>2, <2>1, <2>2
<1>5. Safe' = Safe \cup {e}
  BY <1>1, <1>3, <1>4 DEF Safe
<1>6. kept' \subseteq Contents' \cup lost'
  BY <1>1, <1>3 DEF Ready, ApartNow, KeptInv
<1>7. KeptInv'
  <2>1. CASE Mark(p, e)
    <3>1. Claims' \subseteq Claims \cup Safe' /\ failed' = failed
      BY <1>5, <2>1, MarkClaims DEF Ready
    <3>. QED
      BY <1>5, <1>6, <3>1, KeptStays DEF Ready, ApartNow
  <2>2. CASE MarkFails(p, e)
    <3>. DEFINE U == Claims \ Safe
    <3>1. failed' = failed + 1
      BY <2>2, MarkFailsClaims DEF Ready
    <3>2. PICK line : Claims' \subseteq Claims \cup {line}
      BY <2>2, MarkFailsClaims DEF Ready
    <3>3. U \subseteq Entry /\ Claims' \subseteq Entry
      BY <2>2, ClaimsTyped, MarkFailsClaims DEF Ready
    <3>4. U' \subseteq U \cup {line} /\ U' \subseteq Entry
      BY <1>5, <3>2, <3>3
    <3>5. Cardinality(U) <= failed /\ failed \in Nat
      BY DEF Ready, ApartNow, KeptInv, TypeOK, ManifestTypeOK
    <3>6. Cardinality(U) \in Nat /\ Cardinality(U') \in Nat
      BY <3>3, <3>4, FiniteEntries
    <3>7. Cardinality(U') <= Cardinality(U) + 1
      <4>. HIDE DEF U
      <4>. QED
        BY <3>3, <3>4, OneEntryMore
    <3>8. Cardinality(U') <= failed'
      BY <3>1, <3>5, <3>6, <3>7
    <3>. QED
      BY <1>6, <3>8 DEF KeptInv
  <2>. QED
    BY <2>1, <2>2 DEF Index
<1>. QED
  BY <1>1, <1>2, <1>3, <1>7, Frame DEF Ready, ApartNow

LEMMA MarkOnlyApart ==
    ASSUME NEW p \in Process, Ready(p), NEW e \in Entry, MarkOnly(p, e)
    PROVE  ApartNow'
<1>1. /\ pc' = pc /\ UNCHANGED <<header, torn, count, cells, orphan, set, offset, got, kept, lost>>
  BY DEF MarkOnly, dbVars, fileVars, history
<1>2. Keeps(p) /\ PlaceInv(p)' /\ Held' = Held
  BY <1>1 DEF Keeps, Ready, ApartNow, PlaceInv, Enumerates, Contents, Held
<1>3. Claims' \subseteq Claims /\ failed' = failed
  <2>1. e \in Claims
    BY DEF MarkOnly, Known, Claims
  <2>. QED
    BY <2>1, MarkClaims DEF MarkOnly, Ready
<1>. QED
  BY <1>1, <1>2, <1>3, QuietStep

LEMMA AddLocalApart ==
    ASSUME NEW p \in Process, Ready(p), NEW e \in Entry, AddLocal(p, e)
    PROVE  ApartNow'
<1>1. /\ pc[p] = "local" /\ e \notin set[p] /\ AppendEntries(p, <<e>>)
      /\ set' = [set EXCEPT ![p] = @ \cup {e}]
      /\ UNCHANGED <<torn, count, orphan, pc, got, kept, lost, failed>> /\ UNCHANGED manifestVars
  BY DEF AddLocal, history, manifestVars
<1>2. Enumerates(p) /\ got[p] = {} /\ e \in Cell
  BY <1>1 DEF Ready, ApartNow, PlaceInv, Cell
<1>3. Enumerates(p)' /\ FileInv' /\ Contents' = Contents
  <2>. DEFINE new == <<e>>
  <2>1. /\ new \in Seq(Cell) /\ {e} = {new[i] : i \in 1..Len(new)}
        /\ \A i, j \in 1..Len(new) : new[i] = new[j] => i = j
    BY <1>2
  <2>2. set'[p] = set[p] \cup {e} /\ {e} \cap set[p] = {} /\ {e} \in SUBSET Cell
    BY <1>1, <1>2 DEF Ready, TypeOK
  <2>. HIDE DEF new
  <2>3. AppendEntries(p, new)
    BY <1>1 DEF new
  <2>. QED
    BY <1>1, <1>2, <2>1, <2>2, <2>3, AppendEnumerates DEF Ready, ApartNow
<1>4. Keeps(p)
  <2>1. \A q \in Process \ {p} : offset'[q] = offset[q]
    BY <1>1 DEF AppendEntries, Ready, TypeOK
  <2>. QED
    BY <1>1, <2>1 DEF Keeps, Ready, TypeOK
<1>5. PlaceInv(p)'
  BY <1>1, <1>2, <1>3 DEF PlaceInv
<1>6. Held = {}
  BY <1>1, <1>2, HeldByOne DEF Ready, ApartNow
<1>7. KeptInv'
  <2>1. Safe \subseteq Safe' /\ kept' \subseteq Contents' \cup lost'
    BY <1>1, <1>3, <1>6 DEF Safe, Ready, ApartNow, KeptInv
  <2>2. Claims' \subseteq Claims
    BY <1>1, ClaimsStay DEF Ready
  <2>. QED
    BY <1>1, <2>1, <2>2, KeptStays DEF Ready, ApartNow
<1>. QED
  BY <1>1, <1>3, <1>4, <1>5, <1>7, Frame DEF Ready, ApartNow

LEMMA MergeWriteApart ==
    ASSUME NEW p \in Process, Ready(p), MergeWrite(p)
    PROVE  ApartNow'
<1>. DEFINE S == got[p] \ set[p]
<1>1. /\ pc[p] = "work" /\ set' = [set EXCEPT ![p] = @ \cup got[p]]
      /\ got' = [got EXCEPT ![p] = {}]
      /\ UNCHANGED <<torn, count, orphan, kept, lost, failed>> /\ UNCHANGED manifestVars
  BY DEF MergeWrite, history, manifestVars
<1>2. PICK new \in SetToSeqs(S) :
             /\ AppendEntries(p, new)
             /\ Goto(p, IF new = << >> THEN "work" ELSE "count")
  BY DEF MergeWrite
<1>3. Enumerates(p) /\ count = Len(cells) /\ S \in SUBSET Cell
  BY <1>1 DEF Ready, ApartNow, PlaceInv, Cell, TypeOK
<1>4. /\ new \in Seq(S) /\ Len(new) = Cardinality(S) /\ Len(new) \in Nat
      /\ \A i, j \in 1..Len(new) : new[i] = new[j] => i = j
      /\ S = {new[i] : i \in 1..Len(new)}
      /\ new = << >> => S = {}
  BY <1>2, <1>3, Orders
<1>5. set'[p] = set[p] \cup S /\ S \cap set[p] = {} /\ got'[p] = {}
  BY <1>1 DEF Ready, TypeOK
<1>6. new \in Seq(Cell)
  BY <1>3, <1>4
<1>7. Enumerates(p)' /\ FileInv' /\ Contents' = Contents
  <2>. HIDE DEF S
  <2>. QED
    BY <1>1, <1>2, <1>3, <1>4, <1>5, <1>6, AppendEnumerates DEF Ready, ApartNow
<1>8. Keeps(p) /\ pc'[p] = IF new = << >> THEN "work" ELSE "count"
  <2>1. \A q \in Process \ {p} : offset'[q] = offset[q]
    BY <1>2 DEF AppendEntries, Ready, TypeOK
  <2>. QED
    BY <1>1, <1>2, <2>1 DEF Keeps, Ready, TypeOK, Goto
<1>9. PlaceInv(p)'
  <2>1. CASE new = << >>
    <3>1. Len(cells') = Len(cells)
      <4>1. Len(new) = 0 /\ p \notin orphan
        BY <2>1 DEF Ready, ApartNow
      <4>2. cells' = cells
        BY <1>2, <2>1 DEF AppendEntries
      <4>. QED
        BY <4>2
    <3>. QED
      BY <1>1, <1>3, <1>5, <1>7, <1>8, <2>1, <3>1 DEF PlaceInv
  <2>2. CASE new # << >>
    BY <1>5, <1>7, <1>8, <2>2 DEF PlaceInv
  <2>. QED
    BY <2>1, <2>2
<1>10. Held = got[p]
  BY <1>1, HeldByOne DEF Ready, ApartNow
<1>11. Held' = IF new = << >> THEN {} ELSE set[p] \cup S
  BY <1>5, <1>8, HeldByOneNext DEF Ready, ApartNow
<1>12. Contents = set[p]
  BY <1>3, ContentsFacts DEF Ready, ApartNow, Enumerates
<1>13. KeptInv'
  <2>1. got[p] \subseteq Contents' \cup Held'
    <3>1. got[p] \subseteq set[p] \cup S
      OBVIOUS
    <3>. QED
      BY <1>4, <1>7, <1>11, <1>12, <3>1
  <2>2. Safe \subseteq Safe' /\ kept' \subseteq Contents' \cup lost'
    BY <1>1, <1>7, <1>10, <2>1 DEF Safe, Ready, ApartNow, KeptInv
  <2>3. Claims' \subseteq Claims
    BY <1>1, ClaimsStay DEF Ready
  <2>. QED
    BY <1>1, <2>2, <2>3, KeptStays DEF Ready, ApartNow
<1>. QED
  BY <1>1, <1>7, <1>8, <1>9, <1>13, Frame DEF Ready, ApartNow

(* The count covers the whole file. *)
LEMMA WholeFile ==
    ASSUME IF torn' THEN header' \in {"empty", "zero"} ELSE header' = "ok",
           count' = Len(cells'), Len(cells') \in Nat,
           \A i, j \in 1..Len(cells') : cells'[i] = cells'[j] => i = j
    PROVE  FileInv'
<1>1. \A i, j \in 1..count' : cells'[i] = cells'[j] => i = j
  OBVIOUS
<1>2. count' <= Len(cells')
  OBVIOUS
<1>. QED
  BY <1>1, <1>2 DEF FileInv

LEMMA MergeCountApart ==
    ASSUME NEW p \in Process, Ready(p), MergeCount(p)
    PROVE  ApartNow'
<1>1. /\ pc[p] = "count" /\ pc' = [pc EXCEPT ![p] = "work"]
      /\ count' = Cardinality(set[p])
      /\ UNCHANGED <<torn, cells, orphan, set, offset, got, kept, lost, failed>>
      /\ UNCHANGED manifestVars
  BY DEF MergeCount, WriteCount, Goto, history, manifestVars, Ready, ApartNow
<1>2. Enumerates(p) /\ got[p] = {}
  BY <1>1 DEF Ready, ApartNow, PlaceInv
<1>20. header' = header
  <2>1. p \notin orphan /\ header # "empty"
    BY <1>2 DEF Ready, ApartNow, Enumerates
  <2>. QED
    BY <2>1 DEF MergeCount, WriteCount, Extend
<1>21. IF torn' THEN header' \in {"empty", "zero"} ELSE header' = "ok"
  BY <1>1, <1>2, <1>20 DEF Ready, ApartNow, FileInv, Enumerates
<1>3. count' = Len(cells)
  BY <1>1, <1>2, CountOf DEF Enumerates, Ready, TypeOK
<1>4. Contents' = set[p]
  BY <1>1, <1>2, <1>3 DEF Contents, Enumerates
<1>5. Contents \subseteq set[p]
  BY <1>2, ContentsFacts DEF Ready, ApartNow, Enumerates
<1>6. Keeps(p) /\ pc'[p] = "work"
  BY <1>1 DEF Keeps, Ready, TypeOK
<1>7. Len(cells) \in Nat
  BY DEF Ready, TypeOK
<1>8. FileInv' /\ PlaceInv(p)'
  <2>1. Enumerates(p)'
    BY <1>1, <1>2, <1>20 DEF Enumerates
  <2>2. FileInv'
    <3>1. cells' = cells
      BY <1>1
    <3>2. \A i, j \in 1..Len(cells) : cells[i] = cells[j] => i = j
      BY <1>2 DEF Enumerates
    <3>. QED
      BY <1>3, <1>7, <1>21, <3>1, <3>2, WholeFile
  <2>. QED
    BY <1>1, <1>2, <1>3, <1>6, <2>1, <2>2 DEF PlaceInv
<1>9. Held = set[p]
  BY <1>1, <1>2, HeldByOne DEF Ready, ApartNow
<1>10. KeptInv'
  <2>1. Safe \subseteq Safe' /\ kept' \subseteq Contents' \cup lost'
    BY <1>1, <1>4, <1>5, <1>9 DEF Safe, Ready, ApartNow, KeptInv
  <2>2. Claims' \subseteq Claims
    BY <1>1, ClaimsStay DEF Ready
  <2>. QED
    BY <1>1, <2>1, <2>2, KeptStays DEF Ready, ApartNow
<1>. QED
  BY <1>1, <1>6, <1>8, <1>10, Frame DEF Ready, ApartNow

LEMMA CloseApart ==
    ASSUME NEW p \in Process, Ready(p), CloseDB(p)
    PROVE  ApartNow'
<1>1. /\ pc[p] \in {"close", "local"} /\ Forget(p) /\ count' = Cardinality(set[p])
      /\ kept' \subseteq kept \cup set[p]
      /\ UNCHANGED <<torn, cells, orphan, lost, failed>> /\ UNCHANGED manifestVars
  BY DEF CloseDB, WriteCount, manifestVars, Ready, ApartNow
<1>2. Enumerates(p) /\ got[p] = {}
  BY <1>1 DEF Ready, ApartNow, PlaceInv
<1>20. header' = header
  <2>1. p \notin orphan /\ header # "empty"
    BY <1>2 DEF Ready, ApartNow, Enumerates
  <2>. QED
    BY <2>1 DEF CloseDB, WriteCount, Extend
<1>21. IF torn' THEN header' \in {"empty", "zero"} ELSE header' = "ok"
  BY <1>1, <1>2, <1>20 DEF Ready, ApartNow, FileInv, Enumerates
<1>3. count' = Len(cells) /\ Len(cells) \in Nat
  BY <1>1, <1>2, CountOf DEF Enumerates, Ready, TypeOK
<1>4. Contents' = set[p]
  BY <1>1, <1>2, <1>3 DEF Contents, Enumerates
<1>5. Contents \subseteq set[p]
  BY <1>2, ContentsFacts DEF Ready, ApartNow, Enumerates
<1>6. Keeps(p) /\ pc'[p] = "out" /\ set'[p] = {} /\ offset'[p] = 0 /\ got'[p] = {}
  BY <1>1 DEF Keeps, Forget, Goto, Ready, TypeOK
<1>7. FileInv' /\ PlaceInv(p)'
  <2>1. FileInv'
    <3>1. cells' = cells
      BY <1>1
    <3>2. \A i, j \in 1..Len(cells) : cells[i] = cells[j] => i = j
      BY <1>2 DEF Enumerates
    <3>. QED
      BY <1>3, <1>21, <3>1, <3>2, WholeFile
  <2>2. PlaceInv(p)'
    BY <1>6 DEF PlaceInv
  <2>. QED
    BY <2>1, <2>2
<1>8. Held = {}
  BY <1>1, <1>2, HeldByOne DEF Ready, ApartNow
<1>9. KeptInv'
  <2>1. Safe \subseteq Safe' /\ kept' \subseteq Contents' \cup lost'
    BY <1>1, <1>4, <1>5, <1>8 DEF Safe, Ready, ApartNow, KeptInv
  <2>2. Claims' \subseteq Claims
    BY <1>1, ClaimsStay DEF Ready
  <2>. QED
    BY <1>1, <2>1, <2>2, KeptStays DEF Ready, ApartNow
<1>. QED
  BY <1>1, <1>6, <1>7, <1>9, Frame DEF Ready, ApartNow
-----------------------------------------------------------------------------
LEMMA OpenOutputApart ==
    ASSUME NEW p \in Process, Ready(p), OpenOutput(p), pc[p] = "out"
    PROVE  ApartNow'
<1>1. /\ pc' = [pc EXCEPT ![p] = "merge"] /\ lost \subseteq lost'
      /\ UNCHANGED <<header, torn, count, cells, orphan, offset, got, kept, failed>>
      /\ UNCHANGED manifestVars
  BY DEF OpenOutput, Goto, fileVars, manifestVars
<1>2. Contents' = Contents /\ got[p] = {}
  BY <1>1 DEF Contents, Ready, ApartNow, PlaceInv
<1>3. Contents \subseteq Range(cells)
  <2>1. DOMAIN cells = 1..Len(cells)
    BY DEF Ready, TypeOK
  <2>. QED
    BY <2>1, ContentsFacts DEF Ready, ApartNow, Range
<1>4. Contents \subseteq set'[p] \cup lost'
  BY <1>3 DEF OpenOutput, Ready, TypeOK
<1>5. Keeps(p) /\ pc'[p] = "merge"
  BY <1>1 DEF Keeps, Ready, TypeOK, OpenOutput
<1>6. PlaceInv(p)'
  BY <1>1, <1>2, <1>4, <1>5 DEF PlaceInv
<1>7. Held = {}
  BY <1>2, HeldByOne DEF Ready, ApartNow
<1>8. Claims' \subseteq Claims
  BY <1>1, ClaimsStay DEF Ready
<1>. QED
  BY <1>1, <1>5, <1>6, <1>7, <1>8, QuietStep

LEMMA SaveApart ==
    ASSUME NEW p \in Process, Ready(p), Save(p)
    PROVE  ApartNow'
<1>. DEFINE S == set[p] \cup Input
<1>1. /\ pc[p] = "merge" /\ Forget(p) /\ cells' \in SetToSeqs(S) /\ count' = Cardinality(S)
      /\ header' = "ok" /\ kept' = kept \cup S
      /\ orphan' = {q \in Process : pc[q] \notin {"out", "create", "truncate", "merge"}}
      /\ UNCHANGED <<lost, failed>> /\ UNCHANGED manifestVars
  BY DEF Save, manifestVars
<1>11. ~torn'
  BY DEF Save
<1>2. S \in SUBSET Cell
  BY ProcessesAssumption DEF Ready, TypeOK, Cell
<1>3. orphan' = {}
  BY <1>1 DEF Ready, OthersOut
<1>4. /\ count' = Len(cells') /\ Len(cells') \in Nat /\ S = {cells'[i] : i \in 1..Len(cells')}
      /\ \A i, j \in 1..Len(cells') : cells'[i] = cells'[j] => i = j
  <2>. HIDE DEF S
  <2>. QED
    BY <1>1, <1>2, Orders
<1>5. Contents' = S
  BY <1>4 DEF Contents
<1>6. Keeps(p) /\ pc'[p] = "out" /\ set'[p] = {} /\ offset'[p] = 0 /\ got'[p] = {}
  BY <1>1 DEF Keeps, Forget, Goto, Ready, TypeOK
<1>7. FileInv' /\ PlaceInv(p)'
  <2>1. FileInv'
    <3>. HIDE DEF S
    <3>. QED
      BY <1>1, <1>4, <1>11, WholeFile
  <2>2. PlaceInv(p)'
    BY <1>6 DEF PlaceInv
  <2>. QED
    BY <2>1, <2>2
<1>8. Contents \subseteq S \cup lost /\ got[p] = {}
  BY <1>1 DEF Ready, ApartNow, PlaceInv
<1>9. Held = {}
  BY <1>1, <1>8, HeldByOne DEF Ready, ApartNow
<1>10. KeptInv'
  <2>. HIDE DEF S
  <2>1. Safe \subseteq Safe' /\ kept' \subseteq Contents' \cup lost'
    BY <1>1, <1>5, <1>8, <1>9 DEF Safe, Ready, ApartNow, KeptInv
  <2>2. Claims' \subseteq Claims
    BY <1>1, ClaimsStay DEF Ready
  <2>. QED
    BY <1>1, <2>1, <2>2, KeptStays DEF Ready, ApartNow
<1>. QED
  BY <1>3, <1>6, <1>7, <1>10, Frame DEF Ready, ApartNow

(* A process ends without writing; what it held is lost, if it was killed. *)
LEMMA EndApart ==
    ASSUME NEW p \in Process, Ready(p), MergeFails(p) \/ Kill(p)
    PROVE  ApartNow'
<1>1. /\ Forget(p) /\ UNCHANGED <<header, torn, count, cells, orphan, kept, failed>>
      /\ lost \subseteq lost'
  BY DEF MergeFails, Kill, Release, fileVars, history, manifestVars
<1>2. Keeps(p) /\ pc'[p] = "out" /\ set'[p] = {} /\ offset'[p] = 0 /\ got'[p] = {}
  BY <1>1 DEF Keeps, Forget, Goto, Ready, TypeOK
<1>3. PlaceInv(p)'
  BY <1>2 DEF PlaceInv
<1>4. Claims' \subseteq Claims
  BY ClaimsStay DEF Ready, MergeFails, Kill
<1>5. Held = got[p] \cup (IF pc[p] = "count" THEN set[p] ELSE {})
  BY HeldByOne DEF Ready, ApartNow
<1>6. Held \subseteq Contents \cup lost'
  <2>1. CASE MergeFails(p)
    BY <1>5, <2>1 DEF MergeFails, Ready, ApartNow, PlaceInv
  <2>2. CASE Kill(p)
    <3>1. count <= Len(cells)
      BY DEF Ready, ApartNow, FileInv
    <3>. QED
      BY <1>5, <2>2, <3>1 DEF Kill
  <2>. QED
    BY <2>1, <2>2
<1>. QED
  BY <1>1, <1>2, <1>3, <1>4, <1>6, QuietStep
-----------------------------------------------------------------------------
LEMMA ApartStep ==
    ASSUME TypeOK, TypeOK', ManifestIInv, ApartInv, [Next]_vars
    PROVE  ApartInv'
<1>. SUFFICES ASSUME ~overlapped'  PROVE ApartNow'
  BY DEF ApartInv, ApartNow
<1>1. ~overlapped
  BY DEF Next, Step, vars, history, Open, OpenOutput, Begin, Create, WriteHeader, Truncate, AskLock,
         LoadManifest, Index, MarkOnly, AddLocal, MergeWrite, MergeCount, CloseManifest,
         CloseDB, Save, MergeFails, Kill
<1>2. ApartNow
  BY <1>1 DEF ApartInv, ApartNow
<1>3. CASE UNCHANGED vars
  BY <1>2, <1>3 DEF ApartNow, vars, dbVars, fileVars, history, manifestVars, Alone, FileInv,
     KeptInv, PlaceInv, Enumerates, Contents, Claims, Known, Readable, Safe, Held
<1>4. ASSUME NEW p \in Process, Step(p) \/ Kill(p)  PROVE ApartNow'
  <2>1. CASE Open(p) \/ OpenOutput(p)
    <3>1. \A q \in Process : pc[q] = "out"
      BY <2>1 DEF Open, OpenOutput, Begin
    <3>2. Ready(p)
      BY <1>2, <3>1 DEF Ready, OthersOut
    <3>. QED
      BY <2>1, <3>1, <3>2, OpenApart, OpenOutputApart
  <2>2. ASSUME pc[p] # "out"  PROVE Ready(p)
    BY <1>2, <2>2 DEF Ready, OthersOut, ApartNow, Alone
  <2>3. CASE Create(p) \/ WriteHeader(p) \/ Truncate(p)
    <3>1. pc[p] # "out"
      BY <2>3 DEF Create, WriteHeader, Truncate
    <3>. QED
      BY <2>2, <2>3, <3>1, CreateApart, HeaderApart, TruncateApart
  <2>4. CASE AskLock(p) \/ LoadManifest(p) \/ CloseManifest(p)
    <3>1. pc[p] # "out"
      BY <2>4 DEF AskLock, LoadManifest, CloseManifest
    <3>. QED
      BY <2>2, <2>4, <3>1, LockApart
  <2>5. ASSUME NEW e \in Entry, Index(p, e) \/ MarkOnly(p, e) \/ AddLocal(p, e)
        PROVE  ApartNow'
    <3>1. pc[p] # "out"
      BY <2>5 DEF Index, MarkOnly, AddLocal
    <3>. QED
      BY <2>2, <2>5, <3>1, IndexApart, MarkOnlyApart, AddLocalApart
  <2>6. CASE MergeWrite(p) \/ MergeCount(p) \/ CloseDB(p)
    <3>1. pc[p] # "out"
      BY <2>6 DEF MergeWrite, MergeCount, CloseDB
    <3>. QED
      BY <2>2, <2>6, <3>1, MergeWriteApart, MergeCountApart, CloseApart
  <2>7. CASE Save(p) \/ MergeFails(p) \/ Kill(p)
    <3>1. pc[p] # "out"
      BY <2>7 DEF Save, MergeFails, Kill
    <3>. QED
      BY <2>2, <2>7, <3>1, SaveApart, EndApart
  <2>. QED
    BY <1>4, <2>1, <2>3, <2>4, <2>5, <2>6, <2>7 DEF Step
<1>. QED
  BY <1>3, <1>4 DEF Next

LEMMA InitApart == Init => ApartInv
<1>. SUFFICES ASSUME Init  PROVE ApartNow
  BY DEF ApartInv, ApartNow
<1>1. 1..0 = {} /\ Cardinality({}) = 0 /\ Len(cells) = 0
  BY FS_EmptySet DEF Init
<1>2. Contents = {} /\ Readable = {} /\ Known = {}
  <2>1. Contents = {}
    BY <1>1 DEF Init, Contents
  <2>2. DOMAIN lines = {}
    BY DEF Init, ManifestInit
  <2>3. Readable = {}
    BY <2>2 DEF Readable, Range
  <2>4. Known = {}
    BY DEF Init, ManifestInit, Known
  <2>. QED
    BY <2>1, <2>3, <2>4
<1>3. KeptInv
  <2>1. Claims = {}
    BY <1>2 DEF Claims, Init, ManifestInit
  <2>2. Cardinality(Claims \ Safe) = 0
    <3>1. Claims \ Safe = {}
      BY <2>1
    <3>. QED
      BY <1>1, <3>1
  <2>3. failed = 0 /\ kept = {}
    BY DEF Init, ManifestInit
  <2>. QED
    BY <2>2, <2>3 DEF KeptInv
<1>4. Alone /\ orphan = {} /\ FileInv
  BY <1>1 DEF Init, Alone, FileInv
<1>5. \A p \in Process : PlaceInv(p)
  BY DEF Init, PlaceInv
<1>. QED
  BY <1>3, <1>4, <1>5 DEF ApartNow
-----------------------------------------------------------------------------
(* The inductive invariant of processes on one database: types, the        *)
(* manifest and its lock, and the file while processes do not overlap.     *)
THEOREM ProcessesInvariant == Spec => []ApartIInv
<1>1. Init => ApartIInv
  BY InitTyped, ManifestInitHolds, InitApart DEF Init, ApartIInv
<1>2. ApartIInv /\ [Next]_vars => ApartIInv'
  BY TypeStep, ManifestStep, ApartStep DEF ApartIInv
<1>. QED
  BY <1>1, <1>2, PTL DEF Spec

(* Every variable keeps its type. *)
THEOREM TypeCorrect == Spec => []TypeOK
<1>1. ApartIInv => TypeOK
  BY DEF ApartIInv
<1>. QED
  BY <1>1, ProcessesInvariant, PTL

(* What the lock of the manifest (Load in internal/manifest) guarantees    *)
(* over any number of processes: one line for each recorded entry, but for *)
(* the lines of failed writes.                                             *)
THEOREM OneLineTheorem == Spec => []OneLinePerEntry
<1>1. ApartIInv => OneLinePerEntry
  BY OneLineFollows DEF ApartIInv
<1>. QED
  BY <1>1, ProcessesInvariant, PTL

(* What failed writes of the manifest (MarkIndexed and its siblings) can   *)
(* cost, over all later processes.                                         *)
THEOREM DamageTheorem == Spec => []BoundedDamage
<1>1. ApartIInv => BoundedDamage
  BY DamageFollows DEF ApartIInv
<1>. QED
  BY <1>1, ProcessesInvariant, PTL

(* Sessions of `db index' and `db merge' that do not overlap leave a       *)
(* database that loads and has what they were asked to put there, killed   *)
(* anywhere but between the creation of the file and its header            *)
(* (OpenForWrite in storage.go): such a file is excepted by `torn' from    *)
(* the kill until `db merge' replaces it.                                  *)
THEOREM ApartTheorem == Spec => []ApartIsSafe
<1>1. ApartIInv => ApartIsSafe
  <2>. SUFFICES ASSUME TypeOK, ManifestIInv, ApartNow, ~torn  PROVE ApartIsSafe
    BY DEF ApartIInv, ApartInv, ApartNow, ApartIsSafe
  <2>1. Loadable
    BY ContentsFacts DEF ApartNow
  <2>2. ASSUME \A p \in Process : pc[p] = "out"
        PROVE  Cardinality(recorded \ (Contents \cup lost)) <= failed
    <3>. DEFINE U == Claims \ Safe
                T == recorded \ (Contents \cup lost)
    <3>1. Held = {}
      BY <2>2 DEF Held, ApartNow, PlaceInv
    <3>2. T \subseteq U /\ U \subseteq Entry
      BY <3>1, ClaimsTyped DEF Safe, Claims
    <3>3. Cardinality(T) <= Cardinality(U)
      BY <3>2, SmallerEntries
    <3>4. /\ Cardinality(U) <= failed /\ failed \in Nat
          /\ Cardinality(U) \in Nat /\ Cardinality(T) \in Nat
      BY <3>2, FiniteEntries DEF ApartNow, KeptInv, TypeOK, ManifestTypeOK
    <3>. QED
      BY <3>3, <3>4
  <2>. QED
    BY <2>1, <2>2 DEF ApartIsSafe, ApartNow, KeptInv
<1>. QED
  BY <1>1, ProcessesInvariant, PTL
=============================================================================
