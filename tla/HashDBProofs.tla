---------------------------- MODULE HashDBProofs ----------------------------
(***************************************************************************)
(* Theorems about HashDB, for every finite set of hashes.                  *)
(*                                                                         *)
(* TypeCorrect holds under every fault.  IInv is inductive for a Reliable  *)
(* environment; Durability, NoInvention and FileMatchesMemory follow from  *)
(* it, and the refinement of DurableSet rests on it.                       *)
(***************************************************************************)
EXTENDS HashDB, FiniteSetTheorems, FunctionTheorems, SequenceTheorems, TLAPS

-----------------------------------------------------------------------------
(* Facts about sequences and files *)

(* A subset of the cells is finite, as the hashes are. *)
LEMMA CellFinite ==
    ASSUME NEW S \in SUBSET Cell
    PROVE  IsFiniteSet(S)
<1>1. IsFiniteSet(Cell)
  BY HashAssumption, FS_AddElement DEF Cell
<1>. QED
  BY <1>1, FS_Subset

(* An injective sequence has as many elements as positions. *)
LEMMA InjectiveCardinality ==
    ASSUME NEW S, NEW s \in Seq(S), IsInjective(s)
    PROVE  IsFiniteSet(Range(s)) /\ Cardinality(Range(s)) = Len(s)
<1>1. Len(s) \in Nat /\ DOMAIN s = 1..Len(s) /\ s \in [1..Len(s) -> Range(s)]
  BY DEF Range
<1>2. s \in Bijection(1..Len(s), Range(s))
  BY <1>1 DEF Bijection, Injection, Surjection, Range
<1>3. ExistsBijection(1..Len(s), Range(s))
  BY <1>2 DEF ExistsBijection
<1>. QED
  BY <1>1, <1>3, FS_CountingElements, FS_NatBijection

(* SetToSeqs enumerates a finite set without repetition. *)
LEMMA EnumerationFacts ==
    ASSUME NEW S, IsFiniteSet(S), NEW s \in SetToSeqs(S)
    PROVE  /\ s \in Seq(S)
           /\ Len(s) = Cardinality(S)
           /\ IsInjective(s)
           /\ Range(s) = S
<1>1. Cardinality(S) \in Nat
  BY FS_CardinalityType
<1>2. s \in [1..Cardinality(S) -> S] /\ IsInjective(s)
  BY DEF SetToSeqs, IsInjective
<1>3. s \in Seq(S) /\ Len(s) = Cardinality(S)
  BY <1>1, <1>2, IsASeq
<1>4. s \in Injection(1..Cardinality(S), S)
  BY <1>2 DEF Injection
<1>5. Cardinality(1..Cardinality(S)) = Cardinality(S)
  BY <1>1, FS_Interval
<1>6. s \in Surjection(1..Cardinality(S), S)
  BY <1>4, <1>5, FS_Injection
<1>7. Range(s) = S
  BY <1>2, <1>6 DEF Surjection, Range
<1>. QED
  BY <1>2, <1>3, <1>7

(* A prefix of a sequence, element by element. *)
LEMMA PrefixFacts ==
    ASSUME NEW S, NEW s \in Seq(S), NEW n \in 0..Len(s)
    PROVE  /\ SubSeq(s, 1, n) \in Seq(S)
           /\ Len(SubSeq(s, 1, n)) = n
           /\ \A i \in 1..n : SubSeq(s, 1, n)[i] = s[i]
  BY SubSeqProperties

(* Concatenating disjoint injective sequences. *)
LEMMA ConcatFacts ==
    ASSUME NEW S, NEW s \in Seq(S), NEW t \in Seq(S),
           IsInjective(s), IsInjective(t), Range(s) \cap Range(t) = {}
    PROVE  /\ s \o t \in Seq(S)
           /\ Len(s \o t) = Len(s) + Len(t)
           /\ \A i \in 1..Len(s) : (s \o t)[i] = s[i]
           /\ IsInjective(s \o t)
           /\ Range(s \o t) = Range(s) \cup Range(t)
<1>. DEFINE e == s \o t
            n == Len(s)
            m == Len(t)
<1>1. /\ n \in Nat /\ m \in Nat /\ DOMAIN s = 1..n /\ DOMAIN t = 1..m
  OBVIOUS
<1>2. /\ e \in Seq(S) /\ Len(e) = n + m /\ DOMAIN e = 1..(n + m)
      /\ \A i \in 1..n + m : e[i] = IF i <= n THEN s[i] ELSE t[i - n]
  BY <1>1, ConcatProperties
<1>3. Range(e) = Range(s) \cup Range(t)
  BY RangeConcatenation
<1>. HIDE DEF e, n, m
<1>4. ASSUME NEW i \in 1..n + m
      PROVE  /\ i <= n => i \in 1..n /\ e[i] = s[i] /\ e[i] \in Range(s)
             /\ i > n => i - n \in 1..m /\ e[i] = t[i - n] /\ e[i] \in Range(t)
  <2>1. CASE i <= n
    <3>1. i \in 1..n /\ e[i] = s[i]
      BY <1>1, <1>2, <2>1
    <3>. QED
      BY <1>1, <2>1, <3>1 DEF Range
  <2>2. CASE i > n
    <3>1. i - n \in 1..m /\ e[i] = t[i - n]
      BY <1>1, <1>2, <2>2
    <3>. QED
      BY <1>1, <2>2, <3>1 DEF Range
  <2>. QED
    BY <1>1, <2>1, <2>2
<1>5. ASSUME NEW i \in 1..n + m, NEW j \in 1..n + m, e[i] = e[j]
      PROVE  i = j
  <2>1. CASE i <= n /\ j <= n
    BY <1>1, <1>4, <1>5, <2>1 DEF IsInjective
  <2>2. CASE i > n /\ j > n
    <3>1. i - n = j - n
      BY <1>1, <1>4, <1>5, <2>2 DEF IsInjective
    <3>. QED
      BY <1>1, <3>1
  <2>3. ~(i <= n /\ j > n) /\ ~(i > n /\ j <= n)
    BY <1>4, <1>5
  <2>. QED
    BY <1>1, <2>1, <2>2, <2>3
<1>6. IsInjective(e)
  BY <1>2, <1>5 DEF IsInjective
<1>7. \A i \in 1..n : e[i] = s[i]
  BY <1>1, <1>4
<1>. QED
  BY <1>2, <1>3, <1>6, <1>7 DEF e, n, m

(* Appending an element that is not yet in an injective sequence. *)
LEMMA AppendFacts ==
    ASSUME NEW S, NEW s \in Seq(S), NEW x \in S, IsInjective(s), x \notin Range(s)
    PROVE  /\ Append(s, x) \in Seq(S)
           /\ Len(Append(s, x)) = Len(s) + 1
           /\ \A i \in 1..Len(s) : Append(s, x)[i] = s[i]
           /\ IsInjective(Append(s, x))
           /\ Range(Append(s, x)) = Range(s) \cup {x}
<1>1. << x >> \in Seq(S) /\ Len(<< x >>) = 1
      /\ IsInjective(<< x >>) /\ Range(<< x >>) = {x}
  BY DEF IsInjective, Range
<1>2. Append(s, x) = s \o << x >>
  BY AppendIsConcat
<1>3. Range(s) \cap Range(<< x >>) = {}
  BY <1>1
<1>. DEFINE t == << x >>
<1>. HIDE DEF t
<1>4. t \in Seq(S) /\ IsInjective(t) /\ Range(s) \cap Range(t) = {}
  BY <1>1, <1>3 DEF t
<1>5. /\ s \o t \in Seq(S)
      /\ Len(s \o t) = Len(s) + Len(t)
      /\ \A i \in 1..Len(s) : (s \o t)[i] = s[i]
      /\ IsInjective(s \o t)
      /\ Range(s \o t) = Range(s) \cup Range(t)
  BY <1>4, ConcatFacts
<1>. QED
  BY <1>1, <1>2, <1>5 DEF t

(* The file after an update of one of its parts. *)
LEMMA FileUpdate ==
    ASSUME NEW f \in File, NEW e \in Seq(Cell), NEW n \in Nat, NEW h \in Header
    PROVE  /\ [f EXCEPT !.entries = e]
                = [hdr |-> f.hdr, count |-> f.count, entries |-> e]
           /\ [f EXCEPT !.count = n]
                = [hdr |-> f.hdr, count |-> n, entries |-> f.entries]
           /\ [f EXCEPT !.hdr = h]
                = [hdr |-> h, count |-> f.count, entries |-> f.entries]
<1>1. [f EXCEPT !.entries = e] = [hdr |-> f.hdr, count |-> f.count, entries |-> e]
  BY DEF File
<1>2. [f EXCEPT !.count = n] = [hdr |-> f.hdr, count |-> n, entries |-> f.entries]
  BY DEF File
<1>3. [f EXCEPT !.hdr = h] = [hdr |-> h, count |-> f.count, entries |-> f.entries]
  BY DEF File
<1>. QED
  BY <1>1, <1>2, <1>3
-----------------------------------------------------------------------------
(* Type correctness *)

(* What a power loss leaves is a file, in the bounds SurvivesAs sets. *)
LEMMA PowerLossFile ==
    ASSUME TypeOK, PowerLoss
    PROVE  \E f \in File : SurvivesAs(f) /\ file' = f /\ disk' = f
<1>1. PICK n \in Nat : \E e \in [1..n -> Cell], hdr \in Header,
                           count \in {disk.count, file.count} :
         LET f == [hdr |-> hdr, count |-> count, entries |-> e]
         IN  SurvivesAs(f) /\ file' = f /\ disk' = f
  BY DEF PowerLoss, TypeOK, File
<1>2. PICK e \in [1..n -> Cell], hdr \in Header,
           count \in {disk.count, file.count} :
         LET f == [hdr |-> hdr, count |-> count, entries |-> e]
         IN  SurvivesAs(f) /\ file' = f /\ disk' = f
  BY <1>1
<1>3. e \in Seq(Cell)
  BY <1>2, IsASeq
<1>4. [hdr |-> hdr, count |-> count, entries |-> e] \in File
  BY <1>2, <1>3 DEF TypeOK, File
<1>. QED
  BY <1>2, <1>4

(* A file without a header counts nothing, and no session works on one. *)
HeaderTyped ==
    /\ file.hdr \in {"none", "empty"} => file.count = 0
    /\ pc = "created_file" => file.hdr = "empty"
    /\ pc = "wrote_header" => file.hdr = "ok"
    /\ pc \in OpenPC => file.hdr \in {"zero", "ok"}

TypeInv == TypeOK /\ HeaderTyped

(* The typing invariant holds initially ... *)
LEMMA TypeInit == Init => TypeInv
<1>. SUFFICES ASSUME Init PROVE TypeInv
  OBVIOUS
<1>1. Absent \in File
  BY DEF Absent, File, Header
<1>2. cut \in BOOLEAN
  BY DEF Init
<1>. QED
  BY <1>1, <1>2, ModesAssumption
  DEF Init, TypeInv, HeaderTyped, TypeOK, Absent, OpenPC

(* ... and every step keeps it, whatever the faults. *)
LEMMA TypeStep == TypeInv /\ [Next]_vars => TypeInv'
<1>. SUFFICES ASSUME TypeInv, [Next]_vars PROVE TypeInv'
  OBVIOUS
<1>. USE DEF TypeInv, HeaderTyped, TypeOK, File, Header, OpenPC
<1>1. CASE Create
  <2>1. file' \in File /\ file'.hdr = "empty" /\ file'.count = 0
    BY <1>1 DEF Create
  <2>2. cut' \in BOOLEAN
    BY <1>1 DEF Create
  <2>. QED
    BY <1>1, <2>1, <2>2, ModesAssumption DEF Create
<1>2. CASE WriteHeader
  <2>1. \E h \in {"ok", "empty", "short"} :
           file' = [hdr |-> h, count |-> 0, entries |-> file.entries]
    BY <1>2, FileUpdate DEF WriteHeader
  <2>2. /\ (pc' = "wrote_header" /\ file'.hdr = "ok") \/ pc' = "down"
        /\ cut' \in BOOLEAN
        /\ UNCHANGED <<disk, set, mode, pending, onSynced, acked, added>>
    BY <1>2 DEF WriteHeader
  <2>. QED
    BY <2>1, <2>2
<1>3. CASE SyncHeader
  BY <1>3 DEF SyncHeader
<1>4. CASE OpenExisting
  <2>1. /\ file.hdr = "ok" => file.count <= Len(file.entries)
        /\ file.hdr \in {"empty", "ok"}
        /\ file.count \in 0..Len(file.entries)
    BY <1>4 DEF OpenExisting, Loadable
  <2>. DEFINE e == SubSeq(file.entries, 1, file.count)
              h == IF file.hdr = "empty" THEN "zero" ELSE file.hdr
  <2>2. e \in Seq(Cell) /\ h \in {"zero", "ok"}
    BY <2>1, PrefixFacts
  <2>3. file' = [hdr |-> h, count |-> file.count, entries |-> e]
    BY <1>4 DEF OpenExisting
  <2>. HIDE DEF e, h
  <2>4. set' \subseteq Cell
    BY <1>4, <2>1 DEF OpenExisting, Contents
  <2>. QED
    <3>1. /\ pc' = "idle" /\ mode' \in Modes
          /\ UNCHANGED <<disk, pending, onSynced, acked, added, cut>>
      BY <1>4 DEF OpenExisting
    <3>. QED
      BY <2>1, <2>2, <2>3, <2>4, <3>1, ModesAssumption
<1>5. ASSUME NEW h \in Hash, Add(h) PROVE TypeInv'
  <2>1. Append(file.entries, h) \in Seq(Cell)
    BY DEF Cell
  <2>2. \/ file' = file
        \/ file' = [hdr |-> file.hdr, count |-> file.count,
                    entries |-> Append(file.entries, h)]
    BY <1>5, <2>1, FileUpdate DEF Add
  <2>. QED
    BY <1>5, <2>1, <2>2 DEF Add, Cell
<1>6. ASSUME NEW new \in SUBSET Hash, MergeCollect(new) PROVE TypeInv'
  <2>1. IsFiniteSet(new)
    BY HashAssumption, FS_Subset
  <2>2. pending' \in SetToSeqs(new) => pending' \in Seq(Hash)
    BY <2>1, EnumerationFacts
  <2>. QED
    BY <1>6, <2>2 DEF MergeCollect, Cell
<1>7. CASE MergeWrite
  <2>1. PICK n \in 0..Len(pending) :
           file' = [file EXCEPT !.entries = file.entries \o SubSeq(pending, 1, n)]
    BY <1>7 DEF MergeWrite
  <2>. DEFINE e == file.entries \o SubSeq(pending, 1, n)
  <2>2. e \in Seq(Cell)
    BY PrefixFacts DEF Cell
  <2>. HIDE DEF e
  <2>3. file' = [hdr |-> file.hdr, count |-> file.count, entries |-> e]
    BY <2>1, <2>2, FileUpdate DEF e
  <2>4. /\ pc = "write" /\ pending' = << >> /\ pc' = "sync_data"
        /\ UNCHANGED <<disk, set, mode, onSynced, acked, added, cut>>
    BY <1>7 DEF MergeWrite
  <2>. QED
    BY <2>2, <2>3, <2>4
<1>8. CASE MergeSyncData
  BY <1>8 DEF MergeSyncData, Sync
<1>9. CASE FlushBegin
  BY <1>9 DEF FlushBegin
<1>10. CASE CloseBegin
  BY <1>10 DEF CloseBegin
<1>11. CASE WriteCount
  <2>1. Cardinality(set) \in Nat
    BY CellFinite, FS_CardinalityType
  <2>2. \/ file' = file
        \/ file' = [hdr |-> file.hdr, count |-> Cardinality(set), entries |-> file.entries]
    BY <1>11, <2>1, FileUpdate DEF WriteCount
  <2>3. /\ pc = "count" /\ pc' = "sync_count"
        /\ UNCHANGED <<disk, set, mode, pending, onSynced, acked, added, cut>>
    BY <1>11 DEF WriteCount
  <2>. QED
    BY <2>1, <2>2, <2>3
<1>12. CASE SyncCount
  BY <1>12 DEF SyncCount, Sync
<1>13. CASE Kill
  <2>1. PICK n \in 0..Len(pending) :
           file' = [file EXCEPT !.entries = file.entries \o SubSeq(pending, 1, n)]
    BY <1>13 DEF Kill
  <2>. DEFINE e == file.entries \o SubSeq(pending, 1, n)
  <2>2. e \in Seq(Cell)
    BY PrefixFacts DEF Cell
  <2>. HIDE DEF e
  <2>3. file' = [hdr |-> file.hdr, count |-> file.count, entries |-> e]
    BY <2>1, <2>2, FileUpdate DEF e
  <2>4. Die /\ disk' = disk /\ cut' \in BOOLEAN
    BY <1>13 DEF Kill
  <2>. QED
    BY <2>2, <2>3, <2>4 DEF Die
<1>14. CASE PowerLoss
  <2>1. PICK f \in File : SurvivesAs(f) /\ file' = f /\ disk' = f
    BY <1>14, PowerLossFile
  <2>2. f.hdr \in {"none", "empty"} => f.count = 0
    BY <2>1 DEF SurvivesAs
  <2>3. Die /\ cut' \in BOOLEAN
    BY <1>14 DEF PowerLoss
  <2>. QED
    BY <2>1, <2>2, <2>3 DEF Die
<1>15. CASE UNCHANGED vars
  BY <1>15 DEF vars
<1>. QED
  BY <1>1, <1>2, <1>3, <1>4, <1>5, <1>6, <1>7, <1>8, <1>9, <1>10, <1>11,
     <1>12, <1>13, <1>14, <1>15 DEF Next

(* Every reachable state is well typed, whatever the environment does. *)
THEOREM TypeCorrect == Spec => []TypeOK
<1>. QED
  BY TypeInit, TypeStep, PTL DEF Spec, TypeInv
-----------------------------------------------------------------------------
(* The inductive invariant of a reliable environment *)

(* Two disjoint injective sequences have as many elements as positions. *)
LEMMA EntriesCount ==
    ASSUME NEW e \in Seq(Cell), NEW p \in Seq(Cell),
           IsInjective(e), IsInjective(p), Range(e) \cap Range(p) = {}
    PROVE  Len(e) + Len(p) = Cardinality(Range(e) \cup Range(p))
<1>1. /\ IsFiniteSet(Range(e)) /\ Cardinality(Range(e)) = Len(e)
      /\ IsFiniteSet(Range(p)) /\ Cardinality(Range(p)) = Len(p)
  BY InjectiveCardinality
<1>2. Cardinality(Range(e) \cup Range(p))
         = Cardinality(Range(e)) + Cardinality(Range(p)) - Cardinality({})
  BY <1>1, FS_Union
<1>3. Cardinality({}) = 0
  BY FS_EmptySet
<1>. QED
  BY <1>1, <1>2, <1>3

(* Files that agree on the counted entries have the same contents. *)
LEMMA SameContents ==
    ASSUME NEW f, NEW g, g.count = f.count,
           \A i \in 1..f.count : g.entries[i] = f.entries[i]
    PROVE  Contents(g) = Contents(f)
  BY DEF Contents

(* The inductive invariant contains the typing invariant. *)
LEMMA IInvTyped == IInv => TypeInv
  BY DEF IInv, TypeInv, HeaderTyped, HeaderInv, Absent, OpenPC, TypeOK

(* While a database is open it has a header, or 16 zero bytes for one, and *)
(* is not lost.                                                            *)
LEMMA OpenFacts ==
    ASSUME IInv, pc \in OpenPC \cup {"closed"}
    PROVE  ~Lost /\ ~Creating /\ pc # "down" /\ file.hdr \in {"zero", "ok"}
  BY DEF IInv, HeaderInv, Lost, Creating, OpenPC

(* What an open database does leaves its header alone. *)
LEMMA HeaderStep ==
    ASSUME IInv, pc \in OpenPC \cup {"closed"}, pc' \in OpenPC \cup {"closed"},
           file'.hdr = file.hdr,
           (disk' = disk /\ acked' = acked) \/ disk' = file,
           pc' # "write" => pending' = << >>,
           UNCHANGED <<mode, cut>>
    PROVE  HeaderInv'
<1>1. file.hdr \in {"zero", "ok"}
  BY OpenFacts
<1>2. ~Creating /\ ~Creating' /\ pc' # "down"
  BY DEF Creating, OpenPC
<1>3. CASE disk' = disk /\ acked' = acked
  BY <1>1, <1>2, <1>3 DEF IInv, HeaderInv, Creating
<1>4. CASE disk' = file
  BY <1>1, <1>2, <1>4 DEF IInv, HeaderInv, Creating
<1>. QED
  BY <1>3, <1>4

(* The inductive invariant holds of a database that does not exist yet ... *)
LEMMA IInvInit == Init => IInv
<1>. SUFFICES ASSUME Init PROVE IInv
  OBVIOUS
<1>1. TypeOK
  BY TypeInit DEF TypeInv
<1>2. HeaderInv
  BY DEF Init, HeaderInv, Absent, Creating, OpenPC, TypeOK
<1>3. CountInv /\ FileMatchesMemory /\ OpenInv /\ StableInv
  BY DEF Init, CountInv, FileMatchesMemory, OpenInv, StableInv, Absent, OpenPC
<1>4. HistoryInv
  BY DEF Init, HistoryInv, Absent, Contents
<1>. QED
  BY <1>1, <1>2, <1>3, <1>4 DEF IInv

(* Creating a database. *)
LEMMA CreateStep ==
    ASSUME Reliable, IInv, Create \/ WriteHeader \/ SyncHeader
    PROVE  IInv'
<1>1. TypeOK'
  BY IInvTyped, TypeStep DEF TypeInv, Next
<1>2. "create_fail" \notin Faults /\ "sync_fail" \notin Faults
  BY DEF Reliable
<1>3. disk = Absent /\ file.count = 0 /\ file.entries = << >>
  BY DEF Create, WriteHeader, SyncHeader, IInv, HeaderInv, Creating, Absent
<1>4. pending = << >> /\ set = {} /\ acked = {}
  BY <1>3 DEF Create, WriteHeader, SyncHeader, IInv, HeaderInv, Creating, Absent
<1>5. /\ UNCHANGED <<set, pending, acked, added>>
      /\ file'.count = 0 /\ file'.entries = << >> /\ disk'.count = 0
      /\ disk' = Absent \/ disk' = file'
      /\ ~cut'
  <2>1. CASE Create
    BY <1>3, <2>1 DEF Create, Absent
  <2>2. CASE WriteHeader
    <3>1. file' = [hdr |-> "ok", count |-> 0, entries |-> << >>]
      <4>1. file \in File /\ "ok" \in Header /\ "short" \in Header
        BY DEF IInv, TypeOK, Header
      <4>2. [file EXCEPT !.hdr = "ok"]
               = [hdr |-> "ok", count |-> file.count, entries |-> file.entries]
        BY <4>1, FileUpdate DEF File
      <4>. QED
        BY <1>2, <1>3, <2>2, <4>2 DEF WriteHeader
    <3>. QED
      BY <1>2, <1>3, <2>2, <3>1 DEF WriteHeader, Absent, IInv, HeaderInv, Creating
  <2>3. CASE SyncHeader
    BY <1>2, <1>3, <2>3 DEF SyncHeader, IInv, HeaderInv, Creating
  <2>. QED
    BY <2>1, <2>2, <2>3
<1>6. HeaderInv'
  <2>1. CASE Create
    BY <1>3, <1>4, <2>1 DEF Create, HeaderInv, Creating, OpenPC, Absent
  <2>2. CASE WriteHeader
    <3>1. file' = [hdr |-> "ok", count |-> 0, entries |-> << >>]
      <4>1. file \in File /\ "ok" \in Header
        BY DEF IInv, TypeOK, Header
      <4>2. [file EXCEPT !.hdr = "ok"]
               = [hdr |-> "ok", count |-> file.count, entries |-> file.entries]
        BY <4>1, FileUpdate DEF File
      <4>. QED
        BY <1>2, <1>3, <2>2, <4>2 DEF WriteHeader
    <3>. QED
      BY <1>2, <1>3, <1>4, <2>2, <3>1
      DEF WriteHeader, IInv, HeaderInv, Creating, OpenPC, Absent
  <2>3. CASE SyncHeader
    <3>1. file = [hdr |-> "ok", count |-> 0, entries |-> << >>] /\ mode \in Modes
          /\ ~cut
      BY <2>3 DEF SyncHeader, IInv, HeaderInv, Creating
    <3>. QED
      BY <1>2, <1>4, <2>3, <3>1 DEF SyncHeader, HeaderInv, Creating, OpenPC
  <2>. QED
    BY <2>1, <2>2, <2>3
<1>7. CountInv'
  BY <1>5 DEF CountInv
<1>8. Range(<< >>) = {} /\ IsInjective(<< >>) /\ Cardinality({}) = 0
  BY FS_EmptySet DEF Range, IsInjective
<1>9. FileMatchesMemory' /\ OpenInv'
  BY <1>4, <1>5, <1>8 DEF FileMatchesMemory, OpenInv
<1>10. StableInv'
  BY <1>5 DEF StableInv, Absent
<1>11. HistoryInv'
  BY <1>4, <1>5 DEF HistoryInv, Contents
<1>. QED
  BY <1>1, <1>6, <1>7, <1>9, <1>10, <1>11 DEF IInv

(* Opening a database truncates it to its counted entries. *)
LEMMA OpenStep ==
    ASSUME Reliable, IInv, OpenExisting
    PROVE  IInv'
<1>1. TypeOK'
  BY IInvTyped, TypeStep DEF TypeInv, Next
<1>. DEFINE e == SubSeq(file.entries, 1, file.count)
            h == IF file.hdr = "empty" THEN "zero" ELSE file.hdr
<1>2. /\ file.hdr \in {"empty", "ok"} /\ h \in {"zero", "ok"} /\ pending = << >>
      /\ file.count \in 0..Len(file.entries)
      /\ file.entries \in Seq(Cell)
      /\ file.hdr = "empty" <=> cut
  BY DEF OpenExisting, Loadable, IInv, HeaderInv, Creating, TypeOK, File
<1>3. e \in Seq(Cell) /\ Len(e) = file.count
      /\ \A i \in 1..file.count : e[i] = file.entries[i]
  BY <1>2, PrefixFacts
<1>4. file' = [hdr |-> h, count |-> file.count, entries |-> e]
  BY <1>2 DEF OpenExisting
<1>5. /\ set' = Contents(file) /\ pc' = "idle" /\ mode' \in Modes
      /\ UNCHANGED <<disk, pending, onSynced, acked, added, cut>>
  BY DEF OpenExisting
<1>a. h = IF cut THEN "zero" ELSE "ok"
  BY <1>2
<1>. HIDE DEF e, h
<1>6. Contents(file') = Contents(file)
  BY <1>3, <1>4, SameContents
<1>7. HeaderInv'
  <2>1. ~Creating /\ ~Creating' /\ pc = "down"
    BY <1>5 DEF Creating, OpenExisting
  <2>2. CASE cut
    <3>1. file.hdr = "empty" /\ file'.hdr = "zero" /\ disk.hdr \in {"none", "empty"}
      BY <1>2, <1>4, <1>a, <2>2 DEF IInv, HeaderInv
    <3>. QED
      BY <1>2, <1>5, <2>1, <2>2, <3>1 DEF IInv, HeaderInv
  <2>3. CASE ~cut
    <3>1. file.hdr = "ok" /\ file'.hdr = "ok"
      BY <1>2, <1>4, <1>a, <2>3
    <3>. QED
      BY <1>2, <1>5, <2>1, <2>3, <3>1 DEF IInv, HeaderInv
  <2>. QED
    BY <2>2, <2>3 DEF IInv, TypeOK
(* A file that was cut short is opened with nothing in it. *)
<1>b. /\ disk.count <= file.count
      /\ \A i, j \in 1..file.count : file.entries[i] = file.entries[j] => i = j
      /\ "power" \in Faults => /\ file.count <= Len(disk.entries)
                               /\ \A i \in 1..file.count : disk.entries[i] = file.entries[i]
      /\ acked \subseteq Contents(file)
      /\ "power" \in Faults => acked \subseteq Contents(disk)
      /\ Contents(file) \subseteq added
  <2>1. CASE cut
    <3>1. file.count = 0 /\ disk.count = 0 /\ acked = {} /\ Len(disk.entries) \in Nat
      BY <1>2, <2>1 DEF IInv, HeaderInv, Absent, TypeOK, File
    <3>2. Contents(file) = {}
      BY <3>1 DEF Contents
    <3>. QED
      BY <3>1, <3>2
  <2>2. CASE ~cut
    BY <2>2 DEF IInv, CountInv, StableInv, HistoryInv, Lost
  <2>. QED
    BY <2>1, <2>2
<1>8. CountInv'
  BY <1>2, <1>3, <1>4, <1>5, <1>b DEF CountInv
<1>9. Range(e) = Contents(file) /\ IsInjective(e)
  BY <1>3, <1>b DEF Range, Contents, IsInjective
<1>10. Range(<< >>) = {} /\ IsInjective(<< >>) /\ << >> \in Seq(Cell)
  BY DEF Range, IsInjective
<1>11. FileMatchesMemory'
  <2>1. Len(e) + Len(<< >>) = Cardinality(Range(e) \cup Range(<< >>))
    BY <1>3, <1>9, <1>10, EntriesCount
  <2>2. Range(e) \cup Range(<< >>) = set'
    BY <1>5, <1>9, <1>10
  <2>. QED
    BY <1>2, <1>4, <1>5, <2>1, <2>2 DEF FileMatchesMemory
<1>12. OpenInv'
  BY <1>2, <1>4, <1>5, <1>9, <1>10 DEF OpenInv
<1>13. StableInv'
  BY <1>3, <1>4, <1>5, <1>b DEF StableInv
<1>14. HistoryInv'
  BY <1>5, <1>6, <1>b DEF HistoryInv
<1>. QED
  BY <1>1, <1>7, <1>8, <1>11, <1>12, <1>13, <1>14 DEF IInv

(* Add appends the hash it inserts. *)
LEMMA AddStep ==
    ASSUME Reliable, IInv, NEW h \in Hash, Add(h)
    PROVE  IInv'
<1>1. TypeOK'
  BY IInvTyped, TypeStep DEF TypeInv, Next
<1>. DEFINE e == Append(file.entries, h)
<1>2. "short_write" \notin Faults /\ "power" \notin Faults
  BY DEF Reliable, Add, IInv, HeaderInv
<1>3. /\ file \in File /\ file.entries \in Seq(Cell) /\ h \in Cell
      /\ file.count \in 0..Len(file.entries)
      /\ pending = << >> /\ pc \in OpenPC \cup {"closed"}
      /\ ~Lost /\ ~Lost'
  BY OpenFacts DEF Add, IInv, TypeOK, File, Cell, CountInv, HeaderInv, OpenPC, Lost
<1>4. /\ pc \in {"idle", "closed"} /\ h \notin set
      /\ set' = set \cup {h} /\ added' = added \cup {h}
      /\ UNCHANGED <<disk, mode, pc, pending, onSynced, acked, cut>>
  BY DEF Add
<1>5. e \in Seq(Cell) /\ Len(e) = Len(file.entries) + 1
      /\ \A i \in 1..Len(file.entries) : e[i] = file.entries[i]
      /\ e[Len(file.entries) + 1] = h
  BY <1>3, AppendProperties
<1>. HIDE DEF e
<1>6. \/ pc = "idle" /\ file' = [hdr |-> file.hdr, count |-> file.count, entries |-> e]
      \/ pc = "closed" /\ file' = file
  <2>1. [file EXCEPT !.entries = e]
           = [hdr |-> file.hdr, count |-> file.count, entries |-> e]
    BY <1>3, <1>5, FileUpdate DEF File
  <2>. QED
    BY <1>2, <1>3, <2>1 DEF Add, e
<1>7. Contents(file') = Contents(file)
  BY <1>3, <1>5, <1>6, SameContents
<1>8. HeaderInv'
  <2>1. file'.hdr = file.hdr
    BY <1>6
  <2>. QED
    BY <1>3, <1>4, <2>1, HeaderStep
<1>9. CountInv'
  <2>1. /\ file'.count = file.count /\ Len(file.entries) <= Len(file'.entries)
        /\ \A i \in 1..file.count : file'.entries[i] = file.entries[i]
    BY <1>3, <1>5, <1>6
  <2>2. Len(file.entries) \in Nat /\ Len(file'.entries) \in Nat
    BY <1>3, <1>5, <1>6
  <2>. QED
    BY <1>3, <1>4, <2>1, <2>2 DEF IInv, CountInv
<1>10. ASSUME pc = "idle"
       PROVE  /\ Range(e) = set \cup {h} /\ IsInjective(e)
              /\ Range(<< >>) = {} /\ IsInjective(<< >>) /\ << >> \in Seq(Cell)
  <2>1. Range(<< >>) = {} /\ IsInjective(<< >>) /\ << >> \in Seq(Cell)
    BY DEF Range, IsInjective
  <2>2. Range(file.entries) = set /\ IsInjective(file.entries)
    BY <1>3, <1>10, <2>1 DEF IInv, FileMatchesMemory, OpenInv, OpenPC
  <2>3. Range(e) = set \cup {h} /\ IsInjective(e)
    BY <1>3, <1>4, <2>2, AppendFacts DEF e
  <2>. QED
    BY <2>1, <2>3
<1>11. FileMatchesMemory'
  <2>1. CASE pc = "idle"
    <3>1. Len(e) + Len(<< >>) = Cardinality(Range(e) \cup Range(<< >>))
      BY <1>5, <1>10, <2>1, EntriesCount
    <3>2. Range(e) \cup Range(<< >>) = set'
      BY <1>4, <1>10, <2>1
    <3>3. file'.entries = e /\ pending' = << >>
      BY <1>3, <1>4, <1>6, <2>1
    <3>. QED
      BY <3>1, <3>2, <3>3 DEF FileMatchesMemory
  <2>. QED
    BY <1>4, <2>1 DEF FileMatchesMemory, OpenPC
<1>12. OpenInv'
  BY <1>3, <1>4, <1>6, <1>10 DEF OpenInv, OpenPC
<1>13. StableInv'
  BY <1>2 DEF StableInv
<1>14. HistoryInv'
  BY <1>2, <1>3, <1>4, <1>7 DEF IInv, HistoryInv
<1>. QED
  BY <1>1, <1>8, <1>9, <1>11, <1>12, <1>13, <1>14 DEF IInv

(* Merge collects hashes the set does not have. *)
LEMMA MergeCollectStep ==
    ASSUME Reliable, IInv, NEW new \in SUBSET Hash, MergeCollect(new)
    PROVE  IInv'
<1>1. TypeOK'
  BY IInvTyped, TypeStep DEF TypeInv, Next
<1>2. /\ pc \in {"idle", "closed"} /\ new \cap set = {}
      /\ set' = set \cup new /\ added' = added \cup new
      /\ UNCHANGED <<file, disk, mode, onSynced, acked, cut>>
      /\ \/ pc = "idle" /\ pending' \in SetToSeqs(new) /\ pc' = "write"
         \/ pc = "closed" /\ UNCHANGED <<pending, pc>>
  BY DEF MergeCollect
<1>a. /\ pc \in OpenPC \cup {"closed"} /\ pc' \in OpenPC \cup {"closed"}
      /\ ~Lost /\ ~Lost'
      /\ pc' # "write" => pending' = << >>
  BY <1>2, OpenFacts DEF OpenPC, Lost, IInv, HeaderInv
<1>3. IsFiniteSet(new)
  BY HashAssumption, FS_Subset
<1>4. ASSUME pc = "idle"
      PROVE  /\ pending' \in Seq(Cell) /\ IsInjective(pending')
             /\ Range(pending') = new
             /\ file.entries \in Seq(Cell) /\ IsInjective(file.entries)
             /\ Range(file.entries) = set
  <2>1. pending' \in SetToSeqs(new)
    BY <1>2, <1>4
  <2>2. pending' \in Seq(new) /\ IsInjective(pending') /\ Range(pending') = new
    BY <1>3, <2>1, EnumerationFacts
  <2>3. pending = << >> /\ Range(<< >>) = {}
    BY <1>4 DEF IInv, HeaderInv, Range
  <2>4. file.entries \in Seq(Cell) /\ IsInjective(file.entries)
        /\ Range(file.entries) = set
    BY <1>4, <2>3 DEF IInv, TypeOK, File, FileMatchesMemory, OpenInv, OpenPC
  <2>. QED
    BY <2>2, <2>4 DEF Cell
<1>5. HeaderInv'
  BY <1>2, <1>a, HeaderStep
<1>6. CountInv'
  BY <1>2, <1>a DEF IInv, CountInv
<1>7. FileMatchesMemory'
  <2>1. CASE pc = "idle"
    <3>1. Len(file.entries) + Len(pending')
             = Cardinality(Range(file.entries) \cup Range(pending'))
      BY <1>2, <1>4, <2>1, EntriesCount
    <3>. QED
      BY <1>2, <1>4, <2>1, <3>1 DEF FileMatchesMemory
  <2>. QED
    BY <1>2, <2>1 DEF FileMatchesMemory, OpenPC
<1>8. OpenInv'
  BY <1>2, <1>4 DEF OpenInv, OpenPC
<1>9. StableInv'
  BY <1>2, <1>a DEF IInv, StableInv, OpenPC
<1>10. HistoryInv'
  BY <1>2, <1>a DEF IInv, HistoryInv
<1>. QED
  BY <1>1, <1>5, <1>6, <1>7, <1>8, <1>9, <1>10 DEF IInv

(* The write of a merge moves the pending entries into the file. *)
LEMMA MergeWriteStep ==
    ASSUME Reliable, IInv, MergeWrite
    PROVE  IInv'
<1>1. TypeOK'
  BY IInvTyped, TypeStep DEF TypeInv, Next
<1>. DEFINE e == file.entries \o pending
<1>2. /\ file \in File /\ file.entries \in Seq(Cell) /\ pending \in Seq(Cell)
      /\ file.count \in 0..Len(file.entries)
      /\ IsInjective(file.entries) /\ IsInjective(pending)
      /\ Range(file.entries) \cap Range(pending) = {}
      /\ Range(file.entries) \cup Range(pending) = set
      /\ ~Lost
  BY OpenFacts DEF MergeWrite, IInv, TypeOK, File, Cell, CountInv, OpenInv,
         FileMatchesMemory, OpenPC
<1>3. /\ pc = "write" /\ pc' = "sync_data" /\ pending' = << >>
      /\ UNCHANGED <<disk, set, mode, onSynced, acked, added, cut>>
  BY DEF MergeWrite
<1>a. pc \in OpenPC \cup {"closed"} /\ pc' \in OpenPC \cup {"closed"} /\ ~Lost'
  BY <1>3 DEF OpenPC, Lost
<1>4. /\ e \in Seq(Cell) /\ Len(e) = Len(file.entries) + Len(pending)
      /\ \A i \in 1..Len(file.entries) : e[i] = file.entries[i]
      /\ IsInjective(e) /\ Range(e) = set
  <2>. DEFINE s == file.entries
              t == pending
  <2>1. /\ s \in Seq(Cell) /\ t \in Seq(Cell) /\ IsInjective(s)
        /\ IsInjective(t) /\ Range(s) \cap Range(t) = {}
    BY <1>2
  <2>. HIDE DEF s, t
  <2>2. /\ s \o t \in Seq(Cell)
        /\ Len(s \o t) = Len(s) + Len(t)
        /\ \A i \in 1..Len(s) : (s \o t)[i] = s[i]
        /\ IsInjective(s \o t)
        /\ Range(s \o t) = Range(s) \cup Range(t)
    BY <2>1, ConcatFacts
  <2>. QED
    BY <1>2, <2>2 DEF s, t
<1>5. file' = [hdr |-> file.hdr, count |-> file.count, entries |-> e]
  <2>1. SubSeq(pending, 1, Len(pending)) = pending
    BY <1>2, SubSeqFull
  <2>2. file' = [file EXCEPT !.entries = e]
    BY <2>1 DEF MergeWrite, Reliable
  <2>. HIDE DEF e
  <2>. QED
    BY <1>2, <1>4, <2>2, FileUpdate DEF File
<1>. HIDE DEF e
<1>8. Range(<< >>) = {} /\ IsInjective(<< >>) /\ << >> \in Seq(Cell)
  BY DEF Range, IsInjective
<1>9. HeaderInv'
  <2>1. file'.hdr = file.hdr
    BY <1>5
  <2>. QED
    BY <1>3, <1>a, <2>1, HeaderStep
<1>10. /\ file'.count = file.count /\ file'.count <= Len(file'.entries)
       /\ \A i \in 1..file.count : file'.entries[i] = file.entries[i]
  <2>1. Len(file.entries) \in Nat /\ Len(pending) \in Nat
    BY <1>2
  <2>. QED
    BY <1>2, <1>4, <1>5, <2>1
<1>11. CountInv'
  BY <1>2, <1>3, <1>10 DEF IInv, CountInv
<1>12. FileMatchesMemory'
  <2>1. Len(e) + Len(<< >>) = Cardinality(Range(e) \cup Range(<< >>))
    BY <1>4, <1>8, EntriesCount
  <2>2. Range(e) \cup Range(<< >>) = set'
    BY <1>3, <1>4, <1>8
  <2>3. file'.entries = e /\ pending' = << >>
    BY <1>3, <1>5
  <2>. QED
    BY <2>1, <2>2, <2>3 DEF FileMatchesMemory
<1>13. OpenInv'
  BY <1>3, <1>4, <1>5, <1>8 DEF OpenInv
<1>14. StableInv'
  BY <1>2, <1>3, <1>10 DEF IInv, StableInv
<1>15. HistoryInv'
  <2>1. Contents(file') = Contents(file)
    BY <1>10, SameContents
  <2>. QED
    BY <1>2, <1>3, <2>1 DEF IInv, HistoryInv
<1>. QED
  BY <1>1, <1>9, <1>11, <1>12, <1>13, <1>14, <1>15 DEF IInv

(* Its first sync makes them permanent. *)
LEMMA MergeSyncStep ==
    ASSUME Reliable, IInv, MergeSyncData
    PROVE  IInv'
<1>1. TypeOK'
  BY IInvTyped, TypeStep DEF TypeInv, Next
<1>2. /\ pc = "sync_data" /\ pc' = "count" /\ disk' = file
      /\ UNCHANGED <<file, set, mode, pending, acked, added, cut>>
  BY DEF MergeSyncData, Sync, Reliable
<1>3. file \in File
  BY DEF IInv, TypeOK
<1>4. /\ pc \in OpenPC \cup {"closed"} /\ pc' \in OpenPC \cup {"closed"}
      /\ ~Lost /\ pending' = << >>
  BY <1>2, OpenFacts DEF OpenPC, IInv, HeaderInv
<1>5. HeaderInv'
  BY <1>2, <1>4, HeaderStep
<1>. QED
  BY <1>1, <1>2, <1>3, <1>4, <1>5
  DEF IInv, CountInv, FileMatchesMemory, OpenInv, StableInv, HistoryInv,
      OpenPC, File

(* Flush and Close begin by doing nothing to the file. *)
LEMMA CloseBeginStep ==
    ASSUME Reliable, IInv, FlushBegin \/ CloseBegin
    PROVE  IInv'
<1>1. TypeOK'
  BY IInvTyped, TypeStep DEF TypeInv, Next
<1>2. /\ pc = "idle" /\ pc' = "count"
      /\ UNCHANGED <<file, disk, set, mode, pending, acked, added, cut>>
  BY DEF FlushBegin, CloseBegin
<1>3. /\ pc \in OpenPC \cup {"closed"} /\ pc' \in OpenPC \cup {"closed"}
      /\ ~Lost /\ pending' = << >>
  BY <1>2, OpenFacts DEF OpenPC, IInv, HeaderInv
<1>4. HeaderInv'
  BY <1>2, <1>3, HeaderStep
<1>. QED
  BY <1>1, <1>2, <1>3, <1>4
  DEF IInv, CountInv, FileMatchesMemory, OpenInv, StableInv, HistoryInv, OpenPC

(* writeCount counts exactly the entries that are in the file. *)
LEMMA WriteCountStep ==
    ASSUME Reliable, IInv, WriteCount
    PROVE  IInv'
<1>1. TypeOK'
  BY IInvTyped, TypeStep DEF TypeInv, Next
<1>. DEFINE n == Len(file.entries)
<1>2. /\ file \in File /\ disk \in File /\ file.entries \in Seq(Cell) /\ n \in Nat
      /\ file.count \in 0..n /\ disk.count <= file.count
      /\ IsInjective(file.entries) /\ DOMAIN file.entries = 1..n
      /\ pending = << >> /\ Len(<< >>) = 0 /\ Range(<< >>) = {}
      /\ ~Lost
  BY OpenFacts
  DEF WriteCount, IInv, TypeOK, File, CountInv, HeaderInv, OpenInv, OpenPC, Range
<1>3. /\ pc = "count" /\ pc' = "sync_count"
      /\ UNCHANGED <<disk, set, mode, pending, onSynced, acked, added, cut>>
      /\ pc \in OpenPC \cup {"closed"} /\ pc' \in OpenPC \cup {"closed"}
  BY DEF WriteCount, OpenPC
<1>4. Cardinality(set) = n /\ Range(file.entries) = set
  <2>1. /\ Len(file.entries) + Len(pending) = Cardinality(set)
        /\ Range(file.entries) \cup Range(pending) = set
    BY <1>3 DEF IInv, FileMatchesMemory, OpenPC
  <2>2. n + 0 = n
    BY <1>2
  <2>. QED
    BY <1>2, <2>1, <2>2
<1>5. file' = [hdr |-> file.hdr, count |-> n, entries |-> file.entries]
  <2>1. file' = [file EXCEPT !.count = Cardinality(set)]
    BY DEF WriteCount, Reliable
  <2>. QED
    BY <1>2, <1>4, <2>1, FileUpdate DEF File
<1>. HIDE DEF n
<1>6. Contents(file') = set
  BY <1>2, <1>4, <1>5 DEF Contents, Range
<1>7. HeaderInv'
  <2>1. file'.hdr = file.hdr
    BY <1>5
  <2>. QED
    BY <1>2, <1>3, <2>1, HeaderStep
<1>8. CountInv'
  <2>1. file'.count = n /\ file'.entries = file.entries /\ Len(file'.entries) = n
    BY <1>5 DEF n
  <2>2. disk'.count <= n
    BY <1>2, <1>3 DEF File
  <2>3. \A i, j \in 1..n : file.entries[i] = file.entries[j] => i = j
    BY <1>2 DEF IsInjective
  <2>. QED
    BY <1>2, <2>1, <2>2, <2>3 DEF CountInv
<1>9. FileMatchesMemory' /\ OpenInv'
  BY <1>3, <1>5 DEF IInv, FileMatchesMemory, OpenInv, OpenPC, n
<1>10. StableInv'
  BY <1>2, <1>3, <1>5 DEF IInv, StableInv, OpenPC, n
<1>11. HistoryInv'
  <2>1. Contents(file) \subseteq set
    BY <1>2, <1>4 DEF Contents, Range
  <2>. QED
    BY <1>2, <1>3, <1>6, <2>1 DEF IInv, HistoryInv
<1>. QED
  BY <1>1, <1>7, <1>8, <1>9, <1>10, <1>11 DEF IInv

(* The sync that follows covers the whole set. *)
LEMMA SyncCountStep ==
    ASSUME Reliable, IInv, SyncCount
    PROVE  IInv'
<1>1. TypeOK'
  BY IInvTyped, TypeStep DEF TypeInv, Next
<1>2. /\ pc = "sync_count" /\ pc' = onSynced /\ onSynced \in {"idle", "closed"}
      /\ disk' = file /\ acked' = acked \cup set
      /\ UNCHANGED <<file, set, mode, pending, onSynced, added, cut>>
  BY DEF SyncCount, Sync, Reliable, IInv, TypeOK
<1>3. /\ file \in File /\ file.count = Len(file.entries)
      /\ DOMAIN file.entries = 1..Len(file.entries)
      /\ pending = << >> /\ Range(<< >>) = {}
      /\ pc \in OpenPC \cup {"closed"} /\ pc' \in OpenPC \cup {"closed"}
      /\ ~Lost
  BY <1>2, OpenFacts DEF IInv, TypeOK, File, OpenInv, OpenPC, HeaderInv, Range
<1>4. set \subseteq Contents(file)
  BY <1>2, <1>3 DEF IInv, FileMatchesMemory, OpenPC, Contents, Range
<1>5. HeaderInv'
  BY <1>2, <1>3, HeaderStep
<1>6. CountInv'
  BY <1>2, <1>3 DEF IInv, CountInv, File
<1>7. FileMatchesMemory' /\ OpenInv'
  BY <1>2, <1>3 DEF IInv, FileMatchesMemory, OpenInv, OpenPC
<1>8. StableInv'
  BY <1>2, <1>3 DEF StableInv, File
<1>9. HistoryInv'
  BY <1>2, <1>3, <1>4 DEF IInv, HistoryInv
<1>. QED
  BY <1>1, <1>5, <1>6, <1>7, <1>8, <1>9 DEF IInv

(* A kill leaves at most some uncounted entries more. *)
LEMMA KillStep ==
    ASSUME Reliable, IInv, Kill
    PROVE  IInv'
<1>1. TypeOK'
  BY IInvTyped, TypeStep DEF TypeInv, Next
<1>2. PICK n \in 0..Len(pending) :
         file' = [file EXCEPT !.entries = file.entries \o SubSeq(pending, 1, n)]
  BY DEF Kill
<1>. DEFINE e == file.entries \o SubSeq(pending, 1, n)
<1>3. /\ pc # "down" /\ disk' = disk
      /\ set' = {} /\ pending' = << >> /\ onSynced' = "idle" /\ pc' = "down"
      /\ cut' = (cut \/ pc = "created_file")
      /\ UNCHANGED <<mode, acked, added>>
      /\ ~Lost
  BY DEF Kill, Die, Lost
<1>4. /\ file \in File /\ file.entries \in Seq(Cell) /\ pending \in Seq(Cell)
      /\ file.count \in 0..Len(file.entries) /\ Len(file.entries) \in Nat
      /\ Len(pending) \in Nat
  BY <1>3 DEF IInv, TypeOK, File, Cell, CountInv
<1>5. /\ e \in Seq(Cell) /\ Len(e) = Len(file.entries) + n
      /\ \A i \in 1..Len(file.entries) : e[i] = file.entries[i]
  <2>1. SubSeq(pending, 1, n) \in Seq(Cell) /\ Len(SubSeq(pending, 1, n)) = n
    BY <1>4, PrefixFacts
  <2>. DEFINE t == SubSeq(pending, 1, n)
              s == file.entries
  <2>2. s \in Seq(Cell) /\ t \in Seq(Cell) /\ Len(t) = n
    BY <1>4, <2>1
  <2>. HIDE DEF s, t
  <2>3. /\ s \o t \in Seq(Cell) /\ Len(s \o t) = Len(s) + n
        /\ \A i \in 1..Len(s) + Len(t) :
              (s \o t)[i] = IF i <= Len(s) THEN s[i] ELSE t[i - Len(s)]
    BY <2>2, ConcatProperties
  <2>4. \A i \in 1..Len(s) : (s \o t)[i] = s[i]
    BY <2>2, <2>3
  <2>. QED
    BY <2>3, <2>4 DEF s, t
<1>. HIDE DEF e
<1>6. file' = [hdr |-> file.hdr, count |-> file.count, entries |-> e]
  BY <1>2, <1>4, <1>5, FileUpdate DEF e, File
<1>7. /\ file'.count = file.count /\ file'.hdr = file.hdr
      /\ file'.count <= Len(file'.entries)
      /\ \A i \in 1..file.count : file'.entries[i] = file.entries[i]
  BY <1>4, <1>5, <1>6
<1>8. HeaderInv'
  <2>1. CASE Creating
    <3>1. n = 0 /\ pending = << >> /\ file.entries = << >>
      BY <1>4, <2>1 DEF IInv, HeaderInv, Creating
    <3>2. e = << >>
      BY <1>4, <1>5, <3>1
    <3>. QED
      <4>1. /\ file' = [hdr |-> file.hdr, count |-> 0, entries |-> << >>]
            /\ disk' = Absent /\ ~cut
        <5>1. file.count = 0 /\ disk = Absent /\ ~cut
          BY <2>1 DEF IInv, HeaderInv, Creating
        <5>2. file' = [hdr |-> file.hdr, count |-> 0, entries |-> << >>]
          BY <1>6, <3>2, <5>1
        <5>3. disk' = Absent
          BY <1>3, <5>1
        <5>. QED
          BY <5>1, <5>2, <5>3
      <4>2. \/ pc = "created_file" /\ file.hdr = "empty"
            \/ pc = "wrote_header" /\ file.hdr = "ok"
        BY <2>1 DEF IInv, HeaderInv, Creating
      <4>3. acked' = {} /\ mode' \in Modes
        <5>1. acked = {} /\ mode \in Modes
          BY <2>1 DEF IInv, HeaderInv, Creating, Absent
        <5>. QED
          BY <1>3, <5>1
      <4>4. ~Creating' /\ pc' = "down" /\ set' = {} /\ pending' = << >>
        BY <1>3 DEF Creating
      <4>5. CASE pc = "created_file" /\ file.hdr = "empty"
        <5>1. cut'
          BY <1>3, <4>5
        <5>2. file' = [hdr |-> "empty", count |-> 0, entries |-> << >>]
          BY <4>1, <4>5
        <5>. QED
          BY <4>1, <4>3, <4>4, <5>1, <5>2 DEF HeaderInv, OpenPC, Absent
      <4>6. CASE pc = "wrote_header" /\ file.hdr = "ok"
        <5>1. ~cut'
          BY <1>3, <4>1, <4>6
        <5>2. file' = [hdr |-> "ok", count |-> 0, entries |-> << >>]
          BY <4>1, <4>6
        <5>. QED
          BY <4>1, <4>3, <4>4, <5>1, <5>2 DEF HeaderInv, OpenPC, Absent
      <4>. QED
        BY <4>2, <4>5, <4>6
  <2>2. CASE ~Creating
    <3>1. pc \in OpenPC \cup {"closed"}
      BY <1>3, <2>2 DEF IInv, TypeOK, Creating, OpenPC
    <3>2. file.hdr \in {"zero", "ok"} /\ cut' = cut /\ ~Creating'
      BY <1>3, <2>2, <3>1, OpenFacts DEF Creating, IInv, TypeOK
    <3>. QED
      BY <1>3, <1>7, <2>2, <3>2 DEF IInv, HeaderInv, OpenPC
  <2>. QED
    BY <2>1, <2>2
<1>9. CountInv'
  BY <1>4, <1>3, <1>7 DEF IInv, CountInv
<1>10. FileMatchesMemory' /\ OpenInv'
  BY <1>3 DEF FileMatchesMemory, OpenInv, OpenPC
<1>11. StableInv'
  BY <1>3, <1>7 DEF IInv, StableInv, OpenPC
<1>12. HistoryInv'
  <2>1. Contents(file') = Contents(file)
    BY <1>7, SameContents
  <2>. QED
    BY <1>3, <2>1 DEF IInv, HistoryInv
<1>. QED
  BY <1>1, <1>8, <1>9, <1>10, <1>11, <1>12 DEF IInv

(* The header a power loss leaves: the one on the disk, the one in the     *)
(* file, or, while the two differ, none that counts.                       *)
LEMMA PowerLossHeader ==
    ASSUME IInv, NEW f \in File, SurvivesAs(f)
    PROVE  /\ f.hdr \in {disk.hdr, file.hdr, "empty", "zero"}
           /\ f.hdr \in {"none", "empty"} => f.count = 0 /\ f.entries = << >>
           /\ f.hdr \in {"none", "empty"} => acked = {}
           /\ f.hdr = "ok" => file.hdr = "ok" /\ ~cut
           /\ ~cut /\ disk.hdr # "none" => f.hdr = "ok" /\ disk.hdr = "ok"
           /\ cut => f.hdr \in {"none", "empty", "zero"}
<1>1. /\ f.hdr \in {disk.hdr, file.hdr, "empty", "zero"}
      /\ disk.hdr = file.hdr => f.hdr = file.hdr
      /\ f.hdr \in {"none", "empty"} => f.count = 0 /\ f.entries = << >>
  BY DEF SurvivesAs
<1>2. f.hdr \in {"none", "empty"} => acked = {}
  BY <1>1 DEF IInv, HeaderInv
<1>3. ~Creating /\ ~cut => file.hdr \in {"none", "ok"}
  BY DEF IInv, HeaderInv
<1>4. Creating => disk.hdr = "none" /\ ~cut
  BY DEF IInv, HeaderInv, Absent
<1>5. cut => file.hdr \in {"none", "empty", "zero"}
  BY DEF IInv, HeaderInv
<1>6. disk.hdr \in {"none", "empty", file.hdr} /\ (~cut => disk.hdr \in {"none", file.hdr})
  BY DEF IInv, HeaderInv
<1>. QED
  BY <1>1, <1>2, <1>3, <1>4, <1>5, <1>6

(* A power loss keeps every counted entry, whatever else it does. *)
LEMMA PowerLossKeeps ==
    ASSUME IInv, "power" \in Faults, ~Lost,
           NEW f \in File, SurvivesAs(f), f.hdr = "ok", f.count \in {disk.count, file.count}
    PROVE  /\ f.count <= file.count /\ file.count <= Len(f.entries)
           /\ \A i \in 1..file.count :
                 f.entries[i] = file.entries[i] /\ disk.entries[i] = file.entries[i]
           /\ Contents(f) = Contents(file) \/ Contents(f) = Contents(disk)
           /\ Contents(f) \subseteq Contents(file)
<1>1. /\ disk.count <= file.count
      /\ file.count <= Len(file.entries) /\ file.count <= Len(disk.entries)
      /\ \A i \in 1..file.count : disk.entries[i] = file.entries[i]
  BY DEF IInv, CountInv, StableInv
<1>2. /\ file.count \in Nat /\ disk.count \in Nat /\ f.count \in Nat
      /\ Len(file.entries) \in Nat /\ Len(disk.entries) \in Nat
      /\ Len(f.entries) \in Nat
  BY DEF File, IInv, TypeOK
<1>3. f.count <= file.count /\ file.count <= Len(f.entries)
  <2>1. Len(f.entries) >= Len(disk.entries) \/ Len(f.entries) >= Len(file.entries)
    BY DEF SurvivesAs
  <2>. QED
    BY <1>1, <1>2, <2>1
<1>4. ASSUME NEW i \in 1..file.count PROVE f.entries[i] = file.entries[i]
  <2>1. i \in 1..Len(f.entries) /\ i <= Len(disk.entries)
    BY <1>1, <1>2, <1>3
  <2>2. \/ f.entries[i] = file.entries[i]
        \/ f.entries[i] = disk.entries[i]
    BY <1>2, <2>1 DEF SurvivesAs
  <2>. QED
    BY <1>1, <2>2
<1>5. \A i \in 1..f.count : i \in 1..file.count
  BY <1>2, <1>3
<1>6. Contents(f) = Contents(file) \/ Contents(f) = Contents(disk)
  <2>1. CASE f.count = file.count
    BY <1>4, <2>1, SameContents
  <2>2. CASE f.count = disk.count
    <3>1. \A i \in 1..disk.count : f.entries[i] = disk.entries[i]
      BY <1>1, <1>4, <1>5, <2>2
    <3>. QED
      BY <2>2, <3>1, SameContents
  <2>. QED
    BY <2>1, <2>2
<1>7. Contents(f) \subseteq Contents(file)
  BY <1>4, <1>5 DEF Contents
<1>. QED
  BY <1>1, <1>3, <1>4, <1>6, <1>7

(* A power loss keeps the invariant: what is left is a whole database, an *)
(* empty one that was never synced, or a file without a header.            *)
LEMMA PowerLossStep ==
    ASSUME Reliable, IInv, PowerLoss
    PROVE  IInv'
<1>1. TypeOK'
  BY IInvTyped, TypeStep DEF TypeInv, Next
<1>2. PICK f \in File : SurvivesAs(f) /\ file' = f /\ disk' = f
  BY PowerLossFile DEF IInv
<1>3. /\ "power" \in Faults
      /\ set' = {} /\ pending' = << >> /\ onSynced' = "idle" /\ pc' = "down"
      /\ cut' = (cut \/ (disk.hdr = "none" /\ f.hdr \in {"empty", "zero"}))
      /\ UNCHANGED <<mode, acked, added>>
  BY <1>2 DEF PowerLoss, Die
<1>4. /\ f.hdr \in {disk.hdr, file.hdr, "empty", "zero"}
      /\ f.hdr \in {"none", "empty"} => f.count = 0 /\ f.entries = << >>
      /\ f.hdr \in {"none", "empty"} => acked = {}
      /\ f.hdr = "ok" => file.hdr = "ok" /\ ~cut
      /\ ~cut /\ disk.hdr # "none" => f.hdr = "ok" /\ disk.hdr = "ok"
      /\ cut => f.hdr \in {"none", "empty", "zero"}
  BY <1>2, PowerLossHeader
<1>5. f.hdr = "none" => f = Absent
  BY <1>4 DEF File, Absent
<1>6. ~cut' => f.hdr \in {"none", "ok"}
  <2>1. CASE cut
    BY <1>3, <2>1
  <2>2. CASE ~cut /\ disk.hdr # "none"
    BY <1>4, <2>2
  <2>3. CASE ~cut /\ disk.hdr = "none"
    <3>1. f.hdr \in {"none", "ok", "empty", "zero"}
      BY <1>4, <2>3 DEF IInv, HeaderInv, Creating
    <3>. QED
      BY <1>3, <2>3, <3>1
  <2>. QED
    BY <2>1, <2>2, <2>3
<1>7. cut' => f.hdr \in {"none", "empty", "zero"}
  BY <1>3, <1>4
<1>8. HeaderInv'
  <2>1. mode' \in Modes
    BY <1>3 DEF IInv, HeaderInv
  <2>. QED
    BY <1>2, <1>3, <1>4, <1>5, <1>6, <1>7, <2>1 DEF HeaderInv, Creating, OpenPC
<1>9. FileMatchesMemory' /\ OpenInv'
  BY <1>3 DEF FileMatchesMemory, OpenInv, OpenPC
<1>10. CASE Lost'
  BY <1>1, <1>8, <1>9, <1>10 DEF IInv, CountInv, StableInv, HistoryInv
<1>11. CASE ~Lost' /\ f.hdr = "none"
  <2>1. Contents(f) = {} /\ f.count = 0 /\ f.entries = << >> /\ acked = {}
    BY <1>4, <1>11 DEF Contents
  <2>2. CountInv' /\ StableInv' /\ HistoryInv'
    BY <1>2, <1>3, <2>1 DEF CountInv, StableInv, HistoryInv, OpenPC
  <2>. QED
    BY <1>1, <1>8, <1>9, <2>2 DEF IInv
<1>12. CASE ~Lost' /\ f.hdr = "ok"
  <2>1. ~Lost /\ f.count \in {disk.count, file.count}
    BY <1>2, <1>4, <1>12 DEF Lost, SurvivesAs
  <2>2. /\ f.count <= file.count /\ file.count <= Len(f.entries)
        /\ \A i \in 1..file.count :
              f.entries[i] = file.entries[i] /\ disk.entries[i] = file.entries[i]
        /\ Contents(f) = Contents(file) \/ Contents(f) = Contents(disk)
        /\ Contents(f) \subseteq Contents(file)
    BY <1>2, <1>3, <1>12, <2>1, PowerLossKeeps
  <2>3. f.count \in Nat /\ file.count \in Nat /\ Len(f.entries) \in Nat
    BY DEF File, IInv, TypeOK
  <2>4. f.count <= Len(f.entries) /\ \A i \in 1..f.count : i \in 1..file.count
    BY <2>2, <2>3
  <2>5. CountInv'
    BY <1>2, <2>1, <2>2, <2>3, <2>4 DEF IInv, CountInv
  <2>6. StableInv'
    BY <1>2, <1>3, <2>4 DEF StableInv, OpenPC
  <2>7. HistoryInv'
    BY <1>2, <1>3, <2>1, <2>2 DEF IInv, HistoryInv
  <2>. QED
    BY <1>1, <1>8, <1>9, <2>5, <2>6, <2>7 DEF IInv
<1>. QED
  BY <1>3, <1>6, <1>10, <1>11, <1>12 DEF Lost

(* ... and every step keeps it: the step lemmas above, put together. *)
LEMMA IInvStep == Reliable /\ IInv /\ [Next]_vars => IInv'
<1>. SUFFICES ASSUME Reliable, IInv, [Next]_vars PROVE IInv'
  OBVIOUS
<1>1. CASE Create \/ WriteHeader \/ SyncHeader
  BY <1>1, CreateStep
<1>2. CASE OpenExisting
  BY <1>2, OpenStep
<1>3. ASSUME NEW h \in Hash, Add(h) PROVE IInv'
  BY <1>3, AddStep
<1>4. ASSUME NEW new \in SUBSET Hash, MergeCollect(new) PROVE IInv'
  BY <1>4, MergeCollectStep
<1>5. CASE MergeWrite
  BY <1>5, MergeWriteStep
<1>6. CASE MergeSyncData
  BY <1>6, MergeSyncStep
<1>7. CASE FlushBegin \/ CloseBegin
  BY <1>7, CloseBeginStep
<1>8. CASE WriteCount
  BY <1>8, WriteCountStep
<1>9. CASE SyncCount
  BY <1>9, SyncCountStep
<1>10. CASE Kill
  BY <1>10, KillStep
<1>11. CASE PowerLoss
  BY <1>11, PowerLossStep
<1>12. CASE UNCHANGED vars
  BY <1>12
  DEF vars, IInv, TypeOK, HeaderInv, CountInv, FileMatchesMemory, OpenInv,
      StableInv, HistoryInv, Contents, Creating, OpenPC, Lost
<1>. QED
  BY <1>1, <1>2, <1>3, <1>4, <1>5, <1>6, <1>7, <1>8, <1>9, <1>10, <1>11, <1>12
  DEF Next

(* In a reliable environment the invariant holds in every reachable state. *)
THEOREM Invariant == ASSUME Reliable PROVE Spec => []IInv
<1>1. IInv /\ [Next]_vars => IInv'
  BY IInvStep
<1>. QED
  BY <1>1, IInvInit, PTL DEF Spec

(* Whatever Merge, Flush or Close has returned for is read by every later  *)
(* open, through kills in every state and, for sessions that merge, power  *)
(* losses in every state; except from a file whose creation was cut short  *)
(* (`cut'), which OpenForWrite accepts and no later open does.             *)
THEOREM DurabilityTheorem == ASSUME Reliable PROVE Spec => []Durability
<1>1. IInv => Durability
  <2>. SUFFICES ASSUME IInv, ~cut PROVE Loadable(file) /\ acked \subseteq Contents(file)
    BY DEF Durability
  <2>1. file.hdr \in {"none", "empty", "ok"}
    BY DEF IInv, HeaderInv, Creating
  <2>2. file.count <= Len(file.entries) /\ acked \subseteq Contents(file)
    BY DEF IInv, CountInv, HistoryInv, Lost
  <2>. QED
    BY <2>1, <2>2 DEF Loadable
<1>. QED
  BY <1>1, Invariant, PTL

(* While power stays on, the file, the merge and the set hold only what    *)
(* was handed to Add or Merge, whichever writes and syncs fail.            *)
GivenInv == Range(file.entries) \cup Range(pending) \cup set \subseteq added

(* Entries appended to a file are the old ones and the new ones. *)
LEMMA AppendRange ==
    ASSUME TypeOK, NEW n \in 0..Len(pending),
           file' = [file EXCEPT !.entries = file.entries \o SubSeq(pending, 1, n)]
    PROVE  Range(file'.entries) \subseteq Range(file.entries) \cup Range(pending)
<1>. DEFINE t == SubSeq(pending, 1, n)
<1>1. /\ file.entries \in Seq(Cell) /\ t \in Seq(Cell) /\ pending \in Seq(Cell)
      /\ Len(t) = n /\ \A i \in 1..n : t[i] = pending[i]
  BY PrefixFacts DEF TypeOK, File, Cell
<1>2. Range(t) \subseteq Range(pending)
  BY <1>1 DEF Range
<1>3. file'.entries = file.entries \o t
  BY DEF TypeOK, File
<1>. HIDE DEF t
<1>4. Range(file.entries \o t) = Range(file.entries) \cup Range(t)
  BY <1>1, RangeConcatenation
<1>. QED
  BY <1>2, <1>3, <1>4

(* Every step without power loss keeps it. *)
LEMMA GivenStep ==
    ASSUME TypeInv, GivenInv, "power" \notin Faults, [Next]_vars
    PROVE  GivenInv'
<1>1. Range(<< >>) = {}
  BY DEF Range
<1>2. ASSUME UNCHANGED <<pending, added>>, set' = set \/ set' = {},
             file'.entries = file.entries \/ file'.entries = << >>
      PROVE  GivenInv'
  BY <1>1, <1>2 DEF GivenInv
<1>3. CASE Create \/ WriteHeader \/ SyncHeader
  <2>1. /\ UNCHANGED <<pending, added, set>>
        /\ file'.entries = file.entries \/ file'.entries = << >>
    BY <1>3 DEF Create, WriteHeader, SyncHeader, TypeInv, TypeOK, File
  <2>. QED
    BY <1>2, <2>1
<1>4. CASE OpenExisting
  <2>1. /\ set' = Contents(file) /\ UNCHANGED <<pending, added>>
        /\ file'.entries = SubSeq(file.entries, 1, file.count)
        /\ file.count \in 0..Len(file.entries) /\ file.entries \in Seq(Cell)
    BY <1>4 DEF OpenExisting, Loadable, TypeInv, HeaderTyped, TypeOK, File
  <2>2. Contents(file) \subseteq Range(file.entries)
    BY <2>1 DEF Contents, Range
  <2>. DEFINE e == SubSeq(file.entries, 1, file.count)
  <2>3. e \in Seq(Cell) /\ Len(e) = file.count
        /\ \A i \in 1..file.count : e[i] = file.entries[i]
    BY <2>1, PrefixFacts
  <2>4. Range(e) \subseteq Range(file.entries)
    BY <2>1, <2>3 DEF Range
  <2>. QED
    BY <2>1, <2>2, <2>4 DEF GivenInv
<1>5. ASSUME NEW h \in Hash, Add(h) PROVE GivenInv'
  <2>1. /\ set' = set \cup {h} /\ added' = added \cup {h} /\ pending' = pending
        /\ file'.entries = Append(file.entries, h) \/ file' = file
        /\ file.entries \in Seq(Cell) /\ h \in Cell
    BY <1>5 DEF Add, TypeInv, TypeOK, File, Cell
  <2>2. Range(Append(file.entries, h)) = Range(file.entries) \cup {h}
    <3>1. Append(file.entries, h) = file.entries \o << h >> /\ << h >> \in Seq(Cell)
      BY <2>1, AppendIsConcat
    <3>2. Range(file.entries \o << h >>) = Range(file.entries) \cup Range(<< h >>)
      BY <2>1, <3>1, RangeConcatenation
    <3>3. Range(<< h >>) = {h}
      BY DEF Range
    <3>. QED
      BY <3>1, <3>2, <3>3
  <2>. QED
    BY <2>1, <2>2 DEF GivenInv
<1>6. ASSUME NEW new \in SUBSET Hash, MergeCollect(new) PROVE GivenInv'
  <2>1. IsFiniteSet(new)
    BY HashAssumption, FS_Subset
  <2>2. /\ set' = set \cup new /\ added' = added \cup new /\ file' = file
        /\ pending' \in SetToSeqs(new) \/ pending' = pending
    BY <1>6 DEF MergeCollect
  <2>3. pending' \in SetToSeqs(new) => Range(pending') = new
    BY <2>1, EnumerationFacts
  <2>. QED
    BY <2>2, <2>3 DEF GivenInv
<1>7. CASE MergeWrite
  <2>1. PICK n \in 0..Len(pending) :
           file' = [file EXCEPT !.entries = file.entries \o SubSeq(pending, 1, n)]
    BY <1>7 DEF MergeWrite
  <2>2. Range(file'.entries) \subseteq Range(file.entries) \cup Range(pending)
    BY <2>1, AppendRange DEF TypeInv
  <2>3. pending' = << >> /\ UNCHANGED <<set, added>>
    BY <1>7 DEF MergeWrite
  <2>. QED
    BY <1>1, <2>2, <2>3 DEF GivenInv
<1>8. CASE MergeSyncData \/ FlushBegin \/ CloseBegin \/ SyncCount \/ UNCHANGED vars
  <2>1. UNCHANGED <<pending, added, set, file>>
    BY <1>8 DEF MergeSyncData, FlushBegin, CloseBegin, SyncCount, vars
  <2>. QED
    BY <1>2, <2>1
<1>9. CASE WriteCount
  <2>1. UNCHANGED <<pending, added, set>> /\ file'.entries = file.entries
    BY <1>9 DEF WriteCount, TypeInv, TypeOK, File
  <2>. QED
    BY <1>2, <2>1
<1>10. CASE Kill
  <2>1. PICK n \in 0..Len(pending) :
           file' = [file EXCEPT !.entries = file.entries \o SubSeq(pending, 1, n)]
    BY <1>10 DEF Kill
  <2>2. Range(file'.entries) \subseteq Range(file.entries) \cup Range(pending)
    BY <2>1, AppendRange DEF TypeInv
  <2>3. pending' = << >> /\ set' = {} /\ added' = added
    BY <1>10 DEF Kill, Die
  <2>. QED
    BY <1>1, <2>2, <2>3 DEF GivenInv
<1>. QED
  BY <1>3, <1>4, <1>5, <1>6, <1>7, <1>8, <1>9, <1>10 DEF Next, PowerLoss

(* A database that loads yields only hashes that were inserted, over kills *)
(* in every state: whichever writes and syncs fail while power stays on,   *)
(* and with power losses too when sessions merge and writes and syncs      *)
(* work.  (With Add, or after a failed write or sync, a power loss can     *)
(* leave counted entries that were never written, which read as hashes.)   *)
THEOREM NoInventionTheorem ==
    ASSUME Reliable \/ "power" \notin Faults PROVE Spec => []NoInvention
<1>1. CASE Reliable
  <2>1. IInv => NoInvention
    <3>. SUFFICES ASSUME IInv, Loadable(file) PROVE Contents(file) \subseteq added
      BY DEF NoInvention
    <3>1. CASE file.hdr \in {"none", "empty"}
      BY <3>1 DEF IInv, HeaderInv, Absent, Contents
    <3>2. CASE file.hdr = "ok"
      <4>1. ~cut
        BY <3>2 DEF IInv, HeaderInv
      <4>. QED
        BY <4>1 DEF IInv, HistoryInv, Lost
    <3>. QED
      BY <3>1, <3>2 DEF Loadable
  <2>. QED
    BY <1>1, <2>1, Invariant, PTL
<1>2. CASE "power" \notin Faults
  <2>1. Init => GivenInv
    BY DEF Init, GivenInv, Absent, Range
  <2>2. TypeInv /\ GivenInv /\ [Next]_vars => GivenInv'
    BY <1>2, GivenStep
  <2>3. TypeInv /\ GivenInv => NoInvention
    <3>. SUFFICES ASSUME TypeInv, GivenInv, Loadable(file)
                  PROVE  Contents(file) \subseteq added
      BY DEF NoInvention
    <3>1. /\ file.entries \in Seq(Cell)
          /\ file.count \in 0..Len(file.entries)
      BY DEF Loadable, TypeInv, HeaderTyped, TypeOK, File
    <3>2. Contents(file) \subseteq Range(file.entries)
      BY <3>1 DEF Contents, Range
    <3>. QED
      BY <3>2 DEF GivenInv
  <2>. QED
    BY <2>1, <2>2, <2>3, TypeInit, TypeStep, PTL DEF Spec
<1>. QED
  BY <1>1, <1>2

(* While the handle is open every hash of the process is in the file, or   *)
(* about to be, exactly once: len(set), which Close and Merge store as the *)
(* count, is the number of entries (writeCount).                           *)
THEOREM MemoryTheorem == ASSUME Reliable PROVE Spec => []FileMatchesMemory
<1>1. IInv => FileMatchesMemory
  BY DEF IInv
<1>. QED
  BY <1>1, Invariant, PTL
-----------------------------------------------------------------------------
(* HashDB implements DurableSet: headers, counts, truncation and the order *)
(* of writes and syncs amount to a set that is published in one step.      *)

(* In a reachable state files are files, sets are finite, and a file that  *)
(* is being created, was cut short or is not there reads as empty.         *)
LEMMA IInvFacts ==
    ASSUME IInv
    PROVE  /\ file \in File /\ disk \in File
           /\ file.count \in Nat /\ disk.count \in Nat
           /\ file.entries \in Seq(Cell) /\ Len(file.entries) \in Nat
           /\ set \subseteq Cell /\ IsFiniteSet(set)
           /\ ~Lost => file.count <= Len(file.entries)
           /\ Creating \/ pc = "down" => set = {}
           /\ Creating => Contents(file) = {}
           /\ Creating \/ cut \/ disk.hdr = "none" => Readable(disk) = {}
           /\ Creating \/ cut \/ file.hdr = "none" => Readable(file) = {}
<1>1. file \in File /\ disk \in File /\ set \subseteq Cell /\ IsFiniteSet(set)
  BY CellFinite DEF IInv, TypeOK
<1>2. Creating \/ pc = "down" => set = {}
  BY DEF IInv, HeaderInv
<1>3. ~Lost => file.count <= Len(file.entries)
  BY DEF IInv, CountInv
<1>4. Creating => file.count = 0 /\ disk.hdr = "none"
  BY DEF IInv, HeaderInv, Creating, Absent
<1>5. Creating => Contents(file) = {}
  BY <1>4 DEF Contents
<1>6. cut => file.hdr # "ok" /\ disk.hdr # "ok"
  BY DEF IInv, HeaderInv
<1>. QED
  BY <1>1, <1>2, <1>3, <1>4, <1>5, <1>6 DEF File, Readable

(* Entries written behind the counted ones are not contents. *)
LEMMA AppendInvisible ==
    ASSUME IInv, NEW s \in Seq(Cell),
           file' = [file EXCEPT !.entries = @ \o s], ~Lost
    PROVE  Contents(file') = Contents(file) /\ Readable(file') = Readable(file)
<1>1. \A i \in 1..file.count : (file.entries \o s)[i] = file.entries[i]
  BY IInvFacts
<1>2. /\ file'.count = file.count /\ file'.hdr = file.hdr
      /\ file'.entries = file.entries \o s
  BY IInvFacts DEF File
<1>3. Contents(file') = Contents(file)
  BY <1>1, <1>2, SameContents
<1>. QED
  BY <1>2, <1>3 DEF Readable

(* Initially there is no session and nothing in the set. *)
LEMMA RefinementInit == Init => Abs!Init
  BY DEF Init, Abs!Init, Readable, Absent

(* OpenForWrite begins a session ... *)
LEMMA OpenRefines ==
    ASSUME Reliable, IInv, Create \/ WriteHeader \/ SyncHeader \/ OpenExisting
    PROVE  [Abs!Next]_(Abs!vars)
<1>1. CASE Create
  <2>1. /\ pc = "down" /\ pc' = "created_file" /\ file.hdr = "none"
        /\ file'.hdr = "empty" /\ UNCHANGED <<disk, set>>
    BY <1>1 DEF Create
  <2>2. Readable(file') = {} /\ Readable(file) = {} /\ set = {}
    BY <2>1, IInvFacts DEF Readable
  <2>3. Abs!Begin
    BY <2>1, <2>2 DEF Abs!Begin
  <2>. QED
    BY <2>3 DEF Abs!Next
<1>2. CASE WriteHeader
  <2>1. /\ pc = "created_file" /\ pc' = "wrote_header"
        /\ file' = [file EXCEPT !.hdr = "ok"] /\ UNCHANGED <<disk, set>>
    BY <1>2 DEF WriteHeader, Reliable
  <2>2. file'.count = file.count /\ file'.entries = file.entries
    BY <2>1, IInvFacts DEF File
  <2>3. Contents(file') = Contents(file) /\ Contents(file) = {} /\ Readable(file) = {}
    BY <2>1, <2>2, SameContents, IInvFacts DEF Creating
  <2>4. Readable(file') = {}
    BY <2>3 DEF Readable
  <2>. QED
    BY <2>1, <2>3, <2>4 DEF Abs!vars
<1>3. CASE SyncHeader
  <2>1. /\ pc = "wrote_header" /\ pc' = "idle"
        /\ disk' = file /\ UNCHANGED <<file, set>>
    BY <1>3 DEF SyncHeader, Reliable
  <2>2. Abs!Persist
    BY <2>1 DEF Abs!Persist
  <2>. QED
    BY <2>2 DEF Abs!Next
<1>4. CASE OpenExisting
  <2>1. /\ pc = "down" /\ pc' = "idle" /\ set' = Contents(file)
        /\ UNCHANGED <<disk, cut>>
        /\ file.hdr \in {"empty", "ok"}
        /\ file'.hdr = IF file.hdr = "empty" THEN "zero" ELSE file.hdr
        /\ file'.count = file.count
        /\ file'.entries = SubSeq(file.entries, 1, file.count)
    BY <1>4 DEF OpenExisting, Loadable
  <2>2. CASE file.hdr = "empty"
    <3>1. file.count = 0
      BY <2>2 DEF IInv, HeaderInv
    <3>2. Contents(file) = {} /\ Readable(file) = {} /\ Readable(file') = {}
      BY <2>1, <2>2, <3>1 DEF Contents, Readable
    <3>. QED
      BY <2>1, <3>2 DEF Abs!Begin, Abs!Next
  <2>3. CASE file.hdr = "ok"
    <3>1. ~Lost
      BY <2>3 DEF IInv, HeaderInv, Lost
    <3>2. \A i \in 1..file.count :
             SubSeq(file.entries, 1, file.count)[i] = file.entries[i]
      BY <3>1, IInvFacts
    <3>3. Contents(file') = Contents(file)
      BY <2>1, <3>2, SameContents
    <3>4. Readable(file) = Contents(file) /\ Readable(file') = Contents(file)
      BY <2>1, <2>3, <3>3 DEF Readable
    <3>. QED
      BY <2>1, <3>4 DEF Abs!Begin, Abs!Next
  <2>. QED
    BY <2>1, <2>2, <2>3
<1>. QED
  BY <1>1, <1>2, <1>3, <1>4

(* ... insertions are private to it ... *)
LEMMA InsertRefines ==
    ASSUME Reliable, IInv, NEW new \in SUBSET Hash,
           pc # "down", pc' # "down", set' = set \cup new,
           \E s \in Seq(Cell) : file' = [file EXCEPT !.entries = @ \o s],
           UNCHANGED disk
    PROVE  [Abs!Next]_(Abs!vars)
<1>1. Readable(file') = Readable(file)
  BY AppendInvisible DEF Lost
<1>2. new \in SUBSET Cell
  BY DEF Cell
<1>3. Abs!Insert
  BY <1>1, <1>2 DEF Abs!Insert
<1>. QED
  BY <1>3 DEF Abs!Next

(* ... until writeCount publishes them, if the file has a header. *)
LEMMA CountRefines ==
    ASSUME Reliable, IInv, WriteCount
    PROVE  [Abs!Next]_(Abs!vars)
<1>1. /\ pc = "count" /\ pc' = "sync_count"
      /\ file' = [file EXCEPT !.count = Cardinality(set)]
      /\ UNCHANGED <<disk, set>>
  BY DEF WriteCount, Reliable
<1>2. /\ file'.count = Cardinality(set) /\ file'.hdr = file.hdr
      /\ file'.entries = file.entries
  BY <1>1, IInvFacts DEF File
<1>3. pending = << >> /\ Len(pending) = 0 /\ Range(pending) = {}
  BY <1>1 DEF IInv, HeaderInv, Range
<1>4. Len(file.entries) = Cardinality(set) /\ Range(file.entries) = set
  <2>1. /\ Len(file.entries) + Len(pending) = Cardinality(set)
        /\ Range(file.entries) \cup Range(pending) = set
    BY <1>1 DEF IInv, FileMatchesMemory, OpenPC
  <2>2. Len(file.entries) + 0 = Len(file.entries)
    BY IInvFacts
  <2>. QED
    BY <1>3, <2>1, <2>2
<1>5. Contents(file') = set
  BY <1>2, <1>4, IInvFacts DEF Contents, Range
<1>6. CASE file.hdr = "ok"
  BY <1>1, <1>2, <1>5, <1>6 DEF Abs!Publish, Abs!Next, Readable
<1>7. CASE file.hdr # "ok"
  BY <1>1, <1>2, <1>7 DEF Abs!vars, Readable
<1>. QED
  BY <1>6, <1>7

(* A power loss leaves what was published or what was stable. *)
LEMMA PowerLossRefines ==
    ASSUME Reliable, IInv, PowerLoss
    PROVE  Abs!PowerLoss
<1>1. PICK f \in File : SurvivesAs(f) /\ file' = f /\ disk' = f
  BY PowerLossFile DEF IInv
<1>2. "power" \in Faults /\ set' = {} /\ pc' = "down"
  BY DEF PowerLoss, Die
<1>3. /\ f.hdr = "ok" => file.hdr = "ok" /\ ~cut
      /\ ~cut /\ disk.hdr # "none" => f.hdr = "ok" /\ disk.hdr = "ok"
  BY <1>1, PowerLossHeader
<1>4. Readable(f) \in {Readable(file), Readable(disk)}
  <2>1. CASE f.hdr = "ok"
    <3>1. ~Lost /\ f.count \in {disk.count, file.count} /\ file.hdr = "ok"
      BY <1>1, <1>3, <2>1 DEF Lost, SurvivesAs
    <3>2. Contents(f) = Contents(file) \/ Contents(f) = Contents(disk)
      BY <1>1, <1>2, <2>1, <3>1, PowerLossKeeps
    <3>3. CASE disk.hdr = "none"
      <4>1. disk.count = 0
        BY <3>3 DEF IInv, HeaderInv, Absent
      <4>2. Contents(disk) = {}
        BY <4>1 DEF Contents
      <4>. QED
        BY <2>1, <3>1, <3>2, <3>3, <4>2 DEF Readable
    <3>4. CASE disk.hdr # "none"
      BY <1>3, <2>1, <3>1, <3>2, <3>4 DEF Readable
    <3>. QED
      BY <3>3, <3>4
  <2>2. CASE f.hdr # "ok"
    <3>1. cut \/ disk.hdr = "none"
      BY <1>3, <2>2
    <3>. QED
      BY <2>2, <3>1, IInvFacts DEF Readable
  <2>. QED
    BY <2>1, <2>2
<1>. QED
  BY <1>1, <1>2, <1>4 DEF Abs!PowerLoss

(* Every step is a step of the abstract set, or changes none of it. *)
LEMMA RefinementStep ==
    Reliable /\ IInv /\ [Next]_vars => [Abs!Next]_(Abs!vars)
<1>. SUFFICES ASSUME Reliable, IInv, [Next]_vars PROVE [Abs!Next]_(Abs!vars)
  OBVIOUS
<1>0. /\ << >> \in Seq(Cell)
      /\ file = [file EXCEPT !.entries = @ \o << >>]
  BY IInvFacts DEF File
<1>1. CASE Create \/ WriteHeader \/ SyncHeader \/ OpenExisting
  BY <1>1, OpenRefines
<1>2. ASSUME NEW h \in Hash, Add(h) PROVE [Abs!Next]_(Abs!vars)
  <2>1. /\ pc # "down" /\ pc' # "down" /\ set' = set \cup {h}
        /\ UNCHANGED disk
        /\ file' = [file EXCEPT !.entries = Append(@, h)] \/ UNCHANGED file
    BY <1>2 DEF Add
  <2>2. <<h>> \in Seq(Cell) /\ Append(file.entries, h) = file.entries \o <<h>>
    BY IInvFacts DEF Cell
  <2>3. \E s \in Seq(Cell) : file' = [file EXCEPT !.entries = @ \o s]
    BY <1>0, <2>1, <2>2
  <2>. QED
    BY <2>1, <2>3, InsertRefines
<1>3. ASSUME NEW new \in SUBSET Hash, MergeCollect(new)
      PROVE  [Abs!Next]_(Abs!vars)
  <2>1. /\ pc # "down" /\ pc' # "down" /\ set' = set \cup new
        /\ UNCHANGED <<file, disk>>
    BY <1>3 DEF MergeCollect
  <2>. QED
    BY <1>0, <2>1, InsertRefines
<1>4. CASE MergeWrite
  <2>1. PICK n \in 0..Len(pending) :
          file' = [file EXCEPT !.entries = @ \o SubSeq(pending, 1, n)]
    BY <1>4 DEF MergeWrite
  <2>2. pending \in Seq(Cell)
    BY DEF IInv, TypeOK, Cell
  <2>3. SubSeq(pending, 1, n) \in Seq(Cell)
    BY <2>1, <2>2, PrefixFacts
  <2>4. Readable(file') = Readable(file)
    BY <1>4, <2>1, <2>3, AppendInvisible DEF MergeWrite, Lost
  <2>. QED
    BY <1>4, <2>4 DEF MergeWrite, Abs!vars
<1>5. CASE MergeSyncData \/ SyncCount
  <2>1. /\ pc # "down" /\ pc' # "down" /\ disk' = file
        /\ UNCHANGED <<file, set>>
    BY <1>5 DEF MergeSyncData, SyncCount, Sync, Reliable, IInv, TypeOK
  <2>2. Abs!Persist
    BY <2>1 DEF Abs!Persist
  <2>. QED
    BY <2>2 DEF Abs!Next
<1>6. CASE FlushBegin \/ CloseBegin
  BY <1>6 DEF FlushBegin, CloseBegin, Abs!vars
<1>7. CASE WriteCount
  BY <1>7, CountRefines DEF Abs!Next
<1>8. CASE Kill
  <2>1. PICK n \in 0..Len(pending) :
          file' = [file EXCEPT !.entries = @ \o SubSeq(pending, 1, n)]
    BY <1>8 DEF Kill
  <2>2. pending \in Seq(Cell)
    BY DEF IInv, TypeOK, Cell
  <2>3. SubSeq(pending, 1, n) \in Seq(Cell)
    BY <2>1, <2>2, PrefixFacts
  <2>4. Readable(file') = Readable(file)
    BY <1>8, <2>1, <2>3, AppendInvisible DEF Kill, Lost
  <2>5. Abs!Stop
    BY <1>8, <2>4 DEF Kill, Die, Abs!Stop
  <2>. QED
    BY <2>5 DEF Abs!Next
<1>9. CASE PowerLoss
  BY <1>9, PowerLossRefines DEF Abs!Next
<1>10. CASE UNCHANGED vars
  BY <1>10 DEF vars, Readable, Contents, Abs!vars
<1>. QED
  BY <1>1, <1>2, <1>3, <1>4, <1>5, <1>6, <1>7, <1>8, <1>9, <1>10 DEF Next

(* The database of OpenForWrite, Add, Merge, Flush and Close is a durable  *)
(* set: for every set of hashes, through kills in every state and power    *)
(* losses under sessions that merge.  What a session writes into a file    *)
(* whose creation was cut short is never published.                        *)
THEOREM Refinement == ASSUME Reliable PROVE Spec => AbsSpec
<1>1. IInv /\ [Next]_vars => [Abs!Next]_(Abs!vars)
  BY RefinementStep
<1>. QED
  BY <1>1, RefinementInit, Invariant, PTL DEF Spec, AbsSpec, Abs!Spec
-----------------------------------------------------------------------------
(* In the abstract set, what is stable is published, and what is published *)
(* is in the set of a running session.                                     *)
LEMMA AbsInvariant == AbsSpec => []Abs!Inv
<1>1. Abs!Init => Abs!Inv
  BY DEF Abs!Init, Abs!Inv
<1>2. Abs!Inv /\ [Abs!Next]_(Abs!vars) => Abs!Inv'
  BY DEF Abs!Inv, Abs!Next, Abs!vars, Abs!Begin, Abs!Insert, Abs!Publish,
         Abs!Persist, Abs!Stop, Abs!PowerLoss
<1>. QED
  BY <1>1, <1>2, PTL DEF AbsSpec, Abs!Spec

(* What a sync has made stable stays in the database for ever, over all    *)
(* later sessions, kills and power losses.                                 *)
THEOREM StableTheorem == ASSUME Reliable PROVE Spec => Abs!StableGrows
<1>1. Abs!Inv /\ [Abs!Next]_(Abs!vars) =>
        [Readable(disk) \subseteq Readable(disk)']_(Abs!vars)
  BY DEF Abs!Inv, Abs!Next, Abs!vars, Abs!Begin, Abs!Insert, Abs!Publish,
         Abs!Persist, Abs!Stop, Abs!PowerLoss
<1>. QED
  BY <1>1, Refinement, AbsInvariant, PTL DEF AbsSpec, Abs!Spec, Abs!StableGrows
=============================================================================
