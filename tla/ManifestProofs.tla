--------------------------- MODULE ManifestProofs ---------------------------
(***************************************************************************)
(* What the operations of the manifest preserve, for any number of         *)
(* processes, entries and writes that fail half way: one line for each     *)
(* entry, and a bounded damage.  ProcessesProofs puts them together to     *)
(* theorems about the processes that call them.                            *)
(***************************************************************************)
EXTENDS Manifest, FiniteSetTheorems, TLAPS

Torn == IF cut THEN 1 ELSE 0

(* The entries of the whole lines. *)
Saved == {lines[i] : i \in 1..Len(lines) - Torn} \ {Nothing}

(* What some process takes for recorded. *)
Known == UNION {known[p] : p \in Process}

(* Only the holder of the lock knows anything, and it knows what whole     *)
(* lines say.                                                              *)
LockInv ==
    /\ \A p \in Process : handle[p] = "held" <=> holder = p
    /\ \A p \in Process : handle[p] # "held" => known[p] = {}
    /\ \A p \in Process : handle[p] = "held" => Saved \subseteq known[p]

(* A whole line is of a recorded entry, and no two are of the same one but *)
(* for the lines that failed writes left.                                  *)
LinesInv ==
    /\ cut => lines # << >>
    /\ Saved \subseteq recorded
    /\ Len(lines) <= Cardinality(Saved) + failed

(* A failed write can cost two entries: the one its cut line reads as, and *)
(* the one that is glued to it.  It has cost neither yet while its line is *)
(* the last.                                                               *)
LossInv == Cardinality((recorded \cup Known) \ Readable) + 2 * Torn <= 2 * failed

ManifestIInv == ManifestTypeOK /\ LockInv /\ LinesInv /\ LossInv
-----------------------------------------------------------------------------
LEMMA FiniteEntries ==
    ASSUME NEW S \in SUBSET Entry
    PROVE  IsFiniteSet(S) /\ Cardinality(S) \in Nat
  BY ManifestAssumption, FS_Subset, FS_CardinalityType

LEMMA SmallerEntries ==
    ASSUME NEW S \in SUBSET Entry, NEW T \in SUBSET S
    PROVE  Cardinality(T) <= Cardinality(S)
<1>1. IsFiniteSet(S)
  BY FiniteEntries
<1>. QED
  BY <1>1, FS_Subset

(* One entry more at most. *)
LEMMA OneEntryMore ==
    ASSUME NEW S \in SUBSET Entry, NEW T \in SUBSET Entry, NEW x, T \subseteq S \cup {x}
    PROVE  Cardinality(T) <= Cardinality(S) + 1
<1>1. IsFiniteSet(S) /\ Cardinality(S) \in Nat
  BY FiniteEntries
<1>2. IsFiniteSet(S \cup {x}) /\ Cardinality(S \cup {x}) <= Cardinality(S) + 1
  BY <1>1, FS_AddElement
<1>3. Cardinality(T) <= Cardinality(S \cup {x}) /\ Cardinality(T) \in Nat /\ Cardinality(S \cup {x}) \in Nat
  BY <1>2, FS_Subset, FS_CardinalityType
<1>. QED
  BY <1>1, <1>2, <1>3

(* Whole lines and the cut one. *)
LEMMA LineFacts ==
    ASSUME ManifestTypeOK, cut => lines # << >>
    PROVE  /\ Saved \subseteq Entry /\ Readable \subseteq Entry
           /\ Saved \subseteq Readable
           /\ ~cut => Saved = Readable
           /\ cut => Len(lines) \in Nat \ {0} /\ Readable \subseteq Saved \cup {lines[Len(lines)]}
           /\ Known \subseteq Entry
<1>1. lines \in Seq(Line) /\ Len(lines) \in Nat /\ DOMAIN lines = 1..Len(lines)
  BY DEF ManifestTypeOK
<1>2. Readable = {lines[i] : i \in 1..Len(lines)} \ {Nothing}
  BY <1>1 DEF Readable, Range
<1>3. \A i \in 1..Len(lines) : lines[i] \in Entry \cup {Nothing}
  BY <1>1 DEF Line
<1>4. Readable \subseteq Entry
  BY <1>2, <1>3
<1>5. Torn \in {0, 1} /\ (Torn = 1 <=> cut)
  BY DEF Torn
<1>6. Saved \subseteq Readable
  <2>1. 1..Len(lines) - Torn \subseteq 1..Len(lines)
    BY <1>1, <1>5
  <2>. QED
    BY <1>2, <2>1 DEF Saved
<1>7. ~cut => Saved = Readable
  BY <1>1, <1>2, <1>5 DEF Saved
<1>8. ASSUME cut
      PROVE  Len(lines) \in Nat \ {0} /\ Readable \subseteq Saved \cup {lines[Len(lines)]}
  <2>1. Len(lines) # 0
    BY <1>1, <1>8
  <2>2. 1..Len(lines) = (1..Len(lines) - Torn) \cup {Len(lines)}
    BY <1>1, <1>5, <1>8, <2>1
  <2>. QED
    BY <1>1, <1>2, <2>1, <2>2 DEF Saved
<1>9. Known \subseteq Entry
  BY DEF ManifestTypeOK, Known
<1>. QED
  BY <1>4, <1>6, <1>7, <1>8, <1>9

(* A line more, when the last one is whole. *)
LEMMA AppendedWhole ==
    ASSUME ManifestTypeOK, ~cut, NEW line \in Line, lines' = Appended(line)
    PROVE  /\ lines' \in Seq(Line) /\ Len(lines') = Len(lines) + 1
           /\ Readable' = Readable \cup ({line} \ {Nothing})
           /\ cut' = TRUE => Saved' = Saved
           /\ cut' = FALSE => Saved' = Readable'
<1>1. lines \in Seq(Line) /\ Len(lines) \in Nat
  BY DEF ManifestTypeOK
<1>2. lines' = Append(lines, line)
  BY DEF Appended
<1>3. /\ lines' \in Seq(Line) /\ Len(lines') = Len(lines) + 1
      /\ \A i \in 1..Len(lines) : lines'[i] = lines[i]
      /\ lines'[Len(lines) + 1] = line
  BY <1>1, <1>2
<1>4. 1..Len(lines') = (1..Len(lines)) \cup {Len(lines) + 1}
  BY <1>1, <1>3
<1>5. Readable = {lines[i] : i \in 1..Len(lines)} \ {Nothing}
  BY <1>1 DEF Readable, Range
<1>6. Readable' = {lines'[i] : i \in 1..Len(lines')} \ {Nothing}
  BY <1>3 DEF Readable, Range
<1>7. Readable' = Readable \cup ({line} \ {Nothing})
  BY <1>3, <1>4, <1>5, <1>6
<1>8. Saved = Readable
  BY LineFacts
<1>9. ASSUME cut' = TRUE  PROVE Saved' = Saved
  <2>1. Len(lines') - Torn' = Len(lines)
    BY <1>1, <1>3, <1>9 DEF Torn
  <2>2. Saved' = {lines'[i] : i \in 1..Len(lines)} \ {Nothing}
    BY <2>1 DEF Saved
  <2>. QED
    BY <1>3, <1>5, <1>8, <2>2
<1>10. ASSUME cut' = FALSE  PROVE Saved' = Readable'
  <2>1. Len(lines') - Torn' = Len(lines')
    BY <1>1, <1>3, <1>10 DEF Torn
  <2>. QED
    BY <1>6, <2>1 DEF Saved
<1>. QED
  BY <1>3, <1>7, <1>9, <1>10

(* A line glued to a cut one. *)
LEMMA AppendedGlued ==
    ASSUME ManifestTypeOK, cut, lines # << >>, NEW line, lines' = Appended(line), cut' \in BOOLEAN
    PROVE  /\ lines' \in Seq(Line) /\ Len(lines') = Len(lines) /\ lines' # << >>
           /\ Saved' = Saved /\ Readable' = Saved
<1>. DEFINE n == Len(lines)
<1>1. lines \in Seq(Line) /\ n \in Nat \ {0} /\ Nothing \in Line
  BY DEF ManifestTypeOK, Line
<1>2. lines' = [lines EXCEPT ![n] = Nothing]
  BY DEF Appended
<1>3. /\ lines' \in Seq(Line) /\ Len(lines') = n
      /\ \A i \in 1..n - 1 : lines'[i] = lines[i]
      /\ lines'[n] = Nothing
  BY <1>1, <1>2
<1>4. 1..n = (1..n - 1) \cup {n}
  BY <1>1
<1>5. Saved = {lines[i] : i \in 1..n - 1} \ {Nothing}
  BY DEF Saved, Torn
<1>6. Saved = {lines'[i] : i \in 1..n - 1} \ {Nothing}
  BY <1>3, <1>5
<1>7. Saved = {lines'[i] : i \in 1..n} \ {Nothing}
  BY <1>3, <1>4, <1>6
<1>8. Readable' = {lines'[i] : i \in 1..n} \ {Nothing}
  BY <1>3 DEF Readable, Range
<1>9. Saved' = Saved
  <2>1. CASE cut'
    <3>1. Saved' = {lines'[i] : i \in 1..n - 1} \ {Nothing}
      BY <1>3, <2>1 DEF Saved, Torn
    <3>. QED
      BY <1>6, <3>1
  <2>2. CASE ~cut'
    <3>1. Saved' = {lines'[i] : i \in 1..n} \ {Nothing}
      BY <1>1, <1>3, <2>2 DEF Saved, Torn
    <3>. QED
      BY <1>7, <3>1
  <2>. QED
    BY <2>1, <2>2
<1>10. lines' # << >>
  BY <1>1, <1>3
<1>. QED
  BY <1>3, <1>7, <1>8, <1>9, <1>10
-----------------------------------------------------------------------------
LEMMA ManifestInitHolds == ManifestInit => ManifestIInv
<1>. SUFFICES ASSUME ManifestInit  PROVE ManifestIInv
  OBVIOUS
<1>1. ManifestTypeOK
  <2>1. << >> \in Seq(Line)
    OBVIOUS
  <2>2. 0 \in 0..MaxFailed
    BY ManifestAssumption
  <2>3. [p \in Process |-> {}] \in [Process -> SUBSET Entry]
    OBVIOUS
  <2>4. [p \in Process |-> "none"] \in [Process -> {"none", "waiting", "held"}]
    OBVIOUS
  <2>. QED
    BY <2>1, <2>2, <2>3, <2>4 DEF ManifestInit, ManifestTypeOK
<1>2. Saved = {} /\ Readable = {} /\ Known = {} /\ Torn = 0
  <2>1. Torn = 0 /\ Len(lines) = 0 /\ DOMAIN lines = {} /\ 1..0 = {}
    BY DEF ManifestInit, Torn
  <2>2. Saved = {}
    BY <2>1 DEF Saved
  <2>3. Readable = {}
    BY <2>1 DEF Readable, Range
  <2>4. Known = {}
    BY DEF ManifestInit, Known
  <2>. QED
    BY <2>1, <2>2, <2>3, <2>4
<1>3. Cardinality({}) = 0
  BY FS_EmptySet
<1>4. LockInv
  BY <1>2, ManifestAssumption DEF LockInv, ManifestInit
<1>5. LinesInv /\ LossInv
  BY <1>2, <1>3 DEF LinesInv, LossInv, ManifestInit
<1>. QED
  BY <1>1, <1>4, <1>5 DEF ManifestIInv

LEMMA ManifestStays == ManifestIInv /\ UNCHANGED manifestVars => ManifestIInv'
  BY DEF ManifestIInv, ManifestTypeOK, LockInv, LinesInv, LossInv, Saved, Known, Torn,
         Readable, manifestVars

(* Fewer lost entries, the same lines. *)
LEMMA LossShrinks ==
    ASSUME ManifestIInv, ManifestTypeOK', UNCHANGED <<lines, cut, failed>>,
           Readable' = Readable, (recorded \cup Known)' \subseteq recorded \cup Known \cup Readable
    PROVE  LossInv'
<1>. DEFINE L == (recorded \cup Known) \ Readable
<1>1. L \subseteq Entry
  BY LineFacts DEF ManifestIInv, LinesInv, ManifestTypeOK
<1>2. L' \subseteq L
  OBVIOUS
<1>3. Cardinality(L') <= Cardinality(L) /\ Cardinality(L) \in Nat /\ Cardinality(L') \in Nat
  BY <1>1, <1>2, SmallerEntries, FiniteEntries
<1>4. Torn' = Torn /\ Torn \in Nat /\ failed \in Nat
  BY DEF Torn, ManifestIInv, ManifestTypeOK
<1>. QED
  BY <1>3, <1>4 DEF LossInv, ManifestIInv

LEMMA AskHolds ==
    ASSUME ManifestIInv, NEW p \in Process, Ask(p)
    PROVE  ManifestIInv'
<1>1. ManifestTypeOK'
  BY DEF ManifestIInv, ManifestTypeOK, Ask
<1>2. Saved' = Saved /\ Readable' = Readable /\ Known' = Known /\ Torn' = Torn
  BY DEF Ask, Saved, Readable, Known, Torn
<1>3. LockInv'
  BY <1>2 DEF ManifestIInv, ManifestTypeOK, LockInv, Ask
<1>4. LinesInv' /\ LossInv'
  BY <1>2 DEF ManifestIInv, LinesInv, LossInv, Ask
<1>. QED
  BY <1>1, <1>3, <1>4 DEF ManifestIInv

LEMMA LoadHolds ==
    ASSUME ManifestIInv, NEW p \in Process, Load(p)
    PROVE  ManifestIInv'
<1>1. Readable \subseteq Entry /\ Saved \subseteq Readable
  BY LineFacts DEF ManifestIInv, LinesInv
<1>2. ManifestTypeOK'
  BY <1>1 DEF ManifestIInv, ManifestTypeOK, Load
<1>3. Saved' = Saved /\ Readable' = Readable /\ Torn' = Torn
  BY DEF Load, Saved, Readable, Torn
<1>4. LockInv'
  BY <1>1, <1>3, ManifestAssumption DEF ManifestIInv, ManifestTypeOK, LockInv, Load
<1>5. Known' \subseteq Known \cup Readable
  BY DEF Known, Load, ManifestIInv, ManifestTypeOK
<1>6. LinesInv'
  BY <1>3 DEF ManifestIInv, LinesInv, Load
<1>7. LossInv'
  BY <1>2, <1>3, <1>5, LossShrinks DEF Load
<1>. QED
  BY <1>2, <1>4, <1>6, <1>7 DEF ManifestIInv

LEMMA ReleaseHolds ==
    ASSUME ManifestIInv, NEW p \in Process, Release(p)
    PROVE  ManifestIInv'
<1>1. ManifestTypeOK'
  BY DEF ManifestIInv, ManifestTypeOK, Release
<1>2. Saved' = Saved /\ Readable' = Readable /\ Torn' = Torn
  BY DEF Release, Saved, Readable, Torn
<1>3. LockInv'
  BY <1>2, ManifestAssumption DEF ManifestIInv, ManifestTypeOK, LockInv, Release
<1>4. Known' \subseteq Known
  BY DEF Known, Release, ManifestIInv, ManifestTypeOK
<1>5. LinesInv'
  BY <1>2 DEF ManifestIInv, LinesInv, Release
<1>6. LossInv'
  BY <1>1, <1>2, <1>4, LossShrinks DEF Release
<1>. QED
  BY <1>1, <1>3, <1>5, <1>6 DEF ManifestIInv
-----------------------------------------------------------------------------
(* A Mark of an entry the process knows. *)
LEMMA MarkKnownHolds ==
    ASSUME ManifestIInv, NEW p \in Process, NEW e \in known[p], handle[p] = "held",
           recorded' = recorded \cup {e},
           UNCHANGED <<lines, cut, holder, handle, known, failed>>
    PROVE  ManifestIInv'
<1>1. ManifestTypeOK'
  BY DEF ManifestIInv, ManifestTypeOK
<1>2. Saved' = Saved /\ Readable' = Readable /\ Torn' = Torn /\ Known' = Known
  BY DEF Saved, Readable, Torn, Known
<1>3. LockInv'
  BY <1>2 DEF ManifestIInv, LockInv
<1>4. LinesInv'
  BY <1>2 DEF ManifestIInv, LinesInv
<1>5. e \in Known
  BY DEF Known
<1>6. LossInv'
  BY <1>1, <1>2, <1>5, LossShrinks
<1>. QED
  BY <1>1, <1>3, <1>4, <1>6 DEF ManifestIInv

(* A Mark that writes a line.  Nobody but p knows anything, and p knows    *)
(* all whole lines, so that e has none yet.                                *)
LEMMA MarkNewHolds ==
    ASSUME ManifestIInv, NEW p \in Process, NEW e \in Entry, handle[p] = "held",
           e \notin known[p], lines' = Appended(e), cut' = FALSE,
           known' = [known EXCEPT ![p] = @ \cup {e}],
           recorded' = recorded \cup {e},
           UNCHANGED <<holder, handle, failed>>
    PROVE  ManifestIInv'
<1>. DEFINE L == (recorded \cup Known) \ Readable
            last == lines[Len(lines)]
<1>1. /\ ManifestTypeOK /\ e \in Line /\ e # Nothing /\ (cut => lines # << >>)
      /\ failed \in Nat /\ Len(lines) \in Nat /\ cut \in BOOLEAN
  BY ManifestAssumption DEF ManifestIInv, ManifestTypeOK, LinesInv, Line
<1>2. /\ Saved \subseteq Entry /\ Saved \subseteq Readable /\ L \subseteq Entry
      /\ e \notin Saved
  BY <1>1, LineFacts DEF ManifestIInv, LockInv, ManifestTypeOK
<1>3. /\ Known' \subseteq Known \cup {e} /\ Known' \subseteq Entry
      /\ recorded' \subseteq Entry
  BY <1>1 DEF Known, ManifestTypeOK
<1>4. Torn' = 0
  BY DEF Torn
<1>5. /\ Cardinality(Saved) \in Nat /\ Cardinality(L) \in Nat /\ Cardinality(L') \in Nat
  BY <1>2, <1>3, FiniteEntries
<1>6. /\ lines' \in Seq(Line) /\ Saved' = Saved \cup (IF cut THEN {} ELSE {e})
      /\ Len(lines') <= Cardinality(Saved') + failed
      /\ Cardinality(L') + 2 * Torn' <= 2 * failed
  <2>1. CASE ~cut
    <3>1. /\ lines' \in Seq(Line) /\ Len(lines') = Len(lines) + 1
          /\ Readable' = Readable \cup {e} /\ Saved' = Readable' /\ Saved = Readable
      BY <1>1, <2>1, AppendedWhole, LineFacts
    <3>2. Cardinality(Saved \cup {e}) = Cardinality(Saved) + 1
      BY <1>2, FiniteEntries, FS_AddElement
    <3>3. Cardinality(L') <= Cardinality(L)
      <4>1. L' \subseteq L
        BY <1>3, <3>1
      <4>. QED
        BY <1>2, <4>1, SmallerEntries
    <3>4. Cardinality(L) + 0 <= 2 * failed /\ Len(lines) <= Cardinality(Saved) + failed
      BY <1>1, <1>5, <2>1 DEF ManifestIInv, LossInv, LinesInv, Torn
    <3>. QED
      BY <1>1, <1>4, <1>5, <2>1, <3>1, <3>2, <3>3, <3>4
  <2>2. CASE cut
    <3>. DEFINE M == (L \cup {last}) \cap Entry
    <3>1. /\ lines' \in Seq(Line) /\ Len(lines') = Len(lines)
          /\ Saved' = Saved /\ Saved \subseteq Readable'
      BY <1>1, <2>2, AppendedGlued
    <3>2. Readable \subseteq Saved \cup {last}
      BY <1>1, <2>2, LineFacts
    <3>3. L' \subseteq M \cup {e}
      BY <1>3, <3>1, <3>2
    <3>4. Cardinality(M) <= Cardinality(L) + 1
      BY <1>2, OneEntryMore
    <3>5. Cardinality(L') <= Cardinality(M) + 1
      <4>1. L' \subseteq Entry /\ M \subseteq Entry
        BY <1>3
      <4>. HIDE DEF L, M
      <4>. QED
        BY <3>3, <4>1, OneEntryMore
    <3>6. Cardinality(M) \in Nat
      BY FiniteEntries
    <3>7. Cardinality(L) + 2 <= 2 * failed /\ Len(lines) <= Cardinality(Saved) + failed
      BY <1>1, <1>5, <2>2 DEF ManifestIInv, LossInv, LinesInv, Torn
    <3>. HIDE DEF L, M
    <3>8. Cardinality(L') + 2 * Torn' <= 2 * failed
      BY <1>1, <1>4, <1>5, <3>4, <3>5, <3>6, <3>7
    <3>. QED
      BY <2>2, <3>1, <3>7, <3>8
  <2>. QED
    BY <1>1, <2>1, <2>2
<1>7. ManifestTypeOK'
  BY <1>1, <1>6 DEF ManifestTypeOK
<1>8. LockInv'
  BY <1>1, <1>6, ManifestAssumption DEF ManifestIInv, LockInv, ManifestTypeOK
<1>9. LinesInv'
  BY <1>6 DEF ManifestIInv, LinesInv
<1>10. LossInv'
  BY <1>6 DEF LossInv
<1>. QED
  BY <1>7, <1>8, <1>9, <1>10 DEF ManifestIInv

LEMMA MarkHolds ==
    ASSUME ManifestIInv, NEW p \in Process, NEW e \in Entry, Mark(p, e)
    PROVE  ManifestIInv'
<1>1. CASE e \in known[p]
  <2>1. UNCHANGED cut
    BY <1>1 DEF Mark
  <2>. QED
    BY <1>1, <2>1, MarkKnownHolds DEF Mark
<1>2. CASE e \notin known[p]
  BY <1>2, MarkNewHolds DEF Mark
<1>. QED
  BY <1>1, <1>2

(* A write that fails half way. *)
LEMMA MarkFailsHolds ==
    ASSUME ManifestIInv, NEW p \in Process, NEW e \in Entry, MarkFails(p, e)
    PROVE  ManifestIInv'
<1>. DEFINE L == (recorded \cup Known) \ Readable
            last == lines[Len(lines)]
<1>1. /\ ManifestTypeOK /\ (cut => lines # << >>)
      /\ failed \in Nat /\ Len(lines) \in Nat /\ cut \in BOOLEAN
      /\ cut' = TRUE /\ failed' = failed + 1 /\ failed + 1 \in 0..MaxFailed
      /\ UNCHANGED <<holder, handle, known, recorded>>
  BY ManifestAssumption DEF ManifestIInv, ManifestTypeOK, LinesInv, MarkFails
<1>2. PICK line \in Line : lines' = Appended(line)
  BY ManifestAssumption DEF MarkFails, Line
<1>3. /\ Saved \subseteq Entry /\ L \subseteq Entry /\ Known' = Known /\ Known \subseteq Entry
  BY <1>1, LineFacts DEF ManifestTypeOK, Known
<1>4. Torn' = 1
  BY <1>1 DEF Torn
<1>5. /\ Cardinality(Saved) \in Nat /\ Cardinality(L) \in Nat /\ Cardinality(L') \in Nat
  <2>1. L' \subseteq Entry
    BY <1>1, <1>3 DEF ManifestTypeOK
  <2>. QED
    BY <1>3, <2>1, FiniteEntries
<1>6. /\ lines' \in Seq(Line) /\ lines' # << >> /\ Saved' = Saved
      /\ Len(lines') <= Cardinality(Saved') + failed'
      /\ Cardinality(L') + 2 * Torn' <= 2 * failed'
  <2>1. CASE ~cut
    <3>1. /\ lines' \in Seq(Line) /\ Len(lines') = Len(lines) + 1
          /\ Readable \subseteq Readable' /\ Saved' = Saved
      BY <1>1, <1>2, <2>1, AppendedWhole
    <3>2. Cardinality(L') <= Cardinality(L)
      <4>1. L' \subseteq L
        BY <1>1, <1>3, <3>1
      <4>. QED
        BY <1>3, <4>1, SmallerEntries
    <3>3. Cardinality(L) + 0 <= 2 * failed /\ Len(lines) <= Cardinality(Saved) + failed
      BY <1>1, <1>5, <2>1 DEF ManifestIInv, LossInv, LinesInv, Torn
    <3>4. lines' # << >>
      BY <1>1, <3>1
    <3>. QED
      BY <1>1, <1>4, <1>5, <3>1, <3>2, <3>3, <3>4
  <2>2. CASE cut
    <3>1. /\ lines' \in Seq(Line) /\ Len(lines') = Len(lines) /\ lines' # << >>
          /\ Saved' = Saved /\ Saved \subseteq Readable'
      BY <1>1, <1>2, <2>2, AppendedGlued
    <3>2. Readable \subseteq Saved \cup {last}
      BY <1>1, <2>2, LineFacts
    <3>3. L' \subseteq L \cup {last} /\ L' \subseteq Entry
      BY <1>1, <1>3, <3>1, <3>2 DEF ManifestTypeOK
    <3>4. Cardinality(L') <= Cardinality(L) + 1
      <4>. HIDE DEF L
      <4>. QED
        BY <1>3, <3>3, OneEntryMore
    <3>5. Cardinality(L) + 2 <= 2 * failed /\ Len(lines) <= Cardinality(Saved) + failed
      BY <1>1, <1>5, <2>2 DEF ManifestIInv, LossInv, LinesInv, Torn
    <3>. HIDE DEF L
    <3>. QED
      BY <1>1, <1>4, <1>5, <3>1, <3>4, <3>5
  <2>. QED
    BY <1>1, <2>1, <2>2
<1>7. ManifestTypeOK'
  BY <1>1, <1>6 DEF ManifestTypeOK
<1>8. LockInv'
  BY <1>1, <1>6 DEF ManifestIInv, LockInv
<1>9. LinesInv'
  BY <1>1, <1>6 DEF ManifestIInv, LinesInv
<1>10. LossInv'
  BY <1>6 DEF LossInv
<1>. QED
  BY <1>7, <1>8, <1>9, <1>10 DEF ManifestIInv
-----------------------------------------------------------------------------
(* What the manifest says was recorded, and what a process that has read   *)
(* it may still record without indexing it.                                *)
Claims == recorded \cup Known \cup Readable

LEMMA ClaimsTyped == ManifestIInv => Claims \subseteq Entry
  BY LineFacts DEF ManifestIInv, LinesInv, ManifestTypeOK, Claims

(* Reading and closing the manifest claim nothing. *)
LEMMA ClaimsStay ==
    ASSUME ManifestIInv, NEW p \in Process,
           Ask(p) \/ Load(p) \/ Release(p) \/ UNCHANGED manifestVars
    PROVE  Claims' \subseteq Claims
<1>1. Readable' = Readable /\ recorded' = recorded
  BY DEF Ask, Load, Release, manifestVars, Readable
<1>2. \A q \in Process : known'[q] \subseteq known[q] \cup Readable
  BY DEF Ask, Load, Release, manifestVars, ManifestIInv, ManifestTypeOK
<1>3. Known' \subseteq Known \cup Readable
  BY <1>2 DEF Known
<1>. QED
  BY <1>1, <1>3 DEF Claims

(* A mark claims its entry, and one that fails what its cut line reads as. *)
LEMMA MarkClaims ==
    ASSUME ManifestIInv, NEW p \in Process, NEW e \in Entry, Mark(p, e)
    PROVE  Claims' \subseteq Claims \cup {e} /\ failed' = failed
<1>1. recorded' = recorded \cup {e} /\ failed' = failed
  BY DEF Mark
<1>2. \A q \in Process : known'[q] \subseteq known[q] \cup {e}
  BY DEF Mark, ManifestIInv, ManifestTypeOK
<1>3. Known' \subseteq Known \cup {e}
  BY <1>2 DEF Known
<1>4. Readable' \subseteq Readable \cup {e}
  <2>1. CASE lines' = lines
    BY <2>1 DEF Readable
  <2>2. CASE lines' = Appended(e) /\ cut' = FALSE
    <3>1. ManifestTypeOK /\ e \in Line /\ (cut => lines # << >>) /\ cut \in BOOLEAN
      BY DEF ManifestIInv, LinesInv, ManifestTypeOK, Line
    <3>2. CASE cut
      BY <2>2, <3>1, <3>2, AppendedGlued, LineFacts
    <3>3. CASE ~cut
      BY <2>2, <3>1, <3>3, AppendedWhole
    <3>. QED
      BY <3>1, <3>2, <3>3
  <2>. QED
    BY <2>1, <2>2 DEF Mark
<1>. QED
  BY <1>1, <1>3, <1>4 DEF Claims

LEMMA MarkFailsClaims ==
    ASSUME ManifestIInv, NEW p \in Process, NEW e \in Entry, MarkFails(p, e)
    PROVE  /\ failed' = failed + 1 /\ Claims' \subseteq Entry
           /\ \E line : Claims' \subseteq Claims \cup {line}
<1>1. recorded' = recorded /\ failed' = failed + 1 /\ Known' = Known /\ cut' = TRUE
  BY DEF MarkFails, Known
<1>2. PICK line \in Line : lines' = Appended(line)
  BY ManifestAssumption DEF MarkFails, Line
<1>3. ManifestTypeOK /\ (cut => lines # << >>) /\ cut \in BOOLEAN
  BY DEF ManifestIInv, LinesInv, ManifestTypeOK
<1>4. Readable' \subseteq Readable \cup {line}
  <2>1. CASE cut
    BY <1>1, <1>2, <1>3, <2>1, AppendedGlued, LineFacts
  <2>2. CASE ~cut
    BY <1>2, <1>3, <2>2, AppendedWhole
  <2>. QED
    BY <1>3, <2>1, <2>2
<1>5. Claims' \subseteq Entry
  <2>1. lines' \in Seq(Line)
    BY <1>2, <1>3, AppendedGlued, AppendedWhole, <1>1
  <2>2. Readable' \subseteq Entry
    BY <2>1 DEF Readable, Range, Line
  <2>3. recorded \subseteq Entry /\ Known \subseteq Entry
    BY <1>3, LineFacts DEF ManifestTypeOK
  <2>. QED
    BY <1>1, <2>2, <2>3 DEF Claims
<1>. QED
  BY <1>1, <1>4, <1>5 DEF Claims
-----------------------------------------------------------------------------
(* Every line but Torn is of an entry that is recorded. *)
LEMMA OneLineFollows == ManifestIInv => OneLinePerEntry
<1>. SUFFICES ASSUME ManifestIInv  PROVE OneLinePerEntry
  OBVIOUS
<1>1. /\ recorded \subseteq Entry /\ failed \in Nat /\ Len(lines) \in Nat
      /\ Saved \subseteq recorded /\ Len(lines) <= Cardinality(Saved) + failed
  BY DEF ManifestIInv, ManifestTypeOK, LinesInv
<1>2. Cardinality(Saved) <= Cardinality(recorded)
  BY <1>1, SmallerEntries
<1>3. Cardinality(Saved) \in Nat /\ Cardinality(recorded) \in Nat
  BY <1>1, FiniteEntries
<1>. QED
  BY <1>1, <1>2, <1>3 DEF OneLinePerEntry

LEMMA DamageFollows == ManifestIInv => BoundedDamage
<1>. SUFFICES ASSUME ManifestIInv  PROVE BoundedDamage
  OBVIOUS
<1>. DEFINE L == (recorded \cup Known) \ Readable
            last == lines[Len(lines)]
<1>1. /\ ManifestTypeOK /\ (cut => lines # << >>) /\ cut \in BOOLEAN
      /\ recorded \subseteq Entry /\ failed \in Nat /\ Saved \subseteq recorded
  BY DEF ManifestIInv, ManifestTypeOK, LinesInv
<1>2. L \subseteq Entry /\ Readable \subseteq Entry
  BY <1>1, LineFacts
<1>3. Cardinality(L) \in Nat /\ Torn \in Nat /\ Cardinality(L) + 2 * Torn <= 2 * failed
  BY <1>2, FiniteEntries DEF Torn, ManifestIInv, LossInv
<1>4. Cardinality(Readable \ recorded) <= failed
  <2>1. CASE cut
    <3>1. Readable \ recorded \subseteq {} \cup {last}
      BY <1>1, <2>1, LineFacts
    <3>2. Cardinality(Readable \ recorded) <= Cardinality({}) + 1
      BY <1>2, <3>1, OneEntryMore
    <3>3. Torn = 1 /\ Cardinality({}) = 0 /\ Cardinality(Readable \ recorded) \in Nat
      BY <1>2, <2>1, FS_EmptySet, FiniteEntries DEF Torn
    <3>. HIDE DEF L
    <3>. QED
      BY <1>1, <1>3, <3>2, <3>3
  <2>2. CASE ~cut
    <3>1. Readable \ recorded = {}
      BY <1>1, <2>2, LineFacts
    <3>. QED
      BY <1>1, <3>1, FS_EmptySet
  <2>. QED
    BY <1>1, <2>1, <2>2
<1>5. Cardinality(recorded \ Readable) <= 2 * failed
  <2>1. Cardinality(recorded \ Readable) <= Cardinality(L)
    BY <1>2, SmallerEntries
  <2>2. Cardinality(recorded \ Readable) \in Nat
    BY <1>1, FiniteEntries
  <2>. HIDE DEF L
  <2>. QED
    BY <1>1, <1>3, <2>1, <2>2
<1>. QED
  BY <1>4, <1>5 DEF BoundedDamage
=============================================================================
