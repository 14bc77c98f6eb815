--------------------------- MODULE NormalizeProofs ----------------------------
(***************************************************************************)
(* Theorems about Chunker and Normalize, for every hash table, size and    *)
(* line: the rolling hash is the hash of its window, the chunks of a line  *)
(* are those of the reference definition, an edit stays local, and the     *)
(* pieces of a line are slices of it.  What a recursive function computes  *)
(* is proved by induction, from the least element of a set of numbers.     *)
(***************************************************************************)
EXTENDS Normalize, FiniteSetTheorems, WellFoundedInduction, TLAPS

(* A line, and the contents of a file. *)
Text == Seq(DOMAIN HashTable)
Contents == Seq(DOMAIN HashTable \cup {Newline})

Word == SUBSET (0..WordSize - 1)
-----------------------------------------------------------------------------
(* Induction and recursion over numbers. *)

(* Every nonempty set of natural numbers has a least element. *)
LEMMA LeastNumber ==
    ASSUME NEW T \in SUBSET Nat, T # {}
    PROVE  \E n \in T : \A m \in T : n <= m
<1>. DEFINE R == OpToRel(<, Nat)
<1>1. IsWellFoundedOn(R, Nat)
  BY NatLessThanWellFounded
<1>2. \A m, n \in Nat : m < n => <<m, n>> \in R
  BY DEF OpToRel
<1>. HIDE DEF R
<1>3. PICK n \in T : \A m \in T : <<m, n>> \notin R
  BY <1>1, WFMin
<1>4. ASSUME NEW m \in T  PROVE n <= m
  <2>1. m \in Nat /\ n \in Nat
    OBVIOUS
  <2>2. ~(m < n)
    BY <1>2, <1>3, <2>1
  <2>. QED
    BY <2>1, <2>2
<1>. QED
  BY <1>3, <1>4

(* What holds of 0 and of every number whose predecessor it holds of,      *)
(* holds of all numbers up to n.                                           *)
LEMMA Induction ==
    ASSUME NEW n \in Nat, NEW T, 0 \in T,
           \A i \in 1..n : i - 1 \in T => i \in T
    PROVE  0..n \subseteq T
<1>1. SUFFICES ASSUME (0..n) \ T # {}  PROVE FALSE
  OBVIOUS
<1>2. PICK i \in (0..n) \ T : \A m \in (0..n) \ T : i <= m
  <2>1. (0..n) \ T \in SUBSET Nat
    OBVIOUS
  <2>. QED
    BY <1>1, <2>1, LeastNumber
<1>3. i \in 1..n /\ i - 1 \in 0..n
  BY <1>2
<1>. QED
  BY <1>2, <1>3

Steps(S, n) == [S \X (1..n) -> S]

(* f is the run of n steps from first. *)
IsRun(f, S, n, first, step) ==
    /\ f \in [0..n -> S] /\ f[0] = first
    /\ \A i \in 1..n : f[i] = step[<<f[i - 1], i>>]

(* A function from 0 to n can be defined from its first value and a step:  *)
(* what a recursive function of the chunker's loop (chunkLine) unrolls to  *)
(* exists.                                                                 *)
LEMMA Recursion ==
    ASSUME NEW n \in Nat, NEW S, NEW first \in S, NEW step \in Steps(S, n)
    PROVE  \E f : IsRun(f, S, n, first, step)
<1>. DEFINE T == {m \in 0..n : \E f : IsRun(f, S, m, first, step)}
<1>1. 0 \in T
  <2>1. IsRun([i \in 0..0 |-> first], S, 0, first, step)
    BY DEF IsRun
  <2>. QED
    BY <2>1
<1>2. ASSUME NEW m \in 1..n, m - 1 \in T  PROVE m \in T
  <2>1. PICK f : IsRun(f, S, m - 1, first, step)
    BY <1>2
  <2>. DEFINE g == [i \in 0..m |-> IF i = m THEN step[<<f[m - 1], m>>] ELSE f[i]]
  <2>2. step[<<f[m - 1], m>>] \in S
    BY <2>1 DEF IsRun, Steps
  <2>3. g \in [0..m -> S]
    BY <2>1, <2>2 DEF IsRun
  <2>4. ASSUME NEW i \in 1..m  PROVE g[i] = step[<<g[i - 1], i>>]
    <3>1. g[i - 1] = f[i - 1]
      OBVIOUS
    <3>2. CASE i = m
      <4>1. g[i] = step[<<f[i - 1], i>>]
        BY <3>2
      <4>. HIDE DEF g
      <4>. QED
        BY <3>1, <4>1
    <3>3. CASE i # m
      <4>1. f[i] = step[<<f[i - 1], i>>]
        BY <2>1, <3>3 DEF IsRun
      <4>2. g[i] = f[i]
        BY <3>3
      <4>. HIDE DEF g
      <4>. QED
        BY <3>1, <4>1, <4>2
    <3>. QED
      BY <3>2, <3>3
  <2>5. g[0] = first
    BY <2>1 DEF IsRun
  <2>6. IsRun(g, S, m, first, step)
    <3>. HIDE DEF g
    <3>. QED
      BY <2>3, <2>4, <2>5 DEF IsRun
  <2>. QED
    BY <2>6
<1>3. 0..n \subseteq T
  <2>. HIDE DEF T
  <2>. QED
    BY <1>1, <1>2, Induction
<1>. QED
  BY <1>3

(* Every nonempty set of numbers up to n has a greatest element. *)
LEMMA GreatestNumber ==
    ASSUME NEW n \in Nat, NEW T \in SUBSET (0..n), T # {}
    PROVE  \E m \in T : \A i \in T : i <= m
<1>. DEFINE D == {d \in 0..n : n - d \in T}
<1>1. D \in SUBSET Nat /\ D # {}
  <2>1. PICK i \in T : TRUE
    OBVIOUS
  <2>2. i \in 0..n
    BY <2>1
  <2>3. n - i \in 0..n /\ n - (n - i) = i
    BY <2>2
  <2>. QED
    BY <2>1, <2>3
<1>2. PICK d \in D : \A e \in D : d <= e
  <2>. HIDE DEF D
  <2>. QED
    BY <1>1, LeastNumber
<1>3. ASSUME NEW i \in T  PROVE i <= n - d
  <2>1. i \in 0..n
    OBVIOUS
  <2>2. n - i \in 0..n /\ n - (n - i) = i
    BY <2>1
  <2>3. n - i \in D
    BY <2>1, <2>2
  <2>4. d <= n - i /\ d \in 0..n
    BY <1>2, <2>3
  <2>. QED
    BY <2>1, <2>4
<1>. QED
  BY <1>2, <1>3

-----------------------------------------------------------------------------
(* Sequences. *)

(* A slice of a sequence. *)
LEMMA SubSeqIs ==
    ASSUME NEW S, NEW s \in Seq(S), NEW a \in Nat \ {0}, NEW b \in Nat, a <= b + 1, b <= Len(s)
    PROVE  /\ SubSeq(s, a, b) \in Seq(S) /\ Len(SubSeq(s, a, b)) = b - a + 1
           /\ \A k \in 1..b - a + 1 : SubSeq(s, a, b)[k] = s[a + k - 1]
OBVIOUS

(* Sequences of one length with the same elements are the same. *)
LEMMA SameSeq ==
    ASSUME NEW S, NEW s \in Seq(S), NEW t \in Seq(S), Len(s) = Len(t),
           \A k \in 1..Len(s) : s[k] = t[k]
    PROVE  s = t
OBVIOUS

(* A function over the positions of a sequence is a sequence of its        *)
(* length.                                                                 *)
LEMMA SeqOfFcn ==
    ASSUME NEW A, NEW s \in Seq(A), NEW S, NEW f \in [DOMAIN s -> S]
    PROVE  f \in Seq(S) /\ Len(f) = Len(s) /\ DOMAIN f = DOMAIN s
OBVIOUS

(* A slice of a slice is a slice of the whole, as Go's line[a:b][c:d]. *)
LEMMA SubSubSeq ==
    ASSUME NEW S, NEW s \in Seq(S), NEW a \in Nat \ {0}, NEW b \in Nat, a <= b + 1, b <= Len(s),
           NEW c \in Nat \ {0}, NEW d \in Nat, c <= d + 1, d <= b - a + 1
    PROVE  SubSeq(SubSeq(s, a, b), c, d) = SubSeq(s, a + c - 1, a + d - 1)
<1>. DEFINE t == SubSeq(s, a, b)
            u == SubSeq(t, c, d)
            v == SubSeq(s, a + c - 1, a + d - 1)
<1>1. t \in Seq(S) /\ Len(t) = b - a + 1 /\ \A k \in 1..b - a + 1 : t[k] = s[a + k - 1]
  BY SubSeqIs
<1>. HIDE DEF t
<1>2. u \in Seq(S) /\ Len(u) = d - c + 1 /\ \A k \in 1..d - c + 1 : u[k] = t[c + k - 1]
  BY <1>1, SubSeqIs
<1>3. /\ a + c - 1 \in Nat \ {0} /\ a + d - 1 \in Nat /\ a + c - 1 <= (a + d - 1) + 1
      /\ a + d - 1 <= Len(s)
  BY <1>1
<1>4. /\ v \in Seq(S) /\ Len(v) = (a + d - 1) - (a + c - 1) + 1
      /\ \A k \in 1..(a + d - 1) - (a + c - 1) + 1 : v[k] = s[(a + c - 1) + k - 1]
  BY <1>3, SubSeqIs
<1>. HIDE DEF u, v
<1>5. Len(u) = Len(v)
  BY <1>2, <1>4
<1>6. ASSUME NEW k \in 1..Len(u)  PROVE u[k] = v[k]
  <2>1. k \in 1..d - c + 1 /\ k \in 1..(a + d - 1) - (a + c - 1) + 1
    BY <1>2
  <2>2. u[k] = t[c + k - 1] /\ v[k] = s[(a + c - 1) + k - 1]
    BY <1>2, <1>4, <2>1
  <2>3. c + k - 1 \in 1..b - a + 1
    BY <2>1
  <2>4. t[c + k - 1] = s[a + (c + k - 1) - 1]
    BY <1>1, <2>3
  <2>5. a + (c + k - 1) - 1 = (a + c - 1) + k - 1
    BY <2>1
  <2>. QED
    BY <2>2, <2>4, <2>5
<1>7. u = v
  BY <1>2, <1>4, <1>5, <1>6, SameSeq
<1>. QED
  BY <1>7 DEF t, u, v

(* What is in a sequence when an element is appended. *)
LEMMA AppendRange ==
    ASSUME NEW S, NEW s \in Seq(S), NEW x
    PROVE  Range(Append(s, x)) = Range(s) \cup {x}
<1>. DEFINE t == Append(s, x)
<1>1. /\ Len(s) \in Nat /\ DOMAIN s = 1..Len(s) /\ DOMAIN t = 1..Len(s) + 1
      /\ t[Len(s) + 1] = x /\ \A k \in 1..Len(s) : t[k] = s[k]
  <2>1. s \in Seq(S \cup {x})
    OBVIOUS
  <2>. QED
    BY <2>1
<1>2. 1..Len(s) + 1 = 1..Len(s) \cup {Len(s) + 1}
  BY <1>1
<1>. HIDE DEF t
<1>. QED
  BY <1>1, <1>2 DEF Range, t

IsFlattening(f, seqs) ==
    f = [i \in 1..Len(seqs) |-> IF i = 1 THEN seqs[i] ELSE f[i - 1] \o seqs[i]]

(* flat concatenates the first n sequences one by one. *)
Flattens(flat, seqs, n) ==
    flat[0] = << >> /\ \A i \in 1..n : flat[i] = flat[i - 1] \o seqs[i]

(* The concatenation of the community modules is the value of such a run,  *)
(* by the uniqueness of the runs.                                          *)
LEMMA FlattenRun ==
    ASSUME NEW S, NEW seqs \in Seq(Seq(S)), NEW m \in Nat, Len(seqs) <= m,
           NEW flat \in [0..m -> Seq(S)], Flattens(flat, seqs, Len(seqs))
    PROVE  FlattenSeq(seqs) = flat[Len(seqs)]
<1>. DEFINE n == Len(seqs)
            f == CHOOSE g : IsFlattening(g, seqs)
            T == {i \in 0..n : i >= 1 => f[i] = flat[i]}
<1>1. n \in Nat /\ n <= m /\ \A i \in 1..n : seqs[i] \in Seq(S)
  OBVIOUS
<1>2. CASE n = 0
  BY <1>2 DEF FlattenSeq, Flattens
<1>3. CASE n # 0
  <2>. DEFINE g == [i \in 1..n |-> flat[i]]
  <2>. HIDE DEF n
  <2>1. flat[1] = seqs[1] /\ 1 \in 1..n
    <3>1. 1 \in 1..n /\ 0 \in 0..m /\ seqs[1] \in Seq(S)
      BY <1>1, <1>3
    <3>2. flat[1] = flat[1 - 1] \o seqs[1]
      BY <3>1 DEF Flattens, n
    <3>3. flat[1 - 1] = << >>
      BY DEF Flattens
    <3>4. << >> \o seqs[1] = seqs[1]
      BY <3>1
    <3>. QED
      BY <3>1, <3>2, <3>3, <3>4
  <2>2. \A i \in 1..n : i # 1 => i - 1 \in 1..n /\ flat[i] = flat[i - 1] \o seqs[i]
    <3>1. \A i \in 1..n : flat[i] = flat[i - 1] \o seqs[i]
      BY DEF Flattens, n
    <3>2. \A i \in 1..n : i # 1 => i - 1 \in 1..n
      BY <1>1
    <3>. QED
      BY <3>1, <3>2
  <2>3. IsFlattening(g, seqs)
    <3>1. \A i \in 1..n : g[i] = IF i = 1 THEN seqs[i] ELSE g[i - 1] \o seqs[i]
      BY <2>1, <2>2
    <3>2. g = [i \in 1..n |-> g[i]]
      OBVIOUS
    <3>. HIDE DEF g
    <3>. QED
      BY <3>1, <3>2 DEF IsFlattening, n
  <2>4. IsFlattening(f, seqs)
    BY <2>3
  <2>5. FlattenSeq(seqs) = f[n]
    BY <1>3 DEF FlattenSeq, IsFlattening, n
  <2>. HIDE DEF f
  <2>6. ASSUME NEW i \in 1..n  PROVE f[i] = IF i = 1 THEN seqs[i] ELSE f[i - 1] \o seqs[i]
    <3>1. f = [j \in 1..n |-> IF j = 1 THEN seqs[j] ELSE f[j - 1] \o seqs[j]]
      BY <2>4 DEF IsFlattening, n
    <3>. QED
      BY <3>1
  <2>7. 0 \in T
    BY <1>1
  <2>8. ASSUME NEW i \in 1..n, i - 1 \in T  PROVE i \in T
    <3>1. CASE i = 1
      BY <1>1, <2>1, <2>6, <3>1
    <3>2. CASE i # 1
      <4>1. i - 1 \in 1..n /\ i - 1 >= 1
        BY <1>1, <2>2, <3>2
      <4>2. f[i - 1] = flat[i - 1]
        BY <2>8, <4>1
      <4>3. f[i] = f[i - 1] \o seqs[i] /\ flat[i] = flat[i - 1] \o seqs[i]
        BY <2>2, <2>6, <3>2
      <4>4. i \in 0..n
        BY <1>1
      <4>. QED
        BY <4>2, <4>3, <4>4
    <3>. QED
      BY <3>1, <3>2
  <2>9. 0..n \subseteq T
    <3>. HIDE DEF T
    <3>. QED
      BY <1>1, <2>7, <2>8, Induction
  <2>10. f[n] = flat[n]
    BY <1>1, <1>3, <2>9
  <2>. QED
    BY <2>5, <2>10 DEF n
<1>. QED
  BY <1>2, <1>3

(* Every sequence of sequences has such a run. *)
LEMMA FlattenExists ==
    ASSUME NEW S, NEW seqs \in Seq(Seq(S))
    PROVE  \E flat \in [0..Len(seqs) -> Seq(S)] : Flattens(flat, seqs, Len(seqs))
<1>. DEFINE step == [x \in Seq(S) \X (1..Len(seqs)) |-> x[1] \o seqs[x[2]]]
<1>1. Len(seqs) \in Nat /\ << >> \in Seq(S) /\ \A i \in 1..Len(seqs) : seqs[i] \in Seq(S)
  OBVIOUS
<1>2. step \in Steps(Seq(S), Len(seqs))
  BY <1>1 DEF Steps
<1>3. \A x \in Seq(S), i \in 1..Len(seqs) : step[<<x, i>>] = x \o seqs[i]
  OBVIOUS
<1>. HIDE DEF step
<1>4. PICK flat : IsRun(flat, Seq(S), Len(seqs), << >>, step)
  BY <1>1, <1>2, Recursion
<1>5. ASSUME NEW i \in 1..Len(seqs)  PROVE flat[i - 1] \in Seq(S)
  <2>1. i - 1 \in 0..Len(seqs)
    BY <1>1
  <2>. QED
    BY <1>4, <2>1 DEF IsRun
<1>. QED
  BY <1>3, <1>4, <1>5 DEF IsRun, Flattens

(* Concatenating one sequence more appends it to the rest. *)
LEMMA FlattenAppend ==
    ASSUME NEW S, NEW seqs \in Seq(Seq(S)), NEW x \in Seq(S)
    PROVE  /\ FlattenSeq(seqs) \in Seq(S)
           /\ FlattenSeq(Append(seqs, x)) = FlattenSeq(seqs) \o x
<1>. DEFINE more == Append(seqs, x)
            n == Len(seqs)
<1>1. /\ more \in Seq(Seq(S)) /\ Len(more) = n + 1 /\ n \in Nat /\ more[n + 1] = x
      /\ \A i \in 1..n : more[i] = seqs[i]
  OBVIOUS
<1>. HIDE DEF more
<1>2. PICK flat \in [0..n + 1 -> Seq(S)] : Flattens(flat, more, n + 1)
  BY <1>1, FlattenExists
<1>3. Flattens(flat, seqs, n)
  <2>1. flat[0] = << >> /\ \A i \in 1..n + 1 : flat[i] = flat[i - 1] \o more[i]
    BY <1>2 DEF Flattens
  <2>2. \A i \in 1..n : i \in 1..n + 1 /\ more[i] = seqs[i]
    BY <1>1
  <2>3. \A i \in 1..n : flat[i] = flat[i - 1] \o seqs[i]
    BY <2>1, <2>2
  <2>. QED
    BY <2>1, <2>3 DEF Flattens
<1>4. n + 1 \in Nat /\ n <= n + 1 /\ n + 1 <= n + 1
  BY <1>1
<1>5. FlattenSeq(seqs) = flat[n]
  BY <1>2, <1>3, <1>4, FlattenRun
<1>6. FlattenSeq(more) = flat[n + 1]
  BY <1>1, <1>2, <1>4, FlattenRun
<1>7. flat[n + 1] = flat[n] \o more[n + 1]
  <2>1. n + 1 \in 1..n + 1
    BY <1>1
  <2>2. \A i \in 1..n + 1 : flat[i] = flat[i - 1] \o more[i]
    BY <1>2 DEF Flattens
  <2>. DEFINE j == n + 1
  <2>3. j \in 1..n + 1 /\ j - 1 = n
    BY <1>1, <2>1
  <2>. HIDE DEF j
  <2>4. flat[j] = flat[j - 1] \o more[j]
    BY <2>2, <2>3
  <2>. QED
    BY <2>3, <2>4 DEF j
<1>8. n \in 0..n + 1
  BY <1>1
<1>. QED
  BY <1>1, <1>2, <1>5, <1>6, <1>7, <1>8 DEF more

(* No sequences concatenate to the empty one. *)
LEMMA FlattenEmpty == FlattenSeq(<< >>) = << >>
BY DEF FlattenSeq

-----------------------------------------------------------------------------
(* Remainders and parity. *)

(* A multiple of m strictly between -m and m is zero. *)
LEMMA Times ==
    ASSUME NEW m \in Nat \ {0}, NEW k \in Int, -m < m * k, m * k < m
    PROVE  k = 0
<1>1. CASE k >= 1
  <2>1. k - 1 \in Nat
    BY <1>1
  <2>2. m * k = m * (k - 1) + m /\ m * (k - 1) >= 0
    BY <2>1
  <2>. QED
    BY <2>2
<1>2. CASE k <= -1
  <2>1. -1 - k \in Nat
    BY <1>2
  <2>2. m * k = -(m * (-1 - k)) - m /\ m * (-1 - k) >= 0
    BY <2>1
  <2>. QED
    BY <2>2
<1>. QED
  BY <1>1, <1>2

(* Quotient and remainder are unique. *)
LEMMA ModUnique ==
    ASSUME NEW m \in Nat \ {0}, NEW q \in Int, NEW r \in 0..m - 1, NEW x \in Nat, x = m * q + r
    PROVE  x % m = r
<1>. DEFINE p == x \div m
            s == x % m
<1>1. p \in Int /\ s \in 0..m - 1 /\ x = m * p + s
  OBVIOUS
<1>. HIDE DEF p, s
<1>2. m * (q - p) = s - r
  BY <1>1
<1>3. q - p = 0
  BY <1>1, <1>2, Times
<1>4. s = r
  BY <1>1, <1>2, <1>3
<1>. QED
  BY <1>4 DEF s

(* The remainder of a successor depends on the remainder. *)
LEMMA ModNext == ASSUME NEW m \in Nat \ {0}, NEW x \in Nat PROVE ((x % m) + 1) % m = (x + 1) % m
<1>. DEFINE q == x \div m
            r == x % m
<1>1. q \in Int /\ r \in 0..m - 1 /\ x = m * q + r
  OBVIOUS
<1>. HIDE DEF q, r
<1>2. CASE r = m - 1
  <2>1. x + 1 = m * (q + 1) + 0
    BY <1>1, <1>2
  <2>2. (x + 1) % m = 0
    BY <1>1, <2>1, ModUnique
  <2>. QED
    BY <1>1, <1>2, <2>2 DEF r
<1>3. CASE r # m - 1
  <2>1. x + 1 = m * q + (r + 1) /\ r + 1 \in 0..m - 1
    BY <1>1, <1>3
  <2>2. (x + 1) % m = r + 1
    BY <1>1, <2>1, ModUnique
  <2>3. (r + 1) % m = r + 1
    BY <2>1
  <2>. QED
    BY <2>2, <2>3 DEF r
<1>. QED
  BY <1>2, <1>3

Odd(S) == Cardinality(S) % 2 = 1

(* One element more makes an odd set even, and an even one odd. *)
LEMMA OddOneMore ==
    ASSUME NEW S, IsFiniteSet(S), NEW x, x \notin S
    PROVE  Odd(S \cup {x}) <=> ~Odd(S)
<1>1. Cardinality(S) \in Nat /\ Cardinality(S \cup {x}) = Cardinality(S) + 1
  BY FS_AddElement, FS_CardinalityType
<1>2. \A n \in Nat : (n + 1) % 2 = 1 <=> ~(n % 2 = 1)
  OBVIOUS
<1>. QED
  BY <1>1, <1>2 DEF Odd

-----------------------------------------------------------------------------
(* The rolling hash. *)

(* The bit a rotation by one takes to this bit. *)
Before(bit) == IF bit = 0 THEN WordSize - 1 ELSE bit - 1

(* A rotation by one takes each bit from the place before it               *)
(* (bits.RotateLeft32).                                                    *)
LEMMA RotateOnce ==
    ASSUME NEW h \in Word, NEW bit \in 0..WordSize - 1
    PROVE  /\ Before(bit) \in 0..WordSize - 1
           /\ bit \in Rotate(h, 1) <=> Before(bit) \in h
<1>1. WordSize \in Nat \ {0}
  BY ChunkerAssumption
<1>2. Before(bit) \in 0..WordSize - 1
  BY <1>1 DEF Before
<1>3. \A b \in 0..WordSize - 1 : (b + 1) % WordSize = IF b = WordSize - 1 THEN 0 ELSE b + 1
  <2>. TAKE b \in 0..WordSize - 1
  <2>1. CASE b = WordSize - 1
    <3>1. b + 1 = WordSize
      BY <1>1, <2>1
    <3>2. WordSize % WordSize = 0
      BY <1>1
    <3>. QED
      BY <2>1, <3>1, <3>2
  <2>2. CASE b # WordSize - 1
    <3>1. b + 1 \in 0..WordSize - 1
      BY <1>1, <2>2
    <3>2. \A x \in 0..WordSize - 1 : x % WordSize = x
      BY <1>1
    <3>. QED
      BY <2>2, <3>1, <3>2
  <2>. QED
    BY <2>1, <2>2
<1>4. \A b \in 0..WordSize - 1 : (b + 1) % WordSize = bit <=> b = Before(bit)
  BY <1>1, <1>3 DEF Before
<1>5. h \subseteq 0..WordSize - 1
  BY DEF Word
<1>6. bit \in Rotate(h, 1) <=> \E b \in h : (b + 1) % WordSize = bit
  BY DEF Rotate
<1>7. bit \in Rotate(h, 1) <=> Before(bit) \in h
  BY <1>4, <1>5, <1>6
<1>. QED
  BY <1>2, <1>7

(* Rotations are of words, and add up. *)
LEMMA RotateWord ==
    ASSUME NEW h \in Word, NEW n \in Nat
    PROVE  /\ Rotate(h, n) \in Word
           /\ Rotate(Rotate(h, n), 1) = Rotate(h, n + 1)
           /\ Rotate(h, 0) = h
<1>1. WordSize \in Nat \ {0} /\ \A b \in h : b \in Nat /\ b < WordSize
  BY ChunkerAssumption DEF Word
<1>2. \A x \in Nat : x % WordSize \in 0..WordSize - 1
  BY <1>1
<1>3. \A b \in h : (b + n) % WordSize \in 0..WordSize - 1
  BY <1>1, <1>2
<1>4. Rotate(h, n) \in Word
  BY <1>3 DEF Rotate, Word
<1>5. \A b \in h : (((b + n) % WordSize) + 1) % WordSize = (b + (n + 1)) % WordSize
  <2>. TAKE b \in h
  <2>1. b + n \in Nat /\ (b + n) + 1 = b + (n + 1)
    BY <1>1
  <2>. QED
    BY <1>1, <2>1, ModNext
<1>6. Rotate(Rotate(h, n), 1) = {(((b + n) % WordSize) + 1) % WordSize : b \in h}
  BY DEF Rotate
<1>7. Rotate(Rotate(h, n), 1) = Rotate(h, n + 1)
  BY <1>5, <1>6 DEF Rotate
<1>8. \A b \in h : (b + 0) % WordSize = b
  BY <1>1
<1>9. Rotate(h, 0) = h
  BY <1>8 DEF Rotate
<1>. QED
  BY <1>4, <1>7, <1>9

(* The bytes from first to i that contribute a bit to the hash at i. *)
Contribute(data, first, i, bit) ==
    {j \in first..i : bit \in Rotate(HashTable[data[j]], i - j)}

WindowFirst(start, i) == IF i - start >= WindowSize THEN i - WindowSize + 1 ELSE start

(* A bit of a window's hash is set when an odd number of its bytes set it, *)
(* which is what XOR does.                                                 *)
LEMMA WindowBit ==
    ASSUME NEW data, NEW start, NEW i, NEW bit \in 0..WordSize - 1
    PROVE  bit \in WindowHash(data, start, i) <=> Odd(Contribute(data, WindowFirst(start, i), i, bit))
BY DEF WindowHash, WindowFirst, Contribute, Odd

(* Finitely many bytes of a window set a bit. *)
LEMMA ContributeFinite ==
    ASSUME NEW data, NEW first \in Int, NEW i \in Int, NEW bit
    PROVE  IsFiniteSet(Contribute(data, first, i, bit))
<1>1. IsFiniteSet(first..i)
  BY FS_Interval
<1>. QED
  BY <1>1, FS_Subset DEF Contribute

(* Every byte of a line has a word in the hash table. *)
LEMMA HashOfByte ==
    ASSUME NEW data \in Text, NEW j \in 1..Len(data)
    PROVE  HashTable[data[j]] \in Word
<1>1. data[j] \in DOMAIN HashTable
  BY DEF Text
<1>. QED
  BY <1>1, ChunkerAssumption DEF Word

(* The bytes that set the bit before this one are, a byte later, those     *)
(* that set this one: all of them have been rotated once more.             *)
LEMMA ContributeRotated ==
    ASSUME NEW data \in Text, NEW i \in 1..Len(data), NEW first \in 1..i,
           NEW bit \in 0..WordSize - 1
    PROVE  Contribute(data, first, i - 1, Before(bit))
             = {j \in first..i - 1 : bit \in Rotate(HashTable[data[j]], i - j)}
<1>1. ASSUME NEW j \in first..i - 1
      PROVE  Before(bit) \in Rotate(HashTable[data[j]], i - 1 - j)
               <=> bit \in Rotate(HashTable[data[j]], i - j)
  <2>1. HashTable[data[j]] \in Word
    BY HashOfByte
  <2>2. i - 1 - j \in Nat /\ i - 1 - j + 1 = i - j
    OBVIOUS
  <2>3. /\ Rotate(HashTable[data[j]], i - 1 - j) \in Word
        /\ Rotate(Rotate(HashTable[data[j]], i - 1 - j), 1) = Rotate(HashTable[data[j]], i - j)
    BY <2>1, <2>2, RotateWord
  <2>. QED
    BY <2>3, RotateOnce
<1>. QED
  BY <1>1 DEF Contribute

(* The rolling update (rotate, add the new byte, remove the one that       *)
(* leaves the window, RollingHash.Roll) yields the hash of the window:     *)
(* from that of the window before it.                                      *)
LEMMA RollIsWindowHash ==
    ASSUME NEW data \in Text, NEW i \in 1..Len(data), NEW start \in 1..i
    PROVE  Roll(data, start, WindowHash(data, start, i - 1), i) = WindowHash(data, start, i)
<1>. DEFINE old == WindowHash(data, start, i - 1)
            first == WindowFirst(start, i - 1)
            entered == Xor(Rotate(old, 1), HashTable[data[i]])
            out == OutTable(data[i - WindowSize])
<1>1. i \in Nat /\ start \in Nat /\ 1 <= start /\ start <= i /\ WindowSize \in Nat \ {0}
  BY ChunkerAssumption
<1>2. first \in 1..i
  BY <1>1 DEF WindowFirst
<1>3. old \in Word /\ HashTable[data[i]] \in Word
  BY HashOfByte DEF WindowHash, Word
<1>4. Rotate(old, 1) \in Word
  BY <1>3, RotateWord
<1>5. WindowHash(data, start, i) \in Word
  BY DEF WindowHash, Word
<1>6. i - start >= WindowSize => i - WindowSize \in 1..Len(data) /\ out \in Word
  BY <1>1, HashOfByte, RotateWord DEF OutTable
<1>7. Roll(data, start, old, i) = IF i - start >= WindowSize THEN Xor(entered, out) ELSE entered
  BY DEF Roll
<1>8. Roll(data, start, old, i) \in Word
  BY <1>3, <1>4, <1>6, <1>7 DEF Xor, Word
<1>9. ASSUME NEW bit \in 0..WordSize - 1
      PROVE  bit \in Roll(data, start, old, i) <=> bit \in WindowHash(data, start, i)
  <2>. DEFINE E == {j \in first..i - 1 : bit \in Rotate(HashTable[data[j]], i - j)}
              K == {j \in WindowFirst(start, i)..i - 1 : bit \in Rotate(HashTable[data[j]], i - j)}
              C == Contribute(data, WindowFirst(start, i), i, bit)
  <2>1. Before(bit) \in 0..WordSize - 1 /\ (bit \in Rotate(old, 1) <=> Before(bit) \in old)
    BY <1>3, RotateOnce
  <2>2. bit \in Rotate(old, 1) <=> Odd(E)
    <3>1. Before(bit) \in old <=> Odd(Contribute(data, first, i - 1, Before(bit)))
      BY <2>1, WindowBit
    <3>2. Contribute(data, first, i - 1, Before(bit)) = E
      BY <1>2, ContributeRotated
    <3>. QED
      BY <2>1, <3>1, <3>2
  <2>3. IsFiniteSet(E) /\ IsFiniteSet(K)
    <3>1. WindowFirst(start, i) \in Int /\ first \in Int /\ i - 1 \in Int
      BY <1>1, <1>2 DEF WindowFirst
    <3>2. IsFiniteSet(first..i - 1) /\ IsFiniteSet(WindowFirst(start, i)..i - 1)
      BY <3>1, FS_Interval
    <3>. QED
      BY <3>2, FS_Subset
  <2>4. C = IF bit \in HashTable[data[i]] THEN K \cup {i} ELSE K
    <3>1. Rotate(HashTable[data[i]], i - i) = HashTable[data[i]]
      <4>1. i - i = 0 /\ 0 \in Nat
        BY <1>1
      <4>2. Rotate(HashTable[data[i]], 0) = HashTable[data[i]]
        BY <1>3, <4>1, RotateWord
      <4>. QED
        BY <4>1, <4>2
    <3>2. WindowFirst(start, i) \in 1..i
      BY <1>1 DEF WindowFirst
    <3>. QED
      BY <1>1, <3>1, <3>2 DEF Contribute
  <2>5. i \notin K
    BY <1>1
  <2>6. bit \in WindowHash(data, start, i) <=> (Odd(K) <=> bit \notin HashTable[data[i]])
    <3>1. bit \in WindowHash(data, start, i) <=> Odd(C)
      BY WindowBit
    <3>. HIDE DEF C, K
    <3>2. Odd(K \cup {i}) <=> ~Odd(K)
      BY <2>3, <2>5, OddOneMore
    <3>. QED
      BY <2>4, <3>1, <3>2
  <2>7. CASE i - start < WindowSize
    <3>1. first = start /\ WindowFirst(start, i) = start
      BY <1>1, <2>7 DEF WindowFirst
    <3>2. E = K
      BY <3>1
    <3>3. ~(i - start >= WindowSize)
      BY <1>1, <2>7
    <3>4. bit \in Roll(data, start, old, i) <=> (Odd(E) <=> bit \notin HashTable[data[i]])
      BY <1>7, <2>2, <3>3 DEF Xor
    <3>. QED
      BY <2>6, <3>2, <3>4
  <2>8. CASE i - start >= WindowSize
    <3>1. first = i - WindowSize /\ WindowFirst(start, i) = i - WindowSize + 1
      BY <1>1, <2>8 DEF WindowFirst
    <3>2. bit \in out <=> bit \in Rotate(HashTable[data[i - WindowSize]], i - (i - WindowSize))
      BY <1>1 DEF OutTable
    <3>3. E = (IF bit \in out THEN K \cup {i - WindowSize} ELSE K) /\ i - WindowSize \notin K
      BY <1>1, <3>1, <3>2
    <3>4. Odd(E) <=> (Odd(K) <=> bit \notin out)
      <4>. HIDE DEF E, K
      <4>1. Odd(K \cup {i - WindowSize}) <=> ~Odd(K)
        BY <2>3, <3>3, OddOneMore
      <4>. QED
        BY <3>3, <4>1
    <3>5. bit \in Roll(data, start, old, i)
            <=> ((Odd(E) <=> bit \notin HashTable[data[i]]) <=> bit \notin out)
      BY <1>7, <2>2, <2>8 DEF Xor
    <3>. QED
      BY <2>6, <3>4, <3>5
  <2>. QED
    BY <1>1, <2>7, <2>8
<1>. QED
  BY <1>5, <1>8, <1>9 DEF Word

-----------------------------------------------------------------------------
(* The loop of chunk. *)

LoopState == [start : Nat \ {0}, hash : Word, ends : Seq(Nat \ {0})]
Fresh == [start |-> 1, hash |-> {}, ends |-> << >>]

(* The rolling hash is a word. *)
LEMMA RollWord ==
    ASSUME NEW data \in Text, NEW i \in 1..Len(data), NEW start \in Nat \ {0}, NEW h \in Word
    PROVE  Roll(data, start, h, i) \in Word
<1>1. Rotate(h, 1) \in Word /\ HashTable[data[i]] \in Word
  BY RotateWord, HashOfByte
<1>2. ASSUME i - start >= WindowSize  PROVE OutTable(data[i - WindowSize]) \in Word
  <2>1. i - WindowSize \in 1..Len(data) /\ WindowSize \in Nat
    BY <1>2, ChunkerAssumption
  <2>. QED
    BY <2>1, HashOfByte, RotateWord DEF OutTable
<1>. QED
  BY <1>1, <1>2 DEF Roll, Xor, Word

(* A turn of the loop of chunkLine keeps the types of its state. *)
LEMMA CutAtType ==
    ASSUME NEW data \in Text, NEW i \in 1..Len(data), NEW c \in LoopState
    PROVE  CutAt(data, c, i) \in LoopState
<1>1. Roll(data, c.start, c.hash, i) \in Word /\ {} \in Word
  BY RollWord DEF LoopState, Word
<1>. DEFINE h == Roll(data, c.start, c.hash, i)
<1>2. [start |-> i + 1, hash |-> {}, ends |-> Append(c.ends, i)] \in LoopState
  BY <1>1 DEF LoopState
<1>3. [c EXCEPT !.hash = h] \in LoopState
  <2>. HIDE DEF h
  <2>. QED
    BY <1>1 DEF LoopState, h
<1>. QED
  BY <1>2, <1>3 DEF CutAt

IsLoop(f, data) ==
    f = [i \in 0..Len(data) |->
           IF i = 0 THEN {[start |-> 1, hash |-> {}, ends |-> << >>]}
           ELSE {CutAt(data, c, i) : c \in f[i - 1]}]

(* c is what the loop goes through. *)
Loops(c, data) ==
    /\ c \in [0..Len(data) -> LoopState] /\ c[0] = Fresh
    /\ \A i \in 1..Len(data) : c[i] = CutAt(data, c[i - 1], i)

LastEnds(c, n) == c.ends \o (IF c.start <= n THEN <<n>> ELSE << >>)

(* The chunker's recursive function is a run of such states, one for each  *)
(* byte, and the last chunk.                                               *)
LEMMA ChunkLoop ==
    ASSUME NEW data \in Text
    PROVE  \E c : /\ Loops(c, data)
                  /\ Chunk[data] = IF Len(data) <= MinChunk THEN <<Len(data)>>
                                   ELSE LastEnds(c[Len(data)], Len(data))
<1>. DEFINE n == Len(data)
            step == [x \in LoopState \X (1..Len(data)) |-> CutAt(data, x[1], x[2])]
            after == CHOOSE f : IsLoop(f, data)
<1>1. Len(data) \in Nat
  BY DEF Text
<1>2. step \in Steps(LoopState, Len(data))
  BY CutAtType DEF Steps
<1>3. \A x \in LoopState, i \in 1..Len(data) : step[<<x, i>>] = CutAt(data, x, i)
  OBVIOUS
<1>4. Fresh \in LoopState
  BY DEF Fresh, LoopState, Word
<1>. HIDE DEF step
<1>5. PICK c : IsRun(c, LoopState, Len(data), Fresh, step)
  BY <1>1, <1>2, <1>4, Recursion
<1>6. c \in [0..Len(data) -> LoopState] /\ c[0] = Fresh
  BY <1>5 DEF IsRun
<1>7. \A i \in 1..Len(data) : c[i - 1] \in LoopState
  BY <1>1, <1>6
<1>8. \A i \in 1..Len(data) : c[i] = CutAt(data, c[i - 1], i)
  BY <1>3, <1>5, <1>7 DEF IsRun
<1>9. Loops(c, data)
  BY <1>6, <1>8 DEF Loops
<1>. DEFINE g == [i \in 0..Len(data) |-> {c[i]}]
<1>10. IsLoop(g, data)
  <2>1. \A i \in 1..Len(data) : g[i] = {CutAt(data, d, i) : d \in g[i - 1]}
    <3>. TAKE i \in 1..Len(data)
    <3>1. g[i - 1] = {c[i - 1]} /\ g[i] = {c[i]}
      BY <1>1
    <3>. QED
      BY <1>8, <3>1
  <2>2. g[0] = {[start |-> 1, hash |-> {}, ends |-> << >>]}
    <3>1. g[0] = {c[0]}
      BY <1>1
    <3>. HIDE DEF g
    <3>2. g[0] = {Fresh}
      BY <1>6, <3>1
    <3>. QED
      BY <3>2 DEF Fresh
  <2>3. g = [i \in 0..Len(data) |-> g[i]]
    OBVIOUS
  <2>. HIDE DEF g
  <2>. QED
    BY <1>1, <2>1, <2>2, <2>3 DEF IsLoop
<1>11. IsLoop(after, data)
  BY <1>10
<1>12. Chunk[data] = LET all == CHOOSE d \in after[Len(data)] : TRUE
                     IN IF Len(data) <= MinChunk THEN <<Len(data)>>
                        ELSE all.ends \o (IF all.start <= Len(data) THEN <<Len(data)>> ELSE << >>)
  BY DEF Chunk, IsLoop, Text
<1>. HIDE DEF after
<1>13. after[0] = {Fresh} /\ \A i \in 1..Len(data) : after[i] = {CutAt(data, d, i) : d \in after[i - 1]}
  <2>1. 0 \in 0..Len(data)
    BY <1>1
  <2>2. after[0] = {[start |-> 1, hash |-> {}, ends |-> << >>]}
    BY <1>11, <2>1 DEF IsLoop
  <2>3. ASSUME NEW i \in 1..Len(data)  PROVE after[i] = {CutAt(data, d, i) : d \in after[i - 1]}
    <3>1. i \in 0..Len(data) /\ i # 0
      BY <1>1
    <3>. QED
      BY <1>11, <3>1 DEF IsLoop
  <2>. QED
    BY <2>2, <2>3 DEF Fresh
<1>. DEFINE T == {i \in 0..Len(data) : after[i] = {c[i]}}
<1>14. 0..Len(data) \subseteq T
  <2>1. 0 \in T
    BY <1>1, <1>6, <1>13
  <2>2. ASSUME NEW i \in 1..Len(data), i - 1 \in T  PROVE i \in T
    BY <1>1, <1>8, <1>13, <2>2
  <2>. HIDE DEF T
  <2>. QED
    BY <1>1, <2>1, <2>2, Induction
<1>15. after[Len(data)] = {c[Len(data)]}
  BY <1>1, <1>14
<1>16. (CHOOSE d \in after[Len(data)] : TRUE) = c[Len(data)]
  BY <1>15
<1>. QED
  BY <1>9, <1>12, <1>16 DEF LastEnds

(* The hash of no bytes is zero, as the chunker's is after a reset. *)
LEMMA WindowEmpty ==
    ASSUME NEW data, NEW i \in Nat
    PROVE  WindowHash(data, i + 1, i) = {}
<1>1. WindowFirst(i + 1, i) = i + 1
  BY ChunkerAssumption DEF WindowFirst
<1>2. \A bit \in 0..WordSize - 1 : Contribute(data, i + 1, i, bit) = {}
  BY DEF Contribute
<1>3. ~Odd({})
  <2>1. Cardinality({}) = 0
    BY FS_EmptySet
  <2>. QED
    BY <2>1 DEF Odd
<1>4. \A bit \in 0..WordSize - 1 : bit \notin WindowHash(data, i + 1, i)
  BY <1>1, <1>2, <1>3, WindowBit
<1>. QED
  BY <1>4 DEF WindowHash

(* A chunk that begins at start may end at i. *)
Cut(data, start, i) == IsCut(i - start + 1, data[i], WindowHash(data, start, i))

(* The chunk from start to end: the first place it may end at. *)
IsChunk(data, start, end) ==
    /\ 1 <= start /\ start <= end /\ Cut(data, start, end)
    /\ \A j \in start..end - 1 : ~Cut(data, start, j)

(* The loop after i bytes: it is in a chunk that cannot end yet, behind    *)
(* complete ones.                                                          *)
LoopInv(data, c, i) ==
    /\ c.start \in 1..i + 1
    /\ c.hash = WindowHash(data, c.start, i)
    /\ c.start = IF c.ends = << >> THEN 1 ELSE c.ends[Len(c.ends)] + 1
    /\ \A k \in DOMAIN c.ends :
         c.ends[k] <= i /\ IsChunk(data, ChunkStart(c.ends, k), c.ends[k])
    /\ \A j \in c.start..i : ~Cut(data, c.start, j)

(* A turn of the loop keeps LoopInv. *)
LEMMA LoopStep ==
    ASSUME NEW data \in Text, NEW i \in 1..Len(data), NEW c \in LoopState, LoopInv(data, c, i - 1)
    PROVE  LoopInv(data, CutAt(data, c, i), i)
<1>. DEFINE d == CutAt(data, c, i)
<1>1. i \in Nat /\ i >= 1 /\ i <= Len(data) /\ c.start \in 1..i /\ c.start \in Nat
  BY DEF LoopInv, Text
<1>2. Roll(data, c.start, c.hash, i) = WindowHash(data, c.start, i)
  BY <1>1, RollIsWindowHash DEF LoopInv
<1>3. d = IF Cut(data, c.start, i)
          THEN [start |-> i + 1, hash |-> {}, ends |-> Append(c.ends, i)]
          ELSE [c EXCEPT !.hash = WindowHash(data, c.start, i)]
  BY <1>2 DEF CutAt, Cut
<1>4. d \in LoopState /\ c.ends \in Seq(Nat \ {0}) /\ DOMAIN c = {"start", "hash", "ends"}
  BY CutAtType DEF LoopState
<1>5. \A j \in c.start..i - 1 : ~Cut(data, c.start, j)
  BY DEF LoopInv
<1>6. CASE Cut(data, c.start, i)
  <2>1. d.start = i + 1 /\ d.hash = {} /\ d.ends = Append(c.ends, i)
    BY <1>3, <1>6
  <2>. HIDE DEF d
  <2>2. Len(d.ends) = Len(c.ends) + 1 /\ DOMAIN d.ends = 1..Len(c.ends) + 1
        /\ d.ends[Len(c.ends) + 1] = i /\ Len(c.ends) \in Nat
        /\ \A k \in 1..Len(c.ends) : d.ends[k] = c.ends[k]
    BY <1>1, <1>4, <2>1
  <2>3. d.start = d.ends[Len(d.ends)] + 1 /\ d.ends # << >>
    <3>1. d.ends # << >>
      BY <2>2
    <3>. QED
      BY <2>1, <2>2, <3>1
  <2>4. ASSUME NEW k \in DOMAIN d.ends
        PROVE  d.ends[k] <= i /\ IsChunk(data, ChunkStart(d.ends, k), d.ends[k])
    <3>1. CASE k \in 1..Len(c.ends)
      <4>1. ChunkStart(d.ends, k) = ChunkStart(c.ends, k)
        BY <1>4, <2>2, <3>1 DEF ChunkStart
      <4>2. k \in DOMAIN c.ends
        BY <1>4, <3>1
      <4>3. c.ends[k] <= i - 1 /\ c.ends[k] \in Nat /\ d.ends[k] = c.ends[k]
        BY <1>4, <2>2, <3>1, <4>2 DEF LoopInv
      <4>. QED
        BY <1>1, <4>1, <4>2, <4>3 DEF LoopInv
    <3>2. CASE k = Len(c.ends) + 1
      <4>1. ChunkStart(d.ends, k) = c.start
        <5>1. c.start = IF c.ends = << >> THEN 1 ELSE c.ends[Len(c.ends)] + 1
          BY DEF LoopInv
        <5>2. CASE c.ends = << >>
          BY <2>2, <3>2, <5>1, <5>2 DEF ChunkStart
        <5>3. CASE c.ends # << >>
          <6>1. Len(c.ends) >= 1
            BY <1>4, <5>3
          <6>. QED
            BY <2>2, <3>2, <5>1, <5>3, <6>1 DEF ChunkStart
        <5>. QED
          BY <5>2, <5>3
      <4>2. IsChunk(data, c.start, i)
        BY <1>1, <1>5, <1>6 DEF IsChunk
      <4>. QED
        BY <1>1, <2>2, <3>2, <4>1, <4>2
    <3>. QED
      BY <2>2, <3>1, <3>2
  <2>5. d.hash = WindowHash(data, d.start, i)
    BY <1>1, <2>1, WindowEmpty
  <2>6. \A j \in d.start..i : ~Cut(data, d.start, j)
    BY <1>1, <2>1
  <2>7. d.start \in 1..i + 1
    BY <1>1, <2>1
  <2>. QED
    BY <2>3, <2>4, <2>5, <2>6, <2>7 DEF LoopInv, d
<1>7. CASE ~Cut(data, c.start, i)
  <2>1. d.start = c.start /\ d.hash = WindowHash(data, c.start, i) /\ d.ends = c.ends
    BY <1>3, <1>4, <1>7
  <2>. HIDE DEF d
  <2>2. \A j \in c.start..i : ~Cut(data, c.start, j)
    <3>1. \A j \in c.start..i : j \in c.start..i - 1 \/ j = i
      BY <1>1
    <3>. QED
      BY <1>5, <1>7, <3>1
  <2>3. d.start \in 1..i + 1
    BY <1>1, <2>1
  <2>4. ASSUME NEW k \in DOMAIN d.ends
        PROVE  d.ends[k] <= i /\ IsChunk(data, ChunkStart(d.ends, k), d.ends[k])
    <3>1. d.ends[k] \in Nat /\ d.ends[k] <= i - 1
      BY <1>4, <2>1 DEF LoopInv
    <3>. QED
      BY <1>1, <2>1, <3>1 DEF LoopInv
  <2>. QED
    BY <2>1, <2>2, <2>3, <2>4 DEF LoopInv, d
<1>. QED
  BY <1>6, <1>7

(* LoopInv holds at every byte, by induction over the bytes. *)
LEMMA LoopInvariant ==
    ASSUME NEW data \in Text, NEW c, Loops(c, data), NEW i \in 0..Len(data)
    PROVE  LoopInv(data, c[i], i)
<1>. DEFINE T == {j \in 0..Len(data) : LoopInv(data, c[j], j)}
<1>1. Len(data) \in Nat
  BY DEF Text
<1>2. 0 \in T
  <2>1. c[0] = Fresh
    BY DEF Loops
  <2>2. WindowHash(data, 0 + 1, 0) = {}
    BY WindowEmpty
  <2>3. LoopInv(data, Fresh, 0)
    BY <2>2 DEF LoopInv, Fresh
  <2>. QED
    BY <1>1, <2>1, <2>3
<1>3. ASSUME NEW j \in 1..Len(data), j - 1 \in T  PROVE j \in T
  <2>1. c[j - 1] \in LoopState /\ c[j] = CutAt(data, c[j - 1], j)
    BY <1>1 DEF Loops
  <2>2. LoopInv(data, c[j], j)
    BY <1>3, <2>1, LoopStep
  <2>. QED
    BY <1>1, <2>2
<1>. HIDE DEF T
<1>4. 0..Len(data) \subseteq T
  BY <1>1, <1>2, <1>3, Induction
<1>. QED
  BY <1>4 DEF T

(* The loop leaves its chunks and, when bytes follow them, a last one. *)
LEMMA LastEndsAre ==
    ASSUME NEW c \in LoopState, NEW n \in Nat \ {0}
    PROVE  /\ LastEnds(c, n) = IF c.start <= n THEN Append(c.ends, n) ELSE c.ends
           /\ LastEnds(c, n) \in Seq(Nat \ {0})
<1>1. c.ends \in Seq(Nat \ {0})
  BY DEF LoopState
<1>2. c.ends \o <<n>> = Append(c.ends, n) /\ c.ends \o << >> = c.ends
  BY <1>1
<1>3. Append(c.ends, n) \in Seq(Nat \ {0})
  BY <1>1
<1>4. CASE c.start <= n
  BY <1>2, <1>3, <1>4 DEF LastEnds
<1>5. CASE ~(c.start <= n)
  BY <1>1, <1>2, <1>5 DEF LastEnds
<1>. QED
  BY <1>4, <1>5

(* What the loop leaves, with the rest of the line behind it. *)
LEMMA LastChunks ==
    ASSUME NEW data \in Text, Len(data) >= 1, NEW c \in LoopState, LoopInv(data, c, Len(data)),
           NEW ends, ends = LastEnds(c, Len(data))
    PROVE  /\ ends \in Seq(Nat \ {0}) /\ ends # << >> /\ ends[Len(ends)] = Len(data)
           /\ \A k \in DOMAIN ends :
                LET start == ChunkStart(ends, k)
                IN \/ ends[k] <= Len(data) /\ IsChunk(data, start, ends[k])
                   \/ /\ ends[k] = Len(data) /\ 1 <= start /\ start <= Len(data)
                      /\ \A j \in start..Len(data) : ~Cut(data, start, j)
<1>. DEFINE n == Len(data)
            m == Len(c.ends)
<1>1. n \in Nat \ {0} /\ c.ends \in Seq(Nat \ {0}) /\ c.start \in 1..n + 1 /\ m \in Nat
  BY DEF Text, LoopState, LoopInv
<1>2. ends \in Seq(Nat \ {0}) /\ ends = IF c.start <= n THEN Append(c.ends, n) ELSE c.ends
  BY <1>1, LastEndsAre
<1>3. c.start = IF c.ends = << >> THEN 1 ELSE c.ends[m] + 1
  BY DEF LoopInv
<1>4. \A k \in DOMAIN c.ends : c.ends[k] <= n /\ IsChunk(data, ChunkStart(c.ends, k), c.ends[k])
  BY DEF LoopInv
<1>5. \A j \in c.start..n : ~Cut(data, c.start, j)
  BY DEF LoopInv
<1>. HIDE DEF n
<1>6. CASE c.start <= n
  <2>1. ends = Append(c.ends, n)
    BY <1>2, <1>6
  <2>2. Len(ends) = m + 1 /\ DOMAIN ends = 1..m + 1 /\ ends[m + 1] = n
        /\ \A k \in 1..m : ends[k] = c.ends[k] /\ k \in DOMAIN c.ends
    BY <1>1, <2>1
  <2>3. \A k \in 1..m : ChunkStart(ends, k) = ChunkStart(c.ends, k)
    BY <2>2 DEF ChunkStart
  <2>4. ChunkStart(ends, m + 1) = c.start
    <3>1. CASE c.ends = << >>
      BY <1>3, <3>1 DEF ChunkStart
    <3>2. CASE c.ends # << >>
      <4>1. m >= 1
        BY <1>1, <3>2
      <4>. QED
        BY <1>1, <1>3, <2>2, <3>2, <4>1 DEF ChunkStart
    <3>. QED
      BY <3>1, <3>2
  <2>5. ends # << >>
    BY <1>1, <2>2
  <2>6. ASSUME NEW k \in DOMAIN ends
        PROVE  \/ ends[k] <= n /\ IsChunk(data, ChunkStart(ends, k), ends[k])
               \/ /\ ends[k] = n /\ 1 <= ChunkStart(ends, k) /\ ChunkStart(ends, k) <= n
                  /\ \A j \in ChunkStart(ends, k)..n : ~Cut(data, ChunkStart(ends, k), j)
    <3>1. CASE k \in 1..m
      BY <1>4, <2>2, <2>3, <3>1
    <3>2. CASE k = m + 1
      BY <1>1, <1>5, <1>6, <2>2, <2>4, <3>2
    <3>. QED
      BY <1>1, <2>2, <3>1, <3>2
  <2>. QED
    BY <1>2, <2>2, <2>5, <2>6 DEF n
<1>7. CASE ~(c.start <= n)
  <2>1. ends = c.ends /\ c.start = n + 1
    BY <1>1, <1>2, <1>7
  <2>2. ends # << >>
    BY <1>1, <1>3, <2>1
  <2>3. m >= 1 /\ c.ends[m] \in Nat
    BY <1>1, <2>1, <2>2
  <2>4. c.ends[m] = n
    BY <1>1, <1>3, <2>1, <2>2, <2>3
  <2>. QED
    BY <1>2, <1>4, <2>1, <2>2, <2>4 DEF n
<1>. QED
  BY <1>6, <1>7

(* The chunks of a long line are those of the reference definition. *)
THEOREM ChunkIsChunking ==
    ASSUME NEW line \in Text, Len(line) > ChunkThreshold
    PROVE  IsChunking(line, ChunkLine(line))
<1>. DEFINE n == Len(line)
            ends == ChunkLine(line)
<1>1. n \in Nat /\ n > MinChunk /\ n >= 1 /\ ~(n <= ChunkThreshold) /\ ~(n <= MinChunk)
  BY ChunkerAssumption DEF Text
<1>2. ends = Chunk[line]
  BY <1>1 DEF ChunkLine
<1>3. PICK c : Loops(c, line) /\ ends = LastEnds(c[n], n)
  BY <1>1, <1>2, ChunkLoop
<1>4. c[n] \in LoopState /\ LoopInv(line, c[n], n)
  BY <1>1, <1>3, LoopInvariant DEF Loops
<1>. HIDE DEF ends
<1>5. /\ ends \in Seq(Nat \ {0}) /\ ends # << >> /\ ends[Len(ends)] = n
      /\ \A k \in DOMAIN ends :
           \/ ends[k] <= n /\ IsChunk(line, ChunkStart(ends, k), ends[k])
           \/ /\ ends[k] = n /\ 1 <= ChunkStart(ends, k) /\ ChunkStart(ends, k) <= n
              /\ \A j \in ChunkStart(ends, k)..n : ~Cut(line, ChunkStart(ends, k), j)
  BY <1>1, <1>3, <1>4, LastChunks
<1>. DEFINE Ends(s, i) == i = Len(line) \/ IsCut(i - s + 1, line[i], WindowHash(line, s, i))
<1>6. ASSUME NEW k \in DOMAIN ends, NEW s, s = ChunkStart(ends, k)
      PROVE  s <= ends[k] /\ Ends(s, ends[k]) /\ \A i \in s..ends[k] - 1 : ~Ends(s, i)
  <2>1. ends[k] \in Nat /\ s \in Nat /\ ends[k] <= n
    <3>1. \A j \in DOMAIN ends : ends[j] \in Nat
      BY <1>5
    <3>2. k # 1 => k - 1 \in DOMAIN ends
      BY <1>5
    <3>. QED
      BY <1>1, <1>5, <1>6, <3>1, <3>2 DEF ChunkStart
  <2>2. \A i \in s..ends[k] - 1 : i # Len(line)
    BY <1>1, <2>1
  <2>3. CASE IsChunk(line, s, ends[k])
    BY <1>1, <2>1, <2>2, <2>3 DEF IsChunk, Cut
  <2>4. CASE ends[k] = n /\ 1 <= s /\ s <= n /\ \A j \in s..n : ~Cut(line, s, j)
    BY <1>1, <2>1, <2>2, <2>4 DEF Cut
  <2>. QED
    BY <1>5, <1>6, <2>3, <2>4
<1>. QED
  BY <1>5, <1>6 DEF IsChunking, ends

(* Each chunk of a line is a nonempty range of its bytes. *)
LEMMA ChunkBounds ==
    ASSUME NEW line \in Text, Len(line) >= 1
    PROVE  /\ ChunkLine(line) \in Seq(Nat \ {0})
           /\ \A k \in DOMAIN ChunkLine(line) :
                /\ 1 <= ChunkStart(ChunkLine(line), k) /\ ChunkStart(ChunkLine(line), k) \in Nat
                /\ ChunkStart(ChunkLine(line), k) <= ChunkLine(line)[k]
                /\ ChunkLine(line)[k] <= Len(line)
<1>. DEFINE n == Len(line)
            ends == ChunkLine(line)
<1>1. n \in Nat /\ n >= 1
  BY DEF Text
<1>2. CASE n <= ChunkThreshold
  <2>1. ends = <<n>>
    BY <1>2 DEF ChunkLine
  <2>. HIDE DEF ends
  <2>2. ends \in Seq(Nat \ {0}) /\ DOMAIN ends = {1} /\ ends[1] = n
    BY <1>1, <2>1
  <2>3. ChunkStart(ends, 1) = 1
    BY DEF ChunkStart
  <2>. QED
    BY <1>1, <2>2, <2>3 DEF ends
<1>3. CASE ~(n <= ChunkThreshold)
  <2>1. ~(n <= MinChunk) /\ n \in 0..n
    BY <1>1, <1>3, ChunkerAssumption
  <2>2. ends = Chunk[line]
    BY <1>3 DEF ChunkLine
  <2>3. PICK c : Loops(c, line) /\ ends = LastEnds(c[n], n)
    BY <2>1, <2>2, ChunkLoop
  <2>4. c[n] \in LoopState /\ LoopInv(line, c[n], n)
    BY <2>1, <2>3, LoopInvariant DEF Loops
  <2>. HIDE DEF ends
  <2>5. /\ ends \in Seq(Nat \ {0})
        /\ \A k \in DOMAIN ends :
             \/ ends[k] <= n /\ IsChunk(line, ChunkStart(ends, k), ends[k])
             \/ ends[k] = n /\ 1 <= ChunkStart(ends, k) /\ ChunkStart(ends, k) <= n
    BY <1>1, <2>3, <2>4, LastChunks
  <2>6. ASSUME NEW k \in DOMAIN ends
        PROVE  /\ 1 <= ChunkStart(ends, k) /\ ChunkStart(ends, k) \in Nat
               /\ ChunkStart(ends, k) <= ends[k] /\ ends[k] <= n
    <3>1. ends[k] \in Nat /\ ChunkStart(ends, k) \in Nat
      <4>1. \A j \in DOMAIN ends : ends[j] \in Nat
        BY <2>5
      <4>2. k # 1 => k - 1 \in DOMAIN ends
        BY <2>5
      <4>. QED
        BY <4>1, <4>2 DEF ChunkStart
    <3>2. CASE IsChunk(line, ChunkStart(ends, k), ends[k])
      <4>1. ends[k] <= n
        BY <1>1, <2>5
      <4>. QED
        BY <3>1, <3>2, <4>1 DEF IsChunk
    <3>. QED
      BY <1>1, <2>5, <3>1, <3>2
  <2>. QED
    BY <2>5, <2>6 DEF ends
<1>. QED
  BY <1>2, <1>3

-----------------------------------------------------------------------------
(* Edits. *)

(* The states of a run before and after a byte. *)
LEMMA LoopsAt ==
    ASSUME NEW data \in Text, NEW c, Loops(c, data), NEW i \in 1..Len(data)
    PROVE  /\ i - 1 \in 0..Len(data) /\ i \in 0..Len(data)
           /\ c[i - 1] \in LoopState /\ c[i - 1].start \in 1..i
           /\ c[i] \in LoopState /\ c[i] = CutAt(data, c[i - 1], i)
<1>1. Len(data) \in Nat
  BY DEF Text
<1>2. i - 1 \in 0..Len(data) /\ i \in 0..Len(data) /\ i - 1 + 1 = i
  BY <1>1
<1>3. LoopInv(data, c[i - 1], i - 1)
  BY <1>2, LoopInvariant
<1>. QED
  BY <1>2, <1>3 DEF Loops, LoopInv

(* The loop does the same where it has the same chunk and bytes before it. *)
LEMMA SameCut ==
    ASSUME NEW line \in Text, NEW other \in Text, NEW i \in 1..Len(line),
           NEW c \in LoopState, NEW d \in LoopState, c.start \in 1..i,
           c.start = d.start, c.hash = d.hash,
           \A j \in c.start..i : line[j] = other[j]
    PROVE  LET e == CutAt(line, c, i)
               f == CutAt(other, d, i)
           IN e.start = f.start /\ e.hash = f.hash /\ e.start >= c.start
<1>1. i \in Nat /\ c.start \in Nat /\ line[i] = other[i]
  BY DEF LoopState
<1>2. i - c.start >= WindowSize => line[i - WindowSize] = other[i - WindowSize]
  BY <1>1, ChunkerAssumption
<1>3. Roll(line, c.start, c.hash, i) = Roll(other, d.start, d.hash, i)
  BY <1>1, <1>2 DEF Roll
<1>. DEFINE h == Roll(line, c.start, c.hash, i)
<1>4. DOMAIN c = {"start", "hash", "ends"} /\ DOMAIN d = {"start", "hash", "ends"}
  BY DEF LoopState
<1>5. /\ CutAt(line, c, i) = IF IsCut(i - c.start + 1, line[i], h)
                             THEN [start |-> i + 1, hash |-> {}, ends |-> Append(c.ends, i)]
                             ELSE [c EXCEPT !.hash = h]
      /\ CutAt(other, d, i) = IF IsCut(i - c.start + 1, line[i], h)
                              THEN [start |-> i + 1, hash |-> {}, ends |-> Append(d.ends, i)]
                              ELSE [d EXCEPT !.hash = h]
  BY <1>1, <1>3 DEF CutAt
<1>. HIDE DEF h
<1>. QED
  BY <1>1, <1>4, <1>5

(* Two lines are cut the same from a place where a chunk of both begins,   *)
(* or the loops are in the same state, as far as their bytes agree.        *)
LEMMA LoopsAgree ==
    ASSUME NEW line \in Text, NEW other \in Text, Len(line) = Len(other),
           NEW c, Loops(c, line), NEW d, Loops(d, other),
           NEW k \in 0..Len(line), NEW m \in k..Len(line),
           c[k].start = d[k].start, c[k].hash = d[k].hash,
           \A j \in c[k].start..m : line[j] = other[j]
    PROVE  \A i \in k..m : c[i].start = d[i].start
<1>. DEFINE Same(i) == /\ c[i].start = d[i].start /\ c[i].hash = d[i].hash
                       /\ c[i].start >= c[k].start
            T == {i \in 0..m : i >= k => Same(i)}
<1>1. Len(line) \in Nat /\ m \in Nat /\ k \in Nat /\ k <= m /\ m <= Len(line)
  BY DEF Text
<1>2. c[k].start \in Nat
  <2>1. c[k] \in LoopState
    BY DEF Loops
  <2>. QED
    BY <2>1 DEF LoopState
<1>3. Same(k)
  BY <1>2
<1>4. 0 \in T
  BY <1>1, <1>3
<1>5. ASSUME NEW i \in 1..m, i - 1 \in T  PROVE i \in T
  <2>1. CASE i < k
    BY <1>1, <2>1
  <2>2. CASE i = k
    BY <1>1, <1>3, <2>2
  <2>3. CASE i > k
    <3>1. Same(i - 1)
      BY <1>1, <1>5, <2>3
    <3>2. i \in 1..Len(line) /\ i \in 1..Len(other)
      BY <1>1
    <3>3. /\ c[i - 1] \in LoopState /\ c[i - 1].start \in 1..i /\ c[i] = CutAt(line, c[i - 1], i)
          /\ d[i - 1] \in LoopState /\ d[i] = CutAt(other, d[i - 1], i)
          /\ c[i] \in LoopState
      BY <3>2, LoopsAt
    <3>4. \A j \in c[i - 1].start..i : line[j] = other[j]
      <4>1. c[i - 1].start \in Nat /\ c[i - 1].start >= c[k].start
        BY <3>1, <3>3
      <4>. QED
        BY <1>1, <1>2, <4>1
    <3>5. /\ c[i].start = d[i].start /\ c[i].hash = d[i].hash /\ c[i].start >= c[i - 1].start
      BY <3>1, <3>2, <3>3, <3>4, SameCut
    <3>6. c[i].start \in Nat /\ c[i - 1].start \in Nat
      BY <3>3 DEF LoopState
    <3>7. Same(i)
      BY <1>2, <3>1, <3>5, <3>6
    <3>. QED
      BY <1>1, <3>7
  <2>. QED
    BY <1>1, <2>1, <2>2, <2>3
<1>6. 0..m \subseteq T
  <2>. HIDE DEF T
  <2>. QED
    BY <1>1, <1>4, <1>5, Induction
<1>. QED
  BY <1>1, <1>6

(* A line ends a chunk where the loop has just begun the next. *)
LEMMA EndsAre ==
    ASSUME NEW data \in Text, NEW c, Loops(c, data), NEW i \in 0..Len(data)
    PROVE  Range(c[i].ends) = {e \in 1..i : c[e].start = e + 1}
<1>. DEFINE T == {j \in 0..Len(data) : Range(c[j].ends) = {e \in 1..j : c[e].start = e + 1}}
<1>1. Len(data) \in Nat
  BY DEF Text
<1>2. 0 \in T
  <2>1. c[0].ends = << >>
    BY DEF Loops, Fresh
  <2>2. Range(c[0].ends) = {}
    BY <2>1 DEF Range
  <2>. QED
    BY <1>1, <2>2
<1>3. ASSUME NEW j \in 1..Len(data), j - 1 \in T  PROVE j \in T
  <2>1. /\ c[j - 1] \in LoopState /\ c[j - 1].start \in 1..j
        /\ c[j] \in LoopState /\ c[j] = CutAt(data, c[j - 1], j)
    BY LoopsAt
  <2>2. c[j - 1].ends \in Seq(Nat \ {0}) /\ DOMAIN c[j - 1] = {"start", "hash", "ends"}
    BY <2>1 DEF LoopState
  <2>3. \/ c[j].start = j + 1 /\ c[j].ends = Append(c[j - 1].ends, j)
        \/ c[j].start = c[j - 1].start /\ c[j].ends = c[j - 1].ends
    BY <2>1, <2>2 DEF CutAt
  <2>4. Range(c[j - 1].ends) = {e \in 1..j - 1 : c[e].start = e + 1}
    BY <1>3
  <2>5. j \in 0..Len(data)
    BY <1>1
  <2>6. CASE c[j].start = j + 1 /\ c[j].ends = Append(c[j - 1].ends, j)
    <3>1. Range(Append(c[j - 1].ends, j)) = Range(c[j - 1].ends) \cup {j}
      BY <2>2, AppendRange
    <3>2. {e \in 1..j : c[e].start = e + 1} = {e \in 1..j - 1 : c[e].start = e + 1} \cup {j}
      BY <2>6
    <3>. QED
      BY <2>4, <2>5, <2>6, <3>1, <3>2
  <2>7. CASE c[j].start = c[j - 1].start /\ c[j].ends = c[j - 1].ends
    <3>1. c[j].start # j + 1
      BY <2>1, <2>7
    <3>2. {e \in 1..j : c[e].start = e + 1} = {e \in 1..j - 1 : c[e].start = e + 1}
      BY <3>1
    <3>. QED
      BY <2>4, <2>5, <2>7, <3>2
  <2>. QED
    BY <2>3, <2>6, <2>7
<1>4. 0..Len(data) \subseteq T
  <2>. HIDE DEF T
  <2>. QED
    BY <1>1, <1>2, <1>3, Induction
<1>. QED
  BY <1>4

(* The chunks of a long line end where the loop begins the next, and at    *)
(* the end of the line.                                                    *)
LEMMA LongEnds ==
    ASSUME NEW line \in Text, Len(line) > ChunkThreshold
    PROVE  \E c : /\ Loops(c, line)
                  /\ Range(ChunkLine(line))
                       = {e \in 1..Len(line) : e = Len(line) \/ c[e].start = e + 1}
<1>. DEFINE n == Len(line)
<1>1. n \in Nat /\ n >= 1 /\ ~(n <= ChunkThreshold) /\ ~(n <= MinChunk) /\ n \in 0..n
  BY ChunkerAssumption DEF Text
<1>2. PICK c : Loops(c, line) /\ ChunkLine(line) = LastEnds(c[n], n)
  <2>1. ChunkLine(line) = Chunk[line]
    BY <1>1 DEF ChunkLine
  <2>. QED
    BY <1>1, <2>1, ChunkLoop
<1>3. c[n] \in LoopState /\ c[n].start \in 1..n + 1
  BY <1>1, <1>2, LoopInvariant DEF Loops, LoopInv
<1>4. Range(c[n].ends) = {e \in 1..n : c[e].start = e + 1}
  BY <1>1, <1>2, EndsAre
<1>5. ChunkLine(line) = IF c[n].start <= n THEN Append(c[n].ends, n) ELSE c[n].ends
  <2>1. LastEnds(c[n], n) = IF c[n].start <= n THEN Append(c[n].ends, n) ELSE c[n].ends
    <3>1. \A x \in LoopState, k \in Nat \ {0} :
            LastEnds(x, k) = IF x.start <= k THEN Append(x.ends, k) ELSE x.ends
      BY LastEndsAre
    <3>2. c[n] \in LoopState /\ n \in Nat \ {0}
      BY <1>1, <1>3
    <3>. QED
      BY <3>1, <3>2
  <2>. QED
    BY <1>2, <2>1
<1>6. CASE c[n].start <= n
  <2>1. Range(Append(c[n].ends, n)) = Range(c[n].ends) \cup {n}
    <3>1. c[n].ends \in Seq(Nat \ {0})
      BY <1>3 DEF LoopState
    <3>. QED
      BY <3>1, AppendRange
  <2>2. Range(ChunkLine(line)) = {e \in 1..n : e = n \/ c[e].start = e + 1}
    BY <1>1, <1>4, <1>5, <1>6, <2>1
  <2>. QED
    BY <1>2, <2>2
<1>7. CASE ~(c[n].start <= n)
  <2>1. c[n].start = n + 1
    BY <1>1, <1>3, <1>7
  <2>2. Range(ChunkLine(line)) = {e \in 1..n : e = n \/ c[e].start = e + 1}
    BY <1>1, <1>4, <1>5, <1>7, <2>1
  <2>. QED
    BY <1>2, <2>2
<1>. QED
  BY <1>6, <1>7

(* What one changed byte does to the chunks of a long line: it leaves those   *)
(* before it and, from an end that both lines have behind it, all that follow.*)
THEOREM OneByteSettles ==
    ASSUME NEW line \in Text, NEW other \in Text, Len(line) > ChunkThreshold,
           Len(other) = Len(line), NEW p \in 1..Len(line),
           \A j \in 1..Len(line) : j # p => line[j] = other[j]
    PROVE  EditSettles(line, other)
<1>. DEFINE n == Len(line)
<1>1. n \in Nat /\ n >= 1 /\ p \in 1..n
  BY DEF Text
<1>2. PICK c : /\ Loops(c, line)
               /\ Range(ChunkLine(line)) = {e \in 1..n : e = n \/ c[e].start = e + 1}
  BY LongEnds
<1>3. PICK d : /\ Loops(d, other)
               /\ Range(ChunkLine(other)) = {e \in 1..n : e = n \/ d[e].start = e + 1}
  BY LongEnds
<1>4. \A e \in 1..p - 1 : c[e].start = d[e].start
  <2>1. c[0].start = 1 /\ d[0].start = 1 /\ c[0].hash = d[0].hash
    BY <1>2, <1>3 DEF Loops, Fresh
  <2>2. 0 \in 0..n /\ p - 1 \in 0..n /\ \A j \in 1..p - 1 : line[j] = other[j]
    BY <1>1
  <2>3. \A e \in 0..p - 1 : c[e].start = d[e].start
    BY <1>2, <1>3, <2>1, <2>2, LoopsAgree
  <2>. QED
    BY <1>1, <2>3
<1>5. {e \in Range(ChunkLine(line)) : e < p} = {e \in Range(ChunkLine(other)) : e < p}
  BY <1>1, <1>2, <1>3, <1>4
<1>6. ASSUME NEW k \in Range(ChunkLine(line)) \cap Range(ChunkLine(other)), k >= p
      PROVE  {e \in Range(ChunkLine(line)) : e > k} = {e \in Range(ChunkLine(other)) : e > k}
  <2>1. k \in 1..n /\ k \in 0..n
    BY <1>1, <1>2
  <2>2. CASE k = n
    BY <1>1, <1>2, <1>3, <2>2
  <2>3. CASE k # n
    <3>1. c[k].start = k + 1 /\ d[k].start = k + 1
      BY <1>2, <1>3, <2>3
    <3>2. c[k].hash = WindowHash(line, k + 1, k) /\ d[k].hash = WindowHash(other, k + 1, k)
      BY <1>2, <1>3, <2>1, <3>1, LoopInvariant DEF LoopInv
    <3>3. c[k].hash = d[k].hash
      <4>1. WindowHash(line, k + 1, k) = {} /\ WindowHash(other, k + 1, k) = {}
        BY <2>1, WindowEmpty
      <4>. QED
        BY <3>2, <4>1
    <3>4. n \in k..n /\ \A j \in c[k].start..n : line[j] = other[j]
      BY <1>1, <1>6, <2>1, <3>1
    <3>5. \A e \in k..n : c[e].start = d[e].start
      <4>1. Len(line) = Len(other) /\ c[k].start = d[k].start
        BY <3>1
      <4>. QED
      BY <4>1, <1>2, <1>3, <2>1, <3>1, <3>3, <3>4, LoopsAgree
    <3>. QED
      BY <1>1, <1>2, <1>3, <2>1, <3>5
  <2>. QED
    BY <2>2, <2>3
<1>7. \A q \in DOMAIN line : line[q] # other[q] => q = p
  BY DEF Text
<1>. QED
  BY <1>5, <1>6, <1>7 DEF EditSettles

-----------------------------------------------------------------------------
(* Positions in order. *)

Rank(at, i) == Cardinality({j \in at : j <= i})

(* A rank is a number. *)
LEMMA RankType ==
    ASSUME NEW n \in Nat, NEW at \in SUBSET (1..n), NEW i \in Int
    PROVE  /\ IsFiniteSet(at) /\ IsFiniteSet({j \in at : j <= i})
           /\ Cardinality(at) \in Nat /\ Rank(at, i) \in Nat
<1>1. IsFiniteSet(1..n)
  BY FS_Interval
<1>. QED
  BY <1>1, FS_Subset, FS_CardinalityType DEF Rank

(* A rank grows by one at each of the positions, and only there. *)
LEMMA RankNext ==
    ASSUME NEW n \in Nat, NEW at \in SUBSET (1..n), NEW i \in Int
    PROVE  Rank(at, i) = Rank(at, i - 1) + (IF i \in at THEN 1 ELSE 0)
<1>. DEFINE S == {j \in at : j <= i - 1}
            L == {j \in at : j <= i}
<1>1. i - 1 \in Int /\ \A j \in at : j \in Int
  OBVIOUS
<1>2. IsFiniteSet(S) /\ Cardinality(S) \in Nat
  BY <1>1, RankType, FS_CardinalityType
<1>3. i \notin S
  BY <1>1
<1>4. L = IF i \in at THEN S \cup {i} ELSE S
  <2>1. \A j \in at : j <= i <=> j <= i - 1 \/ j = i
    BY <1>1
  <2>. QED
    BY <2>1
<1>5. Cardinality(S \cup {i}) = Cardinality(S) + 1
  <2>. HIDE DEF S
  <2>. QED
    BY <1>2, <1>3, FS_AddElement
<1>6. Rank(at, i - 1) = Cardinality(S) /\ Rank(at, i) = Cardinality(L)
  BY DEF Rank
<1>. HIDE DEF S, L
<1>7. CASE i \in at
  <2>1. Rank(at, i) = Cardinality(S) + 1
    BY <1>4, <1>5, <1>6, <1>7
  <2>. QED
    BY <1>6, <1>7, <2>1
<1>8. CASE i \notin at
  BY <1>2, <1>4, <1>6, <1>8
<1>. QED
  BY <1>7, <1>8

(* A later one of the positions has a greater rank. *)
LEMMA RankRises ==
    ASSUME NEW n \in Nat, NEW at \in SUBSET (1..n), NEW i \in at, NEW k \in at, i < k
    PROVE  Rank(at, i) < Rank(at, k)
<1>1. i \in Int /\ k \in Int /\ k - 1 \in Int /\ \A j \in at : j \in Int
  OBVIOUS
<1>2. {j \in at : j <= i} \subseteq {j \in at : j <= k - 1}
  <2>1. \A j \in at : j <= i => j <= k - 1
    BY <1>1
  <2>. QED
    BY <2>1
<1>3. Rank(at, i) <= Rank(at, k - 1)
  <2>1. IsFiniteSet({j \in at : j <= k - 1})
    BY <1>1, RankType
  <2>. QED
    BY <1>2, <2>1, FS_Subset DEF Rank
<1>4. Rank(at, k) = Rank(at, k - 1) + 1
  BY <1>1, RankNext
<1>5. Rank(at, i) \in Nat /\ Rank(at, k - 1) \in Nat
  BY <1>1, RankType
<1>. QED
  BY <1>3, <1>4, <1>5

(* The ranks of the positions are numbers up to how many there are. *)
LEMMA RankBounds ==
    ASSUME NEW n \in Nat, NEW at \in SUBSET (1..n), NEW i \in at
    PROVE  Rank(at, i) \in 1..Cardinality(at)
<1>1. i \in Int /\ i - 1 \in Int /\ {j \in at : j <= i} \subseteq at
  OBVIOUS
<1>2. Rank(at, i) <= Cardinality(at)
  BY <1>1, RankType, FS_Subset DEF Rank
<1>3. Rank(at, i) = Rank(at, i - 1) + 1
  BY <1>1, RankNext
<1>4. Rank(at, i - 1) \in Nat /\ Cardinality(at) \in Nat
  BY <1>1, RankType
<1>. QED
  BY <1>2, <1>3, <1>4

(* Each of these numbers is the rank of one of them: the last position     *)
(* whose rank is no greater.                                               *)
LEMMA RankReached ==
    ASSUME NEW n \in Nat, NEW at \in SUBSET (1..n), NEW k \in 1..Cardinality(at)
    PROVE  \E i \in at : Rank(at, i) = k
<1>. DEFINE T == {i \in 0..n : Rank(at, i) >= k}
<1>1. Cardinality(at) \in Nat /\ k \in Nat /\ k >= 1 /\ \A j \in at : j \in 1..n
  <2>1. n \in Int
    OBVIOUS
  <2>2. Cardinality(at) \in Nat
    BY <2>1, RankType
  <2>. QED
    BY <2>2
<1>2. n \in T
  <2>1. {j \in at : j <= n} = at
    <3>1. \A j \in at : j <= n
      BY <1>1
    <3>. QED
      BY <3>1
  <2>. QED
    BY <1>1, <2>1 DEF Rank
<1>3. 0 \notin T
  <2>1. {j \in at : j <= 0} = {}
    <3>1. \A j \in at : ~(j <= 0)
      BY <1>1
    <3>. QED
      BY <3>1
  <2>2. Rank(at, 0) = 0
    BY <2>1, FS_EmptySet DEF Rank
  <2>. QED
    BY <1>1, <2>2
<1>4. PICK i \in T : \A m \in T : i <= m
  <2>1. T \in SUBSET Nat /\ T # {}
    BY <1>2
  <2>. HIDE DEF T
  <2>. QED
    BY <2>1, LeastNumber
<1>5. i \in 1..n /\ i - 1 \in 0..n /\ i - 1 \notin T
  BY <1>3, <1>4
<1>6. Rank(at, i) >= k /\ ~(Rank(at, i - 1) >= k)
  BY <1>4, <1>5
<1>7. i \in Int /\ i - 1 \in Int
  BY <1>5
<1>8. Rank(at, i) \in Nat /\ Rank(at, i - 1) \in Nat
  BY <1>7, RankType
<1>9. Rank(at, i) = Rank(at, i - 1) + (IF i \in at THEN 1 ELSE 0)
  BY <1>7, RankNext
<1>. QED
  BY <1>1, <1>6, <1>8, <1>9

(* InOrder enumerates the positions, ascending. *)
LEMMA InOrderIs ==
    ASSUME NEW n \in Nat, NEW at \in SUBSET (1..n)
    PROVE  /\ InOrder[at] \in Seq(at)
           /\ Range(InOrder[at]) = at
           /\ \A k, l \in DOMAIN InOrder[at] : k < l => InOrder[at][k] < InOrder[at][l]
<1>. DEFINE m == Cardinality(at)
            order == InOrder[at]
<1>1. m \in Nat /\ at \in SUBSET Nat
  <2>1. n \in Int /\ \A j \in at : j \in Nat
    OBVIOUS
  <2>. QED
    BY <2>1, RankType
<1>2. order = [k \in 1..m |-> CHOOSE i \in at : Rank(at, i) = k]
  BY <1>1 DEF InOrder, Rank
<1>. HIDE DEF order
<1>3. \A k \in 1..m : order[k] \in at /\ Rank(at, order[k]) = k
  BY <1>2, RankReached
<1>4. order \in Seq(at) /\ DOMAIN order = 1..m
  BY <1>1, <1>2, <1>3
<1>5. ASSUME NEW k \in DOMAIN order, NEW l \in DOMAIN order, k < l  PROVE order[k] < order[l]
  <2>1. order[k] \in at /\ order[l] \in at /\ Rank(at, order[k]) = k /\ Rank(at, order[l]) = l
    BY <1>3, <1>4, <1>5
  <2>2. order[k] \in Nat /\ order[l] \in Nat /\ k \in Nat /\ l \in Nat
    <3>1. \A j \in at : j \in Nat
      BY <1>1
    <3>2. k \in 1..m /\ l \in 1..m
      BY <1>4
    <3>. HIDE DEF m
    <3>3. k \in Nat /\ l \in Nat
      BY <1>1, <3>2
    <3>. QED
      BY <2>1, <3>1, <3>3
  <2>3. ~(order[l] < order[k])
    <3>1. order[l] < order[k] => Rank(at, order[l]) < Rank(at, order[k])
      BY <2>1, RankRises
    <3>. QED
      BY <1>5, <2>1, <2>2, <3>1
  <2>4. order[l] # order[k]
    BY <1>5, <2>1, <2>2
  <2>. QED
    BY <2>2, <2>3, <2>4
<1>6. ASSUME NEW i \in at  PROVE i \in Range(order)
  <2>1. Rank(at, i) \in 1..m
    BY RankBounds
  <2>2. PICK k \in 1..m : Rank(at, i) = k
    BY <2>1
  <2>3. order[k] \in at /\ Rank(at, order[k]) = k
    BY <1>3
  <2>4. ~(i < order[k]) /\ ~(order[k] < i)
    <3>1. i < order[k] => Rank(at, i) < Rank(at, order[k])
      BY <2>3, RankRises
    <3>2. order[k] < i => Rank(at, order[k]) < Rank(at, i)
      BY <2>3, RankRises
    <3>. QED
      BY <2>2, <2>3, <3>1, <3>2
  <2>5. i = order[k]
    <3>1. i \in Nat /\ order[k] \in Nat
      BY <1>1, <2>3
    <3>. QED
      BY <2>4, <3>1
  <2>. QED
    BY <1>4, <2>5 DEF Range
<1>7. Range(order) \subseteq at
  BY <1>3, <1>4 DEF Range
<1>. QED
  BY <1>4, <1>5, <1>6, <1>7 DEF order

(* What is selected of a sequence are elements at these positions. *)
LEMMA SelectedIs ==
    ASSUME NEW S, NEW seq \in Seq(S), NEW at \in SUBSET DOMAIN seq
    PROVE  /\ Selected(seq, at) \in Seq(S)
           /\ DOMAIN Selected(seq, at) = DOMAIN InOrder[at]
           /\ \A k \in DOMAIN Selected(seq, at) : \E i \in at : Selected(seq, at)[k] = seq[i]
           /\ at = {} => Selected(seq, at) = << >>
<1>. DEFINE order == InOrder[at]
            sel == Selected(seq, at)
<1>1. DOMAIN seq = 1..Len(seq) /\ Len(seq) \in Nat
  OBVIOUS
<1>2. order \in Seq(at) /\ Range(order) = at
  BY <1>1, InOrderIs
<1>3. sel = [k \in DOMAIN order |-> seq[order[k]]]
  BY DEF Selected
<1>. HIDE DEF order, sel
<1>4. \A k \in DOMAIN order : order[k] \in at /\ seq[order[k]] \in S
  BY <1>2
<1>5. sel \in Seq(S)
  BY <1>2, <1>3, <1>4
<1>6. at = {} => sel = << >>
  <2>. SUFFICES ASSUME at = {}  PROVE sel = << >>
    OBVIOUS
  <2>1. DOMAIN order = {}
    BY <1>4
  <2>2. Len(sel) = 0
    BY <1>2, <1>3, <2>1
  <2>. QED
    BY <1>5, <2>2
<1>. QED
  BY <1>3, <1>4, <1>5, <1>6 DEF sel, order

-----------------------------------------------------------------------------
(* The pieces of a line. *)

(* A piece of a line is a text, or, when it says where, that slice of it.  *)
IsPieceOf(p, raw) ==
    /\ p \in [text : Text, at : Nat]
    /\ p.at # 0 => /\ p.at + Len(p.text) - 1 <= Len(raw)
                   /\ p.text = SubSeq(raw, p.at, p.at + Len(p.text) - 1)

(* Trimming white space off a line leaves a slice of it (bytes.TrimSpace). *)
LEMMA TrimIsPiece ==
    ASSUME NEW raw \in Text
    PROVE  IsPieceOf(TrimSpace(raw), raw)
<1>. DEFINE ink == {i \in DOMAIN raw : raw[i] # Space}
            n == Len(raw)
<1>1. n \in Nat /\ DOMAIN raw = 1..n
  BY DEF Text
<1>2. CASE ink = {}
  <2>1. TrimSpace(raw) = Piece(<< >>, 1)
    BY <1>2 DEF TrimSpace
  <2>2. SubSeq(raw, 1, 1 + 0 - 1) = << >> /\ << >> \in Text /\ Len(<< >>) = 0
    BY DEF Text
  <2>. QED
    BY <1>1, <2>1, <2>2 DEF IsPieceOf, Piece
<1>3. CASE ink # {}
  <2>. DEFINE first == CHOOSE i \in ink : \A j \in ink : i <= j
              last == CHOOSE i \in ink : \A j \in ink : j <= i
  <2>1. TrimSpace(raw) = Piece(SubSeq(raw, first, last), first)
    BY <1>3 DEF TrimSpace
  <2>2. ink \in SUBSET Nat /\ ink \in SUBSET (0..n) /\ ink \subseteq 1..n
    BY <1>1
  <2>3. first \in ink /\ \A j \in ink : first <= j
    <3>. HIDE DEF ink
    <3>1. \E i \in ink : \A j \in ink : i <= j
      BY <1>3, <2>2, LeastNumber
    <3>. QED
      BY <3>1
  <2>4. last \in ink
    <3>. HIDE DEF ink
    <3>1. \E i \in ink : \A j \in ink : j <= i
      BY <1>1, <1>3, <2>2, GreatestNumber
    <3>. QED
      BY <3>1
  <2>. HIDE DEF first, last
  <2>5. first \in 1..n /\ last \in 1..n /\ first <= last
    BY <2>2, <2>3, <2>4
  <2>. HIDE DEF ink
  <2>. DEFINE t == SubSeq(raw, first, last)
  <2>6. t \in Text /\ Len(t) = last - first + 1
    <3>1. /\ first \in Nat \ {0} /\ last \in Nat /\ first <= last + 1 /\ last <= Len(raw)
          /\ raw \in Seq(DOMAIN HashTable)
      BY <1>1, <2>5 DEF Text
    <3>. QED
      BY <3>1, SubSeqIs DEF Text
  <2>. HIDE DEF t
  <2>7. first + Len(t) - 1 = last
    BY <1>1, <2>5, <2>6
  <2>8. TrimSpace(raw) = [text |-> t, at |-> first]
    BY <2>1 DEF Piece, t
  <2>9. t = SubSeq(raw, first, first + Len(t) - 1)
    BY <2>7 DEF t
  <2>. QED
    BY <1>1, <2>5, <2>6, <2>7, <2>8, <2>9 DEF IsPieceOf
<1>. QED
  BY <1>2, <1>3

(* A normalised line is a slice of the line, or a copy of bytes of it      *)
(* where the git reference is removed (normLine).                          *)
LEMMA NormIsPiece ==
    ASSUME NEW raw \in Text
    PROVE  IsPieceOf(normLine(raw), raw)
<1>. DEFINE trimmed == TrimSpace(raw)
            text == trimmed.text
            at == {i \in DOMAIN text : text[i] # Reference}
<1>1. IsPieceOf(trimmed, raw) /\ text \in Text
  BY TrimIsPiece DEF IsPieceOf
<1>2. << >> \in Text /\ Selected(text, at) \in Text
  BY <1>1, SelectedIs DEF Text
<1>3. IsPieceOf(Piece(<< >>, 0), raw) /\ IsPieceOf(Piece(Selected(text, at), 0), raw)
  BY <1>2 DEF IsPieceOf, Piece
<1>4. normLine(raw) \in {trimmed, Piece(<< >>, 0), Piece(Selected(text, at), 0)}
  <2>. HIDE DEF at, text
  <2>1. normLine(raw) = IF Len(text) < MinSize THEN trimmed
                        ELSE IF Head(text) = Comment THEN Piece(<< >>, 0)
                        ELSE IF Reference \in Range(text) THEN Piece(Selected(text, at), 0)
                        ELSE trimmed
    BY DEF normLine, at, text
  <2>. QED
    BY <2>1
<1>. QED
  BY <1>1, <1>3, <1>4

(* Every piece of a line is a slice of it or a copy. *)
LEMMA HashLineIsPieces ==
    ASSUME NEW raw \in Text
    PROVE  /\ HashLine[raw] \in Seq([text : Text, at : Nat])
           /\ \A k \in DOMAIN HashLine[raw] :
                IsPieceOf(HashLine[raw][k], raw) /\ Len(HashLine[raw][k].text) >= 1
<1>. DEFINE norm == normLine(raw)
            text == norm.text
            ends == ChunkLine(text)
            At(k) == IF norm.at = 0 THEN 0 ELSE norm.at + ChunkStart(ends, k) - 1
<1>1. IsPieceOf(norm, raw) /\ text \in Text /\ norm.at \in Nat
  BY NormIsPiece DEF IsPieceOf
<1>2. HashLine[raw] = IF Len(text) < MinSize THEN << >>
                      ELSE [k \in DOMAIN ends |-> Piece(ChunkText(text, ends, k), At(k))]
  BY DEF HashLine, Text
<1>3. CASE Len(text) < MinSize
  BY <1>2, <1>3
<1>4. CASE ~(Len(text) < MinSize)
  <2>1. Len(text) \in Nat /\ Len(text) >= 1
    BY <1>1, <1>4, NormalizeAssumption DEF Text
  <2>2. ends \in Seq(Nat \ {0})
    BY <1>1, <2>1, ChunkBounds
  <2>3. ASSUME NEW k \in DOMAIN ends
        PROVE  /\ IsPieceOf(Piece(ChunkText(text, ends, k), At(k)), raw)
               /\ Len(ChunkText(text, ends, k)) >= 1
    <3>. DEFINE s == ChunkStart(ends, k)
                e == ends[k]
                t == SubSeq(text, s, e)
    <3>1. s \in Nat \ {0} /\ e \in Nat /\ s <= e /\ e <= Len(text)
      <4>1. 1 <= s /\ s \in Nat /\ s <= e /\ e <= Len(text)
        BY <1>1, <2>1, ChunkBounds
      <4>. QED
        BY <2>2, <4>1
    <3>. HIDE DEF s, e, ends, text
    <3>2. t \in Text /\ Len(t) = e - s + 1
      <4>1. text \in Seq(DOMAIN HashTable) /\ s <= e + 1
        BY <1>1, <3>1 DEF Text
      <4>. QED
        BY <3>1, <4>1, SubSeqIs DEF Text
    <3>0. Len(ChunkText(text, ends, k)) >= 1
      BY <3>1, <3>2 DEF ChunkText, s, e
    <3>3. CASE norm.at = 0
      <4>1. At(k) = 0
        BY <3>3
      <4>. QED
        BY <3>0, <3>2, <4>1 DEF IsPieceOf, Piece, ChunkText, s, e
    <3>4. CASE norm.at # 0
      <4>1. At(k) = norm.at + s - 1
        BY <3>4 DEF s
      <4>2. /\ norm.at + Len(text) - 1 <= Len(raw)
            /\ text = SubSeq(raw, norm.at, norm.at + Len(text) - 1)
        BY <1>1, <3>4 DEF IsPieceOf, text
      <4>3. Len(text) \in Nat /\ Len(raw) \in Nat /\ norm.at \in Nat \ {0}
        BY <1>1, <2>1, <3>4 DEF Text
      <4>4. At(k) + Len(t) - 1 = norm.at + e - 1
        BY <3>1, <3>2, <4>1, <4>3
      <4>5. t = SubSeq(raw, norm.at + s - 1, norm.at + e - 1)
        <5>. DEFINE a == norm.at
                    b == norm.at + Len(text) - 1
        <5>1. text = SubSeq(raw, a, b) /\ t = SubSeq(text, s, e)
          BY <4>2
        <5>2. a \in Nat \ {0} /\ b \in Nat /\ a <= b + 1 /\ b <= Len(raw)
              /\ s <= e + 1 /\ e <= b - a + 1
          BY <3>1, <4>2, <4>3
        <5>. HIDE DEF a, b, t
        <5>3. SubSeq(SubSeq(raw, a, b), s, e) = SubSeq(raw, a + s - 1, a + e - 1)
          BY <3>1, <5>2, SubSubSeq DEF Text
        <5>. QED
          BY <5>1, <5>3 DEF a
      <4>. DEFINE x == norm.at + s - 1
      <4>6. Piece(ChunkText(text, ends, k), At(k)) = [text |-> t, at |-> x]
        BY <4>1 DEF Piece, ChunkText, s, e
      <4>7. x + Len(t) - 1 = norm.at + e - 1 /\ x \in Nat
        BY <3>1, <4>1, <4>3, <4>4
      <4>8. x + Len(t) - 1 <= Len(raw) /\ t = SubSeq(raw, x, x + Len(t) - 1)
        <5>1. norm.at + e - 1 <= Len(raw)
          BY <3>1, <4>2, <4>3
        <5>2. t = SubSeq(raw, x, norm.at + e - 1)
          BY <4>5
        <5>. HIDE DEF t, x
        <5>. QED
          BY <4>7, <5>1, <5>2
      <4>. HIDE DEF t, x
      <4>9. IsPieceOf([text |-> t, at |-> x], raw)
        BY <3>2, <4>7, <4>8 DEF IsPieceOf
      <4>. QED
        BY <3>0, <4>6, <4>9
    <3>. QED
      BY <3>3, <3>4
  <2>. DEFINE pieces == [k \in DOMAIN ends |-> Piece(ChunkText(text, ends, k), At(k))]
  <2>4. HashLine[raw] = pieces
    BY <1>2, <1>4
  <2>5. \A k \in DOMAIN ends : pieces[k] \in [text : Text, at : Nat]
    BY <2>3 DEF IsPieceOf
  <2>6. pieces \in Seq([text : Text, at : Nat]) /\ DOMAIN pieces = DOMAIN ends
    <3>1. pieces \in [DOMAIN ends -> [text : Text, at : Nat]]
      BY <2>5
    <3>. HIDE DEF pieces, ends
    <3>. QED
      BY <2>2, <3>1, SeqOfFcn
  <2>7. ASSUME NEW k \in DOMAIN ends
        PROVE  IsPieceOf(pieces[k], raw) /\ Len(pieces[k].text) >= 1
    <3>1. pieces[k] = Piece(ChunkText(text, ends, k), At(k))
      OBVIOUS
    <3>2. pieces[k].text = ChunkText(text, ends, k)
      BY <3>1 DEF Piece
    <3>. QED
      BY <2>3, <3>1, <3>2
  <2>. QED
    BY <2>4, <2>6, <2>7
<1>. QED
  BY <1>3, <1>4

-----------------------------------------------------------------------------
(* The lines of a file. *)

(* The positions the lines of a file end in front of. *)
Breaks(data) == {i \in DOMAIN data : data[i] = Newline}
Stops(data) ==
    IF data # << >> /\ data[Len(data)] # Newline
    THEN Append(InOrder[Breaks(data)], Len(data) + 1) ELSE InOrder[Breaks(data)]

(* The newlines of a file, and its end when it does not end in one, in     *)
(* ascending order.                                                        *)
LEMMA StopsAre ==
    ASSUME NEW data \in Contents
    PROVE  /\ Len(data) \in Nat /\ Len(Stops(data)) \in Nat
           /\ Stops(data) \in Seq(Nat \ {0}) /\ DOMAIN Stops(data) = 1..Len(Stops(data))
           /\ \A k \in DOMAIN Stops(data) :
                /\ Stops(data)[k] \in 1..Len(data) + 1
                /\ Stops(data)[k] <= Len(data) => data[Stops(data)[k]] = Newline
                /\ Stops(data)[k] = Len(data) + 1 => data # << >> /\ data[Len(data)] # Newline
           /\ \A k, l \in DOMAIN Stops(data) : k < l => Stops(data)[k] < Stops(data)[l]
           /\ \A i \in 1..Len(data) : data[i] = Newline => i \in Range(Stops(data))
           /\ Len(data) >= 1 => /\ Len(Stops(data)) >= 1
                                /\ Stops(data)[Len(Stops(data))] >= Len(data)
<1>. DEFINE n == Len(data)
            breaks == InOrder[Breaks(data)]
            stops == Stops(data)
            m == Len(breaks)
<1>1. n \in Nat /\ DOMAIN data = 1..n /\ (data = << >> <=> n = 0)
  BY DEF Contents
<1>. HIDE DEF n
<1>2. Breaks(data) \in SUBSET (1..n) /\ \A i \in 1..n : i \in Breaks(data) <=> data[i] = Newline
  BY <1>1 DEF Breaks
<1>3. /\ breaks \in Seq(Breaks(data)) /\ Range(breaks) = Breaks(data)
      /\ \A k, l \in DOMAIN breaks : k < l => breaks[k] < breaks[l]
  BY <1>1, <1>2, InOrderIs
<1>. HIDE DEF breaks
<1>4. m \in Nat /\ DOMAIN breaks = 1..m /\ \A k \in 1..m : breaks[k] \in 1..n /\ data[breaks[k]] = Newline
  BY <1>2, <1>3
<1>5. breaks \in Seq(Nat \ {0})
  <2>1. \A k \in 1..m : breaks[k] \in Nat \ {0}
    BY <1>4
  <2>. QED
    BY <1>3, <2>1
<1>6. CASE n # 0 /\ data[n] # Newline
  <2>1. stops = Append(breaks, n + 1)
    BY <1>1, <1>6 DEF Stops, breaks, n
  <2>2. /\ Len(stops) = m + 1 /\ DOMAIN stops = 1..m + 1 /\ stops[m + 1] = n + 1
        /\ \A k \in 1..m : stops[k] = breaks[k]
        /\ stops \in Seq(Nat \ {0})
    BY <1>1, <1>5, <2>1
  <2>. HIDE DEF stops
  <2>3. \A k \in 1..m + 1 : k \in 1..m \/ k = m + 1
    BY <1>4
  <2>4. ASSUME NEW k \in DOMAIN stops
        PROVE  stops[k] \in 1..n + 1 /\ (stops[k] <= n => data[stops[k]] = Newline)
    BY <1>1, <1>4, <2>2, <2>3
  <2>5. ASSUME NEW k \in DOMAIN stops, NEW l \in DOMAIN stops, k < l  PROVE stops[k] < stops[l]
    <3>1. k \in 1..m
      BY <1>4, <2>2, <2>5
    <3>2. CASE l \in 1..m
      BY <1>3, <1>4, <2>2, <2>5, <3>1, <3>2
    <3>3. CASE l = m + 1
      BY <1>1, <1>4, <2>2, <3>1, <3>3
    <3>. QED
      BY <2>2, <2>3, <3>2, <3>3
  <2>6. ASSUME NEW i \in 1..n, data[i] = Newline  PROVE i \in Range(stops)
    <3>1. i \in Range(breaks)
      BY <1>2, <1>3, <2>6
    <3>2. PICK k \in 1..m : breaks[k] = i
      BY <1>4, <3>1 DEF Range
    <3>3. k \in DOMAIN stops /\ stops[k] = i
      BY <1>4, <2>2, <3>2
    <3>. QED
      BY <3>3 DEF Range
  <2>7. Len(stops) >= 1 /\ stops[Len(stops)] >= n
    BY <1>1, <1>4, <2>2
  <2>. QED
    BY <1>1, <1>4, <1>6, <2>2, <2>4, <2>5, <2>6, <2>7 DEF stops, n
<1>7. CASE ~(n # 0 /\ data[n] # Newline)
  <2>1. stops = breaks
    BY <1>1, <1>7 DEF Stops, breaks, n
  <2>. HIDE DEF stops
  <2>2. ASSUME n >= 1  PROVE m >= 1 /\ breaks[m] >= n
    <3>1. n \in Breaks(data)
      BY <1>1, <1>2, <1>7, <2>2
    <3>2. PICK k \in 1..m : breaks[k] = n
      BY <1>3, <1>4, <3>1 DEF Range
    <3>3. k = m
      <4>1. k \in Nat /\ m \in Nat /\ k <= m /\ k \in DOMAIN breaks /\ m \in DOMAIN breaks
        BY <1>4, <3>2
      <4>2. k < m => breaks[k] < breaks[m]
        BY <1>3, <4>1
      <4>3. breaks[m] \in 1..n
        BY <1>4, <4>1
      <4>. QED
        BY <1>1, <3>2, <4>1, <4>2, <4>3
    <3>. QED
      BY <1>1, <1>4, <3>2, <3>3
  <2>3. \A k \in 1..m : breaks[k] \in 1..n + 1 /\ breaks[k] # n + 1
    BY <1>1, <1>4
  <2>4. \A i \in 1..n : data[i] = Newline => i \in Range(breaks)
    BY <1>2, <1>3
  <2>. QED
    BY <1>1, <1>3, <1>4, <1>5, <2>1, <2>2, <2>3, <2>4 DEF stops, n
<1>. QED
  BY <1>6, <1>7

LineAt(data, k) == SubSeq(data, ChunkStart(Stops(data), k), Stops(data)[k] - 1)

(* The line before such a stop has no newline, and its length is what lies *)
(* between the stops.                                                      *)
LEMMA LineAtIs ==
    ASSUME NEW data \in Contents, NEW k \in DOMAIN Stops(data)
    PROVE  /\ ChunkStart(Stops(data), k) \in Nat \ {0}
           /\ ChunkStart(Stops(data), k) <= Stops(data)[k]
           /\ LineAt(data, k) \in Text
           /\ Len(LineAt(data, k)) = Stops(data)[k] - ChunkStart(Stops(data), k)
<1>. DEFINE stops == Stops(data)
            s == ChunkStart(stops, k)
            t == LineAt(data, k)
            n == Len(data)
<1>1. /\ n \in Nat /\ k \in Nat /\ k >= 1 /\ stops[k] \in 1..n + 1 /\ Len(stops) \in Nat
      /\ k # 1 => k - 1 \in DOMAIN stops /\ stops[k - 1] \in Nat \ {0} /\ stops[k - 1] < stops[k]
  <2>1. /\ n \in Nat /\ Len(stops) \in Nat /\ DOMAIN stops = 1..Len(stops)
        /\ \A j \in DOMAIN stops : stops[j] \in 1..n + 1
        /\ \A j, l \in DOMAIN stops : j < l => stops[j] < stops[l]
    BY StopsAre
  <2>. HIDE DEF stops, n
  <2>2. k \in 1..Len(stops)
    BY <2>1 DEF stops
  <2>3. k # 1 => k - 1 \in DOMAIN stops
    BY <2>1, <2>2
  <2>. QED
    BY <2>1, <2>2, <2>3
<1>2. s \in Nat \ {0} /\ s <= stops[k]
  BY <1>1 DEF ChunkStart
<1>3. data \in Seq(DOMAIN HashTable \cup {Newline}) /\ stops[k] - 1 \in Nat /\ stops[k] - 1 <= n
      /\ s <= (stops[k] - 1) + 1
  BY <1>1, <1>2 DEF Contents
<1>4. t = SubSeq(data, s, stops[k] - 1)
  BY DEF LineAt
<1>5. /\ t \in Seq(DOMAIN HashTable \cup {Newline}) /\ Len(t) = (stops[k] - 1) - s + 1
      /\ \A j \in 1..(stops[k] - 1) - s + 1 : t[j] = data[s + j - 1]
  BY <1>2, <1>3, <1>4, SubSeqIs
<1>. HIDE DEF t
<1>6. ASSUME NEW j \in 1..Len(t)  PROVE t[j] # Newline
  <2>. DEFINE i == s + j - 1
  <2>. HIDE DEF s, stops, n
  <2>1. i \in 1..n /\ i >= s /\ i < stops[k] /\ t[j] = data[i]
    <3>1. j \in 1..(stops[k] - 1) - s + 1
      BY <1>5
    <3>2. t[j] = data[i]
      BY <1>5, <3>1
    <3>3. i >= s /\ i < stops[k] /\ i \in Nat \ {0}
      BY <1>1, <1>2, <3>1
    <3>4. i <= n
      BY <1>1, <1>3, <3>3
    <3>. HIDE DEF i
    <3>. QED
      BY <1>1, <3>2, <3>3, <3>4
  <2>. HIDE DEF i
  <2>2. SUFFICES ASSUME data[i] = Newline  PROVE FALSE
    BY <2>1
  <2>3. PICK l \in DOMAIN stops : stops[l] = i
    <3>1. i \in Range(stops)
      BY <2>1, <2>2, StopsAre DEF stops, n
    <3>. QED
      BY <3>1 DEF Range
  <2>4. l \in Nat /\ \A p, q \in DOMAIN stops : p < q => stops[p] < stops[q]
    BY StopsAre DEF stops
  <2>5. l < k
    <3>1. k < l => stops[k] < stops[l]
      BY <2>4 DEF stops
    <3>. QED
      BY <1>1, <2>1, <2>3, <2>4, <3>1
  <2>6. k # 1 /\ s = stops[k - 1] + 1
    <3>1. l >= 1
      BY <2>3, StopsAre DEF stops
    <3>. QED
      BY <1>1, <2>4, <2>5, <3>1 DEF ChunkStart, s
  <2>7. k - 1 = l \/ stops[l] < stops[k - 1]
    BY <1>1, <2>4, <2>5, <2>6
  <2>. QED
    BY <1>1, <2>1, <2>3, <2>6, <2>7
<1>7. t \in Text
  <2>1. \A j \in 1..Len(t) : t[j] \in DOMAIN HashTable
    BY <1>5, <1>6
  <2>. QED
    BY <1>5, <2>1 DEF Text
<1>. QED
  BY <1>1, <1>2, <1>5, <1>7 DEF t

TooLong(line) == Len(line) >= MaxTokenSize
Sentinel == [i \in 1..MaxTokenSize |-> Newline]

(* Lines are those up to the first that is too long. *)
LEMMA LinesAre ==
    ASSUME NEW data \in Contents
    PROVE  /\ Lines(data) \in Seq(Text) /\ Len(Lines(data)) <= Len(Stops(data))
           /\ \A k \in 1..Len(Lines(data)) :
                Lines(data)[k] = LineAt(data, k) /\ ~TooLong(LineAt(data, k))
           /\ Len(Lines(data)) < Len(Stops(data)) => TooLong(LineAt(data, Len(Lines(data)) + 1))
<1>. DEFINE stops == Stops(data)
            m == Len(stops)
            line == [k \in DOMAIN stops |-> LineAt(data, k)]
            all == Append(line, Sentinel)
            I == {i \in 1..Len(all) : Len(all[i]) >= MaxTokenSize}
            last == CHOOSE i \in I : \A j \in I : i <= j
<1>1. stops \in Seq(Nat \ {0}) /\ m \in Nat /\ DOMAIN stops = 1..m
  BY StopsAre
<1>2. \A k \in 1..m : LineAt(data, k) \in Text
  BY <1>1, LineAtIs
<1>3. Lines(data) = SubSeq(line, 1, (IF I # {} THEN Min(I) ELSE 0) - 1)
  BY DEF Lines, LineAt, Stops, Breaks, SelectInSeq, Sentinel
<1>4. line \in Seq(Text) /\ Len(line) = m /\ \A k \in 1..m : line[k] = LineAt(data, k)
  <2>1. line \in [DOMAIN stops -> Text]
    BY <1>1, <1>2
  <2>2. \A k \in 1..m : line[k] = LineAt(data, k)
    BY <1>1
  <2>. HIDE DEF line, stops
  <2>. QED
    BY <1>1, <2>1, <2>2, SeqOfFcn
<1>. HIDE DEF line, m, stops
<1>5. /\ Len(all) = m + 1 /\ all[m + 1] = Sentinel /\ \A k \in 1..m : all[k] = LineAt(data, k)
  <2>1. line \in Seq(Text \cup {Sentinel})
    BY <1>4
  <2>. QED
    BY <1>1, <1>4, <2>1
<1>6. Len(Sentinel) >= MaxTokenSize
  BY NormalizeAssumption DEF Sentinel
<1>. HIDE DEF all
<1>7. m + 1 \in I /\ I \subseteq 1..m + 1 /\ I \in SUBSET Nat
  BY <1>1, <1>5, <1>6
<1>8. last \in I /\ \A j \in I : last <= j
  <2>. HIDE DEF I
  <2>1. \E i \in I : \A j \in I : i <= j
    BY <1>7, LeastNumber
  <2>. QED
    BY <2>1
<1>9. Lines(data) = SubSeq(line, 1, last - 1)
  BY <1>3, <1>7 DEF Min
<1>. HIDE DEF last
<1>10. last \in 1..m + 1 /\ Len(all[last]) >= MaxTokenSize
       /\ \A i \in 1..m + 1 : Len(all[i]) >= MaxTokenSize => last <= i
  BY <1>5, <1>7, <1>8
<1>11. /\ Lines(data) \in Seq(Text) /\ Len(Lines(data)) = last - 1
       /\ \A k \in 1..last - 1 : Lines(data)[k] = line[k]
  BY <1>1, <1>4, <1>9, <1>10
<1>12. ASSUME NEW k \in 1..last - 1  PROVE Lines(data)[k] = LineAt(data, k) /\ ~TooLong(LineAt(data, k))
  <2>1. k \in 1..m /\ k \in 1..m + 1 /\ ~(last <= k)
    BY <1>1, <1>10
  <2>. QED
    BY <1>4, <1>5, <1>10, <1>11, <2>1 DEF TooLong
<1>13. ASSUME last - 1 < m  PROVE TooLong(LineAt(data, last - 1 + 1))
  <2>1. last \in 1..m /\ last - 1 + 1 = last
    BY <1>1, <1>10, <1>13
  <2>. QED
    BY <1>5, <1>10, <2>1 DEF TooLong
<1>. QED
  BY <1>1, <1>10, <1>11, <1>12, <1>13 DEF m, stops

(* The bytes of the first lines, with their newlines. *)
Consumed(data, count) ==
    IF count = 0 THEN 0
    ELSE IF Stops(data)[count] <= Len(data) THEN Stops(data)[count] ELSE Len(data)

(* The stop behind the consumed lines is the first newline of the rest, or *)
(* its end.                                                                *)
LEMMA NextStop ==
    ASSUME NEW data \in Contents, NEW done \in 0..Len(Stops(data)),
           NEW used, used = Consumed(data, done), used < Len(data)
    PROVE  /\ used \in Nat /\ done < Len(Stops(data))
           /\ ChunkStart(Stops(data), done + 1) = used + 1
           /\ Stops(data)[done + 1] \in used + 1..Len(data) + 1
           /\ Stops(data)[done + 1] <= Len(data) => data[Stops(data)[done + 1]] = Newline
           /\ \A s \in used + 1..Len(data) : data[s] = Newline => Stops(data)[done + 1] <= s
           /\ Stops(data)[done + 1] = Len(data) + 1 => done + 1 = Len(Stops(data))
<1>. DEFINE stops == Stops(data)
            n == Len(data)
            m == Len(stops)
            next == stops[done + 1]
<1>1. /\ n \in Nat /\ m \in Nat /\ DOMAIN stops = 1..m /\ done \in Nat /\ done <= m
      /\ \A k \in 1..m : /\ stops[k] \in 1..n + 1
                         /\ stops[k] <= n => data[stops[k]] = Newline
                         /\ stops[k] = n + 1 => data[n] # Newline
      /\ \A k, l \in 1..m : k < l => stops[k] < stops[l]
      /\ \A i \in 1..n : data[i] = Newline => i \in Range(stops)
      /\ n >= 1 => m >= 1 /\ stops[m] >= n
  BY StopsAre
<1>. HIDE DEF stops, n, m
<1>2. used = IF done = 0 THEN 0 ELSE IF stops[done] <= n THEN stops[done] ELSE n
  BY DEF Consumed, stops, n
<1>3. used < n
  BY DEF n
<1>4. used \in Nat /\ (done # 0 => done \in 1..m /\ used = stops[done] /\ stops[done] \in Nat)
  <2>1. done # 0 => done \in 1..m /\ stops[done] \in 1..n + 1
    BY <1>1
  <2>. QED
    BY <1>1, <1>2, <1>3, <2>1
<1>5. done < m
  <2>1. CASE done = 0
    BY <1>1, <1>3, <1>4, <2>1
  <2>2. CASE done # 0
    <3>1. done = m => stops[done] >= n
      BY <1>1, <1>3, <1>4
    <3>. QED
      BY <1>1, <1>3, <1>4, <2>2, <3>1
  <2>. QED
    BY <2>1, <2>2
<1>6. done + 1 \in 1..m /\ next \in 1..n + 1 /\ (done # 0 => stops[done] < next)
  <2>1. done + 1 \in 1..m /\ (done # 0 => done \in 1..m /\ done < done + 1)
    BY <1>1, <1>5
  <2>. QED
    BY <1>1, <2>1
<1>7. ChunkStart(stops, done + 1) = used + 1
  BY <1>1, <1>2, <1>4 DEF ChunkStart
<1>8. next \in used + 1..n + 1
  BY <1>1, <1>2, <1>4, <1>6
<1>9. ASSUME NEW s \in used + 1..n, data[s] = Newline  PROVE next <= s
  <2>1. s \in 1..n
    BY <1>1, <1>4
  <2>2. PICK l \in 1..m : stops[l] = s
    BY <1>1, <1>9, <2>1 DEF Range
  <2>3. ~(l <= done)
    <3>1. SUFFICES ASSUME l <= done  PROVE FALSE
      OBVIOUS
    <3>2. done # 0 /\ (l = done \/ l < done)
      BY <1>1, <2>2, <3>1
    <3>3. stops[l] <= stops[done]
      BY <1>1, <1>4, <2>1, <2>2, <3>2
    <3>. QED
      BY <1>4, <2>2, <3>2, <3>3
  <2>4. l = done + 1 \/ done + 1 < l
    BY <1>1, <2>2, <2>3
  <2>. QED
    BY <1>1, <1>6, <2>1, <2>2, <2>4
<1>10. next = n + 1 => done + 1 = m
  <2>1. SUFFICES ASSUME next = n + 1, done + 1 # m  PROVE FALSE
    OBVIOUS
  <2>2. m \in 1..m /\ done + 1 < m
    BY <1>1, <1>6, <2>1
  <2>3. next < stops[m] /\ stops[m] \in 1..n + 1
    BY <1>1, <1>6, <2>2
  <2>. QED
    BY <1>1, <2>1, <2>3
<1>. QED
  BY <1>1, <1>4, <1>5, <1>6, <1>7, <1>8, <1>9, <1>10 DEF stops, n, m

(* When all is consumed there are no more stops. *)
LEMMA NoMoreStops ==
    ASSUME NEW data \in Contents, NEW done \in 0..Len(Stops(data)),
           Consumed(data, done) = Len(data)
    PROVE  done = Len(Stops(data))
<1>. DEFINE stops == Stops(data)
            n == Len(data)
            m == Len(stops)
<1>1. /\ n \in Nat /\ m \in Nat /\ done \in Nat /\ done <= m
      /\ \A k \in 1..m : /\ stops[k] \in 1..n + 1
                         /\ stops[k] <= n => data[stops[k]] = Newline
                         /\ stops[k] = n + 1 => data # << >> /\ data[n] # Newline
      /\ \A k, l \in 1..m : k < l => stops[k] < stops[l]
  BY StopsAre
<1>0. n = 0 => data = << >>
  BY DEF Contents
<1>. HIDE DEF stops, n, m
<1>2. n = IF done = 0 THEN 0 ELSE IF stops[done] <= n THEN stops[done] ELSE n
  BY DEF Consumed, stops, n
<1>3. SUFFICES ASSUME done < m  PROVE FALSE
  BY <1>1 DEF m, stops
<1>4. done + 1 \in 1..m /\ stops[done + 1] \in 1..n + 1
  BY <1>1, <1>3
<1>5. CASE done = 0
  BY <1>0, <1>1, <1>2, <1>4, <1>5
<1>6. CASE done # 0
  <2>1. done \in 1..m /\ stops[done] < stops[done + 1] /\ stops[done] \in 1..n + 1
    BY <1>1, <1>3, <1>4, <1>6
  <2>2. stops[done] = n /\ stops[done + 1] = n + 1
    BY <1>1, <1>2, <1>4, <1>6, <2>1
  <2>. QED
    BY <1>1, <1>4, <2>1, <2>2
<1>. QED
  BY <1>5, <1>6
=============================================================================
