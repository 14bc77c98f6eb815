--------------------------- MODULE ZipFetchProofs ---------------------------
(***************************************************************************)
(* Proofs about the zip cache, for any number of workers, archives and     *)
(* failures: what a worker has is a download or the beginning of one, and  *)
(* a version is recorded only after a whole archive was hashed, unless two *)
(* workers created the cache file.                                         *)
(***************************************************************************)
EXTENDS ZipFetch, TLAPS

(* What is received is a sequence of cells. *)
LEMMA ReceivedFacts ==
    ASSUME NEW c \in Content
    PROVE  /\ Size(c) \in Nat
           /\ Received(c) \in Seq(Cell)
           /\ Len(Received(c)) <= Size(c)
           /\ \A i \in 1..Len(Received(c)) :
                 Received(c)[i] = [content |-> c, place |-> i]
<1>1. Size(c) \in Nat
  BY ZipAssumption DEF Size
<1>. DEFINE n == IF Size(c) <= maxZipSize THEN Size(c) ELSE maxZipSize
<1>2. n \in Nat /\ n <= Size(c)
  BY <1>1, ZipAssumption
<1>3. Received(c) = [i \in 1..n |-> [content |-> c, place |-> i]]
  BY DEF Received
<1>4. \A i \in 1..n : [content |-> c, place |-> i] \in Cell
  BY <1>2 DEF Cell
<1>. HIDE DEF n
<1>5. Received(c) \in Seq(Cell) /\ Len(Received(c)) = n
  BY <1>2, <1>3, <1>4
<1>. QED
  BY <1>1, <1>2, <1>3, <1>5

(* What Write leaves in the cache file is a sequence of cells. *)
LEMMA WrittenTyped ==
    ASSUME NEW s \in Seq(Cell), NEW next \in Nat \ {0}, NEW x \in Cell, Hole \in Cell
    PROVE  LET n == IF next > Len(s) THEN next ELSE Len(s)
               t == [i \in 1..n |-> IF i = next THEN x
                                     ELSE IF i <= Len(s) THEN s[i] ELSE Hole]
           IN  t \in Seq(Cell) /\ Len(t) = n
<1>. DEFINE n == IF next > Len(s) THEN next ELSE Len(s)
            t == [i \in 1..n |-> IF i = next THEN x
                                  ELSE IF i <= Len(s) THEN s[i] ELSE Hole]
<1>1. n \in Nat
  OBVIOUS
<1>2. \A i \in 1..n : (IF i = next THEN x
                       ELSE IF i <= Len(s) THEN s[i] ELSE Hole) \in Cell
  OBVIOUS
<1>. HIDE DEF n
<1>3. t \in Seq(Cell) /\ Len(t) = n
  BY <1>1, <1>2
<1>. QED
  BY <1>3 DEF n

(* A worker that is done has a well-typed nothing. *)
LEMMA ForgetTyped ==
    ASSUME TypeOK, NEW w \in Worker, Forget(w)
    PROVE  /\ pc' \in [Worker -> {"idle", "read", "download", "create", "write",
                                  "open", "index", "mark"}]
           /\ data' \in [Worker -> Seq(Cell)]
           /\ offset' \in [Worker -> Nat]
           /\ \A v \in Worker :
                 /\ offset'[v] <= Len(data'[v])
                 /\ pc'[v] \in {"idle", "read", "download", "create"} => offset'[v] = 0
                 /\ pc'[v] = "idle" => data'[v] = << >>
  BY DEF TypeOK, Forget, Goto

(* Every variable has its type initially ... *)
LEMMA TypeInit == Init => TypeOK
<1>. SUFFICES ASSUME Init
              PROVE  TypeOK
  OBVIOUS
<1>1. cache \in Seq(Cell)
  BY DEF Init
<1>2. data \in [Worker -> Seq(Cell)]
  BY DEF Init
<1>3. \A w \in Worker : data[w] = << >> /\ offset[w] = 0 /\ Len(data[w]) = 0
  BY DEF Init
<1>4. /\ pc \in [Worker -> {"idle", "read", "download", "create", "write", "open",
                          "index", "mark"}]
      /\ offset \in [Worker -> Nat]
  BY DEF Init
<1>5. exists \in BOOLEAN /\ marked \in BOOLEAN /\ raced \in BOOLEAN
  BY DEF Init
<1>. QED
  BY <1>1, <1>2, <1>3, <1>4, <1>5 DEF TypeOK

(* ... and after every step of a worker, or a kill. *)
LEMMA TypeStep == TypeOK /\ [Next]_vars => TypeOK'
<1>. SUFFICES ASSUME TypeOK, [Next]_vars
              PROVE  TypeOK'
  OBVIOUS
<1>1. CASE UNCHANGED vars
  BY <1>1 DEF TypeOK, vars
<1>2. ASSUME NEW w \in Worker, Begin(w)
      PROVE  TypeOK'
  BY <1>2 DEF TypeOK, Begin, Goto
<1>3. ASSUME NEW w \in Worker, Read(w)
      PROVE  TypeOK'
  <2>1. CASE /\ Len(data[w]) + 1 <= Len(cache)
             /\ data' = [data EXCEPT ![w] = Append(@, cache[Len(data[w]) + 1])]
             /\ UNCHANGED pc
    <3>1. cache[Len(data[w]) + 1] \in Cell
      BY <2>1 DEF TypeOK
    <3>2. /\ Append(data[w], cache[Len(data[w]) + 1]) \in Seq(Cell)
          /\ Len(Append(data[w], cache[Len(data[w]) + 1])) = Len(data[w]) + 1
      BY <3>1 DEF TypeOK
    <3>. QED
      BY <1>3, <2>1, <3>2 DEF TypeOK, Read
  <2>2. CASE Goto(w, "open") /\ UNCHANGED data
    BY <1>3, <2>2 DEF TypeOK, Read, Goto
  <2>3. CASE data' = [data EXCEPT ![w] = << >>] /\ Goto(w, "download")
    BY <1>3, <2>3 DEF TypeOK, Read, Goto
  <2>. QED
    BY <1>3, <2>1, <2>2, <2>3 DEF Read
<1>4. ASSUME NEW w \in Worker, Download(w)
      PROVE  TypeOK'
  <2>1. ASSUME NEW c \in Content, data' = [data EXCEPT ![w] = Received(c)],
               Goto(w, "create") \/ Goto(w, "open"), UNCHANGED offset
        PROVE  TypeOK'
    <3>1. Received(c) \in Seq(Cell) /\ Len(Received(c)) \in Nat
      BY ReceivedFacts
    <3>2. offset[w] = 0
      BY <1>4 DEF TypeOK, Download
    <3>3. data' \in [Worker -> Seq(Cell)] /\ offset' \in [Worker -> Nat]
      BY <2>1, <3>1 DEF TypeOK
    <3>4. pc' \in [Worker -> {"idle", "read", "download", "create", "write", "open",
                              "index", "mark"}]
      BY <2>1 DEF TypeOK, Goto
    <3>5. \A v \in Worker :
             /\ offset'[v] <= Len(data'[v])
             /\ pc'[v] \in {"idle", "read", "download", "create"} => offset'[v] = 0
             /\ pc'[v] = "idle" => data'[v] = << >>
      <4>. SUFFICES ASSUME NEW v \in Worker
                    PROVE  /\ offset'[v] <= Len(data'[v])
                           /\ pc'[v] \in {"idle", "read", "download", "create"}
                                => offset'[v] = 0
                           /\ pc'[v] = "idle" => data'[v] = << >>
        OBVIOUS
      <4>1. CASE v = w
        <5>1. offset'[v] = 0 /\ data'[v] = Received(c)
          BY <2>1, <3>2, <4>1 DEF TypeOK
        <5>2. pc'[v] # "idle"
          BY <2>1, <4>1 DEF TypeOK, Goto
        <5>. QED
          BY <3>1, <5>1, <5>2
      <4>2. CASE v # w
        BY <2>1, <4>2 DEF TypeOK, Goto
      <4>. QED
        BY <4>1, <4>2
    <3>. QED
      BY <1>4, <3>3, <3>4, <3>5 DEF TypeOK, Download
  <2>2. CASE Forget(w)
    BY <1>4, <2>2, ForgetTyped DEF TypeOK, Download
  <2>. QED
    BY <1>4, <2>1, <2>2 DEF Download
<1>5. ASSUME NEW w \in Worker, Create(w)
      PROVE  TypeOK'
  <2>1. cache' \in Seq(Cell)
    <3>1. << >> \in Seq(Cell) /\ cache \in Seq(Cell)
      BY DEF TypeOK
    <3>2. cache' = << >> \/ cache' = cache
      BY <1>5 DEF Create
    <3>. QED
      BY <3>1, <3>2
  <2>2. exists' \in BOOLEAN /\ raced' \in BOOLEAN
    BY <1>5 DEF TypeOK, Create
  <2>3. Goto(w, "write") \/ Goto(w, "open")
    BY <1>5 DEF Create
  <2>. QED
    BY <1>5, <2>1, <2>2, <2>3 DEF TypeOK, Create, Goto
<1>6. ASSUME NEW w \in Worker, Write(w)
      PROVE  TypeOK'
  <2>1. CASE UNCHANGED <<cache, offset>> /\ Goto(w, "open")
    BY <1>6, <2>1 DEF TypeOK, Write, Goto
  <2>2. ASSUME offset[w] + 1 <= Len(data[w]), UNCHANGED pc,
               offset' = [offset EXCEPT ![w] = offset[w] + 1],
               cache' = [i \in 1..(IF offset[w] + 1 > Len(cache) THEN offset[w] + 1
                                   ELSE Len(cache)) |->
                           IF i = offset[w] + 1 THEN data[w][offset[w] + 1]
                           ELSE IF i <= Len(cache) THEN cache[i] ELSE Hole]
        PROVE  TypeOK'
    <3>1. Hole \in Cell
      BY DEF Hole, Cell
    <3>2. data[w] \in Seq(Cell) /\ offset[w] + 1 \in 1..Len(data[w])
      BY <2>2 DEF TypeOK
    <3>3. data[w][offset[w] + 1] \in Cell
      BY <3>2
    <3>4. cache \in Seq(Cell) /\ offset[w] + 1 \in Nat \ {0}
      BY DEF TypeOK
    <3>5. cache' \in Seq(Cell)
      <4>. HIDE DEF Hole
      <4>. QED
        BY <2>2, <3>1, <3>3, <3>4, WrittenTyped
    <3>. QED
      BY <1>6, <2>2, <3>5 DEF TypeOK, Write
  <2>. QED
    BY <1>6, <2>1, <2>2 DEF Write
<1>7. ASSUME NEW w \in Worker, Open(w)
      PROVE  TypeOK'
  <2>1. CASE Forget(w)
    BY <1>7, <2>1, ForgetTyped DEF TypeOK, Open
  <2>2. CASE Goto(w, "index") /\ UNCHANGED <<data, offset>>
    BY <1>7, <2>2 DEF TypeOK, Open, Goto
  <2>. QED
    BY <1>7, <2>1, <2>2 DEF Open
<1>8. ASSUME NEW w \in Worker, Index(w)
      PROVE  TypeOK'
  BY <1>8 DEF TypeOK, Index, Goto
<1>9. ASSUME NEW w \in Worker, Mark(w)
      PROVE  TypeOK'
  BY <1>9, ForgetTyped DEF TypeOK, Mark
<1>10. ASSUME NEW w \in Worker, Kill(w)
       PROVE  TypeOK'
  BY <1>10, ForgetTyped DEF TypeOK, Kill
<1>. QED
  BY <1>1, <1>2, <1>3, <1>4, <1>5, <1>6, <1>7, <1>8, <1>9, <1>10 DEF Next

(* Every variable keeps its type, whatever fails (fetchZip, IndexZip). *)
THEOREM TypeCorrect == Spec => []TypeOK
  BY TypeInit, TypeStep, PTL DEF Spec
-----------------------------------------------------------------------------
(* Nothing is the beginning of every download. *)
LEMMA EmptyPart == \E c \in Content : PartOf(<< >>, c)
<1>1. PICK c \in Content : TRUE
  BY ZipAssumption
<1>2. Len(<< >>) = 0 /\ Len(Received(c)) \in Nat
  BY ReceivedFacts
<1>3. PartOf(<< >>, c)
  BY <1>2 DEF PartOf
<1>. QED
  BY <1>3

(* The beginning of a download that opens is all of it. *)
LEMMA OpensWhole ==
    ASSUME NEW c \in Content, NEW d \in Seq(Cell), PartOf(d, c), Opens(d)
    PROVE  /\ Last(d).content = c
           /\ \A i \in Code(c) : d[i] = [content |-> c, place |-> i]
<1>1. Len(d) \in Nat \ {0}
  BY DEF Opens
<1>2. \A i \in 1..Len(d) : d[i] = [content |-> c, place |-> i]
  BY ReceivedFacts DEF PartOf
<1>3. Last(d) = [content |-> c, place |-> Len(d)]
  BY <1>1, <1>2 DEF Last
<1>4. Len(d) = Size(c)
  BY <1>3 DEF Opens
<1>5. Code(c) \subseteq 1..Size(c)
  <2>1. Len(Names[c]) \in Nat
    BY ZipAssumption
  <2>2. Code(c) \subseteq 1..Len(Names[c])
    BY DEF Code
  <2>. QED
    BY <2>1, <2>2 DEF Size
<1>. QED
  BY <1>2, <1>3, <1>4, <1>5

(* How the cache file and what the workers have of it agree. *)
CacheInv == AbsentInv /\ OnlyPrefixes /\ (~raced => ReaderInv /\ WriterInv)

(* Nothing disturbs that when a worker forgets what it has. *)
LEMMA ForgetCache ==
    ASSUME TypeOK, CacheInv, NEW w \in Worker, Forget(w),
           UNCHANGED <<exists, cache, raced>>
    PROVE  CacheInv'
<1>1. /\ pc'[w] = "idle" /\ data'[w] = << >>
      /\ \A v \in Worker \ {w} : /\ pc'[v] = pc[v]
                                  /\ data'[v] = data[v]
                                  /\ offset'[v] = offset[v]
  BY DEF TypeOK, Forget, Goto
<1>2. AbsentInv'
  BY <1>1 DEF CacheInv, AbsentInv
<1>3. OnlyPrefixes'
  BY <1>1, EmptyPart DEF CacheInv, OnlyPrefixes
<1>4. ~raced' => ReaderInv'
  BY <1>1 DEF CacheInv, ReaderInv
<1>5. ~raced' => WriterInv'
  BY <1>1 DEF CacheInv, WriterInv
<1>. QED
  BY <1>2, <1>3, <1>4, <1>5 DEF CacheInv

(* It holds initially ... *)
LEMMA CacheInit == Init => CacheInv
<1>. SUFFICES ASSUME Init
              PROVE  CacheInv
  OBVIOUS
<1>1. \A w \in Worker : pc[w] = "idle" /\ data[w] = << >>
  BY DEF Init
<1>2. ~exists /\ cache = << >>
  BY DEF Init
<1>3. AbsentInv
  BY <1>1, <1>2 DEF AbsentInv
<1>4. OnlyPrefixes
  BY <1>1, <1>2, EmptyPart DEF OnlyPrefixes
<1>5. ReaderInv /\ WriterInv
  BY <1>1 DEF ReaderInv, WriterInv
<1>. QED
  BY <1>3, <1>4, <1>5 DEF CacheInv

(* A step that only takes a worker out of reading and writing keeps it. *)
LEMMA GotoCache ==
    ASSUME TypeOK, CacheInv, NEW w \in Worker, NEW label,
           Goto(w, label), label \notin {"read", "write"},
           UNCHANGED <<exists, cache, data, offset, raced>>
    PROVE  CacheInv'
<1>1. /\ pc'[w] = label
      /\ \A v \in Worker \ {w} : pc'[v] = pc[v]
  BY DEF TypeOK, Goto
<1>2. AbsentInv'
  BY <1>1 DEF CacheInv, AbsentInv
<1>3. OnlyPrefixes'
  BY DEF CacheInv, OnlyPrefixes
<1>4. ~raced' => ReaderInv'
  BY <1>1 DEF CacheInv, ReaderInv
<1>5. ~raced' => WriterInv'
  BY <1>1 DEF CacheInv, WriterInv
<1>. QED
  BY <1>2, <1>3, <1>4, <1>5 DEF CacheInv

(* A worker that looks the archive up starts to read an existing file. *)
LEMMA BeginCache ==
    ASSUME TypeOK, CacheInv, NEW w \in Worker, Begin(w)
    PROVE  CacheInv'
<1>1. CASE ~exists
  BY <1>1, GotoCache DEF Begin
<1>2. CASE exists
  <2>1. /\ pc'[w] = "read" /\ data[w] = << >> /\ Len(data[w]) = 0
        /\ \A v \in Worker \ {w} : pc'[v] = pc[v]
        /\ UNCHANGED <<exists, cache, data, offset, raced>>
    BY <1>2 DEF TypeOK, Begin, Goto
  <2>2. Len(cache) \in Nat
    BY DEF TypeOK
  <2>3. AbsentInv'
    BY <1>2, <2>1 DEF AbsentInv
  <2>4. OnlyPrefixes'
    BY <2>1 DEF CacheInv, OnlyPrefixes
  <2>5. ~raced' => ReaderInv'
    BY <2>1, <2>2 DEF CacheInv, ReaderInv
  <2>6. ~raced' => WriterInv'
    BY <2>1 DEF CacheInv, WriterInv
  <2>. QED
    BY <2>3, <2>4, <2>5, <2>6 DEF CacheInv
<1>. QED
  BY <1>1, <1>2

(* What a reader has read stays the beginning of the file. *)
LEMMA ReadCache ==
    ASSUME TypeOK, CacheInv, NEW w \in Worker, Read(w)
    PROVE  CacheInv'
<1>. DEFINE next == Len(data[w]) + 1
            more == Append(data[w], cache[next])
<1>0. UNCHANGED <<exists, cache, offset, raced>>
  BY DEF Read
<1>1. CASE next <= Len(cache) /\ data' = [data EXCEPT ![w] = more] /\ UNCHANGED pc
  <2>1. /\ data'[w] = more
        /\ \A v \in Worker \ {w} : data'[v] = data[v]
    BY <1>1 DEF TypeOK
  <2>2. data[w] \in Seq(Cell) /\ cache \in Seq(Cell) /\ cache[next] \in Cell
    BY <1>1 DEF TypeOK
  <2>3. /\ Len(more) = next /\ next \in Nat
        /\ \A i \in 1..next : more[i] = IF i = next THEN cache[next] ELSE data[w][i]
    BY <2>2
  <2>4. ~raced => \A i \in 1..next : more[i] = cache[i]
    BY <2>2, <2>3 DEF CacheInv, ReaderInv, Read
  <2>5. AbsentInv'
    BY <1>0, <1>1 DEF CacheInv, AbsentInv
  <2>6. OnlyPrefixes'
    <3>. SUFFICES ASSUME ~raced
                  PROVE  \E c \in Content : PartOf(more, c)
      BY <1>0, <2>1 DEF CacheInv, OnlyPrefixes
    <3>1. PICK c \in Content : PartOf(cache, c)
      BY DEF CacheInv, OnlyPrefixes
    <3>2. Len(Received(c)) \in Nat /\ Len(cache) \in Nat
      BY <2>2, ReceivedFacts
    <3>. HIDE DEF more, next
    <3>3. PartOf(more, c)
      BY <1>1, <2>3, <2>4, <3>1, <3>2 DEF PartOf
    <3>. QED
      BY <3>3
  <2>7. ~raced' => ReaderInv'
    <3>. HIDE DEF more, next
    <3>. QED
      BY <1>0, <1>1, <2>1, <2>3, <2>4 DEF CacheInv, ReaderInv
  <2>8. ~raced' => WriterInv'
    <3>1. pc[w] = "read"
      BY DEF Read
    <3>. QED
      BY <1>0, <1>1, <2>1, <3>1 DEF CacheInv, WriterInv
  <2>. QED
    BY <2>5, <2>6, <2>7, <2>8 DEF CacheInv
<1>2. CASE Goto(w, "open") /\ UNCHANGED data
  BY <1>0, <1>2, GotoCache
<1>3. CASE data' = [data EXCEPT ![w] = << >>] /\ Goto(w, "download")
  <2>1. /\ pc'[w] = "download" /\ data'[w] = << >>
        /\ \A v \in Worker \ {w} : pc'[v] = pc[v] /\ data'[v] = data[v]
    BY <1>3 DEF TypeOK, Goto
  <2>2. AbsentInv'
    BY <1>0, <2>1 DEF CacheInv, AbsentInv
  <2>3. OnlyPrefixes'
    BY <1>0, <2>1, EmptyPart DEF CacheInv, OnlyPrefixes
  <2>4. ~raced' => ReaderInv'
    BY <1>0, <2>1 DEF CacheInv, ReaderInv
  <2>5. ~raced' => WriterInv'
    BY <1>0, <2>1 DEF CacheInv, WriterInv
  <2>. QED
    BY <2>2, <2>3, <2>4, <2>5 DEF CacheInv
<1>. QED
  BY <1>1, <1>2, <1>3 DEF Read

(* A download is the beginning of itself. *)
LEMMA DownloadCache ==
    ASSUME TypeOK, CacheInv, NEW w \in Worker, Download(w)
    PROVE  CacheInv'
<1>0. UNCHANGED <<exists, cache, raced>>
  BY DEF Download
<1>1. ASSUME NEW c \in Content, data' = [data EXCEPT ![w] = Received(c)],
             Goto(w, "create") \/ Goto(w, "open"), UNCHANGED offset
      PROVE  CacheInv'
  <2>1. /\ pc'[w] \in {"create", "open"} /\ data'[w] = Received(c)
        /\ \A v \in Worker \ {w} : pc'[v] = pc[v] /\ data'[v] = data[v]
    BY <1>1 DEF TypeOK, Goto
  <2>2. PartOf(Received(c), c)
    BY ReceivedFacts DEF PartOf
  <2>3. AbsentInv'
    BY <1>0, <2>1 DEF CacheInv, AbsentInv
  <2>4. OnlyPrefixes'
    BY <1>0, <2>1, <2>2 DEF CacheInv, OnlyPrefixes
  <2>5. ~raced' => ReaderInv'
    BY <1>0, <2>1 DEF CacheInv, ReaderInv
  <2>6. ~raced' => WriterInv'
    BY <1>0, <1>1, <2>1 DEF CacheInv, WriterInv
  <2>. QED
    BY <2>3, <2>4, <2>5, <2>6 DEF CacheInv
<1>2. CASE Forget(w)
  BY <1>0, <1>2, ForgetCache
<1>. QED
  BY <1>1, <1>2 DEF Download

(* The first to create the file is its only writer. *)
LEMMA CreateCache ==
    ASSUME TypeOK, CacheInv, NEW w \in Worker, Create(w)
    PROVE  CacheInv'
<1>1. CASE UNCHANGED <<exists, cache, raced>> /\ Goto(w, "open")
  BY <1>1, GotoCache DEF Create
<1>2. CASE /\ exists' = TRUE /\ cache' = << >> /\ raced' = (raced \/ exists)
           /\ Goto(w, "write")
  <2>1. /\ pc'[w] = "write" /\ offset[w] = 0
        /\ \A v \in Worker \ {w} : pc'[v] = pc[v]
        /\ data' = data /\ offset' = offset
    BY <1>2 DEF TypeOK, Create, Goto
  <2>2. Len(cache') = 0
    BY <1>2
  <2>3. ~raced' => ~raced /\ ~exists
    BY <1>2 DEF TypeOK
  <2>4. AbsentInv'
    BY <1>2 DEF AbsentInv
  <2>5. OnlyPrefixes'
    BY <1>2, <2>1, <2>3, EmptyPart DEF CacheInv, OnlyPrefixes
  <2>6. ~raced' => ReaderInv'
    BY <2>1, <2>3 DEF CacheInv, AbsentInv, ReaderInv
  <2>7. ~raced' => WriterInv'
    BY <2>1, <2>2, <2>3 DEF CacheInv, AbsentInv, WriterInv
  <2>. QED
    BY <2>4, <2>5, <2>6, <2>7 DEF CacheInv
<1>. QED
  BY <1>1, <1>2 DEF Create

(* The one writer makes the file longer by what comes next. *)
LEMMA WriteCache ==
    ASSUME TypeOK, CacheInv, NEW w \in Worker, Write(w)
    PROVE  CacheInv'
<1>. DEFINE next == offset[w] + 1
            n    == IF next > Len(cache) THEN next ELSE Len(cache)
            t    == [i \in 1..n |-> IF i = next THEN data[w][next]
                                   ELSE IF i <= Len(cache) THEN cache[i] ELSE Hole]
<1>0. UNCHANGED <<exists, data, raced>> /\ pc[w] = "write"
  BY DEF Write
<1>1. CASE UNCHANGED <<cache, offset>> /\ Goto(w, "open")
  BY <1>0, <1>1, GotoCache
<1>2. CASE /\ next <= Len(data[w]) /\ cache' = t
           /\ offset' = [offset EXCEPT ![w] = next] /\ UNCHANGED pc
  <2>1. /\ data[w] \in Seq(Cell) /\ cache \in Seq(Cell)
        /\ offset[w] \in Nat /\ Len(cache) \in Nat /\ Len(data[w]) \in Nat
        /\ offset'[w] = next
        /\ \A v \in Worker \ {w} : offset'[v] = offset[v]
    BY <1>2 DEF TypeOK
  <2>2. Hole \in Cell /\ data[w][next] \in Cell
    <3>1. Hole \in Cell
      BY DEF Hole, Cell
    <3>2. next \in 1..Len(data[w])
      BY <1>2, <2>1
    <3>. QED
      BY <2>1, <3>1, <3>2
  <2>3. Len(t) = n /\ n \in Nat
    BY <2>1, <2>2, WrittenTyped
  <2>4. ASSUME ~raced
        PROVE  /\ Len(cache) = offset[w] /\ n = next
               /\ \A i \in 1..Len(cache) : cache[i] = data[w][i] /\ t[i] = cache[i]
               /\ \A i \in 1..n : t[i] = data[w][i]
               /\ \A v \in Worker : pc[v] = "write" => v = w
    <3>1. /\ Len(cache) = offset[w]
          /\ \A i \in 1..Len(cache) : cache[i] = data[w][i]
          /\ \A v \in Worker : pc[v] = "write" => v = w
      BY <1>0, <2>4 DEF CacheInv, WriterInv
    <3>. QED
      BY <2>1, <3>1
  <2>. HIDE DEF t, n, next
  <2>5. AbsentInv'
    BY <1>0 DEF CacheInv, AbsentInv
  <2>6. OnlyPrefixes'
    <3>. SUFFICES ASSUME ~raced
                  PROVE  \E c \in Content : PartOf(t, c)
      BY <1>0, <1>2 DEF CacheInv, OnlyPrefixes
    <3>1. PICK c \in Content : PartOf(data[w], c)
      BY DEF CacheInv, OnlyPrefixes
    <3>2. Len(Received(c)) \in Nat
      BY ReceivedFacts
    <3>3. PartOf(t, c)
      BY <1>2, <2>1, <2>3, <2>4, <3>1, <3>2 DEF PartOf
    <3>. QED
      BY <3>3
  <2>7. ~raced' => ReaderInv'
    <3>. SUFFICES ASSUME ~raced, NEW v \in Worker, pc[v] = "read"
                  PROVE  /\ Len(data[v]) <= Len(t)
                         /\ \A i \in 1..Len(data[v]) : data[v][i] = t[i]
      BY <1>0, <1>2 DEF ReaderInv
    <3>1. /\ Len(data[v]) <= Len(cache) /\ Len(data[v]) \in Nat
          /\ \A i \in 1..Len(data[v]) : data[v][i] = cache[i]
      BY DEF CacheInv, ReaderInv, TypeOK
    <3>2. Len(cache) <= Len(t)
      BY <2>1, <2>3, <2>4 DEF next
    <3>. QED
      BY <2>1, <2>3, <2>4, <3>1, <3>2
  <2>8. ~raced' => WriterInv'
    <3>. SUFFICES ASSUME ~raced
                  PROVE  WriterInv'
      BY <1>0
    <3>1. \A v \in Worker : pc'[v] = "write" => v = w
      BY <1>2, <2>4
    <3>2. /\ Len(cache') = offset'[w]
          /\ \A i \in 1..Len(cache') : cache'[i] = data'[w][i]
      BY <1>0, <1>2, <2>1, <2>3, <2>4
    <3>. QED
      BY <3>1, <3>2 DEF WriterInv
  <2>. QED
    BY <2>5, <2>6, <2>7, <2>8 DEF CacheInv
<1>. QED
  BY <1>1, <1>2 DEF Write

(* ... and is kept by every step. *)
LEMMA CacheStep == TypeOK /\ CacheInv /\ [Next]_vars => CacheInv'
<1>. SUFFICES ASSUME TypeOK, CacheInv, [Next]_vars
              PROVE  CacheInv'
  OBVIOUS
<1>1. CASE UNCHANGED vars
  BY <1>1 DEF vars, CacheInv, AbsentInv, OnlyPrefixes, ReaderInv, WriterInv
<1>2. ASSUME NEW w \in Worker, Open(w)
      PROVE  CacheInv'
  <2>1. UNCHANGED <<exists, cache, raced>>
    BY <1>2 DEF Open
  <2>2. CASE Forget(w)
    BY <2>1, <2>2, ForgetCache
  <2>3. CASE Goto(w, "index") /\ UNCHANGED <<data, offset>>
    BY <2>1, <2>3, GotoCache
  <2>. QED
    BY <1>2, <2>2, <2>3 DEF Open
<1>3. ASSUME NEW w \in Worker, Index(w)
      PROVE  CacheInv'
  BY <1>3, GotoCache DEF Index
<1>4. ASSUME NEW w \in Worker, Mark(w) \/ Kill(w)
      PROVE  CacheInv'
  BY <1>4, ForgetCache DEF Mark, Kill
<1>. QED
  BY <1>1, <1>2, <1>3, <1>4, BeginCache, ReadCache, DownloadCache, CreateCache,
     WriteCache DEF Next
-----------------------------------------------------------------------------
(* What has been hashed stays hashed. *)
LEMMA WholeGrows ==
    ASSUME hashed \subseteq hashed', NEW c, Whole(c)
    PROVE  Whole(c)'
  BY DEF Whole

(* The loop of IndexZip over an archive that is the beginning of a         *)
(* download hashes all of it.                                              *)
LEMMA IndexWhole ==
    ASSUME TypeOK, OnlyPrefixes, IndexInv, NEW w \in Worker, Index(w), ~raced
    PROVE  \E c \in Content : Whole(c)'
<1>1. PICK c \in Content : PartOf(data[w], c)
  BY DEF OnlyPrefixes
<1>. DEFINE d    == data[w]
            good == {i \in Code(c) : Intact(d, c, i)}
<1>2. d \in Seq(Cell) /\ Opens(d)
  BY DEF TypeOK, IndexInv, Index
<1>3. /\ Last(d).content = c
      /\ \A i \in Code(c) : d[i] = [content |-> c, place |-> i]
  BY <1>1, <1>2, OpensWhole
<1>4. \A i \in Code(c) : <<c, i>> \notin Unreadable => i \in good
  BY <1>3 DEF Intact
<1>5. \A i \in good : {PathHash(c, i), LinesHash(c, i)} \subseteq hashed'
  BY <1>3 DEF Index
<1>6. Whole(c)'
  BY <1>4, <1>5 DEF Whole
<1>. QED
  BY <1>6

(* Steps that neither begin nor end the loop of IndexZip. *)
LEMMA OtherSteps ==
    ASSUME IndexInv, MarkedIsWhole, UNCHANGED <<hashed, marked>>,
           raced => raced',
           \A w \in Worker : pc'[w] = "index" => Opens(data'[w]),
           \A w \in Worker : pc'[w] = "mark" => pc[w] = "mark"
    PROVE  IndexInv' /\ MarkedIsWhole'
<1>1. \A c : Whole(c)' <=> Whole(c)
  BY DEF Whole
<1>. QED
  BY <1>1 DEF IndexInv, MarkedIsWhole

(* What is indexed opened, and what is recorded was whole, after every     *)
(* step.                                                                   *)
LEMMA IndexStep ==
    TypeOK /\ OnlyPrefixes /\ IndexInv /\ MarkedIsWhole /\ [Next]_vars
      => IndexInv' /\ MarkedIsWhole'
<1>. SUFFICES ASSUME TypeOK, OnlyPrefixes, IndexInv, MarkedIsWhole, [Next]_vars
              PROVE  IndexInv' /\ MarkedIsWhole'
  OBVIOUS
<1>1. CASE UNCHANGED vars
  BY <1>1, OtherSteps DEF vars, IndexInv
<1>2. ASSUME NEW w \in Worker,
             Begin(w) \/ Read(w) \/ Download(w) \/ Create(w) \/ Write(w) \/ Kill(w)
      PROVE  IndexInv' /\ MarkedIsWhole'
  <2>1. UNCHANGED <<hashed, marked>> /\ (raced => raced')
    <3>1. CASE Create(w)
      BY <3>1 DEF TypeOK, Create
    <3>2. CASE ~Create(w)
      BY <1>2, <3>2 DEF Begin, Read, Download, Write, Kill
    <3>. QED
      BY <3>1, <3>2
  <2>2. /\ pc'[w] \notin {"index", "mark"}
        /\ \A v \in Worker \ {w} : pc'[v] = pc[v] /\ data'[v] = data[v]
    <3>1. CASE Begin(w)
      BY <3>1 DEF TypeOK, Begin, Goto
    <3>2. CASE Read(w)
      BY <3>2 DEF TypeOK, Read, Goto
    <3>3. CASE Download(w)
      BY <3>3 DEF TypeOK, Download, Goto, Forget
    <3>4. CASE Create(w)
      BY <3>4 DEF TypeOK, Create, Goto
    <3>5. CASE Write(w)
      BY <3>5 DEF TypeOK, Write, Goto
    <3>6. CASE Kill(w)
      BY <3>6 DEF TypeOK, Kill, Goto, Forget
    <3>. QED
      BY <1>2, <3>1, <3>2, <3>3, <3>4, <3>5, <3>6
  <2>3. \A v \in Worker : pc'[v] = "index" => Opens(data'[v])
    BY <2>2 DEF IndexInv
  <2>. QED
    BY <2>1, <2>2, <2>3, OtherSteps
<1>3. ASSUME NEW w \in Worker, Open(w)
      PROVE  IndexInv' /\ MarkedIsWhole'
  <2>1. UNCHANGED <<hashed, marked, raced>>
    BY <1>3 DEF Open
  <2>2. /\ pc'[w] \in {"idle", "index"}
        /\ pc'[w] = "index" => Opens(data[w]) /\ data' = data
        /\ \A v \in Worker \ {w} : pc'[v] = pc[v] /\ data'[v] = data[v]
    BY <1>3 DEF TypeOK, Open, Goto, Forget
  <2>3. \A v \in Worker : pc'[v] = "index" => Opens(data'[v])
    BY <2>2 DEF IndexInv
  <2>. QED
    BY <2>1, <2>2, <2>3, OtherSteps
<1>4. ASSUME NEW w \in Worker, Index(w)
      PROVE  IndexInv' /\ MarkedIsWhole'
  <2>1. /\ pc'[w] = "mark" /\ data' = data
        /\ \A v \in Worker \ {w} : pc'[v] = pc[v]
        /\ raced' = raced
    BY <1>4 DEF TypeOK, Index, Goto
  <2>2. ~raced => \E c \in Content : Whole(c)'
    BY <1>4, IndexWhole
  <2>. QED
    BY <2>1, <2>2 DEF IndexInv, MarkedIsWhole
<1>5. ASSUME NEW w \in Worker, Mark(w)
      PROVE  IndexInv' /\ MarkedIsWhole'
  <2>1. /\ pc[w] = "mark" /\ pc'[w] = "idle"
        /\ \A v \in Worker \ {w} : pc'[v] = pc[v] /\ data'[v] = data[v]
        /\ raced' = raced /\ hashed' = hashed
    BY <1>5 DEF TypeOK, Mark, Forget, Goto
  <2>2. ~raced => \E c \in Content : Whole(c)
    BY <2>1 DEF IndexInv
  <2>3. \A c : Whole(c)' <=> Whole(c)
    BY <2>1 DEF Whole
  <2>. QED
    BY <2>1, <2>2, <2>3 DEF IndexInv, MarkedIsWhole
<1>. QED
  BY <1>1, <1>2, <1>3, <1>4, <1>5 DEF Next

(* The inductive invariant of the zip cache holds in every state. *)
THEOREM ZipInvariant == Spec => []ZipIInv
<1>1. Init => ZipIInv
  <2>1. Init => IndexInv /\ MarkedIsWhole
    BY DEF Init, IndexInv, MarkedIsWhole
  <2>. QED
    BY <2>1, TypeInit, CacheInit DEF ZipIInv, CacheInv
<1>2. ZipIInv /\ [Next]_vars => ZipIInv'
  BY TypeStep, CacheStep, IndexStep DEF ZipIInv, CacheInv
<1>. QED
  BY <1>1, <1>2, PTL DEF Spec

(* Unless two workers created the cache file, it is the beginning of one   *)
(* download, and so is what any worker has (fetchZip).                     *)
THEOREM PrefixTheorem == Spec => []OnlyPrefixes
<1>1. ZipIInv => OnlyPrefixes
  BY DEF ZipIInv
<1>. QED
  BY <1>1, ZipInvariant, PTL

(* Unless two workers created the cache file, a version is recorded only   *)
(* after every readable entry of one archive was hashed (IndexZip).        *)
THEOREM WholeTheorem == Spec => []MarkedIsWhole
<1>1. ZipIInv => MarkedIsWhole
  BY DEF ZipIInv
<1>. QED
  BY <1>1, ZipInvariant, PTL
=============================================================================
