--------------------------- MODULE GitIndexProofs ---------------------------
(***************************************************************************)
(* Theorems about GitIndex, for every repository, whatever versions share, *)
(* in every order of publication, failures and kills: the lines of a       *)
(* version in the manifest are in the database although most of its files  *)
(* were never read, and what its root files say has been seen to.          *)
(***************************************************************************)
EXTENDS GitIndex, TLAPS

Hashes(blob) == {<<l>> : l \in LinesOf[blob]}

AllReplaces == UNION {ReplacesOf[v] : v \in Version}
AllDeps == UNION {LockOf[v] : v \in Version}

(* The lines of a file of version v are in the set S, if it is not one the *)
(* properties except.                                                      *)
Stored(v, f, S) ==
    Eligible(f) /\ <<v, f.blob>> \notin unread => LineHashes(f) \subseteq S

(* What a session knows is of this repository, and there is no more of it  *)
(* when no session runs.                                                   *)
SessionInv ==
    /\ replaceSet \subseteq AllReplaces /\ lockDepSet \subseteq AllDeps
    /\ pc = "files" => cur \in Version
    /\ pc = "idle" => mine = {} /\ got = {} /\ seenBlobs = {}

(* What seenBlobs lets the session skip has been hashed in this session.   *)
BlobInv == \A b \in seenBlobs \ (torn \cup Binary) : Hashes(b) \subseteq got

(* The files of the version in progress are left, or stored.               *)
FilesInv ==
    pc = "files" => \A f \in Range(Files[cur]) : f \in Range(files) \/ Stored(cur, f, got)

(* The lines of a marked version are stored: in the database, or, if this  *)
(* session has marked it, in the worker's.                                 *)
MarkedInv ==
    \A v \in marked \ cutShort : \A f \in Range(Files[v]) :
        Stored(v, f, IF v \in mine THEN db \cup got ELSE db)

LinesIInv == TypeOK /\ SessionInv /\ BlobInv /\ FilesInv /\ MarkedInv

SeenTo(v) ==
    /\ ReplacesOf[v] \subseteq replaced \cup unsaved
    /\ \A d \in LockOf[v] : d \in tried \/ d[1] \in replaced \cup unsaved

(* What the root files of a marked version say was seen to by an earlier   *)
(* session, or is on its way in this one.                                  *)
RootInv ==
    /\ deps \subseteq tried
    /\ \A v \in marked \ (mine \cup cutShort \cup blind) : SeenTo(v)
    /\ \A v \in mine \ (cutShort \cup blind) :
          ReplacesOf[v] \subseteq replaceSet /\ LockOf[v] \subseteq lockDepSet
    /\ pc \in {"deps", "merge"} => replaceSet \subseteq replaced \cup unsaved
    /\ pc = "merge" => \A d \in lockDepSet : d \in tried \/ d[1] \in replaced \cup unsaved

GitIInv == LinesIInv /\ RootInv
-----------------------------------------------------------------------------
LEMMA SameHashes ==
    ASSUME NEW f
    PROVE  LineHashes(f) = Hashes(f.blob)
  BY DEF LineHashes, Hashes

LEMMA NewestIsOne ==
    ASSUME NEW S
    PROVE  Newest(S) \subseteq S
  BY DEF Newest

LEMMA HeadAndTail ==
    ASSUME NEW T, NEW s \in Seq(T), s # << >>
    PROVE  /\ Head(s) \in T /\ Tail(s) \in Seq(T)
           /\ Range(s) \subseteq {Head(s)} \cup Range(Tail(s))
<1>1. Len(s) \in Nat /\ Len(s) > 0 /\ DOMAIN s = 1..Len(s) /\ s[1] = Head(s)
  OBVIOUS
<1>2. Tail(s) \in Seq(T) /\ Len(Tail(s)) = Len(s) - 1 /\ DOMAIN Tail(s) = 1..Len(s) - 1
  BY <1>1
<1>3. \A i \in 1..Len(s) - 1 : Tail(s)[i] = s[i + 1]
  BY <1>1
<1>4. ASSUME NEW i \in 1..Len(s), i # 1  PROVE s[i] \in Range(Tail(s))
  <2>1. i - 1 \in DOMAIN Tail(s) /\ Tail(s)[i - 1] = s[i]
    BY <1>1, <1>2, <1>3, <1>4
  <2>. QED
    BY <2>1 DEF Range
<1>5. Range(s) \subseteq {Head(s)} \cup Range(Tail(s))
  BY <1>1, <1>4 DEF Range
<1>. QED
  BY <1>1, <1>2, <1>5

LEMMA FirstFile ==
    ASSUME TypeOK, files # << >>
    PROVE  /\ Head(files).blob \in Blob
           /\ Tail(files) \in Seq(FileEntry)
           /\ Range(files) \subseteq {Head(files)} \cup Range(Tail(files))
<1>1. files \in Seq(FileEntry)
  BY DEF TypeOK
<1>2. /\ Head(files) \in FileEntry /\ Tail(files) \in Seq(FileEntry)
      /\ Range(files) \subseteq {Head(files)} \cup Range(Tail(files))
  BY <1>1, HeadAndTail
<1>3. \A x \in FileEntry : x.blob \in Blob
  BY DEF FileEntry
<1>. QED
  BY <1>2, <1>3

(* One file: what it leaves to the rest of its version. *)
LEMMA FileStep ==
    ASSUME TypeOK, BlobInv, pc = "files", files # << >>, NEW f, f = Head(files),
           SkipFile(f) \/ ReadFile(f) \/ FailToRead(f)
    PROVE  /\ seenBlobs' \subseteq Blob /\ torn' \subseteq seenBlobs'
           /\ got \subseteq got' /\ unread \subseteq unread'
           /\ Eligible(f) /\ <<cur, f.blob>> \notin unread' => LineHashes(f) \subseteq got'
           /\ BlobInv'
<1>. f.blob \in Blob /\ seenBlobs \subseteq Blob /\ torn \subseteq seenBlobs
  BY FirstFile DEF TypeOK
<1>. USE SameHashes
<1>1. CASE SkipFile(f)
  <2>1. f.blob \in torn => <<cur, f.blob>> \in unread'
    BY <1>1 DEF SkipFile
  <2>2. Eligible(f) => f.blob \in seenBlobs \ Binary
    BY <1>1 DEF SkipFile, Skip, Eligible
  <2>. QED
    BY <1>1, <2>1, <2>2 DEF SkipFile, BlobInv
<1>2. CASE ReadFile(f)
  <2>1. Eligible(f) => LineHashes(f) \subseteq got'
    BY <1>2 DEF ReadFile, Eligible
  <2>2. f.blob \notin Binary => Hashes(f.blob) \subseteq got'
    BY <1>2 DEF ReadFile
  <2>3. got \subseteq got'
    BY <1>2 DEF ReadFile
  <2>. QED
    BY <1>2, <2>1, <2>2, <2>3 DEF ReadFile, BlobInv
<1>3. CASE FailToRead(f)
  <2>1. got \subseteq got' /\ <<cur, f.blob>> \in unread' /\ unread \subseteq unread'
    BY <1>3 DEF FailToRead
  <2>2. \/ UNCHANGED <<seenBlobs, torn>>
        \/ seenBlobs' = seenBlobs \cup {f.blob} /\ torn' = torn \cup {f.blob}
    BY <1>3 DEF FailToRead
  <2>. QED
    BY <2>1, <2>2 DEF BlobInv
<1>. QED
  BY <1>1, <1>2, <1>3

(* Whoever adds to the database and to unread keeps what is stored. *)
LEMMA StoredGrows ==
    ASSUME NEW v, NEW f, NEW S, NEW T, S \subseteq T, unread \subseteq unread',
           Stored(v, f, S)
    PROVE  Eligible(f) /\ <<v, f.blob>> \notin unread' => LineHashes(f) \subseteq T
  BY DEF Stored
-----------------------------------------------------------------------------
(* The end of a session: nothing of the session is left. *)
LEMMA ForgetHolds ==
    ASSUME TypeOK, Forget, UNCHANGED <<published, manifest, blind, unsaved>>,
           cutShort' \subseteq marked
    PROVE  TypeOK' /\ SessionInv' /\ BlobInv' /\ FilesInv'
<1>1. TypeOK'
  BY DEF TypeOK, Forget, manifest
<1>. QED
  BY <1>1 DEF Forget, SessionInv, BlobInv, FilesInv

LEMMA LinesInit == Init => LinesIInv
  BY DEF Init, LinesIInv, TypeOK, SessionInv, BlobInv, FilesInv, MarkedInv

LEMMA LinesStep ==
    ASSUME LinesIInv, [Next]_vars
    PROVE  LinesIInv'
<1>. USE DEF LinesIInv
<1>1. CASE UNCHANGED vars
  BY <1>1 DEF vars, manifest, session, history, TypeOK, SessionInv, BlobInv,
             FilesInv, MarkedInv, Stored
<1>2. CASE \E v \in Version : Publish(v)
  BY <1>2 DEF Publish, manifest, session, history, TypeOK, SessionInv, BlobInv,
             FilesInv, MarkedInv, Stored
<1>3. CASE Begin
  BY <1>3 DEF Begin, manifest, session, history, TypeOK, SessionInv, BlobInv,
             FilesInv, MarkedInv, Stored
<1>4. CASE StartVersion
  <2>1. PICK v \in todo :
           /\ todo' = todo \ {v}
           /\ \/ cur' = v /\ files' = Files[v] /\ pc' = "files"
              \/ UNCHANGED <<cur, files, pc>>
    BY <1>4, NewestIsOne DEF StartVersion
  <2>2. UNCHANGED <<published, manifest, db, got, session, history>> /\ pc = "next"
    BY <1>4 DEF StartVersion
  <2>3. v \in Version /\ Files[v] \in Seq(FileEntry)
    BY GitAssumption DEF TypeOK
  <2>4. TypeOK' /\ SessionInv' /\ BlobInv'
    BY <2>1, <2>2, <2>3 DEF manifest, session, history, TypeOK, SessionInv, BlobInv
  <2>5. FilesInv'
    BY <2>1, <2>2 DEF FilesInv
  <2>6. MarkedInv'
    BY <2>2 DEF manifest, history, MarkedInv, Stored
  <2>. QED
    BY <2>4, <2>5, <2>6
<1>5. CASE IndexFile
  <2>. DEFINE f == Head(files)
  <2>1. /\ pc = "files" /\ files # << >>
        /\ SkipFile(f) \/ ReadFile(f) \/ FailToRead(f)
        /\ files' = Tail(files)
        /\ UNCHANGED <<published, manifest, db, pc, todo, cur, replaceSet,
                       lockDepSet, mine, cutShort, blind, unsaved>>
    BY <1>5 DEF IndexFile
  <2>2. /\ seenBlobs' \subseteq Blob /\ torn' \subseteq seenBlobs'
        /\ got \subseteq got' /\ unread \subseteq unread'
        /\ Eligible(f) /\ <<cur, f.blob>> \notin unread' => LineHashes(f) \subseteq got'
        /\ BlobInv'
    BY <2>1, FileStep
  <2>3. TypeOK' /\ SessionInv'
    BY <2>1, <2>2, FirstFile DEF TypeOK, SessionInv, manifest
  <2>4. FilesInv'
    <3>1. SUFFICES ASSUME NEW g \in Range(Files[cur]), g \notin Range(files')
                   PROVE  Stored(cur, g, got)'
      BY <2>1 DEF FilesInv
    <3>2. CASE g = f
      BY <2>1, <2>2, <3>2 DEF Stored
    <3>3. CASE g # f
      <4>1. Stored(cur, g, got)
        BY <2>1, <3>1, <3>3, FirstFile DEF FilesInv
      <4>. QED
        BY <2>1, <2>2, <4>1, StoredGrows DEF Stored
    <3>. QED
      BY <3>2, <3>3
  <2>5. MarkedInv'
    BY <2>1, <2>2 DEF MarkedInv, Stored, manifest
  <2>. QED
    BY <2>2, <2>3, <2>4, <2>5
<1>6. CASE WalkFails
  <2>1. TypeOK'
    BY <1>6 DEF WalkFails, manifest, session, history, TypeOK
  <2>. QED
    BY <1>6, <2>1 DEF WalkFails, manifest, session, history, SessionInv, BlobInv,
                      FilesInv, MarkedInv, Stored
<1>7. CASE FinishVersion
  <2>1. PICK new \in {{cur}, {}} :
        /\ pc = "files" /\ files = << >> /\ pc' = "next"
        /\ marked' = marked \cup new /\ mine' = mine \cup new
        /\ blind' \subseteq blind \cup new
        /\ UNCHANGED <<published, replaced, deps, db, got, todo, cur, files,
                       seenBlobs, cutShort, torn, unread, unsaved>>
    BY <1>7 DEF FinishVersion
  <2>2. cur \in Version
    BY <2>1 DEF SessionInv
  <2>3. replaceSet' \subseteq AllReplaces /\ lockDepSet' \subseteq AllDeps
    BY <1>7, <2>2 DEF FinishVersion, SessionInv, AllReplaces, AllDeps
  <2>4. TypeOK' /\ SessionInv' /\ BlobInv' /\ FilesInv'
    BY <2>1, <2>2, <2>3 DEF TypeOK, SessionInv, BlobInv, FilesInv
  <2>5. MarkedInv'
    <3>1. SUFFICES ASSUME NEW v \in marked' \ cutShort', NEW g \in Range(Files[v])
                   PROVE  Stored(v, g, IF v \in mine THEN db \cup got ELSE db)'
      BY <2>1 DEF MarkedInv
    <3>2. CASE v \in new
      <4>1. v = cur /\ Stored(cur, g, got)
        BY <2>1, <3>1, <3>2 DEF FilesInv, Range
      <4>. QED
        BY <2>1, <3>2, <4>1 DEF Stored
    <3>3. CASE v \notin new
      BY <2>1, <3>1, <3>3 DEF MarkedInv, Stored
    <3>. QED
      BY <3>2, <3>3
  <2>. QED
    BY <2>4, <2>5
<1>8. CASE MarkReplaces
  <2>1. TypeOK'
    BY <1>8 DEF MarkReplaces, session, TypeOK, SessionInv, AllReplaces
  <2>. QED
    BY <1>8, <2>1 DEF MarkReplaces, session, SessionInv, BlobInv,
                      FilesInv, MarkedInv, Stored
<1>9. CASE Dependencies
  <2>1. deps' \subseteq deps \cup lockDepSet
    BY <1>9 DEF Dependencies
  <2>2. TypeOK'
    BY <1>9, <2>1 DEF Dependencies, session, TypeOK, SessionInv, AllDeps
  <2>. QED
    BY <1>9, <2>2 DEF Dependencies, session, SessionInv, BlobInv, FilesInv,
                      MarkedInv, Stored
<1>10. CASE Merge
  <2>1. TypeOK' /\ SessionInv' /\ BlobInv' /\ FilesInv'
    BY <1>10, ForgetHolds DEF Merge, TypeOK, manifest
  <2>. QED
    BY <1>10, <2>1 DEF Merge, Forget, MarkedInv, Stored, manifest
<1>11. CASE Kill
  <2>1. TypeOK' /\ SessionInv' /\ BlobInv' /\ FilesInv'
    BY <1>11, ForgetHolds DEF Kill, TypeOK, manifest
  <2>. QED
    BY <1>11, <2>1 DEF Kill, Forget, MarkedInv, Stored, manifest
<1>. QED
  BY <1>1, <1>2, <1>3, <1>4, <1>5, <1>6, <1>7, <1>8, <1>9, <1>10, <1>11 DEF Next
-----------------------------------------------------------------------------
LEMMA RootInit == Init => RootInv
  BY DEF Init, RootInv

LEMMA RootStep ==
    ASSUME LinesIInv, RootInv, [Next]_vars
    PROVE  RootInv'
<1>1. ASSUME UNCHANGED <<manifest, replaceSet, lockDepSet, mine, cutShort, blind,
                         unsaved, tried>>,
             pc' \in {"deps", "merge"} => pc' = pc
      PROVE  RootInv'
  BY <1>1 DEF RootInv, SeenTo, manifest
<1>2. CASE UNCHANGED vars
  BY <1>1, <1>2 DEF vars, session, history
<1>3. CASE (\E v \in Version : Publish(v)) \/ Begin \/ StartVersion \/ WalkFails
  BY <1>1, <1>3 DEF Publish, Begin, StartVersion, WalkFails, session, history
<1>4. CASE IndexFile
  BY <1>1, <1>4 DEF IndexFile
<1>5. CASE FinishVersion
  <2>1. PICK new \in {{cur}, {}}, R \in {{}, ReplacesOf[cur]}, L \in {{}, LockOf[cur]} :
          /\ marked' = marked \cup new /\ mine' = mine \cup new
          /\ replaceSet' = replaceSet \cup R
          /\ lockDepSet' = lockDepSet \cup L
          /\ blind' = IF R = ReplacesOf[cur] /\ L = LockOf[cur] THEN blind
                      ELSE blind \cup new
    BY <1>5 DEF FinishVersion
  <2>2. pc' = "next" /\ UNCHANGED <<replaced, deps, cutShort, unsaved, tried>>
    BY <1>5 DEF FinishVersion
  <2>3. \A v \in marked' \ (mine' \cup cutShort' \cup blind') : SeenTo(v)'
    BY <2>1, <2>2 DEF RootInv, SeenTo
  <2>4. \A v \in mine' \ (cutShort' \cup blind') :
           ReplacesOf[v] \subseteq replaceSet' /\ LockOf[v] \subseteq lockDepSet'
    BY <2>1, <2>2 DEF RootInv
  <2>. QED
    BY <2>2, <2>3, <2>4 DEF RootInv
<1>6. CASE MarkReplaces
  <2>1. /\ replaced \cup unsaved \subseteq replaced' \cup unsaved'
        /\ replaceSet \subseteq replaced' \cup unsaved'
        /\ pc' = "deps"
        /\ UNCHANGED <<marked, deps, session, mine, cutShort, blind, tried>>
    BY <1>6 DEF MarkReplaces
  <2>. QED
    BY <2>1 DEF RootInv, SeenTo, session
<1>7. CASE Dependencies
  <2>1. \A d \in lockDepSet : d \in tried' \/ d[1] \in replaced \cup unsaved
    BY <1>7 DEF Dependencies, RootInv
  <2>2. deps' \subseteq tried' /\ tried \subseteq tried'
    BY <1>7 DEF Dependencies, RootInv
  <2>. QED
    BY <1>7, <2>1, <2>2 DEF Dependencies, RootInv, SeenTo, session
<1>8. CASE Merge
  <2>1. \A v \in mine \ (cutShort \cup blind) : SeenTo(v)
    BY <1>8 DEF Merge, RootInv, SeenTo
  <2>. QED
    BY <1>8, <2>1 DEF Merge, Forget, RootInv, SeenTo, manifest
<1>9. CASE Kill
  BY <1>9 DEF Kill, Forget, RootInv, SeenTo, manifest
<1>. QED
  BY <1>2, <1>3, <1>4, <1>5, <1>6, <1>7, <1>8, <1>9 DEF Next
-----------------------------------------------------------------------------
(* The inductive invariant of the sessions on one git repository.          *)
THEOREM GitInvariant == Spec => []GitIInv
<1>1. Init => GitIInv
  BY LinesInit, RootInit DEF GitIInv
<1>2. GitIInv /\ [Next]_vars => GitIInv'
  BY LinesStep, RootStep DEF GitIInv
<1>. QED
  BY <1>1, <1>2, PTL DEF Spec

(* Every variable keeps its type: what a session knows and what the        *)
(* manifest claims is of this repository.                                  *)
THEOREM TypeCorrect == Spec => []TypeOK
<1>1. GitIInv => TypeOK
  BY DEF GitIInv, LinesIInv
<1>. QED
  BY <1>1, GitInvariant, PTL

(* A version in the manifest has its lines in the database, however blobs  *)
(* are shared between versions and whichever of them fail.                 *)
THEOREM LinesTheorem == Spec => []LinesComplete
<1>1. GitIInv => LinesComplete
  BY DEF GitIInv, LinesIInv, MarkedInv, LinesComplete, Stored
<1>. QED
  BY <1>1, GitInvariant, PTL

(* Between sessions, nothing that a recorded version says in its root      *)
(* files is left to do, but for killed sessions, root files that could not *)
(* be read, and names that failing writes kept out of the manifest.        *)
THEOREM ForgottenTheorem == Spec => []NothingForgotten
<1>1. GitIInv => NothingForgotten
  <2>1. SUFFICES ASSUME GitIInv, pc = "idle", NEW v \in marked \ (cutShort \cup blind)
                 PROVE  SeenTo(v)
    BY DEF NothingForgotten, SeenTo
  <2>. QED
    BY <2>1 DEF GitIInv, LinesIInv, SessionInv, RootInv
<1>. QED
  BY <1>1, GitInvariant, PTL

(* No lock dependency is indexed that a version in the manifest replaces,  *)
(* in whichever order versions and their lock files were published, with   *)
(* the same exceptions: what this session has read is in replaceSet, and   *)
(* what earlier ones have read is recorded (RootInv).                      *)
THEOREM ReplacedTheorem == Spec => ReplacedNotIndexed
<1>. DEFINE Sound(d) == \A v \in marked \ (cutShort \cup blind) :
                          d[1] \in ReplacesOf[v] => d[1] \in unsaved
<1>1. GitIInv /\ [Next]_vars => [\A d \in tried' \ tried : Sound(d)]_vars
  <2>1. SUFFICES ASSUME GitIInv, Next, NEW d \in tried' \ tried,
                        NEW v \in marked \ (cutShort \cup blind), d[1] \in ReplacesOf[v]
                 PROVE  d[1] \in unsaved
    BY DEF vars
  <2>2. Dependencies
    BY <2>1 DEF Next, Publish, Begin, StartVersion, IndexFile, WalkFails,
                FinishVersion, MarkReplaces, Merge, Kill, history
  <2>3. d[1] \notin replaceSet /\ d[1] \notin replaced
    BY <2>1, <2>2 DEF Dependencies
  <2>4. CASE v \in mine
    BY <2>1, <2>3, <2>4 DEF GitIInv, RootInv
  <2>5. CASE v \notin mine
    BY <2>1, <2>3, <2>5 DEF GitIInv, RootInv, SeenTo
  <2>. QED
    BY <2>4, <2>5
<1>. QED
  BY <1>1, GitInvariant, PTL DEF Spec, ReplacedNotIndexed
=============================================================================
