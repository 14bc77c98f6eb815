------------------------------ MODULE GitIndex ------------------------------
(***************************************************************************)
(* Indexing a git repository (internal/indexer/indexer.go, and its caller  *)
(* updateGitURLEntry in cmd/corediff/db_index.go), over sessions between   *)
(* which upstream publishes more versions.  A session takes the versions   *)
(* the manifest does not have, newest first, and hashes the path and the   *)
(* lines of every file, but reads a blob only once a session.  What the    *)
(* composer.json and composer.lock files of those versions say is handled  *)
(* after the last version.                                                 *)
(*                                                                         *)
(* A path is a sequence of names.  A hash is the text that is hashed: the  *)
(* path behind "path:", or a line as a sequence of one.                    *)
(***************************************************************************)
EXTENDS Integers, Sequences, FiniteSets, SequencesExt

CONSTANTS
    Version,
    NoVersion,
    Segments,    \* version -> its parts between "." and "-"
    Files,       \* version -> the files of its tree, in the order of the walk
    LinesOf,     \* blob -> the lines HashReader emits
    Binary,      \* blobs that are not UTF-8
    HasValidExt, \* paths with the extension of a code file
    NameOf,      \* blob of a composer.json -> its name, or NoName
    NoName,
    Prefix,      \* the prefix of stored paths; << >> when none is known
    NoPlatform,  \* --no-platform: no path hashes
    ReplacesOf,  \* version -> names in the "replace" section at the root
    LockOf,      \* version -> <<name, version>> of its composer.lock
    Flaky,       \* blobs that a read may fail on
    Failing,     \* versions whose commit (.ref), tree (.tree) or root files
                 \* (.root) may fail to be read, versions and names that may
                 \* fail to be written to the manifest (.mark)
    Faults       \* subset of {"kill"}

Blob == DOMAIN LinesOf
FileEntry == [path : Seq(STRING), blob : Blob]

ASSUME GitAssumption ==
    /\ Files \in [Version -> Seq(FileEntry)]
    /\ Binary \subseteq Blob /\ Flaky \subseteq Blob
    /\ NoPlatform \in BOOLEAN
    /\ DOMAIN Failing = {"ref", "tree", "root", "mark"}
    /\ Faults \subseteq {"kill"}

VARIABLES
    published,  \* versions upstream offers
    marked,     \* versions the manifest has
    replaced,   \* names the manifest has as replaced
    deps,       \* lock dependencies the manifest has as indexed
    db,         \* the shared database
    got,        \* the worker's database
    pc,         \* "idle", "next", "files", "deps", "merge"
    todo,       \* versions of the session that are not started
    cur,        \* the version in progress
    files,      \* its files that are left
    seenBlobs, replaceSet, lockDepSet,
    mine,       \* history: versions this session has marked
    cutShort,   \* history: versions marked by sessions that were killed
    torn,       \* history: blobs of seenBlobs that were read in part
    unread,     \* history: <<version, blob>> with lines that were not read
    blind,      \* history: marked versions whose root files were not read
    unsaved,    \* history: names not recorded as replaced since a write failed
    tried       \* history: lock dependencies handed to indexVersions

manifest == <<marked, replaced, deps>>
session == <<seenBlobs, replaceSet, lockDepSet>>
history == <<mine, cutShort, torn, unread, blind, unsaved, tried>>
vars == <<published, manifest, db, got, pc, todo, cur, files, session, history>>
-----------------------------------------------------------------------------
(***************************************************************************)
(* The order of versions                                                   *)
(***************************************************************************)

(* A segment is a number or a word; `text' is its place in the order of    *)
(* strings, 0 that of the empty string a missing segment stands for.       *)
NaN == -1
Missing == [value |-> NaN, text |-> 0]

Segment(v, i) == IF i <= Len(Segments[v]) THEN Segments[v][i] ELSE Missing

Numeric(a, b) == a.value # NaN /\ b.value # NaN
Differ(a, b) == IF Numeric(a, b) THEN a.value # b.value ELSE a.text # b.text

(* cmpVersion(a, b) < 0: the first segments that differ are compared as    *)
(* numbers if both are, else as strings.                                   *)
Older(a, b) ==
    \E i \in 1..(Len(Segments[a]) + Len(Segments[b])) :
       LET x == Segment(a, i)
           y == Segment(b, i)
       IN  /\ Differ(x, y)
           /\ \A j \in 1..(i - 1) : ~Differ(Segment(a, j), Segment(b, j))
           /\ IF Numeric(x, y) THEN x.value < y.value ELSE x.text < y.text

(* The version a session takes next.  The comparison is not transitive     *)
(* (2 < 10 < 1a < 2), so there may be no newest one; the sort then leaves  *)
(* any of them in front.                                                   *)
Newest(S) ==
    LET top == {v \in S : \A w \in S : ~Older(v, w)}
    IN  IF top = {} THEN S ELSE top
-----------------------------------------------------------------------------
(***************************************************************************)
(* Stored paths                                                            *)
(***************************************************************************)

(* findSubPackages: composer.json files with a name, below the root.       *)
SubPackages(v) ==
    IF NoPlatform \/ Prefix = << >> THEN << >>
    ELSE SelectSeq(Files[v], LAMBDA f : /\ Len(f.path) > 1
                                        /\ Last(f.path) = "composer.json"
                                        /\ NameOf[f.blob] # NoName)

Inside(path, sub) == IsPrefix(Front(sub.path), path)

(* The first sub-package of the walk whose directory holds the file.       *)
resolveStoredPath(v, path) ==
    LET subs == SubPackages(v)
        hits == {i \in 1..Len(subs) : Inside(path, subs[i])}
        sub  == subs[CHOOSE i \in hits : \A j \in hits : i <= j]
    IN  IF hits = {} THEN Prefix \o path
        ELSE <<"vendor", NameOf[sub.blob]>>
               \o SubSeq(path, Len(sub.path), Len(path))

PathHash(path) == <<"path:">> \o path

PathHashes(v, f) ==
    IF NoPlatform THEN {} ELSE {PathHash(resolveStoredPath(v, f.path))}

LineHashes(f) == {<<l>> : l \in LinesOf[f.blob]}

Eligible(f) == f.path \in HasValidExt /\ f.blob \notin Binary
-----------------------------------------------------------------------------
TypeOK ==
    /\ published \subseteq Version /\ marked \subseteq Version
    /\ replaced \subseteq UNION {ReplacesOf[v] : v \in Version}
    /\ deps \subseteq UNION {LockOf[v] : v \in Version}
    /\ pc \in {"idle", "next", "files", "deps", "merge"}
    /\ todo \subseteq Version /\ cur \in Version \cup {NoVersion}
    /\ files \in Seq(FileEntry) /\ seenBlobs \subseteq Blob
    /\ mine \subseteq marked /\ cutShort \subseteq marked
    /\ torn \subseteq seenBlobs /\ blind \subseteq marked
    /\ unsaved \subseteq UNION {ReplacesOf[v] : v \in Version}

Init ==
    /\ published = {} /\ marked = {} /\ replaced = {} /\ deps = {}
    /\ db = {} /\ got = {}
    /\ pc = "idle" /\ todo = {} /\ cur = NoVersion /\ files = << >>
    /\ seenBlobs = {} /\ replaceSet = {} /\ lockDepSet = {}
    /\ mine = {} /\ cutShort = {} /\ torn = {} /\ unread = {}
    /\ blind = {} /\ unsaved = {} /\ tried = {}

(* Upstream tags another version. *)
Publish(v) ==
    /\ v \notin published
    /\ published' = published \cup {v}
    /\ UNCHANGED <<manifest, db, got, pc, todo, cur, files, session, history>>

(* RefsFromTags, and the filter of the versions the manifest has.  Fetched *)
(* versions that are published during the session wait for the next one.   *)
Begin ==
    /\ pc = "idle"
    /\ todo' = published \ marked
    /\ todo' # {}
    /\ pc' = "next"
    /\ UNCHANGED <<published, manifest, db, got, cur, files, session, history>>

(* indexRef: the commit of the next version, or a warning and none. *)
StartVersion ==
    /\ pc = "next"
    /\ \E v \in Newest(todo) :
          /\ todo' = todo \ {v}
          /\ \/ cur' = v /\ files' = Files[v] /\ pc' = "files"
             \/ v \in Failing.ref /\ UNCHANGED <<cur, files, pc>>
    /\ UNCHANGED <<published, manifest, db, got, session, history>>

Skip(f) == f.path \notin HasValidExt \/ f.blob \in seenBlobs

(* indexFileCount for a file that is skipped: nothing is read.  The        *)
(* history notes whether what the skip relies on was read in part.         *)
SkipFile(f) ==
    /\ Skip(f)
    /\ unread' = unread \cup ({cur} \X ({f.blob} \cap torn))
    /\ UNCHANGED <<got, seenBlobs, torn>>

(* A blob that is not UTF-8 is entered in seenBlobs without hashes. *)
ReadFile(f) ==
    /\ ~Skip(f)
    /\ seenBlobs' = seenBlobs \cup {f.blob}
    /\ got' = IF f.blob \in Binary THEN got
              ELSE got \cup PathHashes(cur, f) \cup LineHashes(f)
    /\ UNCHANGED <<torn, unread>>

(* Mutant of FailToRead: the blob is entered before it is read. *)
FailToReadSeen(f) ==
    /\ ~Skip(f) /\ f.blob \in Flaky
    /\ seenBlobs' = seenBlobs \cup {f.blob}
    /\ unread' = unread \cup {<<cur, f.blob>>}
    /\ UNCHANGED <<got, torn>>

(* A blob cannot be opened or read, at the first reading (no hashes) or at *)
(* the second (its path has been hashed): it is not entered in seenBlobs.  *)
(* When HashReader stops at an error, nobody is told, and it is.           *)
FailToRead(f) ==
    /\ ~Skip(f) /\ f.blob \in Flaky
    /\ \/ /\ \/ UNCHANGED got
             \/ f.blob \notin Binary /\ got' = got \cup PathHashes(cur, f)
          /\ UNCHANGED <<seenBlobs, torn>>
       \/ /\ f.blob \notin Binary
          /\ \E part \in SUBSET LineHashes(f) :
                got' = got \cup PathHashes(cur, f) \cup part
          /\ seenBlobs' = seenBlobs \cup {f.blob}
          /\ torn' = torn \cup {f.blob}
    /\ unread' = unread \cup {<<cur, f.blob>>}

IndexFile ==
    /\ pc = "files" /\ files # << >>
    /\ LET f == Head(files) IN SkipFile(f) \/ ReadFile(f) \/ FailToRead(f)
    /\ files' = Tail(files)
    /\ UNCHANGED <<published, manifest, db, pc, todo, cur, replaceSet,
                   lockDepSet, mine, cutShort, blind, unsaved, tried>>

(* The walk of the tree ends with an error: a warning, and the next one. *)
WalkFails ==
    /\ pc = "files" /\ files # << >>
    /\ cur \in Failing.tree
    /\ pc' = "next" /\ files' = << >>
    /\ UNCHANGED <<published, manifest, db, got, todo, cur, session, history>>

(* Mutant of FinishVersion: the root files of the first version only. *)
FinishVersionFirst ==
    /\ pc = "files" /\ files = << >>
    /\ marked' = marked \cup {cur} /\ mine' = mine \cup {cur}
    /\ replaceSet' = IF replaceSet = {} THEN ReplacesOf[cur] ELSE replaceSet
    /\ lockDepSet' = IF lockDepSet = {} THEN LockOf[cur] ELSE lockDepSet
    /\ pc' = "next"
    /\ UNCHANGED <<published, replaced, deps, db, got, todo, cur, files,
                   seenBlobs, cutShort, torn, unread, blind, unsaved, tried>>

(* Mutant of FinishVersion: the manifest is not written. *)
FinishVersionUnmarked ==
    /\ pc = "files" /\ files = << >>
    /\ mine' = mine \cup {cur}
    /\ replaceSet' = replaceSet \cup ReplacesOf[cur]
    /\ lockDepSet' = lockDepSet \cup LockOf[cur]
    /\ pc' = "next"
    /\ UNCHANGED <<published, manifest, db, got, todo, cur, files,
                   seenBlobs, cutShort, torn, unread, blind, unsaved, tried>>

(* OnVersionDone, whose failing write of the manifest is a warning; then   *)
(* composer.json and composer.lock at the root: one that cannot be read    *)
(* adds nothing, and the version is marked already.                        *)
FinishVersion ==
    /\ pc = "files" /\ files = << >>
    /\ \E new \in {{cur}, {}}, R \in {{}, ReplacesOf[cur]}, L \in {{}, LockOf[cur]} :
          LET all == R = ReplacesOf[cur] /\ L = LockOf[cur] IN
          /\ new # {} \/ cur \in Failing.mark
          /\ all \/ cur \in Failing.root
          /\ marked' = marked \cup new /\ mine' = mine \cup new
          /\ replaceSet' = replaceSet \cup R
          /\ lockDepSet' = lockDepSet \cup L
          /\ blind' = IF all THEN blind ELSE blind \cup new
    /\ pc' = "next"
    /\ UNCHANGED <<published, replaced, deps, db, got, todo, cur, files,
                   seenBlobs, cutShort, torn, unread, unsaved, tried>>

(* The end of indexRefs, and MarkReplaced for what it returns: where the   *)
(* write fails there is a warning, and the session goes on.                *)
MarkReplaces ==
    /\ pc = "next" /\ todo = {}
    /\ \E done \in SUBSET replaceSet :
          /\ replaceSet \ done \subseteq Failing.mark
          /\ replaced' = replaced \cup done
          /\ unsaved' = (unsaved \cup replaceSet) \ replaced'
    /\ pc' = "deps"
    /\ UNCHANGED <<published, marked, deps, db, got, todo, cur, files, session,
                   mine, cutShort, torn, unread, blind, tried>>

(* Mutant of Dependencies: only this session's replaces count. *)
DependenciesOfSession ==
    /\ pc = "deps"
    /\ LET rest == {d \in lockDepSet \ deps : d[1] \notin replaceSet} IN
       /\ tried' = tried \cup rest
       /\ \E ok \in SUBSET rest : deps' = deps \cup ok
    /\ pc' = "merge"
    /\ UNCHANGED <<published, marked, replaced, db, got, todo, cur, files,
                   session, mine, cutShort, torn, unread, blind, unsaved>>

(* The lock dependencies, without those that a version of this session     *)
(* replaces (indexRefs) and those the manifest has indexed or replaced;    *)
(* indexVersions marks those it can index.                                 *)
Dependencies ==
    /\ pc = "deps"
    /\ LET rest == {d \in lockDepSet \ deps :
                      d[1] \notin replaceSet /\ d[1] \notin replaced} IN
       /\ tried' = tried \cup rest
       /\ \E ok \in SUBSET rest : deps' = deps \cup ok
    /\ pc' = "merge"
    /\ UNCHANGED <<published, marked, replaced, db, got, todo, cur, files,
                   session, mine, cutShort, torn, unread, blind, unsaved>>

(* What the session knew goes with it. *)
Forget ==
    /\ pc' = "idle"
    /\ got' = {} /\ todo' = {} /\ cur' = NoVersion /\ files' = << >>
    /\ seenBlobs' = {} /\ replaceSet' = {} /\ lockDepSet' = {}
    /\ mine' = {} /\ torn' = {}

(* The worker's last step (module IndexSession). *)
Merge ==
    /\ pc = "merge"
    /\ db' = db \cup got
    /\ Forget
    /\ UNCHANGED <<published, manifest, cutShort, unread, blind, unsaved, tried>>

Kill ==
    /\ "kill" \in Faults
    /\ pc # "idle"
    /\ Forget
    /\ cutShort' = cutShort \cup mine
    /\ UNCHANGED <<published, manifest, db, unread, blind, unsaved, tried>>

Next ==
    \/ \E v \in Version : Publish(v)
    \/ Begin \/ StartVersion \/ IndexFile \/ WalkFails \/ FinishVersion
    \/ MarkReplaces \/ Dependencies \/ Merge
    \/ Kill

Spec == Init /\ [][Next]_vars
-----------------------------------------------------------------------------
(* A version in the manifest has its lines in the database, although most  *)
(* of its files were skipped because a newer version has the same blob:    *)
(* whatever was skipped was hashed in the session, in a version that need  *)
(* not have been completed.  Excepted are blobs that could not be read in  *)
(* full, by this version or by the one it relies on, and killed sessions.  *)
LinesComplete ==
    \A v \in marked \ cutShort : \A f \in Range(Files[v]) :
        Eligible(f) /\ <<v, f.blob>> \notin unread
            => LineHashes(f) \subseteq db \cup got

(* When no session runs, the replaces and lock dependencies of every       *)
(* version in the manifest have been seen to (later sessions do not look   *)
(* at those versions again), but for killed sessions, root files that      *)
(* could not be read, and names that a failing write kept out of the       *)
(* manifest, which updateGitURLEntry warns of and does not write again.    *)
NothingForgotten ==
    pc = "idle" =>
        \A v \in marked \ (cutShort \cup blind) :
            /\ ReplacesOf[v] \subseteq replaced \cup unsaved
            /\ \A d \in LockOf[v] : d \in tried \/ d[1] \in replaced \cup unsaved

(* No lock dependency is indexed that a version in the manifest replaces,  *)
(* whichever version says so and whichever session has read it, in         *)
(* whatever order upstream published them; with the same exceptions.       *)
ReplacedNotIndexed ==
    [][\A d \in tried' \ tried : \A v \in marked \ (cutShort \cup blind) :
          d[1] \in ReplacesOf[v] => d[1] \in unsaved]_vars

(* What a version alone would put in the database: the lines of its files, *)
(* and the path of the first file with each blob.                          *)
Separate(v) ==
    LET fs    == Files[v]
        first == {i \in 1..Len(fs) :
                    /\ Eligible(fs[i])
                    /\ \A j \in 1..(i - 1) : fs[j].path \in HasValidExt
                                                => fs[j].blob # fs[i].blob}
    IN  UNION {PathHashes(v, fs[i]) \cup LineHashes(fs[i]) : i \in first}

(* Indexing versions together gives what indexing them one by one gives    *)
(* ("blob dedup should produce same result as separate indexing",          *)
(* indexer_test.go).  The code does not keep this: the path of a blob that *)
(* a newer version has elsewhere is not hashed.                            *)
SameAsSeparate ==
    pc = "idle" => \A v \in marked : Separate(v) \subseteq db
=============================================================================
