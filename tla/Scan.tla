-------------------------------- MODULE Scan --------------------------------
(***************************************************************************)
(* `corediff scan' of one path (walkPath in cmd/corediff/scan.go): main    *)
(* walks the tree and hands files to a pool of workers over an unbuffered  *)
(* channel.  A worker reads a file through a bufio.Scanner whose buffer it *)
(* keeps for all its files, collects the lines the database does not know, *)
(* as slices of that buffer, and prints and counts them when the file is   *)
(* done.                                                                   *)
(***************************************************************************)
EXTENDS Normalize

CONSTANTS
    Worker,       \* the pool of parallelLimit() goroutines
    Tree,         \* what can be scanned: [single, files], files in walk order
    Option,       \* the options of a scan
    Indexed,      \* contents of the files the database was built from
    Alarm,        \* a byte that makes a line suspect
    MaxFailures   \* bound on the calls of the file system that fail

(* A file: its contents; whether its extension is one of code, its path is *)
(* in the database, is excluded (IsExcluded), and has the prefix of        *)
(* --path-filter.                                                          *)
File == [data : Seq(DOMAIN HashTable \cup {Newline}),
         ext : BOOLEAN, known : BOOLEAN, excluded : BOOLEAN, match : BOOLEAN]

ASSUME ScanAssumption ==
    /\ \A t \in Tree : /\ t.single \in BOOLEAN /\ t.files \in Seq(File)
                       /\ t.single => Len(t.files) = 1
    /\ Option \subseteq [ignorePaths : BOOLEAN, suspectOnly : BOOLEAN,
                         allValidText : BOOLEAN, pathFilter : BOOLEAN]
    /\ MaxFailures \in Nat /\ IsFiniteSet(Worker)

VARIABLES
    tree, args,   \* what this scan is of
    walker,       \* main: [pc, next], the file it is at
    count,        \* walkFiles and its callback: [total, code, custom]
    worker,       \* worker -> its place in scanFileWithDB, see Idle
    buf,          \* worker -> its read buffer
    stats,        \* walkStats, under the mutex: [changed, suspect, unchanged]
    report,       \* file -> its hits, once it is printed
    failed        \* history: [file, call] of the calls that failed

vars == <<tree, args, walker, count, worker, buf, stats, report, failed>>
scene == <<tree, args>>

Files == DOMAIN tree.files
file(i) == tree.files[i]

(* The database: hashes of pieces.  A path hash is the attribute `known'.  *)
db == UNION {HashReader(data) : data \in Indexed}

Byte == DOMAIN HashTable \cup {Newline}
Erased == [i \in 1..MaxTokenSize |-> Space]

(* A worker has read pos bytes of its file; the bytes start+1..end of the  *)
(* buffer are not consumed yet; err is set after the last read; token is   *)
(* the line the scanner has just returned.                                 *)
Idle == [pc |-> "idle", file |-> 0, pos |-> 0, start |-> 0, end |-> 0,
         err |-> FALSE, line |-> 0, token |-> << >>, hits |-> << >>]

(* A hit: the number of the line, the text the database misses, and where  *)
(* its slice of the buffer begins, or 0 when it is a copy.                 *)
Hit == [line : Nat, missed : Seq(Byte), at : 0..MaxTokenSize]
Shown == [line : Nat, missed : Seq(Byte), shown : Seq(Byte)]
Call == {"lstat", "probe", "open", "read"}

TypeOK ==
    /\ tree \in Tree /\ args \in Option
    /\ walker \in [pc : {"walk", "send", "wait", "done"}, next : 1..Len(tree.files) + 1]
    /\ count \in [total : Nat, code : Nat, custom : Nat]
    /\ worker \in [Worker -> [pc : {"idle", "open", "scan", "report", "gone"},
                              file : {0} \cup Files, pos : Nat,
                              start : 0..MaxTokenSize, end : 0..MaxTokenSize,
                              err : BOOLEAN, line : Nat, token : Seq(Byte), hits : Seq(Hit)]]
    /\ buf \in [Worker -> [1..MaxTokenSize -> Byte]]
    /\ stats \in [changed : Nat, suspect : Nat, unchanged : Nat]
    /\ DOMAIN report \subseteq Files
    /\ \A i \in DOMAIN report : report[i] \in Seq(Shown)
    /\ failed \subseteq [file : Files, call : Call]

Init ==
    /\ tree \in Tree /\ args \in Option
    /\ walker = [pc |-> "walk", next |-> 1]
    /\ count = [total |-> 0, code |-> 0, custom |-> 0]
    /\ worker = [w \in Worker |-> Idle]
    /\ buf = [w \in Worker |-> Erased]
    /\ stats = [changed |-> 0, suspect |-> 0, unchanged |-> 0]
    /\ report = << >> /\ failed = {}
-----------------------------------------------------------------------------
(* A call of the file system for file i fails. *)
Fail(i, call) ==
    /\ Cardinality(failed) < MaxFailures
    /\ failed' = failed \cup {[file |-> i, call |-> call]}

(* The walk is at file i. *)
At(i) == walker.pc = "walk" /\ i \in Files /\ walker.next = i

GoOn == walker' = [walker EXCEPT !.next = @ + 1]

(* filepath.Walk cannot stat the file: it is not counted at all. *)
Inaccessible ==
    /\ At(walker.next) /\ Fail(walker.next, "lstat")
    /\ GoOn
    /\ UNCHANGED <<scene, count, worker, buf, stats, report>>

HasValidExt(i) == args.allValidText \/ file(i).ext

(* walkFiles passes over a file without code, and one it cannot open.      *)
NoCode ==
    /\ At(walker.next)
    /\ \/ /\ ~HasValidExt(walker.next) \/ ~IsValidUtf8(file(walker.next).data)
          /\ UNCHANGED failed
       \/ HasValidExt(walker.next) /\ Fail(walker.next, "probe")
    /\ count' = [count EXCEPT !.total = @ + 1]
    /\ GoOn
    /\ UNCHANGED <<scene, worker, buf, stats, report>>

IsCode(i) == HasValidExt(i) /\ IsValidUtf8(file(i).data)
Counted == [count EXCEPT !.total = @ + 1, !.code = @ + 1]
FilteredOut(i) == args.pathFilter /\ ~file(i).match

(* Mutant of IsCustom: the file that is scanned is asked for its path.     *)
IsCustomAtRoot(i) ==
    ~args.ignorePaths /\ (~file(i).known \/ file(i).excluded)

(* The paths of core files are in the database; the root itself and a scan *)
(* with --ignore-paths are not asked for theirs.                           *)
IsCustom(i) ==
    ~tree.single /\ ~args.ignorePaths /\ (~file(i).known \/ file(i).excluded)

(* Mutant of Filtered: code files are counted behind the filter. *)
FilteredUncounted ==
    /\ At(walker.next) /\ IsCode(walker.next) /\ FilteredOut(walker.next)
    /\ count' = [count EXCEPT !.total = @ + 1]
    /\ GoOn
    /\ UNCHANGED <<scene, worker, buf, stats, report, failed>>

(* The callback of walkPath: a file without the prefix of --path-filter,   *)
Filtered ==
    /\ At(walker.next) /\ IsCode(walker.next) /\ FilteredOut(walker.next)
    /\ count' = Counted
    /\ GoOn
    /\ UNCHANGED <<scene, worker, buf, stats, report, failed>>

(* one that is not of the core,                                            *)
Custom ==
    /\ At(walker.next) /\ IsCode(walker.next) /\ ~FilteredOut(walker.next)
    /\ IsCustom(walker.next)
    /\ count' = [Counted EXCEPT !.custom = @ + 1]
    /\ GoOn
    /\ UNCHANGED <<scene, worker, buf, stats, report, failed>>

(* and one to scan: main blocks until a worker receives it.                *)
Send ==
    /\ At(walker.next) /\ IsCode(walker.next) /\ ~FilteredOut(walker.next)
    /\ ~IsCustom(walker.next)
    /\ count' = Counted
    /\ walker' = [walker EXCEPT !.pc = "send"]
    /\ UNCHANGED <<scene, worker, buf, stats, report, failed>>

(* close(jobs) and wg.Wait() *)
Close ==
    /\ walker.pc = "walk" /\ walker.next > Len(tree.files)
    /\ walker' = [walker EXCEPT !.pc = "wait"]
    /\ UNCHANGED <<scene, count, worker, buf, stats, report, failed>>

Finish ==
    /\ walker.pc = "wait" /\ \A w \in Worker : worker[w].pc = "gone"
    /\ walker' = [walker EXCEPT !.pc = "done"]
    /\ UNCHANGED <<scene, count, worker, buf, stats, report, failed>>
-----------------------------------------------------------------------------
Set(w, record) == worker' = [worker EXCEPT ![w] = record]

(* The rendezvous on the channel. *)
Receive(w) ==
    /\ walker.pc = "send" /\ worker[w].pc = "idle"
    /\ Set(w, [Idle EXCEPT !.pc = "open", !.file = walker.next])
    /\ walker' = [pc |-> "walk", next |-> walker.next + 1]
    /\ UNCHANGED <<scene, count, buf, stats, report, failed>>

(* The channel is closed and empty. *)
Leave(w) ==
    /\ walker.pc = "wait" /\ worker[w].pc = "idle"
    /\ Set(w, [Idle EXCEPT !.pc = "gone"])
    /\ UNCHANGED <<scene, walker, count, buf, stats, report, failed>>

(* parseFile: a file that cannot be opened has no hits. *)
Open(w) ==
    /\ worker[w].pc = "open"
    /\ \/ /\ Set(w, [worker[w] EXCEPT !.pc = "scan"])
          /\ UNCHANGED failed
       \/ /\ Set(w, [worker[w] EXCEPT !.pc = "report"])
          /\ Fail(worker[w].file, "open")
    /\ UNCHANGED <<scene, walker, count, buf, stats, report>>

(* The bytes the scanner looks for a line in. *)
Window(w) == SubSeq(buf[w], worker[w].start + 1, worker[w].end)

Line(w, length) == SubSeq(buf[w], worker[w].start + 1, worker[w].start + length)

(* The pieces of a line that the database does not have. *)
Pieces == Seq([text : Seq(DOMAIN HashTable), at : Nat])

Unknown[pieces \in Pieces] ==
    Selected(pieces, {k \in DOMAIN pieces : pieces[k].text \notin db})

Missing(line) == Unknown[HashLine[line]]

(* Their hits, the line being behind so many bytes of the buffer. *)
Hits(pieces, number, start) ==
    [k \in DOMAIN pieces |->
       [line |-> number, missed |-> pieces[k].text,
        at |-> IF pieces[k].at = 0 THEN 0 ELSE start + pieces[k].at]]

(* Mutant of Take: lines are counted where they miss something. *)
TakeCountingHits(w, length, advance) ==
    \E pieces \in {Missing(Line(w, length))} :
      LET me == worker[w]
          number == me.line + (IF pieces = << >> THEN 0 ELSE 1)
      IN Set(w, [me EXCEPT !.token = Line(w, length), !.line = number, !.start = @ + advance,
                           !.hits = @ \o Hits(pieces, number, me.start)])

(* scanFileWithDB's callback, with the line of so many bytes in front.     *)
Take(w, length, advance) ==
    \E pieces \in {Missing(Line(w, length))} :
      LET me == worker[w]
      IN Set(w, [me EXCEPT !.token = Line(w, length), !.line = @ + 1, !.start = @ + advance,
                           !.hits = @ \o Hits(pieces, me.line + 1, me.start)])

(* The bytes in front of the first newline. *)
LineLength(w) == SelectInSeq(Window(w), LAMBDA byte : byte = Newline) - 1

(* Scan returns a line, or, when there is nothing more to read, the rest.  *)
ScanLine(w) ==
    /\ worker[w].pc = "scan" /\ Contains(Window(w), Newline)
    /\ Take(w, LineLength(w), LineLength(w) + 1)
    /\ UNCHANGED <<scene, walker, count, buf, stats, report, failed>>

ScanRest(w) ==
    /\ worker[w].pc = "scan" /\ ~Contains(Window(w), Newline)
    /\ worker[w].err /\ Window(w) # << >>
    /\ Take(w, Len(Window(w)), Len(Window(w)))
    /\ UNCHANGED <<scene, walker, count, buf, stats, report, failed>>

NeedsData(w) ==
    worker[w].pc = "scan" /\ ~worker[w].err /\ ~Contains(Window(w), Newline)

(* The scanner moves what it has to the front when half of the buffer is   *)
(* consumed or no space is left.                                           *)
Shifts(w) ==
    /\ worker[w].start > 0
    /\ worker[w].end = MaxTokenSize \/ worker[w].start > MaxTokenSize \div 2

Kept(w) == IF Shifts(w) THEN 0 ELSE worker[w].start
Filled(w) == IF Shifts(w) THEN worker[w].end - worker[w].start ELSE worker[w].end

(* The buffer of w after it is shifted and data is read behind its end.    *)
Loaded(w, data) ==
    [i \in 1..MaxTokenSize |->
       CASE i <= Filled(w) -> IF Shifts(w) THEN buf[w][worker[w].start + i] ELSE buf[w][i]
         [] i > Filled(w) /\ i <= Filled(w) + Len(data) -> data[i - Filled(w)]
         [] i > Filled(w) + Len(data) -> buf[w][i]]

(* Mutant of Unread: a read may overrun the buffer. *)
UnreadAll(w) ==
    LET data == file(worker[w].file).data IN SubSeq(data, worker[w].pos + 1, Len(data))

(* One read gets as much as there is and the buffer takes. *)
Unread(w) ==
    LET me == worker[w]
        rest == Len(file(me.file).data) - me.pos
        space == MaxTokenSize - Filled(w)
    IN SubSeq(file(me.file).data, me.pos + 1,
              me.pos + (IF rest < space THEN rest ELSE space))

(* Mutant of Read: all workers use one buffer. *)
ReadShared(w) ==
    /\ NeedsData(w) /\ Filled(w) < MaxTokenSize
    /\ Set(w, [worker[w] EXCEPT !.start = Kept(w), !.end = Filled(w) + Len(Unread(w)),
                                !.pos = @ + Len(Unread(w)), !.err = Unread(w) = << >>])
    /\ buf' = [v \in Worker |-> Loaded(w, Unread(w))]
    /\ UNCHANGED <<scene, walker, count, stats, report, failed>>

(* A read; none at the end of the file sets the error io.EOF.              *)
Read(w) ==
    /\ NeedsData(w) /\ Filled(w) < MaxTokenSize
    /\ Set(w, [worker[w] EXCEPT !.start = Kept(w), !.end = Filled(w) + Len(Unread(w)),
                                !.pos = @ + Len(Unread(w)), !.err = Unread(w) = << >>])
    /\ buf' = [buf EXCEPT ![w] = Loaded(w, Unread(w))]
    /\ UNCHANGED <<scene, walker, count, stats, report, failed>>

(* A read that fails: what is in the buffer is still taken for a line.     *)
ReadFails(w) ==
    /\ NeedsData(w) /\ Filled(w) < MaxTokenSize
    /\ Fail(worker[w].file, "read")
    /\ Set(w, [worker[w] EXCEPT !.start = Kept(w), !.end = Filled(w), !.err = TRUE])
    /\ buf' = [buf EXCEPT ![w] = Loaded(w, << >>)]
    /\ UNCHANGED <<scene, walker, count, stats, report>>

(* Scan returns false: the end of the file, or a line that does not fit    *)
(* into the buffer (ErrTooLong).  Either way the hits are what there is.   *)
EndOfScan(w) ==
    /\ worker[w].pc = "scan"
    /\ \/ worker[w].err /\ Window(w) = << >>
       \/ NeedsData(w) /\ Filled(w) = MaxTokenSize
    /\ Set(w, [worker[w] EXCEPT !.pc = "report"])
    /\ UNCHANGED <<scene, walker, count, buf, stats, report, failed>>

ShouldHighlight(text) == Contains(text, Alarm)

(* What scanOneFile prints of a hit: its slice, as the buffer is now.      *)
Show(w, hit) ==
    [line |-> hit.line, missed |-> hit.missed,
     shown |-> IF hit.at = 0 THEN hit.missed
               ELSE SubSeq(buf[w], hit.at, hit.at + Len(hit.missed) - 1)]

Printed(hits) ==
    IF args.suspectOnly THEN SelectSeq(hits, LAMBDA h : ShouldHighlight(h.shown))
    ELSE hits

IsSuspect(hits) == \E k \in DOMAIN hits : ShouldHighlight(hits[k].shown)

One(condition) == IF condition THEN 1 ELSE 0

(* Mutant of Report: the worker returns after its first file. *)
ReportAndLeave(w) ==
    /\ worker[w].pc = "report"
    /\ LET me == worker[w]
           hits == [k \in DOMAIN me.hits |-> Show(w, me.hits[k])]
       IN /\ report' = [i \in DOMAIN report \cup {me.file} |->
                          IF i = me.file THEN hits ELSE report[i]]
          /\ stats' = [changed |-> stats.changed + One(Printed(hits) # << >>),
                       suspect |-> stats.suspect + One(IsSuspect(Printed(hits))),
                       unchanged |-> stats.unchanged + One(Printed(hits) = << >>)]
    /\ Set(w, [Idle EXCEPT !.pc = "gone"])
    /\ UNCHANGED <<scene, walker, count, buf, failed>>

(* scanOneFile prints, and the worker adds to the statistics. *)
Report(w) ==
    /\ worker[w].pc = "report"
    /\ LET me == worker[w]
           hits == [k \in DOMAIN me.hits |-> Show(w, me.hits[k])]
       IN /\ report' = [i \in DOMAIN report \cup {me.file} |->
                          IF i = me.file THEN hits ELSE report[i]]
          /\ stats' = [changed |-> stats.changed + One(Printed(hits) # << >>),
                       suspect |-> stats.suspect + One(IsSuspect(Printed(hits))),
                       unchanged |-> stats.unchanged + One(Printed(hits) = << >>)]
    /\ Set(w, Idle)
    /\ UNCHANGED <<scene, walker, count, buf, failed>>

Main == Inaccessible \/ NoCode \/ Filtered \/ Custom \/ Send \/ Close \/ Finish

Work(w) ==
    \/ Receive(w) \/ Leave(w) \/ Open(w) \/ ScanLine(w) \/ ScanRest(w)
    \/ Read(w) \/ ReadFails(w) \/ EndOfScan(w) \/ Report(w)

Next == Main \/ \E w \in Worker : Work(w)

(* Main and each worker go on when they can: goroutines are not starved,   *)
(* and reads of files return.                                              *)
Fairness == WF_vars(Main) /\ \A w \in Worker : WF_vars(Work(w))

Spec == Init /\ [][Next]_vars /\ Fairness
-----------------------------------------------------------------------------
(* A file none of whose calls failed. *)
Sound(i) == \A f \in failed : f.file # i

(* What is missing of a file, from its contents: the pieces of its lines   *)
(* the database does not have, with their numbers, in order.               *)
Misses(i) ==
    LET lines == Lines(file(i).data)
    IN FlattenSeq([n \in DOMAIN lines |->
         LET pieces == Missing(lines[n])
         IN [k \in DOMAIN pieces |-> <<n, pieces[k].text>>]])

(* Through every refill and move of the buffer, a worker finds exactly the *)
(* lines of the file that the database misses, with their numbers.         *)
HitsAreExact ==
    \A i \in DOMAIN report : Sound(i) =>
        [k \in DOMAIN report[i] |-> <<report[i][k].line, report[i][k].missed>>] = Misses(i)

(* The lines a scan prints are lines of the file as long as the file takes *)
(* no more than half of the buffer, whatever the other workers do.         *)
SmallFilesShown ==
    \A i \in DOMAIN report : Len(file(i).data) <= MaxTokenSize \div 2 =>
        \A k \in DOMAIN report[i] : report[i][k].shown = report[i][k].missed

(* "Returns line numbers and content of lines whose hashes are not in db"  *)
(* (scanFileWithDB).  The code does not keep this for larger files.        *)
ShownIsMissed ==
    \A i \in DOMAIN report : \A k \in DOMAIN report[i] :
        report[i][k].shown = report[i][k].missed

(* Nothing that was indexed is reported as changed: what HashReader stores *)
(* of a file is what scanning it asks for.                                 *)
IndexedIsClean ==
    \A i \in DOMAIN report : Sound(i) /\ file(i).data \in Indexed => report[i] = << >>

(* A file to be scanned: it has code, is valid text with no character on   *)
(* the edge of the probe, is not filtered out, and is the root or a core   *)
(* path, unless paths are ignored.                                         *)
ToScan(i) ==
    LET f == file(i) IN
    /\ args.allValidText \/ f.ext
    /\ f.data # << >> /\ ValidText(f.data)
    /\ Len(f.data) > ProbeSize => f.data[ProbeSize] # Lead
    /\ args.pathFilter => f.match
    /\ tree.single \/ args.ignorePaths \/ (f.known /\ ~f.excluded)

(* When a scan is done, every such file has been reported.                 *)
NothingOverlooked ==
    walker.pc = "done" => \A i \in Files : ToScan(i) /\ Sound(i) => i \in DOMAIN report

(* Every file is in exactly one of the statistics when the scan is done:   *)
(* without code, custom, changed or unchanged, except for what the filter  *)
(* dropped and what could not be reached; suspect files are changed ones.  *)
EveryFileCounted ==
    walker.pc = "done" =>
        LET dropped == {i \in Files : IsCode(i) /\ FilteredOut(i)
                                      /\ [file |-> i, call |-> "probe"] \notin failed}
            seen == {i \in Files : [file |-> i, call |-> "lstat"] \notin failed}
        IN /\ count.total = Cardinality(seen)
           /\ count.total = (count.total - count.code) + count.custom + stats.changed
                            + stats.unchanged + Cardinality(dropped \cap seen)
           /\ stats.changed + stats.unchanged = Cardinality(DOMAIN report)
           /\ stats.suspect <= stats.changed

(* The chunks of a long line, as the rolling hash finds them, are those    *)
(* the definition of the hash gives.                                       *)
ChunksAreCuts ==
    \A w \in Worker : Len(worker[w].token) > ChunkThreshold =>
        IsChunking(worker[w].token, ChunkLine(worker[w].token))

(* A change of one byte of a long line leaves the chunks before it, and    *)
(* those from the first end behind it that both lines share: chunks depend *)
(* on the beginning of their line only through where the last one ended.   *)
EditsSettle ==
    \A w \in Worker : LET line == worker[w].token IN
        Len(line) > ChunkThreshold =>
            \A p \in DOMAIN line : \A b \in Range(line) \ {line[p]} :
                EditSettles(line, [line EXCEPT ![p] = b])

(* The scan ends, whatever fails: no worker is lost and main does not wait *)
(* for ever to hand over a file.                                           *)
ScanEnds == <>(walker.pc = "done")
=============================================================================
