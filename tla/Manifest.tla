------------------------------ MODULE Manifest ------------------------------
(***************************************************************************)
(* The manifest of internal/manifest: a text file of entries, one a line,  *)
(* that several processes open under an exclusive flock and append to.     *)
(*                                                                         *)
(* An entry stands for the text of a line: package@version,                *)
(* replace:package or track:package.  A line is written down as what Load  *)
(* makes of it, an entry or Nothing.  A write that fails half way leaves a *)
(* line without its newline, which may read as another entry               *)
(* (a@1.1 of a@1.10), and to which the next entry is glued.                *)
(***************************************************************************)
EXTENDS Naturals, Sequences, FiniteSets, SequencesExt

CONSTANTS
    Process,
    Nobody,       \* the holder of a lock that is free
    Entry,
    Nothing,      \* a line that names no entry anybody asks for
    Fragment,     \* entry -> the other entries a cut line of it may read as
    MaxFailed,    \* bound on the writes that fail half way
    Faults        \* subset of {"kill", "short_write", "open_error"}

ASSUME ManifestAssumption ==
    /\ IsFiniteSet(Entry) /\ Nothing \notin Entry /\ Nobody \notin Process
    /\ Fragment \in [Entry -> SUBSET Entry]
    /\ MaxFailed \in Nat
    /\ Faults \subseteq {"kill", "short_write", "open_error"}

VARIABLES
    lines,     \* the file
    cut,       \* its last line has no newline
    holder,    \* the process that has the flock
    handle,    \* process -> "none", "waiting" in flock, or "held"
    known,     \* process -> the maps of its Manifest
    recorded,  \* history: entries that some Mark call returned success for
    failed     \* history: how many writes failed half way

manifestVars == <<lines, cut, holder, handle, known, recorded, failed>>

Line == Entry \cup {Nothing}

ManifestTypeOK ==
    /\ lines \in Seq(Line)
    /\ cut \in BOOLEAN
    /\ holder \in Process \cup {Nobody}
    /\ handle \in [Process -> {"none", "waiting", "held"}]
    /\ known \in [Process -> SUBSET Entry]
    /\ recorded \subseteq Entry
    /\ failed \in 0..MaxFailed

ManifestInit ==
    /\ lines = << >> /\ cut = FALSE
    /\ holder = Nobody
    /\ handle = [p \in Process |-> "none"]
    /\ known = [p \in Process |-> {}]
    /\ recorded = {} /\ failed = 0
-----------------------------------------------------------------------------
(* What Load reads from the file. *)
Readable == Range(lines) \ {Nothing}

(* Load opens or creates the file and blocks in flock ... *)
Ask(p) ==
    /\ handle[p] = "none"
    /\ handle' = [handle EXCEPT ![p] = "waiting"]
    /\ UNCHANGED <<lines, cut, holder, known, recorded, failed>>

(* Mutant of Load: the lock is shared. *)
LoadShared(p) ==
    /\ handle[p] = "waiting"
    /\ holder' = p
    /\ handle' = [handle EXCEPT ![p] = "held"]
    /\ known' = [known EXCEPT ![p] = Readable]
    /\ UNCHANGED <<lines, cut, recorded, failed>>

(* ... and reads every line once it has the lock; the offset of the next   *)
(* write is then the end of the file.                                      *)
Load(p) ==
    /\ handle[p] = "waiting" /\ holder = Nobody
    /\ holder' = p
    /\ handle' = [handle EXCEPT ![p] = "held"]
    /\ known' = [known EXCEPT ![p] = Readable]
    /\ UNCHANGED <<lines, cut, recorded, failed>>

(* The file with one more line that reads as `line'; behind a cut line     *)
(* there is no new line, and the glued one names nothing.                  *)
Appended(line) ==
    IF cut THEN [lines EXCEPT ![Len(lines)] = Nothing] ELSE Append(lines, line)

(* Mutant of Mark: a write that fails is taken for one that succeeded. *)
MarkAnyway(p, e) ==
    /\ handle[p] = "held" /\ e \notin known[p]
    /\ \/ lines' = Appended(e) /\ cut' = FALSE
       \/ UNCHANGED <<lines, cut>>
    /\ known' = [known EXCEPT ![p] = @ \cup {e}]
    /\ recorded' = recorded \cup {e}
    /\ UNCHANGED <<holder, handle, failed>>

(* MarkIndexed, MarkReplaced, MarkTracked: nothing to do for an entry in   *)
(* the map; else write the line, and enter it in the map if the write      *)
(* succeeded.                                                              *)
Mark(p, e) ==
    /\ handle[p] = "held"
    /\ \/ /\ e \in known[p]
          /\ recorded' = recorded \cup {e}
          /\ UNCHANGED <<lines, cut, known, failed>>
       \/ /\ e \notin known[p]
          /\ lines' = Appended(e)
          /\ cut' = FALSE
          /\ known' = [known EXCEPT ![p] = @ \cup {e}]
          /\ recorded' = recorded \cup {e}
          /\ UNCHANGED failed
    /\ UNCHANGED <<holder, handle>>

(* The write fails half way: some of the text is in the file, the error is *)
(* returned and the map is left alone.                                     *)
MarkFails(p, e) ==
    /\ "short_write" \in Faults /\ failed < MaxFailed
    /\ handle[p] = "held" /\ e \notin known[p]
    /\ \E line \in Fragment[e] \cup {e, Nothing} : lines' = Appended(line)
    /\ cut' = TRUE
    /\ failed' = failed + 1
    /\ UNCHANGED <<holder, handle, known, recorded>>

(* Close releases the lock. *)
Release(p) ==
    /\ handle' = [handle EXCEPT ![p] = "none"]
    /\ known' = [known EXCEPT ![p] = {}]
    /\ holder' = IF holder = p THEN Nobody ELSE holder
    /\ UNCHANGED <<lines, cut, recorded, failed>>
-----------------------------------------------------------------------------
(* What the lock is for: every process reads all entries written before it *)
(* got the lock and writes none of them again.  The file has one line for  *)
(* each recorded entry, and one more for each failed write.                *)
OneLinePerEntry == Len(lines) <= Cardinality(recorded) + failed

(* What a failed write can cost, over all later sessions: one entry that   *)
(* nobody recorded is read as recorded, and one that was recorded after it *)
(* is not; or a reader that took the cut line for its entry loses that one *)
(* too when the next entry is glued to it.                                 *)
BoundedDamage ==
    /\ Cardinality(Readable \ recorded) <= failed
    /\ Cardinality(recorded \ Readable) <= 2 * failed
=============================================================================
