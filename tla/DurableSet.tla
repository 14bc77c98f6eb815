----------------------------- MODULE DurableSet -----------------------------
(***************************************************************************)
(* What a hash database promises its users, without headers, counts or     *)
(* system calls: a session works on a set in memory, publishes it in one   *)
(* step, and what has been made stable survives every crash.               *)
(***************************************************************************)
CONSTANT Elem      \* what can be in the set

VARIABLES
    live,      \* a session is running
    mem,       \* the session's set
    content,   \* what a reader that opens the database now gets
    stable     \* what a reader gets after a power loss, at least

vars == <<live, mem, content, stable>>

Init ==
    /\ live = FALSE
    /\ mem = {} /\ content = {} /\ stable = {}

(* A session starts from what a reader would get. *)
Begin ==
    /\ ~live
    /\ live' = TRUE
    /\ mem' = content
    /\ UNCHANGED <<content, stable>>

(* Insertions are private to the session ... *)
Insert ==
    /\ live
    /\ \E new \in SUBSET Elem : mem' = mem \cup new
    /\ UNCHANGED <<live, content, stable>>

(* ... until they are all published at once. *)
Publish ==
    /\ live
    /\ content' = mem
    /\ UNCHANGED <<live, mem, stable>>

Persist ==
    /\ live
    /\ stable' = content
    /\ UNCHANGED <<live, mem, content>>

(* The process ends.  Readers see what was published. *)
Stop ==
    /\ live
    /\ live' = FALSE
    /\ mem' = {}
    /\ UNCHANGED <<content, stable>>

(* Power is lost: readers see what was published or what was stable,       *)
(* nothing in between.                                                     *)
PowerLoss ==
    /\ live' = FALSE
    /\ mem' = {}
    /\ content' \in {content, stable}
    /\ stable' = content'

Next == Begin \/ Insert \/ Publish \/ Persist \/ Stop \/ PowerLoss

Spec == Init /\ [][Next]_vars
-----------------------------------------------------------------------------
Inv ==
    /\ stable \subseteq content
    /\ live => content \subseteq mem

(* What has become stable is never lost. *)
StableGrows == [][stable \subseteq stable']_vars
=============================================================================
