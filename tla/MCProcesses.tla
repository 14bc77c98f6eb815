---------------------------- MODULE MCProcesses -----------------------------
(* Two processes and two entries: a cut line of "a10" may read as "a1". *)
EXTENDS Processes, TLC

MCEntry == {"a1", "a10"}
MCFragment == [e \in MCEntry |-> IF e = "a10" THEN {"a1"} ELSE {}]
ProcessSymmetry == Permutations(Process)
=============================================================================
