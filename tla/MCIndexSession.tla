--------------------------- MODULE MCIndexSession ---------------------------
(* A small world for IndexSession: a package `a' with two versions, given   *)
(* twice on the command line (bare and pinned), and a git URL `u' whose     *)
(* monorepo replaces `a' in some versions and whose lock file names a       *)
(* version of `a'.                                                          *)
EXTENDS IndexSession, TLC

MCPkg == {"a", "u"}
MCGitURL == {"u"}
MCVersion == {1, 2}
MCUpstream == [p \in MCPkg |-> IF p = "a" THEN {1, 2} ELSE {1}]
MCLockDeps == [p \in MCPkg |-> IF p = "u" THEN {<<"a", 1>>} ELSE {}]
MCReplaces == [p \in MCPkg |-> IF p = "u" THEN {"a"} ELSE {}]
MCArgs == {[pkg |-> "a", pin |-> 0, pos |-> 1],
           [pkg |-> "a", pin |-> 1, pos |-> 2]}
MCLock == {<<"a", 1>>, <<"a", 2>>}
MCUnreadable == {<<"a", 2>>}

SlotSymmetry == Permutations(Slot)
=============================================================================
