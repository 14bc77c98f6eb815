----------------------------- MODULE MCGitIndex -----------------------------
(* A repository of three versions whose tags have no newest one.  Between  *)
(* them a file moves, a file with the same content as another appears, and *)
(* a directory becomes a sub-package; the oldest-looking replaces what the *)
(* lock file of another names.                                             *)
EXTENDS GitIndex, TLC

MCVersion == {"2", "10", "1a"}

MCSegments ==
    ("2"  :> <<[value |-> 2,  text |-> 3]>>) @@
    ("10" :> <<[value |-> 10, text |-> 1]>>) @@
    ("1a" :> <<[value |-> NaN, text |-> 2]>>)

A(b)     == [path |-> <<"A.php">>, blob |-> b]
LibA(b)  == [path |-> <<"lib", "A.php">>, blob |-> b]
Icon(b)  == [path |-> <<"icon.js">>, blob |-> b]
Mod(b)   == [path |-> <<"mod", "M.php">>, blob |-> b]
ModJson  == [path |-> <<"mod", "composer.json">>, blob |-> "modjson"]

MCFiles ==
    ("2"  :> <<A("a1"), Mod("m")>>) @@
    ("10" :> <<LibA("a1"), Icon("bin"), ModJson, Mod("m")>>) @@
    ("1a" :> <<A("a2"), LibA("a2"), Mod("m")>>)

MCLinesOf ==
    ("a1" :> {"x", "y"}) @@ ("a2" :> {"y", "z"}) @@ ("m" :> {"w"}) @@
    ("bin" :> {"junk"}) @@ ("modjson" :> {})

MCBinary == {"bin"}
MCFlaky == {"a1"}
MCFailing ==
    [ref |-> {"2", "1a"}, tree |-> {"10", "2"}, root |-> {"10", "2"}, mark |-> {"1a", "x/mod"}]
MCNoFailing == [ref |-> {}, tree |-> {}, root |-> {}, mark |-> {}]
MCHasValidExt == {<<"A.php">>, <<"lib", "A.php">>, <<"icon.js">>, <<"mod", "M.php">>}
MCNameOf == [b \in DOMAIN MCLinesOf |-> IF b = "modjson" THEN "x/mod" ELSE NoName]
MCPrefix == <<"vendor", "x/mono">>
MCReplacesOf ==
    ("2" :> {"x/mod"}) @@ ("10" :> {}) @@ ("1a" :> {"x/old"})
MCLockOf ==
    ("2"  :> {<<"x/old", "1">>}) @@
    ("10" :> {<<"x/mod", "1">>, <<"y/lib", "1">>}) @@
    ("1a" :> {<<"y/lib", "2">>})
=============================================================================
