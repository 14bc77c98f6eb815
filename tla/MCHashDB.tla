------------------------------ MODULE MCHashDB ------------------------------
(* Small instances of HashDB for TLC. *)
EXTENDS HashDB, TLC

HashSymmetry == Permutations(Hash)
=============================================================================
