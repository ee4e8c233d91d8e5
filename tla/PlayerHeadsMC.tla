---------------------------- MODULE PlayerHeadsMC ----------------------------
(***************************************************************************)
(* PlayerHeads on a small instance.  No action tells one player from       *)
(* another, so states that differ by a permutation of them are one state;  *)
(* only invariants are checked under this symmetry.                        *)
(***************************************************************************)
EXTENDS PlayerHeads

PlayerSymmetry == Permutations(Players)
==============================================================================
