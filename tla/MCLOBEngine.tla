---------------------------- MODULE MCLOBEngine ----------------------------
(***************************************************************************)
(* Both sides of one symbol, with more references than a level has places  *)
(* and more prices than a side has levels.  References are                 *)
(* interchangeable: nothing in the engine orders or computes with them.    *)
(***************************************************************************)
EXTENDS LOBEngine, TLC

RefSymmetry == Permutations(Refs)

=============================================================================
