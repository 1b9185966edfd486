---------------------------- MODULE MCCircular ----------------------------
(* A small instance of Circular; the items differ in nothing but identity. *)
EXTENDS Circular, TLC

ItemSymmetry == Permutations(Item)

=============================================================================
