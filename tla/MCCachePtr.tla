---------------------------- MODULE MCCachePtr ----------------------------
(* A small instance of CachePtr; the local pointers are interchangeable.   *)
EXTENDS CachePtr, TLC

LocalSymmetry == Permutations(Locals)

=============================================================================
