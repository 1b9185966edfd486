---------------------------- MODULE Allocator ----------------------------
(***************************************************************************)
(* What the cache promises to those who hold its blocks, whatever the      *)
(* strategy: a run that is handed out is nobody else's until the pointer   *)
(* to it comes back, and only a pointer that was handed out comes back.    *)
(* CacheManager implements it; CachePtr is built on it.                    *)
(***************************************************************************)
EXTENDS Integers

CONSTANTS
  Block,      \* the blocks of the cache, by index
  MaxRequest  \* bound: the largest number of blocks asked for

VARIABLE held \* blocks the holder of the pointer to a block has, 0 if none

Run(b, num) == {c \in Block : b <= c /\ c < b + num}

Init == held = [b \in Block |-> 0]

Alloc(num, b) ==
  /\ num > 0
  /\ \A c \in Block : Run(b, num) \cap Run(c, held[c]) = {}
  /\ held' = [held EXCEPT ![b] = num]

Free(b) ==
  /\ held[b] > 0
  /\ held' = [held EXCEPT ![b] = 0]

Next ==
  \E b \in Block : Free(b) \/ \E num \in 0 .. MaxRequest : Alloc(num, b)

Spec == Init /\ [][Next]_held

=============================================================================
