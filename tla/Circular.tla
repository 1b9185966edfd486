----------------------------- MODULE Circular -----------------------------
(***************************************************************************)
(* The circular buffer of framework/buffer/circular.hpp, over items that   *)
(* can be copied (circular_pcm).  One thread uses a buffer: each call is   *)
(* one step.                                                               *)
(*                                                                         *)
(* The code does not ask for much: a push goes to m_end whether the buffer *)
(* is full or not, a pop takes m_start and counts down even below zero     *)
(* (m_size then wraps), and reserve copies the first m_size slots wherever *)
(* the items are.  The calls of the model are therefore unrestricted, save *)
(* those that divide by a capacity of zero.  `queue' is what a bounded     *)
(* queue that drops its oldest items would hold, and `sound' says whether  *)
(* the calls so far are ones for which the buffer still is that queue.     *)
(***************************************************************************)
EXTENDS Integers, Sequences

CONSTANTS
  Item,     \* what is stored
  Junk,     \* what a slot holds that was never written
  MaxCap,   \* bound: the largest capacity reserved
  MaxMany,  \* bound: the largest count of push_many and pop_many
  Word      \* number of values of size_t

ASSUME CircularAssumption ==
  /\ MaxCap \in Nat \ {0}
  /\ MaxMany \in Nat
  /\ Word \in Nat /\ MaxCap + MaxMany < Word
  /\ Junk \notin Item

VARIABLES
  capacity, \* m_capacity
  start,    \* m_start
  end,      \* m_end
  size,     \* m_size
  slots,    \* m_buffer
  got,      \* what the last call gave its caller
  queue,    \* history: the newest items pushed and not taken
  due,      \* history: what that queue would have given
  sound     \* history: no call so far was one the buffer cannot follow

vars == <<capacity, start, end, size, slots, got, queue, due, sound>>

Slot == 0 .. capacity - 1

(* Init: default construction.  The other constructor does what reserve    *)
(* does next.                                                              *)
Init ==
  /\ capacity = 0
  /\ start = 0 /\ end = 0 /\ size = 0
  /\ slots = [j \in {} |-> Junk]
  /\ got = <<>> /\ queue = <<>> /\ due = <<>>
  /\ sound = TRUE

-----------------------------------------------------------------------------
(* What reserve copies into its new slots: the first m_size of the old.    *)
Copied(n) ==
  [j \in 0 .. n - 1 |-> IF j < size /\ j < capacity THEN slots[j] ELSE Junk]

(* reserve: neither m_start nor m_end is changed, so the items are where   *)
(* they should be only if they lay at the front of the slots.              *)
Reserve(n) ==
  /\ n > capacity
  /\ capacity' = n
  /\ slots' = Copied(n)
  /\ got' = <<>> /\ due' = <<>>
  /\ sound' = (sound /\ (size = 0 \/ (start = 0 /\ end = size)))
  /\ UNCHANGED <<start, end, size, queue>>

(* The newest n items of a sequence. *)
Newest(s, n) == IF Len(s) <= n THEN s ELSE SubSeq(s, Len(s) - n + 1, Len(s))

BadWritten(items) ==
  [j \in Slot |->
     IF \E i \in DOMAIN items : (start + i - 1) % capacity = j
     THEN items[CHOOSE i \in DOMAIN items : (start + i - 1) % capacity = j]
     ELSE slots[j]]

(* The slots after `items' were written one after the other from m_end:    *)
(* the last item that falls on a slot stays.                               *)
Written(items) ==
  [j \in Slot |->
     IF \E i \in DOMAIN items : (end + i - 1) % capacity = j
     THEN items[CHOOSE i \in DOMAIN items :
                  /\ (end + i - 1) % capacity = j
                  /\ i + capacity > Len(items)]
     ELSE slots[j]]

(* m_size after n calls of increment(): it is counted up modulo Word and   *)
(* cut to the capacity each time.                                          *)
Counted(n) ==
  IF n = 0 THEN size
  ELSE IF size > capacity /\ size < Word - 1 THEN capacity
  ELSE LET m == IF size = Word - 1 THEN n - 1 ELSE size + n
       IN IF m > capacity THEN capacity ELSE m

(* push_back, with one item, and push_many. *)
Push(items) ==
  /\ capacity > 0
  /\ slots' = Written(items)
  /\ end' = (end + Len(items)) % capacity
  /\ size' = Counted(Len(items))
  /\ queue' = Newest(queue \o items, capacity)
  /\ got' = <<>> /\ due' = <<>>
  /\ UNCHANGED <<capacity, start, sound>>

-----------------------------------------------------------------------------
(* The oldest item is at m_start: the buffer was not filled past its       *)
(* capacity, or by a multiple of it.                                       *)
InOrder == size < capacity \/ start = end

(* n calls of decrement(). *)
TakeOut(n) ==
  /\ start' = (start + n) % capacity
  /\ size' = (size - n) % Word
  /\ got' = [i \in 1 .. n |-> slots[(start + i - 1) % capacity]]
  /\ sound' = (sound /\ (n = 0 \/ (n <= size /\ InOrder)))
  /\ due' = IF n <= Len(queue) THEN SubSeq(queue, 1, n) ELSE <<>>
  /\ queue' = SubSeq(queue, n + 1, Len(queue))
  /\ UNCHANGED <<capacity, end, slots>>

(* move_front does not look at m_size. *)
MoveFront == capacity > 0 /\ TakeOut(1)

(* An early return of pop_front, pop_many and move_many. *)
PopEmpty ==
  /\ size = 0
  /\ got' = <<>> /\ due' = <<>>
  /\ UNCHANGED <<capacity, start, end, size, slots, queue, sound>>

(* pop_front: nothing is returned, the item stays in its slot. *)
PopFront ==
  /\ size > 0
  /\ capacity > 0
  /\ TakeOut(1)

(* pop_many and move_many: m_size is looked at once, before the loop. *)
PopMany(count) ==
  /\ size > 0
  /\ capacity > 0
  /\ TakeOut(count)

Clear ==
  /\ size' = 0 /\ start' = 0 /\ end' = 0
  /\ queue' = <<>> /\ got' = <<>> /\ due' = <<>>
  /\ sound' = TRUE
  /\ UNCHANGED <<capacity, slots>>

(* at and operator[]: a position beyond m_size throws; the remainder is    *)
(* taken of pos alone, so the index may lie past the last slot, where      *)
(* anything may be read.  front is At(0).                                  *)
AtIndex(pos) == start + (pos % capacity)

At(pos) == IF AtIndex(pos) \in Slot THEN slots[AtIndex(pos)] ELSE Junk

Many == UNION {[1 .. n -> Item] : n \in 0 .. MaxMany}

Next ==
  \/ \E n \in 1 .. MaxCap : Reserve(n)
  \/ \E items \in Many : Push(items)
  \/ MoveFront
  \/ PopEmpty
  \/ PopFront
  \/ \E count \in 0 .. MaxMany : PopMany(count)
  \/ Clear

Spec == Init /\ [][Next]_vars

-----------------------------------------------------------------------------
TypeOK ==
  /\ capacity \in 0 .. MaxCap
  /\ start \in 0 .. MaxCap - 1 /\ end \in 0 .. MaxCap - 1
  /\ capacity > 0 => start \in Slot /\ end \in Slot
  /\ size \in 0 .. Word - 1
  /\ slots \in [Slot -> Item \cup {Junk}]
  /\ got \in Seq(Item \cup {Junk})
  /\ queue \in Seq(Item) /\ due \in Seq(Item)
  /\ sound \in BOOLEAN

(* The slot of the k-th oldest item: m_end is where the newest one ends.   *)
SlotOf(k) == (end + capacity - size + k - 1) % capacity

(* increment and decrement (lines 231-243) keep m_start, m_end, m_size and *)
(* the slots together over pushes past the capacity, wrapped indices,      *)
(* clears and reserves: the slots hold the newest items, oldest first,     *)
(* counted back from m_end, and from m_start unless the buffer overran.    *)
HoldsTheNewest ==
  sound =>
    /\ size = Len(queue) /\ size <= capacity
    /\ \A k \in 1 .. size : slots[SlotOf(k)] = queue[k]
    /\ size > 0 /\ size < capacity => SlotOf(1) = start

(* What move_front, pop_many and move_many return (lines 139-182) is what  *)
(* was pushed, in the order it was pushed, none missing and none twice.    *)
GivesWhatIsDue == sound /\ got # <<>> => got = due

(* As long as its callers do what the buffer can follow, it is a bounded   *)
(* queue that drops its oldest items.                                      *)
IsABoundedQueue == TypeOK /\ HoldsTheNewest /\ GivesWhatIsDue

=============================================================================
