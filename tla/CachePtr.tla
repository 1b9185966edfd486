----------------------------- MODULE CachePtr -----------------------------
(***************************************************************************)
(* Who owns the blocks of the cache: the move-only cache_ptr of            *)
(* framework/memory/cache_ptr.cpp, the cptr_utility that makes them, the   *)
(* circular buffer that stores them (circular_cptr) and the delay buffer   *)
(* that takes them in.  The cache is the abstract Allocator, and its runs  *)
(* end inside it: that of CacheManager as long as it is `undisturbed' and  *)
(* `benign'.  So no block is asked for while build_cache is under way.     *)
(*                                                                         *)
(* The pointers here are those of one thread, and each call is one step.   *)
(* A pointer with a block and without a cache, which reset and swap can    *)
(* make, never frees it; neither does an assignment free the block of the  *)
(* pointer that is assigned to.  `careful' says that no block was lost in  *)
(* one of these ways, and `tidy' that blocks left the circular buffer by   *)
(* move_front only.                                                        *)
(***************************************************************************)
EXTENDS Integers, FiniteSets

CONSTANTS
  NumBlocks,   \* blocks of the cache
  MaxRequest,  \* bound: the largest number of blocks asked for
  Locals,      \* pointers of units and routines: variables and parameters
  Capacity,    \* m_capacity of the circular buffer
  Null         \* nullptr

Block == 0 .. NumBlocks - 1
Slots == 0 .. Capacity - 1   \* the pointers in the circular buffer
Pointers == Locals \cup Slots

ASSUME PointerAssumption ==
  /\ NumBlocks \in Nat \ {0} /\ MaxRequest \in Nat
  /\ Capacity \in Nat \ {0}
  /\ Null \notin Int
  /\ Locals \cap Slots = {}

VARIABLES
  held,    \* of the Allocator: the length of the run held from a block
  utility, \* the cache_utility of the cptr_utility: none, set or built
  ptr,     \* the cache_ptr objects: m_cache is set, m_block and m_num_blocks
  live,    \* the objects that are constructed
  raw,     \* blocks that release() gave away, which its callers know
  ring,    \* m_start, m_end and m_size of the circular buffer
  careful, \* history: no call has lost a block
  tidy     \* history: the circular buffer gave blocks up by moving them out

bufferVars == <<ring, tidy>>
vars == <<held, utility, ptr, live, raw, bufferVars, careful>>

Cache == INSTANCE Allocator

CachePtr == [cache : BOOLEAN, block : Block \cup {Null}, num : 0 .. MaxRequest]

Empty(cache) == [cache |-> cache, block |-> Null, num |-> 0]

Init ==
  /\ Cache!Init
  /\ utility = "none"
  /\ ptr = [p \in Pointers |-> Empty(FALSE)]
  /\ live = Slots
  /\ raw = {}
  /\ ring = [start |-> 0, end |-> 0, size |-> 0]
  /\ careful = TRUE /\ tidy = TRUE

-----------------------------------------------------------------------------
(* Variants: a definition named Bad... is a mistake in the one that        *)
(* follows it, and shows what the properties below would notice.           *)

(* What becomes of the block of p when p gives it up: a pointer that has a *)
(* cache frees it, any other loses it.  Nothing is done for nullptr.       *)
Frees(p) == ptr[p].block # Null /\ ptr[p].cache

BadGivesUp(p) ==
  IF Frees(p) THEN careful' = careful /\ UNCHANGED held
  ELSE careful' = (careful /\ ptr[p].block = Null) /\ UNCHANGED held

GivesUp(p) ==
  IF Frees(p) THEN Cache!Free(ptr[p].block) /\ UNCHANGED careful
  ELSE careful' = (careful /\ ptr[p].block = Null) /\ UNCHANGED held

(* Once p has been moved from: m_cache stays. *)
BadMoved(p) == ptr[p]

Moved(p) == Empty(ptr[p].cache)

(* set_cache_utility, and build_cache of the cache that was set. *)
WireUtility ==
  /\ utility = "none" /\ utility' = "set"
  /\ UNCHANGED <<held, ptr, live, raw, bufferVars, careful>>

BuildCache ==
  /\ utility = "set" /\ utility' = "built"
  /\ UNCHANGED <<held, ptr, live, raw, bufferVars, careful>>

(* cache_alloc without a cache, or from one that is not built: a pointer   *)
(* to nothing, in the second case with the length that was asked for.      *)
AllocNothing(p, num) ==
  /\ p \in Locals \ live /\ utility # "built"
  /\ live' = live \cup {p}
  /\ ptr' = [ptr EXCEPT ![p] =
       IF utility = "none" THEN Empty(FALSE)
       ELSE [cache |-> TRUE, block |-> Null, num |-> num]]
  /\ UNCHANGED <<held, utility, raw, bufferVars, careful>>

(* cache_alloc.  When the cache is drained alloc_raw throws, cache_alloc   *)
(* adds the name of the component and throws on: there is no pointer.      *)
Alloc(p, num) ==
  /\ p \in Locals \ live /\ utility = "built"
  /\ \E b \in Block :
       /\ b + num <= NumBlocks
       /\ Cache!Alloc(num, b)
       /\ ptr' = [ptr EXCEPT ![p] = [cache |-> TRUE, block |-> b, num |-> num]]
  /\ live' = live \cup {p}
  /\ UNCHANGED <<utility, raw, bufferVars, careful>>

(* The default constructor. *)
Construct(p) ==
  /\ p \in Locals \ live
  /\ live' = live \cup {p}
  /\ ptr' = [ptr EXCEPT ![p] = Empty(FALSE)]
  /\ UNCHANGED <<held, utility, raw, bufferVars, careful>>

(* The move constructor: how a block is passed to a parameter of           *)
(* feed_line, fill_line and the routines, and returned.  fill_line moves   *)
(* its parameter to each output in turn: the first gets the block, the     *)
(* next a pointer to nothing.                                              *)
MoveConstruct(p, q) ==
  /\ p \in Locals \ live /\ q \in Locals \cap live
  /\ live' = live \cup {p}
  /\ ptr' = [ptr EXCEPT ![p] = ptr[q], ![q] = Moved(q)]
  /\ UNCHANGED <<held, utility, raw, bufferVars, careful>>

(* What the move assignment does to p: the block p had is not freed.       *)
Loses(p) == careful' = (careful /\ ptr[p].block = Null)

MoveAssign(p, q) ==
  /\ p # q /\ {p, q} \subseteq Locals \cap live
  /\ ptr' = [ptr EXCEPT ![p] = ptr[q], ![q] = Moved(q)]
  /\ Loses(p)
  /\ UNCHANGED <<held, utility, live, raw, bufferVars>>

(* release(): the caller has the block. *)
Release(p) ==
  /\ p \in Locals \cap live /\ ptr[p].block # Null
  /\ ptr' = [ptr EXCEPT ![p] = Moved(p)]
  /\ raw' = raw \cup {ptr[p].block}
  /\ UNCHANGED <<held, utility, live, bufferVars, careful>>

(* reset() with a block that was released, of the length it has or of the  *)
(* default, 1; or with nullptr.  m_cache stays what it is.                 *)
Reset(p, b, num) ==
  /\ p \in Locals \cap live
  /\ b \in raw \cup {Null}
  /\ num \in {1} \cup (IF b = Null THEN {} ELSE {held[b]})
  /\ GivesUp(p)
  /\ ptr' = [ptr EXCEPT ![p].block = b, ![p].num = num]
  /\ raw' = raw \ {b}
  /\ UNCHANGED <<utility, live, bufferVars>>

(* swap(): blocks and lengths change sides, m_cache does not.  The length  *)
(* q gets is read before or after release() has reset it.                  *)
BadSwap(p, q) ==
  /\ p # q /\ {p, q} \subseteq Locals \cap live
  /\ ptr' = [ptr EXCEPT
       ![q].block = ptr[p].block, ![p].block = ptr[q].block]
  /\ UNCHANGED <<held, utility, live, raw, bufferVars, careful>>

Swap(p, q) ==
  /\ p # q /\ {p, q} \subseteq Locals \cap live
  /\ \E num \in {0, ptr[p].num} :
       ptr' = [ptr EXCEPT
         ![q].block = ptr[p].block, ![q].num = num,
         ![p].block = ptr[q].block, ![p].num = ptr[q].num]
  /\ UNCHANGED <<held, utility, live, raw, bufferVars, careful>>

(* free(): m_num_blocks stays. *)
Free(p) ==
  /\ p \in Locals \cap live /\ Frees(p)
  /\ GivesUp(p)
  /\ ptr' = [ptr EXCEPT ![p].block = Null]
  /\ UNCHANGED <<utility, live, raw, bufferVars>>

Destroy(p) ==
  /\ p \in Locals \cap live
  /\ GivesUp(p)
  /\ live' = live \ {p}
  /\ ptr' = [ptr EXCEPT ![p] = Empty(FALSE)]
  /\ UNCHANGED <<utility, raw, bufferVars>>

(* A delay as it is constructed, and stays: without a buffer.              *)
Delay == [size |-> 0, load |-> 0]

(* has_capacity: only a length of 0 fits. *)
HasCapacity(num) == ~(Delay.load + num > Delay.size)

(* delay::supply of what fits takes the block out of its parameter, copies *)
(* it and forgets it.                                                      *)
DelaySupply(p) ==
  /\ p \in Locals \cap live /\ HasCapacity(ptr[p].num)
  /\ live' = live \ {p}
  /\ ptr' = [ptr EXCEPT ![p] = Empty(FALSE)]
  /\ Loses(p)
  /\ UNCHANGED <<held, utility, raw, bufferVars>>

(* The number of blocks that copy_to(samples) copies.  copy_from and the   *)
(* other copy_to take the number from their callers.                       *)
Copied(p) == IF ptr[p].block = Null THEN 0 ELSE ptr[p].num

-----------------------------------------------------------------------------
After(i) == (i + 1) % Capacity

(* push_back of an rvalue: a move assignment to the slot at m_end. *)
RingPush(p) ==
  LET slot == ring.end IN
  /\ p \in Locals \cap live
  /\ ptr' = [ptr EXCEPT ![slot] = ptr[p], ![p] = Moved(p)]
  /\ Loses(slot)
  /\ ring' = [ring EXCEPT !.end = After(slot),
                          !.size = IF @ = Capacity THEN Capacity ELSE @ + 1]
  /\ tidy' = (tidy /\ ring.size < Capacity)
  /\ UNCHANGED <<held, utility, live, raw>>

BadRingMoveFront(p) ==
  /\ p \in Locals \ live /\ ring.size > 0
  /\ ptr' = [ptr EXCEPT ![p] = ptr[ring.start], ![ring.start] = Moved(ring.start)]
  /\ live' = live \cup {p}
  /\ ring' = [ring EXCEPT !.size = @ - 1]
  /\ UNCHANGED <<held, utility, raw, tidy, careful>>

(* move_front (and move_many, one after the other), of a buffer that is    *)
(* not empty, into a new pointer.                                          *)
RingMoveFront(p) ==
  /\ p \in Locals \ live /\ ring.size > 0
  /\ ptr' = [ptr EXCEPT ![p] = ptr[ring.start], ![ring.start] = Moved(ring.start)]
  /\ live' = live \cup {p}
  /\ ring' = [ring EXCEPT !.start = After(@), !.size = @ - 1]
  /\ UNCHANGED <<held, utility, raw, tidy, careful>>

(* pop_front and clear leave the blocks in their slots. *)
RingPopFront ==
  /\ ring.size > 0
  /\ ring' = [ring EXCEPT !.start = After(@), !.size = @ - 1]
  /\ tidy' = (tidy /\ ptr[ring.start].block = Null)
  /\ UNCHANGED <<held, utility, ptr, live, raw, careful>>

RingClear ==
  /\ ring' = [start |-> 0, end |-> 0, size |-> 0]
  /\ tidy' = (tidy /\ \A i \in Slots : ptr[i].block = Null)
  /\ UNCHANGED <<held, utility, ptr, live, raw, careful>>

Next ==
  \/ WireUtility \/ BuildCache
  \/ \E p \in Locals : \E num \in 1 .. MaxRequest : AllocNothing(p, num) \/ Alloc(p, num)
  \/ \E p \in Locals :
       \/ Construct(p) \/ Release(p) \/ Free(p) \/ Destroy(p) \/ DelaySupply(p)
       \/ RingPush(p) \/ RingMoveFront(p)
       \/ \E b \in raw \cup {Null} : \E num \in 1 .. MaxRequest : Reset(p, b, num)
       \/ \E q \in Locals : MoveConstruct(p, q) \/ MoveAssign(p, q) \/ Swap(p, q)
  \/ RingPopFront \/ RingClear

Spec == Init /\ [][Next]_vars

-----------------------------------------------------------------------------
TypeOK ==
  /\ held \in [Block -> 0 .. MaxRequest]
  /\ utility \in {"none", "set", "built"}
  /\ ptr \in [Pointers -> CachePtr]
  /\ Slots \subseteq live /\ live \subseteq Pointers
  /\ raw \subseteq Block
  /\ ring \in [start : Slots, end : Slots, size : 0 .. Capacity]
  /\ {careful, tidy} \subseteq BOOLEAN

Owns(p, b) == p \in live /\ ptr[p].block = b

(* Whatever is moved, assigned, swapped, reset, released and stored, no    *)
(* block has two owners, and an owner's block was handed out and did not   *)
(* come back: no block is freed twice, and none is used after it was       *)
(* freed (cache_ptr.cpp lines 33-67, 75-140).                              *)
OneOwnerPerBlock ==
  \A b \in Block :
    /\ \A p, q \in Pointers : Owns(p, b) /\ Owns(q, b) => p = q
    /\ \A p \in Pointers : Owns(p, b) => held[b] > 0 /\ b \notin raw
    /\ b \in raw => held[b] > 0

(* A block that is held has an owner, or a caller that released it, unless *)
(* it was lost in one of three ways: by the assignment to a pointer that   *)
(* has a block (line 115), by a pointer that has no cache, or in the delay *)
(* buffer (delay.cpp line 54).  Nothing else leaks.                        *)
LeaksOnlyIfCareless ==
  careful => \A b \in Block :
    held[b] > 0 => b \in raw \/ \E p \in Pointers : Owns(p, b)

(* What a pointer says of its length never reaches beyond its block: swap  *)
(* (line 103) and reset may make it too short, never too long, so that     *)
(* copy_to never reads behind the block.                                   *)
LengthWithinTheRun ==
  \A p \in live : \A b \in Block : Owns(p, b) => Copied(p) <= held[b]

(* The slots of the circular buffer that hold one of its items. *)
Occupied == {(ring.start + k) % Capacity : k \in 0 .. ring.size - 1}

(* If blocks are moved out of the circular buffer and never pushed into a  *)
(* full one, a push (circular.hpp line 98) falls on an empty slot; after a *)
(* pop_front or a clear it may fall on a block, which is lost.             *)
FreeSlotsAreEmpty ==
  tidy => \A i \in Slots \ Occupied : ptr[i].block = Null

=============================================================================
