--------------------------- MODULE CacheManager ---------------------------
(***************************************************************************)
(* The first-fit block allocator of framework/memory/cache_manager.cpp.    *)
(*                                                                         *)
(* alloc_raw and free_raw run their whole body under m_cache_mutex, so     *)
(* each call is one step.  build_cache takes no lock: it is a step for     *)
(* each handle it adds, and a call may come in between.  Such a call sees  *)
(* the handles that are there, and since m_handles may move at each        *)
(* push_back, what it writes may be lost.  `undisturbed' says that no such *)
(* call was given blocks; after one that was, nothing is promised, and the *)
(* model follows MaxSince calls.  The callers (cptr_utility and cache_ptr) *)
(* free a pointer once and only if alloc_raw gave it to them: that is what *)
(* `held' records.                                                         *)
(*                                                                         *)
(* free_raw reads the handle that follows the freed run.  When that handle *)
(* lies past the end of m_handles, the read returns whatever memory holds: *)
(* PastEnd is the set of the values such a read may return.                *)
(***************************************************************************)
EXTENDS Integers, FiniteSets

CONSTANTS
  NumBlocks,  \* m_num_blocks
  Word,       \* number of values of an unsigned int: its arithmetic wraps here
  MaxRequest, \* bound: the largest number of blocks a caller asks for
  MaxSince,   \* bound: calls after blocks were given out too early, with that
  PastEnd,    \* what a read past the last handle may return
  Drain,      \* alloc_raw threw cache_drain
  NullPtr     \* alloc_raw returned nullptr

Block == 0 .. NumBlocks - 1

Handle == [in_use : BOOLEAN, num_blocks : 0 .. Word - 1]

ASSUME CacheAssumption ==
  /\ NumBlocks \in Nat \ {0}
  /\ Word \in Nat
  /\ NumBlocks < Word
  /\ MaxRequest \in 0 .. Word - 1
  /\ MaxSince \in Nat
  /\ PastEnd \subseteq Handle
  /\ PastEnd # {}
  /\ Drain \notin Int
  /\ NullPtr \notin Int
  /\ Drain # NullPtr

VARIABLES
  phase,       \* of build_cache: "none", "building" or "built"
  filled,      \* m_handles.size()
  handles,     \* m_handles; not in use and no counts from `filled' on
  total,       \* m_total
  held,        \* blocks the holder of the pointer to a block asked for, 0 if none
  shared,      \* blocks whose pointer was given out while somebody had it
  answer,      \* the request alloc_raw answered last and what it answered
  since,       \* history: calls since blocks were given out while the cache
               \* was being built, with that call; 0 if there was none
  benign       \* history: no read past the end has added blocks to a free run

vars == <<phase, filled, handles, total, held, shared, answer, since, benign>>

buildVars == <<phase, filled>>

NoAnswer == [num |-> 0, got |-> NullPtr]

(* The unsigned int a sum or a difference of two unsigned ints yields. *)
Wrap(n) == IF n >= Word THEN n - Word ELSE IF n < 0 THEN n + Word ELSE n

NoHandle == [in_use |-> FALSE, num_blocks |-> 0]

Init ==
  /\ phase = "none" /\ filled = 0
  /\ handles = [b \in Block |-> NoHandle]
  /\ total = 0
  /\ held = [b \in Block |-> 0] /\ shared = {}
  /\ answer = NoAnswer
  /\ since = 0 /\ benign = TRUE

undisturbed == since = 0

(* A call of alloc_raw or free_raw. *)
Called ==
  /\ undisturbed \/ since < MaxSince
  /\ since' = IF undisturbed THEN 0 ELSE since + 1

(* build_cache: only the first call has an effect.  From its first lines   *)
(* on m_cache_size is set and alloc_raw looks at the handles.              *)
BeginBuild ==
  /\ phase = "none" /\ phase' = "building"
  /\ UNCHANGED <<filled, handles, total, held, shared, answer, since, benign>>

(* One push_back of its loop: the block is free, and counts the blocks     *)
(* from itself to the end.                                                 *)
PushHandle ==
  /\ phase = "building" /\ filled < NumBlocks
  /\ handles' = [handles EXCEPT
       ![filled] = [in_use |-> FALSE, num_blocks |-> NumBlocks - filled]]
  /\ filled' = filled + 1
  /\ UNCHANGED <<phase, total, held, shared, answer, since, benign>>

(* m_bound is set.  What alloc_raw answered before was about other handles. *)
EndBuild ==
  /\ phase = "building" /\ filled = NumBlocks
  /\ phase' = "built" /\ answer' = NoAnswer
  /\ UNCHANGED <<filled, handles, total, held, shared, since, benign>>

-----------------------------------------------------------------------------
(* Variants: a definition named Bad... is a mistake in the one that        *)
(* follows it, and shows what the properties below would notice.           *)
BadFitsAnyLength(b, num) == ~handles[b].in_use

BadFitsStrictly(b, num) == ~handles[b].in_use /\ handles[b].num_blocks > num

Fits(b, num) == ~handles[b].in_use /\ handles[b].num_blocks >= num

(* The block the loop of allocate stops at: the first one that fits. *)
FirstFit(num) ==
  {b \in Block : Fits(b, num) /\ \A c \in 0 .. b - 1 : ~Fits(c, num)}

(* The blocks of a run of num blocks from b; the handles end at NumBlocks. *)
Run(b, num) == {c \in Block : b <= c /\ c < b + num}

(* Once a block fits, the handles that follow are taken without a look at  *)
(* them: the loop only stops at the end of the handles.  Those are the     *)
(* handles afterwards, of which the first `kept' show what was written.    *)
Taken(b, num, kept) ==
  [c \in Block |->
     IF c \in Run(b, kept)
     THEN [in_use |-> TRUE, num_blocks |-> num - (c - b)]
     ELSE handles[c]]

BadTake(b, num) == Taken(b, num, num - 1)

Take(b, num) == Taken(b, num, num)

(* The caller of alloc_raw gets the pointer to b. *)
HandOut(b, num) ==
  /\ held' = [held EXCEPT ![b] = num]
  /\ shared' = IF held[b] > 0 THEN shared \cup {b} ELSE shared
  /\ total' = total + num
  /\ answer' = [num |-> num, got |-> b]

(* alloc_raw before build_cache: m_cache_size is 0. *)
AllocUnbuilt(num) ==
  /\ phase = "none"
  /\ answer' = [num |-> num, got |-> NullPtr]
  /\ Called
  /\ UNCHANGED <<buildVars, handles, total, held, shared, benign>>

(* No run fits, or no block was asked for: allocate throws cache_drain.    *)
(* The handles that are not there yet do not fit: they count nothing.      *)
AllocDrain(num) ==
  /\ phase # "none"
  /\ num = 0 \/ FirstFit(num) = {}
  /\ answer' = [num |-> num, got |-> Drain]
  /\ Called
  /\ UNCHANGED <<buildVars, handles, total, held, shared, benign>>

AllocRun(num) ==
  /\ phase = "built"
  /\ num > 0
  /\ \E b \in FirstFit(num) :
       /\ handles' = Take(b, num)
       /\ HandOut(b, num)
  /\ Called
  /\ UNCHANGED <<buildVars, benign>>

(* alloc_raw while build_cache is adding handles: the run may reach past   *)
(* the last one there is, and only the writes before m_handles was moved   *)
(* are in the handles that stay.                                           *)
AllocEarly(num) ==
  /\ phase = "building"
  /\ num > 0
  /\ \E b \in FirstFit(num) : \E kept \in 0 .. num :
       /\ b + kept <= filled
       /\ handles' = Taken(b, num, kept)
       /\ HandOut(b, num)
  /\ since < MaxSince /\ since' = since + 1
  /\ UNCHANGED <<buildVars, benign>>

-----------------------------------------------------------------------------
(* What m_handles[k] reads: memory past the last handle is unspecified. *)
HandleAt(k) == IF k \in Block /\ k < filled THEN {handles[k]} ELSE PastEnd

(* The free blocks that reach down to b without a gap, and b. *)
UpTheLine(b) == {c \in 0 .. b : \A d \in c .. b - 1 : ~handles[d].in_use}

BadRelease(b, blocks, link) ==
  [c \in Block |->
     IF c \in UpTheLine(b)
     THEN [in_use |-> FALSE, num_blocks |-> Wrap(link + b - c)]
     ELSE handles[c]]

(* Free `blocks' blocks from b, counting down from link, and count up from *)
(* link over the free blocks that precede.  A write past the last handle   *)
(* falls on memory the model does not have.                                *)
Release(b, blocks, link) ==
  [c \in Block |->
     IF c \in Run(b, blocks) \cup UpTheLine(b)
     THEN [in_use |-> FALSE, num_blocks |-> Wrap(link + b - c)]
     ELSE handles[c]]

(* A pointer to b comes back: somebody has it. *)
ComesBack(b) ==
  /\ held[b] > 0 \/ b \in shared
  /\ held' = [held EXCEPT ![b] = 0]
  /\ answer' = NoAnswer
  /\ Called
  /\ UNCHANGED <<buildVars, shared>>

BadFreeRaw(b) ==
  LET blocks == handles[b].num_blocks IN
  /\ phase = "built"
  /\ ComesBack(b)
  /\ \E next \in HandleAt(b + blocks) :
       /\ handles' = Release(b, blocks, Wrap(blocks + next.num_blocks))
       /\ benign' = (benign /\ (b + blocks \in Block \/ next.num_blocks = 0))
  /\ total' = total - blocks

FreeRaw(b) ==
  LET blocks == handles[b].num_blocks IN
  /\ phase = "built"
  /\ ComesBack(b)
  /\ \E next \in HandleAt(b + blocks) :
       LET more == IF next.in_use THEN 0 ELSE next.num_blocks IN
       /\ handles' = Release(b, blocks, Wrap(blocks + more))
       /\ benign' = (benign /\ (b + blocks \in Block \/ more = 0))
  /\ total' = total - blocks

(* free_raw while build_cache is adding handles, of a run that was given   *)
(* out meanwhile.  m_bound is not set yet, so the pointer may seem to lie  *)
(* outside the cache, and nothing is done; or it is freed, and the writes  *)
(* to handles past the last one, and to those that had been moved, do not  *)
(* last.                                                                   *)
FreeEarly(b) ==
  LET blocks == handles[b].num_blocks IN
  /\ phase = "building"
  /\ ComesBack(b)
  /\ UNCHANGED benign
  /\ \/ UNCHANGED <<handles, total>>
     \/ /\ \E next \in HandleAt(b + blocks) :
            LET more  == IF next.in_use THEN 0 ELSE next.num_blocks
                freed == Release(b, blocks, Wrap(blocks + more))
            IN \E last \in SUBSET (0 .. filled - 1) :
                 handles' = [c \in Block |-> IF c \in last THEN freed[c] ELSE handles[c]]
        /\ total' = total - blocks

Next ==
  \/ BeginBuild \/ PushHandle \/ EndBuild
  \/ \E num \in 0 .. MaxRequest :
       AllocUnbuilt(num) \/ AllocDrain(num) \/ AllocRun(num) \/ AllocEarly(num)
  \/ \E b \in Block : FreeRaw(b) \/ FreeEarly(b)

Spec == Init /\ [][Next]_vars

-----------------------------------------------------------------------------
TypeOK ==
  /\ phase \in {"none", "building", "built"}
  /\ filled \in 0 .. NumBlocks
  /\ handles \in [Block -> Handle]
  /\ total \in Int
  /\ held \in [Block -> 0 .. MaxRequest]
  /\ shared \subseteq Block
  /\ answer \in [num : 0 .. MaxRequest, got : Block \cup {Drain, NullPtr}]
  /\ since \in 0 .. MaxSince
  /\ benign \in BOOLEAN

HeldRun(b) == Run(b, held[b])

(* A pointer's run is still recorded as it was handed out when the pointer *)
(* comes back: free_raw (lines 81-100) takes the length to release from    *)
(* the handles, not from its caller.  Not so for a run that was given out  *)
(* while build_cache (lines 131-138) was adding handles: it may be marked  *)
(* free again by them.                                                     *)
HeldRunsIntact ==
  undisturbed => \A b \in Block : held[b] > 0 =>
    /\ handles[b].num_blocks = held[b]
    /\ \A c \in HeldRun(b) : handles[c].in_use

(* allocate (lines 54-57) takes the blocks that follow the first one       *)
(* without looking at them: no block is ever handed out twice, unless      *)
(* blocks were given out before build_cache had returned.                  *)
NoOverlap ==
  undisturbed => \A b, c \in Block : b # c => HeldRun(b) \cap HeldRun(c) = {}

(* free_raw returns all of a run and nothing else: a block is in use only  *)
(* while someone holds it, so the cache does not shrink over time.         *)
UsedBlocksAreHeld ==
  \A c \in Block : handles[c].in_use => \E b \in Block : c \in HeldRun(b)

(* The count of a free block never reaches past a block in use, whatever   *)
(* free_raw read past the end of the handles.                              *)
FreeCountsStopAtUse ==
  undisturbed => \A c, d \in Block :
    c < d /\ ~handles[c].in_use /\ handles[d].in_use =>
      handles[c].num_blocks <= d - c

(* The blocks that are handed out: each with the pointer it was asked for  *)
(* with, and its place in the run.                                         *)
HandedOut == {pair \in Block \X (1 .. MaxRequest) : pair[2] <= held[pair[1]]}

(* m_total counts the blocks that are handed out. *)
TotalCountsHeld == total = Cardinality(HandedOut)

(* The free blocks from c on: up to the next block in use or the end. *)
FreeFrom(c) ==
  {d \in Block : c <= d /\ \A e \in c .. d : ~handles[e].in_use}

(* "Cache is now nice and tidy around the block that has been freed":      *)
(* once built, a free block counts exactly the free blocks from itself on. *)
Tidy ==
  phase = "built" => \A c \in Block : ~handles[c].in_use =>
    /\ c + handles[c].num_blocks <= NumBlocks
    /\ \A d \in Block : c <= d =>
         (d < c + handles[c].num_blocks <=> d \in FreeFrom(c))

(* allocate throws cache_drain only if there really is no run of that many *)
(* free blocks (once the cache is built: before, blocks may just not have  *)
(* got their handles yet).                                                 *)
DrainIsHonest ==
  phase = "built" /\ answer.got = Drain /\ answer.num > 0 =>
    \A b \in Block : b + answer.num <= NumBlocks =>
      \E c \in Run(b, answer.num) : handles[c].in_use

(* A caller that got a pointer may write all the blocks it asked for: they *)
(* lie inside m_raw_cache.                                                 *)
HeldRunsInsideCache == \A b \in Block : b + held[b] <= NumBlocks

(* Every block is on one side of the books, over any sequence of calls:    *)
(* what is marked in use somebody holds, and m_total is what is held.      *)
AccountsBalance == TypeOK /\ (undisturbed => UsedBlocksAreHeld /\ TotalCountsHeld)

(* What free_raw's read past the handles (line 85) puts at stake: tidy     *)
(* counts, an exhaustion that is real, and runs inside the cache.          *)
HonestWhileBenign ==
  undisturbed /\ benign => Tidy /\ DrainIsHonest /\ HeldRunsInsideCache

(* Every call of the manager is a step of the abstract allocator, or       *)
(* changes nothing for the holders: allocate (lines 50-66) hands out only  *)
(* what nobody holds, and free_raw takes back one whole run.  This ends    *)
(* with a call that is given blocks before build_cache has returned.       *)
Promise == INSTANCE Allocator
ImplementsAllocator ==
  Promise!Init /\ [][undisturbed' => [Promise!Next]_held]_vars

=============================================================================
