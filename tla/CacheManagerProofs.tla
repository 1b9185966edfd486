------------------------ MODULE CacheManagerProofs ------------------------
(***************************************************************************)
(* For every number of blocks and whatever a read past the end of the      *)
(* handles returns, the allocator never hands out a block twice and never  *)
(* loses one, unless it gave out blocks while build_cache was still adding *)
(* handles.  The inductive invariant adds to the properties of             *)
(* CacheManager what the handles are until build_cache returns, and that   *)
(* the counts of neighbouring free blocks follow each other (modulo Word): *)
(* a first fit inside a stretch of free blocks is only possible where the  *)
(* count has wrapped, and a wrapped count is short.                        *)
(***************************************************************************)
EXTENDS CacheManager, FiniteSetTheorems, WellFoundedInduction, TLAPS

FreeAt(c) == ~handles[c].in_use

built == phase = "built"

(* Until the cache is built nobody has blocks, and the handles there are   *)
(* count up to the end.                                                    *)
UnbuiltIsEmpty ==
  undisturbed /\ ~built => \A b \in Block :
    /\ held[b] = 0
    /\ handles[b] = IF b < filled THEN [in_use |-> FALSE, num_blocks |-> NumBlocks - b]
                                  ELSE NoHandle

BuiltIsFull == built => filled = NumBlocks

(* Nobody has a pointer that somebody else has. *)
NoneShared == undisturbed => shared = {}

(* Inside a stretch of free blocks the counts go down by one. *)
CountsFollow ==
  undisturbed /\ built => \A c, d \in Block :
    c < d /\ (\A e \in c .. d : FreeAt(e)) =>
      handles[c].num_blocks = Wrap(handles[d].num_blocks + (d - c))

IInv ==
  /\ TypeOK
  /\ BuiltIsFull
  /\ NoneShared
  /\ UnbuiltIsEmpty
  /\ HeldRunsIntact
  /\ NoOverlap
  /\ (undisturbed => UsedBlocksAreHeld)
  /\ FreeCountsStopAtUse
  /\ CountsFollow

-----------------------------------------------------------------------------
(* Sums and differences of two unsigned ints are unsigned ints again. *)
LEMMA WrapType ==
  ASSUME NEW n \in Int, -Word <= n, n < 2 * Word
  PROVE  Wrap(n) \in 0 .. Word - 1
BY CacheAssumption DEF Wrap

(* A count that was wrapped twice on its way up the line is the one that   *)
(* is wrapped once.                                                        *)
LEMMA WrapOfWraps ==
  ASSUME NEW x \in 0 .. Word - 1, NEW p \in Nat, NEW q \in Nat, NEW r \in Int,
         q + r >= 0, p + q + r < Word, p < Word, q < Word
  PROVE  Wrap(Wrap(q + Wrap(x + p)) + r) = Wrap(x + (p + q + r))
<1> DEFINE y == Wrap(x + p)
           z == Wrap(q + y)
<1> USE CacheAssumption
<1>1. y \in 0 .. Word - 1 /\ (y = x + p \/ y = x + p - Word)
  BY DEF Wrap
<1> HIDE DEF y
<1>2. z \in 0 .. Word - 1 /\ (z = q + y \/ z = q + y - Word)
  BY <1>1 DEF Wrap
<1> HIDE DEF z
<1>3. Wrap(z + r) = Wrap(x + (p + q + r))
  BY <1>1, <1>2 DEF Wrap
<1> QED
  BY <1>3 DEF y, z

-----------------------------------------------------------------------------
(* The initial states satisfy every part of IInv. *)
LEMMA InitIInv == Init => IInv
<1> SUFFICES ASSUME Init PROVE IInv
  OBVIOUS
<1> USE CacheAssumption DEF Init, Block
<1>1. TypeOK
  <2>1. handles \in [Block -> Handle]
    BY DEF Handle, NoHandle
  <2>2. answer \in [num : 0 .. MaxRequest, got : Block \cup {Drain, NullPtr}]
    BY DEF NoAnswer
  <2>3. held \in [Block -> 0 .. MaxRequest]
    OBVIOUS
  <2>4. phase \in {"none", "building", "built"} /\ filled \in 0 .. NumBlocks
    OBVIOUS
  <2>5. total \in Int /\ shared \subseteq Block /\ since \in 0 .. MaxSince
    OBVIOUS
  <2>6. benign \in BOOLEAN
    OBVIOUS
  <2> QED
    BY <2>1, <2>2, <2>3, <2>4, <2>5, <2>6 DEF TypeOK
<1>2. BuiltIsFull /\ NoneShared /\ UnbuiltIsEmpty /\ CountsFollow
  BY DEF BuiltIsFull, NoneShared, UnbuiltIsEmpty, CountsFollow, built
<1>3. HeldRunsIntact /\ FreeCountsStopAtUse
  BY DEF HeldRunsIntact, FreeCountsStopAtUse, NoHandle
<1>4. NoOverlap /\ UsedBlocksAreHeld
  BY DEF NoOverlap, UsedBlocksAreHeld, HeldRun, Run, NoHandle
<1> QED
  BY <1>1, <1>2, <1>3, <1>4 DEF IInv

(* Handles that are taken are handles, and their counts unsigned ints. *)
LEMMA TakenType ==
  ASSUME TypeOK, NEW num \in 1 .. MaxRequest, NEW b \in Block, NEW kept \in 0 .. num
  PROVE  Taken(b, num, kept) \in [Block -> Handle]
<1>1. \A c \in Run(b, kept) : num - (c - b) \in 0 .. Word - 1
  BY CacheAssumption DEF Run, Block
<1> QED
  BY <1>1 DEF Taken, TypeOK, Handle

(* So are handles that are freed. *)
LEMMA ReleaseType ==
  ASSUME TypeOK, NEW b \in Block, NEW blocks \in 0 .. Word - 1, NEW link \in 0 .. Word - 1
  PROVE  Release(b, blocks, link) \in [Block -> Handle]
<1> SUFFICES ASSUME NEW c \in Block
             PROVE  Release(b, blocks, link)[c] \in Handle
  BY DEF Release
<1>1. Wrap(link + b - c) \in 0 .. Word - 1
  <2>1. /\ link + b - c \in Int
        /\ -Word <= link + b - c /\ link + b - c < 2 * Word
    BY CacheAssumption DEF Block
  <2> QED
    BY <2>1, WrapType
<1>2. handles[c] \in Handle
  BY DEF TypeOK
<1> QED
  BY <1>1, <1>2 DEF Release, Handle

(* What free_raw links a run to. *)
LEMMA LinkType ==
  ASSUME TypeOK, NEW blocks \in 0 .. Word - 1, NEW k, NEW next \in HandleAt(k)
  PROVE  LET more == IF next.in_use THEN 0 ELSE next.num_blocks IN
           more \in 0 .. Word - 1 /\ Wrap(blocks + more) \in 0 .. Word - 1
<1> DEFINE more == IF next.in_use THEN 0 ELSE next.num_blocks
<1>1. next \in Handle
  BY CacheAssumption DEF HandleAt, TypeOK
<1>2. more \in 0 .. Word - 1
  BY <1>1, CacheAssumption DEF Handle
<1>3. Wrap(blocks + more) \in 0 .. Word - 1
  BY <1>2, WrapType, CacheAssumption
<1> QED
  BY <1>2, <1>3

LEMMA CalledType == TypeOK /\ Called => since' \in 0 .. MaxSince
BY CacheAssumption DEF TypeOK, Called, undisturbed

(* Giving out a run, to whomever. *)
LEMMA HandOutType ==
  ASSUME TypeOK, NEW num \in 1 .. MaxRequest, NEW b \in Block, HandOut(b, num)
  PROVE  /\ held' \in [Block -> 0 .. MaxRequest] /\ shared' \subseteq Block
         /\ total' \in Int
         /\ answer' \in [num : 0 .. MaxRequest, got : Block \cup {Drain, NullPtr}]
BY CacheAssumption DEF TypeOK, HandOut

(* Every call keeps the types, whoever called in between. *)
LEMMA TypeStep == TypeOK /\ [Next]_vars => TypeOK'
<1> SUFFICES ASSUME TypeOK, [Next]_vars PROVE TypeOK'
  OBVIOUS
<1> USE CacheAssumption
<1>1. CASE BeginBuild \/ EndBuild
  BY <1>1 DEF BeginBuild, EndBuild, TypeOK, NoAnswer
<1>2. CASE PushHandle
  <2>1. NumBlocks - filled \in 0 .. Word - 1 /\ filled + 1 \in 0 .. NumBlocks
    BY <1>2 DEF PushHandle, TypeOK
  <2>2. handles' \in [Block -> Handle]
    BY <1>2, <2>1 DEF PushHandle, TypeOK, Handle
  <2> QED
    BY <1>2, <2>1, <2>2 DEF PushHandle, TypeOK
<1>3. ASSUME NEW num \in 0 .. MaxRequest, AllocUnbuilt(num) \/ AllocDrain(num)
      PROVE  TypeOK'
  BY <1>3, CalledType DEF AllocUnbuilt, AllocDrain, TypeOK, buildVars
<1>4. ASSUME NEW num \in 0 .. MaxRequest, AllocRun(num)
      PROVE  TypeOK'
  <2>1. num \in 1 .. MaxRequest
    BY <1>4 DEF AllocRun
  <2>2. PICK b \in FirstFit(num) : handles' = Taken(b, num, num) /\ HandOut(b, num)
    BY <1>4 DEF AllocRun, Take
  <2>3. b \in Block
    BY DEF FirstFit
  <2>4. handles' \in [Block -> Handle]
    BY <2>1, <2>2, <2>3, TakenType
  <2> QED
    BY <1>4, <2>1, <2>2, <2>3, <2>4, CalledType, HandOutType DEF AllocRun, TypeOK, buildVars
<1>5. ASSUME NEW num \in 0 .. MaxRequest, AllocEarly(num)
      PROVE  TypeOK'
  <2>1. num \in 1 .. MaxRequest
    BY <1>5 DEF AllocEarly
  <2>2. PICK b \in FirstFit(num) : \E kept \in 0 .. num :
          handles' = Taken(b, num, kept) /\ HandOut(b, num)
    BY <1>5 DEF AllocEarly
  <2>3. b \in Block
    BY DEF FirstFit
  <2>4. handles' \in [Block -> Handle]
    BY <2>1, <2>2, <2>3, TakenType
  <2>5. since' \in 0 .. MaxSince
    BY <1>5 DEF AllocEarly, TypeOK
  <2> QED
    BY <1>5, <2>1, <2>2, <2>3, <2>4, <2>5, HandOutType DEF AllocEarly, TypeOK, buildVars
<1>6. ASSUME NEW b \in Block, FreeRaw(b) \/ FreeEarly(b)
      PROVE  TypeOK'
  <2>1. handles[b].num_blocks \in 0 .. Word - 1
    BY DEF TypeOK, Handle
  <2>2. /\ held' \in [Block -> 0 .. MaxRequest] /\ since' \in 0 .. MaxSince
        /\ answer' \in [num : 0 .. MaxRequest, got : Block \cup {Drain, NullPtr}]
        /\ UNCHANGED <<phase, filled, shared>>
    BY <1>6, CalledType DEF FreeRaw, FreeEarly, ComesBack, NoAnswer, TypeOK, buildVars
  <2>3. total' \in Int
    BY <1>6, <2>1 DEF FreeRaw, FreeEarly, TypeOK
  <2>4. benign' \in BOOLEAN
    BY <1>6 DEF FreeRaw, FreeEarly, TypeOK
  <2>5. handles' \in [Block -> Handle]
    <3>1. \A k : \A next \in HandleAt(k) :
            Release(b, handles[b].num_blocks,
                    Wrap(handles[b].num_blocks
                           + (IF next.in_use THEN 0 ELSE next.num_blocks)))
              \in [Block -> Handle]
      BY <2>1, LinkType, ReleaseType
    <3>2. CASE FreeRaw(b)
      BY <3>1, <3>2 DEF FreeRaw
    <3>3. CASE FreeEarly(b) /\ handles' # handles
      <4> DEFINE blocks == handles[b].num_blocks
                 Freed(next) == Release(b, blocks, Wrap(blocks
                                  + (IF next.in_use THEN 0 ELSE next.num_blocks)))
      <4>1. PICK next \in HandleAt(b + blocks), last \in SUBSET (0 .. filled - 1) :
              handles' = [c \in Block |-> IF c \in last THEN Freed(next)[c] ELSE handles[c]]
        BY <3>3 DEF FreeEarly
      <4>2. Freed(next) \in [Block -> Handle]
        BY <3>1, <4>1
      <4> HIDE DEF Freed
      <4> QED
        BY <4>1, <4>2 DEF TypeOK
    <3> QED
      BY <1>6, <3>2, <3>3 DEF TypeOK
  <2> QED
    BY <2>2, <2>3, <2>4, <2>5 DEF TypeOK
<1>7. CASE UNCHANGED vars
  BY <1>7 DEF vars, TypeOK
<1> QED
  BY <1>1, <1>2, <1>3, <1>4, <1>5, <1>6, <1>7 DEF Next

(* Once blocks were given out too early, they were. *)
LEMMA DisturbedStays == TypeOK /\ ~undisturbed /\ [Next]_vars => ~undisturbed'
BY CacheAssumption DEF TypeOK, undisturbed, Next, vars, BeginBuild, PushHandle, EndBuild,
   AllocUnbuilt, AllocDrain, AllocRun, AllocEarly, FreeRaw, FreeEarly, ComesBack, Called

(* build_cache keeps the invariant: there is nothing to overlap yet. *)
LEMMA BuildCacheIInv ==
  IInv /\ undisturbed /\ (BeginBuild \/ PushHandle \/ EndBuild) => IInv'
<1> SUFFICES ASSUME IInv, undisturbed, BeginBuild \/ PushHandle \/ EndBuild PROVE IInv'
  OBVIOUS
<1> USE CacheAssumption DEF Block
<1>1. TypeOK'
  BY TypeStep DEF IInv, Next
<1>2. UNCHANGED <<held, shared, since>> /\ ~built
  BY DEF BeginBuild, PushHandle, EndBuild, built
<1>3. \A b \in Block :
        /\ held[b] = 0
        /\ handles'[b] = IF b < filled' THEN [in_use |-> FALSE, num_blocks |-> NumBlocks - b]
                                        ELSE NoHandle
  <2>1. CASE PushHandle
    <3> SUFFICES ASSUME NEW b \in Block
                 PROVE  /\ held[b] = 0
                        /\ handles'[b] =
                             IF b < filled' THEN [in_use |-> FALSE, num_blocks |-> NumBlocks - b]
                                            ELSE NoHandle
      OBVIOUS
    <3>1. /\ held[b] = 0
          /\ handles[b] = IF b < filled THEN [in_use |-> FALSE, num_blocks |-> NumBlocks - b]
                                        ELSE NoHandle
      BY <1>2 DEF IInv, UnbuiltIsEmpty
    <3>2. filled \in Block /\ filled' = filled + 1
      BY <2>1 DEF PushHandle, IInv, TypeOK
    <3>3. CASE b = filled
      <4>1. handles'[b] = [in_use |-> FALSE, num_blocks |-> NumBlocks - b]
        BY <2>1, <3>3 DEF PushHandle, IInv, TypeOK
      <4> QED
        BY <3>1, <3>2, <3>3, <4>1
    <3>4. CASE b # filled
      <4>1. handles'[b] = handles[b] /\ (b < filled' <=> b < filled)
        BY <2>1, <3>2, <3>4 DEF PushHandle, IInv, TypeOK
      <4> QED
        BY <3>1, <4>1
    <3> QED
      BY <3>3, <3>4
  <2>2. CASE BeginBuild \/ EndBuild
    BY <2>2, <1>2 DEF BeginBuild, EndBuild, IInv, UnbuiltIsEmpty
  <2> QED
    BY <2>1, <2>2
<1>4. undisturbed' /\ \A b \in Block : held'[b] = 0
  BY <1>2, <1>3 DEF undisturbed
<1>5. BuiltIsFull'
  BY <1>2 DEF BeginBuild, PushHandle, EndBuild, IInv, BuiltIsFull, built
<1>6. UnbuiltIsEmpty' /\ NoneShared'
  BY <1>2, <1>3, <1>4 DEF UnbuiltIsEmpty, NoneShared, IInv, NoHandle
<1>7. \A b \in Block : ~handles'[b].in_use
  <2> SUFFICES ASSUME NEW b \in Block PROVE ~handles'[b].in_use
    OBVIOUS
  <2>1. \/ handles'[b] = [in_use |-> FALSE, num_blocks |-> NumBlocks - b]
        \/ handles'[b] = [in_use |-> FALSE, num_blocks |-> 0]
    BY <1>3 DEF NoHandle
  <2> QED
    BY <2>1
<1>8. HeldRunsIntact' /\ FreeCountsStopAtUse'
  BY <1>4, <1>7 DEF HeldRunsIntact, FreeCountsStopAtUse
<1>9. NoOverlap' /\ UsedBlocksAreHeld'
  BY <1>4, <1>7 DEF NoOverlap, UsedBlocksAreHeld, HeldRun, Run
<1>10. CountsFollow'
  <2> SUFFICES ASSUME built', NEW c \in Block, NEW d \in Block, c < d
               PROVE  handles'[c].num_blocks = Wrap(handles'[d].num_blocks + (d - c))
    BY DEF CountsFollow, Wrap
  <2>1. filled' = NumBlocks
    BY <1>5 DEF BuiltIsFull
  <2>2. handles'[c].num_blocks = NumBlocks - c /\ handles'[d].num_blocks = NumBlocks - d
    <3>1. /\ handles'[c] = [in_use |-> FALSE, num_blocks |-> NumBlocks - c]
          /\ handles'[d] = [in_use |-> FALSE, num_blocks |-> NumBlocks - d]
      BY <2>1, <1>3
    <3> QED
      BY <3>1
  <2> QED
    BY <2>2 DEF Wrap
<1> QED
  BY <1>1, <1>5, <1>6, <1>8, <1>9, <1>10 DEF IInv

(* What every first fit relies on: the blocks that allocate takes without  *)
(* looking at them are free.                                               *)
LEMMA FirstFitIsFree ==
  ASSUME IInv, undisturbed, NEW num \in 1 .. MaxRequest, NEW b \in FirstFit(num)
  PROVE  /\ b \in Block
         /\ \A c \in Run(b, num) : FreeAt(c)
<1>1. b \in Block /\ FreeAt(b) /\ handles[b].num_blocks >= num
  BY DEF FirstFit, Fits, FreeAt
<1>2. ASSUME NEW c \in Run(b, num), ~FreeAt(c) PROVE FALSE
  <2>1. c \in Block /\ b < c /\ c - b < num
    BY <1>1, <1>2, CacheAssumption DEF Run, Block
  <2>2. handles[b].num_blocks <= c - b
    BY <1>1, <1>2, <2>1 DEF IInv, FreeCountsStopAtUse, FreeAt
  <2> QED
    BY <1>1, <2>1, <2>2, CacheAssumption DEF IInv, TypeOK, Handle, Block
<1> QED
  BY <1>1, <1>2

(* A first fit is handed out whole, and nothing that was held is touched. *)
LEMMA AllocRunIInv ==
  ASSUME IInv, undisturbed, NEW num \in 0 .. MaxRequest, AllocRun(num)
  PROVE  IInv'
<1> USE CacheAssumption DEF Block
<1>0. /\ num \in 1 .. MaxRequest /\ built /\ built'
      /\ undisturbed' /\ filled' = filled
  BY DEF AllocRun, IInv, TypeOK, built, buildVars, Called, undisturbed
<1>1. PICK b \in FirstFit(num) :
        /\ handles' = Take(b, num)
        /\ held' = [held EXCEPT ![b] = num]
        /\ shared' = IF held[b] > 0 THEN shared \cup {b} ELSE shared
  BY DEF AllocRun, HandOut
<1>2. /\ b \in Block /\ b \in Run(b, num)
      /\ \A c \in Run(b, num) : FreeAt(c)
      /\ handles[b].num_blocks >= num
      /\ \A c \in 0 .. b - 1 : FreeAt(c) => handles[c].num_blocks < num
  <2>1. b \in Block /\ \A c \in Run(b, num) : FreeAt(c)
    BY <1>0, FirstFitIsFree
  <2>2. b \in Run(b, num)
    BY <1>0, <2>1 DEF Run
  <2>3. handles[b].num_blocks >= num
    BY DEF FirstFit, Fits
  <2>4. ASSUME NEW c \in 0 .. b - 1, FreeAt(c) PROVE handles[c].num_blocks < num
    <3>1. c \in Block /\ ~Fits(c, num)
      BY <2>1 DEF FirstFit
    <3> QED
      BY <3>1, <2>4 DEF Fits, FreeAt, IInv, TypeOK, Handle
  <2> QED
    BY <2>1, <2>2, <2>3, <2>4
<1>3. TypeOK'
  BY TypeStep DEF IInv, Next
<1>4. /\ \A c \in Run(b, num) : ~FreeAt(c)'
      /\ \A c \in Block \ Run(b, num) : handles'[c] = handles[c]
      /\ handles'[b].num_blocks = num
  <2>1. Run(b, num) \subseteq Block
    BY DEF Run
  <2>2. \A c \in Run(b, num) :
          handles'[c] = [in_use |-> TRUE, num_blocks |-> num - (c - b)]
    BY <1>1, <2>1 DEF Take, Taken
  <2>3. ASSUME NEW c \in Run(b, num) PROVE ~FreeAt(c)'
    <3>1. handles'[c] = [in_use |-> TRUE, num_blocks |-> num - (c - b)]
      BY <2>2
    <3>2. handles'[c].in_use
      BY <3>1
    <3> QED
      BY <3>2 DEF FreeAt
  <2>4. \A c \in Block \ Run(b, num) : handles'[c] = handles[c]
    BY <1>1 DEF Take, Taken
  <2>5. handles'[b].num_blocks = num
    <3>1. handles'[b] = [in_use |-> TRUE, num_blocks |-> num - (b - b)]
      BY <2>2, <1>2
    <3>2. num - (b - b) = num
      BY <1>0, <1>2
    <3> QED
      BY <3>1, <3>2
  <2> QED
    BY <2>3, <2>4, <2>5
<1>5. /\ held[b] = 0 /\ held'[b] = num
      /\ \A c \in Block : c # b => held'[c] = held[c]
  <2>1. ~(held[b] > 0)
    <3>1. handles[b].in_use => ~FreeAt(b)
      BY DEF FreeAt
    <3>2. held[b] > 0 => b \in HeldRun(b)
      BY <1>2 DEF HeldRun, Run, IInv, TypeOK
    <3> QED
      BY <3>1, <3>2, <1>2 DEF IInv, HeldRunsIntact
  <2> QED
    BY <1>1, <1>2, <2>1 DEF IInv, TypeOK
<1>6. /\ HeldRun(b)' = Run(b, num)
      /\ \A c \in Block : c # b => /\ HeldRun(c)' = HeldRun(c)
                                   /\ HeldRun(c) \cap Run(b, num) = {}
  <2>1. ASSUME NEW c \in Block, c # b
        PROVE  HeldRun(c) \cap Run(b, num) = {}
    <3>1. \A d \in HeldRun(c) : held[c] > 0 /\ ~FreeAt(d)
      BY DEF HeldRun, Run, IInv, HeldRunsIntact, TypeOK, FreeAt
    <3> QED
      BY <3>1, <1>2
  <2> QED
    BY <1>5, <2>1 DEF HeldRun, Run
<1>7. HeldRunsIntact'
  <2> SUFFICES ASSUME NEW c \in Block, held'[c] > 0
               PROVE  /\ handles'[c].num_blocks = held'[c]
                      /\ \A d \in HeldRun(c)' : handles'[d].in_use
    BY DEF HeldRunsIntact
  <2>1. CASE c = b
    BY <2>1, <1>4, <1>5, <1>6 DEF FreeAt
  <2>2. CASE c # b
    <3>1. held[c] > 0 /\ held'[c] = held[c] /\ c \in HeldRun(c)
      BY <2>2, <1>5 DEF HeldRun, Run, IInv, TypeOK
    <3>2. HeldRun(c) \subseteq Block \ Run(b, num)
      BY <2>2, <1>6 DEF HeldRun, Run
    <3> QED
      BY <3>1, <3>2, <2>2, <1>4, <1>6 DEF IInv, HeldRunsIntact
  <2> QED
    BY <2>1, <2>2
<1>8. NoOverlap'
  BY <1>6 DEF NoOverlap, IInv
<1>9. UsedBlocksAreHeld'
  <2> SUFFICES ASSUME NEW c \in Block, handles'[c].in_use
               PROVE  \E d \in Block : c \in HeldRun(d)'
    BY DEF UsedBlocksAreHeld
  <2>1. CASE c \in Run(b, num)
    BY <2>1, <1>2, <1>6
  <2>2. CASE c \notin Run(b, num)
    <3>1. PICK d \in Block : c \in HeldRun(d)
      BY <2>2, <1>4 DEF IInv, UsedBlocksAreHeld
    <3>2. d # b
      BY <3>1, <1>5 DEF HeldRun, Run
    <3> QED
      BY <3>1, <3>2, <1>6
  <2> QED
    BY <2>1, <2>2
<1>10. FreeCountsStopAtUse'
  <2> SUFFICES ASSUME NEW c \in Block, NEW d \in Block,
                      c < d, FreeAt(c)', ~FreeAt(d)'
               PROVE  handles'[c].num_blocks <= d - c
    BY DEF FreeCountsStopAtUse, FreeAt
  <2>1. c \notin Run(b, num) /\ handles'[c] = handles[c] /\ FreeAt(c)
    BY <1>4 DEF FreeAt
  <2>2. handles[c].num_blocks \in 0 .. Word - 1 /\ handles[b].num_blocks \in 0 .. Word - 1
    BY <1>2 DEF IInv, TypeOK, Handle
  <2>3. CASE d \notin Run(b, num)
    BY <2>1, <2>3, <1>4 DEF IInv, FreeCountsStopAtUse, FreeAt
  <2>4. CASE d \in Run(b, num)
    <3>1. c < b /\ b <= d /\ handles[c].num_blocks < num
      BY <2>1, <2>4, <1>2, <1>0 DEF Run
    <3>2. CASE \E e \in c .. b : ~FreeAt(e)
      <4>1. PICK e \in c .. b : ~FreeAt(e)
        BY <3>2
      <4>2. e \in Block /\ c < e /\ e < b
        BY <4>1, <2>1, <1>2, <3>1
      <4>3. handles[c].num_blocks <= e - c
        BY <4>1, <4>2, <2>1 DEF IInv, FreeCountsStopAtUse, FreeAt
      <4>4. e - c <= d - c
        BY <4>2, <3>1, <1>2
      <4>5. e - c \in Int /\ d - c \in Int
        BY <4>2
      <4> QED
        BY <4>3, <4>4, <4>5, <2>1, <2>2
    <3>3. CASE \A e \in c .. b : FreeAt(e)
      <4>1. handles[c].num_blocks = Wrap(handles[b].num_blocks + (b - c))
        BY <3>1, <3>3, <1>0, <1>2 DEF IInv, CountsFollow
      <4> QED
        BY <4>1, <3>1, <2>1, <2>2, <1>2, <1>0 DEF Wrap
    <3> QED
      BY <3>2, <3>3
  <2> QED
    BY <2>3, <2>4
<1>11. CountsFollow'
  <2> SUFFICES ASSUME NEW c \in Block, NEW d \in Block,
                      c < d, \A e \in c .. d : FreeAt(e)'
               PROVE  handles'[c].num_blocks = Wrap(handles'[d].num_blocks + (d - c))
    BY DEF CountsFollow, Wrap
  <2>1. \A e \in c .. d : e \in Block /\ e \notin Run(b, num) /\ handles'[e] = handles[e]
    BY <1>4
  <2>2. c \in c .. d /\ d \in c .. d
    OBVIOUS
  <2>3. \A e \in c .. d : FreeAt(e)
    BY <2>1 DEF FreeAt
  <2> QED
    BY <2>1, <2>2, <2>3, <1>0 DEF IInv, CountsFollow
<1>12. UnbuiltIsEmpty' /\ BuiltIsFull' /\ NoneShared'
  BY <1>0, <1>1, <1>5 DEF UnbuiltIsEmpty, BuiltIsFull, NoneShared, IInv
<1> QED
  BY <1>3, <1>7, <1>8, <1>9, <1>10, <1>11, <1>12 DEF IInv

(* What free_raw relies on: the blocks it frees from a held pointer are    *)
(* exactly the blocks that were handed out with it.                        *)
LEMMA FreedRun ==
  ASSUME IInv, undisturbed, NEW b \in Block, held[b] > 0
  PROVE  /\ built
         /\ handles[b].num_blocks = held[b]
         /\ held[b] \in 1 .. Word - 1
         /\ b \in HeldRun(b)
         /\ HeldRun(b) = Run(b, handles[b].num_blocks)
         /\ \A c \in HeldRun(b) : ~FreeAt(c)
<1>1. held[b] \in 1 .. Word - 1
  BY CacheAssumption DEF IInv, TypeOK
<1>2. built
  BY <1>1 DEF IInv, UnbuiltIsEmpty, TypeOK
<1>3. b \in HeldRun(b)
  BY <1>1 DEF HeldRun, Run, Block
<1>4. handles[b].num_blocks = held[b] /\ \A c \in HeldRun(b) : handles[c].in_use
  BY DEF IInv, HeldRunsIntact
<1> QED
  BY <1>1, <1>2, <1>3, <1>4 DEF HeldRun, FreeAt

(* free_raw frees the run of its pointer, relinks the free blocks around   *)
(* it, and touches nothing that is held.                                   *)
LEMMA FreeRawIInv ==
  ASSUME IInv, undisturbed, NEW b \in Block, FreeRaw(b)
  PROVE  IInv'
<1> DEFINE blocks == handles[b].num_blocks
           freed  == Run(b, blocks) \cup UpTheLine(b)
<1> USE CacheAssumption DEF Block
<1>1. PICK next \in HandleAt(b + blocks) :
        handles' = Release(b, blocks,
                     Wrap(blocks + (IF next.in_use THEN 0 ELSE next.num_blocks)))
  BY DEF FreeRaw
<1> DEFINE more == IF next.in_use THEN 0 ELSE next.num_blocks
           link == Wrap(blocks + more)
<1>2. /\ built /\ built' /\ undisturbed' /\ filled = NumBlocks
      /\ blocks \in 1 .. Word - 1
      /\ held[b] = blocks
      /\ b \in Run(b, blocks)
      /\ HeldRun(b) = Run(b, blocks)
      /\ \A c \in Run(b, blocks) : ~FreeAt(c)
  <2>1. built /\ built' /\ undisturbed' /\ held[b] > 0
    BY DEF FreeRaw, ComesBack, IInv, NoneShared, built, buildVars, Called, undisturbed
  <2>2. filled = NumBlocks
    BY <2>1 DEF IInv, BuiltIsFull
  <2> QED
    BY <2>1, <2>2, FreedRun
<1>3. more \in 0 .. Word - 1 /\ link \in 0 .. Word - 1
  <2>1. next \in Handle
    BY <1>2 DEF HandleAt, IInv, TypeOK
  <2>2. more \in 0 .. Word - 1
    BY <2>1 DEF Handle
  <2> QED
    BY <2>2, <1>2, WrapType
<1>4. /\ freed \subseteq Block
      /\ \A c \in UpTheLine(b) : c <= b /\ \A d \in c .. b - 1 : FreeAt(d)
      /\ \A c \in Run(b, blocks) : b <= c /\ c < b + blocks
  BY DEF UpTheLine, Run, FreeAt
<1>5. /\ \A c \in freed : FreeAt(c)' /\ handles'[c].num_blocks = Wrap(link + b - c)
      /\ \A c \in Block \ freed : handles'[c] = handles[c]
  <2>1. ASSUME NEW c \in freed
        PROVE  FreeAt(c)' /\ handles'[c].num_blocks = Wrap(link + b - c)
    <3>1. handles'[c] = [in_use |-> FALSE, num_blocks |-> Wrap(link + b - c)]
      BY <1>1, <1>4 DEF Release
    <3>2. handles'[c].in_use = FALSE /\ handles'[c].num_blocks = Wrap(link + b - c)
      BY <3>1
    <3> QED
      BY <3>2 DEF FreeAt
  <2>2. \A c \in Block \ freed : handles'[c] = handles[c]
    BY <1>1 DEF Release
  <2> QED
    BY <2>1, <2>2
<1>6. \A c \in freed : Wrap(link + b - c) \in 0 .. Word - 1
  <2> SUFFICES ASSUME NEW c \in freed PROVE Wrap(link + b - c) \in 0 .. Word - 1
    OBVIOUS
  <2>1. c \in Block
    BY <1>4
  <2>2. link + b - c \in Int /\ -Word <= link + b - c /\ link + b - c < 2 * Word
    BY <2>1, <1>3
  <2> QED
    BY <2>2, WrapType
<1>7. TypeOK'
  BY TypeStep DEF IInv, Next
<1>8. \A c \in Run(b, blocks) : c \in Block /\ ~FreeAt(c)
  BY <1>2 DEF Run
<1>9. /\ held'[b] = 0
      /\ HeldRun(b)' = {}
      /\ \A c \in Block : c # b => held'[c] = held[c] /\ HeldRun(c)' = HeldRun(c)
  BY DEF FreeRaw, ComesBack, IInv, TypeOK, HeldRun, Run
<1>10. \A c \in Block : c # b => HeldRun(c) \cap freed = {}
  <2> SUFFICES ASSUME NEW c \in Block, c # b, NEW d \in HeldRun(c), d \in freed
               PROVE  FALSE
    OBVIOUS
  <2>1. d \notin Run(b, blocks)
    BY <1>2 DEF IInv, NoOverlap
  <2>2. ~FreeAt(d) /\ d # b
    <3>1. held[c] > 0
      BY DEF HeldRun, Run, IInv, TypeOK
    <3>2. handles[d].in_use
      BY <3>1 DEF IInv, HeldRunsIntact
    <3> QED
      BY <2>1, <3>2, <1>2 DEF FreeAt
  <2> QED
    BY <2>1, <2>2, <1>4
<1>11. HeldRunsIntact'
  <2> SUFFICES ASSUME NEW c \in Block, held'[c] > 0
               PROVE  /\ handles'[c].num_blocks = held'[c]
                      /\ \A d \in HeldRun(c)' : handles'[d].in_use
    BY DEF HeldRunsIntact
  <2>1. c # b /\ held'[c] = held[c] /\ HeldRun(c)' = HeldRun(c)
    BY <1>9
  <2>2. c \in HeldRun(c) /\ HeldRun(c) \subseteq Block \ freed
    BY <2>1, <1>10 DEF HeldRun, Run, IInv, TypeOK
  <2> QED
    BY <2>1, <2>2, <1>5 DEF IInv, HeldRunsIntact
<1>12. NoOverlap'
  BY <1>9 DEF NoOverlap, IInv
<1>13. UsedBlocksAreHeld'
  <2> SUFFICES ASSUME NEW c \in Block, handles'[c].in_use
               PROVE  \E d \in Block : c \in HeldRun(d)'
    BY DEF UsedBlocksAreHeld
  <2>1. c \notin freed /\ handles[c].in_use
    BY <1>5 DEF FreeAt
  <2>2. PICK d \in Block : c \in HeldRun(d)
    BY <2>1 DEF IInv, UsedBlocksAreHeld
  <2>3. d # b
    BY <2>1, <2>2, <1>2
  <2> QED
    BY <2>2, <2>3, <1>9
<1>14. ASSUME NEW c \in Block, NEW e \in Block, c <= e, e \in freed,
              \A x \in c .. e : FreeAt(x)'
       PROVE  c \in freed
  <2>1. CASE c >= b
    <3>1. e \in Run(b, blocks) \/ e = b
      BY <2>1, <1>4, <1>14
    <3> QED
      BY <2>1, <3>1, <1>2, <1>14 DEF Run
  <2>2. CASE c < b
    <3>1. ASSUME NEW x \in c .. b - 1 PROVE FreeAt(x)
      <4>1. x \in Block /\ x \notin Run(b, blocks)
        BY <1>4
      <4>2. CASE x \in UpTheLine(b)
        BY <4>2, <1>4
      <4>3. CASE x \notin UpTheLine(b)
        <5>1. handles'[x] = handles[x]
          BY <4>1, <4>3, <1>5
        <5>2. CASE x <= e
          BY <5>1, <5>2, <1>14 DEF FreeAt
        <5>3. CASE e < x
          <6>1. e \in UpTheLine(b)
            BY <5>3, <1>14, <1>4
          <6> QED
            BY <6>1, <5>3, <1>4, <4>1
        <5> QED
          BY <5>2, <5>3, <4>1
      <4> QED
        BY <4>2, <4>3
    <3>2. c \in UpTheLine(b)
      BY <2>2, <3>1 DEF UpTheLine, FreeAt
    <3> QED
      BY <3>2
  <2> QED
    BY <2>1, <2>2
<1>15. FreeCountsStopAtUse'
  <2> SUFFICES ASSUME NEW c \in Block, NEW d \in Block,
                      c < d, FreeAt(c)', ~FreeAt(d)'
               PROVE  handles'[c].num_blocks <= d - c
    BY DEF FreeCountsStopAtUse, FreeAt
  <2>1. d \notin freed /\ ~FreeAt(d)
    BY <1>5 DEF FreeAt
  <2>2. CASE c \notin freed
    BY <2>1, <2>2, <1>5 DEF IInv, FreeCountsStopAtUse, FreeAt
  <2>3. CASE c \in freed
    <3>1. handles'[c].num_blocks = Wrap(link + b - c)
      BY <2>3, <1>5
    <3>2. b + blocks <= d
      <4>1. d # b /\ ~(d < b)
        BY <2>1, <2>3, <1>2, <1>4
      <4> QED
        BY <2>1, <4>1, <1>2 DEF Run
    <3>3. b + blocks \in Block /\ next = handles[b + blocks]
      BY <3>2, <1>2 DEF HandleAt
    <3>4. more <= d - (b + blocks)
      <4>1. CASE next.in_use
        BY <4>1, <3>2, <1>2
      <4>2. CASE ~next.in_use
        <5>1. b + blocks < d
          BY <4>2, <3>2, <3>3, <2>1, <1>2 DEF FreeAt
        <5> QED
          BY <5>1, <4>2, <3>3, <2>1 DEF IInv, FreeCountsStopAtUse, FreeAt
      <4> QED
        BY <4>1, <4>2
    <3>5. link = blocks + more
      BY <3>4, <3>2, <1>2, <1>3 DEF Wrap
    <3>6. c < b + blocks
      BY <2>3, <1>2, <1>4
    <3> QED
      BY <3>1, <3>2, <3>4, <3>5, <3>6, <1>2, <1>3 DEF Wrap
  <2> QED
    BY <2>2, <2>3
<1>16. CountsFollow'
  <2> SUFFICES ASSUME NEW c \in Block, NEW d \in Block,
                      c < d, \A e \in c .. d : FreeAt(e)'
               PROVE  handles'[c].num_blocks = Wrap(handles'[d].num_blocks + (d - c))
    BY DEF CountsFollow, Wrap
  <2>0. handles[d].num_blocks \in 0 .. Word - 1
    BY DEF IInv, TypeOK, Handle
  <2>1. CASE d \in freed
    <3>1. c \in freed
      BY <2>1, <1>14
    <3>2. /\ handles'[c].num_blocks = Wrap(link + b - c)
          /\ handles'[d].num_blocks = Wrap(link + b - d)
      BY <2>1, <3>1, <1>5
    <3> QED
      BY <3>2, <1>3 DEF Wrap
  <2>2. CASE d \notin freed /\ c \in freed
    <3>1. b + blocks <= d
      <4>1. ~(d <= b)
        BY <2>2, <1>2, <1>4 DEF UpTheLine
      <4> QED
        BY <2>2, <4>1, <1>2 DEF Run
    <3>2. b + blocks \in Block /\ next = handles[b + blocks] /\ c < b + blocks
      BY <3>1, <2>2, <1>2, <1>4 DEF HandleAt
    <3>3. \A x \in b + blocks .. d : FreeAt(x)
      <4> SUFFICES ASSUME NEW x \in b + blocks .. d PROVE FreeAt(x)
        OBVIOUS
      <4>1. x \in Block /\ x \in c .. d /\ x \notin freed
        BY <3>1, <3>2, <1>2, <1>4
      <4> QED
        BY <4>1, <1>5 DEF FreeAt
    <3>4. next.num_blocks = more
      BY <3>1, <3>2, <3>3, <1>2 DEF FreeAt
    <3>5. more = Wrap(handles[d].num_blocks + (d - (b + blocks)))
      <4>1. CASE d = b + blocks
        BY <4>1, <3>2, <3>4, <2>0, <1>2 DEF Wrap
      <4>2. CASE b + blocks < d
        BY <4>2, <3>2, <3>3, <3>4, <1>2 DEF IInv, CountsFollow
      <4> QED
        BY <4>1, <4>2, <3>1, <1>2
    <3>6. /\ handles'[c].num_blocks = Wrap(link + b - c)
          /\ handles'[d] = handles[d]
      BY <2>2, <1>5
    <3> QED
      <4> DEFINE p == d - (b + blocks)
                 r == b - c
                 x == handles[d].num_blocks
      <4>1. /\ x \in 0 .. Word - 1 /\ p \in Nat /\ blocks \in Nat /\ r \in Int
            /\ blocks + r >= 0 /\ p + blocks + r = d - c /\ p + blocks + r < Word
            /\ p < Word /\ blocks < Word
        BY <3>1, <3>2, <2>0, <1>2
      <4>2. handles'[c].num_blocks = Wrap(Wrap(blocks + Wrap(x + p)) + r)
        <5>1. link + b - c = link + r
          BY <1>3
        <5> QED
          BY <5>1, <3>5, <3>6
      <4>3. handles'[c].num_blocks = Wrap(x + (p + blocks + r))
        <5> HIDE DEF p, r, x, blocks
        <5> QED
          BY <4>1, <4>2, WrapOfWraps, ZenonT(30)
      <4>4. handles'[c].num_blocks = Wrap(x + (d - c))
        <5> HIDE DEF p, r, x, blocks
        <5> QED
          BY <4>1, <4>3
      <4> QED
        BY <4>4, <3>6
  <2>3. CASE d \notin freed /\ c \notin freed
    <3>1. ASSUME NEW e \in c .. d PROVE FreeAt(e)
      <4>1. e \notin freed
        BY <2>3, <1>14
      <4> QED
        BY <4>1, <1>5 DEF FreeAt
    <3> QED
      BY <2>3, <3>1, <1>2, <1>5 DEF IInv, CountsFollow
  <2> QED
    BY <2>1, <2>2, <2>3
<1>17. UnbuiltIsEmpty' /\ BuiltIsFull' /\ NoneShared'
  BY <1>2 DEF UnbuiltIsEmpty, BuiltIsFull, NoneShared, FreeRaw, ComesBack, buildVars, IInv
<1> QED
  BY <1>7, <1>11, <1>12, <1>13, <1>15, <1>16, <1>17 DEF IInv

-----------------------------------------------------------------------------
(* Every step of the allocator keeps the invariant. *)
LEMMA NextIInv == IInv /\ [Next]_vars => IInv'
<1> SUFFICES ASSUME IInv, [Next]_vars PROVE IInv'
  OBVIOUS
<1>1. TypeOK'
  BY TypeStep DEF IInv
<1>2. CASE ~undisturbed'
  <2>1. BuiltIsFull'
    <3>1. CASE BeginBuild \/ PushHandle \/ EndBuild
      BY <3>1 DEF BeginBuild, PushHandle, EndBuild, BuiltIsFull, built
    <3>2. CASE UNCHANGED <<phase, filled>>
      BY <3>2 DEF IInv, BuiltIsFull, built
    <3> QED
      BY <3>1, <3>2 DEF Next, vars, buildVars, AllocUnbuilt, AllocDrain, AllocRun,
                        AllocEarly, FreeRaw, FreeEarly, ComesBack
  <2> QED
    BY <1>1, <1>2, <2>1 DEF IInv, NoneShared, UnbuiltIsEmpty, HeldRunsIntact, NoOverlap,
                            FreeCountsStopAtUse, CountsFollow
<1>3. CASE undisturbed'
  <2>1. undisturbed
    BY <1>3, DisturbedStays DEF IInv
  <2>2. CASE BeginBuild \/ PushHandle \/ EndBuild
    BY <2>1, <2>2, BuildCacheIInv
  <2>3. ASSUME NEW num \in 0 .. MaxRequest, AllocUnbuilt(num) \/ AllocDrain(num)
        PROVE  IInv'
    <3>1. UNCHANGED <<phase, filled, handles, held, shared>>
      BY <2>3 DEF AllocUnbuilt, AllocDrain, buildVars
    <3> QED
      BY <1>1, <1>3, <2>1, <3>1
      DEF IInv, BuiltIsFull, NoneShared, built, UnbuiltIsEmpty, HeldRunsIntact, NoOverlap,
          UsedBlocksAreHeld, FreeCountsStopAtUse, CountsFollow, HeldRun, FreeAt
  <2>4. ASSUME NEW num \in 0 .. MaxRequest, AllocRun(num)
        PROVE  IInv'
    BY <2>1, <2>4, AllocRunIInv
  <2>5. ASSUME NEW num \in 0 .. MaxRequest, AllocEarly(num)
        PROVE  FALSE
    BY <1>3, <2>5, CacheAssumption DEF AllocEarly, undisturbed, IInv, TypeOK
  <2>6. ASSUME NEW b \in Block, FreeRaw(b)
        PROVE  IInv'
    BY <2>1, <2>6, FreeRawIInv
  <2>7. ASSUME NEW b \in Block, FreeEarly(b)
        PROVE  FALSE
    BY <2>1, <2>7, FreedRun DEF FreeEarly, ComesBack, IInv, NoneShared, built
  <2>8. CASE UNCHANGED vars
    BY <2>8 DEF vars, IInv, TypeOK, BuiltIsFull, NoneShared, built, UnbuiltIsEmpty,
                HeldRunsIntact, NoOverlap, UsedBlocksAreHeld, FreeCountsStopAtUse,
                CountsFollow, HeldRun, FreeAt, undisturbed
  <2> QED
    BY <2>2, <2>3, <2>4, <2>5, <2>6, <2>7, <2>8 DEF Next
<1> QED
  BY <1>2, <1>3

(* The inductive invariant holds in every reachable state. *)
THEOREM Invariance == Spec => []IInv
BY InitIInv, NextIInv, PTL DEF Spec

(* Every variable keeps its type: the counts stay unsigned ints. *)
THEOREM TypeCorrect == Spec => []TypeOK
<1>1. IInv => TypeOK
  BY DEF IInv
<1> QED
  BY <1>1, Invariance, PTL

(* allocate never hands out a block that someone still holds, as long as   *)
(* it gave out none before build_cache (lines 119-141) had returned.        *)
THEOREM NoBlockTwice == Spec => []NoOverlap
<1>1. IInv => NoOverlap
  BY DEF IInv
<1> QED
  BY <1>1, Invariance, PTL

(* A run comes back from its holder as it was handed out, so that free_raw *)
(* releases all of it and nothing else (on the same condition).            *)
THEOREM RunsStayIntact ==
  Spec => [](HeldRunsIntact /\ (undisturbed => UsedBlocksAreHeld))
<1>1. IInv => HeldRunsIntact /\ (undisturbed => UsedBlocksAreHeld)
  BY DEF IInv
<1> QED
  BY <1>1, Invariance, PTL

(* No count of a free block reaches past a block in use, although free_raw *)
(* links in whatever it reads past the end of the handles (on the same     *)
(* condition).                                                             *)
THEOREM CountsAreSafe == Spec => []FreeCountsStopAtUse
<1>1. IInv => FreeCountsStopAtUse
  BY DEF IInv
<1> QED
  BY <1>1, Invariance, PTL

-----------------------------------------------------------------------------
(* The blocks that are handed out if h is what is held. *)
Pairs(h) == {pair \in Block \X (1 .. MaxRequest) : pair[2] <= h[pair[1]]}

(* A run more is its length more blocks. *)
LEMMA OneRunMore ==
  ASSUME NEW h \in [Block -> 0 .. MaxRequest], NEW b \in Block, h[b] = 0,
         NEW num \in 1 .. MaxRequest
  PROVE  /\ Cardinality(Pairs(h)) \in Nat
         /\ Cardinality(Pairs([h EXCEPT ![b] = num])) = Cardinality(Pairs(h)) + num
<1> DEFINE g == [h EXCEPT ![b] = num]
           run == {b} \X (1 .. num)
<1> USE CacheAssumption
<1>1. IsFiniteSet(Block \X (1 .. MaxRequest))
  <2>1. IsFiniteSet(0 .. NumBlocks - 1) /\ IsFiniteSet(1 .. MaxRequest)
    <3>1. NumBlocks - 1 \in Int /\ MaxRequest \in Int /\ 0 \in Int /\ 1 \in Int
      OBVIOUS
    <3> QED
      BY <3>1, FS_Interval, Zenon
  <2> QED
    BY <2>1, FS_Product, Zenon DEF Block
<1>2. IsFiniteSet(Pairs(h))
  BY <1>1, FS_Subset DEF Pairs
<1>3. IsFiniteSet(run) /\ Cardinality(run) = num
  <2>1. IsFiniteSet(1 .. num) /\ Cardinality(1 .. num) = num
    <3>1. 1 \in Int /\ num \in Int /\ ~(1 > num) /\ num - 1 + 1 = num
      OBVIOUS
    <3>2. /\ IsFiniteSet(1 .. num)
          /\ Cardinality(1 .. num) = IF 1 > num THEN 0 ELSE num - 1 + 1
      BY <3>1, FS_Interval, Zenon
    <3> QED
      BY <3>1, <3>2
  <2>2. IsFiniteSet({b}) /\ Cardinality({b}) = 1
    BY FS_Singleton
  <2>3. /\ IsFiniteSet(run)
        /\ Cardinality(run) = Cardinality({b}) * Cardinality(1 .. num)
    BY <2>1, <2>2, FS_Product, Zenon DEF run
  <2> QED
    BY <2>1, <2>2, <2>3
<1>4. Pairs(g) = Pairs(h) \cup run
  BY DEF Pairs
<1>5. Pairs(h) \cap run = {}
  BY DEF Pairs
<1> HIDE DEF g, run
<1>6. Cardinality(Pairs(h)) \in Nat
  BY <1>2, FS_CardinalityType
<1>7. Cardinality(Pairs(h) \cup run) = Cardinality(Pairs(h)) + Cardinality(run) - Cardinality({})
  BY <1>2, <1>3, <1>5, FS_Union
<1>8. Cardinality(Pairs(g)) = Cardinality(Pairs(h)) + num
  BY <1>3, <1>4, <1>6, <1>7, FS_EmptySet
<1> QED
  BY <1>6, <1>8 DEF g

(* The block that is handed out was not held. *)
LEMMA FirstFitIsNotHeld ==
  ASSUME IInv, undisturbed, NEW num \in 1 .. MaxRequest, NEW b \in FirstFit(num)
  PROVE  held[b] = 0
<1>1. b \in Block /\ FreeAt(b)
  BY DEF FirstFit, Fits, FreeAt
<1>2. held[b] > 0 => b \in HeldRun(b)
  BY <1>1, CacheAssumption DEF HeldRun, Run, IInv, TypeOK, Block
<1> QED
  BY <1>1, <1>2, CacheAssumption DEF IInv, HeldRunsIntact, FreeAt, TypeOK

(* alloc_raw and free_raw keep m_total. *)
LEMMA TotalIsKept ==
  IInv /\ (undisturbed => TotalCountsHeld) /\ [Next]_vars => (undisturbed => TotalCountsHeld)'
<1> SUFFICES ASSUME IInv, undisturbed, TotalCountsHeld, [Next]_vars, undisturbed'
             PROVE  TotalCountsHeld'
  BY DisturbedStays DEF IInv
<1>1. HandedOut = Pairs(held) /\ HandedOut' = Pairs(held')
  BY DEF HandedOut, Pairs
<1>2. held \in [Block -> 0 .. MaxRequest]
  BY DEF IInv, TypeOK
<1>3. ASSUME held' = held, total' = total PROVE TotalCountsHeld'
  BY <1>3 DEF TotalCountsHeld, HandedOut
<1>4. ASSUME NEW num \in 0 .. MaxRequest, AllocRun(num)
      PROVE  TotalCountsHeld'
  <2>1. num \in 1 .. MaxRequest
    BY <1>4, CacheAssumption DEF AllocRun
  <2>2. PICK b \in FirstFit(num) : held' = [held EXCEPT ![b] = num]
    BY <1>4 DEF AllocRun, HandOut
  <2>3. b \in Block /\ held[b] = 0
    BY <2>1, FirstFitIsNotHeld DEF FirstFit
  <2>4. Cardinality(Pairs(held')) = Cardinality(Pairs(held)) + num
    BY <1>2, <2>1, <2>2, <2>3, OneRunMore
  <2>5. total' = total + num
    BY <1>4 DEF AllocRun, HandOut
  <2> QED
    BY <1>1, <2>4, <2>5 DEF TotalCountsHeld
<1>5. ASSUME NEW b \in Block, FreeRaw(b)
      PROVE  TotalCountsHeld'
  <2>1. /\ held' = [held EXCEPT ![b] = 0] /\ held[b] > 0
        /\ total' = total - held[b]
    BY <1>5, FreedRun DEF FreeRaw, ComesBack, IInv, NoneShared
  <2>2. held[b] \in 1 .. MaxRequest
    BY <1>2, <2>1, CacheAssumption
  <2>3. /\ held' \in [Block -> 0 .. MaxRequest] /\ held'[b] = 0
        /\ held = [held' EXCEPT ![b] = held[b]]
    <3>1. /\ held' \in [Block -> 0 .. MaxRequest] /\ held'[b] = 0
          /\ \A c \in Block : c # b => held'[c] = held[c]
      BY <1>2, <2>1, CacheAssumption
    <3>2. [held' EXCEPT ![b] = held[b]] \in [Block -> 0 .. MaxRequest]
      BY <1>2, <3>1
    <3>3. \A c \in Block : [held' EXCEPT ![b] = held[b]][c] = held[c]
      BY <1>2, <3>1
    <3> QED
      BY <1>2, <3>1, <3>2, <3>3
  <2>4. /\ Cardinality(Pairs(held')) \in Nat
        /\ Cardinality(Pairs(held)) = Cardinality(Pairs(held')) + held[b]
    BY <2>2, <2>3, OneRunMore
  <2> QED
    BY <1>1, <2>1, <2>2, <2>4 DEF TotalCountsHeld
<1>6. CASE BeginBuild \/ PushHandle \/ EndBuild
  BY <1>3, <1>6 DEF BeginBuild, PushHandle, EndBuild
<1>7. ASSUME NEW num \in 0 .. MaxRequest, AllocUnbuilt(num) \/ AllocDrain(num)
      PROVE  TotalCountsHeld'
  BY <1>3, <1>7 DEF AllocUnbuilt, AllocDrain
<1>8. CASE UNCHANGED vars
  BY <1>3, <1>8 DEF vars
<1>9. ASSUME NEW num \in 0 .. MaxRequest, AllocEarly(num)
      PROVE  FALSE
  BY <1>9, CacheAssumption DEF AllocEarly, undisturbed, IInv, TypeOK
<1>10. ASSUME NEW b \in Block, FreeEarly(b)
       PROVE  FALSE
  BY <1>10, FreedRun DEF FreeEarly, ComesBack, IInv, NoneShared, built
<1> QED
  BY <1>4, <1>5, <1>6, <1>7, <1>8, <1>9, <1>10 DEF Next

(* Over any sequence of calls what is in use is held by somebody, and      *)
(* m_total (lines 70 and 101) is the number of blocks that are handed out   *)
(* (unless some were handed out while the cache was being built).          *)
THEOREM AccountsAreBalanced == Spec => []AccountsBalance
<1>1. Init => TotalCountsHeld
  <2> SUFFICES ASSUME Init PROVE TotalCountsHeld
    OBVIOUS
  <2>1. HandedOut = {}
    BY CacheAssumption DEF Init, HandedOut
  <2> QED
    BY <2>1, FS_EmptySet DEF Init, TotalCountsHeld
<1>2. Init => (undisturbed => TotalCountsHeld)
  BY <1>1
<1>3. IInv /\ (undisturbed => TotalCountsHeld) => AccountsBalance
  BY DEF IInv, AccountsBalance
<1> QED
  BY <1>2, <1>3, Invariance, TotalIsKept, PTL DEF Spec

-----------------------------------------------------------------------------
(* A set of numbers has a least one. *)
LEMMA LeastNumber ==
  ASSUME NEW T \in SUBSET Nat, T # {}
  PROVE  \E m \in T : \A n \in T : m <= n
<1> DEFINE R == {ss \in Nat \X Nat : ss[1] < ss[2]}
<1>1. IsWellFoundedOn(R, Nat)
  BY NatLessThanWellFounded, Zenon DEF OpToRel
<1>2. \A n, m \in T : <<n, m>> \in R <=> n < m
  OBVIOUS
<1> HIDE DEF R
<1>3. PICK m \in T : \A n \in T : ~(<<n, m>> \in R)
  BY <1>1, WFMin, Zenon
<1>4. \A n \in T : ~(n < m)
  BY <1>2, <1>3, Zenon
<1> QED
  BY <1>4

(* allocate finds a block that fits if there is one. *)
LEMMA SomeFitIsFirst ==
  ASSUME NEW num \in Nat, NEW b \in Block, Fits(b, num)
  PROVE  FirstFit(num) # {}
<1> DEFINE T == {c \in Block : Fits(c, num)}
<1>1. T \in SUBSET Nat /\ T # {}
  BY CacheAssumption DEF Block
<1>2. PICK m \in T : \A n \in T : m <= n
  BY <1>1, LeastNumber
<1>3. \A c \in 0 .. m - 1 : c \in Block /\ ~(m <= c)
  BY CacheAssumption DEF Block
<1>4. m \in FirstFit(num)
  BY <1>2, <1>3 DEF FirstFit
<1> QED
  BY <1>4

(* In a tidy cache a free block counts what is free from it on. *)
LEMMA TidyCount ==
  ASSUME Tidy, built, NEW c \in Block, FreeAt(c)
  PROVE  /\ c + handles[c].num_blocks <= NumBlocks
         /\ \A d \in Block : c <= d =>
              (d < c + handles[c].num_blocks <=> \A e \in c .. d : FreeAt(e))
BY DEF Tidy, FreeAt, FreeFrom, built

(* A first fit leaves the cache tidy: it is at the start of what is free.  *)
LEMMA AllocStaysTidy ==
  ASSUME IInv, undisturbed, Tidy, NEW num \in 0 .. MaxRequest, AllocRun(num)
  PROVE  Tidy' /\ (HeldRunsInsideCache => HeldRunsInsideCache')
<1> USE CacheAssumption DEF Block
<1>0. num \in 1 .. MaxRequest /\ built /\ built' /\ benign' = benign
  BY DEF AllocRun, IInv, TypeOK, built, buildVars
<1>1. PICK b \in FirstFit(num) :
        handles' = Take(b, num) /\ held' = [held EXCEPT ![b] = num]
  BY DEF AllocRun, HandOut
<1>2. /\ b \in Block /\ FreeAt(b) /\ handles[b].num_blocks >= num
      /\ \A c \in 0 .. b - 1 : FreeAt(c) => ~(handles[c].num_blocks >= num)
  BY DEF FirstFit, Fits, FreeAt
<1>3. \A c \in Block : handles[c].num_blocks \in 0 .. Word - 1
  BY DEF IInv, TypeOK, Handle
<1>4. b + handles[b].num_blocks <= NumBlocks
  BY <1>0, <1>2, TidyCount
<1>5. /\ Run(b, num) = b .. b + num - 1
      /\ b + num <= NumBlocks
  BY <1>0, <1>2, <1>3, <1>4 DEF Run
<1>6. \A c \in Block : IF c \in Run(b, num) THEN ~FreeAt(c)' ELSE handles'[c] = handles[c]
  BY <1>1 DEF Take, Taken, FreeAt
<1>7. ASSUME NEW c \in 0 .. b - 1, \A e \in c .. b : FreeAt(e) PROVE FALSE
  <2>1. c \in Block /\ c < b /\ FreeAt(c)
    BY <1>2, <1>7
  <2>2. handles[c].num_blocks = Wrap(handles[b].num_blocks + (b - c))
    BY <1>0, <1>2, <1>7, <2>1 DEF IInv, CountsFollow
  <2>3. handles[c].num_blocks = handles[b].num_blocks + (b - c)
    BY <2>1, <2>2, <1>2, <1>3, <1>4 DEF Wrap
  <2> QED
    BY <2>1, <2>3, <1>2, <1>3, <1>0
<1>8. ASSUME NEW c \in Block, FreeAt(c)'
      PROVE  /\ c + handles'[c].num_blocks <= NumBlocks
             /\ \A d \in Block : c <= d =>
                  (d < c + handles'[c].num_blocks <=> \A e \in c .. d : FreeAt(e)')
  <2>1. c \notin Run(b, num) /\ handles'[c] = handles[c] /\ FreeAt(c)
    BY <1>6, <1>8 DEF FreeAt
  <2>2. /\ c + handles[c].num_blocks <= NumBlocks
        /\ \A d \in Block : c <= d =>
             (d < c + handles[c].num_blocks <=> \A e \in c .. d : FreeAt(e))
    BY <1>0, <2>1, TidyCount
  <2>3. ASSUME NEW d \in Block, c <= d
        PROVE  (\A e \in c .. d : FreeAt(e)) <=> (\A e \in c .. d : FreeAt(e)')
    <3>1. CASE c > b
      <4>1. \A e \in c .. d : e \in Block /\ handles'[e] = handles[e]
        BY <3>1, <2>1, <1>2, <1>5, <1>6
      <4> QED
        BY <4>1 DEF FreeAt
    <3>2. CASE c < b
      <4>1. PICK x \in c .. b : ~FreeAt(x)
        BY <3>2, <1>7, <1>2
      <4>2. x \in Block /\ x < b
        BY <4>1, <1>2
      <4>3. handles'[x] = handles[x]
        BY <4>2, <1>5, <1>6, <1>2
      <4>4. ~FreeAt(x)'
        BY <4>1, <4>3 DEF FreeAt
      <4>5. CASE x <= d
        BY <4>1, <4>4, <4>5
      <4>6. CASE d < x
        <5>1. \A e \in c .. d : e \in Block /\ handles'[e] = handles[e]
          BY <4>2, <4>6, <1>2, <1>5, <1>6
        <5> QED
          BY <5>1 DEF FreeAt
      <4> QED
        BY <4>2, <4>5, <4>6
    <3> QED
      BY <3>1, <3>2, <2>1, <1>2, <1>5, <1>0
  <2> QED
    BY <2>1, <2>2, <2>3
<1>9. Tidy'
  BY <1>8 DEF Tidy, FreeAt, FreeFrom
<1>10. HeldRunsInsideCache => HeldRunsInsideCache'
  BY <1>0, <1>1, <1>2, <1>5 DEF HeldRunsInsideCache, IInv, TypeOK
<1> QED
  BY <1>9, <1>10

(* A run that comes back is linked to the free blocks on both sides of it. *)
LEMMA FreeStaysTidy ==
  ASSUME IInv, undisturbed, benign, Tidy, HeldRunsInsideCache, NEW b \in Block, FreeRaw(b), benign'
  PROVE  Tidy' /\ HeldRunsInsideCache'
<1> DEFINE blocks == handles[b].num_blocks
           freed  == Run(b, blocks) \cup UpTheLine(b)
<1> USE CacheAssumption DEF Block
<1>1. PICK next \in HandleAt(b + blocks) :
        /\ handles' = Release(b, blocks,
                        Wrap(blocks + (IF next.in_use THEN 0 ELSE next.num_blocks)))
        /\ benign' = (benign /\ \/ b + blocks \in Block
                                \/ (IF next.in_use THEN 0 ELSE next.num_blocks) = 0)
  BY DEF FreeRaw
<1> DEFINE more == IF next.in_use THEN 0 ELSE next.num_blocks
           last == b + blocks + more
<1>2. /\ built /\ built' /\ filled = NumBlocks
      /\ blocks \in 1 .. Word - 1
      /\ held[b] = blocks
      /\ \A c \in Run(b, blocks) : ~FreeAt(c)
  <2>1. built /\ built' /\ held[b] > 0
    BY DEF FreeRaw, ComesBack, IInv, NoneShared, built, buildVars
  <2>2. filled = NumBlocks
    BY <2>1 DEF IInv, BuiltIsFull
  <2> QED
    BY <2>1, <2>2, FreedRun
<1>3. b + blocks <= NumBlocks
  BY <1>2 DEF HeldRunsInsideCache
<1>4. Run(b, blocks) = b .. b + blocks - 1
  BY <1>2, <1>3 DEF Run
<1>5. /\ more \in Nat /\ last <= NumBlocks
      /\ \A d \in Block : b + blocks <= d =>
           (d < last <=> \A e \in b + blocks .. d : FreeAt(e))
  <2>1. CASE b + blocks \in Block
    <3>1. next = handles[b + blocks] /\ next.num_blocks \in 0 .. Word - 1
      <4>1. HandleAt(b + blocks) = {handles[b + blocks]}
        BY <2>1, <1>2 DEF HandleAt
      <4>2. handles[b + blocks] \in Handle
        BY <2>1 DEF IInv, TypeOK
      <4>3. handles[b + blocks].num_blocks \in 0 .. Word - 1
        BY <4>2 DEF Handle
      <4> QED
        BY <4>1, <4>3
    <3>2. CASE next.in_use
      <4>1. ~FreeAt(b + blocks) /\ more = 0
        BY <3>1, <3>2 DEF FreeAt
      <4> QED
        BY <4>1, <1>2, <1>3
    <3>3. CASE ~next.in_use
      <4>1. FreeAt(b + blocks) /\ more = handles[b + blocks].num_blocks
        BY <3>1, <3>3 DEF FreeAt
      <4>2. /\ b + blocks + more <= NumBlocks
            /\ \A d \in Block : b + blocks <= d =>
                 (d < b + blocks + more <=> \A e \in b + blocks .. d : FreeAt(e))
        BY <4>1, <2>1, <1>2, TidyCount
      <4> QED
        BY <4>2, <3>1, <3>3
    <3> QED
      BY <3>2, <3>3
  <2>2. CASE b + blocks \notin Block
    <3>1. more = 0
      BY <2>2, <1>1, Zenon
    <3>2. b + blocks = NumBlocks
      BY <2>2, <1>2, <1>3
    <3> QED
      BY <3>1, <3>2
  <2> QED
    BY <2>1, <2>2
<1> HIDE DEF more
<1>6. /\ freed \subseteq Block
      /\ \A c \in UpTheLine(b) : c <= b /\ \A d \in c .. b - 1 : FreeAt(d)
      /\ \A c \in freed : c < b + blocks
  <2>1. Run(b, blocks) \subseteq Block
    BY DEF Run
  <2>2. \A c \in UpTheLine(b) : c \in 0 .. b /\ \A d \in c .. b - 1 : FreeAt(d)
    BY DEF UpTheLine, FreeAt
  <2>3. \A c \in Run(b, blocks) : c < b + blocks
    BY DEF Run
  <2> QED
    BY <2>1, <2>2, <2>3, <1>2
<1>7. Wrap(blocks + more) = blocks + more
  BY <1>2, <1>5 DEF Wrap
<1>8. \A c \in freed : Wrap(blocks + more + b - c) = last - c
  <2> SUFFICES ASSUME NEW c \in freed PROVE Wrap(blocks + more + b - c) = last - c
    OBVIOUS
  <2>1. c \in Block /\ c < b + blocks
    BY <1>6
  <2> QED
    BY <2>1, <1>2, <1>5 DEF Wrap
<1>9. /\ \A c \in freed : FreeAt(c)' /\ handles'[c].num_blocks = last - c
      /\ \A c \in Block \ freed : handles'[c] = handles[c]
  <2>1. handles' = Release(b, blocks, blocks + more)
    BY <1>1, <1>7 DEF more
  <2>2. ASSUME NEW c \in freed
        PROVE  FreeAt(c)' /\ handles'[c].num_blocks = last - c
    <3>1. handles'[c] = [in_use |-> FALSE, num_blocks |-> Wrap(blocks + more + b - c)]
      BY <2>1, <1>6 DEF Release
    <3>2. handles'[c].in_use = FALSE /\ handles'[c].num_blocks = Wrap(blocks + more + b - c)
      BY <3>1
    <3> QED
      BY <3>2, <1>8 DEF FreeAt
  <2>3. \A c \in Block \ freed : handles'[c] = handles[c]
    BY <2>1 DEF Release
  <2> QED
    BY <2>2, <2>3
<1> HIDE DEF last, freed
<1>10. ASSUME NEW c \in freed
       PROVE  /\ c + handles'[c].num_blocks <= NumBlocks
              /\ \A d \in Block : c <= d =>
                   (d < c + handles'[c].num_blocks <=> \A e \in c .. d : FreeAt(e)')
  <2>1. /\ c \in Block /\ c < b + blocks /\ handles'[c].num_blocks = last - c
        /\ last \in Int /\ b + blocks <= last
    BY <1>2, <1>5, <1>6, <1>9 DEF last
  <2>2. c + handles'[c].num_blocks = last
    BY <2>1
  <2>3. \A e \in c .. b + blocks - 1 : FreeAt(e)'
    <3> SUFFICES ASSUME NEW e \in c .. b + blocks - 1 PROVE e \in freed
      BY <1>9
    <3>1. CASE b <= e
      BY <3>1, <1>4, <2>1 DEF freed
    <3>2. CASE e < b
      <4>1. c \in UpTheLine(b)
        BY <3>2, <2>1, <1>4 DEF freed
      <4>2. e \in UpTheLine(b)
        BY <3>2, <4>1, <2>1 DEF UpTheLine
      <4> QED
        BY <4>2 DEF freed
    <3> QED
      BY <3>1, <3>2, <2>1
  <2>4. \A e \in Block : b + blocks <= e => (FreeAt(e)' <=> FreeAt(e))
    <3>1. \A e \in Block : b + blocks <= e => e \notin freed
      BY <1>2, <1>6
    <3> QED
      BY <3>1, <1>9 DEF FreeAt
  <2>5. ASSUME NEW d \in Block, c <= d
        PROVE  d < last <=> \A e \in c .. d : FreeAt(e)'
    <3>1. CASE d < b + blocks
      BY <3>1, <2>1, <2>3, <1>2
    <3>2. CASE b + blocks <= d
      <4>1. \A e \in b + blocks .. d : e \in Block /\ e \in c .. d
        BY <3>2, <2>1, <1>2
      <4>2. d < last <=> \A e \in b + blocks .. d : FreeAt(e)'
        BY <3>2, <4>1, <2>4, <1>5
      <4>3. \A e \in c .. d : e \in c .. b + blocks - 1 \/ e \in b + blocks .. d
        BY <3>2, <2>1, <1>2
      <4> QED
        BY <4>1, <4>2, <4>3, <2>3
    <3> QED
      BY <3>1, <3>2, <1>2
  <2> QED
    BY <2>1, <2>2, <2>5, <1>5
<1>11. ASSUME NEW c \in Block \ freed, FreeAt(c)'
       PROVE  /\ c + handles'[c].num_blocks <= NumBlocks
              /\ \A d \in Block : c <= d =>
                   (d < c + handles'[c].num_blocks <=> \A e \in c .. d : FreeAt(e)')
  <2>1. handles'[c] = handles[c] /\ FreeAt(c)
    BY <1>9, <1>11 DEF FreeAt
  <2>2. /\ c + handles[c].num_blocks <= NumBlocks
        /\ \A d \in Block : c <= d =>
             (d < c + handles[c].num_blocks <=> \A e \in c .. d : FreeAt(e))
    BY <1>2, <2>1, TidyCount
  <2>3. ASSUME NEW d \in Block, c <= d
        PROVE  (\A e \in c .. d : FreeAt(e)) <=> (\A e \in c .. d : FreeAt(e)')
    <3>1. CASE c >= b + blocks
      <4>1. \A e \in c .. d : e \in Block \ freed
        BY <3>1, <1>2, <1>6
      <4> QED
        BY <4>1, <1>9 DEF FreeAt
    <3>2. CASE c < b
      <4>1. PICK x \in c .. b - 1 : ~FreeAt(x)
        BY <3>2, <1>11 DEF freed, UpTheLine, FreeAt
      <4>2. x \in Block /\ x \notin freed
        BY <4>1, <1>4, <1>6, <1>2 DEF freed
      <4>3. ~FreeAt(x)'
        BY <4>1, <4>2, <1>9 DEF FreeAt
      <4>4. CASE x <= d
        BY <4>1, <4>3, <4>4
      <4>5. CASE d < x
        <5>1. \A e \in c .. d : e \in Block \ freed
          <6> SUFFICES ASSUME NEW e \in c .. d, e \in freed PROVE FALSE
            BY <4>5, <4>2
          <6>1. e \in UpTheLine(b)
            BY <4>1, <4>5, <1>4 DEF freed
          <6>2. x \in e .. b - 1
            BY <4>1, <4>5
          <6> QED
            BY <6>1, <6>2, <4>1, <1>6
        <5> QED
          BY <5>1, <1>9 DEF FreeAt
      <4> QED
        BY <4>2, <4>4, <4>5
    <3>3. CASE b <= c /\ c < b + blocks
      <4>1. c \in Run(b, blocks)
        BY <3>3 DEF Run
      <4> QED
        BY <4>1, <1>11 DEF freed
    <3> QED
      BY <3>1, <3>2, <3>3, <1>2
  <2> QED
    BY <2>1, <2>2, <2>3
<1>12. Tidy'
  BY <1>10, <1>11 DEF Tidy, FreeAt, FreeFrom
<1>13. HeldRunsInsideCache'
  BY DEF HeldRunsInsideCache, FreeRaw, ComesBack, IInv, TypeOK
<1> QED
  BY <1>12, <1>13

(* If no block fits, every run of that length has a block in use. *)
LEMMA DrainedIsFull ==
  ASSUME IInv, Tidy, built, NEW num \in 1 .. MaxRequest, FirstFit(num) = {},
         NEW b \in Block, b + num <= NumBlocks
  PROVE  \E c \in Run(b, num) : handles[c].in_use
<1> USE CacheAssumption DEF Block
<1> SUFFICES ASSUME \A c \in Run(b, num) : FreeAt(c) PROVE FALSE
  BY DEF FreeAt
<1>1. b + num - 1 \in Block /\ \A e \in b .. b + num - 1 : FreeAt(e)
  BY DEF Run
<1>2. FreeAt(b) /\ b + num - 1 < b + handles[b].num_blocks
  BY <1>1, TidyCount
<1>3. handles[b].num_blocks \in Nat
  BY DEF IInv, TypeOK, Handle
<1>4. Fits(b, num)
  BY <1>2, <1>3 DEF Fits, FreeAt
<1> QED
  BY <1>4, SomeFitIsFirst

(* What holds as long as free_raw has linked in nothing that does not      *)
(* exist goes on to hold.                                                  *)
LEMMA HonestInvariant == IInv /\ HonestWhileBenign /\ [Next]_vars => HonestWhileBenign'
<1> SUFFICES ASSUME IInv, HonestWhileBenign, [Next]_vars, undisturbed', benign'
             PROVE  Tidy' /\ DrainIsHonest' /\ HeldRunsInsideCache'
  BY DEF HonestWhileBenign
<1> USE CacheAssumption
<1>1. undisturbed
  BY DisturbedStays DEF IInv
<1>2. benign
  BY DEF Next, vars, BeginBuild, PushHandle, EndBuild, AllocUnbuilt, AllocDrain, AllocRun,
         AllocEarly, FreeRaw, FreeEarly
<1>3. Tidy /\ DrainIsHonest /\ HeldRunsInsideCache
  BY <1>1, <1>2 DEF HonestWhileBenign
<1>4. CASE BeginBuild \/ PushHandle
  <2>1. held' = held /\ phase' # "built"
    BY <1>4 DEF BeginBuild, PushHandle
  <2> QED
    BY <1>3, <2>1 DEF Tidy, DrainIsHonest, HeldRunsInsideCache
<1>5. CASE EndBuild
  <2>1. /\ filled = NumBlocks /\ ~built /\ UNCHANGED <<handles, held>>
        /\ answer'.got # Drain
    BY <1>5 DEF EndBuild, NoAnswer, built
  <2>2. \A b \in Block :
          handles'[b] = [in_use |-> FALSE, num_blocks |-> NumBlocks - b]
    BY <1>1, <2>1 DEF IInv, UnbuiltIsEmpty, Block
  <2>3. Tidy'
    <3>1. \A b \in Block : ~handles'[b].in_use /\ handles'[b].num_blocks = NumBlocks - b
      <4> SUFFICES ASSUME NEW b \in Block
                   PROVE  ~handles'[b].in_use /\ handles'[b].num_blocks = NumBlocks - b
        OBVIOUS
      <4>1. handles'[b] = [in_use |-> FALSE, num_blocks |-> NumBlocks - b]
        BY <2>2
      <4> QED
        BY <4>1
    <3> QED
      BY <3>1 DEF Tidy, FreeFrom, Block
  <2> QED
    BY <1>3, <2>1, <2>3 DEF DrainIsHonest, HeldRunsInsideCache
<1>6. ASSUME NEW num \in 0 .. MaxRequest, AllocUnbuilt(num)
      PROVE  Tidy' /\ DrainIsHonest' /\ HeldRunsInsideCache'
  <2>1. UNCHANGED <<phase, handles, held>> /\ answer'.got # Drain
    BY <1>6 DEF AllocUnbuilt, buildVars
  <2> QED
    BY <1>3, <2>1 DEF Tidy, FreeFrom, DrainIsHonest, HeldRunsInsideCache
<1>7. ASSUME NEW num \in 0 .. MaxRequest, AllocDrain(num)
      PROVE  Tidy' /\ DrainIsHonest' /\ HeldRunsInsideCache'
  <2>1. /\ UNCHANGED <<phase, handles, held>>
        /\ answer'.num = num /\ (num = 0 \/ FirstFit(num) = {})
    BY <1>7 DEF AllocDrain, buildVars
  <2>2. DrainIsHonest'
    <3> SUFFICES ASSUME built, num > 0, NEW b \in Block, b + num <= NumBlocks
                 PROVE  \E c \in Run(b, num) : handles[c].in_use
      BY <2>1 DEF DrainIsHonest, Run, built
    <3> QED
      BY <1>3, <2>1, DrainedIsFull
  <2> QED
    BY <1>3, <2>1, <2>2 DEF Tidy, FreeFrom, HeldRunsInsideCache
<1>8. ASSUME NEW num \in 0 .. MaxRequest, AllocRun(num)
      PROVE  Tidy' /\ DrainIsHonest' /\ HeldRunsInsideCache'
  <2>1. answer'.got # Drain
    BY <1>8 DEF AllocRun, HandOut, FirstFit, Block
  <2> QED
    BY <1>1, <1>3, <1>8, <2>1, AllocStaysTidy DEF DrainIsHonest
<1>9. ASSUME NEW num \in 0 .. MaxRequest, AllocEarly(num)
      PROVE  FALSE
  BY <1>9 DEF AllocEarly, undisturbed, IInv, TypeOK
<1>10. ASSUME NEW b \in Block, FreeRaw(b)
       PROVE  Tidy' /\ DrainIsHonest' /\ HeldRunsInsideCache'
  <2>1. answer'.got # Drain
    BY <1>10 DEF FreeRaw, ComesBack, NoAnswer
  <2> QED
    BY <1>1, <1>2, <1>3, <1>10, <2>1, FreeStaysTidy DEF DrainIsHonest
<1>11. ASSUME NEW b \in Block, FreeEarly(b)
       PROVE  FALSE
  BY <1>1, <1>11, FreedRun DEF FreeEarly, ComesBack, IInv, NoneShared, built
<1>12. CASE UNCHANGED vars
  BY <1>3, <1>12 DEF vars, Tidy, FreeFrom, DrainIsHonest, HeldRunsInsideCache, Run
<1> QED
  BY <1>4, <1>5, <1>6, <1>7, <1>8, <1>9, <1>10, <1>11, <1>12 DEF Next

(* Until a read past the handles (line 85) has added blocks that do not    *)
(* exist, or blocks were given out while the cache was being built: counts *)
(* are tidy, cache_drain is only thrown when there really is no such run,  *)
(* and every run lies inside the cache.                                    *)
THEOREM HonestUnlessMisread == Spec => []HonestWhileBenign
<1>1. Init => HonestWhileBenign
  BY CacheAssumption DEF Init, HonestWhileBenign, Tidy, DrainIsHonest, HeldRunsInsideCache,
     Block
<1> QED
  BY <1>1, Invariance, HonestInvariant, PTL DEF Spec

-----------------------------------------------------------------------------
(* A first fit may be handed out: whoever holds blocks holds others.       *)
LEMMA AllocIsPromised ==
  ASSUME IInv, undisturbed, NEW num \in 0 .. MaxRequest, AllocRun(num)
  PROVE  \E b \in Block : Promise!Alloc(num, b)
<1>1. num \in 1 .. MaxRequest
  BY CacheAssumption DEF AllocRun
<1>2. PICK b \in FirstFit(num) : held' = [held EXCEPT ![b] = num]
  BY DEF AllocRun, HandOut
<1>3. b \in Block /\ \A c \in Run(b, num) : FreeAt(c)
  BY <1>1, FirstFitIsFree
<1>4. ASSUME NEW c \in Block PROVE Run(b, num) \cap HeldRun(c) = {}
  <2>1. \A d \in HeldRun(c) : held[c] > 0 /\ ~FreeAt(d)
    BY CacheAssumption DEF HeldRun, Run, IInv, HeldRunsIntact, TypeOK, FreeAt, Block
  <2> QED
    BY <2>1, <1>3
<1>5. num > 0
  BY <1>1, CacheAssumption
<1>6. Promise!Alloc(num, b)
  BY <1>2, <1>4, <1>5 DEF Promise!Alloc, Promise!Run, HeldRun, Run
<1> QED
  BY <1>3, <1>6

(* Every call is a step of the abstract allocator or does not concern the  *)
(* holders, unless blocks were given out while the cache was being built.  *)
LEMMA NextIsPromised ==
  IInv /\ [Next]_vars => [undisturbed' => [Promise!Next]_held]_vars
<1> SUFFICES ASSUME IInv, Next, undisturbed' PROVE Promise!Next \/ held' = held
  OBVIOUS
<1>1. undisturbed
  BY DisturbedStays DEF IInv
<1>2. CASE BeginBuild \/ PushHandle \/ EndBuild
  BY <1>2 DEF BeginBuild, PushHandle, EndBuild
<1>3. ASSUME NEW num \in 0 .. MaxRequest, AllocUnbuilt(num) \/ AllocDrain(num)
      PROVE  held' = held
  BY <1>3 DEF AllocUnbuilt, AllocDrain
<1>4. ASSUME NEW num \in 0 .. MaxRequest, AllocRun(num)
      PROVE  Promise!Next
  BY <1>1, <1>4, AllocIsPromised DEF Promise!Next
<1>5. ASSUME NEW num \in 0 .. MaxRequest, AllocEarly(num)
      PROVE  FALSE
  BY <1>5, CacheAssumption DEF AllocEarly, undisturbed, IInv, TypeOK
<1>6. ASSUME NEW b \in Block, FreeRaw(b) \/ FreeEarly(b)
      PROVE  Promise!Next
  <2>1. held[b] > 0 /\ held' = [held EXCEPT ![b] = 0]
    BY <1>1, <1>6 DEF FreeRaw, FreeEarly, ComesBack, IInv, NoneShared
  <2>2. Promise!Free(b)
    BY <2>1 DEF Promise!Free
  <2> QED
    BY <2>2 DEF Promise!Next
<1> QED
  BY <1>2, <1>3, <1>4, <1>5, <1>6 DEF Next

(* The manager implements the abstract allocator (cache_manager.cpp lines  *)
(* 25-141): whatever it does with its handles, holders only ever see runs  *)
(* handed out that nobody holds and runs that come back whole, as long as  *)
(* nothing was handed out before build_cache had returned.                 *)
THEOREM Implements == Spec => ImplementsAllocator
<1>1. Init => Promise!Init
  BY DEF Init, Promise!Init
<1> QED
  BY <1>1, NextIsPromised, Invariance, PTL DEF Spec, ImplementsAllocator

=============================================================================
