-------------------------- MODULE CachePtrProofs --------------------------
(***************************************************************************)
(* Proofs about who owns the blocks of the cache, for any number of blocks *)
(* and pointers and any capacity of the circular buffer.                   *)
(***************************************************************************)
EXTENDS CachePtr, TLAPS

(* The three together are inductive: a block is only lost sight of by a    *)
(* pointer that was its one owner, and a length only grows with a block.   *)
IInv ==
  /\ TypeOK
  /\ OneOwnerPerBlock
  /\ LeaksOnlyIfCareless
  /\ LengthWithinTheRun

-----------------------------------------------------------------------------
LEMMA InitIInv == Init => IInv
<1> SUFFICES ASSUME Init PROVE IInv
  OBVIOUS
<1> USE PointerAssumption
    DEF Init, Cache!Init, Block, Slots, Pointers, Empty, CachePtr
<1>1. TypeOK
  BY DEF TypeOK
<1>2. OneOwnerPerBlock /\ LeaksOnlyIfCareless /\ LengthWithinTheRun
  BY DEF OneOwnerPerBlock, LeaksOnlyIfCareless, LengthWithinTheRun, Owns
<1> QED
  BY <1>1, <1>2 DEF IInv

(* A pointer that gives its block up leaves the others what they have; the *)
(* block is free afterwards, or the loss is on record.                     *)
LEMMA GivesUpOne ==
  ASSUME IInv, NEW p \in live, GivesUp(p)
  PROVE  /\ held' \in [Block -> 0 .. MaxRequest]
         /\ careful' \in BOOLEAN
         /\ careful' => careful
         /\ \A b \in Block : b # ptr[p].block => held'[b] = held[b]
         /\ \A b \in Block : b = ptr[p].block /\ careful' => held'[b] = 0
<1> USE PointerAssumption DEF IInv, TypeOK, CachePtr, GivesUp, Frees
<1>1. ptr[p] \in CachePtr
  BY DEF CachePtr
<1>2. CASE Frees(p)
  BY <1>1, <1>2 DEF Cache!Free
<1>3. CASE ~Frees(p)
  <2>1. held' = held /\ careful' = (careful /\ ptr[p].block = Null)
    BY <1>3
  <2>2. Null \notin Block
    BY DEF Block
  <2> QED
    BY <2>1, <2>2
<1> QED
  BY <1>2, <1>3

(* What alloc_raw hands out nobody has. *)
LEMMA AllocFresh ==
  ASSUME IInv, NEW num \in 1 .. MaxRequest, NEW b \in Block, Cache!Alloc(num, b)
  PROVE  /\ held[b] = 0
         /\ held' = [held EXCEPT ![b] = num]
         /\ b \notin raw
         /\ \A p \in Pointers : ~Owns(p, b)
<1>1. held[b] \in 0 .. MaxRequest
  BY DEF IInv, TypeOK
<1>2. held[b] = 0
  <2> SUFFICES ASSUME held[b] > 0 PROVE FALSE
    BY <1>1
  <2>1. b \in Cache!Run(b, num)
    BY PointerAssumption DEF Cache!Run, Block
  <2>2. b \in Cache!Run(b, held[b])
    BY <1>1, PointerAssumption DEF Cache!Run, Block
  <2> QED
    BY <2>1, <2>2 DEF Cache!Alloc
<1>3. held' = [held EXCEPT ![b] = num]
  BY DEF Cache!Alloc
<1> QED
  BY <1>2, <1>3 DEF IInv, OneOwnerPerBlock

(* A pointer comes into being. *)
LEMMA NewPointer ==
  ASSUME IInv, NEW p \in Locals,
         \/ \E num \in 1 .. MaxRequest : AllocNothing(p, num) \/ Alloc(p, num)
         \/ Construct(p)
  PROVE  IInv'
<1> USE PointerAssumption DEF IInv, TypeOK, Pointers, Empty, bufferVars
<1>0. Null \notin Block /\ 0 \in 0 .. MaxRequest
  BY DEF Block
<1>1. ASSUME NEW num \in 0 .. MaxRequest, NEW has \in BOOLEAN, p \notin live,
             live' = live \cup {p},
             ptr' = [ptr EXCEPT ![p] = [cache |-> has, block |-> Null, num |-> num]],
             UNCHANGED <<held, raw, ring, careful, tidy>>,
             utility' \in {"none", "set", "built"}
      PROVE  IInv'
  <2>1. ptr' \in [Pointers -> CachePtr]
    BY <1>1 DEF CachePtr
  <2>2. TypeOK'
    BY <1>1, <2>1
  <2>3. \A q \in Pointers, b \in Block : Owns(q, b)' <=> Owns(q, b)
    BY <1>0, <1>1 DEF Owns
  <2>4. OneOwnerPerBlock' /\ LeaksOnlyIfCareless'
    BY <1>1, <2>3 DEF OneOwnerPerBlock, LeaksOnlyIfCareless
  <2>5. LengthWithinTheRun'
    BY <1>0, <1>1, <2>3 DEF LengthWithinTheRun, Copied, Owns
  <2> QED
    BY <2>2, <2>4, <2>5
<1>2. ASSUME NEW num \in 1 .. MaxRequest, AllocNothing(p, num)
      PROVE  IInv'
  <2>1. CASE utility = "none"
    BY <1>0, <1>1, <1>2, <2>1 DEF AllocNothing
  <2>2. CASE utility # "none"
    <3>1. /\ p \notin live /\ live' = live \cup {p}
          /\ ptr' = [ptr EXCEPT ![p] = [cache |-> TRUE, block |-> Null, num |-> num]]
          /\ UNCHANGED <<held, utility, raw, ring, tidy, careful>>
      BY <1>2, <2>2 DEF AllocNothing
    <3>2. num \in 0 .. MaxRequest
      OBVIOUS
    <3> QED
      BY <1>1, <3>1, <3>2
  <2> QED
    BY <2>1, <2>2
<1>3. CASE Construct(p)
  BY <1>0, <1>1, <1>3 DEF Construct
<1>4. ASSUME NEW num \in 1 .. MaxRequest, Alloc(p, num)
      PROVE  IInv'
  <2>1. PICK b \in Block :
          /\ Cache!Alloc(num, b)
          /\ ptr' = [ptr EXCEPT ![p] = [cache |-> TRUE, block |-> b, num |-> num]]
    BY <1>4 DEF Alloc
  <2>2. /\ held[b] = 0 /\ b \notin raw
        /\ held' = [held EXCEPT ![b] = num]
        /\ \A q \in Pointers : ~Owns(q, b)
    BY <2>1, AllocFresh
  <2>3. /\ p \notin live /\ live' = live \cup {p}
        /\ UNCHANGED <<utility, raw, ring, tidy, careful>>
    BY <1>4 DEF Alloc
  <2>4. ptr' \in [Pointers -> CachePtr]
    BY <2>1 DEF CachePtr
  <2>5. TypeOK'
    BY <2>2, <2>3, <2>4
  <2>6. \A q \in Pointers, c \in Block :
          Owns(q, c)' <=> IF q = p THEN c = b ELSE Owns(q, c)
    BY <2>1, <2>3 DEF Owns
  <2>7. \A c \in Block : held'[c] = IF c = b THEN num ELSE held[c]
    BY <2>2
  <2>8. OneOwnerPerBlock'
    BY <2>2, <2>3, <2>6, <2>7 DEF OneOwnerPerBlock
  <2>9. LeaksOnlyIfCareless'
    <3> SUFFICES ASSUME careful', NEW c \in Block, held'[c] > 0
                 PROVE  c \in raw' \/ \E q \in Pointers : Owns(q, c)'
      BY DEF LeaksOnlyIfCareless
    <3>1. CASE c = b
      BY <2>6, <3>1
    <3>2. CASE c # b
      <4>1. c \in raw \/ \E q \in Pointers : Owns(q, c)
        BY <2>3, <2>7, <3>2 DEF LeaksOnlyIfCareless
      <4>2. \A q \in Pointers : Owns(q, c) => Owns(q, c)'
        BY <2>3, <2>6, <3>2 DEF Owns
      <4> QED
        BY <2>3, <4>1, <4>2
    <3> QED
      BY <3>1, <3>2
  <2>10. LengthWithinTheRun'
    BY <2>1, <2>2, <2>3, <2>6, <2>7 DEF LengthWithinTheRun, Copied, Owns
  <2> QED
    BY <2>5, <2>8, <2>9, <2>10
<1> QED
  BY <1>2, <1>3, <1>4

(* A block moves from q to p: what p had is lost, and that is on record.   *)
LEMMA MoveKeepsIInv ==
  ASSUME IInv, NEW p \in Pointers, NEW q \in live, p # q,
         ptr' = [ptr EXCEPT ![p] = ptr[q], ![q] = Moved(q)],
         live' = live \cup {p},
         careful' = (careful /\ (p \in live => ptr[p].block = Null)),
         UNCHANGED <<held, utility, raw>>,
         ring' \in [start : Slots, end : Slots, size : 0 .. Capacity],
         tidy' \in BOOLEAN
  PROVE  IInv'
<1> USE PointerAssumption DEF IInv, TypeOK, Moved, Empty
<1>0. Null \notin Block /\ 0 \in 0 .. MaxRequest
  BY DEF Block
<1>1. ptr' \in [Pointers -> CachePtr]
  BY <1>0 DEF CachePtr
<1>2. TypeOK'
  BY <1>1
<1>3. \A r \in Pointers, b \in Block :
        Owns(r, b)' <=> IF r = p THEN Owns(q, b) ELSE r # q /\ Owns(r, b)
  BY <1>0 DEF Owns
<1>4. OneOwnerPerBlock'
  BY <1>3 DEF OneOwnerPerBlock
<1>5. LeaksOnlyIfCareless'
  <2> SUFFICES ASSUME careful', NEW b \in Block, held[b] > 0, b \notin raw
               PROVE  \E r \in Pointers : Owns(r, b)'
    BY DEF LeaksOnlyIfCareless
  <2>1. PICK r \in Pointers : Owns(r, b)
    BY DEF LeaksOnlyIfCareless
  <2>2. r # p
    BY <1>0, <2>1 DEF Owns
  <2>3. Owns(IF r = q THEN p ELSE r, b)'
    BY <1>3, <2>1, <2>2
  <2> QED
    BY <2>1, <2>3
<1>6. LengthWithinTheRun'
  <2> SUFFICES ASSUME NEW r \in live', NEW b \in Block, Owns(r, b)'
               PROVE  Copied(r)' <= held[b]
    BY DEF LengthWithinTheRun
  <2>1. CASE r = p
    BY <1>3, <2>1 DEF LengthWithinTheRun, Copied
  <2>2. CASE r # p
    BY <1>3, <2>2 DEF LengthWithinTheRun, Copied
  <2> QED
    BY <2>1, <2>2
<1> QED
  BY <1>2, <1>4, <1>5, <1>6

(* p ends without a block: it is free, or its loss is on record. *)
LEMMA LossKeepsIInv ==
  ASSUME IInv, NEW p \in live,
         ptr' \in [Pointers -> CachePtr],
         \A r \in Pointers \ {p} : ptr'[r] = ptr[r],
         live' \in {live, live \ {p}}, Slots \subseteq live', ptr'[p].block = Null,
         held' \in [Block -> 0 .. MaxRequest],
         \A b \in Block : b # ptr[p].block => held'[b] = held[b],
         \A b \in Block : b = ptr[p].block /\ careful' => held'[b] = 0,
         careful' \in BOOLEAN, careful' => careful,
         UNCHANGED <<utility, raw, ring, tidy>>
  PROVE  IInv'
<1> USE PointerAssumption DEF IInv, TypeOK
<1>0. Null \notin Block
  BY DEF Block
<1>1. TypeOK'
  OBVIOUS
<1>2. \A r \in Pointers, b \in Block : Owns(r, b)' <=> r # p /\ Owns(r, b)
  BY <1>0 DEF Owns
<1>3. \A r \in Pointers, b \in Block : r # p /\ Owns(r, b) => b # ptr[p].block
  BY DEF OneOwnerPerBlock, Owns
<1>4. \A b \in raw : b # ptr[p].block
  BY DEF OneOwnerPerBlock, Owns
<1>5. OneOwnerPerBlock'
  BY <1>2, <1>3, <1>4 DEF OneOwnerPerBlock
<1>6. LeaksOnlyIfCareless'
  <2> SUFFICES ASSUME careful', NEW b \in Block, held'[b] > 0, b \notin raw
               PROVE  \E r \in Pointers : Owns(r, b)'
    BY DEF LeaksOnlyIfCareless
  <2>1. b # ptr[p].block /\ held[b] > 0
    OBVIOUS
  <2>2. PICK r \in Pointers : Owns(r, b)
    BY <2>1 DEF LeaksOnlyIfCareless
  <2>3. r # p
    BY <2>1, <2>2 DEF Owns
  <2> QED
    BY <1>2, <2>2, <2>3
<1>7. LengthWithinTheRun'
  <2> SUFFICES ASSUME NEW r \in live', NEW b \in Block, Owns(r, b)'
               PROVE  Copied(r)' <= held'[b]
    BY DEF LengthWithinTheRun
  <2>1. r \in live /\ r # p /\ Owns(r, b) /\ ptr'[r] = ptr[r]
    BY <1>2
  <2>2. held'[b] = held[b]
    BY <1>3, <2>1
  <2>3. Copied(r) <= held[b]
    BY <2>1 DEF LengthWithinTheRun
  <2> QED
    BY <2>1, <2>2, <2>3 DEF Copied
<1> QED
  BY <1>1, <1>5, <1>6, <1>7

(* The moves: the constructor, the assignment, and both ways of the        *)
(* circular buffer.                                                        *)
LEMMA MovesKeepIInv ==
  ASSUME IInv, NEW p \in Locals,
         \/ \E q \in Locals : MoveConstruct(p, q) \/ MoveAssign(p, q)
         \/ RingPush(p) \/ RingMoveFront(p)
  PROVE  IInv'
<1> USE PointerAssumption DEF Pointers
<1>0. /\ ring \in [start : Slots, end : Slots, size : 0 .. Capacity]
      /\ careful \in BOOLEAN /\ tidy \in BOOLEAN
      /\ Slots \subseteq live /\ live \subseteq Pointers
      /\ ptr \in [Pointers -> CachePtr]
  BY DEF IInv, TypeOK
<1>1. \A i \in Slots : After(i) \in Slots
  BY DEF Slots, After
<1>2. ASSUME NEW q \in Locals, MoveConstruct(p, q)
      PROVE  IInv'
  <2>1. p \notin live /\ q \in live /\ p # q
    BY <1>2 DEF MoveConstruct
  <2> QED
    BY <1>0, <1>2, <2>1, MoveKeepsIInv DEF MoveConstruct, bufferVars
<1>3. ASSUME NEW q \in Locals, MoveAssign(p, q)
      PROVE  IInv'
  <2>1. p \in live /\ q \in live /\ p # q /\ live' = live \cup {p}
    BY <1>3 DEF MoveAssign
  <2> QED
    BY <1>0, <1>3, <2>1, MoveKeepsIInv DEF MoveAssign, bufferVars, Loses
<1>4. CASE RingPush(p)
  <2>1. /\ ring.end \in Slots /\ ring.end \in live /\ p \in live /\ p # ring.end
        /\ live' = live \cup {ring.end}
    BY <1>0, <1>4 DEF RingPush
  <2>2. ring' \in [start : Slots, end : Slots, size : 0 .. Capacity]
    <3> DEFINE num == IF ring.size = Capacity THEN Capacity ELSE ring.size + 1
    <3>1. num \in 0 .. Capacity
      BY <1>0
    <3>2. ring' = [ring EXCEPT !.end = After(ring.end), !.size = num]
      BY <1>4 DEF RingPush
    <3> HIDE DEF num
    <3> QED
      BY <1>0, <1>1, <2>1, <3>1, <3>2
  <2>3. tidy' \in BOOLEAN
    BY <1>4 DEF RingPush
  <2>4. /\ ptr' = [ptr EXCEPT ![ring.end] = ptr[p], ![p] = Moved(p)]
        /\ careful' = (careful /\ (ring.end \in live => ptr[ring.end].block = Null))
        /\ UNCHANGED <<held, utility, raw>>
    BY <1>4, <2>1 DEF RingPush, Loses
  <2> QED
    BY <2>1, <2>2, <2>3, <2>4, MoveKeepsIInv
<1>5. CASE RingMoveFront(p)
  <2>1. /\ ring.start \in Slots /\ ring.start \in live /\ p \notin live /\ p # ring.start
        /\ live' = live \cup {p}
    BY <1>0, <1>5 DEF RingMoveFront
  <2>2. ring' \in [start : Slots, end : Slots, size : 0 .. Capacity]
    <3> DEFINE num == ring.size - 1
    <3>1. num \in 0 .. Capacity
      BY <1>0, <1>5 DEF RingMoveFront
    <3>2. ring' = [ring EXCEPT !.start = After(ring.start), !.size = num]
      BY <1>0, <1>5 DEF RingMoveFront
    <3> HIDE DEF num
    <3> QED
      BY <1>0, <1>1, <2>1, <3>1, <3>2
  <2>3. /\ ptr' = [ptr EXCEPT ![p] = ptr[ring.start], ![ring.start] = Moved(ring.start)]
        /\ UNCHANGED <<held, utility, raw, tidy, careful>>
    BY <1>5 DEF RingMoveFront
  <2> QED
    BY <1>0, <2>1, <2>2, <2>3, MoveKeepsIInv
<1> QED
  BY <1>2, <1>3, <1>4, <1>5

LEMMA LossesKeepIInv ==
  ASSUME IInv, NEW p \in Locals, Free(p) \/ Destroy(p) \/ DelaySupply(p)
  PROVE  IInv'
<1> USE PointerAssumption DEF Pointers
<1>0. /\ p \in live /\ Slots \subseteq live \ {p} /\ Null \notin Block
      /\ 0 \in 0 .. MaxRequest
      /\ held \in [Block -> 0 .. MaxRequest]
      /\ ptr \in [Pointers -> CachePtr] /\ careful \in BOOLEAN
  <2>1. p \in live
    BY DEF Free, Destroy, DelaySupply
  <2>2. p \notin Slots
    OBVIOUS
  <2> QED
    BY <2>1, <2>2 DEF IInv, TypeOK, Block
<1>1. Empty(FALSE) \in CachePtr /\ [ptr[p] EXCEPT !.block = Null] \in CachePtr
  BY <1>0 DEF Empty, CachePtr
<1>2. CASE Free(p)
  <2>1. /\ GivesUp(p) /\ ptr' = [ptr EXCEPT ![p] = [ptr[p] EXCEPT !.block = Null]]
        /\ UNCHANGED <<utility, live, raw, ring, tidy>>
    BY <1>2 DEF Free, bufferVars
  <2>2. /\ ptr' \in [Pointers -> CachePtr] /\ ptr'[p].block = Null
        /\ \A r \in Pointers \ {p} : ptr'[r] = ptr[r]
    BY <1>0, <1>1, <2>1 DEF CachePtr
  <2> QED
    BY <1>0, <2>1, <2>2, GivesUpOne, LossKeepsIInv
<1>3. CASE Destroy(p)
  <2>1. /\ GivesUp(p) /\ ptr' = [ptr EXCEPT ![p] = Empty(FALSE)]
        /\ live' = live \ {p}
        /\ UNCHANGED <<utility, raw, ring, tidy>>
    BY <1>3 DEF Destroy, bufferVars
  <2>2. /\ ptr' \in [Pointers -> CachePtr] /\ ptr'[p].block = Null
        /\ \A r \in Pointers \ {p} : ptr'[r] = ptr[r]
    BY <1>0, <1>1, <2>1 DEF Empty
  <2> QED
    BY <1>0, <2>1, <2>2, GivesUpOne, LossKeepsIInv
<1>4. CASE DelaySupply(p)
  <2>1. /\ careful' = (careful /\ ptr[p].block = Null)
        /\ ptr' = [ptr EXCEPT ![p] = Empty(FALSE)]
        /\ live' = live \ {p}
        /\ UNCHANGED <<held, utility, raw, ring, tidy>>
    BY <1>4 DEF DelaySupply, Loses, bufferVars
  <2>2. /\ ptr' \in [Pointers -> CachePtr] /\ ptr'[p].block = Null
        /\ \A r \in Pointers \ {p} : ptr'[r] = ptr[r]
    BY <1>0, <1>1, <2>1 DEF Empty
  <2> QED
    BY <1>0, <2>1, <2>2, LossKeepsIInv
<1> QED
  BY <1>2, <1>3, <1>4

(* swap: whatever length q is given, it is one that p had, or none.        *)
LEMMA SwapKeepsIInv ==
  ASSUME IInv, NEW p \in Locals, NEW q \in Locals, Swap(p, q)
  PROVE  IInv'
<1> USE PointerAssumption DEF IInv, TypeOK, Pointers
<1>1. PICK num \in {0, ptr[p].num} :
        ptr' = [ptr EXCEPT
          ![q].block = ptr[p].block, ![q].num = num,
          ![p].block = ptr[q].block, ![p].num = ptr[q].num]
  BY DEF Swap
<1>2. /\ p # q /\ p \in live /\ q \in live
      /\ UNCHANGED <<held, utility, live, raw, ring, tidy, careful>>
  BY DEF Swap, bufferVars
<1>3. /\ ptr[p] \in CachePtr /\ ptr[q] \in CachePtr /\ num \in 0 .. MaxRequest
      /\ num <= ptr[p].num
  BY DEF CachePtr
<1>4. /\ ptr'[q] = [ptr[q] EXCEPT !.block = ptr[p].block, !.num = num]
      /\ ptr'[p] = [ptr[p] EXCEPT !.block = ptr[q].block, !.num = ptr[q].num]
      /\ \A r \in Pointers \ {p, q} : ptr'[r] = ptr[r]
      /\ DOMAIN ptr' = Pointers
      /\ ptr' = [r \in Pointers |-> ptr'[r]]
  BY <1>1, <1>2
<1>5. ptr'[q] \in CachePtr /\ ptr'[p] \in CachePtr
  BY <1>3, <1>4 DEF CachePtr
<1>6. TypeOK'
  BY <1>2, <1>4, <1>5
<1>7. /\ ptr'[q].block = ptr[p].block /\ ptr'[q].num = num
      /\ ptr'[p].block = ptr[q].block /\ ptr'[p].num = ptr[q].num
  BY <1>3, <1>4 DEF CachePtr
<1>8. \A r \in Pointers, b \in Block :
        Owns(r, b)' <=> IF r = p THEN Owns(q, b) ELSE IF r = q THEN Owns(p, b) ELSE Owns(r, b)
  BY <1>2, <1>4, <1>7 DEF Owns
<1>9. OneOwnerPerBlock'
  BY <1>2, <1>8 DEF OneOwnerPerBlock
<1>10. LeaksOnlyIfCareless'
  <2> SUFFICES ASSUME careful', NEW b \in Block, held[b] > 0, b \notin raw
               PROVE  \E r \in Pointers : Owns(r, b)'
    BY <1>2 DEF LeaksOnlyIfCareless
  <2>1. PICK r \in Pointers : Owns(r, b)
    BY <1>2 DEF LeaksOnlyIfCareless
  <2>2. Owns(IF r = q THEN p ELSE IF r = p THEN q ELSE r, b)'
    BY <1>2, <1>8, <2>1
  <2> QED
    BY <2>1, <2>2
<1>11. LengthWithinTheRun'
  <2> SUFFICES ASSUME NEW r \in live, NEW b \in Block, Owns(r, b)'
               PROVE  Copied(r)' <= held[b]
    BY <1>2 DEF LengthWithinTheRun
  <2>0. Null \notin Block
    BY DEF Block
  <2>1. CASE r = p
    BY <1>2, <1>7, <1>8, <2>0, <2>1 DEF LengthWithinTheRun, Copied, Owns
  <2>2. CASE r = q
    <3>1. Owns(p, b) /\ Copied(p) <= held[b] /\ held[b] \in Nat
      BY <1>2, <1>8, <2>2 DEF LengthWithinTheRun
    <3>2. Copied(p) = ptr[p].num
      BY <2>0, <3>1 DEF Copied, Owns
    <3>3. Copied(q)' = num
      BY <1>7, <2>0, <3>1 DEF Copied, Owns
    <3> QED
      BY <1>3, <2>2, <3>1, <3>2, <3>3 DEF CachePtr
  <2>3. CASE r \notin {p, q}
    BY <1>4, <1>8, <2>3 DEF LengthWithinTheRun, Copied
  <2> QED
    BY <2>1, <2>2, <2>3
<1> QED
  BY <1>6, <1>9, <1>10, <1>11

(* release and reset: between the two a block has a caller for an owner.   *)
LEMMA ReleaseKeepsIInv ==
  ASSUME IInv, NEW p \in Locals, Release(p)
  PROVE  IInv'
<1> USE PointerAssumption DEF IInv, TypeOK, Pointers
<1>1. /\ p \in live /\ ptr[p] \in CachePtr /\ ptr[p].block \in Block
      /\ Null \notin Block /\ 0 \in 0 .. MaxRequest
  BY DEF Release, CachePtr, Block
<1>2. /\ ptr' = [ptr EXCEPT ![p] = Moved(p)]
      /\ raw' = raw \cup {ptr[p].block}
      /\ UNCHANGED <<held, utility, live, ring, tidy, careful>>
  BY DEF Release, bufferVars
<1>3. Moved(p) \in CachePtr /\ Moved(p).block = Null
  BY <1>1 DEF Moved, Empty, CachePtr
<1>4. TypeOK'
  BY <1>1, <1>2, <1>3
<1>5. \A r \in Pointers, b \in Block : Owns(r, b)' <=> r # p /\ Owns(r, b)
  BY <1>1, <1>2, <1>3 DEF Owns
<1>6. OneOwnerPerBlock'
  <2>1. Owns(p, ptr[p].block)
    BY <1>1 DEF Owns
  <2> QED
    BY <1>1, <1>2, <1>5, <2>1 DEF OneOwnerPerBlock
<1>7. LeaksOnlyIfCareless'
  <2> SUFFICES ASSUME careful', NEW b \in Block, held[b] > 0, b \notin raw'
               PROVE  \E r \in Pointers : Owns(r, b)'
    BY <1>2 DEF LeaksOnlyIfCareless
  <2>1. PICK r \in Pointers : Owns(r, b)
    BY <1>2 DEF LeaksOnlyIfCareless
  <2>2. r # p
    BY <1>2, <2>1 DEF Owns
  <2> QED
    BY <1>5, <2>1, <2>2
<1>8. LengthWithinTheRun'
  BY <1>2, <1>5 DEF LengthWithinTheRun, Copied, Owns
<1> QED
  BY <1>4, <1>6, <1>7, <1>8

LEMMA ResetKeepsIInv ==
  ASSUME IInv, NEW p \in Locals, NEW b \in raw \cup {Null}, NEW num \in 1 .. MaxRequest,
         Reset(p, b, num)
  PROVE  IInv'
<1> USE PointerAssumption DEF IInv, TypeOK, Pointers
<1>1. /\ p \in live /\ Null \notin Block /\ ptr[p] \in CachePtr
      /\ b # Null => num \in {1, held[b]} /\ held[b] > 0 /\ held[b] \in Nat
      /\ b # Null => b \in Block /\ b # ptr[p].block
  <2>1. Null \notin Block /\ p \in live
    BY DEF Block, Reset
  <2>2. b # Null => b \in raw /\ b \in Block /\ held[b] > 0 /\ held[b] \in Nat
    BY DEF OneOwnerPerBlock
  <2>3. b # Null => num \in {1, held[b]}
    BY DEF Reset
  <2>4. b # Null => b # ptr[p].block
    BY <2>1, <2>2 DEF OneOwnerPerBlock, Owns
  <2> QED
    BY <2>1, <2>2, <2>3, <2>4
<1>2. /\ ptr' = [ptr EXCEPT ![p].block = b, ![p].num = num]
      /\ raw' = raw \ {b}
      /\ GivesUp(p)
      /\ UNCHANGED <<utility, live, ring, tidy>>
  BY DEF Reset, bufferVars
<1>3. /\ held' \in [Block -> 0 .. MaxRequest]
      /\ careful' \in BOOLEAN
      /\ careful' => careful
      /\ \A c \in Block : c # ptr[p].block => held'[c] = held[c]
      /\ \A c \in Block : c = ptr[p].block /\ careful' => held'[c] = 0
  BY <1>1, <1>2, GivesUpOne
<1>4. /\ ptr'[p] = [ptr[p] EXCEPT !.block = b, !.num = num]
      /\ \A r \in Pointers \ {p} : ptr'[r] = ptr[r]
      /\ ptr' = [r \in Pointers |-> ptr'[r]]
  BY <1>2
<1>5. ptr'[p] \in CachePtr /\ ptr'[p].block = b /\ ptr'[p].num = num
  <2>1. b \in Block \cup {Null} /\ num \in 0 .. MaxRequest
    BY <1>1
  <2> QED
    BY <1>1, <1>4, <2>1 DEF CachePtr
<1>6. TypeOK'
  BY <1>2, <1>3, <1>4, <1>5
<1>7. \A r \in Pointers, c \in Block : Owns(r, c)' <=> IF r = p THEN c = b ELSE Owns(r, c)
  BY <1>1, <1>2, <1>4, <1>5 DEF Owns
<1>8. /\ \A r \in Pointers, c \in Block : r # p /\ Owns(r, c) => c # ptr[p].block
      /\ \A c \in raw : c # ptr[p].block
  BY <1>1 DEF OneOwnerPerBlock, Owns
<1>9. OneOwnerPerBlock'
  <2> SUFFICES ASSUME NEW c \in Block
               PROVE  /\ \A r, s \in Pointers : Owns(r, c)' /\ Owns(s, c)' => r = s
                      /\ \A r \in Pointers : Owns(r, c)' => held'[c] > 0 /\ c \notin raw'
                      /\ c \in raw' => held'[c] > 0
    BY DEF OneOwnerPerBlock
  <2>1. \A r, s \in Pointers : Owns(r, c)' /\ Owns(s, c)' => r = s
    BY <1>1, <1>7 DEF OneOwnerPerBlock
  <2>2. \A r \in Pointers : Owns(r, c)' => held'[c] > 0 /\ c \notin raw'
    BY <1>1, <1>2, <1>3, <1>7, <1>8 DEF OneOwnerPerBlock
  <2>3. c \in raw' => held'[c] > 0
    BY <1>2, <1>3, <1>8 DEF OneOwnerPerBlock
  <2> QED
    BY <2>1, <2>2, <2>3
<1>10. LeaksOnlyIfCareless'
  <2> SUFFICES ASSUME careful', NEW c \in Block, held'[c] > 0, c \notin raw'
               PROVE  \E r \in Pointers : Owns(r, c)'
    BY DEF LeaksOnlyIfCareless
  <2>1. c # ptr[p].block /\ held[c] > 0 /\ careful
    BY <1>3
  <2>2. CASE c = b
    BY <1>7, <2>2
  <2>3. CASE c # b
    <3>1. PICK r \in Pointers : Owns(r, c)
      BY <1>2, <2>1, <2>3 DEF LeaksOnlyIfCareless
    <3>2. r # p
      BY <2>1, <3>1 DEF Owns
    <3> QED
      BY <1>7, <3>1, <3>2
  <2> QED
    BY <2>2, <2>3
<1>11. LengthWithinTheRun'
  <2> SUFFICES ASSUME NEW r \in live, NEW c \in Block, Owns(r, c)'
               PROVE  Copied(r)' <= held'[c]
    BY <1>2 DEF LengthWithinTheRun
  <2>1. CASE r = p
    BY <1>1, <1>3, <1>5, <1>7, <2>1 DEF Copied
  <2>2. CASE r # p
    <3>1. Owns(r, c) /\ held'[c] = held[c] /\ ptr'[r] = ptr[r]
      BY <1>3, <1>4, <1>7, <1>8, <2>2
    <3> QED
      BY <3>1 DEF LengthWithinTheRun, Copied
  <2> QED
    BY <2>1, <2>2
<1> QED
  BY <1>6, <1>9, <1>10, <1>11

(* The rest leaves the blocks and the pointers as they are. *)
LEMMA OthersKeepIInv ==
  ASSUME IInv, WireUtility \/ BuildCache \/ RingPopFront \/ RingClear \/ UNCHANGED vars
  PROVE  IInv'
<1>1. UNCHANGED <<held, ptr, live, raw, careful>>
  BY DEF WireUtility, BuildCache, RingPopFront, RingClear, vars
<1>2. utility' \in {"none", "set", "built"} /\ tidy' \in BOOLEAN
  BY DEF IInv, TypeOK, WireUtility, BuildCache, RingPopFront, RingClear, bufferVars, vars
<1>3. ring' \in [start : Slots, end : Slots, size : 0 .. Capacity]
  <2>1. /\ ring \in [start : Slots, end : Slots, size : 0 .. Capacity]
        /\ \A i \in Slots : After(i) \in Slots
        /\ 0 \in Slots /\ Capacity \in Nat
    BY PointerAssumption DEF IInv, TypeOK, Slots, After
  <2>2. CASE RingPopFront
    <3> DEFINE num == ring.size - 1
    <3>1. num \in 0 .. Capacity
      BY <2>1, <2>2 DEF RingPopFront
    <3>2. ring' = [ring EXCEPT !.start = After(ring.start), !.size = num]
      BY <2>1, <2>2 DEF RingPopFront
    <3> HIDE DEF num
    <3> QED
      BY <2>1, <3>1, <3>2
  <2>3. CASE RingClear
    BY <2>1, <2>3 DEF RingClear
  <2>4. CASE WireUtility \/ BuildCache \/ UNCHANGED vars
    BY <2>1, <2>4 DEF WireUtility, BuildCache, bufferVars, vars
  <2> QED
    BY <2>2, <2>3, <2>4
<1>4. TypeOK'
  BY <1>1, <1>2, <1>3 DEF IInv, TypeOK
<1> QED
  BY <1>1, <1>4
     DEF IInv, OneOwnerPerBlock, LeaksOnlyIfCareless, LengthWithinTheRun, Copied, Owns

(* The inductive invariant holds in every reachable state. *)
THEOREM Invariance == Spec => []IInv
<1>1. IInv /\ [Next]_vars => IInv'
  <2> SUFFICES ASSUME IInv, [Next]_vars PROVE IInv'
    OBVIOUS
  <2>1. CASE WireUtility \/ BuildCache \/ RingPopFront \/ RingClear \/ UNCHANGED vars
    BY <2>1, OthersKeepIInv
  <2>2. ASSUME NEW p \in Locals, NEW num \in 1 .. MaxRequest, AllocNothing(p, num) \/ Alloc(p, num)
        PROVE  IInv'
    BY <2>2, NewPointer
  <2>3. ASSUME NEW p \in Locals,
               \/ Construct(p) \/ Release(p) \/ Free(p) \/ Destroy(p) \/ DelaySupply(p)
               \/ RingPush(p) \/ RingMoveFront(p)
        PROVE  IInv'
    BY <2>3, NewPointer, ReleaseKeepsIInv, LossesKeepIInv, MovesKeepIInv
  <2>4. ASSUME NEW p \in Locals, NEW b \in raw \cup {Null}, NEW num \in 1 .. MaxRequest,
               Reset(p, b, num)
        PROVE  IInv'
    BY <2>4, ResetKeepsIInv
  <2>5. ASSUME NEW p \in Locals, NEW q \in Locals,
               MoveConstruct(p, q) \/ MoveAssign(p, q) \/ Swap(p, q)
        PROVE  IInv'
    BY <2>5, MovesKeepIInv, SwapKeepsIInv
  <2> QED
    BY <2>1, <2>2, <2>3, <2>4, <2>5 DEF Next
<1> QED
  BY InitIInv, <1>1, PTL DEF Spec

(* No block has two owners, and an owner's block is held: nothing is freed *)
(* twice or used after it was freed (cache_ptr.cpp lines 33-67, 75-140).   *)
THEOREM BlocksHaveOneOwner == Spec => []OneOwnerPerBlock
<1>1. IInv => OneOwnerPerBlock
  BY DEF IInv
<1> QED
  BY <1>1, Invariance, PTL

(* A block is only lost by an assignment to a pointer that has one, by a   *)
(* pointer without a cache, or in the delay buffer (cache_ptr.cpp line     *)
(* 115, delay.cpp line 54).                                                *)
THEOREM LeaksAreCareless == Spec => []LeaksOnlyIfCareless
<1>1. IInv => LeaksOnlyIfCareless
  BY DEF IInv
<1> QED
  BY <1>1, Invariance, PTL

(* copy_to never reads behind the block, in whatever order swap and reset  *)
(* leave the lengths (cache_ptr.cpp lines 97-108).                         *)
THEOREM LengthsStayWithin == Spec => []LengthWithinTheRun
<1>1. IInv => LengthWithinTheRun
  BY DEF IInv
<1> QED
  BY <1>1, Invariance, PTL

-----------------------------------------------------------------------------
(* The circular buffer: its items lie between m_start and m_end. *)
Ring == [start : Slots, end : Slots, size : 0 .. Capacity]

RingInv ==
  tidy => /\ ring.end = (ring.start + ring.size) % Capacity
          /\ \A i \in Slots \ Occupied : ptr[i].block = Null

(* The slot of the item that comes k after the one in slot i. *)
SlotAt(i, k) == IF i + k < Capacity THEN i + k ELSE i + k - Capacity

Items(r) == {SlotAt(r.start, k) : k \in 0 .. r.size - 1}

(* An index is reduced modulo the capacity after it went around once.      *)
LEMMA Around ==
  ASSUME NEW i \in Slots, NEW k \in 0 .. Capacity
  PROVE  (i + k) % Capacity = SlotAt(i, k)
<1> USE PointerAssumption DEF Slots, SlotAt
<1>1. CASE i + k < Capacity
  BY <1>1
<1>2. CASE ~(i + k < Capacity)
  <2>1. i + k \in Capacity .. 2 * Capacity - 1
    BY <1>2
  <2>2. (i + k) % Capacity = i + k - Capacity
    BY <2>1
  <2> QED
    BY <1>2, <2>2
<1> QED
  BY <1>1, <1>2

LEMMA AroundNext == ASSUME NEW i \in Slots PROVE After(i) = SlotAt(i, 1)
<1>1. 1 \in 0 .. Capacity
  BY PointerAssumption
<1> QED
  BY <1>1, Around DEF After

LEMMA OccupiedIsItems ==
  ASSUME NEW r \in Ring
  PROVE  {(r.start + k) % Capacity : k \in 0 .. r.size - 1} = Items(r)
<1>1. r.start \in Slots /\ r.size \in 0 .. Capacity
  BY DEF Ring
<1>2. \A k \in 0 .. r.size - 1 : (r.start + k) % Capacity = SlotAt(r.start, k)
  <2>1. \A k \in 0 .. r.size - 1 : k \in 0 .. Capacity
    BY <1>1, PointerAssumption
  <2> QED
    BY <1>1, <2>1, Around
<1> QED
  BY <1>2 DEF Items

(* When the first item is taken the others stay. *)
LEMMA WithoutFirst ==
  ASSUME NEW r \in Ring, NEW s \in Ring, r.size > 0,
         s.start = After(r.start), s.size = r.size - 1
  PROVE  /\ Items(r) \subseteq Items(s) \cup {r.start}
         /\ SlotAt(s.start, s.size) = SlotAt(r.start, r.size)
<1> USE PointerAssumption
<1>1. /\ r.start \in 0 .. Capacity - 1 /\ r.size \in 1 .. Capacity
      /\ s.start = SlotAt(r.start, 1)
  BY AroundNext DEF Ring, Slots
<1>2. \A k \in 1 .. r.size : SlotAt(r.start, k) = SlotAt(s.start, k - 1)
  BY <1>1 DEF SlotAt
<1>3. SlotAt(r.start, 0) = r.start
  BY <1>1 DEF SlotAt
<1>4. ASSUME NEW k \in 0 .. r.size - 1
      PROVE  SlotAt(r.start, k) \in Items(s) \cup {r.start}
  <2>1. CASE k = 0
    BY <2>1, <1>3
  <2>2. CASE k # 0
    <3>1. k \in 1 .. r.size /\ k - 1 \in 0 .. s.size - 1
      BY <2>2, <1>1
    <3> QED
      BY <3>1, <1>2 DEF Items
  <2> QED
    BY <2>1, <2>2
<1>5. r.size \in 1 .. r.size
  BY <1>1
<1> QED
  BY <1>2, <1>4, <1>5 DEF Items

(* A push writes to the slot behind the items. *)
LEMMA PushKeepsRing ==
  ASSUME IInv, IInv', RingInv, NEW p \in Locals, RingPush(p)
  PROVE  RingInv'
<1> USE PointerAssumption
<1> SUFFICES ASSUME tidy'
             PROVE  /\ ring'.end = (ring'.start + ring'.size) % Capacity
                    /\ \A i \in Slots \ Occupied' : ptr'[i].block = Null
  BY DEF RingInv
<1>1. /\ tidy /\ ring.size < Capacity /\ ring \in Ring /\ ring' \in Ring
      /\ ptr \in [Pointers -> CachePtr] /\ p \notin Slots
  BY DEF RingPush, IInv, TypeOK, Ring
<1>2. /\ ring'.start = ring.start /\ ring'.end = After(ring.end)
      /\ ring'.size = ring.size + 1
  BY <1>1 DEF RingPush, Ring
<1>3. ring.start \in Slots /\ ring.end \in Slots /\ ring.size \in 0 .. Capacity
  BY <1>1 DEF Ring
<1>4. ring.end = SlotAt(ring.start, ring.size)
  BY <1>1, <1>3, Around DEF RingInv
<1>5. ring'.end = (ring'.start + ring'.size) % Capacity
  <2>1. After(ring.end) = SlotAt(ring.start, ring.size + 1)
    <3>1. After(ring.end) = SlotAt(ring.end, 1)
      BY <1>3, AroundNext
    <3> QED
      BY <3>1, <1>1, <1>3, <1>4 DEF SlotAt, Slots
  <2>2. ring.size + 1 \in 0 .. Capacity
    BY <1>1, <1>3
  <2> QED
    BY <1>2, <1>3, <2>1, <2>2, Around
<1>6. Items(ring) \cup {ring.end} \subseteq Items(ring')
  BY <1>2, <1>3, <1>4 DEF Items
<1>7. \A i \in Slots : i # ring.end => ptr'[i] = ptr[i]
  BY <1>1, <1>3 DEF RingPush, Pointers
<1>8. Occupied = Items(ring) /\ Occupied' = Items(ring')
  BY <1>1, OccupiedIsItems DEF Occupied
<1>9. \A i \in Slots \ Items(ring) : ptr[i].block = Null
  BY <1>1, <1>8 DEF RingInv
<1>10. ASSUME NEW i \in Slots \ Items(ring')
       PROVE  ptr'[i].block = Null
  BY <1>6, <1>7, <1>9, <1>10
<1> QED
  BY <1>5, <1>8, <1>10

(* move_front takes the first item with its block, pop_front leaves the    *)
(* block in the slot: that it was empty is what tidy asks for.             *)
LEMMA PopKeepsRing ==
  ASSUME IInv, IInv', RingInv, RingPopFront \/ \E p \in Locals : RingMoveFront(p)
  PROVE  RingInv'
<1> USE PointerAssumption
<1> SUFFICES ASSUME tidy'
             PROVE  /\ ring'.end = (ring'.start + ring'.size) % Capacity
                    /\ \A i \in Slots \ Occupied' : ptr'[i].block = Null
  BY DEF RingInv
<1>1. /\ tidy /\ ring.size > 0 /\ ring \in Ring /\ ring' \in Ring
      /\ ptr \in [Pointers -> CachePtr]
  BY DEF RingPopFront, RingMoveFront, IInv, TypeOK, Ring
<1>2. /\ ring'.start = After(ring.start) /\ ring'.end = ring.end
      /\ ring'.size = ring.size - 1
  BY <1>1 DEF RingPopFront, RingMoveFront, Ring
<1>3. /\ Items(ring) \subseteq Items(ring') \cup {ring.start}
      /\ SlotAt(ring'.start, ring'.size) = SlotAt(ring.start, ring.size)
  BY <1>1, <1>2, WithoutFirst
<1>4. ring'.end = (ring'.start + ring'.size) % Capacity
  <2>1. /\ ring.start \in Slots /\ ring.size \in 0 .. Capacity
        /\ ring'.start \in Slots /\ ring'.size \in 0 .. Capacity
    BY <1>1 DEF Ring
  <2> QED
    BY <1>1, <1>2, <1>3, <2>1, Around DEF RingInv
<1>5. ptr'[ring.start].block = Null /\ \A i \in Slots : i # ring.start => ptr'[i] = ptr[i]
  <2>1. ring.start \in Slots
    BY <1>1 DEF Ring
  <2>2. CASE RingPopFront
    BY <2>2 DEF RingPopFront
  <2>3. ASSUME NEW p \in Locals, RingMoveFront(p)
        PROVE  /\ ptr'[ring.start].block = Null
               /\ \A i \in Slots : i # ring.start => ptr'[i] = ptr[i]
    BY <2>1, <2>3, <1>1 DEF RingMoveFront, Pointers, Moved, Empty
  <2> QED
    BY <2>2, <2>3
<1>6. Occupied = Items(ring) /\ Occupied' = Items(ring')
  BY <1>1, OccupiedIsItems DEF Occupied
<1>7. \A i \in Slots \ Items(ring) : ptr[i].block = Null
  BY <1>1, <1>6 DEF RingInv
<1>8. ASSUME NEW i \in Slots \ Items(ring')
      PROVE  ptr'[i].block = Null
  BY <1>3, <1>5, <1>7, <1>8
<1> QED
  BY <1>4, <1>6, <1>8

(* A slot is only reached through the circular buffer. *)
LEMMA OthersKeepRing ==
  ASSUME IInv, RingInv, UNCHANGED bufferVars,
         \A i \in Slots : ptr'[i] = ptr[i]
  PROVE  RingInv'
BY DEF RingInv, bufferVars, Occupied

LEMMA NextKeepsRing == IInv /\ IInv' /\ RingInv /\ [Next]_vars => RingInv'
<1> SUFFICES ASSUME IInv, IInv', RingInv, [Next]_vars PROVE RingInv'
  OBVIOUS
<1> USE PointerAssumption
<1>0. /\ ptr \in [Pointers -> CachePtr] /\ Slots \subseteq Pointers
      /\ \A p \in Locals : p \notin Slots
  BY DEF IInv, TypeOK, Pointers
<1>1. CASE WireUtility \/ BuildCache \/ UNCHANGED vars
  BY <1>1, OthersKeepRing DEF WireUtility, BuildCache, vars
<1>2. ASSUME NEW p \in Locals, NEW num \in 1 .. MaxRequest, AllocNothing(p, num) \/ Alloc(p, num)
      PROVE  RingInv'
  BY <1>0, <1>2, OthersKeepRing DEF AllocNothing, Alloc
<1>3. ASSUME NEW p \in Locals,
             Construct(p) \/ Release(p) \/ Free(p) \/ Destroy(p) \/ DelaySupply(p)
      PROVE  RingInv'
  BY <1>0, <1>3, OthersKeepRing DEF Construct, Release, Free, Destroy, DelaySupply
<1>4. ASSUME NEW p \in Locals, NEW b \in raw \cup {Null}, NEW num \in 1 .. MaxRequest,
             Reset(p, b, num)
      PROVE  RingInv'
  BY <1>0, <1>4, OthersKeepRing DEF Reset
<1>5. ASSUME NEW p \in Locals, NEW q \in Locals,
             MoveConstruct(p, q) \/ MoveAssign(p, q) \/ Swap(p, q)
      PROVE  RingInv'
  BY <1>0, <1>5, OthersKeepRing DEF MoveConstruct, MoveAssign, Swap
<1>6. ASSUME NEW p \in Locals, RingPush(p)
      PROVE  RingInv'
  BY <1>6, PushKeepsRing
<1>7. CASE RingPopFront \/ \E p \in Locals : RingMoveFront(p)
  BY <1>7, PopKeepsRing
<1>8. CASE RingClear
  <2>1. ring'.end = (ring'.start + ring'.size) % Capacity
    <3>1. ring'.start + ring'.size = 0 /\ ring'.end = 0
      BY <1>8 DEF RingClear
    <3>2. 0 % Capacity = 0
      OBVIOUS
    <3> QED
      BY <3>1, <3>2
  <2>2. tidy' => \A i \in Slots : ptr'[i].block = Null
    BY <1>8 DEF RingClear
  <2> QED
    BY <2>1, <2>2 DEF RingInv
<1>9. CASE \E p \in Locals : \/ Construct(p) \/ Release(p) \/ Free(p) \/ Destroy(p)
                             \/ DelaySupply(p) \/ RingPush(p) \/ RingMoveFront(p)
  BY <1>9, <1>3, <1>6, <1>7
<1>10. CASE \E p \in Locals : \E b \in raw \cup {Null} : \E num \in 1 .. MaxRequest :
               Reset(p, b, num)
  BY <1>10, <1>4
<1>11. CASE \E p \in Locals : \E q \in Locals :
               MoveConstruct(p, q) \/ MoveAssign(p, q) \/ Swap(p, q)
  BY <1>11, <1>5
<1>12. CASE \E p \in Locals : \E num \in 1 .. MaxRequest : AllocNothing(p, num) \/ Alloc(p, num)
  BY <1>12, <1>2
<1> QED
  BY <1>1, <1>7, <1>8, <1>9, <1>10, <1>11, <1>12, ZenonT(60) DEF Next

(* If blocks only leave the circular buffer by being moved out and a full  *)
(* one is never pushed into, each push (circular.hpp line 98) falls on an  *)
(* empty slot, for any capacity.                                           *)
THEOREM PushesFallOnEmptySlots == Spec => []FreeSlotsAreEmpty
<1>1. Init => RingInv
  <2> SUFFICES ASSUME Init PROVE RingInv
    OBVIOUS
  <2>1. 0 % Capacity = 0
    BY PointerAssumption
  <2> QED
    BY <2>1, PointerAssumption DEF Init, RingInv, Empty, Pointers
<1>2. RingInv => FreeSlotsAreEmpty
  BY DEF RingInv, FreeSlotsAreEmpty
<1> QED
  BY <1>1, <1>2, Invariance, NextKeepsRing, PTL DEF Spec

=============================================================================
