--------------------------- MODULE CircularProofs ---------------------------
(***************************************************************************)
(* Theorems about module Circular, for every capacity, word size and set   *)
(* of items: as long as its callers do what the buffer can follow, it is a *)
(* bounded queue, and `at' reads the items of that queue that do not wrap  *)
(* around.  First what is needed about remainders.                         *)
(***************************************************************************)
EXTENDS Circular, TLAPS

(* A remainder, and the only number that can be one. *)
LEMMA Remainder ==
  ASSUME NEW C \in Nat \ {0}, NEW x \in Int
  PROVE  /\ x % C \in 0 .. C - 1
         /\ \E q \in Int : x = q * C + (x % C)
<1>1. x % C \in 0 .. C - 1
  OBVIOUS
<1>2. (x \div C) \in Int /\ x = (x \div C) * C + (x % C)
  OBVIOUS
<1> QED
  BY <1>1, <1>2

LEMMA OnlyRemainder ==
  ASSUME NEW C \in Nat \ {0}, NEW q \in Int, NEW r \in 0 .. C - 1
  PROVE  (q * C + r) % C = r
OBVIOUS

LEMMA SmallRemainder ==
  ASSUME NEW C \in Nat \ {0}, NEW r \in 0 .. C - 1
  PROVE  r % C = r
OBVIOUS

(* Remainders may be taken on the way. *)
LEMMA RemainderOfSum ==
  ASSUME NEW C \in Nat \ {0}, NEW x \in Int, NEW y \in Int
  PROVE  ((x % C) + y) % C = (x + y) % C
<1> DEFINE r == ((x % C) + y) % C
<1>1. PICK q \in Int : x = q * C + (x % C)
  BY Remainder
<1>2. (x % C) + y \in Int
  OBVIOUS
<1>3. PICK p \in Int : (x % C) + y = p * C + r
  <2> DEFINE z == (x % C) + y
  <2>1. z \in Int
    BY <1>2
  <2> HIDE DEF z
  <2>2. \E p \in Int : z = p * C + (z % C)
    BY <2>1, Remainder
  <2> QED
    BY <2>2 DEF z
<1>4. r \in 0 .. C - 1
  BY <1>2, Remainder
<1> HIDE DEF r
<1>5. (q + p) * C = q * C + p * C
  OBVIOUS
<1>6. x + y = (q + p) * C + r /\ q + p \in Int
  BY <1>1, <1>2, <1>3, <1>4, <1>5
<1>7. ((q + p) * C + r) % C = r
  BY <1>4, <1>6, OnlyRemainder
<1> QED
  BY <1>6, <1>7 DEF r

LEMMA OnceAround ==
  ASSUME NEW C \in Nat \ {0}, NEW x \in Int
  PROVE  (x + C) % C = x % C
<1>1. PICK q \in Int : x = q * C + (x % C)
  BY Remainder
<1>2. x % C \in 0 .. C - 1
  BY Remainder
<1>3. (q + 1) * C = q * C + C
  OBVIOUS
<1>4. x + C = (q + 1) * C + (x % C) /\ q + 1 \in Int
  BY <1>1, <1>2, <1>3
<1>5. ((q + 1) * C + (x % C)) % C = x % C
  BY <1>2, <1>4, OnlyRemainder
<1> QED
  BY <1>4, <1>5

(* Among C successive numbers no two have the same remainder. *)
LEMMA RemainderIsOnce ==
  ASSUME NEW C \in Nat \ {0}, NEW x \in Int, NEW y \in Int,
         x < y, y < x + C
  PROVE  x % C # y % C
<1> SUFFICES ASSUME x % C = y % C PROVE FALSE
  OBVIOUS
<1>1. PICK q \in Int : x = q * C + (x % C)
  BY Remainder
<1>2. PICK p \in Int : y = p * C + (y % C)
  BY Remainder
<1>3. x % C \in Int
  OBVIOUS
<1>4. y - x = p * C - q * C /\ p * C \in Int /\ q * C \in Int
  BY <1>1, <1>2, <1>3
<1>5. (p - q) * C = p * C - q * C
  OBVIOUS
<1>6. (p - q) * C \in 1 .. C - 1
  BY <1>4, <1>5
<1>7. CASE p - q <= 0
  BY <1>6, <1>7
<1>8. CASE p - q >= 1
  BY <1>6, <1>8
<1> QED
  BY <1>7, <1>8

(* Of the numbers that fall on a slot, one is among the last C. *)
LEMMA LastOnSlot ==
  ASSUME NEW C \in Nat \ {0}, NEW e \in Int, NEW n \in Nat, NEW j \in 0 .. C - 1,
         NEW i \in 1 .. n, (e + i - 1) % C = j
  PROVE  \E m \in 1 .. n : (e + m - 1) % C = j /\ m + C > n
<1> DEFINE d == (e + n - 1 - j) % C
           m == n - d
<1>1. d \in 0 .. C - 1 /\ \E q \in Int : e + n - 1 - j = q * C + d
  <2>1. e + n - 1 - j \in Int
    OBVIOUS
  <2> QED
    BY <2>1, Remainder
<1> HIDE DEF d
<1>2. PICK q \in Int : e + n - 1 - j = q * C + d
  BY <1>1
<1>3. e + m - 1 = q * C + j /\ m \in Int /\ m + C > n /\ m <= n
  BY <1>1, <1>2
<1>4. (e + m - 1) % C = j
  <2>1. (q * C + j) % C = j
    BY OnlyRemainder
  <2> QED
    BY <1>3, <2>1
<1>5. m >= 1
  <2> SUFFICES ASSUME m < 1 PROVE FALSE
    BY <1>3
  <2> HIDE DEF m
  <2>1. e + m - 1 \in Int /\ e + i - 1 \in Int
    BY <1>3
  <2>2. e + m - 1 < e + i - 1 /\ e + i - 1 < e + m - 1 + C
    BY <1>3
  <2>3. (e + m - 1) % C # (e + i - 1) % C
    BY <2>1, <2>2, RemainderIsOnce
  <2> QED
    BY <1>4, <2>3
<1>6. m \in 1 .. n
  BY <1>3, <1>5
<1> HIDE DEF m
<1> QED
  BY <1>3, <1>4, <1>6

-----------------------------------------------------------------------------
(* A buffer that was never given slots has nothing in it. *)
NoSlotsNoItems == capacity = 0 => start = 0 /\ end = 0 /\ size = 0

(* m_end is where the items from m_start on end, unless it is full. *)
EndFollows == sound /\ size < capacity => end = (start + size) % capacity

IInv == TypeOK /\ NoSlotsNoItems /\ EndFollows /\ HoldsTheNewest /\ GivesWhatIsDue

(* push: the slots that it writes, and what to. *)
LEMMA WrittenOnce ==
  ASSUME TypeOK, capacity > 0, NEW items \in Seq(Item), NEW m \in 1 .. Len(items),
         m + capacity > Len(items)
  PROVE  LET j == (end + m - 1) % capacity IN
         j \in Slot /\ Written(items)[j] = items[m]
<1> DEFINE j == (end + m - 1) % capacity
<1>1. /\ capacity \in Nat \ {0} /\ end \in Int /\ Len(items) \in Nat
      /\ DOMAIN items = 1 .. Len(items)
  BY CircularAssumption DEF TypeOK
<1>2. j \in Slot
  BY <1>1 DEF Slot
<1>3. ASSUME NEW i \in DOMAIN items, (end + i - 1) % capacity = j, i + capacity > Len(items)
      PROVE  i = m
  <2> HIDE DEF j
  <2>0. i \in 1 .. Len(items) /\ i + capacity > Len(items)
    BY <1>1, <1>3
  <2>1. /\ end + i - 1 \in Int /\ end + m - 1 \in Int
        /\ i < m => end + i - 1 < end + m - 1 /\ end + m - 1 < end + i - 1 + capacity
        /\ m < i => end + m - 1 < end + i - 1 /\ end + i - 1 < end + m - 1 + capacity
    BY <1>1, <2>0
  <2> USE DEF j
  <2>2. ~(i < m) /\ ~(m < i)
    BY <1>1, <1>3, <2>1, RemainderIsOnce
  <2> QED
    BY <1>1, <2>2
<1>4. m \in DOMAIN items /\ (end + m - 1) % capacity = j
  BY <1>1
<1> HIDE DEF j
<1>5. (CHOOSE i \in DOMAIN items : (end + i - 1) % capacity = j /\ i + capacity > Len(items)) = m
  BY <1>3, <1>4
<1> QED
  BY <1>2, <1>4, <1>5 DEF Written, j

LEMMA NotWritten ==
  ASSUME NEW items, NEW j \in Slot, \A i \in DOMAIN items : (end + i - 1) % capacity # j
  PROVE  Written(items)[j] = slots[j]
BY DEF Written

LEMMA WrittenIsTyped ==
  ASSUME TypeOK, capacity > 0, NEW items \in Seq(Item)
  PROVE  Written(items) \in [Slot -> Item \cup {Junk}]
<1>1. /\ capacity \in Nat \ {0} /\ end \in Int /\ Len(items) \in Nat
      /\ DOMAIN items = 1 .. Len(items)
  BY CircularAssumption DEF TypeOK
<1>2. ASSUME NEW j \in Slot
      PROVE  Written(items)[j] \in Item \cup {Junk}
  <2>1. CASE \E i \in DOMAIN items : (end + i - 1) % capacity = j
    <3>1. PICK m \in 1 .. Len(items) : (end + m - 1) % capacity = j /\ m + capacity > Len(items)
      BY <1>1, <2>1, LastOnSlot DEF Slot
    <3>2. Written(items)[j] = items[m]
      BY <3>1, WrittenOnce
    <3> QED
      BY <1>1, <3>2
  <2>2. CASE ~ \E i \in DOMAIN items : (end + i - 1) % capacity = j
    BY <2>2, NotWritten DEF TypeOK
  <2> QED
    BY <2>1, <2>2
<1>3. Written(items) = [j \in Slot |-> Written(items)[j]]
  BY DEF Written
<1> QED
  BY <1>2, <1>3

(* The numbers that m_size goes through. *)
LEMMA CountedIsTyped ==
  ASSUME TypeOK, NEW n \in 0 .. MaxMany
  PROVE  Counted(n) \in 0 .. Word - 1
BY CircularAssumption DEF TypeOK, Counted

LEMMA CountedUpTo ==
  ASSUME TypeOK, size <= capacity, NEW n \in 0 .. MaxMany
  PROVE  Counted(n) = IF size + n <= capacity THEN size + n ELSE capacity
BY CircularAssumption DEF TypeOK, Counted

LEMMA ManyIsTyped ==
  ASSUME NEW items \in Many
  PROVE  items \in Seq(Item) /\ Len(items) \in 0 .. MaxMany
<1>1. PICK n \in 0 .. MaxMany : items \in [1 .. n -> Item]
  BY DEF Many
<1>2. n \in Nat
  BY CircularAssumption
<1> QED
  BY <1>1, <1>2

LEMMA Newer ==
  ASSUME NEW S, NEW s \in Seq(S), NEW n \in Nat
  PROVE  /\ Newest(s, n) \in Seq(S)
         /\ Len(Newest(s, n)) = IF Len(s) <= n THEN Len(s) ELSE n
         /\ \A k \in 1 .. Len(Newest(s, n)) :
              Newest(s, n)[k] = s[Len(s) - Len(Newest(s, n)) + k]
<1>1. CASE Len(s) <= n
  BY <1>1 DEF Newest
<1>2. CASE ~(Len(s) <= n)
  <2>1. /\ Newest(s, n) = SubSeq(s, Len(s) - n + 1, Len(s))
        /\ Len(s) - n + 1 \in 1 .. Len(s) + 1 /\ Len(s) \in Nat
    BY <1>2 DEF Newest
  <2>2. /\ SubSeq(s, Len(s) - n + 1, Len(s)) \in Seq(S)
        /\ Len(SubSeq(s, Len(s) - n + 1, Len(s))) = n
        /\ \A k \in 1 .. n : SubSeq(s, Len(s) - n + 1, Len(s))[k] = s[Len(s) - n + k]
    BY <2>1
  <2> QED
    BY <1>2, <2>1, <2>2
<1> QED
  BY <1>1, <1>2

LEMMA InitTypeOK == Init => TypeOK
<1> SUFFICES ASSUME Init PROVE TypeOK
  OBVIOUS
<1>1. /\ capacity \in 0 .. MaxCap /\ start \in 0 .. MaxCap - 1 /\ end \in 0 .. MaxCap - 1
      /\ size \in 0 .. Word - 1
  BY CircularAssumption DEF Init
<1>2. slots \in [Slot -> Item \cup {Junk}]
  BY DEF Init, Slot
<1> QED
  BY <1>1, <1>2 DEF Init, TypeOK

LEMMA TakeOutTypeOK ==
  ASSUME TypeOK, capacity > 0, NEW n \in Nat, TakeOut(n)
  PROVE  TypeOK'
<1>1. /\ capacity \in Nat \ {0} /\ capacity <= MaxCap /\ start \in Int /\ size \in Int
      /\ Word \in Nat \ {0}
  BY CircularAssumption DEF TypeOK
<1>2. start' \in 0 .. capacity - 1
  <2>1. start + n \in Int
    BY <1>1
  <2> QED
    BY <1>1, <2>1, Remainder DEF TakeOut
<1>3. size' \in 0 .. Word - 1
  <2>1. size - n \in Int
    BY <1>1
  <2> QED
    BY <1>1, <2>1, Remainder DEF TakeOut
<1>4. got' \in Seq(Item \cup {Junk})
  <2>1. ASSUME NEW i \in 1 .. n
        PROVE  slots[(start + i - 1) % capacity] \in Item \cup {Junk}
    <3>1. start + i - 1 \in Int
      BY <1>1
    <3>2. (start + i - 1) % capacity \in Slot
      BY <1>1, <3>1, Remainder DEF Slot
    <3> QED
      BY <3>2 DEF TypeOK
  <2> QED
    BY <2>1 DEF TakeOut
<1>5. queue' \in Seq(Item) /\ due' \in Seq(Item)
  <2>1. queue \in Seq(Item) /\ Len(queue) \in Nat
    BY DEF TypeOK
  <2>2. SubSeq(queue, n + 1, Len(queue)) \in Seq(Item)
    BY <2>1
  <2>3. n <= Len(queue) => SubSeq(queue, 1, n) \in Seq(Item)
    BY <2>1
  <2> QED
    BY <2>2, <2>3 DEF TakeOut
<1>6. Slot' = Slot /\ Slot = 0 .. capacity - 1 /\ UNCHANGED <<capacity, end, slots>>
  BY DEF TakeOut, Slot
<1>7. start' \in 0 .. MaxCap - 1 /\ start' \in Slot'
  BY <1>1, <1>2, <1>6, CircularAssumption
<1>8. sound' \in BOOLEAN
  BY DEF TakeOut, TypeOK
<1> QED
  BY <1>3, <1>4, <1>5, <1>6, <1>7, <1>8 DEF TypeOK

LEMMA PushTypeOK ==
  ASSUME TypeOK, NEW items \in Many, Push(items)
  PROVE  TypeOK'
<1>1. items \in Seq(Item) /\ Len(items) \in 0 .. MaxMany
  BY ManyIsTyped
<1>2. capacity \in Nat \ {0} /\ capacity <= MaxCap /\ end + Len(items) \in Int
  BY <1>1, CircularAssumption DEF TypeOK, Push
<1>3. end' \in 0 .. capacity - 1
  BY <1>2, Remainder DEF Push
<1>4. slots' \in [Slot -> Item \cup {Junk}]
  BY <1>1, <1>2, WrittenIsTyped DEF Push
<1>5. size' \in 0 .. Word - 1
  BY <1>1, CountedIsTyped DEF Push
<1>6. queue' \in Seq(Item)
  <2>1. queue \o items \in Seq(Item)
    BY <1>1 DEF TypeOK
  <2> QED
    BY <1>2, <2>1, Newer DEF Push
<1>7. Slot' = Slot /\ Slot = 0 .. capacity - 1 /\ UNCHANGED <<capacity, start, sound>> /\ got' = <<>> /\ due' = <<>>
  BY DEF Push, Slot
<1>8. end' \in 0 .. MaxCap - 1 /\ end' \in Slot'
  BY <1>2, <1>3, <1>7, CircularAssumption
<1> QED
  BY <1>4, <1>5, <1>6, <1>7, <1>8 DEF TypeOK

LEMMA NextTypeOK == TypeOK /\ NoSlotsNoItems /\ [Next]_vars => TypeOK'
<1> SUFFICES ASSUME TypeOK, NoSlotsNoItems, [Next]_vars PROVE TypeOK'
  OBVIOUS
<1>1. ASSUME NEW n \in 1 .. MaxCap, Reserve(n)
      PROVE  TypeOK'
  <2>1. Copied(n) \in [0 .. n - 1 -> Item \cup {Junk}]
    <3>1. capacity \in Nat
      BY DEF TypeOK
    <3>2. \A j \in 0 .. n - 1 : j < size /\ j < capacity => slots[j] \in Item \cup {Junk}
      BY <3>1 DEF TypeOK, Slot
    <3> QED
      BY <3>2 DEF Copied
  <2>2. start \in 0 .. n - 1 /\ end \in 0 .. n - 1
    BY <1>1, CircularAssumption DEF Reserve, TypeOK, Slot, NoSlotsNoItems
  <2>3. Slot' = 0 .. n - 1 /\ capacity' \in 0 .. MaxCap
    BY <1>1, CircularAssumption DEF Reserve, Slot
  <2>4. slots' \in [Slot' -> Item \cup {Junk}] /\ start' \in Slot' /\ end' \in Slot'
    BY <1>1, <2>1, <2>2, <2>3 DEF Reserve
  <2>5. /\ UNCHANGED <<start, end, size, queue>> /\ got' = <<>> /\ due' = <<>>
        /\ sound' \in BOOLEAN
    BY <1>1 DEF Reserve, TypeOK
  <2> QED
    BY <2>3, <2>4, <2>5 DEF TypeOK
<1>2. ASSUME NEW items \in Many, Push(items)
      PROVE  TypeOK'
  BY <1>2, PushTypeOK
<1>3. CASE MoveFront \/ PopFront
  BY <1>3, TakeOutTypeOK DEF MoveFront, PopFront
<1>4. ASSUME NEW count \in 0 .. MaxMany, PopMany(count)
      PROVE  TypeOK'
  BY <1>4, TakeOutTypeOK, CircularAssumption DEF PopMany
<1>5. CASE PopEmpty \/ UNCHANGED vars
  <2>1. /\ UNCHANGED <<capacity, start, end, size, slots, queue, sound>>
        /\ \/ got' = got /\ due' = due
           \/ got' = <<>> /\ due' = <<>>
    BY <1>5 DEF PopEmpty, vars
  <2>2. got' \in Seq(Item \cup {Junk}) /\ due' \in Seq(Item)
    <3>1. got \in Seq(Item \cup {Junk}) /\ due \in Seq(Item)
      BY DEF TypeOK
    <3>2. <<>> \in Seq(Item \cup {Junk}) /\ <<>> \in Seq(Item)
      OBVIOUS
    <3> QED
      BY <2>1, <3>1, <3>2, Zenon
  <2>3. Slot' = Slot
    BY <2>1 DEF Slot
  <2> QED
    BY <2>1, <2>2, <2>3, ZenonT(30) DEF TypeOK
<1>6. CASE Clear
  <2>1. /\ start' \in 0 .. MaxCap - 1 /\ end' \in 0 .. MaxCap - 1 /\ size' \in 0 .. Word - 1
        /\ capacity > 0 => start' \in Slot /\ end' \in Slot
    BY <1>6, CircularAssumption DEF Clear, TypeOK, Slot
  <2>2. Slot' = Slot /\ UNCHANGED <<capacity, slots>>
    BY <1>6 DEF Clear, Slot
  <2> QED
    BY <1>6, <2>1, <2>2 DEF Clear, TypeOK
<1> QED
  BY <1>1, <1>2, <1>3, <1>4, <1>5, <1>6 DEF Next

-----------------------------------------------------------------------------
(* The slot of an item, counted from m_end and counted from m_start.       *)
LEMMA CountedFromStart ==
  ASSUME IInv, sound, capacity > 0, size < capacity \/ start = end, NEW k \in 1 .. size
  PROVE  SlotOf(k) = (start + k - 1) % capacity
<1>1. /\ capacity \in Nat \ {0} /\ start \in 0 .. capacity - 1 /\ size \in 0 .. capacity
      /\ end \in 0 .. capacity - 1
  BY DEF IInv, TypeOK, Slot, HoldsTheNewest
<1>2. end = (start + size) % capacity
  <2>1. CASE size < capacity
    BY <2>1 DEF IInv, EndFollows
  <2>2. CASE ~(size < capacity)
    <3>1. start = end /\ size = capacity
      BY <1>1, <2>2
    <3>2. (start + capacity) % capacity = start
      <4>1. start \in Int /\ start % capacity = start
        BY <1>1, SmallRemainder
      <4> QED
        BY <1>1, <4>1, OnceAround
    <3> QED
      BY <3>1, <3>2
  <2> QED
    BY <2>1, <2>2
<1>3. start + size \in Int /\ capacity - size + k - 1 \in Int /\ start + k - 1 \in Int
  BY <1>1
<1>4. (end + (capacity - size + k - 1)) % capacity
         = ((start + size) + (capacity - size + k - 1)) % capacity
  BY <1>1, <1>2, <1>3, RemainderOfSum
<1>5. (start + size) + (capacity - size + k - 1) = (start + k - 1) + capacity
  BY <1>1
<1>6. end + (capacity - size + k - 1) = end + capacity - size + k - 1
  BY <1>1
<1>7. ((start + k - 1) + capacity) % capacity = (start + k - 1) % capacity
  BY <1>1, <1>3, OnceAround
<1> QED
  BY <1>4, <1>5, <1>6, <1>7 DEF SlotOf

(* reserve keeps the queue if its items lie at the front of the slots. *)
LEMMA ReserveKeepsIInv ==
  ASSUME IInv, TypeOK', NEW n \in 1 .. MaxCap, Reserve(n)
  PROVE  IInv'
<1>1. /\ n \in Nat \ {0} /\ n > capacity /\ capacity' = n /\ capacity \in Nat
      /\ UNCHANGED <<start, end, size, queue>> /\ slots' = Copied(n) /\ got' = <<>>
      /\ start \in Int /\ size \in Nat
  BY CircularAssumption DEF Reserve, IInv, TypeOK
<1>2. NoSlotsNoItems' /\ GivesWhatIsDue'
  BY <1>1 DEF NoSlotsNoItems, GivesWhatIsDue
<1>3. SUFFICES ASSUME sound'
               PROVE  (HoldsTheNewest /\ EndFollows)'
  BY <1>2 DEF IInv, HoldsTheNewest, EndFollows
<1>4. /\ sound /\ (size = 0 \/ (start = 0 /\ end = size))
      /\ size = Len(queue) /\ size <= capacity
      /\ \A k \in 1 .. size : slots[SlotOf(k)] = queue[k]
  BY <1>3 DEF Reserve, IInv, HoldsTheNewest
<1>5. end = start + size /\ start + size \in 0 .. n - 1
  <2>1. CASE capacity = 0
    BY <1>1, <2>1 DEF IInv, NoSlotsNoItems
  <2>2. CASE capacity # 0
    <3>1. start \in 0 .. capacity - 1
      BY <2>2, <1>1 DEF IInv, TypeOK, Slot
    <3>2. CASE size = 0
      <4>1. end = start % capacity
        BY <1>1, <1>4, <2>2, <3>2 DEF IInv, EndFollows
      <4>2. start % capacity = start
        BY <1>1, <2>2, <3>1, SmallRemainder
      <4> QED
        BY <1>1, <3>1, <3>2, <4>1, <4>2
    <3>3. CASE start = 0 /\ end = size
      BY <1>1, <1>4, <3>3
    <3> QED
      BY <1>4, <3>2, <3>3
  <2> QED
    BY <2>1, <2>2
<1>6. end' = (start' + size') % capacity'
  BY <1>1, <1>5, SmallRemainder
<1>7. ASSUME NEW k \in 1 .. size
      PROVE  slots'[SlotOf(k)'] = queue'[k]
  <2>1. /\ start = 0 /\ end = size /\ k - 1 \in 0 .. capacity - 1 /\ k - 1 \in 0 .. n - 1
        /\ capacity \in Nat \ {0} /\ k - 1 \in Int
    BY <1>1, <1>4, <1>5, <1>7
  <2>2. (end + n - size + k - 1) % n = k - 1
    <3>1. end + n - size + k - 1 = (k - 1) + n
      BY <1>1, <2>1
    <3>2. ((k - 1) + n) % n = (k - 1) % n
      BY <1>1, <2>1, OnceAround
    <3> QED
      BY <1>1, <2>1, <3>1, <3>2, SmallRemainder
  <2>3. (end + capacity - size + k - 1) % capacity = k - 1
    <3>1. end + capacity - size + k - 1 = (k - 1) + capacity
      BY <1>1, <2>1
    <3>2. ((k - 1) + capacity) % capacity = (k - 1) % capacity
      BY <1>1, <2>1, OnceAround
    <3> QED
      BY <1>1, <2>1, <3>1, <3>2, SmallRemainder
  <2>4. slots'[k - 1] = slots[k - 1]
    BY <1>1, <2>1, <1>7 DEF Copied
  <2> QED
    BY <1>1, <1>4, <1>7, <2>2, <2>3, <2>4 DEF SlotOf
<1>8. size > 0 => SlotOf(1)' = start'
  <2> SUFFICES ASSUME size > 0 PROVE SlotOf(1)' = start'
    OBVIOUS
  <2>1. start = 0 /\ end = size
    BY <1>1, <1>4
  <2>2. end + n - size + 1 - 1 = 0 + n
    BY <1>1, <2>1
  <2>3. (0 + n) % n = 0
    BY <1>1, OnceAround, SmallRemainder
  <2> QED
    BY <1>1, <2>1, <2>2, <2>3 DEF SlotOf
<1>9. HoldsTheNewest'
  BY <1>1, <1>4, <1>7, <1>8 DEF HoldsTheNewest
<1> QED
  BY <1>6, <1>9 DEF EndFollows

(* What is taken out is what is due, and the rest is what it was. *)
LEMMA TakeOutKeepsIInv ==
  ASSUME IInv, TypeOK', capacity > 0, NEW n \in Nat, TakeOut(n)
  PROVE  IInv'
<1>1. /\ capacity \in Nat \ {0} /\ start \in 0 .. capacity - 1 /\ size \in 0 .. Word - 1
      /\ end \in 0 .. capacity - 1 /\ capacity <= MaxCap /\ Word \in Nat
      /\ queue \in Seq(Item) /\ Len(queue) \in Nat
  BY CircularAssumption DEF IInv, TypeOK, Slot
<1>2. UNCHANGED <<capacity, end, slots>> /\ start' = (start + n) % capacity
  BY DEF TakeOut
<1>3. NoSlotsNoItems'
  BY <1>1, <1>2 DEF NoSlotsNoItems
<1>4. SUFFICES ASSUME sound'
               PROVE  (HoldsTheNewest /\ EndFollows)' /\ (got' # <<>> => got' = due')
  BY <1>3 DEF IInv, HoldsTheNewest, EndFollows, GivesWhatIsDue
<1>5. /\ sound /\ size = Len(queue) /\ size <= capacity
      /\ \A k \in 1 .. size : slots[SlotOf(k)] = queue[k]
      /\ size > 0 /\ size < capacity => SlotOf(1) = start
      /\ n = 0 \/ (n <= size /\ (size < capacity \/ start = end))
  BY <1>4 DEF TakeOut, IInv, HoldsTheNewest, InOrder
<1>6. n <= size /\ n \in 0 .. size
  BY <1>1, <1>5
<1>7. size' = size - n
  <2>1. size - n \in 0 .. Word - 1 /\ Word \in Nat \ {0}
    BY <1>1, <1>6
  <2>2. (size - n) % Word = size - n
    BY <2>1, SmallRemainder
  <2> QED
    BY <2>2 DEF TakeOut
<1>8. /\ queue' \in Seq(Item) /\ Len(queue') = Len(queue) - n
      /\ \A k \in 1 .. size - n : queue'[k] = queue[k + n]
  <2>1. queue' = SubSeq(queue, n + 1, Len(queue)) /\ n + 1 \in 1 .. Len(queue) + 1
    BY <1>1, <1>5, <1>6 DEF TakeOut
  <2>2. /\ SubSeq(queue, n + 1, Len(queue)) \in Seq(Item)
        /\ Len(SubSeq(queue, n + 1, Len(queue))) = Len(queue) - n
        /\ \A k \in 1 .. Len(queue) - n : SubSeq(queue, n + 1, Len(queue))[k] = queue[k + n]
    BY <1>1, <2>1
  <2> QED
    BY <1>5, <2>1, <2>2
<1>9. \A k \in 1 .. size - n : SlotOf(k)' = SlotOf(k + n)
  <2> SUFFICES ASSUME NEW k \in 1 .. size - n PROVE SlotOf(k)' = SlotOf(k + n)
    OBVIOUS
  <2>1. end + capacity - (size - n) + k - 1 = end + capacity - size + (k + n) - 1
    BY <1>1
  <2> QED
    BY <1>2, <1>7, <2>1 DEF SlotOf
<1>10. \A k \in 1 .. size' : slots'[SlotOf(k)'] = queue'[k]
  <2>1. \A k \in 1 .. size - n : k + n \in 1 .. size
    BY <1>1, <1>6
  <2> QED
    BY <1>2, <1>5, <1>7, <1>8, <1>9, <2>1
<1>11. ASSUME NEW k \in 1 .. size, n # 0
       PROVE  SlotOf(k) = (start + k - 1) % capacity
  BY <1>1, <1>5, <1>11, CountedFromStart
<1>12. size' < capacity' => end' = (start' + size') % capacity'
  <2> SUFFICES ASSUME size - n < capacity
               PROVE  end = (((start + n) % capacity) + (size - n)) % capacity
    BY <1>2, <1>7
  <2>1. (((start + n) % capacity) + (size - n)) % capacity = ((start + n) + (size - n)) % capacity
    <3>1. start + n \in Int /\ size - n \in Int
      BY <1>1
    <3> QED
      BY <1>1, <3>1, RemainderOfSum
  <2>2. (start + n) + (size - n) = start + size
    BY <1>1
  <2>3. CASE size < capacity
    BY <1>5, <2>1, <2>2, <2>3 DEF IInv, EndFollows
  <2>4. CASE ~(size < capacity)
    <3>1. size = capacity /\ start = end
      BY <1>1, <1>5, <2>4
    <3>2. (start + capacity) % capacity = start
      <4>1. start \in Int /\ start % capacity = start
        BY <1>1, SmallRemainder
      <4> QED
        BY <1>1, <4>1, OnceAround
    <3> QED
      BY <2>1, <2>2, <3>1, <3>2
  <2> QED
    BY <2>3, <2>4
<1>13. size' > 0 /\ size' < capacity' => SlotOf(1)' = start'
  <2> SUFFICES ASSUME size - n > 0, size - n < capacity
               PROVE  SlotOf(1 + n) = (start + n) % capacity
    <3>1. size - n > 0 => 1 \in 1 .. size - n
      BY <1>1
    <3> QED
      BY <1>2, <1>7, <1>9, <3>1
  <2>1. CASE n = 0
    <3>1. start % capacity = start
      BY <1>1, SmallRemainder
    <3> QED
      BY <1>1, <1>5, <2>1, <3>1
  <2>2. CASE n # 0
    <3>1. 1 + n \in 1 .. size /\ start + (1 + n) - 1 = start + n
      BY <1>1
    <3> QED
      BY <1>11, <2>2, <3>1
  <2> QED
    BY <2>1, <2>2
<1>14. HoldsTheNewest'
  BY <1>1, <1>2, <1>5, <1>6, <1>7, <1>8, <1>10, <1>13 DEF HoldsTheNewest
<1>15. got' # <<>> => got' = due'
  <2> SUFFICES ASSUME n # 0 PROVE got' = due'
    BY DEF TakeOut
  <2>1. got' = [i \in 1 .. n |-> queue[i]]
    <3>1. \A i \in 1 .. n : i \in 1 .. size
      BY <1>1, <1>6
    <3>2. \A i \in 1 .. n : slots[(start + i - 1) % capacity] = queue[i]
      BY <1>5, <1>11, <3>1
    <3> QED
      BY <3>2 DEF TakeOut
  <2>2. due' = SubSeq(queue, 1, n)
    BY <1>5, <1>6 DEF TakeOut
  <2>3. SubSeq(queue, 1, n) = [i \in 1 .. n |-> queue[i]]
    BY <1>1, <1>5, <1>6
  <2> QED
    BY <2>1, <2>2, <2>3
<1> QED
  BY <1>12, <1>14, <1>15 DEF EndFollows

(* The k-th of the newest m of s + n items. *)
LEMMA CountedBack ==
  ASSUME NEW s \in Nat, NEW n \in Nat, NEW C \in Nat, NEW m \in Nat, m <= C, m <= s + n,
         NEW k \in Nat, 1 <= k, k <= m
  PROVE  LET t == n - m + k IN
         t \in Int /\ t <= n /\ t + C > n /\ s + t \in 1 .. s + n
OBVIOUS

(* Each item goes to the slot behind the one before it: the new items      *)
(* stand where they are counted back from the new m_end, and those of the  *)
(* old that are still in the queue were not written over.                  *)
LEMMA PushKeepsIInv ==
  ASSUME IInv, TypeOK', NEW items \in Many, Push(items)
  PROVE  IInv'
<1> DEFINE n == Len(items)
           all == queue \o items
<1>1. /\ capacity \in Nat \ {0} /\ start \in 0 .. capacity - 1 /\ size \in 0 .. Word - 1
      /\ end \in 0 .. capacity - 1 /\ Word \in Nat /\ n \in 0 .. MaxMany /\ MaxMany \in Nat
      /\ queue \in Seq(Item) /\ Len(queue) \in Nat /\ items \in Seq(Item) /\ n \in Nat
      /\ DOMAIN items = 1 .. n
  BY ManyIsTyped, CircularAssumption DEF IInv, TypeOK, Slot, Push
<1>2. /\ UNCHANGED <<capacity, start, sound>> /\ got' = <<>>
      /\ slots' = Written(items) /\ end' = (end + n) % capacity /\ size' = Counted(n)
      /\ queue' = Newest(all, capacity)
  BY DEF Push
<1>3. NoSlotsNoItems' /\ GivesWhatIsDue'
  BY <1>1, <1>2 DEF NoSlotsNoItems, GivesWhatIsDue
<1>4. SUFFICES ASSUME sound'
               PROVE  (HoldsTheNewest /\ EndFollows)'
  BY <1>3 DEF IInv, HoldsTheNewest, EndFollows
<1>5. /\ sound /\ size = Len(queue) /\ size <= capacity
      /\ \A k \in 1 .. size : slots[SlotOf(k)] = queue[k]
      /\ size < capacity => end = (start + size) % capacity
  BY <1>2, <1>4 DEF IInv, HoldsTheNewest, EndFollows
<1>6. size' = IF size + n <= capacity THEN size + n ELSE capacity
  BY <1>1, <1>2, <1>5, CountedUpTo DEF IInv
<1>7. /\ all \in Seq(Item) /\ Len(all) = size + n
      /\ \A k \in 1 .. size : all[k] = queue[k]
      /\ \A k \in size + 1 .. size + n : all[k] = items[k - size]
  BY <1>1, <1>5
<1>8. /\ Len(queue') = size'
      /\ \A k \in 1 .. size' : queue'[k] = all[size + n - size' + k]
  <2> HIDE DEF n, all
  <2>1. all \in Seq(Item) /\ capacity \in Nat
    BY <1>1, <1>7
  <2>2. /\ Len(queue') = IF Len(all) <= capacity THEN Len(all) ELSE capacity
        /\ \A k \in 1 .. Len(queue') : queue'[k] = all[Len(all) - Len(queue') + k]
    BY <1>2, <2>1, Newer
  <2>3. Len(queue') = size'
    BY <1>6, <1>7, <2>2
  <2>4. Len(all) - Len(queue') = size + n - size'
    <3>1. Len(all) = size + n /\ size \in Nat /\ n \in Nat /\ size' \in Nat
      BY <1>1, <1>6, <1>7
    <3> QED
      BY <2>3, <3>1
  <2>5. ASSUME NEW k \in 1 .. size'
        PROVE  queue'[k] = all[size + n - size' + k]
    <3>1. queue'[k] = all[Len(all) - Len(queue') + k]
      BY <2>2, <2>3
    <3>2. Len(all) - Len(queue') + k = size + n - size' + k
      <4>1. size \in Nat /\ n \in Nat /\ size' \in Nat
        BY <1>1, <1>6
      <4> QED
        BY <2>4, <4>1
    <3> QED
      BY <3>1, <3>2
  <2> QED
    BY <2>3, <2>5
<1> HIDE DEF n, all
<1>9. size' \in 0 .. capacity /\ size' <= size + n
  BY <1>1, <1>5, <1>6
<1>10. ASSUME NEW k \in 1 .. size'
       PROVE  /\ SlotOf(k)' = (end + (n - size' + k) - 1) % capacity
              /\ SlotOf(k)' \in Slot
  <2>1. /\ end + n \in Int /\ capacity - size' + k - 1 \in Int
        /\ end + (n - size' + k) - 1 \in Int
    BY <1>1, <1>9
  <2>2. (((end + n) % capacity) + (capacity - size' + k - 1)) % capacity
           = ((end + n) + (capacity - size' + k - 1)) % capacity
    BY <1>1, <2>1, RemainderOfSum
  <2>3. (end + n) + (capacity - size' + k - 1) = (end + (n - size' + k) - 1) + capacity
    <3>1. /\ end \in Int /\ n \in Int /\ capacity \in Int /\ size' \in Int /\ k \in Int
      BY <1>1, <1>9
    <3> QED
      BY <3>1
  <2>4. ((end + (n - size' + k) - 1) + capacity) % capacity
           = (end + (n - size' + k) - 1) % capacity
    BY <1>1, <2>1, OnceAround
  <2>5. ((end + n) % capacity) + (capacity - size' + k - 1)
           = ((end + n) % capacity) + capacity - size' + k - 1
    <3>1. (end + n) % capacity \in Int
      BY <1>1, <2>1, Remainder
    <3> QED
      BY <1>1, <1>9, <3>1
  <2>6. SlotOf(k)' = (((end + n) % capacity) + capacity - size' + k - 1) % capacity
    BY <1>2 DEF SlotOf
  <2>7. (end + (n - size' + k) - 1) % capacity \in Slot
    BY <1>1, <2>1, Remainder DEF Slot
  <2> QED
    BY <2>2, <2>3, <2>4, <2>5, <2>6, <2>7
<1>11. ASSUME NEW k \in 1 .. size'
       PROVE  slots'[SlotOf(k)'] = queue'[k]
  <2> DEFINE t == n - size' + k
  <2>0. /\ size' \in Nat /\ size' <= capacity /\ k \in Nat /\ 1 <= k /\ k <= size'
        /\ n \in Nat /\ size \in Nat /\ capacity \in Nat
    BY <1>1, <1>9
  <2>1. t \in Int /\ t <= n /\ t + capacity > n /\ size + t \in 1 .. size + n
    BY <1>9, <2>0, CountedBack
  <2>2. SlotOf(k)' = (end + t - 1) % capacity /\ SlotOf(k)' \in Slot
    BY <1>10
  <2>3. queue'[k] = all[size + t]
    <3>1. size + n - size' + k = size + t
      BY <1>1, <1>9
    <3> QED
      BY <1>8, <3>1
  <2> HIDE DEF t
  <2>4. CASE t >= 1
    <3>1. t \in 1 .. n /\ size + t \in size + 1 .. size + n /\ (size + t) - size = t
      BY <1>1, <2>1, <2>4
    <3>2. Written(items)[(end + t - 1) % capacity] = items[t]
      BY <1>1, <2>1, <3>1, WrittenOnce DEF IInv, n
    <3>3. all[size + t] = items[t]
      BY <1>7, <3>1
    <3> QED
      BY <1>2, <2>2, <2>3, <3>2, <3>3
  <2>5. CASE ~(t >= 1)
    <3>1. size + t \in 1 .. size
      BY <1>1, <2>1, <2>5
    <3>2. SlotOf(size + t) = (end + t - 1) % capacity
      <4>1. end + capacity - size + (size + t) - 1 = (end + t - 1) + capacity /\ end + t - 1 \in Int
        BY <1>1, <2>1
      <4>2. ((end + t - 1) + capacity) % capacity = (end + t - 1) % capacity
        BY <1>1, <4>1, OnceAround
      <4> QED
        BY <4>1, <4>2 DEF SlotOf
    <3>3. ASSUME NEW i \in DOMAIN items
          PROVE  (end + i - 1) % capacity # (end + t - 1) % capacity
      <4>1. /\ end + i - 1 \in Int /\ end + t - 1 \in Int
            /\ end + t - 1 < end + i - 1 /\ end + i - 1 < end + t - 1 + capacity
        BY <1>1, <2>1, <2>5
      <4> QED
        BY <1>1, <4>1, RemainderIsOnce
    <3>4. Written(items)[SlotOf(k)'] = slots[SlotOf(k)']
      BY <2>2, <3>3, NotWritten
    <3>5. slots[SlotOf(size + t)] = queue[size + t] /\ all[size + t] = queue[size + t]
      BY <1>5, <1>7, <3>1
    <3> QED
      BY <1>2, <2>2, <2>3, <3>2, <3>4, <3>5
  <2> QED
    BY <2>4, <2>5
<1>12. size' < capacity => end' = (start + size') % capacity
  <2> SUFFICES ASSUME size' < capacity PROVE end' = (start + size') % capacity
    OBVIOUS
  <2>1. size' = size + n /\ size < capacity
    BY <1>1, <1>6
  <2>2. end' = (((start + size) % capacity) + n) % capacity
    BY <1>2, <1>5, <2>1
  <2>3. (((start + size) % capacity) + n) % capacity = ((start + size) + n) % capacity
    <3>1. start + size \in Int /\ n \in Int
      BY <1>1
    <3> QED
      BY <1>1, <3>1, RemainderOfSum
  <2>4. (start + size) + n = start + (size + n)
    BY <1>1
  <2> QED
    BY <2>1, <2>2, <2>3, <2>4
<1>13. size' > 0 /\ size' < capacity => SlotOf(1)' = start
  <2> SUFFICES ASSUME size' > 0, size' < capacity PROVE SlotOf(1)' = start
    OBVIOUS
  <2>1. size' = size + n /\ size < capacity /\ 1 \in 1 .. size'
    BY <1>1, <1>6, <1>9
  <2>2. SlotOf(1)' = (end + (n - size' + 1) - 1) % capacity
    BY <1>10, <2>1
  <2>3. end + (n - size' + 1) - 1 = end + (0 - size) /\ end = (start + size) % capacity
    BY <1>1, <1>5, <1>9, <2>1
  <2>4. (((start + size) % capacity) + (0 - size)) % capacity
           = ((start + size) + (0 - size)) % capacity
    <3>1. start + size \in Int /\ 0 - size \in Int
      BY <1>1
    <3> QED
      BY <1>1, <3>1, RemainderOfSum
  <2>5. (start + size) + (0 - size) = start /\ start % capacity = start
    BY <1>1, SmallRemainder
  <2> QED
    BY <2>2, <2>3, <2>4, <2>5
<1>14. HoldsTheNewest'
  BY <1>2, <1>8, <1>9, <1>11, <1>13 DEF HoldsTheNewest
<1> QED
  BY <1>2, <1>12, <1>14 DEF EndFollows

LEMMA OthersKeepIInv ==
  ASSUME IInv, TypeOK', PopEmpty \/ Clear \/ UNCHANGED vars
  PROVE  IInv'
<1>1. CASE PopEmpty
  BY <1>1 DEF PopEmpty, IInv, NoSlotsNoItems, EndFollows, HoldsTheNewest, SlotOf, GivesWhatIsDue
<1>2. CASE UNCHANGED vars
  BY <1>2 DEF vars, IInv, NoSlotsNoItems, EndFollows, HoldsTheNewest, SlotOf, GivesWhatIsDue
<1>3. CASE Clear
  <2>1. /\ size' = 0 /\ start' = 0 /\ end' = 0 /\ queue' = <<>> /\ got' = <<>>
        /\ capacity' = capacity /\ capacity \in Nat
    BY <1>3 DEF Clear, IInv, TypeOK
  <2>2. capacity > 0 => (0 + 0) % capacity = 0
    BY <2>1, SmallRemainder
  <2>3. EndFollows'
    BY <2>1, <2>2 DEF EndFollows
  <2>4. HoldsTheNewest'
    BY <2>1 DEF HoldsTheNewest
  <2> QED
    BY <2>1, <2>3, <2>4 DEF IInv, NoSlotsNoItems, GivesWhatIsDue
<1> QED
  BY <1>1, <1>2, <1>3

(* The inductive invariant holds in every reachable state. *)
THEOREM Invariance == Spec => []IInv
<1>1. Init => IInv
  <2> SUFFICES ASSUME Init PROVE IInv
    OBVIOUS
  <2>1. HoldsTheNewest /\ GivesWhatIsDue /\ NoSlotsNoItems /\ EndFollows
    BY DEF Init, HoldsTheNewest, GivesWhatIsDue, NoSlotsNoItems, EndFollows
  <2> QED
    BY <2>1, InitTypeOK DEF IInv
<1>2. IInv /\ [Next]_vars => IInv'
  <2> SUFFICES ASSUME IInv, [Next]_vars PROVE IInv'
    OBVIOUS
  <2>1. TypeOK'
    BY NextTypeOK DEF IInv
  <2>2. ASSUME NEW n \in 1 .. MaxCap, Reserve(n)
        PROVE  IInv'
    BY <2>1, <2>2, ReserveKeepsIInv
  <2>3. ASSUME NEW items \in Many, Push(items)
        PROVE  IInv'
    BY <2>1, <2>3, PushKeepsIInv
  <2>4. CASE MoveFront \/ PopFront
    <3>1. capacity > 0 /\ TakeOut(1)
      BY <2>4 DEF MoveFront, PopFront, IInv, TypeOK
    <3> QED
      BY <2>1, <3>1, TakeOutKeepsIInv
  <2>5. ASSUME NEW count \in 0 .. MaxMany, PopMany(count)
        PROVE  IInv'
    <3>1. count \in Nat /\ capacity > 0 /\ TakeOut(count)
      BY <2>5, CircularAssumption DEF PopMany
    <3> QED
      BY <2>1, <3>1, TakeOutKeepsIInv
  <2>6. CASE PopEmpty \/ Clear \/ UNCHANGED vars
    BY <2>1, <2>6, OthersKeepIInv
  <2> QED
    BY <2>2, <2>3, <2>4, <2>5, <2>6 DEF Next
<1> QED
  BY <1>1, <1>2, PTL DEF Spec

(* Whatever is reserved, pushed, popped, moved and cleared in a way the    *)
(* buffer can follow, it holds the newest items, oldest first, and gives   *)
(* them in the order in which they were pushed, none missing and none      *)
(* twice (circular.hpp lines 139-182 and 231-243).                         *)
THEOREM BufferIsAQueue == Spec => []IsABoundedQueue
<1>1. IInv => IsABoundedQueue
  BY DEF IInv, IsABoundedQueue
<1> QED
  BY <1>1, Invariance, PTL

(* at (circular.hpp lines 192-196) reads the item at its position only if  *)
(* the items have not wrapped around the end of the slots up to it: where  *)
(* they have, it looks past the slots, although it is to return what is at *)
(* "specified position relative to start" (line 185).                      *)
THEOREM AtReadsUpToTheWrap ==
  Spec => [](sound /\ InOrder => \A pos \in 0 .. size - 1 :
               IF start + pos < capacity THEN At(pos) = queue[pos + 1]
                                         ELSE AtIndex(pos) \notin Slot)
<1>1. IInv => (sound /\ InOrder => \A pos \in 0 .. size - 1 :
                 IF start + pos < capacity THEN At(pos) = queue[pos + 1]
                                           ELSE AtIndex(pos) \notin Slot)
  <2> SUFFICES ASSUME IInv, sound, InOrder, NEW pos \in 0 .. size - 1
               PROVE  IF start + pos < capacity THEN At(pos) = queue[pos + 1]
                                                ELSE AtIndex(pos) \notin Slot
    OBVIOUS
  <2>1. /\ size \in Nat /\ capacity \in Nat \ {0} /\ size <= capacity
        /\ start \in 0 .. capacity - 1 /\ pos + 1 \in 1 .. size /\ pos \in 0 .. capacity - 1
        /\ slots[SlotOf(pos + 1)] = queue[pos + 1]
    BY DEF IInv, TypeOK, Slot, HoldsTheNewest
  <2>2. AtIndex(pos) = start + pos
    BY <2>1, SmallRemainder DEF AtIndex
  <2>3. CASE start + pos < capacity
    <3>1. start + pos \in 0 .. capacity - 1 /\ start + (pos + 1) - 1 = start + pos
      BY <2>1, <2>3
    <3>2. SlotOf(pos + 1) = (start + (pos + 1) - 1) % capacity
      BY <2>1, CountedFromStart DEF InOrder
    <3>3. (start + pos) % capacity = start + pos
      BY <2>1, <3>1, SmallRemainder
    <3> QED
      BY <2>1, <2>2, <2>3, <3>1, <3>2, <3>3 DEF At, Slot
  <2>4. CASE ~(start + pos < capacity)
    BY <2>1, <2>2, <2>4 DEF Slot
  <2> QED
    BY <2>3, <2>4
<1> QED
  BY <1>1, Invariance, PTL

=============================================================================
