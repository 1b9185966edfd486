-------------------------- MODULE EventLoopProofs --------------------------
(***************************************************************************)
(* Proofs about the event loop, for any producers, runners, types, events  *)
(* and listeners: a list that is not empty has exactly one attendant, no   *)
(* deleted node is touched, no event goes uncounted, and every step is a   *)
(* step that EventDelivery allows.                                         *)
(***************************************************************************)
EXTENDS EventLoop, FiniteSetTheorems, TLAPS

(* The events that are in the list or have been; see Published. *)
Pub == IF lock = NoThread THEN linked ELSE linked - 1

(* Only producers hold m_tail_mutex over several steps. *)
LockInv ==
  /\ lock \in Producers \cup {NoThread}
  /\ lock # NoThread => linked > 0
  /\ \A p \in Producers :
       /\ ppc[p] \in {"first", "link", "advance"} <=> lock = p
       /\ ppc[p] = "first" => tail = Null
       /\ ppc[p] \in {"link", "advance"} => tail # Null
       /\ ppc[p] = "task" => retask[p]

(* The list is head .. tail, and tail the newest event. *)
ListInv ==
  /\ tailPtr = tail
  /\ head = Null <=> tail = Null
  /\ tail # Null => head <= tail /\ tail = Pub
  /\ \A n \in Node :
       /\ head # Null /\ head <= n /\ n < tail => next[n] = n + 1
       /\ n > Pub => next[n] = Null
       /\ n = tail => next[n] = IF \E p \in Producers : ppc[p] = "advance"
                                THEN linked ELSE Null

(* A producer that owes the list its task. *)
Owes(p) == ppc[p] \in {"count", "task"} /\ retask[p]

(* Who attends to the list: one of the three, and never two of them. *)
AttendantInv ==
  /\ \A p, q \in Producers : Owes(p) /\ Owes(q) => p = q
  /\ \A p \in Producers : Owes(p) => tail # Null /\ tasks = 0
  /\ tasks > 0 => tasks = 1 /\ tail # Null
  /\ \A r \in Runners : Processing(r) =>
       tail # Null /\ tasks = 0 /\ \A p \in Producers : ~Owes(p)
  /\ OneListAtATime
  /\ QueueSet /\ tail # Null =>
       \/ \E p \in Producers : Owes(p)
       \/ tasks = 1
       \/ \E r \in Runners : Processing(r)

(* A runner that has taken its list apart and has to delete the last node. *)
Leaving(r) == rpc[r] = "next" /\ next[node[r]] = Null

(* Nodes are deleted in order, save the last ones of the lists before. *)
FreedInv ==
  /\ \A m \in freed : m <= Pub
  /\ \A r \in Runners :
       /\ rpc[r] = "idle" => node[r] = Null
       /\ rpc[r] \in {"call", "tail", "lock", "next"} => node[r] # Null
       /\ Processing(r) =>
            /\ head <= node[r] /\ node[r] <= tail
            /\ rpc[r] = "next" => node[r] < tail
            /\ \A m \in freed : m < node[r]
       /\ Leaving(r) =>
            /\ node[r] <= Pub /\ node[r] \notin freed
            /\ head # Null => node[r] < head
  /\ \A r, s \in Runners : Leaving(r) /\ Leaving(s) /\ node[r] = node[s] => r = s
  /\ head # Null /\ (\A r \in Runners : ~Processing(r)) => \A m \in freed : m < head

(* Events are done in order, up to where the task is. *)
DoneInv ==
  /\ \A n \in 1 .. linked : listeners[type[n]] > 0
  /\ tail = Null => done = 1 .. Pub
  /\ tail # Null /\ (\A r \in Runners : ~Processing(r)) => done = 1 .. head - 1
  /\ \A r \in Runners : Processing(r) =>
       /\ rpc[r] \in {"loop", "call"} => done = 1 .. node[r] - 1
       /\ rpc[r] \in {"tail", "lock", "next"} => done = 1 .. node[r]
  /\ \A r \in Runners : rpc[r] = "call" => heard[node[r]] < listeners[type[node[r]]]
  /\ \A n \in Node \ done :
       heard[n] = 0 \/ \E r \in Runners : rpc[r] = "call" /\ node[r] = n

(* m_load, with the producers that have not counted. *)
Counting == {p \in Producers : ppc[p] = "count"}

CountInv == IsFiniteSet(freed) /\ load + Cardinality(Counting) = Pub - Cardinality(freed)

IInv ==
  /\ TypeOK
  /\ LockInv
  /\ ListInv
  /\ AttendantInv
  /\ FreedInv
  /\ DoneInv
  /\ CountInv

-----------------------------------------------------------------------------
LEMMA PublishedIsPub == ASSUME LockInv PROVE Published = Pub
BY LoopAssumption DEF LoopAssumption, LockInv, Published, Pub

LEMMA InitIInv == Init => IInv
<1> SUFFICES ASSUME Init PROVE IInv
  OBVIOUS
<1> USE LoopAssumption DEF LoopAssumption, Init, Node, Null
<1>1. TypeOK
  BY DEF TypeOK
<1>2. LockInv /\ ListInv
  BY DEF LockInv, ListInv, Pub
<1>3. AttendantInv /\ FreedInv
  BY DEF AttendantInv, FreedInv, OneListAtATime, Owes, Processing, Leaving
<1>4. DoneInv
  BY DEF DoneInv, Pub, Processing
<1>5. CountInv
  <2>1. Counting = {} /\ freed = {} /\ load = 0 /\ Pub = 0
    BY DEF Counting, Pub
  <2> QED
    BY <2>1, FS_EmptySet DEF CountInv
<1> QED
  BY <1>1, <1>2, <1>3, <1>4, <1>5 DEF IInv

(* A step that leaves counts and nodes alone leaves CountInv alone. *)
LEMMA CountsStay ==
  ASSUME CountInv, load' = load, freed' = freed, Counting' = Counting, Pub' = Pub
  PROVE  CountInv'
BY DEF CountInv

LEMMA AddListenerKeepsIInv ==
  ASSUME IInv, NEW t \in Types, AddListener(t)
  PROVE  IInv'
<1> USE LoopAssumption DEF LoopAssumption, IInv, Node, Null, nodeVars, listVars,
                           countVars, producerVars, runnerVars, historyVars
<1>1. /\ listeners' = [listeners EXCEPT ![t] = @ + 1] /\ listeners[t] < MaxListeners
      /\ \A r \in Runners : rpc[r] # "call"
      /\ UNCHANGED <<head, tail, tailPtr, next, type, linked, lock, load, taskQueue, maxQueue,
                     tasks, ppc, retask, rpc, node, heard, done, freed>>
  BY DEF AddListener
<1>2. TypeOK'
  <2>1. listeners[t] + 1 \in 0 .. MaxListeners
    BY <1>1 DEF TypeOK
  <2>2. listeners' \in [Types -> 0 .. MaxListeners]
    BY <1>1, <2>1 DEF TypeOK
  <2> QED
    BY <1>1, <2>2 DEF TypeOK
<1>3. LockInv' /\ ListInv'
  BY <1>1 DEF LockInv, ListInv, Pub
<1>4. AttendantInv' /\ FreedInv'
  BY <1>1 DEF AttendantInv, FreedInv, OneListAtATime, Owes, Processing, Leaving, Pub
<1>5. DoneInv'
  <2>1. \A u \in Types : listeners[u] > 0 => listeners'[u] > 0
    BY <1>1 DEF TypeOK
  <2>2. \A n \in 1 .. linked : type[n] \in Types /\ listeners[type[n]] > 0
    BY DEF TypeOK, DoneInv
  <2>3. \A n \in 1 .. linked : listeners'[type[n]] > 0
    BY <2>1, <2>2
  <2>4. \A r \in Runners : rpc'[r] # "call"
    BY <1>1
  <2> QED
    BY <1>1, <2>3, <2>4 DEF DoneInv, Pub, Processing
<1>6. CountInv'
  BY <1>1, CountsStay DEF Counting, Pub
<1> QED
  BY <1>2, <1>3, <1>4, <1>5, <1>6

LEMMA EnterKeepsIInv ==
  ASSUME IInv, NEW p \in Producers, NEW t \in Types, Enter(p, t)
  PROVE  IInv'
<1> USE LoopAssumption DEF LoopAssumption, IInv, Node, Null, listVars, countVars,
                           runnerVars, historyVars
<1>1. /\ ppc[p] = "idle" /\ listeners[t] > 0 /\ linked < MaxEvents
      /\ lock = NoThread /\ lock' = p /\ linked' = linked + 1
      /\ type' = [type EXCEPT ![linked + 1] = t]
      /\ ppc' = [ppc EXCEPT ![p] = IF tail = 0 THEN "first" ELSE "link"]
      /\ UNCHANGED <<listeners, head, tail, tailPtr, next, load, taskQueue, maxQueue,
                     tasks, retask, rpc, node, heard, done, freed>>
  BY DEF Enter, ListInv
<1>2. TypeOK'
  <2>1. linked + 1 \in 1 .. MaxEvents
    BY <1>1 DEF TypeOK
  <2>2. type' \in [1 .. MaxEvents -> Types]
    BY <1>1, <2>1 DEF TypeOK
  <2>3. /\ ppc' \in [Producers -> {"idle", "first", "link", "advance", "count", "task"}]
        /\ lock' \in Producers /\ linked' \in 0 .. MaxEvents
    BY <1>1, <2>1 DEF TypeOK
  <2> QED
    BY <1>1, <2>2, <2>3 DEF TypeOK
<1>3. LockInv'
  BY <1>1 DEF LockInv, TypeOK
<1>4. Pub' = Pub /\ Pub = linked /\ linked \in 0 .. MaxEvents - 1
  BY <1>1 DEF Pub, TypeOK
<1>5. ListInv'
  <2>1. \A q \in Producers : ppc'[q] = "advance" <=> ppc[q] = "advance"
    BY <1>1 DEF TypeOK
  <2>2. \A q \in Producers : ppc[q] # "advance"
    BY <1>1 DEF LockInv
  <2> QED
    BY <1>1, <1>4, <2>1, <2>2 DEF ListInv
<1>6. AttendantInv'
  BY <1>1 DEF AttendantInv, OneListAtATime, Owes, Processing, TypeOK
<1>7. FreedInv'
  BY <1>1, <1>4 DEF FreedInv, Processing, Leaving
<1>8. DoneInv'
  <2>1. \A n \in 1 .. linked : type'[n] = type[n]
    BY <1>1, <1>4 DEF TypeOK
  <2>2. \A n \in 1 .. linked' : listeners[type'[n]] > 0
    BY <1>1, <1>4, <2>1, SMTT(30) DEF TypeOK, DoneInv
  <2>3. \A r \in Runners : rpc[r] = "call" => node[r] \in 1 .. linked
    BY <1>4 DEF FreedInv, ListInv, AttendantInv, Processing, TypeOK
  <2> QED
    BY <1>1, <1>4, <2>1, <2>2, <2>3 DEF DoneInv, Processing
<1>9. CountInv'
  <2>1. Counting' = Counting
    BY <1>1 DEF Counting, TypeOK
  <2> QED
    BY <1>1, <1>4, <2>1, CountsStay
<1> QED
  BY <1>2, <1>3, <1>5, <1>6, <1>7, <1>8, <1>9

(* A node enters the list, and the producer is to count it. *)
LEMMA PublishCounts ==
  ASSUME CountInv, TypeOK, NEW p \in Producers, ppc[p] # "count",
         ppc' = [ppc EXCEPT ![p] = "count"], Pub' = Pub + 1, load' = load, freed' = freed
  PROVE  CountInv'
<1>1. Counting' = Counting \cup {p} /\ p \notin Counting
  BY DEF Counting, TypeOK
<1>2. IsFiniteSet(Counting)
  BY LoopAssumption, FS_Subset DEF LoopAssumption, Counting
<1>3. Cardinality(Counting') = Cardinality(Counting) + 1 /\ Cardinality(Counting) \in Nat
  BY <1>1, <1>2, FS_AddElement, FS_CardinalityType
<1>4. IsFiniteSet(freed) => Cardinality(freed) \in Nat
  BY FS_CardinalityType
<1>5. load \in Int /\ Pub \in Int
  BY DEF TypeOK, Pub
<1> QED
  BY <1>3, <1>4, <1>5 DEF CountInv

LEMMA FirstKeepsIInv ==
  ASSUME IInv, NEW p \in Producers, First(p)
  PROVE  IInv'
<1> USE LoopAssumption DEF LoopAssumption, IInv, Node, Null, nodeVars, countVars,
                           runnerVars, historyVars
<1>1. /\ ppc[p] = "first" /\ tailPtr' = linked /\ head' = linked /\ tail' = linked
      /\ retask' = [retask EXCEPT ![p] = TRUE] /\ lock' = NoThread
      /\ ppc' = [ppc EXCEPT ![p] = "count"]
      /\ UNCHANGED <<listeners, next, type, linked, load, taskQueue, maxQueue, tasks,
                     rpc, node, heard, done, freed>>
  BY DEF First
<1>2. lock = p /\ tail = 0 /\ head = 0 /\ linked \in Node /\ Pub = linked - 1 /\ Pub' = linked
  BY <1>1 DEF LockInv, ListInv, TypeOK, Pub
<1>3. TypeOK'
  BY <1>1, <1>2 DEF TypeOK
<1>4. LockInv'
  BY <1>1, <1>2 DEF LockInv, TypeOK
<1>5. \A q \in Producers : ppc'[q] # "advance"
  BY <1>1, <1>2 DEF LockInv, TypeOK
<1>6. ListInv'
  <2>1. \A n \in 1 .. MaxEvents : n > linked => next[n] = 0
    BY <1>2 DEF ListInv, TypeOK
  <2>2. next[linked] = 0
    BY <1>2 DEF ListInv, TypeOK
  <2> QED
    BY <1>1, <1>2, <1>5, <2>1, <2>2 DEF ListInv
<1>7. /\ \A r \in Runners : ~Processing(r) /\ ~Processing(r)'
      /\ \A r \in Runners : Leaving(r)' => Leaving(r)
      /\ tasks = 0 /\ \A q \in Producers : ~Owes(q)
  BY <1>1, <1>2 DEF AttendantInv, TypeOK, Processing, Leaving
<1>8. AttendantInv'
  <2>1. \A q \in Producers : Owes(q)' <=> q = p
    BY <1>1, <1>7 DEF Owes, TypeOK
  <2> QED
    BY <1>1, <1>2, <1>7, <2>1 DEF AttendantInv, OneListAtATime
<1>9. FreedInv'
  <2>1. \A m \in freed : m < linked
    BY <1>2 DEF FreedInv, TypeOK
  <2>2. \A r \in Runners : Leaving(r) => node[r] < linked
    BY <1>2 DEF FreedInv, TypeOK
  <2> QED
    BY <1>1, <1>2, <1>7, <2>1, <2>2 DEF FreedInv, TypeOK
<1>10. DoneInv'
  BY <1>1, <1>2, <1>7 DEF DoneInv
<1>11. CountInv'
  <2>1. Pub' = Pub + 1 /\ ppc[p] # "count"
    BY <1>1, <1>2 DEF TypeOK
  <2> QED
    BY <1>1, <2>1, PublishCounts
<1> QED
  BY <1>3, <1>4, <1>6, <1>8, <1>9, <1>10, <1>11

LEMMA LinkKeepsIInv ==
  ASSUME IInv, NEW p \in Producers, Link(p)
  PROVE  IInv'
<1> USE LoopAssumption DEF LoopAssumption, IInv, Node, Null, listVars, countVars,
                           runnerVars, historyVars
<1>1. /\ ppc[p] = "link" /\ next' = [next EXCEPT ![tail] = linked]
      /\ ppc' = [ppc EXCEPT ![p] = "advance"]
      /\ UNCHANGED <<listeners, type, linked, head, tail, tailPtr, lock, load, taskQueue,
                     maxQueue, tasks, retask, rpc, node, heard, done, freed>>
  BY DEF Link
<1>2. /\ lock = p /\ tail # 0 /\ tail \in Node /\ linked \in Node
      /\ Pub = linked - 1 /\ Pub' = Pub /\ tail = Pub
  BY <1>1 DEF LockInv, ListInv, TypeOK, Pub
<1>3. TypeOK'
  <2>1. next' \in [1 .. MaxEvents -> 0 .. MaxEvents]
    BY <1>1, <1>2, SMTT(30) DEF TypeOK
  <2> QED
    BY <1>1, <2>1, SMTT(30) DEF TypeOK
<1>4. LockInv'
  BY <1>1, <1>2 DEF LockInv, TypeOK
<1>5. ListInv'
  <2>1. ppc'[p] = "advance"
    BY <1>1 DEF TypeOK
  <2>2. \A n \in 1 .. MaxEvents : next'[n] = IF n = tail THEN linked ELSE next[n]
    BY <1>1, <1>2 DEF TypeOK
  <2>3. /\ tailPtr' = tail' /\ (head' = 0 <=> tail' = 0)
        /\ tail' # 0 => head' <= tail' /\ tail' = Pub'
    BY <1>1, <1>2 DEF ListInv
  <2>4. \A n \in 1 .. MaxEvents : head' # 0 /\ head' <= n /\ n < tail' => next'[n] = n + 1
    BY <1>1, <1>2, <2>2 DEF ListInv, TypeOK
  <2>5. \A n \in 1 .. MaxEvents : n > Pub' => next'[n] = 0
    BY <1>1, <1>2, <2>2 DEF ListInv, TypeOK
  <2> QED
    BY <1>1, <1>2, <2>1, <2>2, <2>3, <2>4, <2>5 DEF ListInv
<1>6. \A r \in Runners : (Processing(r)' <=> Processing(r)) /\ (Leaving(r)' <=> Leaving(r))
  <2> SUFFICES ASSUME NEW r \in Runners
               PROVE  (Processing(r)' <=> Processing(r)) /\ (Leaving(r)' <=> Leaving(r))
    OBVIOUS
  <2>1. rpc[r] = "next" => node[r] \in Node
    BY DEF FreedInv, TypeOK
  <2>2. rpc[r] = "next" => node[r] < tail
    <3>1. head # 0 /\ head <= tail /\ head \in Int /\ tail \in Int
      BY <1>2 DEF ListInv, TypeOK
    <3>2. rpc[r] = "next" /\ next[node[r]] = 0 => node[r] < head /\ node[r] \in Int
      BY <2>1, <3>1 DEF FreedInv, Leaving
    <3>3. rpc[r] = "next" /\ next[node[r]] # 0 => node[r] < tail
      BY DEF FreedInv, Processing
    <3> QED
      BY <3>1, <3>2, <3>3
  <2>3. rpc[r] = "next" => next'[node[r]] = next[node[r]]
    BY <1>1, <1>2, <2>1, <2>2 DEF TypeOK
  <2> QED
    BY <1>1, <2>3 DEF Processing, Leaving
<1>7. AttendantInv'
  <2>1. \A q \in Producers : Owes(q)' <=> Owes(q)
    BY <1>1 DEF Owes, TypeOK
  <2> QED
    BY <1>1, <1>6, <2>1 DEF AttendantInv, OneListAtATime
<1>8. FreedInv'
  BY <1>1, <1>2, <1>6 DEF FreedInv
<1>9. DoneInv'
  BY <1>1, <1>2, <1>6 DEF DoneInv
<1>10. CountInv'
  <2>1. Counting' = Counting
    BY <1>1 DEF Counting, TypeOK
  <2> QED
    BY <1>1, <1>2, <2>1, CountsStay
<1> QED
  BY <1>3, <1>4, <1>5, <1>7, <1>8, <1>9, <1>10

LEMMA AdvanceKeepsIInv ==
  ASSUME IInv, NEW p \in Producers, Advance(p)
  PROVE  IInv'
<1> USE LoopAssumption DEF LoopAssumption, IInv, Node, Null, nodeVars, countVars,
                           runnerVars, historyVars
<1>1. /\ ppc[p] = "advance" /\ tailPtr' = linked /\ tail' = linked
      /\ retask' = [retask EXCEPT ![p] = FALSE] /\ lock' = NoThread
      /\ ppc' = [ppc EXCEPT ![p] = "count"]
      /\ UNCHANGED <<listeners, next, type, linked, head, load, taskQueue, maxQueue, tasks,
                     rpc, node, heard, done, freed>>
  BY DEF Advance
<1>2. /\ lock = p /\ tail # 0 /\ head # 0 /\ linked \in Node /\ head \in Node
      /\ Pub = linked - 1 /\ Pub' = linked /\ tail = Pub /\ head <= tail /\ tail \in Node
  BY <1>1 DEF LockInv, ListInv, TypeOK, Pub
<1>3. TypeOK'
  BY <1>1, <1>2 DEF TypeOK
<1>4. LockInv'
  BY <1>1, <1>2 DEF LockInv, TypeOK
<1>5. \A q \in Producers : ppc'[q] # "advance"
  BY <1>1, <1>2 DEF LockInv, TypeOK
<1>6. ListInv'
  <2>1. next[tail] = tail + 1
    BY <1>1, <1>2 DEF ListInv
  <2>4. \A n \in 1 .. MaxEvents : n < linked => n = tail \/ n < tail
    BY <1>2
  <2>2. \A n \in 1 .. MaxEvents : head <= n /\ n < linked => next[n] = n + 1
    BY <1>2, <2>1, <2>4 DEF ListInv
  <2>3. \A n \in 1 .. MaxEvents : n > Pub => next[n] = 0
    BY DEF ListInv
  <2> QED
    BY <1>1, <1>2, <1>5, <2>2, <2>3 DEF ListInv
<1>7. \A r \in Runners : (Processing(r)' <=> Processing(r)) /\ (Leaving(r)' <=> Leaving(r))
  BY <1>1 DEF Processing, Leaving
<1>8. AttendantInv'
  <2>1. \A q \in Producers : Owes(q)' <=> Owes(q)
    BY <1>1 DEF Owes, TypeOK
  <2> QED
    BY <1>1, <1>2, <1>7, <2>1 DEF AttendantInv, OneListAtATime
<1>9. FreedInv'
  <2>1. \A r \in Runners : node[r] \in Int
    BY DEF TypeOK
  <2>2. \A m \in freed : m \in Int
    BY DEF TypeOK
  <2> QED
    BY <1>1, <1>2, <1>7, <2>1, <2>2 DEF FreedInv
<1>10. DoneInv'
  BY <1>1, <1>2, <1>7 DEF DoneInv
<1>11. CountInv'
  <2>1. Pub' = Pub + 1 /\ ppc[p] # "count"
    BY <1>1, <1>2 DEF TypeOK
  <2> QED
    BY <1>1, <2>1, PublishCounts
<1> QED
  BY <1>3, <1>4, <1>6, <1>8, <1>9, <1>10, <1>11

LEMMA CountKeepsIInv ==
  ASSUME IInv, NEW p \in Producers, Count(p)
  PROVE  IInv'
<1> USE LoopAssumption DEF LoopAssumption, IInv, Node, Null, nodeVars, listVars, countVars,
                           runnerVars, historyVars
<1>1. /\ ppc[p] = "count" /\ load' = load + 1
      /\ ppc' = [ppc EXCEPT ![p] = IF retask[p] THEN "task" ELSE "idle"]
      /\ UNCHANGED <<listeners, next, type, linked, head, tail, tailPtr, lock, taskQueue,
                     maxQueue, tasks, retask, rpc, node, heard, done, freed>>
  BY DEF Count
<1>2. TypeOK'
  <2>1. ppc' \in [Producers -> {"idle", "first", "link", "advance", "count", "task"}]
    BY <1>1 DEF TypeOK
  <2> QED
    BY <1>1, <2>1 DEF TypeOK
<1>3. LockInv'
  BY <1>1 DEF LockInv, TypeOK
<1>4. ListInv'
  <2>1. \A q \in Producers : ppc'[q] = "advance" <=> ppc[q] = "advance"
    BY <1>1 DEF TypeOK
  <2> QED
    BY <1>1, <2>1 DEF ListInv, Pub
<1>5. AttendantInv'
  <2>1. \A q \in Producers : Owes(q)' <=> Owes(q)
    BY <1>1 DEF Owes, TypeOK
  <2> QED
    BY <1>1, <2>1 DEF AttendantInv, OneListAtATime, Processing
<1>6. FreedInv' /\ DoneInv'
  BY <1>1 DEF FreedInv, DoneInv, Processing, Leaving, Pub
<1>7. CountInv'
  <2>1. Counting' = Counting \ {p} /\ p \in Counting
    BY <1>1 DEF Counting, TypeOK
  <2>2. IsFiniteSet(Counting)
    BY FS_Subset DEF Counting
  <2>3. Cardinality(Counting') = Cardinality(Counting) - 1 /\ Cardinality(Counting) \in Nat
    BY <2>1, <2>2, FS_RemoveElement, FS_CardinalityType
  <2>4. Pub' = Pub /\ Pub \in Int /\ load \in Int
    BY <1>1 DEF Pub, TypeOK
  <2>5. Cardinality(freed) \in Nat
    BY FS_CardinalityType DEF CountInv
  <2> QED
    BY <1>1, <2>3, <2>4, <2>5 DEF CountInv
<1> QED
  BY <1>2, <1>3, <1>4, <1>5, <1>6, <1>7

LEMMA AddTaskKeepsIInv ==
  ASSUME IInv, NEW p \in Producers, AddTask(p)
  PROVE  IInv'
<1> USE LoopAssumption DEF LoopAssumption, IInv, Node, Null, nodeVars, listVars, countVars,
                           runnerVars, historyVars
<1>1. /\ ppc[p] = "task" /\ tasks' = (IF QueueSet THEN tasks + 1 ELSE tasks)
      /\ ppc' = [ppc EXCEPT ![p] = "idle"]
      /\ UNCHANGED <<listeners, next, type, linked, head, tail, tailPtr, lock, load, taskQueue,
                     maxQueue, retask, rpc, node, heard, done, freed>>
  BY DEF AddTask
<1>2. TypeOK'
  <2>1. tasks' \in Nat
    BY <1>1 DEF TypeOK
  <2> QED
    BY <1>1, <2>1 DEF TypeOK
<1>3. LockInv'
  BY <1>1 DEF LockInv, TypeOK
<1>4. ListInv'
  <2>1. \A q \in Producers : ppc'[q] = "advance" <=> ppc[q] = "advance"
    BY <1>1 DEF TypeOK
  <2> QED
    BY <1>1, <2>1 DEF ListInv, Pub
<1>5. AttendantInv'
  <2>1. Owes(p) /\ tail # 0 /\ tasks = 0
    BY <1>1 DEF Owes, LockInv, AttendantInv
  <2>2. \A q \in Producers : ~Owes(q)'
    BY <1>1, <2>1 DEF Owes, TypeOK, AttendantInv
  <2>3. \A r \in Runners : ~Processing(r) /\ ~Processing(r)'
    BY <1>1, <2>1 DEF AttendantInv, Processing
  <2> QED
    BY <1>1, <2>1, <2>2, <2>3 DEF AttendantInv, OneListAtATime
<1>6. FreedInv' /\ DoneInv'
  BY <1>1 DEF FreedInv, DoneInv, Processing, Leaving, Pub
<1>7. CountInv'
  <2>1. Counting' = Counting /\ Pub' = Pub
    BY <1>1 DEF Counting, TypeOK, Pub
  <2> QED
    BY <1>1, <2>1, CountsStay
<1> QED
  BY <1>2, <1>3, <1>4, <1>5, <1>6, <1>7

-----------------------------------------------------------------------------
(* The runners: one at most has a list to work on. *)
LEMMA StartTaskKeepsIInv ==
  ASSUME IInv, NEW r \in Runners, StartTask(r)
  PROVE  IInv'
<1> USE LoopAssumption DEF LoopAssumption, IInv, Node, Null, nodeVars, listVars, countVars,
                           producerVars, historyVars
<1>1. /\ rpc[r] = "idle" /\ tasks' = tasks - 1 /\ tasks > 0
      /\ node' = [node EXCEPT ![r] = head] /\ rpc' = [rpc EXCEPT ![r] = "loop"]
      /\ UNCHANGED <<listeners, next, type, linked, head, tail, tailPtr, lock, load, taskQueue,
                     maxQueue, ppc, retask, heard, done, freed>>
  BY DEF StartTask
<1>2. tasks = 1 /\ tasks' = 0 /\ tail # 0 /\ head # 0 /\ head \in Node /\ head <= tail
  BY <1>1 DEF AttendantInv, ListInv, TypeOK
<1>3. /\ \A s \in Runners : ~Processing(s) /\ (Processing(s)' <=> s = r)
      /\ \A s \in Runners : Leaving(s)' => Leaving(s) /\ s # r
      /\ \A s \in Runners : s # r => node'[s] = node[s] /\ rpc'[s] = rpc[s]
      /\ node'[r] = head /\ rpc'[r] = "loop"
  BY <1>1, <1>2, SMTT(30) DEF AttendantInv, Processing, Leaving, TypeOK
<1>4. \A q \in Producers : ~Owes(q) /\ ~Owes(q)'
  BY <1>1, <1>2 DEF AttendantInv, Owes
<1>5. TypeOK'
  <2>1. tasks' \in Nat /\ node' \in [Runners -> 0 .. MaxEvents]
    BY <1>1, <1>2 DEF TypeOK
  <2> QED
    BY <1>1, <2>1 DEF TypeOK
<1>6. LockInv' /\ ListInv' /\ Pub' = Pub
  BY <1>1 DEF LockInv, ListInv, Pub
<1>7. AttendantInv'
  BY <1>1, <1>2, <1>3, <1>4 DEF AttendantInv, OneListAtATime
<1>8. FreedInv'
  <2>1. \A m \in freed : m < head
    BY <1>2, <1>3 DEF FreedInv
  <2> QED
    BY <1>1, <1>2, <1>3, <1>6, <2>1 DEF FreedInv
<1>9. DoneInv'
  BY <1>1, <1>2, <1>3, <1>6 DEF DoneInv
<1>10. CountInv'
  BY <1>1, <1>6, CountsStay DEF Counting
<1> QED
  BY <1>5, <1>6, <1>7, <1>8, <1>9, <1>10

(* A step of a runner that stays with its node and changes no list. *)
LEMMA StayKeeps ==
  ASSUME IInv, NEW r \in Runners,
         UNCHANGED <<listeners, next, type, linked, head, tail, tailPtr, lock, load, tasks,
                     ppc, retask, node, freed>>,
         \A s \in Runners : s # r => rpc'[s] = rpc[s],
         Processing(r)' <=> Processing(r), Leaving(r)' <=> Leaving(r)
  PROVE  /\ LockInv' /\ ListInv' /\ AttendantInv' /\ CountInv' /\ Pub' = Pub
         /\ \A s \in Runners : (Processing(s)' <=> Processing(s)) /\ (Leaving(s)' <=> Leaving(s))
<1> USE DEF IInv
<1>1. LockInv' /\ ListInv' /\ Pub' = Pub
  BY DEF LockInv, ListInv, Pub
<1>2. \A s \in Runners : (Processing(s)' <=> Processing(s)) /\ (Leaving(s)' <=> Leaving(s))
  <2> SUFFICES ASSUME NEW s \in Runners, s # r
               PROVE  (Processing(s)' <=> Processing(s)) /\ (Leaving(s)' <=> Leaving(s))
    OBVIOUS
  <2> QED
    BY DEF Processing, Leaving
<1>3. AttendantInv'
  BY <1>2 DEF AttendantInv, OneListAtATime, Owes
<1>4. CountInv'
  BY <1>1, CountsStay DEF Counting
<1> QED
  BY <1>1, <1>2, <1>3, <1>4

LEMMA VisitKeepsIInv ==
  ASSUME IInv, NEW r \in Runners, Visit(r)
  PROVE  IInv'
<1> USE LoopAssumption DEF LoopAssumption, IInv, Node, Null, nodeVars, listVars,
                           producerVars, historyVars
<1>1. /\ rpc[r] = "loop"
      /\ \/ node[r] = 0 /\ rpc' = [rpc EXCEPT ![r] = "idle"] /\ taskQueue' = taskQueue
         \/ node[r] # 0 /\ rpc' = [rpc EXCEPT ![r] = "call"] /\ taskQueue' = taskQueue + 1
      /\ UNCHANGED <<listeners, next, type, linked, head, tail, tailPtr, lock, load, maxQueue,
                     tasks, ppc, retask, node, heard, done, freed>>
  BY DEF Visit
<1>2. TypeOK'
  <2>1. taskQueue' \in Nat
    BY <1>1 DEF TypeOK
  <2>2. rpc' \in [Runners -> {"idle", "loop", "call", "tail", "lock", "next"}]
    BY <1>1 DEF TypeOK
  <2> QED
    BY <1>1, <2>1, <2>2 DEF TypeOK
<1>3. /\ \A s \in Runners : s # r => rpc'[s] = rpc[s]
      /\ rpc'[r] = IF node[r] = 0 THEN "idle" ELSE "call"
  BY <1>1 DEF TypeOK
<1>4. (Processing(r)' <=> Processing(r)) /\ (Leaving(r)' <=> Leaving(r))
  BY <1>1, <1>3 DEF Processing, Leaving
<1>5. /\ LockInv' /\ ListInv' /\ AttendantInv' /\ CountInv' /\ Pub' = Pub
      /\ \A s \in Runners : (Processing(s)' <=> Processing(s)) /\ (Leaving(s)' <=> Leaving(s))
  BY <1>1, <1>3, <1>4, StayKeeps
<1>6. FreedInv'
  BY <1>1, <1>3, <1>5 DEF FreedInv
<1>7. DoneInv'
  <2>1. rpc'[r] = "call" => Processing(r) /\ done = 1 .. node[r] - 1
    BY <1>1, <1>3 DEF DoneInv, Processing
  <2>2. rpc'[r] = "call" => heard[node[r]] < listeners[type[node[r]]]
    <3> SUFFICES ASSUME rpc'[r] = "call" PROVE heard[node[r]] < listeners[type[node[r]]]
      OBVIOUS
    <3>0. Processing(r) /\ node[r] # 0 /\ done = 1 .. node[r] - 1
      BY <1>1, <1>3, <2>1
    <3>4. tail # 0 /\ node[r] <= tail /\ tail = Pub /\ node[r] \in 1 .. MaxEvents
      BY <3>0 DEF AttendantInv, FreedInv, ListInv, TypeOK
    <3>5. linked \in Int /\ tail \in Int /\ tail <= linked
      BY <3>4 DEF Pub, TypeOK
    <3>1. Processing(r) /\ node[r] \in 1 .. linked /\ node[r] \notin done
      BY <3>0, <3>4, <3>5
    <3>2. \A s \in Runners : rpc[s] = "call" => node[s] # node[r]
      BY <1>1, <3>1 DEF AttendantInv, OneListAtATime, Processing
    <3>3. heard[node[r]] = 0
      BY <3>1, <3>2 DEF DoneInv, TypeOK
    <3> QED
      BY <3>1, <3>3 DEF DoneInv
  <2> QED
    BY <1>1, <1>3, <1>5, <2>1, <2>2 DEF DoneInv
<1> QED
  BY <1>2, <1>5, <1>6, <1>7

(* What a runner that calls listeners knows. *)
LEMMA CallerKnows ==
  ASSUME IInv, NEW r \in Runners, rpc[r] = "call"
  PROVE  /\ Processing(r) /\ node[r] \in Node /\ node[r] \in 1 .. Pub /\ node[r] <= linked
         /\ done = 1 .. node[r] - 1
         /\ heard[node[r]] \in Nat /\ heard[node[r]] < listeners[type[node[r]]]
         /\ listeners[type[node[r]]] \in Nat
         /\ \A s \in Runners : s # r => ~Processing(s) /\ rpc[s] # "call"
<1> USE DEF IInv, Node, Null
<1>1. Processing(r) /\ done = 1 .. node[r] - 1 /\ heard[node[r]] < listeners[type[node[r]]]
  BY DEF Processing, DoneInv
<1>2. node[r] \in 1 .. Pub /\ node[r] <= linked /\ node[r] \in 1 .. MaxEvents
  BY <1>1 DEF FreedInv, AttendantInv, ListInv, Pub, TypeOK
<1>3. heard[node[r]] \in Nat /\ listeners[type[node[r]]] \in Nat
  BY <1>2, LoopAssumption DEF TypeOK, LoopAssumption
<1>4. \A s \in Runners : s # r => ~Processing(s) /\ rpc[s] # "call"
  BY <1>1 DEF AttendantInv, OneListAtATime, Processing
<1> QED
  BY <1>1, <1>2, <1>3, <1>4

LEMMA CallKeepsIInv ==
  ASSUME IInv, NEW r \in Runners, Call(r)
  PROVE  IInv'
<1> USE LoopAssumption DEF LoopAssumption, IInv, Node, Null, nodeVars, listVars, countVars,
                           producerVars
<1> DEFINE last == heard[node[r]] + 1 = listeners[type[node[r]]]
<1>1. /\ rpc[r] = "call" /\ heard' = [heard EXCEPT ![node[r]] = @ + 1]
      /\ done' = (IF last THEN done \cup {node[r]} ELSE done)
      /\ rpc' = [rpc EXCEPT ![r] = IF last THEN "tail" ELSE "call"]
      /\ UNCHANGED <<listeners, next, type, linked, head, tail, tailPtr, lock, load, taskQueue,
                     maxQueue, tasks, ppc, retask, node, freed>>
  BY DEF Call
<1>2. /\ Processing(r) /\ node[r] \in Node /\ node[r] \in 1 .. Pub /\ node[r] <= linked
      /\ done = 1 .. node[r] - 1
      /\ heard[node[r]] \in Nat /\ heard[node[r]] < listeners[type[node[r]]]
      /\ listeners[type[node[r]]] \in Nat
      /\ \A s \in Runners : s # r => ~Processing(s) /\ rpc[s] # "call"
  BY <1>1, CallerKnows
<1>3. /\ \A s \in Runners : s # r => rpc'[s] = rpc[s]
      /\ rpc'[r] = IF last THEN "tail" ELSE "call"
  BY <1>1 DEF TypeOK
<1>4. TypeOK'
  <2>1. heard' \in [1 .. MaxEvents -> Nat]
    <3>1. heard \in [1 .. MaxEvents -> Nat]
      BY DEF TypeOK
    <3>2. heard[node[r]] + 1 \in Nat /\ node[r] \in 1 .. MaxEvents
      BY <1>2
    <3> HIDE DEF IInv
    <3> QED
      BY <1>1, <3>1, <3>2
  <2>2. done' \subseteq 1 .. MaxEvents
    <3>1. done \subseteq 1 .. MaxEvents /\ node[r] \in 1 .. MaxEvents
      BY <1>2 DEF TypeOK
    <3> HIDE DEF IInv
    <3> QED
      BY <1>1, <3>1
  <2>3. rpc' \in [Runners -> {"idle", "loop", "call", "tail", "lock", "next"}]
    BY <1>1 DEF TypeOK
  <2> QED
    BY <1>1, <2>1, <2>2, <2>3 DEF TypeOK
<1>5. (Processing(r)' <=> Processing(r)) /\ (Leaving(r)' <=> Leaving(r))
  BY <1>1, <1>3 DEF Processing, Leaving
<1>6. /\ LockInv' /\ ListInv' /\ AttendantInv' /\ CountInv' /\ Pub' = Pub
      /\ \A s \in Runners : (Processing(s)' <=> Processing(s)) /\ (Leaving(s)' <=> Leaving(s))
  BY <1>1, <1>3, <1>5, StayKeeps
<1>7. FreedInv'
  BY <1>1, <1>3, <1>6 DEF FreedInv
<1>8. DoneInv'
  <2>1. done' = IF last THEN 1 .. node[r] ELSE 1 .. node[r] - 1
    <3>1. (1 .. node[r] - 1) \cup {node[r]} = 1 .. node[r]
      BY <1>2
    <3> QED
      BY <1>1, <1>2, <3>1
  <2>2. /\ \A n \in 1 .. MaxEvents : n # node[r] => heard'[n] = heard[n]
        /\ heard'[node[r]] = heard[node[r]] + 1
    BY <1>1, <1>2 DEF TypeOK
  <2>3. ~last => heard'[node[r]] < listeners[type[node[r]]]
    BY <1>2, <2>2
  <2>4. tail # 0
    BY <1>2 DEF AttendantInv
  <2>5. \A n \in 1 .. linked' : listeners'[type'[n]] > 0
    BY <1>1 DEF DoneInv
  <2>6. \A s \in Runners : rpc'[s] = "call" => heard'[node'[s]] < listeners'[type'[node'[s]]]
    BY <1>1, <1>2, <1>3, <2>3
  <2>7. \A n \in (1 .. MaxEvents) \ done' :
          heard'[n] = 0 \/ \E s \in Runners : rpc'[s] = "call" /\ node'[s] = n
    <3> SUFFICES ASSUME NEW n \in 1 .. MaxEvents, n \notin done', n # node[r]
                 PROVE  heard'[n] = 0
      BY <1>1, <1>2, <1>3, <2>1
    <3>1. n \notin done
      BY <1>1
    <3> QED
      BY <1>1, <1>2, <2>2, <3>1 DEF DoneInv
  <2>8. \A s \in Runners : Processing(s)' =>
          /\ rpc'[s] \in {"loop", "call"} => done' = 1 .. node'[s] - 1
          /\ rpc'[s] \in {"tail", "lock", "next"} => done' = 1 .. node'[s]
    <3> SUFFICES ASSUME NEW s \in Runners, Processing(s)'
                 PROVE  /\ rpc'[s] \in {"loop", "call"} => done' = 1 .. node'[s] - 1
                        /\ rpc'[s] \in {"tail", "lock", "next"} => done' = 1 .. node'[s]
      OBVIOUS
    <3>1. s = r /\ node'[s] = node[r]
      BY <1>1, <1>2, <1>6
    <3> QED
      BY <1>3, <2>1, <3>1
  <2> QED
    BY <1>1, <1>2, <1>6, <2>4, <2>5, <2>6, <2>7, <2>8 DEF DoneInv
<1> QED
  BY <1>4, <1>6, <1>7, <1>8

LEMMA TailCheckKeepsIInv ==
  ASSUME IInv, NEW r \in Runners, TailCheck(r)
  PROVE  IInv'
<1> USE LoopAssumption DEF LoopAssumption, IInv, Node, Null, nodeVars, listVars, countVars,
                           producerVars, historyVars
<1>1. /\ rpc[r] = "tail" /\ rpc' = [rpc EXCEPT ![r] = IF tail = node[r] THEN "lock" ELSE "next"]
      /\ UNCHANGED <<listeners, next, type, linked, head, tail, tailPtr, lock, load, taskQueue,
                     maxQueue, tasks, ppc, retask, node, heard, done, freed>>
  BY DEF TailCheck, ListInv
<1>2. TypeOK'
  <2>1. rpc' \in [Runners -> {"idle", "loop", "call", "tail", "lock", "next"}]
    BY <1>1 DEF TypeOK
  <2> QED
    BY <1>1, <2>1 DEF TypeOK
<1>3. /\ \A s \in Runners : s # r => rpc'[s] = rpc[s]
      /\ rpc'[r] = IF tail = node[r] THEN "lock" ELSE "next"
  BY <1>1 DEF TypeOK
<1>4. /\ Processing(r) /\ head # 0 /\ head <= node[r] /\ node[r] <= tail
      /\ node[r] \in 1 .. MaxEvents /\ tail \in 1 .. MaxEvents
  <2>1. Processing(r)
    BY <1>1 DEF Processing
  <2>2. head # 0 /\ tail # 0
    BY <2>1 DEF AttendantInv, ListInv
  <2>3. head <= node[r] /\ node[r] <= tail /\ node[r] # 0
    BY <1>1, <2>1 DEF FreedInv
  <2> QED
    BY <2>1, <2>2, <2>3 DEF TypeOK
<1>5. tail # node[r] => node[r] < tail /\ next[node[r]] = node[r] + 1
  BY <1>4 DEF ListInv
<1>6. (Processing(r)' <=> Processing(r)) /\ (Leaving(r)' <=> Leaving(r))
  BY <1>1, <1>3, <1>4, <1>5 DEF Processing, Leaving
<1>7. /\ LockInv' /\ ListInv' /\ AttendantInv' /\ CountInv' /\ Pub' = Pub
      /\ \A s \in Runners : (Processing(s)' <=> Processing(s)) /\ (Leaving(s)' <=> Leaving(s))
  BY <1>1, <1>3, <1>6, StayKeeps
<1>8. FreedInv'
  BY <1>1, <1>3, <1>5, <1>7 DEF FreedInv
<1>9. DoneInv'
  BY <1>1, <1>3, <1>7 DEF DoneInv
<1> QED
  BY <1>2, <1>7, <1>8, <1>9

LEMMA TailResetKeepsIInv ==
  ASSUME IInv, NEW r \in Runners, TailReset(r)
  PROVE  IInv'
<1> USE LoopAssumption DEF LoopAssumption, IInv, Node, Null, nodeVars, listVars,
                           producerVars, historyVars
<1>1. /\ rpc[r] = "lock" /\ lock = NoThread /\ rpc' = [rpc EXCEPT ![r] = "next"]
      /\ UNCHANGED <<listeners, next, type, linked, lock, load, tasks, ppc, retask, node,
                     heard, done, freed>>
      /\ \/ /\ tail = node[r] /\ tailPtr' = 0 /\ tail' = 0 /\ head' = 0 /\ taskQueue' = 0
            /\ maxQueue' \in {taskQueue, maxQueue}
         \/ tail # node[r] /\ UNCHANGED <<head, tail, tailPtr, maxQueue, taskQueue>>
  BY DEF TailReset, ListInv
<1>2. TypeOK'
  <2>1. rpc' \in [Runners -> {"idle", "loop", "call", "tail", "lock", "next"}]
    BY <1>1 DEF TypeOK
  <2>2. /\ tailPtr' \in 0 .. MaxEvents /\ tail' \in 0 .. MaxEvents /\ head' \in 0 .. MaxEvents
        /\ taskQueue' \in Nat /\ maxQueue' \in Nat
    BY <1>1 DEF TypeOK
  <2> QED
    BY <1>1, <2>1, <2>2 DEF TypeOK
<1>3. /\ \A s \in Runners : s # r => rpc'[s] = rpc[s]
      /\ rpc'[r] = "next"
  BY <1>1 DEF TypeOK
<1>4. /\ Processing(r) /\ head # 0 /\ head <= node[r] /\ node[r] <= tail /\ tail # 0
      /\ node[r] \in 1 .. MaxEvents /\ tail \in 1 .. MaxEvents /\ tail = Pub
      /\ Pub = linked /\ Pub' = Pub /\ done = 1 .. node[r]
      /\ \A s \in Runners : s # r => ~Processing(s)
  <2>1. Processing(r)
    BY <1>1 DEF Processing
  <2>2. tail # 0 /\ \A s \in Runners : s # r => ~Processing(s)
    BY <2>1 DEF AttendantInv, OneListAtATime
  <2>3. head # 0 /\ tail = Pub /\ Pub = linked /\ Pub' = Pub
    BY <1>1, <2>2 DEF ListInv, Pub
  <2>4. head <= node[r] /\ node[r] <= tail /\ node[r] # 0
    BY <1>1, <2>1 DEF FreedInv
  <2>5. node[r] \in 1 .. MaxEvents /\ tail \in 1 .. MaxEvents
    BY <2>2, <2>4 DEF TypeOK
  <2>6. done = 1 .. node[r]
    BY <1>1, <2>1 DEF DoneInv
  <2> QED
    BY <2>1, <2>2, <2>3, <2>4, <2>5, <2>6
<1>5. \A p \in Producers : ppc[p] \notin {"first", "link", "advance"}
  BY <1>1 DEF LockInv
<1>6. LockInv'
  BY <1>1, <1>5 DEF LockInv
<1>7. CountInv'
  BY <1>1, <1>4, CountsStay DEF Counting
<1>8. CASE tail # node[r]
  <2>1. node[r] < tail /\ next[node[r]] = node[r] + 1
    BY <1>4, <1>8 DEF ListInv
  <2>2. (Processing(r)' <=> Processing(r)) /\ (Leaving(r)' <=> Leaving(r))
    BY <1>1, <1>3, <1>4, <2>1 DEF Processing, Leaving
  <2>3. /\ ListInv' /\ AttendantInv'
        /\ \A s \in Runners : (Processing(s)' <=> Processing(s)) /\ (Leaving(s)' <=> Leaving(s))
    BY <1>1, <1>3, <1>8, <2>2, StayKeeps
  <2>4. FreedInv'
    BY <1>1, <1>3, <1>4, <1>8, <2>1, <2>3 DEF FreedInv
  <2>5. DoneInv'
    BY <1>1, <1>3, <1>4, <1>8, <2>3 DEF DoneInv
  <2> QED
    BY <1>2, <1>6, <1>7, <2>3, <2>4, <2>5
<1>9. CASE tail = node[r]
  <2>1. head' = 0 /\ tail' = 0 /\ tailPtr' = 0 /\ next[node[r]] = 0
    BY <1>1, <1>4, <1>5, <1>9 DEF ListInv
  <2>2. /\ \A s \in Runners : ~Processing(s)'
        /\ \A s \in Runners : Leaving(s)' <=> s = r \/ Leaving(s)
    BY <1>1, <1>3, <1>4, <2>1 DEF Processing, Leaving
  <2>3. ListInv'
    BY <1>1, <1>4, <2>1 DEF ListInv
  <2>4. AttendantInv'
    BY <1>1, <1>4, <2>1, <2>2 DEF AttendantInv, OneListAtATime, Owes
  <2>5. FreedInv'
    <3>1. \A s \in Runners : Leaving(s) => node[s] < head
      BY <1>4 DEF FreedInv
    <3>2. \A s \in Runners : Leaving(s) => node[s] # node[r]
      BY <1>4, <3>1 DEF TypeOK, ListInv
    <3>3. node[r] \notin freed
      BY <1>4 DEF FreedInv
    <3> QED
      BY <1>1, <1>3, <1>4, <2>1, <2>2, <3>2, <3>3 DEF FreedInv
  <2>6. DoneInv'
    BY <1>1, <1>3, <1>4, <1>9, <2>1, <2>2 DEF DoneInv
  <2> QED
    BY <1>2, <1>6, <1>7, <2>3, <2>4, <2>5, <2>6
<1> QED
  BY <1>8, <1>9

LEMMA FreeKeepsIInv ==
  ASSUME IInv, NEW r \in Runners, Free(r)
  PROVE  IInv'
<1> USE LoopAssumption DEF LoopAssumption, IInv, Node, Null, nodeVars, listVars, countVars,
                           producerVars, historyVars
<1>1. /\ rpc[r] = "next" /\ rpc' = [rpc EXCEPT ![r] = "loop"]
      /\ node' = [node EXCEPT ![r] = next[node[r]]] /\ freed' = freed \cup {node[r]}
      /\ load' = load - 1
      /\ UNCHANGED <<listeners, next, type, linked, head, tail, tailPtr, lock, taskQueue,
                     maxQueue, tasks, ppc, retask, heard, done>>
  BY DEF Free
<1>2. node[r] \in 1 .. MaxEvents /\ next[node[r]] \in 0 .. MaxEvents
  BY <1>1 DEF FreedInv, TypeOK
<1>3. /\ \A s \in Runners : s # r => rpc'[s] = rpc[s] /\ node'[s] = node[s]
      /\ rpc'[r] = "loop" /\ node'[r] = next[node[r]]
  BY <1>1, <1>2 DEF TypeOK
<1>4. TypeOK'
  <2>1. node' \in [Runners -> 0 .. MaxEvents]
    BY <1>1, <1>2 DEF TypeOK
  <2>2. freed' \subseteq 1 .. MaxEvents
    BY <1>1, <1>2 DEF TypeOK
  <2>3. load' \in Int
    BY <1>1 DEF TypeOK
  <2>4. rpc' \in [Runners -> {"idle", "loop", "call", "tail", "lock", "next"}]
    BY <1>1 DEF TypeOK
  <2> QED
    BY <1>1, <2>1, <2>2, <2>3, <2>4 DEF TypeOK
<1>5. LockInv' /\ ListInv' /\ Pub' = Pub
  BY <1>1 DEF LockInv, ListInv, Pub
<1>6. /\ \A s \in Runners : Processing(s)' <=> Processing(s)
      /\ \A s \in Runners : Leaving(s)' <=> s # r /\ Leaving(s)
  BY <1>1, <1>3 DEF Processing, Leaving
<1>7. AttendantInv'
  BY <1>1, <1>6 DEF AttendantInv, OneListAtATime, Owes
<1>8. node[r] \notin freed
  BY <1>1 DEF FreedInv, Processing, Leaving, TypeOK
<1>9. CountInv'
  <2>1. Cardinality(freed') = Cardinality(freed) + 1 /\ IsFiniteSet(freed')
    BY <1>1, <1>8, FS_AddElement DEF CountInv
  <2>2. Counting' = Counting /\ IsFiniteSet(Counting)
    BY <1>1, FS_Subset DEF Counting
  <2>3. Cardinality(Counting) \in Nat /\ Cardinality(freed) \in Nat /\ Pub \in Int /\ load \in Int
    BY <2>2, FS_CardinalityType DEF CountInv, Pub, TypeOK
  <2> QED
    BY <1>1, <1>5, <2>1, <2>2, <2>3 DEF CountInv
<1>10. CASE Processing(r)
  <2>1. /\ node[r] < tail /\ head # 0 /\ head <= node[r] /\ next[node[r]] = node[r] + 1
        /\ \A m \in freed : m < node[r]
        /\ done = 1 .. node[r] /\ tail = Pub /\ tail \in Int /\ head \in Int
    <3>1. /\ node[r] < tail /\ tail # 0 /\ head <= node[r]
          /\ \A m \in freed : m < node[r]
          /\ done = 1 .. node[r]
      BY <1>1, <1>10 DEF AttendantInv, FreedInv, DoneInv
    <3>2. head # 0 /\ tail = Pub /\ tail \in Int /\ head \in Int
      BY <3>1 DEF ListInv, TypeOK
    <3>3. next[node[r]] = node[r] + 1
      BY <1>2, <3>1, <3>2 DEF ListInv
    <3> QED
      BY <3>1, <3>2, <3>3
  <2>2. /\ \A m \in freed' : m \in Int /\ m < node'[r] /\ m <= Pub
        /\ node'[r] <= tail /\ node'[r] # 0 /\ head <= node'[r] /\ node'[r] \in Int
    <3>0. \A m \in freed : m \in 1 .. MaxEvents
      BY DEF TypeOK
    <3>4. \A m \in freed' : m \in freed \/ m = node[r]
      BY <1>1
    <3>1. \A m \in freed' : m \in Int /\ m <= node[r]
      BY <1>2, <2>1, <3>0, <3>4
    <3>2. node'[r] = node[r] + 1
      BY <1>3, <2>1
    <3> QED
      BY <1>2, <2>1, <3>1, <3>2
  <2>3. \A s \in Runners : s # r => ~Processing(s)
    BY <1>10 DEF AttendantInv, OneListAtATime
  <2>4. \A s \in Runners : Leaving(s) => node[s] # node[r] /\ node[s] \notin freed'
    BY <1>1, <1>2, <2>1 DEF FreedInv, TypeOK
  <2>5. FreedInv'
    BY <1>1, <1>3, <1>5, <1>6, <1>10, <2>2, <2>3, <2>4 DEF FreedInv
  <2>6. node'[r] - 1 = node[r] /\ tail # 0
    BY <1>2, <1>3, <2>1
  <2>7. DoneInv'
    BY <1>1, <1>3, <1>5, <1>6, <1>10, <2>1, <2>3, <2>6 DEF DoneInv
  <2> QED
    BY <1>4, <1>5, <1>7, <1>9, <2>5, <2>7
<1>11. CASE ~Processing(r)
  <2>1. Leaving(r) /\ next[node[r]] = 0
    BY <1>1, <1>11 DEF Processing, Leaving
  <2>2. node[r] <= Pub /\ (head # 0 => node[r] < head)
    BY <2>1 DEF FreedInv
  <2>3. \A s \in Runners : Processing(s) => node[r] < node[s] /\ s # r
    <3> SUFFICES ASSUME NEW s \in Runners, Processing(s) PROVE node[r] < node[s]
      BY <1>11
    <3>1. head # 0 /\ head <= node[s] /\ head \in Int /\ node[s] \in Int
      BY DEF AttendantInv, FreedInv, ListInv, TypeOK
    <3> QED
      BY <1>2, <2>2, <3>1
  <2>4. \A s \in Runners : s # r /\ Leaving(s) => node[s] # node[r]
    BY <2>1 DEF FreedInv
  <2>5. FreedInv'
    BY <1>1, <1>3, <1>5, <1>6, <2>1, <2>2, <2>3, <2>4 DEF FreedInv
  <2>6. DoneInv'
    BY <1>1, <1>3, <1>5, <1>6, <2>3 DEF DoneInv
  <2> QED
    BY <1>4, <1>5, <1>7, <1>9, <2>5, <2>6
<1> QED
  BY <1>10, <1>11

(* The inductive invariant holds in every reachable state. *)
THEOREM Invariance == Spec => []IInv
<1>1. IInv /\ [Next]_vars => IInv'
  <2> SUFFICES ASSUME IInv, [Next]_vars PROVE IInv'
    OBVIOUS
  <2>1. CASE UNCHANGED vars
    BY <2>1
       DEF vars, nodeVars, listVars, countVars, producerVars, runnerVars, historyVars, IInv,
           TypeOK, LockInv, ListInv, AttendantInv, FreedInv, DoneInv, CountInv, Pub, Owes,
           Leaving, Counting, OneListAtATime, Processing
  <2>2. CASE Next
    BY <2>2, AddListenerKeepsIInv, EnterKeepsIInv, FirstKeepsIInv, LinkKeepsIInv,
       AdvanceKeepsIInv, CountKeepsIInv, AddTaskKeepsIInv, StartTaskKeepsIInv,
       VisitKeepsIInv, CallKeepsIInv, TailCheckKeepsIInv, TailResetKeepsIInv, FreeKeepsIInv
       DEF Next, Producer, Cycle
  <2> QED
    BY <2>1, <2>2
<1> QED
  BY InitIInv, <1>1, PTL DEF Spec

-----------------------------------------------------------------------------
(* A list that is not empty has exactly one attendant, and no event goes   *)
(* uncounted (loop.cpp:59-156).                                            *)
THEOREM ListsHaveAnAttendant == Spec => []ListsAreWorkedOff
<1>1. IInv => ListsAreWorkedOff
  <2> SUFFICES ASSUME IInv PROVE ListsAreWorkedOff
    OBVIOUS
  <2> USE LoopAssumption DEF LoopAssumption, IInv, Node, Null
  <2> DEFINE A == {p \in Producers : Owes(p)}
             B == {r \in Runners : Processing(r)}
  <2>1. /\ A = {} \/ \E p \in Producers : A = {p}
        /\ B = {} \/ \E r \in Runners : B = {r}
    BY DEF AttendantInv, OneListAtATime
  <2>2. /\ A = {} => Cardinality(A) = 0
        /\ A # {} => Cardinality(A) = 1
        /\ B = {} => Cardinality(B) = 0
        /\ B # {} => Cardinality(B) = 1
    BY <2>1, FS_EmptySet, FS_Singleton
  <2>3. Attendants = Cardinality(A) + tasks + Cardinality(B)
    BY DEF Attendants, Owes
  <2>4. ListIsAttended
    <3>1. tail = 0 => A = {} /\ B = {} /\ tasks = 0
      BY DEF AttendantInv, TypeOK
    <3>2. QueueSet /\ tail # 0 =>
            \/ A # {} /\ B = {} /\ tasks = 0
            \/ A = {} /\ B # {} /\ tasks = 0
            \/ A = {} /\ B = {} /\ tasks = 1
      BY DEF AttendantInv, TypeOK
    <3>3. tailPtr = tail
      BY DEF ListInv
    <3> QED
      BY <2>2, <2>3, <3>1, <3>2, <3>3 DEF ListIsAttended
  <2>5. LoadCountsEvents
    BY PublishedIsPub DEF CountInv, Counting, LoadCountsEvents
  <2> QED
    BY <2>4, <2>5 DEF ListsAreWorkedOff, AttendantInv
<1> QED
  BY <1>1, Invariance, PTL

(* No thread follows a pointer to a node that was deleted                  *)
(* (loop.cpp:75-83, 97-149).                                               *)
THEOREM NodesOutliveTheirUse == Spec => []NoUseAfterFree
<1>1. IInv => NoUseAfterFree
  <2> SUFFICES ASSUME IInv PROVE NoUseAfterFree
    OBVIOUS
  <2> USE DEF IInv, Node, Null
  <2>1. freed \subseteq 1 .. MaxEvents /\ 0 \notin freed
    BY DEF TypeOK
  <2>2. \A r \in Runners : node[r] \notin freed
    <3> SUFFICES ASSUME NEW r \in Runners, node[r] \in freed PROVE FALSE
      OBVIOUS
    <3>1. node[r] # 0 /\ node[r] \in 0 .. MaxEvents
      BY <2>1 DEF TypeOK
    <3>2. Processing(r) \/ Leaving(r)
      BY <3>1 DEF Processing, Leaving, FreedInv, TypeOK
    <3> QED
      BY <3>1, <3>2 DEF FreedInv
  <2>3. tail # 0 => head \in 1 .. MaxEvents /\ tail \in 1 .. MaxEvents /\ head <= tail
    BY DEF ListInv, TypeOK
  <2>4. tail \notin freed
    <3> SUFFICES ASSUME tail \in freed PROVE FALSE
      OBVIOUS
    <3>1. tail # 0
      BY <2>1
    <3>2. CASE \E r \in Runners : Processing(r)
      <4> PICK r \in Runners : Processing(r)
        BY <3>2
      <4>1. node[r] <= tail /\ tail < node[r] /\ node[r] \in Int
        BY DEF FreedInv, TypeOK
      <4> QED
        BY <2>3, <3>1, <4>1
    <3>3. CASE \A r \in Runners : ~Processing(r)
      BY <2>3, <3>1, <3>3 DEF FreedInv
    <3> QED
      BY <3>2, <3>3
  <2>5. \A p \in Producers : ppc[p] = "link" => tail \in 1 .. MaxEvents
    BY <2>3 DEF LockInv
  <2>6. tasks > 0 => head \in (1 .. MaxEvents) \ freed
    <3> SUFFICES ASSUME tasks > 0, head \in freed PROVE FALSE
      BY <2>3 DEF AttendantInv
    <3>1. tail # 0 /\ \A r \in Runners : ~Processing(r)
      BY DEF AttendantInv
    <3> QED
      BY <2>3, <3>1 DEF FreedInv
  <2> QED
    BY <2>2, <2>4, <2>5, <2>6 DEF NoUseAfterFree
<1> QED
  BY <1>1, Invariance, PTL

-----------------------------------------------------------------------------
(* The events accepted so far, as EventDelivery sees them. *)
Accepted == [n \in 1 .. Published |-> type[n]]

LEMMA AcceptedIs ==
  ASSUME IInv
  PROVE  /\ Published = Pub /\ Pub \in Nat /\ Pub <= linked
         /\ Accepted \in Seq(Types) /\ Len(Accepted) = Pub /\ DOMAIN Accepted = 1 .. Pub
         /\ \A n \in 1 .. Pub : Accepted[n] = type[n]
<1>1. Published = Pub /\ Pub \in Nat /\ Pub <= linked /\ linked <= MaxEvents
  BY PublishedIsPub, LoopAssumption DEF LoopAssumption, IInv, LockInv, TypeOK, Pub
<1>2. \A n \in 1 .. Pub : type[n] \in Types
  BY <1>1, LoopAssumption DEF LoopAssumption, IInv, TypeOK, Node
<1> QED
  BY <1>1, <1>2 DEF Accepted

(* A step that publishes nothing leaves the accepted events as they are. *)
LEMMA NothingAccepted ==
  ASSUME IInv, IInv', Pub' = Pub, \A n \in 1 .. Pub : type'[n] = type[n]
  PROVE  Accepted' = Accepted
<1>1. Published = Pub
  BY PublishedIsPub DEF IInv
<1>2. Published' = Pub'
  BY LoopAssumption DEF LoopAssumption, IInv, LockInv, Published, Pub
<1> QED
  BY <1>1, <1>2 DEF Accepted

(* First and Advance publish the newest node. *)
LEMMA NewestAccepted ==
  ASSUME IInv, IInv', Pub' = Pub + 1, linked' = Pub', type' = type, linked' = linked,
         UNCHANGED <<listeners, heard, done>>
  PROVE  \E t \in Types : Delivery!Accept(t)
<1>1. /\ Published = Pub /\ Pub \in Nat
      /\ Accepted \in Seq(Types) /\ Len(Accepted) = Pub /\ DOMAIN Accepted = 1 .. Pub
      /\ \A n \in 1 .. Pub : Accepted[n] = type[n]
  BY AcceptedIs
<1>2. Published' = Pub'
  BY LoopAssumption DEF LoopAssumption, IInv, LockInv, Published, Pub
<1>3. linked \in 1 .. MaxEvents /\ Pub < MaxEvents
  BY <1>1, LoopAssumption DEF LoopAssumption, IInv, TypeOK
<1>4. type[linked] \in Types /\ listeners[type[linked]] > 0
  <2>1. type[linked] \in Types
    BY <1>3 DEF IInv, TypeOK, Node
  <2>2. listeners[type[linked]] > 0
    BY <1>3 DEF IInv, DoneInv
  <2> QED
    BY <2>1, <2>2
<1>5. Accepted' = Append(Accepted, type[linked])
  <2>1. Accepted' = [n \in 1 .. Pub + 1 |-> type[n]]
    BY <1>2 DEF Accepted
  <2>2. /\ Append(Accepted, type[linked]) \in Seq(Types)
        /\ Len(Append(Accepted, type[linked])) = Pub + 1
        /\ DOMAIN Append(Accepted, type[linked]) = 1 .. Pub + 1
        /\ \A n \in 1 .. Pub + 1 : Append(Accepted, type[linked])[n] = type[n]
    BY <1>1, <1>4
  <2> QED
    BY <2>1, <2>2, <1>1
<1> QED
  BY <1>1, <1>3, <1>4, <1>5 DEF Delivery!Accept, Accepted

LEMMA StepIsDelivery ==
  ASSUME IInv, IInv', Next
  PROVE  Delivery!Next \/ UNCHANGED Delivery!vars
<1> USE DEF nodeVars, listVars, countVars, producerVars, runnerVars, historyVars
<1>1. CASE \E t \in Types : AddListener(t)
  <2> PICK t \in Types : AddListener(t)
    BY <1>1
  <2>1. Accepted' = Accepted
    BY NothingAccepted DEF AddListener, Pub
  <2>2. DOMAIN Accepted \subseteq done
    BY AcceptedIs DEF AddListener, IInv, TypeOK
  <2>3. Delivery!AddListener(t)
    BY <2>1, <2>2 DEF AddListener, Delivery!AddListener, Accepted
  <2> QED
    BY <2>3 DEF Delivery!Next
<1>2. CASE \E p \in Producers, t \in Types : Enter(p, t)
  <2> PICK p \in Producers, t \in Types : Enter(p, t)
    BY <1>2
  <2>1. Pub' = Pub /\ Pub = linked
    BY LoopAssumption DEF LoopAssumption, Enter, Pub, IInv, TypeOK
  <2>2. \A n \in 1 .. Pub : type'[n] = type[n]
    BY <2>1 DEF Enter, IInv, TypeOK
  <2>3. Accepted' = Accepted
    BY <2>1, <2>2, NothingAccepted
  <2> QED
    BY <2>3 DEF Enter, Delivery!vars, Accepted
<1>3. CASE \E p \in Producers : First(p) \/ Advance(p)
  <2> PICK p \in Producers : First(p) \/ Advance(p)
    BY <1>3
  <2>1. lock = p /\ p # NoThread
    BY LoopAssumption DEF LoopAssumption, First, Advance, IInv, LockInv
  <2>2. /\ lock' = NoThread /\ linked' = linked /\ type' = type
        /\ UNCHANGED <<listeners, heard, done>>
    BY DEF First, Advance
  <2>3. Pub' = Pub + 1 /\ linked' = Pub'
    BY <2>1, <2>2 DEF Pub, IInv, TypeOK
  <2>4. \E t \in Types : Delivery!Accept(t)
    BY <2>2, <2>3, NewestAccepted
  <2> QED
    BY <2>4 DEF Delivery!Next
<1>4. CASE \E p \in Producers : Link(p) \/ Count(p) \/ AddTask(p)
  <2>1. UNCHANGED <<listeners, type, linked, lock, heard, done>>
    BY <1>4 DEF Link, Count, AddTask
  <2>2. Accepted' = Accepted
    BY <2>1, NothingAccepted DEF Pub
  <2> QED
    BY <2>1, <2>2 DEF Delivery!vars, Accepted
<1>5. CASE \E r \in Runners : StartTask(r) \/ Visit(r) \/ TailCheck(r) \/ TailReset(r) \/ Free(r)
  <2>1. UNCHANGED <<listeners, type, linked, lock, heard, done>>
    BY <1>5 DEF StartTask, Visit, TailCheck, TailReset, Free
  <2>2. Accepted' = Accepted
    BY <2>1, NothingAccepted DEF Pub
  <2> QED
    BY <2>1, <2>2 DEF Delivery!vars, Accepted
<1>6. CASE \E r \in Runners : Call(r)
  <2> PICK r \in Runners : Call(r)
    BY <1>6
  <2>1. /\ rpc[r] = "call"
        /\ heard' = [heard EXCEPT ![node[r]] = @ + 1]
        /\ done' = (IF heard[node[r]] + 1 = listeners[type[node[r]]]
                    THEN done \cup {node[r]} ELSE done)
        /\ UNCHANGED <<listeners, type, linked, lock>>
    BY DEF Call
  <2>2. node[r] \in 1 .. Pub /\ node[r] \in 1 .. MaxEvents /\ done = 1 .. node[r] - 1
    BY <2>1, CallerKnows DEF Node
  <2>3. Accepted' = Accepted
    BY <2>1, NothingAccepted DEF Pub
  <2>4. /\ node[r] \in DOMAIN Accepted \ done /\ Accepted[node[r]] = type[node[r]]
        /\ 1 .. node[r] - 1 \subseteq done
    BY <2>2, AcceptedIs
  <2>5. Delivery!Call(node[r])
    BY <2>1, <2>3, <2>4 DEF Delivery!Call, Accepted
  <2> QED
    BY <2>2, <2>5 DEF Delivery!Next, Delivery!Calls
<1> QED
  BY <1>1, <1>2, <1>3, <1>4, <1>5, <1>6 DEF Next, Producer, Cycle

(* The loop delivers as EventDelivery promises: one call at a time, in the *)
(* order of acceptance, every listener once (loop.cpp:59-156).             *)
THEOREM StepsDeliverInOrder == Spec => DeliversInOrder
<1>1. Init => Delivery!Init
  <2> SUFFICES ASSUME Init PROVE Delivery!Init
    OBVIOUS
  <2>1. Published = 0
    BY DEF Init, Published
  <2> QED
    BY <2>1 DEF Init, Delivery!Init, Node
<1>2. IInv /\ IInv' /\ [Next]_vars => [Delivery!Next]_(Delivery!vars)
  <2> SUFFICES ASSUME IInv, IInv', [Next]_vars PROVE [Delivery!Next]_(Delivery!vars)
    OBVIOUS
  <2>1. CASE Next
    BY <2>1, StepIsDelivery
  <2>2. CASE UNCHANGED vars
    BY <2>2 DEF vars, nodeVars, listVars, countVars, producerVars, runnerVars, historyVars,
                Delivery!vars, Published
  <2> QED
    BY <2>1, <2>2
<1> QED
  BY <1>1, <1>2, Invariance, PTL DEF Spec, DeliversInOrder, Delivery!Spec

=============================================================================
