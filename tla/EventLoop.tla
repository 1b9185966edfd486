----------------------------- MODULE EventLoop -----------------------------
(***************************************************************************)
(* The event loop of framework/events/loop.cpp: a linked list of events    *)
(* that any thread may extend, and the task cycle_events that empties it   *)
(* on a worker of the thread pool.                                         *)
(*                                                                         *)
(* A producer that finds the list empty starts a new list and asks for a   *)
(* task; a task that reaches the tail takes the list apart.  m_tail_mutex  *)
(* protects both, but a task looks at m_tail_ptr before it takes the lock, *)
(* and at node->next without it.                                           *)
(*                                                                         *)
(* Nodes are numbered in the order in which they enter the list.  Of the   *)
(* thread pool only its safety is used: a task is run at most once, on     *)
(* some worker (see WorkQueue).                                            *)
(***************************************************************************)
EXTENDS Integers, Sequences, FiniteSets

CONSTANTS
  Producers,    \* the threads that call add_event, listeners included
  Runners,      \* the workers that run cycle_events
  Types,        \* event types
  MaxEvents,    \* bound: events that enter the list
  MaxListeners, \* bound: listeners of one type
  QueueSet,     \* whether set_queue_utility was called on the loop
  NoThread      \* nobody: the owner of a lock that is free

Node == 1 .. MaxEvents
Null == 0

ASSUME LoopAssumption ==
  /\ MaxEvents \in Nat
  /\ MaxListeners \in Nat
  /\ QueueSet \in BOOLEAN
  /\ Types # {} /\ IsFiniteSet(Producers) /\ IsFiniteSet(Runners)
  /\ NoThread \notin Producers \cup Runners
  /\ Producers \cap Runners = {}

VARIABLES
  listeners, \* number of callbacks in m_listeners, per type
  head,      \* m_head
  tail,      \* m_tail
  tailPtr,   \* m_tail_ptr
  next,      \* event_list::next, per node
  type,      \* the type of the message of a node
  linked,    \* number of nodes that entered the list
  lock,      \* the thread that holds m_tail_mutex
  load,      \* m_load
  taskQueue, \* m_task_queue
  maxQueue,  \* m_max_queue
  tasks,     \* cycle_events tasks the pool has not started
  ppc,       \* producers: where they are in add_event
  retask,    \* producers: the local variable of that name
  rpc,       \* runners: where they are in cycle_events
  node,      \* runners: the local variable of that name
  heard,     \* history: calls made for an event (the runner's loop variable)
  done,      \* history: events whose last listener has been called
  freed      \* history: nodes deleted

nodeVars == <<next, type, linked>>
listVars == <<head, tail, tailPtr>>
countVars == <<load, taskQueue, maxQueue>>
producerVars == <<ppc, retask>>
runnerVars == <<rpc, node>>
historyVars == <<heard, done, freed>>
vars == <<listeners, nodeVars, listVars, lock, countVars, tasks, producerVars,
          runnerVars, historyVars>>

Init ==
  /\ listeners = [t \in Types |-> 0]
  /\ head = Null
  /\ tail = Null
  /\ tailPtr = Null
  /\ next = [n \in Node |-> Null]
  /\ type = [n \in Node |-> CHOOSE t \in Types : TRUE]
  /\ linked = 0
  /\ lock = NoThread
  /\ load = 0
  /\ taskQueue = 0
  /\ maxQueue = 0
  /\ tasks = 0
  /\ ppc = [p \in Producers |-> "idle"]
  /\ retask = [p \in Producers |-> FALSE]
  /\ rpc = [r \in Runners |-> "idle"]
  /\ node = [r \in Runners |-> Null]
  /\ heard = [n \in Node |-> 0]
  /\ done = {}
  /\ freed = {}

-----------------------------------------------------------------------------
(* add_listener.  It takes no lock: that clients register their listeners  *)
(* before events of any type are under way is an assumption.               *)
AddListener(t) ==
  /\ listeners[t] < MaxListeners
  /\ 1 .. linked \subseteq done
  /\ \A r \in Runners : rpc[r] # "call"
  /\ listeners' = [listeners EXCEPT ![t] = @ + 1]
  /\ UNCHANGED <<nodeVars, listVars, lock, countVars, tasks, producerVars,
                 runnerVars, historyVars>>

(* add_event drops an event without listeners.  Otherwise it makes a node  *)
(* for it and takes the lock.                                              *)
Enter(p, t) ==
  /\ ppc[p] = "idle"
  /\ listeners[t] > 0
  /\ linked < MaxEvents
  /\ lock = NoThread
  /\ lock' = p
  /\ linked' = linked + 1
  /\ type' = [type EXCEPT ![linked + 1] = t]
  /\ ppc' = [ppc EXCEPT ![p] = IF tailPtr = Null THEN "first" ELSE "link"]
  /\ UNCHANGED <<listeners, next, listVars, countVars, tasks, retask,
                 runnerVars, historyVars>>

(* The list is empty: start a new one, which needs a task. *)
First(p) ==
  /\ ppc[p] = "first"
  /\ tailPtr' = linked
  /\ head' = linked
  /\ tail' = linked
  /\ retask' = [retask EXCEPT ![p] = TRUE]
  /\ lock' = NoThread
  /\ ppc' = [ppc EXCEPT ![p] = "count"]
  /\ UNCHANGED <<listeners, nodeVars, countVars, tasks, runnerVars, historyVars>>

(* m_tail->next = item *)
Link(p) ==
  /\ ppc[p] = "link"
  /\ next' = [next EXCEPT ![tail] = linked]
  /\ ppc' = [ppc EXCEPT ![p] = "advance"]
  /\ UNCHANGED <<listeners, type, linked, listVars, lock, countVars, tasks,
                 retask, runnerVars, historyVars>>

(* Variants: a definition named Bad... is a mistake in the one that        *)
(* follows it, and shows what the properties below would notice.           *)
BadAdvanceKeepsTail(p) ==
  /\ ppc[p] = "advance"
  /\ tailPtr' = linked
  /\ retask' = [retask EXCEPT ![p] = FALSE]
  /\ lock' = NoThread
  /\ ppc' = [ppc EXCEPT ![p] = "count"]
  /\ UNCHANGED <<listeners, nodeVars, head, tail, countVars, tasks, runnerVars, historyVars>>

(* m_tail = item, m_tail_ptr = item, and the lock is released. *)
Advance(p) ==
  /\ ppc[p] = "advance"
  /\ tail' = linked
  /\ tailPtr' = linked
  /\ retask' = [retask EXCEPT ![p] = FALSE]
  /\ lock' = NoThread
  /\ ppc' = [ppc EXCEPT ![p] = "count"]
  /\ UNCHANGED <<listeners, nodeVars, head, countVars, tasks, runnerVars, historyVars>>

(* m_load++, outside the lock. *)
Count(p) ==
  /\ ppc[p] = "count"
  /\ load' = load + 1
  /\ ppc' = [ppc EXCEPT ![p] = IF retask[p] THEN "task" ELSE "idle"]
  /\ UNCHANGED <<listeners, nodeVars, listVars, lock, taskQueue, maxQueue, tasks,
                 retask, runnerVars, historyVars>>

(* task_utility::add_task: nothing happens without a queue. *)
AddTask(p) ==
  /\ ppc[p] = "task"
  /\ tasks' = IF QueueSet THEN tasks + 1 ELSE tasks
  /\ ppc' = [ppc EXCEPT ![p] = "idle"]
  /\ UNCHANGED <<listeners, nodeVars, listVars, lock, countVars, retask,
                 runnerVars, historyVars>>

(* add_event, once it has the lock. *)
Producer(p) == First(p) \/ Link(p) \/ Advance(p) \/ Count(p) \/ AddTask(p)

-----------------------------------------------------------------------------
(* A worker takes the task: auto node = m_head. *)
StartTask(r) ==
  /\ rpc[r] = "idle"
  /\ tasks > 0
  /\ tasks' = tasks - 1
  /\ node' = [node EXCEPT ![r] = head]
  /\ rpc' = [rpc EXCEPT ![r] = "loop"]
  /\ UNCHANGED <<listeners, nodeVars, listVars, lock, countVars, producerVars, historyVars>>

(* while(node != nullptr), and the message is taken out of the node. *)
Visit(r) ==
  /\ rpc[r] = "loop"
  /\ IF node[r] = Null
     THEN rpc' = [rpc EXCEPT ![r] = "idle"] /\ UNCHANGED taskQueue
     ELSE rpc' = [rpc EXCEPT ![r] = "call"] /\ taskQueue' = taskQueue + 1
  /\ UNCHANGED <<listeners, nodeVars, listVars, lock, load, maxQueue, tasks,
                 producerVars, node, historyVars>>

(* listener(sptr), for each listener of the type in turn. *)
Call(r) ==
  LET n    == node[r]
      last == heard[n] + 1 = listeners[type[n]] IN
  /\ rpc[r] = "call"
  /\ heard' = [heard EXCEPT ![n] = @ + 1]
  /\ done' = IF last THEN done \cup {n} ELSE done
  /\ rpc' = [rpc EXCEPT ![r] = IF last THEN "tail" ELSE "call"]
  /\ UNCHANGED <<listeners, nodeVars, listVars, lock, countVars, tasks,
                 producerVars, node, freed>>

(* Is it the tail?  Asked without the lock. *)
TailCheck(r) ==
  /\ rpc[r] = "tail"
  /\ rpc' = [rpc EXCEPT ![r] = IF tailPtr = node[r] THEN "lock" ELSE "next"]
  /\ UNCHANGED <<listeners, nodeVars, listVars, lock, countVars, tasks,
                 producerVars, node, historyVars>>

BadTailResetNever(r) ==
  /\ rpc[r] = "lock"
  /\ lock = NoThread
  /\ rpc' = [rpc EXCEPT ![r] = "next"]
  /\ UNCHANGED <<listeners, nodeVars, listVars, lock, countVars, tasks,
                 producerVars, node, historyVars>>

BadTailResetReturns(r) ==
  /\ rpc[r] = "lock"
  /\ lock = NoThread
  /\ IF tailPtr = node[r]
     THEN /\ tailPtr' = Null
          /\ tail' = Null
          /\ head' = Null
          /\ maxQueue' = IF taskQueue > maxQueue THEN taskQueue ELSE maxQueue
          /\ taskQueue' = 0
     ELSE UNCHANGED <<listVars, maxQueue, taskQueue>>
  /\ rpc' = [rpc EXCEPT ![r] = "idle"]
  /\ UNCHANGED <<listeners, nodeVars, lock, load, tasks, producerVars, node, historyVars>>

BadTailResetUnchecked(r) ==
  /\ rpc[r] = "lock"
  /\ lock = NoThread
  /\ tailPtr' = Null
  /\ tail' = Null
  /\ head' = Null
  /\ maxQueue' = IF taskQueue > maxQueue THEN taskQueue ELSE maxQueue
  /\ taskQueue' = 0
  /\ rpc' = [rpc EXCEPT ![r] = "next"]
  /\ UNCHANGED <<listeners, nodeVars, lock, load, tasks, producerVars, node, historyVars>>

(* Asked again with the lock: if it still is, the list is taken apart. *)
TailReset(r) ==
  /\ rpc[r] = "lock"
  /\ lock = NoThread
  /\ IF tailPtr = node[r]
     THEN /\ tailPtr' = Null
          /\ tail' = Null
          /\ head' = Null
          /\ maxQueue' = IF taskQueue > maxQueue THEN taskQueue ELSE maxQueue
          /\ taskQueue' = 0
     ELSE UNCHANGED <<listVars, maxQueue, taskQueue>>
  /\ rpc' = [rpc EXCEPT ![r] = "next"]
  /\ UNCHANGED <<listeners, nodeVars, lock, load, tasks, producerVars, node, historyVars>>

(* next = node->next; delete node; node = next. *)
Free(r) ==
  /\ rpc[r] = "next"
  /\ node' = [node EXCEPT ![r] = next[node[r]]]
  /\ freed' = freed \cup {node[r]}
  /\ load' = load - 1
  /\ rpc' = [rpc EXCEPT ![r] = "loop"]
  /\ UNCHANGED <<listeners, nodeVars, listVars, lock, taskQueue, maxQueue, tasks,
                 producerVars, heard, done>>

(* cycle_events, once it runs. *)
Cycle(r) == Visit(r) \/ Call(r) \/ TailCheck(r) \/ TailReset(r) \/ Free(r)

Next ==
  \/ \E t \in Types : AddListener(t)
  \/ \E p \in Producers : Producer(p) \/ \E t \in Types : Enter(p, t)
  \/ \E r \in Runners : StartTask(r) \/ Cycle(r)

(* A thread that can go on does, and a listener returns.  No event has to  *)
(* be sent, and no task has to be started: the work queue may strand a     *)
(* task it was given (queue.cpp:87-88).  (With finitely many events the    *)
(* lock is free for good in the end: that a runner gets it does not depend *)
(* on a fair mutex.)                                                       *)
Fairness ==
  /\ \A p \in Producers : WF_vars(Producer(p))
  /\ \A r \in Runners : WF_vars(Cycle(r))

Spec == Init /\ [][Next]_vars /\ Fairness

-----------------------------------------------------------------------------
TypeOK ==
  /\ listeners \in [Types -> 0 .. MaxListeners]
  /\ head \in 0 .. MaxEvents
  /\ tail \in 0 .. MaxEvents
  /\ tailPtr \in 0 .. MaxEvents
  /\ next \in [Node -> 0 .. MaxEvents]
  /\ type \in [Node -> Types]
  /\ linked \in 0 .. MaxEvents
  /\ lock \in Producers \cup Runners \cup {NoThread}
  /\ load \in Int
  /\ taskQueue \in Nat
  /\ maxQueue \in Nat
  /\ tasks \in Nat
  /\ ppc \in [Producers -> {"idle", "first", "link", "advance", "count", "task"}]
  /\ retask \in [Producers -> BOOLEAN]
  /\ rpc \in [Runners -> {"idle", "loop", "call", "tail", "lock", "next"}]
  /\ node \in [Runners -> 0 .. MaxEvents]
  /\ heard \in [Node -> Nat]
  /\ done \subseteq Node
  /\ freed \subseteq Node

(* The task of a runner has still to work on the list.  (Once it has taken *)
(* the list apart it only has its last node to delete.)                    *)
Processing(r) ==
  \/ rpc[r] \in {"call", "tail", "lock"}
  \/ rpc[r] = "next" /\ next[node[r]] # Null
  \/ rpc[r] = "loop" /\ node[r] # Null

(* Listeners are never called by two tasks at once, although a new list    *)
(* can be started while the task of the old one is still alive.            *)
OneListAtATime ==
  \A r, s \in Runners : r # s => ~(Processing(r) /\ Processing(s))

(* Nobody touches a deleted node: neither the tail that a producer extends *)
(* nor the node that a task works on, and m_head is valid when it is read. *)
NoUseAfterFree ==
  /\ tail \notin freed
  /\ \A p \in Producers : ppc[p] = "link" => tail \in Node
  /\ \A r \in Runners : node[r] \notin freed
  /\ tasks > 0 => head \in Node \ freed

(* A list that is not empty has somebody who will work on it: a producer   *)
(* about to add its task, the task, or the runner of the task, and never   *)
(* more than one of them.                                                  *)
Attendants ==
  Cardinality({p \in Producers : ppc[p] \in {"count", "task"} /\ retask[p]})
  + tasks
  + Cardinality({r \in Runners : Processing(r)})

ListIsAttended ==
  QueueSet => Attendants = IF tailPtr = Null THEN 0 ELSE 1

(* m_load counts the events that are in the loop, up to the producers that *)
(* have not counted theirs yet: it may pass below zero, but no count is    *)
(* lost.                                                                   *)
Published ==
  IF \E p \in Producers : ppc[p] \in {"first", "link", "advance"}
  THEN linked - 1 ELSE linked

LoadCountsEvents ==
  load + Cardinality({p \in Producers : ppc[p] = "count"})
    = Published - Cardinality(freed)

(* The life of a list from the first node to its last: one task at a time, *)
(* never none while there are nodes, and every node counted once.          *)
ListsAreWorkedOff == TypeOK /\ OneListAtATime /\ ListIsAttended /\ LoadCountsEvents

(* The loop implements EventDelivery: an event is accepted when the lock   *)
(* is released, and the listeners hear the accepted events in order.       *)
Delivery == INSTANCE EventDelivery WITH
  accepted <- [n \in 1 .. Published |-> type[n]]

DeliversInOrder == Delivery!Spec

(* What a task that has been started owes: every event that is in its      *)
(* list, or is appended while it works on the list, reaches its listeners, *)
(* however late the event comes.  (An event that finds the list taken      *)
(* apart has a task of its own, which the pool has to start.)              *)
StartedListsAreDelivered ==
  \A n \in Node :
    n <= Published /\ (\E r \in Runners : Processing(r)) ~> n \in done

=============================================================================
