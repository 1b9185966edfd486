----------------------------- MODULE WorkQueue -----------------------------
(***************************************************************************)
(* The thread pool of framework/threads: queue.cpp, pump.cpp, pool.cpp and *)
(* worker.cpp.                                                             *)
(*                                                                         *)
(*   producers    any thread that calls queue::add_package, tasks that run *)
(*                on a worker included                                     *)
(*   the waiter   the thread of queue::cycle, which hands tasks to workers *)
(*   the workers  the threads of worker::process                           *)
(*   the owner    the thread that calls queue::start, queue::stop and the  *)
(*                destructor                                               *)
(*                                                                         *)
(* A step is what a thread does between two places where the order of the  *)
(* threads matters.  In particular a thread that is about to wait on a     *)
(* condition ("sleep") is not yet waiting: it misses a notification.       *)
(* Tasks are numbered in the order in which they are pushed.               *)
(*                                                                         *)
(* Locks.  A worker holds its m_mutex while it runs a task and until it    *)
(* waits.  The waiter takes it with try_lock and gives it back within one  *)
(* step (is_waiting and assign_package), and it is the only thread that    *)
(* ever takes the queue's m_mutex: no notification is sent under it.       *)
(*                                                                         *)
(* Waits.  A wait of a worker that returned without a notification would   *)
(* run a null or an old m_current, since it has no predicate (worker.cpp   *)
(* line 48); that this does not happen is an assumption of the model.  The *)
(* waiter's wait may return so.                                            *)
(***************************************************************************)
EXTENDS Integers, Sequences

CONSTANTS
  NumWorkers, \* m_size: the workers assign() looks at, in this order
  Producers,  \* the threads that add packages
  MaxTasks,   \* bound: packages added
  MaxStarts   \* bound: calls of queue::start

Workers == 1 .. NumWorkers
Tasks == 1 .. MaxTasks
NoTask == 0

ASSUME QueueAssumption ==
  /\ NumWorkers \in Nat \ {0}
  /\ MaxTasks \in Nat
  /\ MaxStarts \in Nat

VARIABLES
  pump,      \* pump::m_queue; its length is pump::m_load
  added,     \* number of tasks pushed so far
  ppc,       \* producers: "idle", or "notify" inside add_package
  wpc,       \* workers: where the thread of process() is
  wrunning,  \* worker::m_running
  wactive,   \* worker::m_active
  loaded,    \* worker::m_loaded
  current,   \* worker::m_current
  qpc,       \* the waiter: where the thread of cycle() is
  scan,      \* the waiter: the worker that assign() is at
  raw,       \* the waiter: raw_pkg
  qrunning,  \* queue::m_running
  qactive,   \* queue::m_active
  opc,       \* the owner: where it is in start() or stop()
  turn,      \* the owner: the worker that pool::start or pool::stop is at
  starts,    \* calls of start so far
  runs       \* history: how many times a task was run

taskVars == <<pump, added, ppc, runs>>
flagVars == <<wrunning, wactive>>
cargoVars == <<loaded, current>>
waiterVars == <<scan, raw, qactive>>
ownerVars == <<opc, turn, starts, qrunning>>
vars == <<taskVars, wpc, flagVars, cargoVars, qpc, waiterVars, ownerVars>>

Init ==
  /\ pump = <<>>
  /\ added = 0
  /\ ppc = [p \in Producers |-> "idle"]
  /\ wpc = [w \in Workers |-> "off"]
  /\ wrunning = [w \in Workers |-> FALSE]
  /\ wactive = [w \in Workers |-> FALSE]
  /\ loaded = [w \in Workers |-> FALSE]
  /\ current = [w \in Workers |-> NoTask]
  /\ qpc = "off"
  /\ scan = 1
  /\ raw = NoTask
  /\ qrunning = FALSE
  /\ qactive = FALSE
  /\ opc = "down"
  /\ turn = 1
  /\ starts = 0
  /\ runs = [t \in Tasks |-> 0]

WorkerGoes(w, from, to) == wpc[w] = from /\ wpc' = [wpc EXCEPT ![w] = to]
WaiterGoes(from, to) == qpc = from /\ qpc' = to
OwnerGoes(from, to) == opc = from /\ opc' = to

(* notify_all or notify_one: no effect on a thread that is not waiting. *)
NotifyWaiter == qpc' = IF qpc = "waiting" THEN "awake" ELSE qpc
NotifyWorker(w) ==
  wpc' = IF wpc[w] = "waiting" THEN [wpc EXCEPT ![w] = "awake"] ELSE wpc

-----------------------------------------------------------------------------
(* The queue is being destroyed: no caller may use it any more. *)
Dying ==
  \/ opc \in {"joinLast", "destroyed", "aborted"}
  \/ opc \in {"stopWorker", "joinWorker"} /\ ~qrunning

(* queue::add_package: pump::add_package under the pump's lock ... *)
Push(p) ==
  /\ ~Dying
  /\ ppc[p] = "idle"
  /\ added < MaxTasks
  /\ added' = added + 1
  /\ pump' = Append(pump, added + 1)
  /\ ppc' = [ppc EXCEPT ![p] = "notify"]
  /\ UNCHANGED <<runs, wpc, flagVars, cargoVars, qpc, waiterVars, ownerVars>>

(* ... and the notification of the waiter. *)
NotifyPushed(p) ==
  /\ ppc[p] = "notify"
  /\ ppc' = [ppc EXCEPT ![p] = "idle"]
  /\ NotifyWaiter
  /\ UNCHANGED <<pump, added, runs, wpc, flagVars, cargoVars, waiterVars, ownerVars>>

-----------------------------------------------------------------------------
(* worker::process takes the lock, reports that it runs, enters its loop. *)
WorkerBegin(w) ==
  /\ WorkerGoes(w, "begin", "sleep")
  /\ loaded' = [loaded EXCEPT ![w] = FALSE]
  /\ wactive' = [wactive EXCEPT ![w] = TRUE]
  /\ wrunning' = [wrunning EXCEPT ![w] = TRUE]
  /\ UNCHANGED <<taskVars, current, qpc, waiterVars, ownerVars>>

(* m_condition.wait(lock) starts to wait and releases the lock. *)
WorkerSleep(w) ==
  /\ WorkerGoes(w, "sleep", "waiting")
  /\ UNCHANGED <<taskVars, flagVars, cargoVars, qpc, waiterVars, ownerVars>>

(* The wait returns with the lock and m_running is FALSE: the task goes. *)
WorkerQuit(w) ==
  /\ ~wrunning[w]
  /\ WorkerGoes(w, "awake", "gone")
  /\ current' = [current EXCEPT ![w] = NoTask]
  /\ UNCHANGED <<taskVars, flagVars, loaded, qpc, waiterVars, ownerVars>>

(* The wait returns with the lock: m_current->run(), whatever it points to.*)
WorkerRun(w) ==
  /\ wrunning[w]
  /\ IF current[w] = NoTask
     THEN WorkerGoes(w, "awake", "crashed") /\ UNCHANGED runs
     ELSE WorkerGoes(w, "awake", "run") /\ runs' = [runs EXCEPT ![current[w]] = @ + 1]
  /\ UNCHANGED <<pump, added, ppc, flagVars, cargoVars, qpc, waiterVars, ownerVars>>

(* The task returns; m_current keeps it.  The lock is still held when the  *)
(* waiter is notified and until the next wait.                             *)
WorkerFinish(w) ==
  /\ WorkerGoes(w, "run", IF wrunning[w] THEN "sleep" ELSE "gone")
  /\ loaded' = [loaded EXCEPT ![w] = FALSE]
  /\ NotifyWaiter
  /\ UNCHANGED <<taskVars, flagVars, current, waiterVars, ownerVars>>

Worker(w) ==
  WorkerBegin(w) \/ WorkerSleep(w) \/ WorkerQuit(w) \/ WorkerRun(w) \/ WorkerFinish(w)

-----------------------------------------------------------------------------
(* queue::cycle up to its loop. *)
CycleBegin ==
  /\ WaiterGoes("begin", "check")
  /\ qactive' = TRUE
  /\ raw' = NoTask
  /\ UNCHANGED <<taskVars, wpc, flagVars, cargoVars, scan, ownerVars>>

(* while(m_running) if(m_pump.get_load() == 0): the pump alone decides     *)
(* whether to wait, raw_pkg does not.                                      *)
CycleCheck ==
  /\ WaiterGoes("check", IF ~qrunning THEN "gone"
                         ELSE IF pump = <<>> THEN "sleep" ELSE "awake")
  /\ UNCHANGED <<taskVars, wpc, flagVars, cargoVars, waiterVars, ownerVars>>

(* m_cycle_condition.wait(lock) starts to wait. *)
CycleSleep ==
  /\ WaiterGoes("sleep", "waiting")
  /\ UNCHANGED <<taskVars, wpc, flagVars, cargoVars, waiterVars, ownerVars>>

(* The wait of the waiter returns without a notification. *)
CycleSpurious ==
  /\ WaiterGoes("waiting", "awake")
  /\ UNCHANGED <<taskVars, wpc, flagVars, cargoVars, waiterVars, ownerVars>>

(* After the wait, or instead of it: if(!m_running) the thread ends ... *)
CycleQuit ==
  /\ ~qrunning
  /\ WaiterGoes("awake", "gone")
  /\ UNCHANGED <<taskVars, wpc, flagVars, cargoVars, waiterVars, ownerVars>>

(* pump::next_package: the oldest task and what is left, or no task. *)
NextPackage ==
  IF pump = <<>> THEN [task |-> NoTask, left |-> pump]
  ELSE [task |-> Head(pump), left |-> Tail(pump)]

(* Variants: a definition named Bad... is a mistake in the one that        *)
(* follows it, and shows what the properties below would notice.           *)
BadCycleTakeLast ==
  /\ qrunning
  /\ IF raw = NoTask /\ pump # <<>>
     THEN raw' = pump[Len(pump)] /\ pump' = SubSeq(pump, 1, Len(pump) - 1)
     ELSE UNCHANGED <<raw, pump>>
  /\ WaiterGoes("awake", IF raw' = NoTask THEN "check" ELSE "assign")
  /\ scan' = 1
  /\ UNCHANGED <<added, ppc, runs, wpc, flagVars, cargoVars, qactive, ownerVars>>

BadCycleTakeAnyway ==
  /\ qrunning
  /\ IF pump # <<>>
     THEN raw' = NextPackage.task /\ pump' = NextPackage.left
     ELSE UNCHANGED <<raw, pump>>
  /\ WaiterGoes("awake", IF raw' = NoTask THEN "check" ELSE "assign")
  /\ scan' = 1
  /\ UNCHANGED <<added, ppc, runs, wpc, flagVars, cargoVars, qactive, ownerVars>>

(* ... and otherwise the pump is asked for a task, unless there is still   *)
(* one to hand out.                                                        *)
CycleTake ==
  /\ qrunning
  /\ IF raw = NoTask
     THEN raw' = NextPackage.task /\ pump' = NextPackage.left
     ELSE UNCHANGED <<raw, pump>>
  /\ WaiterGoes("awake", IF raw' = NoTask THEN "check" ELSE "assign")
  /\ scan' = 1
  /\ UNCHANGED <<added, ppc, runs, wpc, flagVars, cargoVars, qactive, ownerVars>>

BadIsWaitingWithoutLock(w) == wpc[w] # "run" /\ ~loaded[w]

(* worker::is_waiting: try_lock succeeds and no task is loaded. *)
IsWaiting(w) == wpc[w] \in {"off", "begin", "waiting", "awake", "gone"} /\ ~loaded[w]

BadAssignPackage ==
  /\ IsWaiting(scan)
  /\ WaiterGoes("assign", "notify")
  /\ current' = [current EXCEPT ![scan] = raw]
  /\ loaded' = [loaded EXCEPT ![scan] = TRUE]
  /\ UNCHANGED <<taskVars, wpc, flagVars, raw, scan, qactive, ownerVars>>

(* is_waiting holds for the worker: assign_package, which unlocks. *)
AssignPackage ==
  /\ IsWaiting(scan)
  /\ WaiterGoes("assign", "notify")
  /\ current' = [current EXCEPT ![scan] = raw]
  /\ loaded' = [loaded EXCEPT ![scan] = TRUE]
  /\ raw' = NoTask
  /\ UNCHANGED <<taskVars, wpc, flagVars, scan, qactive, ownerVars>>

(* ... or it does not, and the loop of assign goes on or gives up: then    *)
(* the task stays in raw_pkg.                                              *)
AssignNext ==
  /\ ~IsWaiting(scan)
  /\ WaiterGoes("assign", IF scan < NumWorkers THEN "assign" ELSE "check")
  /\ scan' = IF scan < NumWorkers THEN scan + 1 ELSE scan
  /\ UNCHANGED <<taskVars, wpc, flagVars, cargoVars, raw, qactive, ownerVars>>

BadAssignNotify ==
  /\ WaiterGoes("notify", "check")
  /\ UNCHANGED <<taskVars, wpc, flagVars, cargoVars, waiterVars, ownerVars>>

(* worker::notify, after the lock was given back. *)
AssignNotify ==
  /\ WaiterGoes("notify", "check")
  /\ NotifyWorker(scan)
  /\ UNCHANGED <<taskVars, flagVars, cargoVars, waiterVars, ownerVars>>

Waiter ==
  \/ CycleBegin \/ CycleCheck \/ CycleSleep \/ CycleQuit \/ CycleTake
  \/ AssignPackage \/ AssignNext \/ AssignNotify

-----------------------------------------------------------------------------
(* queue::start: pool::start starts the workers one after the other.  (On  *)
(* a second start pool::init adds workers that assign never looks at; they *)
(* are left out.)                                                          *)
Start ==
  /\ starts < MaxStarts
  /\ OwnerGoes("down", "startWorker")
  /\ starts' = starts + 1
  /\ qactive' = FALSE
  /\ turn' = 1
  /\ UNCHANGED <<taskVars, wpc, flagVars, cargoVars, qpc, scan, raw, qrunning>>

(* worker::start, which does nothing for a worker that is active: stop has *)
(* made them all inactive.                                                 *)
StartWorker ==
  /\ ~wactive[turn]
  /\ OwnerGoes("startWorker", "spin")
  /\ wrunning' = [wrunning EXCEPT ![turn] = FALSE]
  /\ wpc' = [wpc EXCEPT ![turn] = "begin"]
  /\ UNCHANGED <<taskVars, wactive, cargoVars, qpc, waiterVars, turn, starts, qrunning>>

NextTurn == turn' = IF turn < NumWorkers THEN turn + 1 ELSE turn

(* pool::start spins until the worker reports that it runs. *)
Spin ==
  /\ wrunning[turn]
  /\ OwnerGoes("spin", IF turn < NumWorkers THEN "startWorker" ELSE "spawn")
  /\ NextTurn
  /\ UNCHANGED <<taskVars, wpc, flagVars, cargoVars, qpc, waiterVars, starts, qrunning>>

(* The waiter thread is created before m_running is set. *)
SpawnWaiter ==
  /\ OwnerGoes("spawn", "setRunning")
  /\ qpc' = "begin"
  /\ UNCHANGED <<taskVars, wpc, flagVars, cargoVars, waiterVars, turn, starts, qrunning>>

SetRunning ==
  /\ OwnerGoes("setRunning", "up")
  /\ qrunning' = TRUE
  /\ UNCHANGED <<taskVars, wpc, flagVars, cargoVars, qpc, waiterVars, turn, starts>>

(* queue::stop: pool::stop stops the workers one after the other. *)
Stop ==
  /\ OwnerGoes("up", "stopWorker")
  /\ turn' = 1
  /\ UNCHANGED <<taskVars, wpc, flagVars, cargoVars, qpc, waiterVars, starts, qrunning>>

(* pool::stop is called by queue::stop, which goes on with the waiter, and *)
(* by the destructor of the pool, when m_running has been reset already.   *)
AfterWorker(w) ==
  IF w < NumWorkers THEN "stopWorker"
  ELSE IF qrunning THEN "stopWaiter" ELSE "destroyed"

(* worker::stop: m_running = false and notify_one(), without the lock.     *)
(* (It returns at once if the worker is not active, but pool::start has    *)
(* waited for every worker to become active.)                              *)
StopWorker ==
  /\ wactive[turn]
  /\ OwnerGoes("stopWorker", "joinWorker")
  /\ wrunning' = [wrunning EXCEPT ![turn] = FALSE]
  /\ NotifyWorker(turn)
  /\ UNCHANGED <<taskVars, wactive, cargoVars, qpc, waiterVars, turn, starts, qrunning>>

JoinWorker ==
  /\ wpc[turn] = "gone"
  /\ OwnerGoes("joinWorker", AfterWorker(turn))
  /\ wactive' = [wactive EXCEPT ![turn] = FALSE]
  /\ NextTurn
  /\ UNCHANGED <<taskVars, wpc, wrunning, cargoVars, qpc, waiterVars, starts, qrunning>>

(* Only when the pool has stopped is the waiter told to stop. *)
StopWaiter ==
  /\ OwnerGoes("stopWaiter", "joinWaiter")
  /\ qrunning' = FALSE
  /\ NotifyWaiter
  /\ UNCHANGED <<taskVars, wpc, flagVars, cargoVars, waiterVars, turn, starts>>

BadJoinWaiter ==
  /\ OwnerGoes("joinWaiter", "down")
  /\ qactive' = FALSE
  /\ UNCHANGED <<taskVars, wpc, flagVars, cargoVars, qpc, scan, raw, turn, starts, qrunning>>

JoinWaiter ==
  /\ qpc = "gone"
  /\ OwnerGoes("joinWaiter", "down")
  /\ qactive' = FALSE
  /\ UNCHANGED <<taskVars, wpc, flagVars, cargoVars, qpc, scan, raw, turn, starts, qrunning>>

(* ~queue of a queue that was not stopped, by a caller nobody else calls:  *)
(* it stops the waiter if that has begun; if not, the thread of m_waiter   *)
(* is destroyed while it can be joined, which ends the process.            *)
Destroy ==
  /\ \A p \in Producers : ppc[p] = "idle"
  /\ OwnerGoes("up", IF qactive THEN "joinLast" ELSE "aborted")
  /\ IF qactive THEN qrunning' = FALSE /\ NotifyWaiter
     ELSE UNCHANGED <<qrunning, qpc>>
  /\ UNCHANGED <<taskVars, wpc, flagVars, cargoVars, waiterVars, turn, starts>>

(* The members are destroyed from the last to the first: the condition     *)
(* that the workers notify and the pump with its tasks before the pool,    *)
(* which only then stops the workers.                                      *)
JoinLast ==
  /\ qpc = "gone"
  /\ OwnerGoes("joinLast", "stopWorker")
  /\ qactive' = FALSE
  /\ pump' = <<>>
  /\ turn' = 1
  /\ UNCHANGED <<added, ppc, runs, wpc, flagVars, cargoVars, qpc, scan, raw, starts, qrunning>>

(* What start, stop and ~queue do once they have been called. *)
Owner ==
  \/ StartWorker \/ Spin \/ SpawnWaiter \/ SetRunning
  \/ StopWorker \/ JoinWorker \/ StopWaiter \/ JoinWaiter \/ JoinLast

Next ==
  /\ opc # "aborted"
  /\ \/ \E p \in Producers : Push(p) \/ NotifyPushed(p)
     \/ \E w \in Workers : Worker(w)
     \/ Waiter \/ CycleSpurious
     \/ Start \/ Stop \/ Destroy \/ Owner

(* Threads that can take a step are scheduled, and a task returns; nobody  *)
(* has to add a package, to start the queue or to stop it.                 *)
Fairness ==
  /\ \A p \in Producers : WF_vars(NotifyPushed(p))
  /\ \A w \in Workers : WF_vars(Worker(w))
  /\ WF_vars(Waiter)
  /\ WF_vars(Owner)

Spec == Init /\ [][Next]_vars /\ Fairness

-----------------------------------------------------------------------------
TypeOK ==
  /\ pump \in Seq(Tasks)
  /\ added \in 0 .. MaxTasks
  /\ ppc \in [Producers -> {"idle", "notify"}]
  /\ wpc \in [Workers -> {"off", "begin", "sleep", "waiting", "awake", "run",
                          "gone", "crashed"}]
  /\ wrunning \in [Workers -> BOOLEAN]
  /\ wactive \in [Workers -> BOOLEAN]
  /\ loaded \in [Workers -> BOOLEAN]
  /\ current \in [Workers -> 0 .. MaxTasks]
  /\ qpc \in {"off", "begin", "check", "sleep", "waiting", "awake", "assign",
              "notify", "gone"}
  /\ scan \in Workers
  /\ raw \in 0 .. MaxTasks
  /\ qrunning \in BOOLEAN
  /\ qactive \in BOOLEAN
  /\ opc \in {"down", "startWorker", "spin", "spawn", "setRunning", "up",
              "stopWorker", "joinWorker", "stopWaiter", "joinWaiter",
              "joinLast", "destroyed", "aborted"}
  /\ turn \in Workers
  /\ starts \in 0 .. MaxStarts
  /\ runs \in [Tasks -> Nat]

(* Tasks that wait for their turn, oldest first: the one in raw_pkg is     *)
(* older than the ones in the pump.                                        *)
Queued == IF raw = NoTask THEN pump ELSE <<raw>> \o pump

(* The task a worker has been given and has not started. *)
Assigned(w) == loaded[w] /\ wpc[w] \in {"waiting", "awake"}

(* Tasks are handed out in the order in which they were added: what is     *)
(* still queued is in order and younger than whatever a worker was given   *)
(* (pump.cpp:37-49, and raw_pkg in queue.cpp:83-105, kept over rounds).    *)
HandedOutInOrder ==
  /\ \A i, j \in DOMAIN Queued : i < j => Queued[i] < Queued[j]
  /\ \A i \in DOMAIN Queued, w \in Workers : current[w] < Queued[i]

(* No task is run twice, and one that still lies in the queue or in front  *)
(* of a worker has not been run.  (m_current is never reset after a run.)  *)
RunAtMostOnce ==
  /\ \A t \in Tasks : runs[t] <= 1
  /\ \A i \in DOMAIN Queued : runs[Queued[i]] = 0
  /\ \A w \in Workers : Assigned(w) => runs[current[w]] = 0

(* The first start at most, and no stop yet. *)
NeverStopped ==
  \/ opc = "down" /\ starts = 0
  \/ opc \in {"startWorker", "spin", "spawn", "setRunning", "up"} /\ starts = 1

(* Until somebody stops the queue every task that was added is in the      *)
(* queue, with one worker, or has been run: no hand-over loses one.        *)
NoTaskLostWhileUp ==
  NeverStopped =>
    \A t \in 1 .. added :
      \/ \E i \in DOMAIN Queued : Queued[i] = t
      \/ runs[t] = 1
      \/ \E w \in Workers : Assigned(w) /\ current[w] = t

(* A worker that was given a task and still waits is about to be notified: *)
(* assign_package gives the lock back before notify() is called, and       *)
(* is_waiting must not mistake a worker on its way into the wait for one   *)
(* that waits.                                                             *)
AssignedWorkerIsNotified ==
  \A w \in Workers :
    loaded[w] /\ wpc[w] = "waiting" => qpc = "notify" /\ scan = w

(* "Notify the thread that there is work to be done" (worker.hpp:90): a    *)
(* worker that goes to work has the task it was given to run, and does not *)
(* follow a null m_current.                                                *)
RunsWhatWasAssigned ==
  \A w \in Workers :
    /\ wpc[w] # "crashed"
    /\ wpc[w] = "run" => loaded[w]
    /\ Assigned(w) => current[w] # NoTask

(* The task of a worker that is running it is not replaced or destroyed    *)
(* under it: m_current is written by the waiter, without a check of its    *)
(* own, on the strength of is_waiting.                                     *)
RunningTaskIsKept ==
  [][\A w \in Workers : wpc[w] = "run" => current'[w] = current[w]]_vars

(* assign_package, notify and the wait without a predicate fit together:   *)
(* a worker is only woken with a task, and one with a task is woken.       *)
HandOver == TypeOK /\ AssignedWorkerIsNotified /\ RunsWhatWasAssigned

(* Once stop or the destructor has returned no thread of the queue is left *)
(* to run a task.                                                          *)
StopMeansQuiet ==
  opc \in {"down", "destroyed"} =>
    /\ qpc \in {"off", "gone"}
    /\ \A w \in Workers : wpc[w] \in {"off", "gone"}

(* A task that was given to a worker is run, unless the worker is stopped, *)
(* and not replaced by another while it is (worker.cpp lines 44-60, 83).   *)
AssignedTaskIsRun ==
  /\ RunningTaskIsKept
  /\ \A w \in Workers : (loaded[w] /\ wpc[w] # "gone") ~> (~loaded[w] \/ wpc[w] = "gone")

=============================================================================
