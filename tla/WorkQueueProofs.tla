-------------------------- MODULE WorkQueueProofs --------------------------
(***************************************************************************)
(* Proofs about the thread pool, for any producers, workers, tasks and     *)
(* starts: tasks are handed out in order and run at most once, workers are *)
(* woken with a task, and nothing runs after a stop.                       *)
(***************************************************************************)
EXTENDS WorkQueue, TLAPS

(* What lies in the pump is younger than the task in the waiter's hands,   *)
(* and that one younger than what any worker has ever had.                 *)
PumpInOrder ==
  /\ \A i, j \in 1 .. Len(pump) : i < j => pump[i] < pump[j]
  /\ \A i \in 1 .. Len(pump) :
       /\ pump[i] <= added /\ raw < pump[i] /\ runs[pump[i]] = 0
       /\ \A w \in Workers : current[w] < pump[i]

RawInOrder ==
  /\ raw <= added
  /\ \A w \in Workers : current[w] <= added
  /\ raw # NoTask => runs[raw] = 0 /\ \A w \in Workers : current[w] < raw
  /\ qpc = "assign" => raw # NoTask
  /\ \A t \in Tasks : t > added => runs[t] = 0

RunsOnce ==
  /\ \A t \in Tasks : runs[t] <= 1
  /\ \A w \in Workers : Assigned(w) => current[w] # NoTask /\ runs[current[w]] = 0
  /\ \A w, v \in Workers : Assigned(w) /\ Assigned(v) /\ current[w] = current[v] => w = v

(* What each place of a worker says about its task. *)
WorkersKnow ==
  /\ AssignedWorkerIsNotified
  /\ \A w \in Workers :
       /\ wpc[w] # "crashed"
       /\ wpc[w] = "sleep" => ~loaded[w]
       /\ wpc[w] = "run" => loaded[w]
       /\ wpc[w] = "awake" /\ wrunning[w] => loaded[w]
       /\ wpc[w] \in {"off", "begin"} => ~wrunning[w]
  /\ qpc = "notify" =>
       /\ loaded[scan] /\ wpc[scan] \in {"waiting", "awake", "gone"}
       /\ wpc[scan] = "awake" => ~wrunning[scan]

Ended == {"off", "gone"}

Begun(w) == wpc[w] \notin {"off", "begin"}

(* How far the owner is, and which threads have ended by then. *)
OwnerKnows ==
  /\ opc \in {"down", "startWorker", "spin", "spawn"} => qpc \in Ended
  /\ opc \in {"startWorker", "spin"} => \A w \in Workers : w < turn => Begun(w)
  /\ opc = "spawn" \/ qpc \notin Ended => \A w \in Workers : Begun(w)
  /\ opc \in {"up", "stopWaiter"} => qrunning
  /\ opc \in {"stopWorker", "joinWorker"} /\ ~qrunning => qpc \in Ended
  /\ opc \in {"stopWorker", "joinWorker"} =>
       \A w \in Workers : w < turn => wpc[w] = "gone"
  /\ opc \in {"stopWaiter", "joinWaiter"} => \A w \in Workers : wpc[w] = "gone"
  /\ StopMeansQuiet

IInv ==
  /\ TypeOK
  /\ PumpInOrder
  /\ RawInOrder
  /\ RunsOnce
  /\ WorkersKnow
  /\ OwnerKnows

-----------------------------------------------------------------------------
LEMMA InitIInv == Init => IInv
<1> SUFFICES ASSUME Init PROVE IInv
  OBVIOUS
<1>0. pump \in Seq(Tasks)
  BY DEF Init
<1> USE QueueAssumption DEF Init, Workers, Tasks, NoTask
<1>1. TypeOK
  <2>1. /\ wpc \in [Workers -> {"off", "begin", "sleep", "waiting", "awake", "run",
                                "gone", "crashed"}]
        /\ wrunning \in [Workers -> BOOLEAN] /\ wactive \in [Workers -> BOOLEAN]
        /\ loaded \in [Workers -> BOOLEAN] /\ current \in [Workers -> 0 .. MaxTasks]
    OBVIOUS
  <2>2. /\ scan \in Workers /\ turn \in Workers /\ raw \in 0 .. MaxTasks
        /\ added \in 0 .. MaxTasks /\ starts \in 0 .. MaxStarts
        /\ runs \in [Tasks -> Nat] /\ ppc \in [Producers -> {"idle", "notify"}]
    OBVIOUS
  <2> QED
    BY <1>0, <2>1, <2>2 DEF TypeOK
<1>2. PumpInOrder /\ RawInOrder
  BY DEF PumpInOrder, RawInOrder
<1>3. RunsOnce /\ WorkersKnow
  BY DEF RunsOnce, WorkersKnow, Assigned, AssignedWorkerIsNotified
<1>4. OwnerKnows
  BY DEF OwnerKnows, Begun, StopMeansQuiet, Ended
<1> QED
  BY <1>1, <1>2, <1>3, <1>4 DEF IInv

(* Producers put the youngest task at the end. *)
LEMMA ProducersKeepIInv ==
  ASSUME IInv, NEW p \in Producers, Push(p) \/ NotifyPushed(p)
  PROVE  IInv'
<1> USE QueueAssumption DEF IInv, taskVars, flagVars, cargoVars, waiterVars, ownerVars
<1>1. CASE Push(p)
  <2>1. /\ added + 1 \in Tasks /\ added \in Nat
        /\ added' = added + 1 /\ pump' = Append(pump, added + 1)
        /\ ppc' = [ppc EXCEPT ![p] = "notify"]
        /\ UNCHANGED <<runs, wpc, wrunning, wactive, loaded, current, qpc, scan, raw,
                       qactive, opc, turn, starts, qrunning>>
    BY <1>1 DEF Push, TypeOK, Tasks
  <2>2. TypeOK'
    BY <2>1 DEF TypeOK, Tasks
  <2>3. /\ Len(pump') = Len(pump) + 1 /\ Len(pump) \in Nat
        /\ \A i \in 1 .. Len(pump) : pump'[i] = pump[i] /\ pump[i] \in Tasks
        /\ pump'[Len(pump) + 1] = added + 1
    BY <2>1 DEF TypeOK
  <2>4. raw \in Nat /\ \A w \in Workers : current[w] \in Nat
    BY DEF TypeOK
  <2>5. PumpInOrder'
    <3>1. \A i, j \in 1 .. Len(pump') : i < j => pump'[i] < pump'[j]
      <4> SUFFICES ASSUME NEW i \in 1 .. Len(pump), NEW j \in 1 .. Len(pump) + 1, i < j
                   PROVE  pump'[i] < pump'[j]
        BY <2>3 DEF Tasks
      <4>1. CASE j = Len(pump) + 1
        BY <2>1, <2>3, <4>1 DEF PumpInOrder, Tasks
      <4>2. CASE j # Len(pump) + 1
        BY <2>3, <4>2 DEF PumpInOrder
      <4> QED
        BY <4>1, <4>2
    <3>2. \A i \in 1 .. Len(pump') :
            /\ pump'[i] <= added' /\ raw < pump'[i] /\ runs[pump'[i]] = 0
            /\ \A w \in Workers : current[w] < pump'[i]
      BY <2>1, <2>3, <2>4 DEF PumpInOrder, RawInOrder, Tasks
    <3> QED
      BY <2>1, <3>1, <3>2 DEF PumpInOrder
  <2>6. RawInOrder'
    BY <2>1, <2>4 DEF RawInOrder, Tasks
  <2>7. RunsOnce' /\ WorkersKnow' /\ OwnerKnows'
    BY <2>1 DEF RunsOnce, WorkersKnow, OwnerKnows, Begun, Assigned,
           AssignedWorkerIsNotified, StopMeansQuiet
  <2> QED
    BY <2>2, <2>5, <2>6, <2>7
<1>2. CASE NotifyPushed(p)
  <2>1. /\ ppc' = [ppc EXCEPT ![p] = "idle"]
        /\ qpc' = (IF qpc = "waiting" THEN "awake" ELSE qpc)
        /\ UNCHANGED <<pump, added, runs, wpc, wrunning, wactive, loaded, current, scan,
                       raw, qactive, opc, turn, starts, qrunning>>
    BY <1>2 DEF NotifyPushed, NotifyWaiter
  <2>2. TypeOK'
    BY <2>1 DEF TypeOK
  <2>3. PumpInOrder' /\ RawInOrder'
    BY <2>1 DEF PumpInOrder, RawInOrder
  <2>4. RunsOnce' /\ WorkersKnow' /\ OwnerKnows'
    BY <2>1 DEF RunsOnce, WorkersKnow, OwnerKnows, Begun, Assigned,
           AssignedWorkerIsNotified, StopMeansQuiet, Ended
  <2> QED
    BY <2>2, <2>3, <2>4
<1> QED
  BY <1>1, <1>2

(* A worker only ever runs the task it was woken with. *)
LEMMA WorkersKeepIInv ==
  ASSUME IInv, NEW w \in Workers, Worker(w)
  PROVE  IInv'
<1> USE QueueAssumption DEF IInv, taskVars, flagVars, cargoVars, waiterVars, ownerVars, WorkerGoes
<1>1. CASE WorkerBegin(w)
  <2>1. TypeOK' /\ PumpInOrder' /\ RawInOrder'
    BY <1>1 DEF WorkerBegin, TypeOK, PumpInOrder, RawInOrder
  <2>2. RunsOnce' /\ WorkersKnow'
    BY <1>1 DEF WorkerBegin, TypeOK, RunsOnce, WorkersKnow, Assigned, AssignedWorkerIsNotified
  <2>3. OwnerKnows'
    BY <1>1 DEF WorkerBegin, TypeOK, OwnerKnows, Begun, StopMeansQuiet
  <2> QED
    BY <2>1, <2>2, <2>3
<1>2. CASE WorkerSleep(w)
  <2>1. TypeOK' /\ PumpInOrder' /\ RawInOrder'
    BY <1>2 DEF WorkerSleep, TypeOK, PumpInOrder, RawInOrder
  <2>2. RunsOnce' /\ WorkersKnow'
    BY <1>2 DEF WorkerSleep, TypeOK, RunsOnce, WorkersKnow, Assigned, AssignedWorkerIsNotified
  <2>3. OwnerKnows'
    BY <1>2 DEF WorkerSleep, TypeOK, OwnerKnows, Begun, StopMeansQuiet
  <2> QED
    BY <2>1, <2>2, <2>3
<1>3. CASE WorkerQuit(w)
  <2>1. TypeOK'
    BY <1>3 DEF WorkerQuit, TypeOK, NoTask
  <2>2. PumpInOrder' /\ RawInOrder'
    <3>1. /\ UNCHANGED <<pump, added, runs, raw, qpc>>
          /\ current' = [current EXCEPT ![w] = NoTask]
      BY <1>3 DEF WorkerQuit
    <3>2. \A v \in Workers : current'[v] \in {current[v], NoTask}
      BY <3>1 DEF TypeOK
    <3>3. /\ NoTask = 0 /\ added \in Nat /\ raw \in Nat
          /\ \A i \in 1 .. Len(pump) : pump[i] \in 1 .. MaxTasks
      BY DEF TypeOK, Tasks, NoTask
    <3>4. PumpInOrder'
      BY <3>1, <3>2, <3>3 DEF PumpInOrder
    <3>5. RawInOrder'
      BY <3>1, <3>2, <3>3 DEF RawInOrder
    <3> QED
      BY <3>4, <3>5
  <2>3. RunsOnce' /\ WorkersKnow'
    BY <1>3 DEF WorkerQuit, TypeOK, RunsOnce, WorkersKnow, Assigned, AssignedWorkerIsNotified
  <2>4. OwnerKnows'
    BY <1>3 DEF WorkerQuit, TypeOK, OwnerKnows, Begun, StopMeansQuiet
  <2> QED
    BY <2>1, <2>2, <2>3, <2>4
<1>4. CASE WorkerRun(w)
  <2>1. Assigned(w) /\ current[w] \in Tasks /\ runs[current[w]] = 0
    BY <1>4 DEF WorkerRun, WorkersKnow, RunsOnce, Assigned, TypeOK, NoTask, Tasks
  <2>2. /\ wrunning[w] /\ wpc[w] = "awake" /\ wpc' = [wpc EXCEPT ![w] = "run"]
        /\ runs' = [runs EXCEPT ![current[w]] = 1]
        /\ UNCHANGED <<pump, added, ppc, wrunning, wactive, loaded, current, qpc, scan, raw,
                       qactive, opc, turn, starts, qrunning>>
    BY <1>4, <2>1 DEF WorkerRun, NoTask, Tasks
  <2>3. TypeOK'
    BY <2>1, <2>2 DEF TypeOK
  <2>4. \A t \in Tasks : runs'[t] = IF t = current[w] THEN 1 ELSE runs[t]
    BY <2>1, <2>2 DEF TypeOK
  <2>5. PumpInOrder'
    <3>0. \A i \in 1 .. Len(pump) : pump[i] \in Tasks
      BY DEF TypeOK
    <3>1. \A i \in 1 .. Len(pump) : pump[i] \in Tasks /\ pump[i] # current[w]
      <4> SUFFICES ASSUME NEW i \in 1 .. Len(pump) PROVE pump[i] # current[w]
        BY <3>0
      <4>1. current[w] < pump[i] /\ pump[i] \in Nat /\ current[w] \in Nat
        BY <2>1, <3>0 DEF PumpInOrder, Tasks
      <4> QED
        BY <4>1
    <3> QED
      BY <2>2, <2>4, <3>1 DEF PumpInOrder
  <2>6. RawInOrder'
    BY <2>1, <2>2, <2>4 DEF RawInOrder, TypeOK, Tasks, NoTask
  <2>7. RunsOnce'
    <3>1. \A v \in Workers : Assigned(v)' => v # w /\ Assigned(v) /\ current[v] # current[w]
      BY <2>1, <2>2 DEF RunsOnce, Assigned, TypeOK
    <3>2. \A v \in Workers : Assigned(v) => current[v] \in Tasks
      BY DEF RunsOnce, TypeOK, Tasks, NoTask
    <3> QED
      BY <2>2, <2>4, <3>1, <3>2 DEF RunsOnce
  <2>8. WorkersKnow' /\ OwnerKnows'
    BY <2>1, <2>2
       DEF WorkersKnow, OwnerKnows, Begun, Assigned, AssignedWorkerIsNotified, StopMeansQuiet, TypeOK
  <2> QED
    BY <2>3, <2>5, <2>6, <2>7, <2>8
<1>5. CASE WorkerFinish(w)
  <2>1. /\ wpc[w] = "run" /\ wpc' = [wpc EXCEPT ![w] = IF wrunning[w] THEN "sleep" ELSE "gone"]
        /\ loaded' = [loaded EXCEPT ![w] = FALSE]
        /\ qpc' = (IF qpc = "waiting" THEN "awake" ELSE qpc)
        /\ UNCHANGED <<pump, added, ppc, runs, wrunning, wactive, current, scan, raw,
                       qactive, opc, turn, starts, qrunning>>
    BY <1>5 DEF WorkerFinish, NotifyWaiter
  <2>2. TypeOK' /\ PumpInOrder' /\ RawInOrder'
    BY <2>1 DEF TypeOK, PumpInOrder, RawInOrder
  <2>3. RunsOnce' /\ WorkersKnow'
    BY <2>1 DEF TypeOK, RunsOnce, WorkersKnow, Assigned, AssignedWorkerIsNotified
  <2>4. OwnerKnows'
    BY <2>1 DEF TypeOK, OwnerKnows, Begun, StopMeansQuiet, Ended
  <2> QED
    BY <2>2, <2>3, <2>4
<1> QED
  BY <1>1, <1>2, <1>3, <1>4, <1>5 DEF Worker

(* The waiter takes the oldest task and gives it to a worker that has none *)
(* and is not on its way into its wait.                                    *)
LEMMA WaiterKeepsIInv ==
  ASSUME IInv, Waiter \/ CycleSpurious
  PROVE  IInv'
<1> USE QueueAssumption DEF IInv, taskVars, flagVars, cargoVars, waiterVars, ownerVars, WaiterGoes
<1>1. CASE CycleBegin
  <2>1. TypeOK' /\ PumpInOrder' /\ RawInOrder'
    <3>1. TypeOK'
      BY <1>1 DEF CycleBegin, TypeOK, NoTask
    <3>2. \A i \in 1 .. Len(pump) : NoTask < pump[i]
      BY DEF TypeOK, NoTask, Tasks
    <3>3. PumpInOrder' /\ RawInOrder'
      BY <1>1, <3>2 DEF CycleBegin, TypeOK, PumpInOrder, RawInOrder, NoTask
    <3> QED
      BY <3>1, <3>3
  <2>2. RunsOnce' /\ WorkersKnow' /\ OwnerKnows'
    BY <1>1 DEF CycleBegin, RunsOnce, WorkersKnow, Assigned, AssignedWorkerIsNotified,
           OwnerKnows, Begun, StopMeansQuiet, Ended
  <2> QED
    BY <2>1, <2>2
<1>2. CASE CycleCheck \/ CycleSleep \/ CycleQuit \/ CycleSpurious
  <2>1. /\ qpc \in {"check", "sleep", "awake", "waiting"}
        /\ qpc' \in {"gone", "sleep", "awake", "waiting"}
        /\ UNCHANGED <<taskVars, wpc, flagVars, cargoVars, waiterVars, ownerVars>>
    BY <1>2 DEF CycleCheck, CycleSleep, CycleQuit, CycleSpurious
  <2>2. TypeOK' /\ PumpInOrder' /\ RawInOrder'
    BY <2>1 DEF TypeOK, PumpInOrder, RawInOrder
  <2>3. RunsOnce' /\ WorkersKnow' /\ OwnerKnows'
    BY <2>1 DEF RunsOnce, WorkersKnow, Assigned, AssignedWorkerIsNotified, OwnerKnows,
           Begun, StopMeansQuiet, Ended
  <2> QED
    BY <2>2, <2>3
<1>3. CASE CycleTake
  <2>1. /\ qpc = "awake" /\ qpc' = (IF raw' = NoTask THEN "check" ELSE "assign")
        /\ scan' = 1
        /\ UNCHANGED <<added, ppc, runs, wpc, wrunning, wactive, loaded, current, qactive,
                       opc, turn, starts, qrunning>>
    BY <1>3 DEF CycleTake
  <2>2. RunsOnce' /\ WorkersKnow' /\ OwnerKnows'
    BY <2>1 DEF RunsOnce, WorkersKnow, Assigned, AssignedWorkerIsNotified, OwnerKnows,
           Begun, StopMeansQuiet, Ended
  <2>3. CASE raw = NoTask /\ pump # <<>>
    <3>1. raw' = Head(pump) /\ pump' = Tail(pump)
      BY <1>3, <2>3 DEF CycleTake, NextPackage
    <3>2. /\ pump' \in Seq(Tasks) /\ raw' = pump[1] /\ raw' \in Tasks
          /\ Len(pump) \in Nat \ {0} /\ Len(pump') = Len(pump) - 1
          /\ \A i \in 1 .. Len(pump') : pump'[i] = pump[i + 1] /\ i + 1 \in 1 .. Len(pump)
      BY <2>3, <3>1 DEF TypeOK
    <3>3. TypeOK'
      <4>1. raw' \in 0 .. MaxTasks
        BY <3>2 DEF Tasks
      <4>2. scan' \in Workers
        BY <2>1 DEF Workers
      <4> QED
        BY <2>1, <3>2, <4>1, <4>2 DEF TypeOK
    <3>4. PumpInOrder'
      <4>1. \A i, j \in 1 .. Len(pump') : i < j => pump'[i] < pump'[j]
        BY <3>2 DEF PumpInOrder
      <4>2. \A i \in 1 .. Len(pump') : 1 < i + 1 /\ raw' < pump'[i]
        BY <3>2 DEF PumpInOrder
      <4> QED
        BY <2>1, <3>2, <4>1, <4>2 DEF PumpInOrder
    <3>5. RawInOrder'
      BY <2>1, <3>2 DEF RawInOrder, PumpInOrder, Tasks, NoTask
    <3> QED
      BY <2>2, <3>3, <3>4, <3>5
  <2>4. CASE ~(raw = NoTask /\ pump # <<>>)
    <3>1. raw' = raw /\ pump' = pump
      BY <1>3, <2>4 DEF CycleTake, NextPackage
    <3>2. TypeOK' /\ PumpInOrder' /\ RawInOrder'
      BY <2>1, <3>1 DEF TypeOK, PumpInOrder, RawInOrder, Workers
    <3> QED
      BY <2>2, <3>2
  <2> QED
    BY <2>3, <2>4
<1>4. CASE AssignPackage
  <2>1. /\ scan \in Workers /\ ~loaded[scan]
        /\ wpc[scan] \in {"off", "begin", "waiting", "awake", "gone"}
        /\ qpc = "assign" /\ qpc' = "notify"
        /\ current' = [current EXCEPT ![scan] = raw]
        /\ loaded' = [loaded EXCEPT ![scan] = TRUE]
        /\ raw' = NoTask
        /\ UNCHANGED <<pump, added, ppc, runs, wpc, wrunning, wactive, scan, qactive, opc,
                       turn, starts, qrunning>>
    BY <1>4 DEF AssignPackage, IsWaiting, TypeOK
  <2>2. /\ raw \in Tasks /\ raw # NoTask /\ runs[raw] = 0
        /\ \A v \in Workers : current[v] < raw /\ current[v] \in Nat
    BY <2>1 DEF RawInOrder, TypeOK, NoTask, Tasks
  <2>3. TypeOK'
    BY <2>1 DEF TypeOK, NoTask
  <2>4. \A v \in Workers : current'[v] = IF v = scan THEN raw ELSE current[v]
    BY <2>1 DEF TypeOK
  <2>5. PumpInOrder'
    BY <2>1, <2>2, <2>4 DEF PumpInOrder, TypeOK, NoTask, Tasks
  <2>6. RawInOrder'
    BY <2>1, <2>2, <2>4 DEF RawInOrder, TypeOK, NoTask
  <2>7. RunsOnce'
    BY <2>1, <2>2, <2>4 DEF RunsOnce, Assigned, TypeOK, NoTask, Tasks
  <2>8. WorkersKnow' /\ OwnerKnows'
    BY <2>1 DEF WorkersKnow, AssignedWorkerIsNotified, OwnerKnows, Begun, StopMeansQuiet, Ended, TypeOK
  <2> QED
    BY <2>3, <2>5, <2>6, <2>7, <2>8
<1>5. CASE AssignNext
  <2>1. /\ qpc = "assign" /\ qpc' \in {"assign", "check"} /\ scan' \in Workers
        /\ UNCHANGED <<taskVars, wpc, flagVars, cargoVars, raw, qactive, ownerVars>>
    BY <1>5 DEF AssignNext, TypeOK, Workers
  <2>2. TypeOK' /\ PumpInOrder' /\ RawInOrder'
    BY <2>1 DEF TypeOK, PumpInOrder, RawInOrder
  <2>3. RunsOnce' /\ WorkersKnow' /\ OwnerKnows'
    BY <2>1 DEF RunsOnce, WorkersKnow, Assigned, AssignedWorkerIsNotified, OwnerKnows,
           Begun, StopMeansQuiet, Ended
  <2> QED
    BY <2>2, <2>3
<1>6. CASE AssignNotify
  <2>1. /\ qpc = "notify" /\ qpc' = "check" /\ scan \in Workers
        /\ wpc' = IF wpc[scan] = "waiting" THEN [wpc EXCEPT ![scan] = "awake"] ELSE wpc
        /\ UNCHANGED <<taskVars, flagVars, cargoVars, waiterVars, ownerVars>>
    BY <1>6 DEF AssignNotify, NotifyWorker, TypeOK
  <2>2. TypeOK' /\ PumpInOrder' /\ RawInOrder'
    BY <2>1 DEF TypeOK, PumpInOrder, RawInOrder
  <2>3. RunsOnce'
    BY <2>1 DEF RunsOnce, Assigned, TypeOK
  <2>4. WorkersKnow' /\ OwnerKnows'
    BY <2>1 DEF WorkersKnow, AssignedWorkerIsNotified, OwnerKnows, Begun, StopMeansQuiet, Ended, TypeOK
  <2> QED
    BY <2>2, <2>3, <2>4
<1> QED
  BY <1>1, <1>2, <1>3, <1>4, <1>5, <1>6 DEF Waiter

(* start: every worker has begun before the waiter is created. *)
LEMMA StartKeepsIInv ==
  ASSUME IInv, Start \/ StartWorker \/ Spin \/ SpawnWaiter \/ SetRunning
  PROVE  IInv'
<1> USE QueueAssumption
    DEF IInv, taskVars, flagVars, cargoVars, waiterVars, ownerVars, OwnerGoes
<1>1. CASE Start
  <2>1. TypeOK' /\ PumpInOrder' /\ RawInOrder'
    <3>1. starts' \in 0 .. MaxStarts /\ turn' \in Workers
      BY <1>1 DEF Start, TypeOK, Workers
    <3> QED
      BY <1>1, <3>1 DEF Start, TypeOK, PumpInOrder, RawInOrder
  <2>2. RunsOnce' /\ WorkersKnow'
    BY <1>1 DEF Start, RunsOnce, WorkersKnow, Assigned, AssignedWorkerIsNotified
  <2>3. OwnerKnows'
    BY <1>1 DEF Start, OwnerKnows, Begun, StopMeansQuiet, Ended, Workers
  <2> QED
    BY <2>1, <2>2, <2>3
<1>2. CASE StartWorker
  <2>1. TypeOK' /\ PumpInOrder' /\ RawInOrder'
    BY <1>2 DEF StartWorker, TypeOK, PumpInOrder, RawInOrder
  <2>2. qpc \in Ended /\ turn \in Workers
    BY <1>2 DEF StartWorker, OwnerKnows, TypeOK
  <2>3. RunsOnce' /\ WorkersKnow'
    BY <1>2, <2>2
       DEF StartWorker, RunsOnce, WorkersKnow, Assigned, AssignedWorkerIsNotified, TypeOK, Ended
  <2>4. OwnerKnows'
    BY <1>2, <2>2 DEF StartWorker, OwnerKnows, Begun, StopMeansQuiet, Ended, TypeOK, Workers
  <2> QED
    BY <2>1, <2>3, <2>4
<1>3. CASE Spin
  <2>1. TypeOK' /\ PumpInOrder' /\ RawInOrder'
    <3>1. turn' \in Workers
      BY <1>3 DEF Spin, NextTurn, TypeOK, Workers
    <3> QED
      BY <1>3, <3>1 DEF Spin, TypeOK, PumpInOrder, RawInOrder
  <2>2. RunsOnce' /\ WorkersKnow'
    BY <1>3 DEF Spin, RunsOnce, WorkersKnow, Assigned, AssignedWorkerIsNotified
  <2>3. Begun(turn)
    BY <1>3 DEF Spin, WorkersKnow, TypeOK, Begun
  <2>4. OwnerKnows'
    BY <1>3, <2>3 DEF Spin, NextTurn, OwnerKnows, Begun, StopMeansQuiet, Ended, TypeOK, Workers
  <2> QED
    BY <2>1, <2>2, <2>4
<1>4. CASE SpawnWaiter
  <2>1. TypeOK' /\ PumpInOrder' /\ RawInOrder'
    BY <1>4 DEF SpawnWaiter, TypeOK, PumpInOrder, RawInOrder
  <2>2. RunsOnce' /\ WorkersKnow' /\ OwnerKnows'
    BY <1>4 DEF SpawnWaiter, RunsOnce, WorkersKnow, Assigned, AssignedWorkerIsNotified,
           OwnerKnows, Begun, StopMeansQuiet, Ended
  <2> QED
    BY <2>1, <2>2
<1>5. CASE SetRunning
  <2>1. TypeOK' /\ PumpInOrder' /\ RawInOrder'
    BY <1>5 DEF SetRunning, TypeOK, PumpInOrder, RawInOrder
  <2>2. RunsOnce' /\ WorkersKnow' /\ OwnerKnows'
    BY <1>5 DEF SetRunning, RunsOnce, WorkersKnow, Assigned, AssignedWorkerIsNotified,
           OwnerKnows, Begun, StopMeansQuiet, Ended
  <2> QED
    BY <2>1, <2>2
<1> QED
  BY <1>1, <1>2, <1>3, <1>4, <1>5

(* stop: the workers end one after the other, then the waiter.             *)
LEMMA StopKeepsIInv ==
  ASSUME IInv, Stop \/ StopWorker \/ JoinWorker \/ StopWaiter \/ JoinWaiter
  PROVE  IInv'
<1> USE QueueAssumption
    DEF IInv, taskVars, flagVars, cargoVars, waiterVars, ownerVars, OwnerGoes
<1>1. CASE Stop
  <2>1. TypeOK' /\ PumpInOrder' /\ RawInOrder'
    <3>1. turn' \in Workers
      BY <1>1 DEF Stop, Workers
    <3> QED
      BY <1>1, <3>1 DEF Stop, TypeOK, PumpInOrder, RawInOrder
  <2>2. RunsOnce' /\ WorkersKnow'
    BY <1>1 DEF Stop, RunsOnce, WorkersKnow, Assigned, AssignedWorkerIsNotified
  <2>3. OwnerKnows'
    BY <1>1 DEF Stop, OwnerKnows, Begun, StopMeansQuiet, Ended, Workers
  <2> QED
    BY <2>1, <2>2, <2>3
<1>2. CASE StopWorker
  <2>1. /\ turn \in Workers /\ opc = "stopWorker" /\ opc' = "joinWorker"
        /\ wrunning' = [wrunning EXCEPT ![turn] = FALSE]
        /\ wpc' = IF wpc[turn] = "waiting" THEN [wpc EXCEPT ![turn] = "awake"] ELSE wpc
        /\ UNCHANGED <<taskVars, wactive, cargoVars, qpc, waiterVars, turn, starts, qrunning>>
    BY <1>2 DEF StopWorker, NotifyWorker, TypeOK
  <2>2. TypeOK' /\ PumpInOrder' /\ RawInOrder'
    BY <2>1 DEF TypeOK, PumpInOrder, RawInOrder
  <2>3. RunsOnce'
    BY <2>1 DEF RunsOnce, Assigned, TypeOK
  <2>4. WorkersKnow'
    BY <2>1 DEF WorkersKnow, AssignedWorkerIsNotified, TypeOK
  <2>5. OwnerKnows'
    BY <2>1 DEF OwnerKnows, Begun, StopMeansQuiet, Ended, TypeOK
  <2> QED
    BY <2>2, <2>3, <2>4, <2>5
<1>3. CASE JoinWorker
  <2>1. /\ turn \in Workers /\ wpc[turn] = "gone" /\ opc = "joinWorker"
        /\ opc' = AfterWorker(turn) /\ turn' = (IF turn < NumWorkers THEN turn + 1 ELSE turn)
        /\ wactive' = [wactive EXCEPT ![turn] = FALSE]
        /\ UNCHANGED <<taskVars, wpc, wrunning, cargoVars, qpc, waiterVars, starts, qrunning>>
    BY <1>3 DEF JoinWorker, NextTurn, TypeOK
  <2>2. TypeOK' /\ PumpInOrder' /\ RawInOrder'
    <3>1. turn' \in Workers /\ opc' \in {"stopWorker", "stopWaiter", "destroyed"}
      BY <2>1 DEF AfterWorker, Workers
    <3> QED
      BY <2>1, <3>1 DEF TypeOK, PumpInOrder, RawInOrder
  <2>3. RunsOnce' /\ WorkersKnow'
    BY <2>1 DEF RunsOnce, WorkersKnow, Assigned, AssignedWorkerIsNotified
  <2>4. turn = NumWorkers => \A w \in Workers : wpc[w] = "gone"
    BY <2>1 DEF OwnerKnows, Workers
  <2>5. OwnerKnows'
    BY <2>1, <2>4 DEF OwnerKnows, Begun, StopMeansQuiet, AfterWorker, Ended, Workers
  <2> QED
    BY <2>2, <2>3, <2>5
<1>4. CASE StopWaiter
  <2>1. TypeOK' /\ PumpInOrder' /\ RawInOrder'
    BY <1>4 DEF StopWaiter, NotifyWaiter, TypeOK, PumpInOrder, RawInOrder
  <2>2. RunsOnce' /\ WorkersKnow' /\ OwnerKnows'
    BY <1>4 DEF StopWaiter, NotifyWaiter, RunsOnce, WorkersKnow, Assigned,
           AssignedWorkerIsNotified, OwnerKnows, Begun, StopMeansQuiet, Ended
  <2> QED
    BY <2>1, <2>2
<1>5. CASE JoinWaiter
  <2>1. TypeOK' /\ PumpInOrder' /\ RawInOrder'
    BY <1>5 DEF JoinWaiter, TypeOK, PumpInOrder, RawInOrder
  <2>2. RunsOnce' /\ WorkersKnow' /\ OwnerKnows'
    BY <1>5 DEF JoinWaiter, RunsOnce, WorkersKnow, Assigned, AssignedWorkerIsNotified,
           OwnerKnows, Begun, StopMeansQuiet, Ended
  <2> QED
    BY <2>1, <2>2
<1> QED
  BY <1>1, <1>2, <1>3, <1>4, <1>5

(* ~queue stops the waiter, and ~pool the workers. *)
LEMMA DestroyKeepsIInv ==
  ASSUME IInv, Destroy \/ JoinLast
  PROVE  IInv'
<1> USE QueueAssumption
    DEF IInv, taskVars, flagVars, cargoVars, waiterVars, ownerVars, OwnerGoes
<1>1. CASE Destroy
  <2>1. /\ opc = "up" /\ opc' \in {"joinLast", "aborted"}
        /\ qrunning' \in BOOLEAN
        /\ qpc' = qpc \/ (qpc = "waiting" /\ qpc' = "awake")
        /\ UNCHANGED <<taskVars, wpc, flagVars, cargoVars, waiterVars, turn, starts>>
    BY <1>1 DEF Destroy, NotifyWaiter, TypeOK
  <2>2. TypeOK' /\ PumpInOrder' /\ RawInOrder'
    BY <2>1 DEF TypeOK, PumpInOrder, RawInOrder
  <2>3. RunsOnce' /\ WorkersKnow' /\ OwnerKnows'
    BY <2>1 DEF RunsOnce, WorkersKnow, Assigned, AssignedWorkerIsNotified, OwnerKnows,
           Begun, StopMeansQuiet, Ended
  <2> QED
    BY <2>2, <2>3
<1>2. CASE JoinLast
  <2>1. /\ qpc = "gone" /\ opc = "joinLast" /\ opc' = "stopWorker"
        /\ pump' = <<>> /\ turn' = 1 /\ qactive' = FALSE
        /\ UNCHANGED <<added, ppc, runs, wpc, flagVars, cargoVars, qpc, scan, raw, starts, qrunning>>
    BY <1>2 DEF JoinLast
  <2>2. pump' \in Seq(Tasks) /\ Len(pump') = 0 /\ turn' \in Workers
    BY <2>1 DEF Workers
  <2>3. TypeOK'
    BY <2>1, <2>2 DEF TypeOK
  <2>6. PumpInOrder'
    BY <2>1, <2>2 DEF TypeOK, PumpInOrder
  <2>7. RawInOrder'
    BY <2>1, <2>2 DEF TypeOK, RawInOrder
  <2>4. RunsOnce' /\ WorkersKnow'
    BY <2>1 DEF RunsOnce, WorkersKnow, Assigned, AssignedWorkerIsNotified
  <2>5. OwnerKnows'
    BY <2>1 DEF OwnerKnows, Begun, StopMeansQuiet, Ended, Workers
  <2> QED
    BY <2>3, <2>4, <2>5, <2>6, <2>7
<1> QED
  BY <1>1, <1>2

(* The inductive invariant holds in every reachable state. *)
THEOREM Invariance == Spec => []IInv
<1>1. IInv /\ [Next]_vars => IInv'
  <2> SUFFICES ASSUME IInv, [Next]_vars PROVE IInv'
    OBVIOUS
  <2>1. CASE UNCHANGED vars
    BY <2>1
       DEF vars, taskVars, flagVars, cargoVars, waiterVars, ownerVars, IInv, TypeOK,
           PumpInOrder, RawInOrder, RunsOnce, WorkersKnow, OwnerKnows, Begun, Assigned,
           AssignedWorkerIsNotified, StopMeansQuiet
  <2>2. CASE Next
    BY <2>2, ProducersKeepIInv, WorkersKeepIInv, WaiterKeepsIInv, StartKeepsIInv,
       StopKeepsIInv, DestroyKeepsIInv DEF Next, Owner
  <2> QED
    BY <2>1, <2>2
<1> QED
  BY InitIInv, <1>1, PTL DEF Spec

(* Tasks are handed out in the order in which they were added              *)
(* (pump.cpp:37-49, queue.cpp:83-105).                                     *)
THEOREM TasksKeepTheirOrder == Spec => []HandedOutInOrder
<1>1. IInv => HandedOutInOrder
  <2> SUFFICES ASSUME IInv PROVE HandedOutInOrder
    OBVIOUS
  <2> USE DEF IInv
  <2>0. pump \in Seq(Tasks) /\ raw \in Nat
    BY QueueAssumption DEF TypeOK
  <2>1. CASE raw = NoTask
    BY <2>0, <2>1 DEF Queued, HandedOutInOrder, PumpInOrder
  <2>2. CASE raw # NoTask
    <3>1. /\ Queued = <<raw>> \o pump /\ Len(Queued) = Len(pump) + 1
          /\ DOMAIN Queued = 1 .. Len(pump) + 1 /\ Len(pump) \in Nat
          /\ Queued[1] = raw
          /\ \A i \in 2 .. Len(pump) + 1 : Queued[i] = pump[i - 1] /\ i - 1 \in 1 .. Len(pump)
      BY <2>0, <2>2 DEF Queued
    <3>2. \A i, j \in DOMAIN Queued : i < j => Queued[i] < Queued[j]
      <4> SUFFICES ASSUME NEW i \in 1 .. Len(pump) + 1, NEW j \in 2 .. Len(pump) + 1, i < j
                   PROVE  Queued[i] < Queued[j]
        BY <3>1
      <4>1. CASE i = 1
        BY <3>1, <4>1 DEF PumpInOrder
      <4>2. CASE i # 1
        <5>1. i - 1 < j - 1 /\ i \in 2 .. Len(pump) + 1
          BY <3>1, <4>2
        <5> QED
          BY <3>1, <5>1 DEF PumpInOrder
      <4> QED
        BY <4>1, <4>2
    <3>3. \A i \in DOMAIN Queued, w \in Workers : current[w] < Queued[i]
      <4> SUFFICES ASSUME NEW i \in 1 .. Len(pump) + 1, NEW w \in Workers
                   PROVE  current[w] < Queued[i]
        BY <3>1
      <4>1. CASE i = 1
        BY <2>2, <3>1, <4>1 DEF RawInOrder
      <4>2. CASE i # 1
        BY <3>1, <4>2 DEF PumpInOrder
      <4> QED
        BY <4>1, <4>2
    <3> QED
      BY <3>2, <3>3 DEF HandedOutInOrder
  <2> QED
    BY <2>1, <2>2
<1> QED
  BY <1>1, Invariance, PTL

(* No task is run twice, and one that is still queued or in front of a     *)
(* worker has not been run (queue.cpp:90-105, worker.cpp:44-60).           *)
THEOREM TasksRunOnce == Spec => []RunAtMostOnce
<1>1. IInv => RunAtMostOnce
  <2> SUFFICES ASSUME IInv PROVE RunAtMostOnce
    OBVIOUS
  <2> USE DEF IInv
  <2>0. pump \in Seq(Tasks)
    BY DEF TypeOK
  <2>1. \A i \in DOMAIN Queued : runs[Queued[i]] = 0
    <3>1. CASE raw = NoTask
      BY <2>0, <3>1 DEF Queued, PumpInOrder
    <3>2. CASE raw # NoTask
      <4> SUFFICES ASSUME NEW i \in DOMAIN (<<raw>> \o pump)
                   PROVE  runs[(<<raw>> \o pump)[i]] = 0
        BY <3>2 DEF Queued
      <4>1. CASE i = 1
        BY <2>0, <3>2, <4>1 DEF RawInOrder
      <4>2. CASE i # 1
        <5>1. (<<raw>> \o pump)[i] = pump[i - 1] /\ i - 1 \in 1 .. Len(pump)
          BY <2>0, <4>2
        <5> QED
          BY <5>1 DEF PumpInOrder
      <4> QED
        BY <4>1, <4>2
    <3> QED
      BY <3>1, <3>2
  <2> QED
    BY <2>1 DEF RunAtMostOnce, RunsOnce
<1> QED
  BY <1>1, Invariance, PTL

(* A worker is only woken with a task, and one with a task is woken        *)
(* (worker.cpp lines 44-60, 79-105).                                       *)
THEOREM WorkersGetTheirTasks == Spec => []HandOver
<1>1. IInv => HandOver
  BY DEF IInv, HandOver, WorkersKnow, RunsOnce, RunsWhatWasAssigned
<1> QED
  BY <1>1, Invariance, PTL

(* Once stop or the destructor has returned no thread of the queue is left *)
(* to run a task (queue.cpp lines 26-33, 58-66).                           *)
THEOREM QuietAfterStop == Spec => []StopMeansQuiet
<1>1. IInv => StopMeansQuiet
  BY DEF IInv, OwnerKnows
<1> QED
  BY <1>1, Invariance, PTL

-----------------------------------------------------------------------------
(* Where a task is that was added. *)
Kept(t) ==
  \/ \E i \in 1 .. Len(pump) : pump[i] = t
  \/ raw = t
  \/ runs[t] = 1
  \/ \E w \in Workers : Assigned(w) /\ current[w] = t

NotBegun == {"down", "startWorker", "spin", "spawn"}

(* Before the first stop no thread of the queue has been restarted, which  *)
(* is when it would forget its task.                                       *)
FirstLife ==
  /\ opc # "down" => starts > 0
  /\ NeverStopped =>
       /\ opc \in NotBegun => qpc = "off" /\ \A w \in Workers : ~loaded[w]
       /\ qpc \in {"off", "begin"} => raw = NoTask
       /\ \A w \in Workers : IF Begun(w) THEN wrunning[w] ELSE ~loaded[w]
       /\ \A w \in Workers : wpc[w] # "gone"
       /\ \A t \in 1 .. added : Kept(t)

(* A step that hands nothing over keeps every task where it is. *)
LEMMA StaysKept ==
  ASSUME UNCHANGED <<pump, raw, runs, current>>,
         \A w \in Workers : Assigned(w) => Assigned(w)',
         NEW t, Kept(t)
  PROVE  Kept(t)'
BY DEF Kept

LEMMA WorkersKeepTasks ==
  ASSUME IInv, FirstLife, NEW w \in Workers, Worker(w)
  PROVE  FirstLife'
<1> USE QueueAssumption
    DEF taskVars, flagVars, cargoVars, waiterVars, ownerVars, WorkerGoes, IInv
<1> SUFFICES ASSUME NeverStopped'
             PROVE  /\ opc' \in NotBegun => qpc' = "off" /\ \A v \in Workers : ~loaded'[v]
                    /\ qpc' \in {"off", "begin"} => raw' = NoTask
                    /\ \A v \in Workers : IF Begun(v)' THEN wrunning'[v] ELSE ~loaded'[v]
                    /\ \A v \in Workers : wpc'[v] # "gone"
                    /\ \A t \in 1 .. added' : Kept(t)'
  <2>1. UNCHANGED <<opc, starts>>
    BY DEF Worker, WorkerBegin, WorkerSleep, WorkerQuit, WorkerRun, WorkerFinish
  <2> QED
    BY <2>1 DEF FirstLife
<1>0. /\ NeverStopped
      /\ opc \in NotBegun => qpc = "off" /\ \A v \in Workers : ~loaded[v]
      /\ qpc \in {"off", "begin"} => raw = NoTask
      /\ \A v \in Workers : IF Begun(v) THEN wrunning[v] ELSE ~loaded[v]
      /\ \A v \in Workers : wpc[v] # "gone"
      /\ \A t \in 1 .. added : Kept(t)
  <2>1. UNCHANGED <<opc, starts>>
    BY DEF Worker, WorkerBegin, WorkerSleep, WorkerQuit, WorkerRun, WorkerFinish
  <2> QED
    BY <2>1 DEF FirstLife, NeverStopped
<1>1. CASE WorkerBegin(w) \/ WorkerSleep(w)
  <2>1. /\ UNCHANGED <<pump, added, runs, raw, current, qpc, opc>>
        /\ wpc' = [wpc EXCEPT ![w] = IF wpc[w] = "begin" THEN "sleep" ELSE "waiting"]
        /\ wpc[w] \in {"begin", "sleep"}
        /\ \/ loaded' = loaded
           \/ wpc[w] = "begin" /\ loaded' = [loaded EXCEPT ![w] = FALSE]
        /\ \/ wpc[w] # "begin" /\ wrunning' = wrunning
           \/ wrunning' = [wrunning EXCEPT ![w] = TRUE]
    BY <1>1 DEF WorkerBegin, WorkerSleep
  <2>2. \A v \in Workers : Assigned(v) => Assigned(v)'
    BY <2>1 DEF Assigned, TypeOK
  <2>3. \A t \in 1 .. added' : Kept(t)'
    BY <1>0, <2>1, <2>2, StaysKept
  <2>4. \A v \in Workers : IF Begun(v)' THEN wrunning'[v] ELSE ~loaded'[v]
    BY <1>0, <2>1 DEF Begun, TypeOK
  <2> QED
    BY <1>0, <2>1, <2>3, <2>4 DEF TypeOK
<1>2. CASE WorkerQuit(w)
  BY <1>0, <1>2 DEF WorkerQuit, Begun
<1>3. CASE WorkerRun(w)
  <2>1. /\ wpc[w] = "awake" /\ current[w] \in Tasks /\ runs[current[w]] = 0
    BY <1>3 DEF WorkerRun, WorkersKnow, RunsOnce, Assigned, TypeOK, NoTask, Tasks
  <2>2. /\ UNCHANGED <<pump, added, raw, current, loaded, wrunning, qpc, opc>>
        /\ wpc' = [wpc EXCEPT ![w] = "run"]
        /\ runs' = [runs EXCEPT ![current[w]] = 1]
    BY <1>3, <2>1 DEF WorkerRun, NoTask, Tasks
  <2>3. \A t \in 1 .. added' : Kept(t)'
    <3> SUFFICES ASSUME NEW t \in 1 .. added PROVE Kept(t)'
      BY <2>2
    <3>1. CASE t = current[w]
      BY <2>1, <2>2, <3>1 DEF Kept, TypeOK
    <3>2. CASE t # current[w]
      <4>1. t \in Tasks /\ runs'[t] = runs[t]
        BY <2>2, <3>2 DEF TypeOK, Tasks
      <4>2. \A v \in Workers : Assigned(v) /\ current[v] = t => Assigned(v)'
        BY <2>2, <3>2 DEF Assigned, TypeOK
      <4>3. Kept(t)
        BY <1>0
      <4> QED
        BY <2>2, <4>1, <4>2, <4>3 DEF Kept
    <3> QED
      BY <3>1, <3>2
  <2> QED
    BY <1>0, <2>1, <2>2, <2>3 DEF Begun, TypeOK
<1>4. CASE WorkerFinish(w)
  <2>1. /\ wpc[w] = "run" /\ wrunning[w] /\ wpc' = [wpc EXCEPT ![w] = "sleep"]
        /\ loaded' = [loaded EXCEPT ![w] = FALSE]
        /\ qpc' = (IF qpc = "waiting" THEN "awake" ELSE qpc)
        /\ UNCHANGED <<pump, added, runs, raw, current, wrunning, opc>>
    BY <1>0, <1>4 DEF WorkerFinish, NotifyWaiter, Begun
  <2>2. \A v \in Workers : Assigned(v) => Assigned(v)'
    BY <2>1 DEF Assigned, TypeOK
  <2>3. \A t \in 1 .. added' : Kept(t)'
    BY <1>0, <2>1, <2>2, StaysKept
  <2> QED
    BY <1>0, <2>1, <2>3 DEF Begun, TypeOK
<1> QED
  BY <1>1, <1>2, <1>3, <1>4 DEF Worker

LEMMA WaiterKeepsTasks ==
  ASSUME IInv, FirstLife, Waiter \/ CycleSpurious
  PROVE  FirstLife'
<1> USE QueueAssumption
    DEF taskVars, flagVars, cargoVars, waiterVars, ownerVars, WaiterGoes, IInv
<1>0. /\ UNCHANGED <<added, runs, wrunning, opc, starts>>
      /\ qpc \notin {"off", "gone"} /\ qpc' \notin {"off", "begin"}
  BY DEF Waiter, CycleBegin, CycleCheck, CycleSleep, CycleQuit, CycleTake, CycleSpurious,
         AssignPackage, AssignNext, AssignNotify, WorkersKnow
<1> SUFFICES ASSUME NeverStopped'
             PROVE  /\ \A v \in Workers : Begun(v)' /\ wrunning'[v] /\ wpc'[v] # "gone"
                    /\ \A t \in 1 .. added' : Kept(t)'
                    /\ opc \notin NotBegun
  BY <1>0 DEF FirstLife
<1>1. /\ NeverStopped /\ opc \notin NotBegun
      /\ \A v \in Workers : Begun(v) /\ wrunning[v] /\ wpc[v] # "gone"
      /\ \A t \in 1 .. added : Kept(t)
      /\ qpc = "begin" => raw = NoTask
  BY <1>0 DEF FirstLife, NeverStopped, OwnerKnows, Ended, NotBegun
<1>2. CASE CycleCheck \/ CycleSleep \/ CycleQuit \/ CycleSpurious \/ AssignNext
  <2>1. UNCHANGED <<pump, raw, runs, current, wpc, loaded, wrunning>>
    BY <1>2 DEF CycleCheck, CycleSleep, CycleQuit, CycleSpurious, AssignNext
  <2> QED
    BY <1>0, <1>1, <2>1, StaysKept DEF Assigned, Begun
<1>3. CASE CycleBegin
  <2>1. raw' = raw /\ UNCHANGED <<pump, runs, current, wpc, loaded, wrunning>>
    BY <1>1, <1>3 DEF CycleBegin
  <2> QED
    BY <1>0, <1>1, <2>1, StaysKept DEF Assigned, Begun
<1>4. CASE CycleTake
  <2>1. UNCHANGED <<runs, current, wpc, loaded, wrunning>>
    BY <1>4 DEF CycleTake
  <2>2. \A t \in 1 .. added : Kept(t)'
    <3> SUFFICES ASSUME NEW t \in 1 .. added PROVE Kept(t)'
      OBVIOUS
    <3>1. Kept(t) /\ t # NoTask
      BY <1>1 DEF NoTask
    <3>2. CASE raw = NoTask /\ pump # <<>>
      <4>1. raw' = Head(pump) /\ pump' = Tail(pump)
        BY <1>4, <3>2 DEF CycleTake, NextPackage
      <4>2. \A i \in 1 .. Len(pump) :
              pump[i] = raw' \/ \E k \in 1 .. Len(pump') : pump'[k] = pump[i]
        <5>1. /\ Len(pump) \in Nat /\ Len(pump') = Len(pump) - 1 /\ raw' = pump[1]
              /\ \A k \in 1 .. Len(pump) - 1 : pump'[k] = pump[k + 1]
          BY <3>2, <4>1 DEF TypeOK
        <5> SUFFICES ASSUME NEW i \in 1 .. Len(pump), i # 1
                     PROVE  \E k \in 1 .. Len(pump') : pump'[k] = pump[i]
          BY <5>1
        <5>2. i - 1 \in 1 .. Len(pump) - 1 /\ (i - 1) + 1 = i
          BY <5>1
        <5>3. pump'[i - 1] = pump[i]
          BY <5>1, <5>2
        <5> QED
          BY <5>1, <5>2, <5>3
      <4> QED
        BY <2>1, <3>1, <3>2, <4>2 DEF Kept, Assigned
    <3>3. CASE ~(raw = NoTask /\ pump # <<>>)
      <4>1. raw' = raw /\ pump' = pump
        BY <1>4, <3>3 DEF CycleTake, NextPackage
      <4> QED
        BY <2>1, <3>1, <4>1, StaysKept DEF Assigned
    <3> QED
      BY <3>2, <3>3
  <2> QED
    BY <1>0, <1>1, <2>1, <2>2 DEF Begun
<1>5. CASE AssignPackage
  <2>1. /\ scan \in Workers /\ ~loaded[scan] /\ raw' = NoTask
        /\ wpc[scan] \in {"off", "begin", "waiting", "awake", "gone"}
        /\ current' = [current EXCEPT ![scan] = raw]
        /\ loaded' = [loaded EXCEPT ![scan] = TRUE]
        /\ UNCHANGED <<pump, runs, wpc, wrunning, scan>>
    BY <1>5 DEF AssignPackage, IsWaiting, TypeOK
  <2>2. Assigned(scan)' /\ current'[scan] = raw
    <3>1. wpc[scan] \in {"waiting", "awake"}
      BY <1>1, <2>1 DEF Begun
    <3> QED
      BY <2>1, <3>1 DEF Assigned, TypeOK
  <2>3. \A v \in Workers : Assigned(v) => Assigned(v)' /\ current'[v] = current[v]
    BY <2>1 DEF Assigned, TypeOK
  <2>4. \A t \in 1 .. added : Kept(t)'
    <3> SUFFICES ASSUME NEW t \in 1 .. added PROVE Kept(t)'
      OBVIOUS
    <3>1. Kept(t)
      BY <1>1
    <3>2. CASE raw = t
      <4>1. \E w \in Workers : Assigned(w)' /\ current'[w] = t
        BY <2>1, <2>2, <3>2
      <4> QED
        BY <4>1 DEF Kept
    <3>3. CASE \E w \in Workers : Assigned(w) /\ current[w] = t
      <4>1. \E w \in Workers : Assigned(w)' /\ current'[w] = t
        BY <2>3, <3>3
      <4> QED
        BY <4>1 DEF Kept
    <3>4. CASE runs[t] = 1 \/ \E i \in 1 .. Len(pump) : pump[i] = t
      BY <2>1, <3>4 DEF Kept
    <3> QED
      BY <3>1, <3>2, <3>3, <3>4 DEF Kept
  <2> QED
    BY <1>0, <1>1, <2>1, <2>4 DEF Begun
<1>6. CASE AssignNotify
  <2>1. /\ scan \in Workers
        /\ wpc' = IF wpc[scan] = "waiting" THEN [wpc EXCEPT ![scan] = "awake"] ELSE wpc
        /\ UNCHANGED <<pump, raw, runs, current, loaded, wrunning>>
    BY <1>6 DEF AssignNotify, NotifyWorker, TypeOK
  <2>2. \A v \in Workers : Assigned(v) => Assigned(v)'
    BY <2>1 DEF Assigned, TypeOK
  <2>3. \A v \in Workers : Begun(v)' /\ wpc'[v] # "gone"
    BY <1>1, <2>1 DEF Begun, TypeOK
  <2> QED
    BY <1>0, <1>1, <2>1, <2>2, <2>3, StaysKept
<1> QED
  BY <1>2, <1>3, <1>4, <1>5, <1>6 DEF Waiter

LEMMA OwnerKeepsTasks ==
  ASSUME IInv, FirstLife, Start \/ Stop \/ Destroy \/ Owner
  PROVE  FirstLife'
<1> USE QueueAssumption
    DEF taskVars, flagVars, cargoVars, waiterVars, ownerVars, OwnerGoes, IInv
<1>0. CASE Stop \/ Destroy \/ StopWorker \/ JoinWorker \/ StopWaiter \/ JoinWaiter \/ JoinLast
  <2>1. starts > 0 /\ starts' = starts /\ starts \in Nat
    BY <1>0 DEF Stop, Destroy, StopWorker, JoinWorker, StopWaiter, JoinWaiter, JoinLast,
                FirstLife, TypeOK
  <2>2. opc' \in {"down", "stopWorker", "joinWorker", "stopWaiter", "joinWaiter", "joinLast",
                  "destroyed", "aborted"}
    BY <1>0 DEF Stop, Destroy, StopWorker, JoinWorker, StopWaiter, JoinWaiter, JoinLast,
                AfterWorker
  <2> QED
    BY <2>1, <2>2 DEF FirstLife, NeverStopped
<1>1. CASE Start
  <2>1. /\ opc' = "startWorker" /\ starts' = starts + 1 /\ starts \in Nat
        /\ UNCHANGED <<pump, added, runs, wpc, wrunning, loaded, current, qpc, raw>>
        /\ opc = "down"
    BY <1>1 DEF Start, TypeOK
  <2>2. NeverStopped' => NeverStopped
    BY <2>1 DEF NeverStopped
  <2>3. \A t : Kept(t) => Kept(t)'
    BY <2>1 DEF Kept, Assigned
  <2> QED
    BY <2>1, <2>2, <2>3 DEF FirstLife, NotBegun, Begun
<1>2. CASE StartWorker
  <2>1. /\ opc = "startWorker" /\ opc' = "spin" /\ turn \in Workers
        /\ wrunning' = [wrunning EXCEPT ![turn] = FALSE]
        /\ wpc' = [wpc EXCEPT ![turn] = "begin"]
        /\ UNCHANGED <<pump, added, runs, loaded, current, qpc, raw, starts>>
    BY <1>2 DEF StartWorker, TypeOK
  <2>2. NeverStopped' => NeverStopped
    BY <2>1 DEF NeverStopped
  <2>3. NeverStopped => \A w \in Workers : ~loaded[w]
    BY <2>1 DEF FirstLife, NotBegun
  <2>4. NeverStopped => \A t : Kept(t) => Kept(t)'
    BY <2>1, <2>3 DEF Kept, Assigned
  <2>5. NeverStopped => \A w \in Workers : IF Begun(w)' THEN wrunning'[w] ELSE ~loaded'[w]
    BY <2>1, <2>3 DEF FirstLife, Begun, TypeOK
  <2>6. NeverStopped => \A w \in Workers : wpc'[w] # "gone"
    BY <2>1 DEF FirstLife, TypeOK
  <2> QED
    BY <2>1, <2>2, <2>3, <2>4, <2>5, <2>6 DEF FirstLife, NotBegun
<1>3. CASE Spin
  <2>1. /\ opc = "spin" /\ opc' \in {"startWorker", "spawn"}
        /\ UNCHANGED <<pump, added, runs, wpc, wrunning, loaded, current, qpc, raw, starts>>
    BY <1>3 DEF Spin
  <2>2. NeverStopped' => NeverStopped
    BY <2>1 DEF NeverStopped
  <2>3. \A t : Kept(t) => Kept(t)'
    BY <2>1 DEF Kept, Assigned
  <2> QED
    BY <2>1, <2>2, <2>3 DEF FirstLife, NotBegun, Begun
<1>4. CASE SpawnWaiter \/ SetRunning
  <2>1. /\ opc \in {"spawn", "setRunning"} /\ opc' \in {"setRunning", "up"}
        /\ opc = "spawn" \/ qpc' = qpc
        /\ UNCHANGED <<pump, added, runs, wpc, wrunning, loaded, current, raw, starts>>
    BY <1>4 DEF SpawnWaiter, SetRunning
  <2>2. NeverStopped' => NeverStopped
    BY <2>1 DEF NeverStopped
  <2>3. \A t : Kept(t) => Kept(t)'
    BY <2>1 DEF Kept, Assigned
  <2> QED
    BY <2>1, <2>2, <2>3 DEF FirstLife, NotBegun, Begun
<1> QED
  BY <1>0, <1>1, <1>2, <1>3, <1>4 DEF Owner

LEMMA ProducersKeepTasks ==
  ASSUME IInv, FirstLife, NEW p \in Producers, Push(p) \/ NotifyPushed(p)
  PROVE  FirstLife'
<1> USE QueueAssumption DEF IInv, taskVars, flagVars, cargoVars, waiterVars, ownerVars
<1>1. CASE Push(p)
  <2>1. /\ added \in Nat /\ added' = added + 1 /\ pump' = Append(pump, added + 1)
        /\ added + 1 \in Tasks
        /\ UNCHANGED <<runs, wpc, wrunning, loaded, current, qpc, raw, opc, starts>>
    BY <1>1 DEF Push, TypeOK, Tasks
  <2>2. /\ Len(pump') = Len(pump) + 1 /\ Len(pump) \in Nat /\ pump'[Len(pump) + 1] = added + 1
        /\ \A i \in 1 .. Len(pump) : pump'[i] = pump[i]
    BY <2>1 DEF TypeOK
  <2>3. \A t : Kept(t) => Kept(t)'
    BY <2>1, <2>2 DEF Kept, Assigned
  <2>4. ASSUME NEW t, t = added + 1
        PROVE  Kept(t)'
    <3>1. Len(pump) + 1 \in 1 .. Len(pump') /\ pump'[Len(pump) + 1] = t
      BY <2>2, <2>4
    <3> QED
      BY <3>1 DEF Kept
  <2>5. \A t \in 1 .. added' : t \in 1 .. added \/ t = added + 1
    BY <2>1
  <2>6. NeverStopped' <=> NeverStopped
    BY <2>1 DEF NeverStopped
  <2>7. NeverStopped => \A t \in 1 .. added' : Kept(t)'
    BY <2>3, <2>4, <2>5 DEF FirstLife
  <2> QED
    BY <2>1, <2>6, <2>7 DEF FirstLife, Begun
<1>2. CASE NotifyPushed(p)
  <2>1. /\ qpc' = (IF qpc = "waiting" THEN "awake" ELSE qpc)
        /\ UNCHANGED <<pump, added, runs, wpc, wrunning, loaded, current, raw, opc, starts>>
    BY <1>2 DEF NotifyPushed, NotifyWaiter
  <2>2. \A t : Kept(t) => Kept(t)'
    BY <2>1 DEF Kept, Assigned
  <2> QED
    BY <2>1, <2>2 DEF FirstLife, Begun, NeverStopped
<1> QED
  BY <1>1, <1>2

(* Until the first stop no task is lost: it is in the pump, in the         *)
(* waiter's hands, with a worker that will run it, or has been run         *)
(* (queue.cpp:83-105, worker.cpp:44-60).                                   *)
THEOREM NoTaskIsLost == Spec => []NoTaskLostWhileUp
<1>1. Init => FirstLife
  BY QueueAssumption DEF Init, FirstLife, NeverStopped, NotBegun, Begun, NoTask
<1>2. IInv /\ FirstLife /\ [Next]_vars => FirstLife'
  <2> SUFFICES ASSUME IInv, FirstLife, [Next]_vars PROVE FirstLife'
    OBVIOUS
  <2>1. CASE UNCHANGED vars
    BY <2>1 DEF vars, taskVars, flagVars, cargoVars, waiterVars, ownerVars, FirstLife,
                NeverStopped, NotBegun, Begun, Kept, Assigned
  <2>2. CASE Next
    BY <2>2, ProducersKeepTasks, WorkersKeepTasks, WaiterKeepsTasks, OwnerKeepsTasks DEF Next
  <2> QED
    BY <2>1, <2>2
<1>3. IInv /\ FirstLife => NoTaskLostWhileUp
  <2> SUFFICES ASSUME IInv, FirstLife, NeverStopped, NEW t \in 1 .. added, Kept(t)
               PROVE  \/ \E i \in DOMAIN Queued : Queued[i] = t
                      \/ runs[t] = 1
                      \/ \E w \in Workers : Assigned(w) /\ current[w] = t
    BY DEF FirstLife, NoTaskLostWhileUp
  <2>0. pump \in Seq(Tasks)
    BY DEF IInv, TypeOK
  <2>1. CASE raw = NoTask
    <3>1. t # raw
      BY <2>1 DEF NoTask
    <3> QED
      BY <2>0, <2>1, <3>1 DEF Kept, Queued
  <2>2. CASE raw # NoTask
    <3>1. /\ DOMAIN Queued = 1 .. Len(pump) + 1 /\ Len(pump) \in Nat /\ Queued[1] = raw
          /\ \A i \in 1 .. Len(pump) : i + 1 \in 1 .. Len(pump) + 1 /\ Queued[i + 1] = pump[i]
      BY <2>0, <2>2 DEF Queued
    <3>2. CASE raw = t
      <4>1. 1 \in DOMAIN Queued /\ Queued[1] = t
        BY <3>1, <3>2
      <4> QED
        BY <4>1
    <3>3. CASE \E i \in 1 .. Len(pump) : pump[i] = t
      <4>1. PICK i \in 1 .. Len(pump) : pump[i] = t
        BY <3>3
      <4>2. i + 1 \in DOMAIN Queued /\ Queued[i + 1] = t
        BY <3>1, <4>1
      <4> QED
        BY <4>2
    <3> QED
      BY <3>2, <3>3 DEF Kept
  <2> QED
    BY <2>1, <2>2
<1> QED
  BY <1>1, <1>2, <1>3, Invariance, PTL DEF Spec

=============================================================================
