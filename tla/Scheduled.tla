----------------------------- MODULE Scheduled -----------------------------
(***************************************************************************)
(* scheduled (framework/threads/scheduled.cpp), the thread with a          *)
(* scheduling policy, as the rack uses it: rack::start, rack::stop and     *)
(* ~rack (framework/component/rack.cpp).                                   *)
(*                                                                         *)
(* rack::start assigns a temporary `scheduled' to its member.  The         *)
(* constructor of the temporary has already created the thread, whose      *)
(* lambda holds the temporary's `this': the thread goes on to write m_tid, *)
(* read m_desc and write m_active of an object that rack::start moves      *)
(* from and destroys meanwhile.  A write to the object when it is gone     *)
(* falls on memory the model does not have; `stray' records it.            *)
(* std::terminate, from a destructor that throws or from a joinable        *)
(* std::thread that is destroyed, ends the program: `terminated'.          *)
(***************************************************************************)
EXTENDS Naturals

CONSTANTS
  Threads,  \* the threads created, one per rack::start
  NoThread  \* a std::thread that represents none

ASSUME ScheduledAssumption == NoThread \notin Threads

Objects == {"temp", "member"}

VARIABLES
  rack,       \* m_running and m_active of the rack
  object,     \* the two scheduled objects: alive, m_active and m_handle
  policy,     \* what the kernel was asked to run each thread with
  caller,     \* where the thread that calls the rack is
  pc,         \* where each created thread is
  flagged,    \* history: the thread set m_active while its object was alive
  missed,     \* history: stop notified a thread between its test and its wait
  stray,      \* history: the threads that used the object when it was gone
  terminated  \* std::terminate was called

scheduledVars == <<rack, object, policy, caller, pc, flagged, missed, stray, terminated>>

Unused == {t \in Threads : pc[t] = "unborn"}

Joinable(o) == object[o].handle # NoThread

Constructed(isAlive, thread) ==
  [alive |-> isAlive, active |-> FALSE, handle |-> thread]

ThreadInit ==
  /\ rack = [running |-> FALSE, active |-> FALSE]
  /\ object = [o \in Objects |-> Constructed(o = "member", NoThread)]
  /\ policy = [t \in Threads |-> "inherited"]
  /\ caller = "idle"
  /\ pc = [t \in Threads |-> "unborn"]
  /\ flagged = FALSE /\ missed = FALSE /\ stray = {} /\ terminated = FALSE

-----------------------------------------------------------------------------
(* rack::start, of a rack that does not run, up to the constructor of the  *)
(* temporary, which calls scheduled::start: m_active was set to false, so  *)
(* the thread is created.                                                  *)
StartConstruct ==
  /\ caller = "idle" /\ ~rack.running
  /\ rack' = [running |-> TRUE, active |-> FALSE]
  /\ \E t \in Unused :
       /\ object' = [object EXCEPT !["temp"] = Constructed(TRUE, t)]
       /\ pc' = [pc EXCEPT ![t] = "assign_tid"]
  /\ caller' = "assign"
  /\ flagged' = FALSE
  /\ UNCHANGED <<policy, missed, stray, terminated>>

BadAssign ==
  /\ caller = "assign"
  /\ object' = [object EXCEPT
       !["member"].active = object["temp"].active,
       !["member"].handle = object["temp"].handle]
  /\ caller' = "drop"
  /\ UNCHANGED <<rack, policy, pc, flagged, missed, stray, terminated>>

(* The move assignment: the handles are swapped, m_active is copied.       *)
Assign ==
  /\ caller = "assign"
  /\ object' = [object EXCEPT
       !["member"].active = object["temp"].active,
       !["member"].handle = object["temp"].handle,
       !["temp"].handle = object["member"].handle]
  /\ caller' = "drop"
  /\ UNCHANGED <<rack, policy, pc, flagged, missed, stray, terminated>>

BadDestroyed(o) == TRUE

(* ~scheduled: a thread that m_active announces is joined, which waits for *)
(* it, and throws out of the destructor if there is none.  Then ~thread    *)
(* terminates the program if its thread was not joined.                    *)
Destroyed(o) == ~object[o].active /\ ~Joinable(o)

DestroyTerminates(o) == object[o].active # Joinable(o)

(* The temporary dies at the end of the assignment. *)
DropTemp ==
  /\ caller = "drop"
  /\ \/ /\ Destroyed("temp")
        /\ object' = [object EXCEPT !["temp"].alive = FALSE]
        /\ caller' = "spin"
        /\ UNCHANGED terminated
     \/ /\ ~Destroyed("temp") /\ DestroyTerminates("temp")
        /\ terminated' = TRUE
        /\ UNCHANGED <<object, caller>>
  /\ UNCHANGED <<rack, policy, pc, flagged, missed, stray>>

(* The busy loop at the end of rack::start. *)
StartReturns ==
  /\ caller = "spin" /\ rack.active
  /\ caller' = "idle"
  /\ UNCHANGED <<rack, object, policy, pc, flagged, missed, stray, terminated>>

-----------------------------------------------------------------------------
(* rack::stop, of a rack that runs or not, and from ~rack if m_active.     *)
StopFlag ==
  /\ caller = "idle" \/ (caller = "destroy" /\ rack.active)
  /\ rack' = [rack EXCEPT !.running = FALSE]
  /\ caller' = IF caller = "idle" THEN "notify" ELSE "destroy_notify"
  /\ UNCHANGED <<object, policy, pc, flagged, missed, stray, terminated>>

(* m_trigger.notify_one() without the lock: it wakes a thread that waits,  *)
(* and is lost on one that has tested m_running and does not wait yet.     *)
StopNotify ==
  /\ caller \in {"notify", "destroy_notify"}
  /\ pc' = [t \in Threads |-> IF pc[t] = "wait" THEN "woken" ELSE pc[t]]
  /\ missed' = (missed \/ \E t \in Threads : pc[t] = "lock")
  /\ caller' = IF caller = "notify" THEN "join" ELSE "destroy_join"
  /\ UNCHANGED <<rack, object, policy, flagged, stray, terminated>>

(* join returns when the thread has ended; m_active keeps what it was.     *)
StopJoin ==
  /\ caller \in {"join", "destroy_join"}
  /\ Joinable("member") /\ pc[object["member"].handle] = "done"
  /\ object' = [object EXCEPT !["member"].handle = NoThread]
  /\ caller' = IF caller = "join" THEN "idle" ELSE "destroy"
  /\ UNCHANGED <<rack, policy, pc, flagged, missed, stray, terminated>>

(* join of no thread throws: stop of a rack that was never started, or was *)
(* stopped before.  The exception leaves stop.                             *)
StopThrows ==
  /\ caller = "join" /\ ~Joinable("member")
  /\ caller' = "idle"
  /\ UNCHANGED <<rack, object, policy, pc, flagged, missed, stray, terminated>>

(* ~rack: stop if m_active, then the members are destroyed. *)
DestroyBegin ==
  /\ caller = "idle"
  /\ caller' = "destroy"
  /\ UNCHANGED <<rack, object, policy, pc, flagged, missed, stray, terminated>>

DestroyMember ==
  /\ caller = "destroy" /\ ~rack.active
  /\ \/ /\ Destroyed("member")
        /\ object' = [object EXCEPT !["member"].alive = FALSE]
        /\ caller' = "gone"
        /\ UNCHANGED terminated
     \/ /\ ~Destroyed("member") /\ DestroyTerminates("member")
        /\ terminated' = TRUE
        /\ UNCHANGED <<object, caller>>
  /\ UNCHANGED <<rack, policy, pc, flagged, missed, stray>>

-----------------------------------------------------------------------------
Goto(t, from, to) == pc[t] = from /\ pc' = [pc EXCEPT ![t] = to]

(* The lambda of scheduled::start uses its `this', the temporary. *)
Uses(t) ==
  stray' = IF object["temp"].alive THEN stray ELSE stray \cup {t}

AssignTid(t) ==
  /\ Goto(t, "assign_tid", "schedule")
  /\ Uses(t)
  /\ UNCHANGED <<rack, object, policy, caller, flagged, missed, terminated>>

(* schedule: the kernel may refuse the policy, and the thread goes on with *)
(* the one it has; the description read from a dead object is anything.    *)
Schedule(t) ==
  /\ Goto(t, "schedule", "activate")
  /\ Uses(t)
  /\ \E p \in {"inherited", "assigned"} \cup
              (IF object["temp"].alive THEN {} ELSE {"arbitrary"}) :
       policy' = [policy EXCEPT ![t] = p]
  /\ UNCHANGED <<rack, object, caller, flagged, missed, terminated>>

Activate(t) ==
  /\ Goto(t, "activate", "func")
  /\ Uses(t)
  /\ object' = [object EXCEPT !["temp"].active = object["temp"].alive]
  /\ flagged' = (flagged \/ object["temp"].alive)
  /\ UNCHANGED <<rack, policy, caller, missed, terminated>>

(* The function of the rack: m_active, then the loop over m_trigger.wait.  *)
FuncBegin(t) ==
  /\ Goto(t, "func", "test")
  /\ rack' = [rack EXCEPT !.active = TRUE]
  /\ UNCHANGED <<object, policy, caller, flagged, missed, stray, terminated>>

TestRunning(t) ==
  /\ Goto(t, "test", IF rack.running THEN "lock" ELSE "leave")
  /\ UNCHANGED <<rack, object, policy, caller, flagged, missed, stray, terminated>>

Wait(t) ==
  /\ Goto(t, "lock", "wait")
  /\ UNCHANGED <<rack, object, policy, caller, flagged, missed, stray, terminated>>

(* A wait may return without a notification. *)
SpuriousWakeUp(t) ==
  /\ Goto(t, "wait", "woken")
  /\ UNCHANGED <<rack, object, policy, caller, flagged, missed, stray, terminated>>

BadWoken(t) ==
  /\ Goto(t, "woken", "lock")
  /\ UNCHANGED <<rack, object, policy, caller, flagged, missed, stray, terminated>>

(* What the thread does between two waits is the subject of Rack. *)
Woken(t) ==
  /\ Goto(t, "woken", IF rack.running THEN "test" ELSE "leave")
  /\ UNCHANGED <<rack, object, policy, caller, flagged, missed, stray, terminated>>

FuncEnd(t) ==
  /\ Goto(t, "leave", "deactivate")
  /\ rack' = [rack EXCEPT !.active = FALSE]
  /\ UNCHANGED <<object, policy, caller, flagged, missed, stray, terminated>>

Deactivate(t) ==
  /\ Goto(t, "deactivate", "done")
  /\ Uses(t)
  /\ object' = [object EXCEPT !["temp"].active =
                   IF object["temp"].alive THEN FALSE ELSE @]
  /\ UNCHANGED <<rack, policy, caller, flagged, missed, terminated>>

CallerStep ==
  \/ StartConstruct \/ Assign \/ DropTemp \/ StartReturns
  \/ StopFlag \/ StopNotify \/ StopJoin \/ StopThrows
  \/ DestroyBegin \/ DestroyMember

ThreadStep(t) ==
  \/ AssignTid(t) \/ Schedule(t) \/ Activate(t) \/ FuncBegin(t)
  \/ TestRunning(t) \/ Wait(t) \/ Woken(t) \/ FuncEnd(t) \/ Deactivate(t)

ThreadNext ==
  /\ ~terminated
  /\ CallerStep \/ \E t \in Threads : ThreadStep(t) \/ SpuriousWakeUp(t)

(* The operating system runs the threads; the caller goes through with the *)
(* call it is in.  No wake-up is owed to a thread that was not notified.   *)
ThreadFairness ==
  /\ \A t \in Threads : WF_scheduledVars(~terminated /\ ThreadStep(t))
  /\ WF_scheduledVars(~terminated /\ caller # "idle" /\ CallerStep)

ThreadSpec == ThreadInit /\ [][ThreadNext]_scheduledVars /\ ThreadFairness

-----------------------------------------------------------------------------
CallerAt ==
  {"idle", "assign", "drop", "spin", "notify", "join",
   "destroy", "destroy_notify", "destroy_join", "gone"}

ThreadAt ==
  {"unborn", "assign_tid", "schedule", "activate", "func", "test", "lock",
   "wait", "woken", "leave", "deactivate", "done"}

ThreadTypeOK ==
  /\ rack \in [running : BOOLEAN, active : BOOLEAN]
  /\ object \in [Objects -> [alive : BOOLEAN, active : BOOLEAN,
                             handle : Threads \cup {NoThread}]]
  /\ policy \in [Threads -> {"inherited", "assigned", "arbitrary"}]
  /\ caller \in CallerAt
  /\ pc \in [Threads -> ThreadAt]
  /\ stray \subseteq Threads
  /\ {flagged, missed, terminated} \subseteq BOOLEAN

Running(t) == pc[t] \notin {"unborn", "done"}

(* The swap of the handles (line 58), the destructors and stop together:   *)
(* a thread that has not ended is always held by exactly one of the        *)
(* objects, and by the member once the temporary is gone.                  *)
ThreadHasOneHandle ==
  \A t \in Threads : Running(t) =>
    /\ \E o \in Objects : object[o].handle = t
    /\ \A o \in Objects : object[o].handle = t => object[o].alive
    /\ object["temp"].handle # object["member"].handle

(* The program is terminated by ~scheduled (lines 51-55) if, and only if,  *)
(* the thread set m_active before the temporary of rack::start died; no    *)
(* other order of start, stop, restart and ~rack does it.                  *)
TerminatesOnlyWhenFlagged ==
  /\ terminated => flagged
  /\ flagged /\ caller \notin {"assign", "drop"} => terminated

(* m_active was copied (line 60) before the thread set it, and the thread  *)
(* sets it elsewhere: is_active() of the rack's thread stays false, so its *)
(* destructor never joins.                                                 *)
MemberNeverActive ==
  caller \notin {"assign", "drop"} => ~object["member"].active

(* No thread runs to its end without using the dead temporary (lines       *)
(* 108-116), unless the program was terminated first.                      *)
EveryThreadStrays == \A t \in Threads : pc[t] = "done" => t \in stray

(* What the moved-from temporary does to the thread and to its owner: the  *)
(* handle moves with the thread, the flag and the pointer do not.          *)
MoveSplitsTheObject ==
  ThreadTypeOK /\ ThreadHasOneHandle /\ MemberNeverActive /\ EveryThreadStrays

(* stop (rack.cpp lines 193-197) returns, and so does ~rack, unless its    *)
(* notification came between the test of m_running and the wait.           *)
StopReturns ==
  caller \in {"join", "destroy_join"} ~>
    caller \in {"idle", "destroy"} \/ missed \/ terminated

=============================================================================
