-------------------------------- MODULE Rack --------------------------------
(***************************************************************************)
(* The rack thread of framework/component/rack.cpp and the threads that    *)
(* ask it for cycles and syncs.                                            *)
(*                                                                         *)
(*   the rack     the thread of rack::start: waits to be triggered, cycles *)
(*                the signal lines, and syncs them at the end of a cycle   *)
(*   callers      threads that call trigger_cycle or trigger_sync: the     *)
(*                driver thread of an output unit, workers that run event  *)
(*                listeners, and the rack itself, when the code of a unit  *)
(*                calls them from within a cycle or a sync                 *)
(*   the owner    the thread that calls rack::start and rack::stop         *)
(*                                                                         *)
(* A sync pass over the lines is what the flags say it is; what it does to *)
(* the units is not modelled here.                                         *)
(*                                                                         *)
(* m_trigger_mutex is locked by the rack thread and by nobody else: a      *)
(* notification that comes before the wait has no effect.  m_resync and    *)
(* m_cycle_queue are atomic; m_resync_flags is a plain integer, so each    *)
(* assignment to it from its own value is a read and, later, a write.      *)
(***************************************************************************)
EXTENDS Integers, FiniteSets

CONSTANTS
  RackThread,   \* the rack thread as a caller of trigger_sync, trigger_cycle
  SyncCallers,  \* other threads that call trigger_sync
  CycleCallers, \* other threads that call trigger_cycle
  Upstream,     \* sync_flags::upstream
  GlobSync,     \* sync_flags::glob_sync
  SyncDuration, \* sync_flags::sync_duration
  Downstream,   \* sync_flags::downstream
  AnySync,      \* stands for the request of trigger_sync(0)
  Requests,     \* the bitfields that trigger_sync is called with
  MaxCycles,    \* bound: calls of trigger_cycle
  MaxSyncs,     \* bound: calls of trigger_sync
  MaxBails,     \* bound: exceptions out of a cycle or a sync
  MaxStarts     \* bound: calls of rack::start

Callers == {RackThread} \cup SyncCallers \cup CycleCallers
Flags == {Upstream, GlobSync, SyncDuration, Downstream}

(* The calls of the rack thread in which the code of units runs: cycle(),  *)
(* and the passes of a sync with their resync hooks (unit.cpp).            *)
UnitsRun == {"cycle", "upstream", "syncing", "plain"}

ASSUME RackAssumption ==
  /\ RackThread \notin SyncCallers \cup CycleCallers
  /\ Cardinality(Flags) = 4 /\ AnySync \notin Flags
  /\ Requests \subseteq SUBSET Flags
  /\ {MaxCycles, MaxSyncs, MaxBails, MaxStarts} \subseteq Nat

VARIABLES
  rpc,       \* the rack: where its thread is
  owns,      \* the rack: whether its unique_lock owns m_trigger_mutex
  toggled,   \* the rack: m_resync_flags as read by the ^= of line 153
  running,   \* m_running
  active,    \* m_active
  resync,    \* m_resync
  flags,     \* m_resync_flags, as the set of its bits
  queue,     \* m_cycle_queue
  tpc,       \* callers: where they are in a trigger call
  asked,     \* callers: the flags they ask for
  saw,       \* callers: m_resync_flags as read by the |= of line 67
  opc,       \* the owner: where it is in start or stop
  starts,    \* calls of start so far
  triggered, \* history: calls of trigger_cycle
  syncs,     \* history: calls of trigger_sync
  ran,       \* history: cycles completed
  bails,     \* history: exceptions caught
  due,       \* history: requests made in time that no pass has served since
  skipped,   \* history: a sync_duration has displaced another sync
  outside    \* history: a sync was asked for from outside the rack thread

threadVars == <<rpc, owns, toggled>>
stateVars == <<running, active>>
syncVars == <<resync, flags, due, skipped>>
callVars == <<tpc, asked, saw, syncs, outside>>
cycleVars == <<queue, triggered>>
ownerVars == <<opc, starts>>
vars == <<threadVars, stateVars, syncVars, callVars, cycleVars, ownerVars, ran, bails>>

Init ==
  /\ rpc = "off"
  /\ owns = FALSE
  /\ toggled = {}
  /\ running = FALSE
  /\ active = FALSE
  /\ resync = FALSE
  /\ flags = {}
  /\ queue = 0
  /\ tpc = [c \in Callers |-> "idle"]
  /\ asked = [c \in Callers |-> {}]
  /\ saw = [c \in Callers |-> {}]
  /\ opc = "down"
  /\ starts = 0
  /\ triggered = 0
  /\ syncs = 0
  /\ ran = 0
  /\ bails = 0
  /\ due = {}
  /\ skipped = FALSE
  /\ outside = FALSE

RackGoes(from, to) == rpc = from /\ rpc' = to
OwnerGoes(from, to) == opc = from /\ opc' = to

(* notify_one: no effect on a thread that is not waiting. *)
Notify == rpc' = IF rpc = "waiting" THEN "awake" ELSE rpc

-----------------------------------------------------------------------------
(* Of the flags fs that c asks for, those that a later pass of the same    *)
(* cycle can serve.  On the rack thread, in the last pass of a cycle, it   *)
(* is too late for any sync: lines 157 and 163 reset the request.  In an   *)
(* upstream pass it is too late for another one: line 153 resets that.     *)
InTime(c, fs) ==
  IF c = RackThread
  THEN CASE rpc \in {"syncing", "plain"} -> {}
         [] rpc = "upstream" -> fs \ {Upstream}
         [] OTHER -> fs
  ELSE fs

(* trigger_sync without flags: m_resync = true is all it does. *)
TriggerPlainSync(c) ==
  /\ tpc[c] = "idle"
  /\ syncs < MaxSyncs
  /\ syncs' = syncs + 1
  /\ outside' = (outside \/ c # RackThread)
  /\ resync' = TRUE
  /\ due' = due \cup InTime(c, {AnySync})
  /\ UNCHANGED <<threadVars, stateVars, flags, skipped, tpc, asked, saw, cycleVars, ownerVars,
                 ran, bails>>

(* trigger_sync(fs) as far as m_resync_flags is read ... *)
TriggerSync(c, fs) ==
  /\ tpc[c] = "idle"
  /\ syncs < MaxSyncs
  /\ syncs' = syncs + 1
  /\ outside' = (outside \/ c # RackThread)
  /\ asked' = [asked EXCEPT ![c] = fs]
  /\ saw' = [saw EXCEPT ![c] = flags]
  /\ tpc' = [tpc EXCEPT ![c] = "write"]
  /\ UNCHANGED <<threadVars, stateVars, syncVars, cycleVars, ownerVars, ran, bails>>

(* ... and written ... *)
WriteFlags(c) ==
  /\ tpc[c] = "write"
  /\ flags' = saw[c] \cup asked[c]
  /\ due' = due \cup InTime(c, asked[c])
  /\ tpc' = [tpc EXCEPT ![c] = "flag"]
  /\ asked' = [asked EXCEPT ![c] = {}]
  /\ saw' = [saw EXCEPT ![c] = {}]
  /\ UNCHANGED <<threadVars, stateVars, resync, skipped, syncs, outside, cycleVars, ownerVars,
                 ran, bails>>

(* ... and m_resync is set. *)
SetResync(c) ==
  /\ tpc[c] = "flag"
  /\ resync' = TRUE
  /\ tpc' = [tpc EXCEPT ![c] = "idle"]
  /\ UNCHANGED <<threadVars, stateVars, flags, due, skipped, asked, saw, syncs, outside, cycleVars,
                 ownerVars, ran, bails>>

(* trigger_cycle: ++m_cycle_queue ... *)
TriggerCycle(c) ==
  /\ tpc[c] = "idle"
  /\ triggered < MaxCycles
  /\ triggered' = triggered + 1
  /\ queue' = queue + 1
  /\ tpc' = [tpc EXCEPT ![c] = "notify"]
  /\ UNCHANGED <<threadVars, stateVars, syncVars, asked, saw, syncs, outside, ownerVars, ran, bails>>

(* ... and the notification, without the lock. *)
NotifyCycle(c) ==
  /\ tpc[c] = "notify"
  /\ tpc' = [tpc EXCEPT ![c] = "idle"]
  /\ Notify
  /\ UNCHANGED <<owns, toggled, stateVars, syncVars, asked, saw, syncs, outside, cycleVars, ownerVars, ran, bails>>

(* What a caller does once it has called. *)
Caller(c) == WriteFlags(c) \/ SetResync(c) \/ NotifyCycle(c)

-----------------------------------------------------------------------------
(* Calls from within the rack thread: the code of a unit may ask for a     *)
(* sync or a cycle whenever it runs.  So does a dispatch unit: a global    *)
(* sync (dispatch.cpp, lines 33-38) when an upstream sync brings it        *)
(* another line state, and then a cycle if that state is active.           *)
UnitSyncs ==
  /\ rpc \in UnitsRun
  /\ TriggerPlainSync(RackThread) \/ \E fs \in Requests : TriggerSync(RackThread, fs)

UnitCycles == rpc \in UnitsRun /\ TriggerCycle(RackThread)

-----------------------------------------------------------------------------
RackBegins ==
  /\ RackGoes("begin", "loop")
  /\ active' = TRUE
  /\ owns' = TRUE
  /\ UNCHANGED <<toggled, running, syncVars, callVars, cycleVars, ownerVars, ran, bails>>

(* while(m_running).  At its end the thread is done, and not active. *)
RackLoops ==
  /\ RackGoes("loop", IF running THEN "sleep" ELSE "gone")
  /\ active' = running
  /\ UNCHANGED <<owns, toggled, running, syncVars, callVars, cycleVars, ownerVars, ran, bails>>

(* m_trigger.wait(lock) starts to wait.  Once an exception has been caught *)
(* the lock is no longer owned, which is undefined behaviour; the wait of  *)
(* pthreads does not check it, and the unique_lock stays without the lock. *)
RackSleeps ==
  /\ RackGoes("sleep", "waiting")
  /\ UNCHANGED <<owns, toggled, stateVars, syncVars, callVars, cycleVars, ownerVars, ran, bails>>

(* The wait may return without a notification. *)
RackWakesSpuriously ==
  /\ RackGoes("waiting", "awake")
  /\ UNCHANGED <<owns, toggled, stateVars, syncVars, callVars, cycleVars, ownerVars, ran, bails>>

(* if(!m_running) lock.unlock(), which throws if the lock is not owned.    *)
RackQuits ==
  /\ ~running
  /\ RackGoes("awake", IF owns THEN "gone" ELSE "terminated")
  /\ owns' = FALSE
  /\ active' = ~owns
  /\ UNCHANGED <<toggled, running, syncVars, callVars, cycleVars, ownerVars, ran, bails>>

(* Variants: a definition named Bad... is a mistake in the one that        *)
(* follows it, and shows what the properties below would notice.           *)
BadRackWorks ==
  /\ running
  /\ RackGoes("awake", "queue")
  /\ owns' = FALSE
  /\ UNCHANGED <<toggled, stateVars, syncVars, callVars, cycleVars, ownerVars, ran, bails>>

RackWorks ==
  /\ running
  /\ RackGoes("awake", "queue")
  /\ UNCHANGED <<owns, toggled, stateVars, syncVars, callVars, cycleVars, ownerVars, ran, bails>>

(* while(m_cycle_queue > 0) cycle(); the queue alone ends this loop. *)
CycleBegins ==
  /\ RackGoes("queue", IF queue > 0 THEN "cycle" ELSE "loop")
  /\ UNCHANGED <<owns, toggled, stateVars, syncVars, callVars, cycleVars, ownerVars, ran, bails>>

(* cycle() returns, and m_resync is read. *)
CycleEnds ==
  /\ tpc[RackThread] = "idle"
  /\ RackGoes("cycle", IF resync THEN "flags" ELSE "count")
  /\ UNCHANGED <<owns, toggled, stateVars, syncVars, callVars, cycleVars, ownerVars, ran, bails>>

(* backend::sync(fs), for a request of its own kind each: a sync_duration  *)
(* returns before it looks at the others (line 37), a global sync comes    *)
(* before an upstream one (lines 40-44), and whatever the flags the lines  *)
(* are cycled for a sync (line 53, or 67 for a sync_duration).             *)
Served(fs) ==
  {AnySync} \cup (fs \cap {Downstream})
  \cup (IF SyncDuration \in fs THEN {SyncDuration}
        ELSE IF GlobSync \in fs THEN {GlobSync} ELSE fs \cap {Upstream})

(* m_resync_flags is read: which sync is it?  The first pass begins.       *)
PassBegins ==
  /\ RackGoes("flags", IF flags = {} THEN "plain"
                       ELSE IF Upstream \in flags THEN "upstream" ELSE "sync")
  /\ due' = IF flags = {} THEN due \ {AnySync}
            ELSE IF Upstream \in flags THEN due \ Served({Upstream}) ELSE due
  /\ UNCHANGED <<owns, toggled, stateVars, resync, flags, skipped, callVars, cycleVars, ownerVars,
                 ran, bails>>

BadUpstreamEnds ==
  /\ tpc[RackThread] = "idle"
  /\ RackGoes("upstream", "unflag")
  /\ toggled' = flags
  /\ UNCHANGED <<owns, stateVars, syncVars, callVars, cycleVars, ownerVars, ran, bails>>

(* The upstream pass returns, and m_resync_flags is read to be toggled ... *)
UpstreamEnds ==
  /\ tpc[RackThread] = "idle"
  /\ RackGoes("upstream", "toggle")
  /\ toggled' = flags
  /\ UNCHANGED <<owns, stateVars, syncVars, callVars, cycleVars, ownerVars, ran, bails>>

BadUpstreamToggled ==
  /\ RackGoes("toggle", "sync")
  /\ flags' = {}
  /\ toggled' = {}
  /\ UNCHANGED <<owns, stateVars, resync, due, skipped, callVars, cycleVars, ownerVars, ran, bails>>

(* ... m_resync_flags ^= upstream. *)
UpstreamToggled ==
  /\ RackGoes("toggle", "sync")
  /\ flags' = IF Upstream \in toggled THEN toggled \ {Upstream} ELSE toggled \cup {Upstream}
  /\ toggled' = {}
  /\ UNCHANGED <<owns, stateVars, resync, due, skipped, callVars, cycleVars, ownerVars, ran, bails>>

(* sync(m_resync_flags) begins, with the flags there are by now ... *)
SyncBegins ==
  /\ RackGoes("sync", "syncing")
  /\ due' = due \ Served(flags)
  /\ skipped' = (skipped \/ (SyncDuration \in flags /\ flags \cap {GlobSync, Upstream} # {}))
  /\ UNCHANGED <<owns, toggled, stateVars, resync, flags, callVars, cycleVars, ownerVars, ran, bails>>

(* ... and returns: m_resync_flags = 0. *)
SyncEnds ==
  /\ tpc[RackThread] = "idle"
  /\ RackGoes("syncing", "unflag")
  /\ flags' = {}
  /\ UNCHANGED <<owns, toggled, stateVars, resync, due, skipped, callVars, cycleVars, ownerVars,
                 ran, bails>>

(* The pass of a sync without flags returns. *)
PlainEnds ==
  /\ tpc[RackThread] = "idle"
  /\ RackGoes("plain", "unflag")
  /\ UNCHANGED <<owns, toggled, stateVars, syncVars, callVars, cycleVars, ownerVars, ran, bails>>

(* "Switch off the flag (might need to lock?)" *)
ResyncOff ==
  /\ RackGoes("unflag", "count")
  /\ resync' = FALSE
  /\ UNCHANGED <<owns, toggled, stateVars, flags, due, skipped, callVars, cycleVars, ownerVars, ran, bails>>

BadCycleCountedForAll ==
  /\ RackGoes("count", "queue")
  /\ queue' = 0
  /\ ran' = ran + 1
  /\ UNCHANGED <<owns, toggled, stateVars, syncVars, callVars, triggered, ownerVars, bails>>

BadCycleCountedAlone ==
  /\ RackGoes("count", "loop")
  /\ queue' = queue - 1
  /\ ran' = ran + 1
  /\ UNCHANGED <<owns, toggled, stateVars, syncVars, callVars, triggered, ownerVars, bails>>

(* --m_cycle_queue *)
CycleCounted ==
  /\ RackGoes("count", "queue")
  /\ queue' = queue - 1
  /\ ran' = ran + 1
  /\ UNCHANGED <<owns, toggled, stateVars, syncVars, callVars, triggered, ownerVars, bails>>

(* A unit runs out of cache, or meets a null cache_ptr, in any of the      *)
(* calls: the lock is given up, which throws again if it is not owned, and *)
(* the rest of the cycle, with its count, is left out.                     *)
BailOut ==
  /\ rpc \in UnitsRun
  /\ tpc[RackThread] = "idle"
  /\ bails < MaxBails
  /\ bails' = bails + 1
  /\ rpc' = IF owns THEN "loop" ELSE "terminated"
  /\ owns' = FALSE
  /\ UNCHANGED <<toggled, stateVars, syncVars, callVars, cycleVars, ownerVars, ran>>

Resync ==
  \/ PassBegins \/ UpstreamEnds \/ UpstreamToggled \/ SyncBegins \/ SyncEnds
  \/ PlainEnds \/ ResyncOff

Rack ==
  \/ RackBegins \/ RackLoops \/ RackSleeps \/ RackQuits \/ RackWorks
  \/ CycleBegins \/ CycleEnds \/ Resync \/ CycleCounted

-----------------------------------------------------------------------------
(* rack::start, up to its loop; m_cycle_queue and the flags stay as they   *)
(* are.                                                                    *)
Start ==
  /\ starts < MaxStarts
  /\ OwnerGoes("down", "spin")
  /\ starts' = starts + 1
  /\ running' = TRUE
  /\ active' = FALSE
  /\ rpc' = "begin"
  /\ UNCHANGED <<owns, toggled, syncVars, callVars, cycleVars, ran, bails>>

(* while(!m_active) *)
Spin ==
  /\ active
  /\ OwnerGoes("spin", "up")
  /\ UNCHANGED <<threadVars, stateVars, syncVars, callVars, cycleVars, starts, ran, bails>>

(* rack::stop: m_running = false ... *)
Stop ==
  /\ OwnerGoes("up", "notify")
  /\ running' = FALSE
  /\ UNCHANGED <<threadVars, active, syncVars, callVars, cycleVars, starts, ran, bails>>

(* ... the notification, without the lock ... *)
NotifyStop ==
  /\ OwnerGoes("notify", "join")
  /\ Notify
  /\ UNCHANGED <<owns, toggled, stateVars, syncVars, callVars, cycleVars, starts, ran, bails>>

(* ... and the join. *)
Join ==
  /\ rpc = "gone"
  /\ OwnerGoes("join", "down")
  /\ UNCHANGED <<threadVars, stateVars, syncVars, callVars, cycleVars, starts, ran, bails>>

Owner == Spin \/ NotifyStop \/ Join

(* An exception that leaves the rack thread ends the process. *)
Next ==
  /\ rpc # "terminated"
  /\ \/ Rack \/ RackWakesSpuriously \/ BailOut
     \/ UnitSyncs \/ UnitCycles
     \/ \E c \in SyncCallers : TriggerPlainSync(c) \/ \E fs \in Requests : TriggerSync(c, fs)
     \/ \E c \in CycleCallers : TriggerCycle(c)
     \/ \E c \in Callers : Caller(c)
     \/ Start \/ Stop \/ Owner

(* A thread that can go on does; nobody has to call anything. *)
Fairness ==
  /\ WF_vars(Rack)
  /\ \A c \in Callers : WF_vars(rpc # "terminated" /\ Caller(c))
  /\ WF_vars(rpc # "terminated" /\ Owner)

Spec == Init /\ [][Next]_vars /\ Fairness

-----------------------------------------------------------------------------
TypeOK ==
  /\ rpc \in {"off", "begin", "loop", "sleep", "waiting", "awake", "queue",
              "cycle", "flags", "plain", "upstream", "toggle", "sync",
              "syncing", "unflag", "count", "gone", "terminated"}
  /\ owns \in BOOLEAN
  /\ toggled \subseteq Flags
  /\ running \in BOOLEAN
  /\ active \in BOOLEAN
  /\ resync \in BOOLEAN
  /\ flags \subseteq Flags
  /\ queue \in 0 .. MaxCycles
  /\ tpc \in [Callers -> {"idle", "write", "flag", "notify"}]
  /\ asked \in [Callers -> SUBSET Flags]
  /\ saw \in [Callers -> SUBSET Flags]
  /\ opc \in {"down", "spin", "up", "notify", "join"}
  /\ starts \in 0 .. MaxStarts
  /\ triggered \in 0 .. MaxCycles
  /\ syncs \in 0 .. MaxSyncs
  /\ ran \in 0 .. MaxCycles
  /\ bails \in 0 .. MaxBails
  /\ due \subseteq Flags \cup {AnySync}
  /\ skipped \in BOOLEAN
  /\ outside \in BOOLEAN

(* "Triggering more than one cycle will compound the number of queued      *)
(* cycles" (rack.hpp:45-49): whoever triggers, and whenever, one cycle is  *)
(* run or queued for each call; a cycle that bailed out stays queued.      *)
CyclesCompound == triggered = ran + queue

(* A sync that was asked for in time and has not begun since is still on   *)
(* record, so that a later pass runs it: "they will all be run in priority *)
(* order" (rack.hpp:35-43).                                                *)
SyncNotLost ==
  \A f \in due :
    IF f = AnySync THEN resync
    ELSE f \in flags /\ (resync \/ \E c \in Callers : tpc[c] = "flag")

(* No sync that was asked for in time is lost as long as only the rack     *)
(* thread asks, and no sync_duration displaces another sync: what the      *)
(* units set in a cycle or during a pass survives the ^= and the resets    *)
(* that follow the passes.                                                 *)
SyncFromLineNotLost == ~outside /\ ~skipped => SyncNotLost

(* "Notify rack to run a sync at the end of the cycle" (rack.hpp:36), and  *)
(* the global sync a dispatch asks for "should be performed within the     *)
(* current latency window" (dispatch.cpp:29-32): no cycle begins while a   *)
(* sync asked for in time in an earlier one is due, unless a cycle has     *)
(* bailed out, a sync_duration has displaced a sync, or another thread     *)
(* asks for syncs.                                                         *)
SyncsBeforeNextCycle ==
  [][rpc = "queue" /\ rpc' = "cycle" /\ bails = 0 /\ ~outside /\ ~skipped => due = {}]_vars

(* The process is only brought down by a lock that is not owned: after an  *)
(* exception in a cycle, by the next exception or by stop.                 *)
DiesOnlyAfterBailOut ==
  rpc = "terminated" => bails > 1 \/ (bails = 1 /\ ~running)

(* Once stop has returned the thread has ended and the rack says so; and a *)
(* thread that works has an owner that can still stop it.                  *)
StoppedMeansInactive ==
  /\ opc = "down" => ~active /\ rpc \in {"off", "gone"}
  /\ opc = "up" => active \/ rpc = "terminated"

(* The rack's thread ends when it is stopped, not before, and takes the    *)
(* process with it only in the way above (rack.cpp lines 160-198).         *)
LifeCycle == TypeOK /\ DiesOnlyAfterBailOut /\ StoppedMeansInactive

(* A wake-up serves all the cycles that are queued, not only one: the      *)
(* notifications of triggers that come while the rack works are lost.      *)
WakeUpServesAll ==
  rpc = "awake" /\ running ~> queue = 0 \/ bails > 0 \/ ~running

=============================================================================
