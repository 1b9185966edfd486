----------------------------- MODULE RackProofs -----------------------------
(***************************************************************************)
(* Proofs about the rack for any callers and any bounds: cycles add up, no *)
(* sync is lost that was asked for on the rack thread, syncs come before   *)
(* the next cycle, and only an exception brings the process down.  Then,   *)
(* in a second part, about the rack's thread and the temporary it was      *)
(* constructed in, for any number of starts: who holds the thread, what    *)
(* its flag says, and when ~scheduled takes the process with it.  The two  *)
(* modules share no variable: each part is about one of them.              *)
(***************************************************************************)
EXTENDS Rack, Scheduled, FiniteSetTheorems, TLAPS

Syncing == {"flags", "plain", "upstream", "toggle", "sync", "syncing", "unflag"}
Cycling == Syncing \cup {"cycle", "count"}
Ended == {"off", "gone"}

(* A cycle is under way only if it is queued: it is counted at its end.    *)
CycleIsQueued == rpc \in Cycling => queue > 0

(* Where the rack thread is, as far as the owner knows. *)
OwnerKnows ==
  /\ opc = "down" => rpc \in Ended
  /\ opc \in {"spin", "up"} => rpc \notin Ended
  /\ rpc = "off" => opc = "down"
  /\ rpc = "begin" => opc = "spin"
  /\ opc \in {"spin", "up"} => running

ActiveWhileAlive ==
  /\ rpc \in Ended \cup {"begin"} => ~active
  /\ rpc \notin Ended \cup {"begin", "terminated"} => active

(* The lock is only missing after an exception. *)
OwnsUntilBailOut ==
  rpc \notin Ended \cup {"begin", "terminated"} /\ bails = 0 => owns

(* The rack thread itself calls only while the code of units runs, and     *)
(* m_resync is not reset before the end of the passes.                     *)
CallsFromPasses ==
  /\ tpc[RackThread] # "idle" => rpc \in UnitsRun
  /\ rpc \in Syncing => resync

(* Without calls from outside nobody else writes m_resync_flags, and what  *)
(* was read of it is what it still is.  (It is only asked while no sync    *)
(* has been displaced, like the rest.)                                     *)
NobodyInterferes ==
  ~outside /\ ~skipped =>
    /\ \A c \in Callers \ {RackThread} : tpc[c] \in {"idle", "notify"}
    /\ tpc[RackThread] = "write" => saw[RackThread] = flags
    /\ rpc = "toggle" => toggled = flags

(* What can be due while and after the passes run, unless a sync_duration  *)
(* has displaced a sync.                                                   *)
DueInPasses ==
  ~outside /\ ~skipped =>
    /\ rpc \in {"upstream", "toggle", "sync"} => Upstream \notin due
    /\ rpc \in {"plain", "syncing", "unflag"} => due = {}
    /\ bails = 0 /\ rpc \notin {"cycle", "flags", "upstream", "toggle", "sync"} => due = {}

(* Counts, the lock and the life cycle of the thread. *)
ControlInv ==
  /\ TypeOK
  /\ CycleIsQueued
  /\ CyclesCompound
  /\ OwnerKnows
  /\ ActiveWhileAlive
  /\ OwnsUntilBailOut
  /\ DiesOnlyAfterBailOut

(* What becomes of the syncs that were asked for. *)
SyncInv ==
  /\ CallsFromPasses
  /\ NobodyInterferes
  /\ DueInPasses
  /\ SyncFromLineNotLost

IInv == ControlInv /\ SyncInv

-----------------------------------------------------------------------------
LEMMA BoundsAreNat ==
  /\ MaxCycles \in Nat
  /\ MaxSyncs \in Nat
  /\ MaxBails \in Nat
  /\ MaxStarts \in Nat
BY RackAssumption DEF RackAssumption

LEMMA FlagsAreDistinct ==
  /\ Upstream \notin {GlobSync, SyncDuration, Downstream}
  /\ GlobSync \notin {SyncDuration, Downstream}
  /\ SyncDuration # Downstream
  /\ AnySync \notin Flags
<1>1. Cardinality(Flags) = 4 /\ AnySync \notin Flags
  BY RackAssumption DEF RackAssumption
<1>2. ASSUME NEW a, NEW b, NEW c, Flags = {a, b, c} PROVE FALSE
  <2>1. IsFiniteSet({}) /\ Cardinality({}) = 0
    BY FS_EmptySet
  <2>2. IsFiniteSet({a}) /\ Cardinality({a}) \in 0 .. 1
    <3>1. {a} = {} \cup {a}
      OBVIOUS
    <3> QED
      BY <2>1, <3>1, FS_AddElement
  <2>3. IsFiniteSet({a, b}) /\ Cardinality({a, b}) \in 0 .. 2
    <3>1. {a, b} = {a} \cup {b}
      OBVIOUS
    <3> QED
      BY <2>2, <3>1, FS_AddElement
  <2>4. Cardinality({a, b, c}) \in 0 .. 3
    <3>1. {a, b, c} = {a, b} \cup {c}
      OBVIOUS
    <3> QED
      BY <2>3, <3>1, FS_AddElement
  <2> QED
    BY <1>1, <1>2, <2>4
<1>3. Upstream # GlobSync
  BY <1>2 DEF Flags
<1>4. Upstream # SyncDuration
  BY <1>2 DEF Flags
<1>5. Upstream # Downstream
  BY <1>2 DEF Flags
<1>6. GlobSync # SyncDuration
  BY <1>2 DEF Flags
<1>7. GlobSync # Downstream
  BY <1>2 DEF Flags
<1>8. SyncDuration # Downstream
  BY <1>2 DEF Flags
<1> QED
  BY <1>1, <1>3, <1>4, <1>5, <1>6, <1>7, <1>8

LEMMA InitIInv == Init => IInv
<1> SUFFICES ASSUME Init PROVE IInv
  OBVIOUS
<1> USE RackAssumption DEF RackAssumption, Init
<1>1. TypeOK
  <2>1. asked \in [Callers -> SUBSET Flags] /\ saw \in [Callers -> SUBSET Flags]
    OBVIOUS
  <2>2. tpc \in [Callers -> {"idle", "write", "flag", "notify"}]
    OBVIOUS
  <2>3. /\ queue \in 0 .. MaxCycles /\ triggered \in 0 .. MaxCycles /\ ran \in 0 .. MaxCycles
        /\ syncs \in 0 .. MaxSyncs /\ bails \in 0 .. MaxBails /\ starts \in 0 .. MaxStarts
    BY BoundsAreNat
  <2>4. owns \in BOOLEAN /\ running \in BOOLEAN /\ active \in BOOLEAN /\ resync \in BOOLEAN
        /\ outside \in BOOLEAN /\ skipped \in BOOLEAN
    OBVIOUS
  <2>5. toggled \subseteq Flags /\ flags \subseteq Flags /\ due \subseteq Flags \cup {AnySync}
    OBVIOUS
  <2> QED
    BY <2>1, <2>2, <2>3, <2>4, <2>5 DEF TypeOK
<1>2. ControlInv
  BY <1>1 DEF ControlInv, CycleIsQueued, CyclesCompound, OwnerKnows, ActiveWhileAlive,
         OwnsUntilBailOut, DiesOnlyAfterBailOut, Ended, Cycling, Syncing
<1>3. SyncInv
  BY DEF SyncInv, CallsFromPasses, NobodyInterferes, DueInPasses, SyncFromLineNotLost,
         SyncNotLost, Syncing, Callers
<1> QED
  BY <1>2, <1>3 DEF IInv

(* A call of trigger_sync or trigger_cycle, wherever it comes from. *)
LEMMA CallsControl ==
  ASSUME ControlInv, NEW c \in Callers,
         \/ TriggerPlainSync(c)
         \/ \E fs \in SUBSET Flags : TriggerSync(c, fs)
         \/ WriteFlags(c) \/ SetResync(c) \/ TriggerCycle(c) \/ NotifyCycle(c),
         rpc # "terminated"
  PROVE  ControlInv'
<1> USE BoundsAreNat
    DEF ControlInv, TypeOK, CycleIsQueued, CyclesCompound, OwnerKnows, ActiveWhileAlive,
        OwnsUntilBailOut, DiesOnlyAfterBailOut, Ended, Cycling, Syncing, Flags,
        threadVars, stateVars, syncVars, callVars, cycleVars, ownerVars
<1>1. CASE TriggerPlainSync(c)
  BY <1>1 DEF TriggerPlainSync, InTime
<1>2. CASE \E fs \in SUBSET Flags : TriggerSync(c, fs)
  BY <1>2 DEF TriggerSync
<1>3. CASE WriteFlags(c)
  BY <1>3 DEF WriteFlags, InTime
<1>4. CASE SetResync(c)
  BY <1>4 DEF SetResync
<1>5. CASE TriggerCycle(c)
  BY <1>5 DEF TriggerCycle
<1>6. CASE NotifyCycle(c)
  BY <1>6 DEF NotifyCycle, Notify
<1> QED
  BY <1>1, <1>2, <1>3, <1>4, <1>5, <1>6

(* A step of the rack thread. *)
LEMMA RackControl ==
  ASSUME ControlInv,
         \/ RackBegins \/ RackLoops \/ RackSleeps \/ RackWakesSpuriously
         \/ RackQuits \/ RackWorks \/ CycleBegins \/ CycleEnds \/ PassBegins
         \/ UpstreamEnds \/ UpstreamToggled \/ SyncBegins \/ SyncEnds
         \/ PlainEnds \/ ResyncOff \/ CycleCounted \/ BailOut
  PROVE  ControlInv'
<1> USE BoundsAreNat
    DEF ControlInv, TypeOK, CycleIsQueued, CyclesCompound, OwnerKnows, ActiveWhileAlive,
        OwnsUntilBailOut, DiesOnlyAfterBailOut, Ended, Cycling, Syncing, Flags,
        threadVars, stateVars, syncVars, callVars, cycleVars, ownerVars
<1>1. CASE RackBegins
  BY <1>1 DEF RackBegins, RackGoes
<1>2. CASE RackLoops
  BY <1>2 DEF RackLoops, RackGoes
<1>3. CASE RackSleeps
  BY <1>3 DEF RackSleeps, RackGoes
<1>4. CASE RackWakesSpuriously
  BY <1>4 DEF RackWakesSpuriously, RackGoes
<1>5. CASE RackQuits
  <2>1. CASE owns
    BY <1>5, <2>1 DEF RackQuits, RackGoes
  <2>2. CASE ~owns
    <3>1. bails > 0
      BY <1>5, <2>2 DEF RackQuits, RackGoes
    <3>2. rpc' = "terminated" /\ active' /\ ~running'
      BY <1>5, <2>2 DEF RackQuits, RackGoes
    <3>3. TypeOK'
      BY <1>5, <2>2 DEF RackQuits, RackGoes
    <3>4. DiesOnlyAfterBailOut'
      BY <1>5, <3>1, <3>2 DEF RackQuits
    <3>5. CyclesCompound' /\ CycleIsQueued'
      BY <1>5, <3>2 DEF RackQuits
    <3>6. OwnerKnows'
      BY <1>5, <3>2 DEF RackQuits, RackGoes
    <3>7. ActiveWhileAlive' /\ OwnsUntilBailOut'
      BY <3>2
    <3> QED
      BY <3>3, <3>4, <3>5, <3>6, <3>7
  <2> QED
    BY <2>1, <2>2
<1>6. CASE RackWorks
  BY <1>6 DEF RackWorks, RackGoes
<1>7. CASE CycleBegins
  BY <1>7 DEF CycleBegins, RackGoes
<1>8. CASE CycleEnds
  BY <1>8 DEF CycleEnds, RackGoes
<1>9. CASE PassBegins
  BY <1>9 DEF PassBegins, RackGoes
<1>10. CASE UpstreamEnds
  BY <1>10 DEF UpstreamEnds, RackGoes
<1>11. CASE UpstreamToggled
  BY <1>11 DEF UpstreamToggled, RackGoes
<1>12. CASE SyncBegins
  BY <1>12 DEF SyncBegins, RackGoes
<1>13. CASE SyncEnds
  BY <1>13 DEF SyncEnds, RackGoes
<1>14. CASE PlainEnds
  BY <1>14 DEF PlainEnds, RackGoes
<1>15. CASE ResyncOff
  BY <1>15 DEF ResyncOff, RackGoes
<1>16. CASE CycleCounted
  BY <1>16 DEF CycleCounted, RackGoes
<1>17. CASE BailOut
  <2>1. bails' = bails + 1 /\ bails' \in 0 .. MaxBails
    BY <1>17 DEF BailOut
  <2>2. TypeOK'
    BY <1>17, <2>1 DEF BailOut
  <2>3. DiesOnlyAfterBailOut'
    <3>1. ~owns => bails > 0
      BY <1>17 DEF BailOut, UnitsRun
    <3> QED
      BY <1>17, <2>1, <3>1 DEF BailOut
  <2> QED
    BY <1>17, <2>1, <2>2, <2>3 DEF BailOut, UnitsRun
<1> QED
  BY <1>1, <1>2, <1>3, <1>4, <1>5, <1>6, <1>7, <1>8, <1>9, <1>10, <1>11, <1>12,
     <1>13, <1>14, <1>15, <1>16, <1>17

(* A step of the owner; none follows the end of the process. *)
LEMMA OwnerControl ==
  ASSUME ControlInv, rpc # "terminated",
         \/ Start \/ Spin \/ Stop \/ NotifyStop \/ Join
  PROVE  ControlInv'
<1> USE BoundsAreNat
    DEF ControlInv, TypeOK, CycleIsQueued, CyclesCompound, OwnerKnows, ActiveWhileAlive,
        OwnsUntilBailOut, DiesOnlyAfterBailOut, Ended, Cycling, Syncing, Flags,
        threadVars, stateVars, syncVars, callVars, cycleVars, ownerVars
<1>1. CASE Start
  <2>1. starts' \in 0 .. MaxStarts
    BY <1>1 DEF Start
  <2>2. TypeOK'
    BY <1>1, <2>1 DEF Start, OwnerGoes
  <2>3. OwnerKnows' /\ ActiveWhileAlive'
    BY <1>1 DEF Start, OwnerGoes
  <2> QED
    BY <1>1, <2>2, <2>3 DEF Start, OwnerGoes
<1>2. CASE Spin
  BY <1>2 DEF Spin, OwnerGoes
<1>3. CASE Stop
  BY <1>3 DEF Stop, OwnerGoes
<1>4. CASE NotifyStop
  BY <1>4 DEF NotifyStop, Notify, OwnerGoes
<1>5. CASE Join
  BY <1>5 DEF Join, OwnerGoes
<1> QED
  BY <1>1, <1>2, <1>3, <1>4, <1>5

LEMMA NextControl ==
  ASSUME ControlInv, [Next]_vars
  PROVE  ControlInv'
<1>1. CASE UNCHANGED vars
  BY <1>1 DEF vars, threadVars, stateVars, syncVars, callVars, cycleVars, ownerVars,
         ControlInv, TypeOK, CycleIsQueued, CyclesCompound, OwnerKnows, ActiveWhileAlive,
         OwnsUntilBailOut, DiesOnlyAfterBailOut
<1>2. CASE Rack \/ RackWakesSpuriously \/ BailOut
  BY <1>2, RackControl DEF Rack, Resync
<1>3. ASSUME UnitSyncs \/ UnitCycles, rpc # "terminated"
      PROVE  ControlInv'
  <2>1. RackThread \in Callers
    BY DEF Callers
  <2>2. \/ TriggerPlainSync(RackThread)
        \/ \E fs \in SUBSET Flags : TriggerSync(RackThread, fs)
        \/ TriggerCycle(RackThread)
    BY <1>3, RackAssumption DEF UnitSyncs, UnitCycles, RackAssumption
  <2> QED
    BY <1>3, <2>1, <2>2, CallsControl
<1>4. ASSUME NEW c \in SyncCallers, rpc # "terminated",
             TriggerPlainSync(c) \/ \E fs \in Requests : TriggerSync(c, fs)
      PROVE  ControlInv'
  <2>1. c \in Callers
    BY DEF Callers
  <2>2. TriggerPlainSync(c) \/ \E fs \in SUBSET Flags : TriggerSync(c, fs)
    BY <1>4, RackAssumption DEF RackAssumption
  <2> QED
    BY <1>4, <2>1, <2>2, CallsControl
<1>5. ASSUME NEW c \in CycleCallers, rpc # "terminated", TriggerCycle(c)
      PROVE  ControlInv'
  <2>1. c \in Callers
    BY DEF Callers
  <2> QED
    BY <1>5, <2>1, CallsControl
<1>6. ASSUME NEW c \in Callers, rpc # "terminated", Caller(c)
      PROVE  ControlInv'
  BY <1>6, CallsControl DEF Caller
<1>7. ASSUME Start \/ Stop \/ Owner, rpc # "terminated"
      PROVE  ControlInv'
  BY <1>7, OwnerControl DEF Owner
<1> QED
  BY <1>1, <1>2, <1>3, <1>4, <1>5, <1>6, <1>7 DEF Next

(* The rack thread is in a call only where the units may make one, and a   *)
(* reset of m_resync comes after the passes.                               *)
LEMMA NextCallsFromPasses ==
  ASSUME IInv, [Next]_vars
  PROVE  CallsFromPasses'
<1> USE RackAssumption
    DEF IInv, ControlInv, SyncInv, TypeOK, OwnerKnows, Ended, CallsFromPasses, Syncing, UnitsRun,
        Callers, threadVars, stateVars, syncVars, callVars, cycleVars, ownerVars,
        RackAssumption
<1>1. CASE UNCHANGED vars
  BY <1>1 DEF vars
<1>2. CASE Rack
  <2>1. CASE Resync
    BY <2>1 DEF Resync, PassBegins, UpstreamEnds, UpstreamToggled, SyncBegins, SyncEnds,
           PlainEnds, ResyncOff, RackGoes
  <2>2. CASE RackBegins \/ RackLoops \/ RackSleeps \/ RackQuits \/ RackWorks
    BY <2>2 DEF RackBegins, RackLoops, RackSleeps, RackQuits, RackWorks, RackGoes
  <2>3. CASE CycleBegins \/ CycleEnds \/ CycleCounted
    BY <2>3 DEF CycleBegins, CycleEnds, CycleCounted, RackGoes
  <2> QED
    BY <1>2, <2>1, <2>2, <2>3 DEF Rack
<1>3. CASE RackWakesSpuriously \/ BailOut
  BY <1>3 DEF RackWakesSpuriously, BailOut, RackGoes
<1>4. CASE UnitSyncs \/ UnitCycles
  BY <1>4 DEF UnitSyncs, UnitCycles, TriggerPlainSync, TriggerSync, TriggerCycle
<1>5. ASSUME NEW c \in SyncCallers,
             TriggerPlainSync(c) \/ \E fs \in Requests : TriggerSync(c, fs)
      PROVE  CallsFromPasses'
  BY <1>5 DEF TriggerPlainSync, TriggerSync
<1>6. ASSUME NEW c \in CycleCallers, TriggerCycle(c)
      PROVE  CallsFromPasses'
  BY <1>6 DEF TriggerCycle
<1>7. ASSUME NEW c \in Callers, Caller(c)
      PROVE  CallsFromPasses'
  BY <1>7 DEF Caller, WriteFlags, SetResync, NotifyCycle, Notify
<1>8. CASE Start \/ Stop \/ Owner
  BY <1>8 DEF Start, Stop, Owner, Spin, NotifyStop, Join, Notify, OwnerGoes
<1> QED
  BY <1>1, <1>2, <1>3, <1>4, <1>5, <1>6, <1>7, <1>8 DEF Next

(* The passes: as long as the syncs come from the rack thread, what a pass *)
(* leaves due is on record until a later pass of the same cycle.           *)
LEMMA PassesKeepSyncs ==
  ASSUME IInv, ~outside, ~outside', ~skipped, ~skipped',
         CycleEnds \/ Resync \/ CycleCounted \/ BailOut
  PROVE  NobodyInterferes' /\ DueInPasses' /\ SyncFromLineNotLost'
<1> USE RackAssumption, FlagsAreDistinct
    DEF IInv, ControlInv, SyncInv, TypeOK, CallsFromPasses, Syncing, UnitsRun, NobodyInterferes,
        DueInPasses, SyncFromLineNotLost, SyncNotLost, Callers, RackGoes,
        stateVars, syncVars, callVars, cycleVars, ownerVars, RackAssumption
<1>1. CASE CycleEnds
  <2>1. ~resync => due = {}
    <3>1. \A c \in Callers : tpc[c] # "flag"
      BY <1>1 DEF CycleEnds
    <3> QED
      BY <3>1
  <2> QED
    BY <1>1, <2>1 DEF CycleEnds
<1>2. CASE PassBegins
  <2>1. /\ UNCHANGED <<resync, flags, tpc, saw, bails, skipped, outside>>
        /\ rpc = "flags" /\ tpc[RackThread] = "idle"
    BY <1>2 DEF PassBegins
  <2>2. due \subseteq flags \cup {AnySync}
    OBVIOUS
  <2>3. due' \subseteq due
    BY <1>2 DEF PassBegins
  <2>4. SyncFromLineNotLost'
    BY <2>1, <2>3
  <2>5. NobodyInterferes'
    BY <1>2, <2>1 DEF PassBegins
  <2>6. CASE flags = {}
    <3>1. due' = {} /\ rpc' = "plain"
      BY <1>2, <2>2, <2>6 DEF PassBegins
    <3> QED
      BY <2>4, <2>5, <3>1
  <2>7. CASE Upstream \in flags
    <3>1. Upstream \notin due' /\ rpc' = "upstream"
      BY <1>2, <2>7 DEF PassBegins, Served
    <3> QED
      BY <2>4, <2>5, <3>1
  <2>8. CASE flags # {} /\ Upstream \notin flags
    <3>1. Upstream \notin due' /\ rpc' = "sync"
      BY <1>2, <2>2, <2>8 DEF PassBegins, Flags
    <3> QED
      BY <2>4, <2>5, <3>1
  <2> QED
    BY <2>6, <2>7, <2>8
<1>3. CASE UpstreamEnds
  BY <1>3 DEF UpstreamEnds
<1>4. CASE UpstreamToggled
  <2>1. Upstream \notin due /\ toggled = flags
    BY <1>4 DEF UpstreamToggled
  <2>2. due \subseteq flags \cup {AnySync} /\ resync
    BY <1>4, <2>1 DEF UpstreamToggled
  <2>3. due' = due /\ due' \subseteq flags' \cup {AnySync} /\ resync'
    BY <1>4, <2>1, <2>2 DEF UpstreamToggled
  <2> QED
    BY <1>4, <2>1, <2>3 DEF UpstreamToggled
<1>5. CASE SyncBegins
  <2>1. due \subseteq flags \cup {AnySync} /\ Upstream \notin due
    BY <1>5 DEF SyncBegins
  <2>2. flags \subseteq Flags /\ (SyncDuration \in flags => flags \cap {GlobSync, Upstream} = {})
    BY <1>5 DEF SyncBegins
  <2>3. due \ Served(flags) = {}
    <3>1. ASSUME NEW f \in due PROVE f \in Served(flags)
      <4>1. f \in {AnySync, GlobSync, SyncDuration, Downstream}
        BY <2>1, <2>2 DEF Flags
      <4>2. f = AnySync \/ f \in flags
        BY <2>1
      <4> QED
        BY <2>2, <4>1, <4>2 DEF Served
    <3> QED
      BY <3>1
  <2>4. due' = {}
    BY <1>5, <2>3 DEF SyncBegins
  <2> QED
    BY <1>5, <2>4 DEF SyncBegins
<1>6. CASE SyncEnds
  BY <1>6 DEF SyncEnds
<1>7. CASE PlainEnds
  BY <1>7 DEF PlainEnds
<1>8. CASE ResyncOff
  BY <1>8 DEF ResyncOff
<1>9. CASE CycleCounted
  BY <1>9 DEF CycleCounted
<1>10. CASE BailOut
  <2>1. bails' # 0
    BY <1>10 DEF BailOut
  <2> QED
    BY <1>10, <2>1 DEF BailOut
<1> QED
  BY <1>1, <1>2, <1>3, <1>4, <1>5, <1>6, <1>7, <1>8, <1>9, <1>10 DEF Resync

(* The rest of the rack thread, and the owner, leave the syncs alone. *)
LEMMA OthersKeepSyncs ==
  ASSUME IInv, ~outside, ~outside', ~skipped, ~skipped',
         \/ RackBegins \/ RackLoops \/ RackSleeps \/ RackWakesSpuriously
         \/ RackQuits \/ RackWorks \/ CycleBegins
         \/ Start \/ Stop \/ Owner
  PROVE  NobodyInterferes' /\ DueInPasses' /\ SyncFromLineNotLost'
<1> USE DEF IInv, ControlInv, SyncInv, TypeOK, OwnerKnows, Ended, CallsFromPasses,
        NobodyInterferes, DueInPasses, SyncFromLineNotLost, SyncNotLost, Callers, RackGoes,
        OwnerGoes, threadVars, stateVars, syncVars, callVars, cycleVars, ownerVars
<1>1. CASE RackBegins \/ RackLoops \/ RackSleeps \/ RackWakesSpuriously
  BY <1>1 DEF RackBegins, RackLoops, RackSleeps, RackWakesSpuriously
<1>2. CASE RackQuits \/ RackWorks \/ CycleBegins
  BY <1>2 DEF RackQuits, RackWorks, CycleBegins
<1>3. CASE Start \/ Stop \/ Owner
  BY <1>3 DEF Start, Stop, Owner, Spin, NotifyStop, Join, Notify
<1> QED
  BY <1>1, <1>2, <1>3

(* A call that the code of a unit makes on the rack thread. *)
LEMMA UnitsKeepSyncs ==
  ASSUME IInv, ~outside, ~outside', ~skipped, ~skipped',
         UnitSyncs \/ UnitCycles
  PROVE  NobodyInterferes' /\ DueInPasses' /\ SyncFromLineNotLost'
<1> USE RackAssumption, FlagsAreDistinct
    DEF IInv, ControlInv, SyncInv, TypeOK, CallsFromPasses, Syncing, UnitsRun, NobodyInterferes,
        DueInPasses, SyncFromLineNotLost, SyncNotLost, Callers,
        threadVars, stateVars, syncVars, callVars, cycleVars, ownerVars, RackAssumption
<1>1. CASE rpc \in UnitsRun /\ TriggerPlainSync(RackThread)
  <2>1. /\ UNCHANGED <<rpc, toggled, flags, tpc, saw, asked, bails, skipped>>
        /\ resync' = TRUE
        /\ due' = due \cup InTime(RackThread, {AnySync})
    BY <1>1 DEF TriggerPlainSync
  <2>2. Upstream # AnySync
    BY DEF Flags
  <2>3. due' \subseteq due \cup {AnySync} /\ (rpc \in {"plain", "syncing"} => due' = due)
    BY <2>1 DEF InTime
  <2>4. SyncFromLineNotLost'
    BY <2>1, <2>3
  <2>5. NobodyInterferes'
    BY <2>1
  <2>6. DueInPasses'
    BY <1>1, <2>1, <2>2, <2>3
  <2> QED
    BY <2>4, <2>5, <2>6
<1>2. ASSUME NEW fs \in Requests, rpc \in UnitsRun, TriggerSync(RackThread, fs)
      PROVE  NobodyInterferes' /\ DueInPasses' /\ SyncFromLineNotLost'
  <2>1. /\ UNCHANGED <<rpc, toggled, resync, flags, due, bails, skipped>>
        /\ tpc' = [tpc EXCEPT ![RackThread] = "write"]
        /\ tpc[RackThread] = "idle"
        /\ saw'[RackThread] = flags
    BY <1>2 DEF TriggerSync
  <2>2. \A c \in Callers : tpc[c] = "flag" => tpc'[c] = "flag"
    BY <2>1
  <2>3. SyncFromLineNotLost'
    BY <2>1, <2>2
  <2>4. NobodyInterferes' /\ DueInPasses'
    BY <1>2, <2>1
  <2> QED
    BY <2>3, <2>4
<1>3. CASE rpc \in UnitsRun /\ TriggerCycle(RackThread)
  <2>1. \A c \in Callers : tpc[c] = "flag" => tpc'[c] = "flag"
    BY <1>3 DEF TriggerCycle
  <2> QED
    BY <1>3, <2>1 DEF TriggerCycle
<1> QED
  BY <1>1, <1>2, <1>3 DEF UnitSyncs, UnitCycles

(* Triggers of cycles, and what follows a call that has begun. *)
LEMMA CallersKeepSyncs ==
  ASSUME IInv, ~outside, ~outside', ~skipped, ~skipped', NEW c \in Callers,
         Caller(c) \/ (c \in CycleCallers /\ TriggerCycle(c))
  PROVE  NobodyInterferes' /\ DueInPasses' /\ SyncFromLineNotLost'
<1> USE RackAssumption
    DEF IInv, ControlInv, SyncInv, TypeOK, CallsFromPasses, Syncing, NobodyInterferes,
        DueInPasses, SyncFromLineNotLost, SyncNotLost, Callers, UnitsRun,
        threadVars, stateVars, syncVars, callVars, cycleVars, ownerVars, RackAssumption
<1>1. CASE WriteFlags(c)
  <2>1. c = RackThread /\ rpc \in UnitsRun /\ saw[c] = flags
    BY <1>1 DEF WriteFlags
  <2>2. /\ UNCHANGED <<rpc, toggled, resync, bails, skipped>>
        /\ tpc' = [tpc EXCEPT ![RackThread] = "flag"]
        /\ tpc[RackThread] = "write"
        /\ flags' = flags \cup asked[RackThread]
        /\ due' = due \cup InTime(RackThread, asked[RackThread])
        /\ asked[RackThread] \subseteq Flags
    BY <1>1, <2>1 DEF WriteFlags
  <2>3. /\ InTime(RackThread, asked[RackThread]) \subseteq asked[RackThread]
        /\ rpc = "upstream" => Upstream \notin InTime(RackThread, asked[RackThread])
        /\ rpc \in {"plain", "syncing"} => InTime(RackThread, asked[RackThread]) = {}
    BY DEF InTime
  <2>4. SyncFromLineNotLost'
    BY <2>2, <2>3
  <2>5. NobodyInterferes'
    BY <2>1, <2>2
  <2>6. DueInPasses'
    BY <2>1, <2>2, <2>3
  <2> QED
    BY <2>4, <2>5, <2>6
<1>2. CASE SetResync(c)
  BY <1>2 DEF SetResync
<1>3. CASE NotifyCycle(c)
  <2>1. \A d \in Callers : tpc[d] = "flag" => tpc'[d] = "flag"
    BY <1>3 DEF NotifyCycle
  <2>2. /\ UNCHANGED <<toggled, flags, resync, due, asked, saw, bails>>
        /\ tpc' = [tpc EXCEPT ![c] = "idle"]
        /\ rpc' = IF rpc = "waiting" THEN "awake" ELSE rpc
    BY <1>3 DEF NotifyCycle, Notify
  <2> QED
    BY <2>1, <2>2
<1>4. CASE c \in CycleCallers /\ TriggerCycle(c)
  <2>1. \A d \in Callers : tpc[d] = "flag" => tpc'[d] = "flag"
    BY <1>4 DEF TriggerCycle
  <2>2. /\ UNCHANGED <<rpc, toggled, flags, resync, due, asked, saw, bails>>
        /\ tpc' = [tpc EXCEPT ![c] = "notify"]
    BY <1>4 DEF TriggerCycle
  <2> QED
    BY <2>1, <2>2
<1> QED
  BY <1>1, <1>2, <1>3, <1>4 DEF Caller

LEMMA NextSync ==
  ASSUME IInv, [Next]_vars
  PROVE  SyncInv'
<1>1. CallsFromPasses'
  BY NextCallsFromPasses
<1>2. CASE outside' \/ skipped'
  BY <1>1, <1>2 DEF SyncInv, NobodyInterferes, DueInPasses, SyncFromLineNotLost
<1>3. CASE ~outside' /\ ~skipped' /\ UNCHANGED vars
  BY <1>3 DEF vars, threadVars, stateVars, syncVars, callVars, cycleVars, ownerVars, IInv,
         SyncInv, CallsFromPasses, NobodyInterferes, DueInPasses, SyncFromLineNotLost,
         SyncNotLost
<1>4. CASE ~outside' /\ ~skipped' /\ Next
  (* A call from outside would be on record. *)
  <2>1. ~ \E c \in SyncCallers : TriggerPlainSync(c) \/ \E fs \in Requests : TriggerSync(c, fs)
    BY <1>4, RackAssumption DEF RackAssumption, TriggerPlainSync, TriggerSync
  <2>2. ~outside /\ ~skipped
    <3>1. outside => outside'
      BY <1>4 DEF Next, Rack, RackWakesSpuriously, BailOut, UnitSyncs, UnitCycles,
             Caller, Start, Stop, Owner, RackBegins, RackLoops, RackSleeps, RackQuits,
             RackWorks, CycleBegins, CycleEnds, Resync, CycleCounted, PassBegins,
             UpstreamEnds, UpstreamToggled, SyncBegins, SyncEnds, PlainEnds, ResyncOff,
             TriggerPlainSync, TriggerSync, TriggerCycle, WriteFlags, SetResync,
             NotifyCycle, Spin, NotifyStop, Join, callVars
    <3>2. skipped => skipped'
      BY <1>4 DEF Next, Rack, RackWakesSpuriously, BailOut, UnitSyncs, UnitCycles,
             Caller, Start, Stop, Owner, RackBegins, RackLoops, RackSleeps, RackQuits,
             RackWorks, CycleBegins, CycleEnds, Resync, CycleCounted, PassBegins,
             UpstreamEnds, UpstreamToggled, SyncBegins, SyncEnds, PlainEnds, ResyncOff,
             TriggerPlainSync, TriggerSync, TriggerCycle, WriteFlags, SetResync,
             NotifyCycle, Spin, NotifyStop, Join, syncVars
    <3> QED
      BY <1>4, <3>1, <3>2
  <2>3. NobodyInterferes' /\ DueInPasses' /\ SyncFromLineNotLost'
    <3>1. CASE Rack \/ RackWakesSpuriously \/ BailOut
      BY <1>4, <2>2, <3>1, PassesKeepSyncs, OthersKeepSyncs DEF Rack
    <3>2. CASE UnitSyncs \/ UnitCycles
      BY <1>4, <2>2, <3>2, UnitsKeepSyncs
    <3>3. CASE \E c \in CycleCallers : TriggerCycle(c)
      BY <1>4, <2>2, <3>3, CallersKeepSyncs DEF Callers
    <3>4. CASE \E c \in Callers : Caller(c)
      BY <1>4, <2>2, <3>4, CallersKeepSyncs
    <3>5. CASE Start \/ Stop \/ Owner
      BY <1>4, <2>2, <3>5, OthersKeepSyncs
    <3> QED
      BY <1>4, <2>1, <3>1, <3>2, <3>3, <3>4, <3>5 DEF Next
  <2> QED
    BY <1>1, <2>3 DEF SyncInv
<1> QED
  BY <1>2, <1>3, <1>4 DEF SyncInv

(* The inductive invariant holds in every reachable state. *)
THEOREM Invariance == Spec => []IInv
<1>1. IInv /\ [Next]_vars => IInv'
  BY NextControl, NextSync DEF IInv
<1> QED
  BY InitIInv, <1>1, PTL DEF Spec

(* Every variable keeps its type: in particular m_cycle_queue, an integer  *)
(* without a sign test, never falls below zero.                            *)
THEOREM TypeCorrect == Spec => []TypeOK
<1>1. IInv => TypeOK
  BY DEF IInv, ControlInv
<1> QED
  BY <1>1, Invariance, PTL

(* Every call of trigger_cycle has its cycle, run or still queued. *)
THEOREM CyclesAddUp == Spec => []CyclesCompound
<1>1. IInv => CyclesCompound
  BY DEF IInv, ControlInv
<1> QED
  BY <1>1, Invariance, PTL

(* A sync that the rack thread asks for in time, from a cycle or a pass,   *)
(* survives the ^= and the resets of m_resync and m_resync_flags that      *)
(* follow the passes, as long as no other thread asks for syncs and no     *)
(* sync_duration displaces one (rack.cpp:65-69, 140-164).                  *)
THEOREM LineSyncsSurvive == Spec => []SyncFromLineNotLost
<1>1. IInv => SyncFromLineNotLost
  BY DEF IInv, SyncInv
<1> QED
  BY <1>1, Invariance, PTL

(* The next cycle begins once the syncs asked for in time in earlier ones  *)
(* have, under the same conditions (rack.cpp:129-165).                     *)
THEOREM SyncsComeFirst == Spec => SyncsBeforeNextCycle
<1>1. IInv => (rpc = "queue" /\ rpc' = "cycle" /\ bails = 0 /\ ~outside /\ ~skipped
              => due = {})
  BY DEF IInv, SyncInv, DueInPasses
<1> QED
  BY <1>1, Invariance, PTL DEF SyncsBeforeNextCycle

(* std::terminate takes an unlock without the lock: two exceptions out of  *)
(* cycles, or one and a stop.                                              *)
THEOREM DiesOnlyOfExceptions == Spec => []DiesOnlyAfterBailOut
<1>1. IInv => DiesOnlyAfterBailOut
  BY DEF IInv, ControlInv
<1> QED
  BY <1>1, Invariance, PTL

(* stop returns to a rack whose thread is at its end. *)
THEOREM StopIsQuiet == Spec => []StoppedMeansInactive
<1>1. IInv => StoppedMeansInactive
  <2> SUFFICES ASSUME IInv PROVE StoppedMeansInactive
    OBVIOUS
  <2> USE DEF IInv, ControlInv, OwnerKnows, ActiveWhileAlive, Ended
  <2>1. opc = "down" => ~active /\ rpc \in {"off", "gone"}
    OBVIOUS
  <2>2. opc = "up" => active \/ rpc = "terminated"
    OBVIOUS
  <2> QED
    BY <2>1, <2>2 DEF StoppedMeansInactive
<1> QED
  BY <1>1, Invariance, PTL

(* The life of the rack's thread: it ends when it is stopped, and takes    *)
(* the process with it only after an exception (rack.cpp lines 160-198).   *)
THEOREM LivesUntilStopped == Spec => []LifeCycle
BY TypeCorrect, DiesOnlyOfExceptions, StopIsQuiet, PTL DEF LifeCycle

-----------------------------------------------------------------------------
(* Scheduled: the object that owns the thread.                             *)

Inside == {"test", "lock", "wait", "woken", "leave"}
Assigning == {"assign", "drop"}

AnObject == [alive : BOOLEAN, active : BOOLEAN, handle : Threads \cup {NoThread}]

(* The object that holds the thread. *)
Holder == IF caller = "assign" THEN "temp" ELSE "member"
Other == IF caller = "assign" THEN "member" ELSE "temp"

(* Only the thread that was created last can be at work. *)
HolderHasTheThread ==
  /\ object[Other].handle = NoThread
  /\ \A t \in Threads : Running(t) => object[Holder].handle = t

Lifetimes ==
  /\ object["temp"].alive <=> caller \in Assigning
  /\ object["member"].alive <=> caller # "gone"
  /\ caller = "gone" => object["member"].handle = NoThread

(* The flag is the temporary's as long as there is one. *)
FlagsAgree ==
  /\ caller \in Assigning => (flagged <=> object["temp"].active)
  /\ flagged /\ caller \notin Assigning => terminated
  /\ terminated => flagged
  /\ object["member"].active => caller = "drop" /\ flagged

(* A thread leaves its loop only when the rack was stopped. *)
RunsUntilStopped ==
  /\ rack.running => \A t \in Threads : pc[t] \notin {"leave", "deactivate"}
  /\ caller \in Assigning \cup {"spin"} => rack.running

ActiveInLoop == rack.active <=> \E t \in Threads : pc[t] \in Inside

(* Between the calls a rack that has a thread runs and is active. *)
HeldMeansActive ==
  caller \in {"idle", "destroy"} /\ Joinable("member") => rack.running /\ rack.active

ThreadIInv ==
  /\ ThreadTypeOK
  /\ HolderHasTheThread
  /\ Lifetimes
  /\ FlagsAgree
  /\ RunsUntilStopped
  /\ ActiveInLoop
  /\ HeldMeansActive
  /\ EveryThreadStrays

-----------------------------------------------------------------------------
LEMMA ThreadInitIInv == ThreadInit => ThreadIInv
<1> SUFFICES ASSUME ThreadInit PROVE ThreadIInv
  OBVIOUS
<1> USE ScheduledAssumption DEF ThreadInit
<1>1. /\ object["temp"] = [alive |-> FALSE, active |-> FALSE, handle |-> NoThread]
      /\ object["member"] = [alive |-> TRUE, active |-> FALSE, handle |-> NoThread]
      /\ object \in [Objects -> AnObject]
  BY DEF Constructed, Objects, AnObject
<1>2. ThreadTypeOK
  BY <1>1 DEF ThreadTypeOK, AnObject, CallerAt, ThreadAt
<1>3. HolderHasTheThread /\ Lifetimes /\ FlagsAgree
  BY <1>1 DEF HolderHasTheThread, Lifetimes, FlagsAgree, Holder, Other, Assigning, Running
<1>4. RunsUntilStopped /\ ActiveInLoop /\ HeldMeansActive /\ EveryThreadStrays
  BY <1>1 DEF RunsUntilStopped, ActiveInLoop,
        HeldMeansActive, EveryThreadStrays, Assigning,
         Inside, Joinable
<1> QED
  BY <1>2, <1>3, <1>4 DEF ThreadIInv

(* What becomes of the objects when one of them dies, and when a thread    *)
(* writes to one that has.                                                 *)
LEMMA ObjectDies ==
  ASSUME object \in [Objects -> AnObject], NEW o \in Objects
  PROVE  /\ [object EXCEPT ![o].alive = FALSE] \in [Objects -> AnObject]
         /\ ~object[o].alive =>
              [object EXCEPT ![o].active = IF object[o].alive THEN FALSE ELSE @] = object
<1>1. [object[o] EXCEPT !.alive = FALSE] \in AnObject
  BY DEF AnObject
<1>2. [object[o] EXCEPT !.active = object[o].active] = object[o]
  BY DEF AnObject
<1> QED
  BY <1>1, <1>2

(* No thread is at work when one is created. *)
LEMMA NobodyAtStart ==
  ASSUME ThreadIInv, caller = "idle", ~rack.running
  PROVE  /\ object["member"].handle = NoThread
         /\ \A t \in Threads : ~Running(t)
         /\ ~rack.active
<1>1. object["member"].handle = NoThread
  BY DEF ThreadIInv, HeldMeansActive, Joinable
<1>2. \A t \in Threads : ~Running(t)
  BY <1>1, ScheduledAssumption DEF ThreadIInv, HolderHasTheThread, Holder
<1>3. ~rack.active
  BY <1>2 DEF ThreadIInv, ActiveInLoop, Running, Inside
<1> QED
  BY <1>1, <1>2, <1>3

LEMMA StartKeepsIInv ==
  ASSUME ThreadIInv, ~terminated, StartConstruct
  PROVE  ThreadIInv'
<1> USE ScheduledAssumption DEF ThreadIInv, ThreadTypeOK, Objects, Assigning, CallerAt, ThreadAt
<1>1. PICK t \in Unused :
        /\ object' = [object EXCEPT !["temp"] = Constructed(TRUE, t)]
        /\ pc' = [pc EXCEPT ![t] = "assign_tid"]
  BY DEF StartConstruct
<1>2. t \in Threads /\ pc[t] = "unborn"
  BY <1>1 DEF Unused
<1>3. /\ object["member"].handle = NoThread
      /\ \A s \in Threads : ~Running(s)
      /\ ~rack.active
  BY NobodyAtStart DEF StartConstruct
<1>4. /\ caller = "idle" /\ caller' = "assign"
      /\ rack' = [running |-> TRUE, active |-> FALSE]
      /\ flagged' = FALSE /\ terminated' = FALSE
      /\ UNCHANGED <<policy, missed, stray>>
  BY DEF StartConstruct
<1>5. /\ object'["temp"] = [alive |-> TRUE, active |-> FALSE, handle |-> t]
      /\ object'["member"] = object["member"]
      /\ object' \in [Objects -> [alive : BOOLEAN, active : BOOLEAN,
                                  handle : Threads \cup {NoThread}]]
  BY <1>1, <1>2 DEF Constructed
<1>6. \A s \in Threads : pc'[s] = IF s = t THEN "assign_tid" ELSE pc[s]
  BY <1>1, <1>2
<1>7. ThreadTypeOK'
  BY <1>1, <1>2, <1>4, <1>5
<1>8. HolderHasTheThread'
  BY <1>2, <1>3, <1>4, <1>5, <1>6 DEF HolderHasTheThread, Holder, Other, Running
<1>9. Lifetimes' /\ FlagsAgree'
  BY <1>4, <1>5 DEF Lifetimes, FlagsAgree
<1>10. RunsUntilStopped' /\ ActiveInLoop' /\ HeldMeansActive' /\ EveryThreadStrays'
  BY <1>3, <1>4, <1>6
     DEF RunsUntilStopped, ActiveInLoop,
        HeldMeansActive, EveryThreadStrays, Running, Inside
<1> QED
  BY <1>7, <1>8, <1>9, <1>10

(* The move assignment and the end of the temporary. *)
LEMMA AssignKeepsIInv ==
  ASSUME ThreadIInv, ~terminated, Assign \/ DropTemp \/ StartReturns
  PROVE  ThreadIInv'
<1> USE ScheduledAssumption
    DEF ThreadIInv, ThreadTypeOK, Objects, Assigning, CallerAt, HolderHasTheThread, Holder, Other,
        Lifetimes, FlagsAgree, RunsUntilStopped, ActiveInLoop,
        HeldMeansActive,
        EveryThreadStrays, Running, Inside, Joinable
<1>1. CASE Assign
  <2>1. /\ object'["temp"] = [object["temp"] EXCEPT !.handle = NoThread]
        /\ object'["member"] = [object["member"] EXCEPT
             !.active = object["temp"].active, !.handle = object["temp"].handle]
        /\ object' \in [Objects -> [alive : BOOLEAN, active : BOOLEAN,
                                    handle : Threads \cup {NoThread}]]
    BY <1>1 DEF Assign
  <2> QED
    BY <1>1, <2>1 DEF Assign
<1>2. CASE DropTemp
  <2>1. CASE object["temp"].active
    BY <1>2, <2>1 DEF DropTemp, Destroyed, DestroyTerminates
  <2>2. CASE ~object["temp"].active
    <3>1. /\ object' = [object EXCEPT !["temp"].alive = FALSE]
          /\ caller = "drop" /\ caller' = "spin"
          /\ UNCHANGED <<terminated, rack, policy, pc, flagged, missed, stray>>
      BY <1>2, <2>2 DEF DropTemp, Destroyed, DestroyTerminates
    <3>2. /\ object'["temp"] = [object["temp"] EXCEPT !.alive = FALSE]
          /\ object'["member"] = object["member"]
          /\ object' \in [Objects -> AnObject]
      BY <3>1, ObjectDies DEF AnObject
    <3> QED
      BY <2>2, <3>1, <3>2 DEF AnObject
  <2> QED
    BY <2>1, <2>2
<1>3. CASE StartReturns
  BY <1>3 DEF StartReturns
<1> QED
  BY <1>1, <1>2, <1>3

LEMMA StopKeepsIInv ==
  ASSUME ThreadIInv, ~terminated, StopFlag \/ StopNotify \/ StopJoin \/ StopThrows
  PROVE  ThreadIInv'
<1> USE ScheduledAssumption
    DEF ThreadIInv, ThreadTypeOK, Objects, Assigning, CallerAt, ThreadAt,
        HolderHasTheThread, Holder, Other, Lifetimes, FlagsAgree, RunsUntilStopped, ActiveInLoop,
        HeldMeansActive,
        EveryThreadStrays, Running, Inside, Joinable
<1>1. CASE StopFlag
  BY <1>1 DEF StopFlag
<1>2. CASE StopNotify
  BY <1>2 DEF StopNotify
<1>3. CASE StopJoin
  <2>1. /\ object'["temp"] = object["temp"]
        /\ object'["member"] = [object["member"] EXCEPT !.handle = NoThread]
        /\ object' \in [Objects -> [alive : BOOLEAN, active : BOOLEAN,
                                    handle : Threads \cup {NoThread}]]
    BY <1>3 DEF StopJoin
  <2> QED
    BY <1>3, <2>1 DEF StopJoin
<1>4. CASE StopThrows
  BY <1>4 DEF StopThrows
<1> QED
  BY <1>1, <1>2, <1>3, <1>4

(* ~rack: nothing is joined by ~scheduled, and nothing needs to be. *)
LEMMA DestroyKeepsIInv ==
  ASSUME ThreadIInv, ~terminated, DestroyBegin \/ DestroyMember
  PROVE  ThreadIInv'
<1> USE ScheduledAssumption
    DEF ThreadIInv, ThreadTypeOK, Objects, Assigning, CallerAt, HolderHasTheThread, Holder, Other,
        Lifetimes, FlagsAgree, RunsUntilStopped, ActiveInLoop,
        HeldMeansActive,
        EveryThreadStrays, Running, Inside, Joinable
<1>1. CASE DestroyBegin
  BY <1>1 DEF DestroyBegin
<1>2. CASE DestroyMember
  <2>1. /\ object' = [object EXCEPT !["member"].alive = FALSE]
        /\ caller = "destroy" /\ caller' = "gone"
        /\ object["member"].handle = NoThread
        /\ UNCHANGED <<terminated, rack, policy, pc, flagged, missed, stray>>
    BY <1>2 DEF DestroyMember, Destroyed, DestroyTerminates
  <2>2. /\ object'["temp"] = object["temp"]
        /\ object'["member"] = [object["member"] EXCEPT !.alive = FALSE]
        /\ object' \in [Objects -> AnObject]
    BY <2>1, ObjectDies DEF AnObject
  <2> QED
    BY <2>1, <2>2 DEF AnObject
<1> QED
  BY <1>1, <1>2

(* The thread's own steps.  What it does to its dead object is on record;  *)
(* as long as the object lives the thread cannot come to its end.          *)
LEMMA ThreadKeepsIInv ==
  ASSUME ThreadIInv, ~terminated, NEW t \in Threads, ThreadStep(t) \/ SpuriousWakeUp(t)
  PROVE  ThreadIInv'
<1> USE ScheduledAssumption
    DEF ThreadIInv, ThreadTypeOK, Objects, Assigning, CallerAt, ThreadAt,
        HolderHasTheThread, Holder, Other, Lifetimes, FlagsAgree, RunsUntilStopped, ActiveInLoop,
        HeldMeansActive,
        EveryThreadStrays, Running, Inside, Joinable, Goto, Uses
<1>1. CASE AssignTid(t)
  BY <1>1 DEF AssignTid
<1>2. CASE Schedule(t)
  BY <1>2 DEF Schedule
<1>3. CASE Activate(t)
  <2>1. /\ object'["temp"] = [object["temp"] EXCEPT !.active = object["temp"].alive]
        /\ object'["member"] = object["member"]
        /\ object' \in [Objects -> [alive : BOOLEAN, active : BOOLEAN,
                                    handle : Threads \cup {NoThread}]]
    BY <1>3 DEF Activate
  <2> QED
    BY <1>3, <2>1 DEF Activate
<1>4. CASE FuncBegin(t)
  BY <1>4 DEF FuncBegin
<1>5. CASE TestRunning(t)
  BY <1>5 DEF TestRunning
<1>6. CASE Wait(t) \/ SpuriousWakeUp(t)
  BY <1>6 DEF Wait, SpuriousWakeUp
<1>7. CASE Woken(t)
  BY <1>7 DEF Woken
<1>8. CASE FuncEnd(t)
  <2>1. ~rack.running /\ caller \notin Assigning \cup {"spin"}
    BY <1>8 DEF FuncEnd
  <2>2. \A s \in Threads : pc'[s] \notin Inside
    BY <1>8 DEF FuncEnd
  <2> QED
    BY <1>8, <2>1, <2>2 DEF FuncEnd
<1>9. CASE Deactivate(t)
  <2>1. ~rack.running /\ caller \notin Assigning
    BY <1>9 DEF Deactivate
  <2>2. object' = object
    BY <1>9, <2>1, ObjectDies DEF Deactivate, AnObject
  <2> QED
    BY <1>9, <2>1, <2>2 DEF Deactivate
<1> QED
  BY <1>1, <1>2, <1>3, <1>4, <1>5, <1>6, <1>7, <1>8, <1>9 DEF ThreadStep

(* The inductive invariant holds in every reachable state. *)
THEOREM ThreadInvariance == ThreadSpec => []ThreadIInv
<1>1. ThreadIInv /\ [ThreadNext]_scheduledVars => ThreadIInv'
  <2> SUFFICES ASSUME ThreadIInv, [ThreadNext]_scheduledVars PROVE ThreadIInv'
    OBVIOUS
  <2>1. CASE UNCHANGED scheduledVars
    BY <2>1 DEF scheduledVars, ThreadIInv, ThreadTypeOK, HolderHasTheThread, Holder, Other,
           Lifetimes, FlagsAgree, RunsUntilStopped, ActiveInLoop,
        HeldMeansActive, EveryThreadStrays, Running,
           Joinable
  <2>2. CASE ThreadNext
    BY <2>2, StartKeepsIInv, AssignKeepsIInv, StopKeepsIInv, DestroyKeepsIInv,
       ThreadKeepsIInv DEF ThreadNext, CallerStep
  <2> QED
    BY <2>1, <2>2
<1> QED
  BY ThreadInitIInv, <1>1, PTL DEF ThreadSpec

(* The program is terminated by ~scheduled if, and only if, the thread set *)
(* m_active before the temporary died (scheduled.cpp lines 51-55).         *)
THEOREM DiesOfItsFlag == ThreadSpec => []TerminatesOnlyWhenFlagged
<1>1. ThreadIInv => TerminatesOnlyWhenFlagged
  BY DEF ThreadIInv, FlagsAgree, Assigning, TerminatesOnlyWhenFlagged
<1> QED
  BY <1>1, ThreadInvariance, PTL

(* The handle moves with the thread, the flag and the pointer do not.      *)
THEOREM ObjectIsSplit == ThreadSpec => []MoveSplitsTheObject
<1>1. ThreadIInv => ThreadHasOneHandle
  BY ScheduledAssumption
     DEF ThreadIInv, ThreadTypeOK, HolderHasTheThread, Holder, Other, Lifetimes, Assigning, Objects,
         ThreadHasOneHandle
<1>2. ThreadIInv => ThreadTypeOK /\ MemberNeverActive /\ EveryThreadStrays
  BY DEF ThreadIInv, FlagsAgree, MemberNeverActive
<1>3. ThreadIInv => MoveSplitsTheObject
  BY <1>1, <1>2 DEF MoveSplitsTheObject
<1> QED
  BY <1>3, ThreadInvariance, PTL

=============================================================================
