---------------------------- MODULE LineProfile ----------------------------
(***************************************************************************)
(* What the passes of the rack over its lines compute: the cycles and      *)
(* syncs of component/backend.cpp and component/unit.cpp, and the cache    *)
(* that rack::resync builds from the outcome.                              *)
(*                                                                         *)
(* One thread runs a pass from beginning to end (LineState is about what   *)
(* other threads do meanwhile), so a pass is one step here, computed by    *)
(* the recursion of the code: calls go down the links depth first, and the *)
(* profile, passed by reference, carries what every unit did to it on to   *)
(* the next.  Of a profile, fs is left out, which is treated as channels   *)
(* is, and drift, whose floating-point product is not a matter of control. *)
(* The upstream sync is in LineState.                                      *)
(***************************************************************************)
EXTENDS Integers, FiniteSetsExt, SequencesExt

CONSTANTS
  Units,      \* the units mounted
  Dispatches, \* those of type dispatch
  Out,        \* per unit the units its connected outputs lead to, in order
  Mainlines,  \* m_raw_mainlines
  Metrics,    \* what units may register: a set of [unit, metric, value]
  Failing,    \* units whose init or cycle may not return `complete'
  NoBlock,    \* block_size() of a cache that was not built
  MaxMetrics, \* bound: metrics registered, one after the other
  MaxPasses,  \* bound: passes that measure the lines
  MaxRuns     \* bound: calls of one unit's init or cycle in a pass that may fail

Mainline == ToSet(Mainlines)

(* A call of a unit's init() or cycle() in a pass: which of them it is.    *)
Runs == Failing \X (1 .. MaxRuns)

ASSUME ProfileAssumption ==
  /\ Dispatches \subseteq Units /\ Failing \subseteq Units
  /\ Out \in [Units -> Seq(Units)]
  /\ Mainlines \in Seq(Units)
  /\ NoBlock \notin Int

VARIABLES
  unit,       \* m_unit_profile of each unit
  line,       \* m_line_profile of each unit
  global,     \* m_global_profile of each unit
  rackGlobal, \* m_global_profile of the rack
  block,      \* block_size of the cache
  active,     \* the units whose m_cstate is active
  answer,     \* the profile profile_line filled in, if that was the last call
  inits,      \* history: how often the last call ran init() of each unit
  visited,    \* history: how often the last call, a cycle, reached each unit
  cycled,     \* history: how often it ran cycle() of each unit
  stops,      \* history: the runs in it whose result is not `complete'
  failed,     \* history: the units that failed in the last warmup
  metrics,    \* history: metrics registered so far
  syncs,      \* history: sync cycles so far
  fresh,      \* history: no metric was registered since the last sync
  late        \* history: a period or channels was registered after the cache was built

profileVars == <<unit, line, global, rackGlobal, block>>
warmVars == <<active, failed>>
resultVars == <<answer, inits, visited, cycled, stops>>
historyVars == <<metrics, syncs, fresh, late>>
vars == <<profileVars, warmVars, resultVars, historyVars>>

(* Variants: a definition named Bad... is a mistake in the one that        *)
(* follows it, and shows what the properties below would notice.           *)
Profile == [latency : Nat, channels : Nat, period : Nat, bpm : Nat,
            fill : Nat, jumps : Nat, state : {"inactive", "active", "flushing"}]

Zero == [latency |-> 0, channels |-> 0, period |-> 0, bpm |-> 0, fill |-> 0,
         jumps |-> 0, state |-> "inactive"]

None == [u \in Units |-> 0]

Init ==
  /\ unit = [u \in Units |-> Zero]
  /\ line = [u \in Units |-> Zero]
  /\ global = [u \in Units |-> Zero]
  /\ rackGlobal = Zero
  /\ block = NoBlock
  /\ active = {} /\ failed = {}
  /\ answer = Zero /\ inits = None /\ visited = None /\ cycled = None /\ stops = {}
  /\ metrics = 0 /\ syncs = 0 /\ fresh = FALSE /\ late = FALSE

-----------------------------------------------------------------------------
(* The results are those of the last call. *)
NoAnswer == answer' = Zero
NoInits == inits' = None
NoCycles == visited' = None /\ cycled' = None /\ stops' = {}
NoResult == NoAnswer /\ NoInits /\ NoCycles

Set(profile, metric, value) == [profile EXCEPT ![metric] = value]

Register(m, profile) ==
  /\ metrics < MaxMetrics
  /\ unit' = [unit EXCEPT ![m.unit] = profile]
  /\ metrics' = metrics + 1
  /\ fresh' = FALSE
  /\ late' = (late \/ (block # NoBlock /\ m.metric \in {"period", "channels"}))
  /\ NoResult
  /\ UNCHANGED <<line, global, rackGlobal, block, warmVars, syncs>>

(* register_metric, of a float: one metric is set. *)
RegisterFloat(m) == Register(m, Set(unit[m.unit], m.metric, m.value))

(* register_metric, of an int: the case of bpm goes on into that of fill. *)
Registered(profile, m) ==
  IF m.metric = "bpm" THEN Set(Set(profile, "bpm", m.value), "fill", m.value)
                      ELSE Set(profile, m.metric, m.value)

RegisterInt(m) == Register(m, Registered(unit[m.unit], m))

-----------------------------------------------------------------------------
Higher(m, n) == IF m > n THEN m ELSE n

(* apply_unit_profile *)
Applied(p, u) ==
  [p EXCEPT
    !.channels = IF unit[u].channels > 0 THEN unit[u].channels ELSE @,
    !.period = Higher(@, unit[u].period),
    !.bpm = IF unit[u].bpm > 0 THEN unit[u].bpm ELSE @,
    !.fill = Higher(@, unit[u].fill),
    !.state = IF unit[u].state = "flushing" THEN "flushing" ELSE @,
    !.jumps = @ + 1,
    !.latency = @ + unit[u].latency]

(* dispatch::sync_line before it goes on as any unit does. *)
Dispatched(p, u, glob) ==
  [p EXCEPT
    !.state = IF @ = "flushing" THEN @ ELSE unit[u].state,
    !.period = IF glob THEN unit[u].period ELSE @]

(* unit::sync_line of a unit that is not the source, with all the calls it *)
(* makes.  walk holds the profile and the units' global profiles.          *)
RECURSIVE SyncLine(_, _, _)
SyncLine(u, walk, glob) ==
  LET entered == IF u \in Dispatches THEN Dispatched(walk.profile, u, glob)
                                     ELSE walk.profile
      applied == Applied(entered, u)
      woken == IF glob /\ applied.state = "flushing"
               THEN [applied EXCEPT !.state = "active"] ELSE applied
      below == FoldLeft(LAMBDA w, v : SyncLine(v, w, glob),
                        [walk EXCEPT !.profile = woken], Out[u])
  IN IF glob
     THEN [below EXCEPT !.global[u] =
             [below.profile EXCEPT !.latency = 0, !.jumps = 0]]
     ELSE below

BadSourceLine(u, own) ==
  LET entered == [own EXCEPT !.state = IF u \in Dispatches THEN unit[u].state ELSE "active"]
  IN FoldLeft(LAMBDA w, v : SyncLine(v, w, FALSE),
              [profile |-> entered, global |-> global], Out[u]).profile

(* unit::sync_line of a unit that is the source: its own line profile goes *)
(* down, reset only in part, and its own unit profile is not applied to it *)
(* (but a dispatch sets its state).                                        *)
SourceLine(u, own) ==
  LET reset == [own EXCEPT !.state = "active", !.period = 0]
      entered == IF u \in Dispatches THEN Dispatched(reset, u, FALSE) ELSE reset
  IN FoldLeft(LAMBDA w, v : SyncLine(v, w, FALSE),
              [profile |-> entered, global |-> global], Out[u]).profile

(* cycle_line(sync): every unit that is reached measures its own line, and *)
(* does so again each time it is reached.                                  *)
RECURSIVE MeasureLine(_, _)
MeasureLine(u, lines) ==
  FoldLeft(LAMBDA l, v : MeasureLine(v, l),
           [lines EXCEPT ![u] = SourceLine(u, @)], Out[u])

(* n calls of backend::cycle(sync), one after the other. *)
Synced[n \in Nat] ==
  IF n = 0 THEN line
  ELSE FoldLeft(LAMBDA l, u : MeasureLine(u, l), Synced[n - 1], Mainlines)

SyncCycles(n) ==
  /\ syncs + n <= MaxPasses
  /\ line' = Synced[n]
  /\ syncs' = syncs + n
  /\ fresh' = TRUE

(* backend::sync(m_global_profile, glob_sync): one profile for all lines. *)
GlobalWalk ==
  FoldLeft(LAMBDA w, u : SyncLine(u, w, TRUE),
           [profile |-> rackGlobal, global |-> global], Mainlines)

(* rack::resync: the first one builds the cache, whatever the profile.  No *)
(* later one does: either there is a block size, or build_cache returns.   *)
CacheBuilt(p) ==
  IF block = NoBlock THEN (p.period * 2) * p.channels ELSE block


GlobalSync ==
  LET walk == GlobalWalk IN
  /\ rackGlobal' = walk.profile
  /\ global' = walk.global
  /\ block' = CacheBuilt(walk.profile)

NoGlobalSync == UNCHANGED <<rackGlobal, global, block>>

(* backend::sync without glob_sync: the lines, twice if `downstream'. *)
SyncLines(n) ==
  /\ SyncCycles(n)
  /\ NoGlobalSync
  /\ NoResult
  /\ UNCHANGED <<metrics, late, unit, warmVars>>

(* backend::sync with glob_sync: the global sync before the last cycle.    *)
SyncGlobal(n) ==
  /\ SyncCycles(n)
  /\ GlobalSync
  /\ NoResult
  /\ UNCHANGED <<metrics, late, unit, warmVars>>

(* profile_line: an ordinary sync, of the caller's profile, from the       *)
(* mainline unit on.                                                       *)
ProfileLine(u) ==
  /\ answer' = SyncLine(u, [profile |-> Zero, global |-> global], FALSE).profile
  /\ NoInits /\ NoCycles
  /\ UNCHANGED <<profileVars, warmVars, historyVars>>

-----------------------------------------------------------------------------
BadFailsHere(known, fails) == FALSE

(* The result that ends a cycle at a unit: not that of a unit left out.    *)
FailsHere(known, fails) == ~known /\ fails

(* cycle_line(warmup): the runs of init() in `fails' do not return         *)
(* complete, and nothing below is reached through such a run.  A unit that *)
(* is reached again is initialised again if it failed.                     *)
RECURSIVE Warm(_, _, _)
Warm(u, walk, fails) ==
  LET known == u \in walk.active
      fail == <<u, walk.inits[u] + 1>> \in fails
      here == IF known THEN walk
              ELSE [inits |-> [walk.inits EXCEPT ![u] = @ + 1],
                    active |-> IF fail THEN walk.active ELSE walk.active \cup {u},
                    failed |-> IF fail THEN walk.failed \cup {u} ELSE walk.failed]
  IN IF FailsHere(known, fail) THEN here
     ELSE FoldLeft(LAMBDA w, v : Warm(v, w, fails), here, Out[u])

(* rack::warmup: the cycle, whose result is not looked at, a sync cycle    *)
(* and a global sync, which ends with another.                             *)
Warmup ==
  /\ \E fails \in SUBSET Runs :
       LET walk == FoldLeft(LAMBDA w, u : Warm(u, w, fails),
                            [active |-> active, inits |-> None, failed |-> {}],
                            Mainlines)
       IN /\ active' = walk.active
          /\ inits' = walk.inits
          /\ failed' = walk.failed
  /\ SyncCycles(2)
  /\ GlobalSync
  /\ NoAnswer /\ NoCycles
  /\ UNCHANGED <<metrics, late, unit>>

(* cycle_line(ac): a unit whose line is flushing is left out, and the      *)
(* cycle goes on below it; it ends where cycle() does not return complete, *)
(* which each run decides: a mixer is partial until its last line comes.   *)
RECURSIVE CycleLine(_, _, _)
CycleLine(u, walk, ends) ==
  LET skipped == line[u].state = "flushing"
      here == [visited |-> [walk.visited EXCEPT ![u] = @ + 1],
               cycled |-> IF skipped THEN walk.cycled
                          ELSE [walk.cycled EXCEPT ![u] = @ + 1]]
  IN IF FailsHere(skipped, <<u, here.cycled[u]>> \in ends) THEN here
     ELSE FoldLeft(LAMBDA w, v : CycleLine(v, w, ends), here, Out[u])

(* backend::cycle(ac), of a rack that was warmed up. *)
Cycle ==
  /\ failed \cup active # {}
  /\ \E ends \in SUBSET Runs :
       LET walk == FoldLeft(LAMBDA w, u : CycleLine(u, w, ends),
                            [visited |-> None, cycled |-> None], Mainlines)
       IN /\ visited' = walk.visited
          /\ cycled' = walk.cycled
          /\ stops' = {r \in ends : r[2] <= walk.cycled[r[1]]}
  /\ NoAnswer /\ NoInits
  /\ UNCHANGED <<profileVars, warmVars, historyVars>>

Next ==
  \/ \E m \in Metrics : RegisterFloat(m) \/ RegisterInt(m)
  \/ Warmup
  \/ \E n \in {1, 2} : SyncLines(n) \/ SyncGlobal(n)
  \/ \E u \in Mainline : ProfileLine(u)
  \/ Cycle

Spec == Init /\ [][Next]_vars

-----------------------------------------------------------------------------
TypeOK ==
  /\ {unit, line, global} \subseteq [Units -> Profile]
  /\ {rackGlobal, answer} \subseteq Profile
  /\ block \in Nat \cup {NoBlock}
  /\ active \cup failed \subseteq Units /\ stops \subseteq Runs
  /\ {visited, cycled, inits} \subseteq [Units -> Nat]
  /\ metrics \in 0 .. MaxMetrics /\ syncs \in 0 .. MaxPasses /\ {fresh, late} \subseteq BOOLEAN

(* The units below u, and the calls that reach them. *)
RECURSIVE Below(_)
Below(u) == UNION {{v} \cup Below(v) : v \in ToSet(Out[u])}

RECURSIVE Visits(_)
Visits(u) == FoldLeft(LAMBDA n, v : n + 1 + Visits(v), 0, Out[u])

Largest(metric, us) ==
  LET values == {0} \cup {unit[u][metric] : u \in us}
  IN CHOOSE m \in values : \A n \in values : n <= m

(* A sync cycle (unit.cpp lines 152-157, 172-177) measures the lines anew  *)
(* from every unit on: the period is the largest one asked for below it,   *)
(* whatever the order and however often the unit is reached, and the line  *)
(* flushes, and its unit is left out of cycles, if and only if some unit   *)
(* below does (or it is a dispatch that does itself).                      *)
LinesMeasureWhatIsBelow ==
  fresh => \A u \in UNION {{m} \cup Below(m) : m \in Mainline} :
    /\ line[u].period = Largest("period", Below(u))
    /\ line[u].state = "flushing" <=>
         \E v \in Below(u) \cup ({u} \cap Dispatches) : unit[v].state = "flushing"

(* profile_line (backend.cpp lines 73-80) measures a line from its         *)
(* mainline unit on, and starts from what its caller passes.               *)
ProfileLineMeasures ==
  [][\A u \in Mainline : ProfileLine(u) =>
       /\ answer'.jumps = 1 + Visits(u)
       /\ answer'.period = Largest("period", {u} \cup Below(u))
       /\ answer'.fill = Largest("fill", {u} \cup Below(u))]_vars

(* A warmup (unit.cpp lines 159-166) initialises a unit only when one that *)
(* feeds it is active, reaches every unit that can be reached so, and      *)
(* calls init() again in a pass only if it failed.                         *)
WarmUpFollowsTheLines ==
  /\ \A u \in active : u \in Mainline \/ \E p \in active : u \in ToSet(Out[p])
  /\ \A p \in active, u \in Units : u \in ToSet(Out[p]) => u \in active \cup failed
  /\ \A u \in Units : inits[u] > 1 => u \in failed

(* What a sync leaves in the profiles of the lines, whatever was           *)
(* registered before it and in which order, and what a warmup made of the  *)
(* units.                                                                  *)
LinesAreMeasured ==
  TypeOK /\ LinesMeasureWhatIsBelow /\ WarmUpFollowsTheLines

Links(p, u) == Cardinality({i \in DOMAIN Out[p] : Out[p][i] = u})

(* In a cycle (lines 145-150, 168-177) a unit is reached once for each     *)
(* link and each run of the unit above that completed, or that was left    *)
(* out because its line flushes: the state a cycle ends in on one line     *)
(* stops no other, and that of one run no later one.                       *)
WentOn(p) ==
  visited[p] - Cardinality({n \in 1 .. cycled[p] : <<p, n>> \in stops})

CyclesCascade ==
  [][Cycle => \A u \in Units :
       /\ visited'[u] = Cardinality({i \in DOMAIN Mainlines : Mainlines[i] = u})
                         + MapThenSumSet(LAMBDA p : Links(p, u) * WentOn(p)', Units)
       /\ cycled'[u] = IF line[u].state = "flushing" THEN 0 ELSE visited'[u]]_vars

(* dispatch.cpp lines 52-57: after a global sync every unit above a        *)
(* dispatch, and the rack, have the period of the dispatch as the global   *)
(* one, whatever larger period was asked for on the way.                   *)
GlobalPeriodIsTheDispatchs ==
  [][\A n \in {1, 2} : SyncGlobal(n) =>
       \A d \in Dispatches :
         /\ rackGlobal'.period = unit[d].period
         /\ \A u \in Units : d \in {u} \cup Below(u) =>
              global'[u].period = unit[d].period]_vars

(* What one pass does, of each of the three kinds.                         *)
PassesReachEveryUnit == ProfileLineMeasures /\ CyclesCascade /\ GlobalPeriodIsTheDispatchs


=============================================================================
