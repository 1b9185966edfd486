----------------------------- MODULE LineState -----------------------------
(***************************************************************************)
(* How a signal line is turned on and off: the sync passes of              *)
(* component/backend.cpp and component/unit.cpp with the units of spec/    *)
(* that treat them in a way of their own.                                  *)
(*                                                                         *)
(* A unit that changes its state asks the rack for an upstream sync.  The  *)
(* upstream pass takes the state of every mainline down its line; a        *)
(* combine lets it through only when that changes the state of what        *)
(* follows; a dispatch that hears of another state than the global one     *)
(* registers it and asks for a global sync.  That pass carries the state   *)
(* of the dispatch to all units as it returns from them.                   *)
(*                                                                         *)
(* A pass is a depth-first walk of nested calls of sync_line on the rack   *)
(* thread, kept here as a stack: other threads may change units at every   *)
(* step of it.  The profile goes down by reference.  Of a profile only the *)
(* state is kept, which is inactive or active: no unit of the repository   *)
(* registers the third one, flushing.  How the rack comes to run a pass,   *)
(* and the races on its flags, are the matter of module Rack.              *)
(***************************************************************************)
EXTENDS Integers, Sequences, FiniteSets

CONSTANTS
  Units,       \* the units mounted
  Kind,        \* unit_type: "mainline", "step", "combine" or "dispatch"
  Out,         \* per unit its connected outputs: a sequence of [to, line]
  Mainlines,   \* m_raw_mainlines
  NumInputs,   \* inputs of a combine
  Bogus,       \* the profile that backend::sync sends down for an upstream sync
  RackProfile, \* m_global_profile of the rack
  MaxChanges   \* bound: changes of state made by units

State == {"inactive", "active"}
Line == 0 .. NumInputs - 1
Combines == {u \in Units : Kind[u] = "combine"}
Dispatches == {u \in Units : Kind[u] = "dispatch"}

ASSUME LineAssumption ==
  /\ Kind \in [Units -> {"mainline", "step", "combine", "dispatch"}]
  /\ Out \in [Units -> Seq([to : Units, line : Line])]
  /\ Mainlines \in Seq({u \in Units : Kind[u] = "mainline"})
  /\ Bogus \notin Units /\ RackProfile \notin Units /\ Bogus # RackProfile
  /\ NumInputs \in Nat \ {0} /\ MaxChanges \in Nat

(* A set of units that no line leaves. *)
ClosedUnderOut(S) == \A u \in S : \A i \in DOMAIN Out[u] : Out[u][i].to \in S

(* The racks that the comments in dispatch.cpp and the examples are about: *)
(* there is one dispatch unit, a line may end at it only, and every unit   *)
(* is on the line of a mainline.                                           *)
ASSUME WiringAssumption ==
  /\ \E d \in Units : Dispatches = {d}
  /\ \A u \in Units \ Dispatches : Out[u] # <<>>
  /\ \A S \in SUBSET Units :
       (\A i \in DOMAIN Mainlines : Mainlines[i] \in S) /\ ClosedUnderOut(S) => S = Units

(* Racks like that of the examples: the line of each mainline, through any *)
(* number of steps, leads to an input of the one combine c that is its     *)
(* own, and c leads to the dispatch d.  lane numbers the lines.            *)
Inner(c, d) == Units \ {c, d}

LanesMeet(c, d, lane) ==
  /\ c \in Units /\ d \in Units /\ Combines = {c} /\ Dispatches = {d}
  /\ Len(Out[c]) = 1 /\ Out[c][1].to = d
  /\ lane \in [Units -> Nat]
  /\ \A i \in DOMAIN Mainlines : lane[Mainlines[i]] = i
  /\ \A u \in Inner(c, d) :
       /\ Len(Out[u]) = 1 /\ Out[u][1].to # d
       /\ Out[u][1].to # c => lane[Out[u][1].to] = lane[u]
  /\ \A u, v \in Inner(c, d) : Out[u][1].to = c /\ Out[u][1] = Out[v][1] => lane[u] = lane[v]

(* entry is the input that each line ends at; none leads to a mainline. *)
LanesEnter(c, d, lane, entry) ==
  /\ LanesMeet(c, d, lane)
  /\ entry \in [DOMAIN Mainlines -> Line]
  /\ \A i, j \in DOMAIN Mainlines : entry[i] = entry[j] => i = j
  /\ \A u \in Inner(c, d) :
       /\ Out[u][1].to = c => lane[u] \in DOMAIN Mainlines /\ Out[u][1].line = entry[lane[u]]
       /\ Kind[Out[u][1].to] # "mainline"

VARIABLES
  ustate,   \* m_unit_profile.state of a unit
  gstate,   \* m_global_profile.state of a unit
  rackState,\* m_global_profile.state of the rack
  bogus,    \* the state in the bogus profile
  inputs,   \* m_input_state of a combine
  upstream, \* m_upstream of a unit
  flags,    \* m_resync_flags of the rack: "upstream", "glob"
  pass,     \* the pass the rack is in: "none", "upstream" or "glob"
  mainline, \* the mainline the pass is at
  stack,    \* the calls of sync_line under way, the innermost first
  changing, \* units between register_metric and trigger_sync
  changes,  \* changes of state so far
  asked,    \* history: units that changed since a pass was last completed
  alone,    \* history: never two changes for one pass, and off at the start
  calm,     \* history: only mainlines changed, and none during a pass
  steady,   \* history: no step changed during a pass
  synced    \* history: an upstream pass has been completed

profileVars == <<ustate, gstate, rackState, bogus>>
rackVars == <<flags, pass, mainline, stack, synced>>
askVars == <<changing, changes, asked, alone, calm, steady>>
vars == <<profileVars, inputs, upstream, rackVars, askVars>>

(* After rack::warmup and its global sync: the init() of a dispatch unit   *)
(* may have registered its state as active (Zeta.cpp does).                *)
Init ==
  /\ rackState \in State
  /\ gstate = [u \in Units |-> rackState]
  /\ ustate = [u \in Units |-> IF u \in Dispatches THEN rackState ELSE "inactive"]
  /\ bogus = "inactive"
  /\ inputs = [c \in Combines |-> [l \in Line |-> FALSE]]
  /\ upstream = [u \in Units |-> FALSE]
  /\ flags = {}
  /\ pass = "none"
  /\ mainline = 1
  /\ stack = <<>>
  /\ changing = {}
  /\ changes = 0
  /\ asked = {}
  /\ alone = (rackState = "inactive")
  /\ calm = TRUE
  /\ steady = TRUE
  /\ synced = FALSE

-----------------------------------------------------------------------------
(* A mainline or a step changes its state, on any thread: it registers the *)
(* metric ...                                                              *)
Register(u, s) ==
  /\ Kind[u] \in {"mainline", "step"}
  /\ u \notin changing
  /\ changes < MaxChanges
  /\ ustate[u] # s
  /\ ustate' = [ustate EXCEPT ![u] = s]
  /\ changing' = changing \cup {u}
  /\ changes' = changes + 1
  /\ asked' = asked \cup {u}
  /\ alone' = (alone /\ asked = {})
  /\ calm' = (calm /\ pass = "none" /\ Kind[u] = "mainline")
  /\ steady' = (steady /\ (pass = "none" \/ Kind[u] = "mainline"))
  /\ UNCHANGED <<gstate, rackState, bogus, inputs, upstream, rackVars>>

(* ... and triggers an upstream sync. *)
Request(u) ==
  /\ u \in changing
  /\ changing' = changing \ {u}
  /\ upstream' = [upstream EXCEPT ![u] = TRUE]
  /\ flags' = flags \cup {"upstream"}
  /\ calm' = (calm /\ pass = "none")
  /\ UNCHANGED <<profileVars, inputs, pass, mainline, stack, synced, changes, asked, alone, steady>>

-----------------------------------------------------------------------------
(* Variants: a definition named Bad... is a mistake in the one that        *)
(* follows it, and shows what the properties below would notice.           *)
(* A cycle of the rack ends with the syncs that were asked for, the        *)
(* upstream sync first.                                                    *)
SyncBegins ==
  /\ pass = "none"
  /\ flags # {}
  /\ pass' = IF "upstream" \in flags THEN "upstream" ELSE "glob"
  /\ mainline' = 1
  /\ UNCHANGED <<profileVars, inputs, upstream, flags, stack, synced, askVars>>

Call(u, l, p) == [unit |-> u, line |-> l, profile |-> p, at |-> 0]

(* backend::sync: one mainline after the other. *)
NextMainline ==
  /\ pass # "none"
  /\ stack = <<>>
  /\ mainline <= Len(Mainlines)
  /\ mainline' = mainline + 1
  /\ bogus' = IF pass = "upstream" THEN rackState ELSE bogus
  /\ stack' = <<Call(Mainlines[mainline], 0, IF pass = "upstream" THEN Bogus ELSE RackProfile)>>
  /\ UNCHANGED <<ustate, gstate, rackState, inputs, upstream, flags, pass, synced, askVars>>

PassOver == pass # "none" /\ stack = <<>> /\ mainline > Len(Mainlines)

(* What is left of the flags after the upstream pass is synced at once ... *)
UpstreamOver ==
  /\ PassOver
  /\ pass = "upstream"
  /\ flags' = flags \ {"upstream"}
  /\ pass' = IF "glob" \in flags THEN "glob" ELSE "none"
  /\ mainline' = 1
  /\ asked' = changing
  /\ synced' = TRUE
  /\ UNCHANGED <<profileVars, inputs, upstream, stack, changing, changes, alone, calm, steady>>

BadGlobOver ==
  /\ PassOver
  /\ pass = "glob"
  /\ pass' = "none"
  /\ asked' = changing
  /\ UNCHANGED <<profileVars, inputs, upstream, flags, mainline, stack, synced, changing, changes, alone, calm, steady>>

(* ... and after that the flags are cleared. *)
GlobOver ==
  /\ PassOver
  /\ pass = "glob"
  /\ flags' = {}
  /\ pass' = "none"
  /\ asked' = changing
  /\ UNCHANGED <<profileVars, inputs, upstream, mainline, stack, synced, changing, changes, alone, calm, steady>>

-----------------------------------------------------------------------------
Top == Head(stack)

StateOf(p) ==
  IF p = Bogus THEN bogus ELSE IF p = RackProfile THEN rackState ELSE ustate[p]

(* sync_line has been called on a unit of this kind for this sync. *)
Entered(kinds, sync) ==
  /\ stack # <<>>
  /\ Top.at = 0
  /\ pass = sync
  /\ Kind[Top.unit] \in kinds

(* continue_sync with profile p: to the first output. *)
Continue(p) == stack' = <<[Top EXCEPT !.at = 1, !.profile = p]>> \o Tail(stack)

Return == stack' = Tail(stack)

(* continue_sync: the next output. *)
NextOutput ==
  /\ stack # <<>>
  /\ Top.at \in DOMAIN Out[Top.unit]
  /\ LET out == Out[Top.unit][Top.at] IN
     stack' = <<Call(out.to, out.line, Top.profile), [Top EXCEPT !.at = @ + 1]>> \o Tail(stack)
  /\ UNCHANGED <<profileVars, inputs, upstream, flags, pass, mainline, synced, askVars>>

BadSyncLineReturns ==
  /\ stack # <<>>
  /\ Top.at > Len(Out[Top.unit])
  /\ Return
  /\ gstate' = IF pass = "glob" THEN [gstate EXCEPT ![Top.unit] = ustate[Top.unit]]
               ELSE gstate
  /\ UNCHANGED <<ustate, rackState, bogus, inputs, upstream, flags, pass, mainline, synced, askVars>>

(* All outputs are done.  In a global sync the unit now copies what has    *)
(* become of the profile (unit.cpp:187-192).                               *)
SyncLineReturns ==
  /\ stack # <<>>
  /\ Top.at > Len(Out[Top.unit])
  /\ Return
  /\ gstate' = IF pass = "glob" THEN [gstate EXCEPT ![Top.unit] = StateOf(Top.profile)]
               ELSE gstate
  /\ UNCHANGED <<ustate, rackState, bogus, inputs, upstream, flags, pass, mainline, synced, askVars>>

(* mainline::sync_line: the state of the unit goes down the line. *)
MainlineUpstream ==
  /\ Entered({"mainline"}, "upstream")
  /\ upstream' = [upstream EXCEPT ![Top.unit] = FALSE]
  /\ bogus' = ustate[Top.unit]
  /\ Continue(Top.profile)
  /\ UNCHANGED <<ustate, gstate, rackState, inputs, flags, pass, mainline, synced, askVars>>

(* unit::sync_line of a unit that asked for the sync: its own profile goes *)
(* down the line.                                                          *)
StepAsked ==
  /\ Entered({"step"}, "upstream")
  /\ upstream[Top.unit]
  /\ upstream' = [upstream EXCEPT ![Top.unit] = FALSE]
  /\ Continue(Top.unit)
  /\ UNCHANGED <<profileVars, inputs, flags, pass, mainline, synced, askVars>>

(* Another unit takes over the state of the line. *)
StepFollows ==
  /\ Entered({"step"}, "upstream")
  /\ ~upstream[Top.unit]
  /\ ustate' = [ustate EXCEPT ![Top.unit] = StateOf(Top.profile)]
  /\ Continue(Top.profile)
  /\ UNCHANGED <<gstate, rackState, bogus, inputs, upstream, flags, pass, mainline, synced, askVars>>

BadCombineOn ==
  /\ Entered({"combine"}, "upstream")
  /\ StateOf(Top.profile) = "active"
  /\ inputs' = [inputs EXCEPT ![Top.unit][Top.line] = TRUE]
  /\ ustate' = [ustate EXCEPT ![Top.unit] = "active"]
  /\ Return
  /\ UNCHANGED <<gstate, rackState, bogus, upstream, flags, pass, mainline, synced, askVars>>

(* combine::sync_line turns an input on; if the rack is inactive, itself   *)
(* and what follows too.                                                   *)
CombineOn ==
  /\ Entered({"combine"}, "upstream")
  /\ StateOf(Top.profile) = "active"
  /\ inputs' = [inputs EXCEPT ![Top.unit][Top.line] = TRUE]
  /\ IF gstate[Top.unit] = "inactive"
     THEN ustate' = [ustate EXCEPT ![Top.unit] = "active"] /\ Continue(Top.profile)
     ELSE UNCHANGED ustate /\ Return
  /\ UNCHANGED <<gstate, rackState, bogus, upstream, flags, pass, mainline, synced, askVars>>

BadCombineOff ==
  LET c == Top.unit IN
  /\ Entered({"combine"}, "upstream")
  /\ StateOf(Top.profile) # "active"
  /\ inputs' = [inputs EXCEPT ![c][Top.line] = FALSE]
  /\ IF gstate[c] = "active" /\ \A l \in Line : ~inputs[c][l]
     THEN ustate' = [ustate EXCEPT ![c] = "inactive"] /\ Continue(Top.profile)
     ELSE UNCHANGED ustate /\ Return
  /\ UNCHANGED <<gstate, rackState, bogus, upstream, flags, pass, mainline, synced, askVars>>

(* It turns an input off; if the rack is active and this was the last one  *)
(* that was on, itself and what follows too.                               *)
CombineOff ==
  LET c == Top.unit IN
  /\ Entered({"combine"}, "upstream")
  /\ StateOf(Top.profile) # "active"
  /\ inputs' = [inputs EXCEPT ![c][Top.line] = FALSE]
  /\ IF gstate[c] = "active" /\ \A l \in Line : ~inputs'[c][l]
     THEN ustate' = [ustate EXCEPT ![c] = "inactive"] /\ Continue(Top.profile)
     ELSE UNCHANGED ustate /\ Return
  /\ UNCHANGED <<gstate, rackState, bogus, upstream, flags, pass, mainline, synced, askVars>>

(* dispatch::sync_line: a state that is not the global one is registered,  *)
(* and a global sync triggered.  (The cycle it triggers is left out.)      *)
DispatchUpstream ==
  LET s == StateOf(Top.profile) IN
  /\ Entered({"dispatch"}, "upstream")
  /\ IF s # gstate[Top.unit]
     THEN /\ ustate' = [ustate EXCEPT ![Top.unit] = s]
          /\ flags' = flags \cup {"glob"}
     ELSE UNCHANGED <<ustate, flags>>
  /\ Return
  /\ UNCHANGED <<gstate, rackState, bogus, inputs, upstream, pass, mainline, synced, askVars>>

(* In a global sync the profile takes the state of the dispatch unit ...   *)
DispatchGlob ==
  /\ Entered({"dispatch"}, "glob")
  /\ rackState' = ustate[Top.unit]
  /\ Continue(Top.profile)
  /\ UNCHANGED <<ustate, gstate, bogus, inputs, upstream, flags, pass, mainline, synced, askVars>>

(* ... and passes the other units unchanged on its way down.               *)
UnitGlob ==
  /\ Entered({"mainline", "step", "combine"}, "glob")
  /\ Continue(Top.profile)
  /\ UNCHANGED <<profileVars, inputs, upstream, flags, pass, mainline, synced, askVars>>

Rack ==
  \/ SyncBegins \/ NextMainline \/ UpstreamOver \/ GlobOver
  \/ NextOutput \/ SyncLineReturns
  \/ MainlineUpstream \/ StepAsked \/ StepFollows \/ CombineOn \/ CombineOff
  \/ DispatchUpstream \/ DispatchGlob \/ UnitGlob

Next ==
  \/ \E u \in Units : Request(u) \/ \E s \in State : Register(u, s)
  \/ Rack

(* The rack thread goes on (and is triggered to cycle), and a unit that    *)
(* registered its state triggers the sync.                                 *)
Fairness == WF_vars(Rack) /\ \A u \in Units : WF_vars(Request(u))

Spec == Init /\ [][Next]_vars /\ Fairness

-----------------------------------------------------------------------------
Frame ==
  [unit : Units, line : Line, profile : Units \cup {Bogus, RackProfile}, at : Nat]

TypeOK ==
  /\ ustate \in [Units -> State]
  /\ gstate \in [Units -> State]
  /\ rackState \in State
  /\ bogus \in State
  /\ inputs \in [Combines -> [Line -> BOOLEAN]]
  /\ upstream \in [Units -> BOOLEAN]
  /\ flags \subseteq {"upstream", "glob"}
  /\ pass \in {"none", "upstream", "glob"}
  /\ mainline \in 1 .. Len(Mainlines) + 1
  /\ stack \in Seq(Frame)
  /\ changing \subseteq Units
  /\ changes \in 0 .. MaxChanges
  /\ asked \subseteq Units
  /\ alone \in BOOLEAN
  /\ calm \in BOOLEAN
  /\ steady \in BOOLEAN
  /\ synced \in BOOLEAN

Settled == pass = "none" /\ flags = {} /\ changing = {}

(* "the dispatch unit will trigger a global sync, so all the unit's global *)
(* profiles are the same" (catch_combine.cpp:55-57): between two passes    *)
(* every unit agrees with the rack about the global state, although the    *)
(* units that come before a dispatch see the profile first.                *)
GlobalStateIsUniform ==
  pass = "none" => \A u \in Units : gstate[u] = rackState

(* "the line state of the rack is determined by the sync profile of the    *)
(* dispatch unit" (dispatch.cpp:21-23): a change the dispatch registered   *)
(* has reached the rack before the next cycle.                             *)
DispatchDecides ==
  pass = "none" => \A d \in Dispatches : ustate[d] = rackState

(* Between two passes there is one state, whichever unit is asked: that of *)
(* the dispatch.                                                           *)
OneStateBetweenPasses == TypeOK /\ GlobalStateIsUniform /\ DispatchDecides

(* The rack is not active without a line that is: when the last input of a *)
(* combine is turned off the whole rack is (combine.cpp:34-47).  A step    *)
(* that changes its state while the pass carries its profile on, which it  *)
(* does by reference (unit.cpp:207), tells the combine and the dispatch    *)
(* different things.                                                       *)
ActiveNeedsInput ==
  steady /\ pass = "none" /\ synced /\ rackState = "active" =>
    \E c \in Combines, l \in Line : inputs[c][l]

(* The rack is active as soon as one mainline is, and no longer than that, *)
(* as long as the rack was inactive, like its lines, when it was started,  *)
(* and mainlines change one at a time and not during a pass.               *)
RackFollowsLines ==
  alone /\ calm /\ synced /\ Settled =>
    (rackState = "active" <=> \E i \in DOMAIN Mainlines : ustate[Mainlines[i]] = "active")

(* As long as the rack cycles, changes settle: the global sync that an     *)
(* upstream sync leads to never leads to another sync.                     *)
ChangesSettle == <>[](flags = {} /\ pass = "none")

-----------------------------------------------------------------------------
(* "not all lines have been deactivated, [...] the rack remains active"    *)
(* (catch_combine.cpp:66-71): once all is settled, the rack is active if   *)
(* an input of a combine is on.                                            *)
InputKeepsRackActive ==
  calm /\ Settled /\ (\E c \in Combines, l \in Line : inputs[c][l]) => rackState = "active"

=============================================================================
