-------------------------- MODULE LineStateProofs --------------------------
(***************************************************************************)
(* Theorems about module LineState.  The first is for every rack that is   *)
(* wired as WiringAssumption says, whatever its units, its lines and the   *)
(* changes made to them while a pass is under way: there is one state      *)
(* between two passes.  The other two are for the racks whose lines meet   *)
(* in one combine (LanesMeet, LanesEnter): when the rack is active, and    *)
(* that it is so exactly when one of its mainlines is.                     *)
(***************************************************************************)
EXTENDS LineState, TLAPS

Frames == 1 .. Len(stack)

(* The calls follow the line of the mainline that the pass is at, each at  *)
(* the output that the next one was made to.                               *)
Path ==
  /\ \A j \in 2 .. Len(stack) :
       /\ stack[j].at - 1 \in DOMAIN Out[stack[j].unit]
       /\ stack[j - 1].unit = Out[stack[j].unit][stack[j].at - 1].to
       /\ stack[j - 1].line = Out[stack[j].unit][stack[j].at - 1].line
  /\ stack # <<>> =>
       /\ mainline - 1 \in DOMAIN Mainlines
       /\ stack[Len(stack)].unit = Mainlines[mainline - 1]

Calls ==
  /\ Path
  /\ pass = "none" => stack = <<>>
  /\ pass = "glob" => \A j \in Frames : stack[j].profile = RackProfile

(* The rack has the state of its dispatch. *)
Decided == \A d \in Dispatches : ustate[d] = rackState

Uniform == \A u \in Units : gstate[u] = rackState

(* Before a global pass all units agree with the rack; if the dispatch has *)
(* registered another state, that pass is due.                             *)
BetweenGlobs ==
  pass # "glob" => Uniform /\ (Decided \/ (pass = "upstream" /\ "glob" \in flags))

(* Until the pass reaches the dispatch it only goes down, along the first  *)
(* outputs of the line of the first mainline.                              *)
GoingDown ==
  /\ \A j \in Frames :
       /\ IF j = 1 THEN stack[j].at <= 1 ELSE stack[j].at = 2
       /\ stack[j].unit \in Dispatches => stack[j].at = 0
  /\ mainline = IF stack = <<>> THEN 1 ELSE 2

(* From then on every unit that a call has returned from agrees with the   *)
(* rack, together with all units that its line leads to.                   *)
Agreeing == {u \in Units : gstate[u] = rackState}

FramesComeBack ==
  \A j \in Frames : \A i \in DOMAIN Out[stack[j].unit] :
    i < (IF j = 1 THEN stack[j].at ELSE stack[j].at - 1) => Out[stack[j].unit][i].to \in Agreeing

MainlinesComeBack ==
  \A i \in DOMAIN Mainlines :
    i < (IF stack = <<>> THEN mainline ELSE mainline - 1) => Mainlines[i] \in Agreeing

ComingBack == ClosedUnderOut(Agreeing) /\ FramesComeBack /\ MainlinesComeBack

InGlob ==
  pass = "glob" => IF Decided THEN ComingBack ELSE Uniform /\ GoingDown

IInv == TypeOK /\ Calls /\ BetweenGlobs /\ InGlob

-----------------------------------------------------------------------------
(* Stacks: what the three things done to them do. *)
LEMMA Replaced ==
  ASSUME NEW S, NEW q \in Seq(S), q # <<>>, NEW f \in S
  PROVE  /\ <<f>> \o Tail(q) \in Seq(S)
         /\ Len(<<f>> \o Tail(q)) = Len(q)
         /\ (<<f>> \o Tail(q))[1] = f
         /\ \A j \in 2 .. Len(q) : (<<f>> \o Tail(q))[j] = q[j]
OBVIOUS

LEMMA Pushed ==
  ASSUME NEW S, NEW q \in Seq(S), q # <<>>, NEW f \in S, NEW g \in S
  PROVE  /\ <<g, f>> \o Tail(q) \in Seq(S)
         /\ Len(<<g, f>> \o Tail(q)) = Len(q) + 1
         /\ (<<g, f>> \o Tail(q))[1] = g
         /\ (<<g, f>> \o Tail(q))[2] = f
         /\ \A j \in 3 .. Len(q) + 1 : (<<g, f>> \o Tail(q))[j] = q[j - 1]
OBVIOUS

LEMMA Popped ==
  ASSUME NEW S, NEW q \in Seq(S), q # <<>>
  PROVE  /\ Tail(q) \in Seq(S)
         /\ Len(Tail(q)) = Len(q) - 1
         /\ \A j \in 1 .. Len(q) - 1 : Tail(q)[j] = q[j + 1]
OBVIOUS

LEMMA ItemIsTyped ==
  ASSUME NEW S, NEW q \in Seq(S), NEW j \in DOMAIN q
  PROVE  q[j] \in S
OBVIOUS

LEMMA TopIsFirst ==
  ASSUME TypeOK, stack # <<>>
  PROVE  /\ Top = stack[1] /\ Top \in Frame /\ 1 \in Frames /\ Len(stack) \in Nat \ {0}
BY DEF TypeOK, Top, Frames

(* Top as the calls change it. *)
LEMMA CallIsFrame ==
  ASSUME NEW u \in Units, NEW l \in Line, NEW p \in Units \cup {Bogus, RackProfile}
  PROVE  Call(u, l, p) \in Frame
BY DEF Call, Frame

LEMMA StateOfIsState ==
  ASSUME TypeOK, NEW p \in Units \cup {Bogus, RackProfile}
  PROVE  StateOf(p) \in State
BY LineAssumption DEF TypeOK, StateOf

LEMMA ContinueIsTyped ==
  ASSUME TypeOK, stack # <<>>, NEW p \in Units \cup {Bogus, RackProfile}, Continue(p)
  PROVE  /\ stack' \in Seq(Frame) /\ Len(stack') = Len(stack)
         /\ stack'[1] = [Top EXCEPT !.at = 1, !.profile = p]
         /\ \A j \in 2 .. Len(stack) : stack'[j] = stack[j]
<1>1. stack \in Seq(Frame) /\ Top \in Frame
  BY TopIsFirst DEF TypeOK
<1>2. [Top EXCEPT !.at = 1, !.profile = p] \in Frame
  BY <1>1 DEF Frame
<1> QED
  BY <1>1, <1>2, Replaced DEF Continue

LEMMA ReturnIsTyped ==
  ASSUME TypeOK, stack # <<>>, Return
  PROVE  /\ stack' \in Seq(Frame) /\ Len(stack') = Len(stack) - 1
         /\ \A j \in 1 .. Len(stack) - 1 : stack'[j] = stack[j + 1]
BY Popped DEF TypeOK, Return

LEMMA MainlinesAreUnits ==
  /\ Len(Mainlines) \in Nat /\ DOMAIN Mainlines = 1 .. Len(Mainlines)
  /\ \A i \in DOMAIN Mainlines : Mainlines[i] \in Units
BY LineAssumption

LEMMA OutputsAreTyped ==
  ASSUME NEW u \in Units
  PROVE  /\ Len(Out[u]) \in Nat /\ DOMAIN Out[u] = 1 .. Len(Out[u])
         /\ \A i \in DOMAIN Out[u] : Out[u][i].to \in Units /\ Out[u][i].line \in Line
<1>1. Out[u] \in Seq([to : Units, line : Line])
  BY LineAssumption
<1>2. Len(Out[u]) \in Nat /\ DOMAIN Out[u] = 1 .. Len(Out[u])
  BY <1>1
<1>3. ASSUME NEW i \in DOMAIN Out[u]
      PROVE  Out[u][i].to \in Units /\ Out[u][i].line \in Line
  <2>1. Out[u][i] \in [to : Units, line : Line]
    BY <1>1, ItemIsTyped
  <2> QED
    BY <2>1
<1> QED
  BY <1>2, <1>3

(* A call to the next output comes on top of the one that makes it. *)
LEMMA OutputIsCalled ==
  ASSUME TypeOK, NextOutput
  PROVE  LET out == Out[Top.unit][Top.at] IN
         /\ stack # <<>> /\ Top = stack[1] /\ Len(stack) \in Nat \ {0}
         /\ Top.unit \in Units /\ out.to \in Units
         /\ Top.at \in DOMAIN Out[Top.unit] /\ Top.at \in Nat \ {0}
         /\ stack' \in Seq(Frame) /\ Len(stack') = Len(stack) + 1
         /\ stack'[1] = Call(out.to, out.line, Top.profile)
         /\ stack'[2] = [Top EXCEPT !.at = @ + 1]
         /\ stack'[2].unit = Top.unit /\ stack'[2].at = Top.at + 1
         /\ stack'[2].profile = Top.profile /\ stack'[2].line = Top.line
         /\ \A j \in 3 .. Len(stack) + 1 : stack'[j] = stack[j - 1]
<1> DEFINE out == Out[Top.unit][Top.at]
           g == Call(out.to, out.line, Top.profile)
           f == [Top EXCEPT !.at = @ + 1]
<1>1. /\ stack # <<>> /\ Top = stack[1] /\ Top \in Frame /\ stack \in Seq(Frame)
      /\ Len(stack) \in Nat \ {0}
  BY TopIsFirst DEF NextOutput, TypeOK
<1>2. Top.unit \in Units /\ Top.profile \in Units \cup {Bogus, RackProfile} /\ Top.at \in Nat
  BY <1>1 DEF Frame
<1>3. Top.at \in DOMAIN Out[Top.unit] /\ Top.at \in Nat \ {0}
  BY <1>2, OutputsAreTyped DEF NextOutput
<1>4. out.to \in Units /\ out.line \in Line
  BY <1>2, <1>3, OutputsAreTyped
<1>5. g \in Frame
  BY <1>2, <1>4, CallIsFrame
<1>6. /\ f \in Frame /\ f.unit = Top.unit /\ f.at = Top.at + 1 /\ f.profile = Top.profile
      /\ f.line = Top.line
  BY <1>1, <1>2 DEF Frame
<1>7. stack' = <<g, f>> \o Tail(stack)
  BY DEF NextOutput
<1> HIDE DEF f, g
<1>8. /\ stack' \in Seq(Frame) /\ Len(stack') = Len(stack) + 1
      /\ stack'[1] = g /\ stack'[2] = f
      /\ \A j \in 3 .. Len(stack) + 1 : stack'[j] = stack[j - 1]
  BY <1>1, <1>5, <1>6, <1>7, Pushed
<1> QED
  BY <1>1, <1>2, <1>3, <1>4, <1>6, <1>8 DEF f, g

LEMMA InitTypeOK == Init => TypeOK
<1> SUFFICES ASSUME Init PROVE TypeOK
  OBVIOUS
<1>1. 1 \in 1 .. Len(Mainlines) + 1
  BY MainlinesAreUnits
<1>2. 0 \in 0 .. MaxChanges
  BY LineAssumption
<1>3. ustate \in [Units -> State] /\ gstate \in [Units -> State]
  BY DEF Init, State
<1>4. inputs \in [Combines -> [Line -> BOOLEAN]]
  BY DEF Init
<1>5. stack \in Seq(Frame) /\ upstream \in [Units -> BOOLEAN]
  BY DEF Init
<1>6. /\ rackState \in State /\ bogus \in State
      /\ flags \subseteq {"upstream", "glob"} /\ pass \in {"none", "upstream", "glob"}
  BY DEF Init, State
<1>7. mainline \in 1 .. Len(Mainlines) + 1 /\ changes \in 0 .. MaxChanges
  BY <1>1, <1>2 DEF Init
<1>8. changing \subseteq Units /\ asked \subseteq Units
  BY DEF Init
<1>9. /\ alone \in BOOLEAN /\ calm \in BOOLEAN /\ steady \in BOOLEAN
      /\ synced \in BOOLEAN
  BY DEF Init
<1> QED
  BY <1>3, <1>4, <1>5, <1>6, <1>7, <1>8, <1>9 DEF TypeOK

(* Every step keeps the types. *)
LEMMA NextTypeOK == TypeOK /\ [Next]_vars => TypeOK'
<1> SUFFICES ASSUME TypeOK, [Next]_vars PROVE TypeOK'
  OBVIOUS
<1>0. Len(Mainlines) \in Nat /\ 1 \in 1 .. Len(Mainlines) + 1
  BY MainlinesAreUnits
<1>1. ASSUME NEW u \in Units, NEW s \in State, Register(u, s)
      PROVE  TypeOK'
  BY <1>1, LineAssumption DEF Register, TypeOK, rackVars
<1>2. ASSUME NEW u \in Units, Request(u)
      PROVE  TypeOK'
  BY <1>2 DEF Request, TypeOK, profileVars
<1>3. CASE SyncBegins
  BY <1>3, <1>0 DEF SyncBegins, TypeOK, profileVars, askVars
<1>4. CASE UpstreamOver \/ GlobOver
  BY <1>4, <1>0 DEF UpstreamOver, GlobOver, TypeOK, profileVars
<1>5. CASE NextMainline
  <2>1. Mainlines[mainline] \in Units /\ mainline + 1 \in 1 .. Len(Mainlines) + 1
    BY <1>5, <1>0, MainlinesAreUnits DEF NextMainline, TypeOK
  <2>2. 0 \in Line
    BY LineAssumption DEF Line
  <2>3. \A p \in {Bogus, RackProfile} : <<Call(Mainlines[mainline], 0, p)>> \in Seq(Frame)
    BY <2>1, <2>2, CallIsFrame
  <2>4. stack' \in Seq(Frame) /\ bogus' \in State
    BY <1>5, <2>3 DEF NextMainline, TypeOK
  <2> QED
    BY <1>5, <2>1, <2>4 DEF NextMainline, TypeOK, askVars
<1>6. CASE NextOutput
  BY <1>6, OutputIsCalled DEF NextOutput, TypeOK, profileVars, askVars
<1>7. ASSUME stack # <<>>
      PROVE  /\ Top.unit \in Units /\ Top.line \in Line
             /\ Top.profile \in Units \cup {Bogus, RackProfile}
             /\ StateOf(Top.profile) \in State
             /\ Return => stack' \in Seq(Frame)
             /\ Continue(Top.profile) \/ Continue(Top.unit) => stack' \in Seq(Frame)
  <2>1. Top \in Frame
    BY <1>7, TopIsFirst
  <2>2. /\ Top.unit \in Units /\ Top.line \in Line
        /\ Top.profile \in Units \cup {Bogus, RackProfile}
    BY <2>1 DEF Frame
  <2> QED
    BY <1>7, <2>2, StateOfIsState, ReturnIsTyped, ContinueIsTyped
<1>8. CASE SyncLineReturns
  BY <1>8, <1>7 DEF SyncLineReturns, TypeOK, askVars
<1>9. CASE MainlineUpstream \/ StepAsked \/ StepFollows
  <2>1. CASE MainlineUpstream
    BY <2>1, <1>7 DEF MainlineUpstream, Entered, TypeOK, askVars
  <2>2. CASE StepAsked
    BY <2>2, <1>7 DEF StepAsked, Entered, TypeOK, profileVars, askVars
  <2>3. CASE StepFollows
    BY <2>3, <1>7 DEF StepFollows, Entered, TypeOK, askVars
  <2> QED
    BY <1>9, <2>1, <2>2, <2>3
<1>10. CASE CombineOn \/ CombineOff
  <2>1. stack # <<>> /\ Top.unit \in Combines
    BY <1>10, <1>7 DEF CombineOn, CombineOff, Entered, Combines
  <2>2. inputs' \in [Combines -> [Line -> BOOLEAN]]
    <3>1. PICK b \in BOOLEAN : inputs' = [inputs EXCEPT ![Top.unit][Top.line] = b]
      BY <1>10 DEF CombineOn, CombineOff
    <3>2. inputs[Top.unit] \in [Line -> BOOLEAN]
      BY <2>1 DEF TypeOK
    <3>3. [inputs[Top.unit] EXCEPT ![Top.line] = b] \in [Line -> BOOLEAN]
      BY <3>2
    <3> QED
      BY <3>1, <3>3, <2>1 DEF TypeOK
  <2>3. ustate' \in [Units -> State] /\ stack' \in Seq(Frame)
    BY <1>10, <1>7, <2>1 DEF CombineOn, CombineOff, TypeOK, State
  <2> QED
    BY <1>10, <2>2, <2>3 DEF CombineOn, CombineOff, TypeOK, askVars
<1>11. CASE DispatchUpstream
  BY <1>11, <1>7 DEF DispatchUpstream, Entered, TypeOK, askVars
<1>12. CASE DispatchGlob \/ UnitGlob
  <2>1. CASE DispatchGlob
    BY <2>1, <1>7 DEF DispatchGlob, Entered, TypeOK, askVars
  <2>2. CASE UnitGlob
    BY <2>2, <1>7 DEF UnitGlob, Entered, TypeOK, profileVars, askVars
  <2> QED
    BY <1>12, <2>1, <2>2
<1>13. CASE UNCHANGED vars
  BY <1>13 DEF vars, profileVars, rackVars, askVars, TypeOK
<1> QED
  BY <1>1, <1>2, <1>3, <1>4, <1>5, <1>6, <1>8, <1>9, <1>10, <1>11, <1>12, <1>13
     DEF Next, Rack

-----------------------------------------------------------------------------
(* The state of the profile is that of the rack, or the bogus one, or that *)
(* of a unit: the calls of a global pass carry that of the rack.           *)
LEMMA GlobCarriesTheRack ==
  ASSUME TypeOK, Calls, pass = "glob", stack # <<>>
  PROVE  Top.profile = RackProfile /\ StateOf(Top.profile) = rackState
<1>1. Top.profile = RackProfile
  BY TopIsFirst DEF Calls
<1> QED
  BY <1>1, LineAssumption DEF StateOf

LEMMA NextCalls == TypeOK /\ Calls /\ [Next]_vars => Calls'
<1> SUFFICES ASSUME TypeOK, Calls, [Next]_vars PROVE Calls'
  OBVIOUS
<1>1. ASSUME UNCHANGED stack, UNCHANGED <<mainline, pass>> \/ stack = <<>>
      PROVE  Calls'
  BY <1>1 DEF Calls, Path, Frames
<1>2. ASSUME NEW u \in Units, Request(u) \/ \E s \in State : Register(u, s)
      PROVE  Calls'
  BY <1>2, <1>1 DEF Request, Register, rackVars
<1>3. CASE SyncBegins \/ UpstreamOver \/ GlobOver \/ UNCHANGED vars
  BY <1>3, <1>1 DEF SyncBegins, UpstreamOver, GlobOver, PassOver, Calls, vars, rackVars
<1>4. CASE NextMainline
  <2>1. pass' = pass /\ pass # "none" /\ mainline' = mainline + 1 /\ mainline \in DOMAIN Mainlines
    BY <1>4, MainlinesAreUnits DEF NextMainline, TypeOK
  <2>2. \E p \in {Bogus, RackProfile} :
          /\ stack' = <<Call(Mainlines[mainline], 0, p)>>
          /\ pass = "glob" => p = RackProfile
    BY <1>4 DEF NextMainline
  <2>3. /\ Len(stack') = 1 /\ stack'[1].unit = Mainlines[mainline]
        /\ pass = "glob" => stack'[1].profile = RackProfile
    BY <2>2 DEF Call
  <2>4. mainline \in Nat
    BY MainlinesAreUnits DEF TypeOK
  <2> QED
    BY <2>1, <2>3, <2>4 DEF Calls, Path, Frames
<1>5. ASSUME stack # <<>>, UNCHANGED <<pass, mainline>>, Return
      PROVE  Calls'
  <2>1. pass # "none"
    BY <1>5 DEF Calls
  <2>2. /\ Len(stack) \in Nat \ {0} /\ Len(stack') = Len(stack) - 1
        /\ \A j \in 1 .. Len(stack) - 1 : stack'[j] = stack[j + 1]
        /\ stack' \in Seq(Frame)
    BY <1>5, ReturnIsTyped, TopIsFirst
  <2>3. Path'
    <3>1. ASSUME NEW j \in 2 .. Len(stack')
          PROVE  /\ stack'[j].at - 1 \in DOMAIN Out[stack'[j].unit]
                 /\ stack'[j - 1].unit = Out[stack'[j].unit][stack'[j].at - 1].to
                 /\ stack'[j - 1].line = Out[stack'[j].unit][stack'[j].at - 1].line
      <4>1. /\ j + 1 \in 2 .. Len(stack) /\ stack'[j] = stack[j + 1]
            /\ stack'[j - 1] = stack[(j + 1) - 1]
        BY <2>2
      <4> QED
        BY <4>1 DEF Calls, Path
    <3>2. stack' # <<>> => stack'[Len(stack')] = stack[Len(stack)]
      BY <2>2
    <3> QED
      BY <3>1, <3>2, <1>5 DEF Calls, Path
  <2> QED
    BY <2>1, <2>2, <2>3, <1>5 DEF Calls, Frames
<1>6. ASSUME stack # <<>>, UNCHANGED <<pass, mainline>>,
             NEW p \in Units \cup {Bogus, RackProfile}, Continue(p),
             pass = "glob" => p = RackProfile,
             Top.at = 0
      PROVE  Calls'
  <2>1. /\ pass # "none" /\ Len(stack) \in Nat \ {0} /\ Top \in Frame /\ Top = stack[1]
    BY <1>6, TopIsFirst DEF Calls
  <2> DEFINE f == [Top EXCEPT !.at = 1, !.profile = p]
  <2>0. f.profile = p /\ f.unit = Top.unit /\ f.line = Top.line
    BY <2>1 DEF Frame
  <2>2. /\ Len(stack') = Len(stack)
        /\ stack'[1].profile = p /\ stack'[1].unit = stack[1].unit
        /\ stack'[1].line = stack[1].line
        /\ \A j \in 2 .. Len(stack) : stack'[j] = stack[j]
        /\ stack' \in Seq(Frame)
    <3>1. stack'[1] = f
      BY <1>6, ContinueIsTyped
    <3> HIDE DEF f
    <3> QED
      BY <1>6, <2>0, <2>1, <3>1, ContinueIsTyped
  <2>3. \A j \in 1 .. Len(stack) :
          stack'[j].unit = stack[j].unit /\ stack'[j].line = stack[j].line
    BY <2>1, <2>2
  <2>4. Path'
    <3>1. stack' # <<>> /\ Len(stack) \in 1 .. Len(stack)
      BY <2>1, <2>2
    <3> QED
      BY <2>1, <2>2, <2>3, <3>1, <1>6 DEF Calls, Path
  <2> QED
    BY <2>1, <2>2, <2>4, <1>6 DEF Calls, Frames
<1>7. CASE NextOutput
  <2>1. UNCHANGED <<pass, mainline>> /\ pass # "none"
    BY <1>7 DEF NextOutput, Calls
  <2>2. /\ Len(stack) \in Nat \ {0} /\ Top = stack[1]
        /\ Len(stack') = Len(stack) + 1 /\ stack' \in Seq(Frame)
        /\ stack'[1].profile = Top.profile /\ stack'[2].profile = Top.profile
        /\ \A j \in 3 .. Len(stack) + 1 : stack'[j] = stack[j - 1]
    BY <1>7, OutputIsCalled DEF Call
  <2>3. /\ stack'[2].unit = Top.unit /\ stack'[2].at - 1 = Top.at /\ stack'[2].line = Top.line
        /\ Top.at \in DOMAIN Out[Top.unit]
        /\ stack'[1].unit = Out[Top.unit][Top.at].to
        /\ stack'[1].line = Out[Top.unit][Top.at].line
    BY <1>7, OutputIsCalled DEF Call
  <2>4. stack # <<>> /\ stack' # <<>>
    BY <2>2
  <2>5. ASSUME NEW j \in 2 .. Len(stack')
        PROVE  /\ stack'[j].at - 1 \in DOMAIN Out[stack'[j].unit]
               /\ stack'[j - 1].unit = Out[stack'[j].unit][stack'[j].at - 1].to
               /\ stack'[j - 1].line = Out[stack'[j].unit][stack'[j].at - 1].line
    <3>1. CASE j = 2
      BY <3>1, <2>3
    <3>2. CASE j # 2
      <4>1. j \in 3 .. Len(stack) + 1 /\ j - 1 \in 2 .. Len(stack) /\ stack'[j] = stack[j - 1]
        BY <3>2, <2>2
      <4>2. /\ stack'[j - 1].unit = stack[j - 1 - 1].unit
            /\ stack'[j - 1].line = stack[j - 1 - 1].line
        BY <4>1, <2>2, <2>3
      <4> QED
        BY <4>1, <4>2 DEF Calls, Path
    <3> QED
      BY <3>1, <3>2
  <2>6. stack'[Len(stack')].unit = stack[Len(stack)].unit
    BY <2>2, <2>3
  <2>7. Path'
    BY <2>1, <2>4, <2>5, <2>6 DEF Calls, Path
  <2> QED
    BY <2>1, <2>2, <2>7 DEF Calls, Frames
<1>8. ASSUME stack # <<>>
      PROVE  /\ Top.unit \in Units /\ Top.profile \in Units \cup {Bogus, RackProfile}
             /\ pass = "glob" => Top.profile = RackProfile
  BY <1>8, TopIsFirst, GlobCarriesTheRack DEF Frame
<1>9. CASE SyncLineReturns \/ DispatchUpstream
  BY <1>9, <1>5 DEF SyncLineReturns, DispatchUpstream, Entered
<1>10. CASE MainlineUpstream \/ StepAsked \/ StepFollows \/ DispatchGlob \/ UnitGlob
  <2>1. CASE MainlineUpstream \/ StepFollows \/ DispatchGlob \/ UnitGlob
    BY <2>1, <1>6, <1>8 DEF MainlineUpstream, StepFollows, DispatchGlob, UnitGlob, Entered
  <2>2. CASE StepAsked
    BY <2>2, <1>6, <1>8 DEF StepAsked, Entered
  <2> QED
    BY <1>10, <2>1, <2>2
<1>11. CASE CombineOn \/ CombineOff
  BY <1>11, <1>5, <1>6, <1>8 DEF CombineOn, CombineOff, Entered
<1> QED
  BY <1>2, <1>3, <1>4, <1>7, <1>9, <1>10, <1>11 DEF Next, Rack

-----------------------------------------------------------------------------
LEMMA OneDispatch == \E d \in Units : Dispatches = {d}
BY WiringAssumption

(* Before the dispatch is reached no call of a global pass returns, and    *)
(* the pass is not over.                                                   *)
LEMMA NothingComesBack ==
  ASSUME TypeOK, Calls, InGlob, pass = "glob", ~Decided
  PROVE  ~PassOver /\ ~SyncLineReturns
<1>1. GoingDown
  BY DEF InGlob
<1>2. ASSUME PassOver
      PROVE  FALSE
  <2>1. DOMAIN Mainlines = {}
    BY <1>1, <1>2, MainlinesAreUnits DEF PassOver, GoingDown
  <2>2. {} = Units
    BY <2>1, WiringAssumption DEF ClosedUnderOut
  <2> QED
    BY <2>2, OneDispatch
<1>3. ASSUME SyncLineReturns
      PROVE  FALSE
  <2>1. /\ stack # <<>> /\ Top = stack[1] /\ 1 \in Frames /\ Top.unit \in Units /\ Top.at \in Nat
    BY <1>3, TopIsFirst DEF SyncLineReturns, Frame
  <2>2. Top.at <= 1 /\ (Top.unit \in Dispatches => Top.at = 0)
    BY <1>1, <2>1 DEF GoingDown
  <2>3. Top.at > Len(Out[Top.unit]) /\ Len(Out[Top.unit]) \in Nat
    BY <1>3, <2>1, OutputsAreTyped DEF SyncLineReturns
  <2>4. Top.unit \in Dispatches \/ Len(Out[Top.unit]) # 0
    <3>1. Out[Top.unit] \in Seq([to : Units, line : Line])
      BY <2>1, LineAssumption
    <3>2. Top.unit \in Dispatches \/ Out[Top.unit] # <<>>
      BY <2>1, WiringAssumption
    <3> QED
      BY <3>1, <3>2
  <2> QED
    BY <2>1, <2>2, <2>3, <2>4
<1> QED
  BY <1>2, <1>3

(* When a global pass is over all units agree about the state that the     *)
(* dispatch registered.                                                    *)
LEMMA PassAgrees ==
  ASSUME TypeOK, Calls, InGlob, pass = "glob", PassOver
  PROVE  Uniform /\ Decided
<1>1. Decided
  BY NothingComesBack
<1>2. ComingBack
  BY <1>1 DEF InGlob
<1>3. \A i \in DOMAIN Mainlines : Mainlines[i] \in Agreeing
  BY <1>2, MainlinesAreUnits DEF ComingBack, MainlinesComeBack, PassOver, TypeOK
<1>4. Agreeing = Units
  BY <1>2, <1>3, WiringAssumption DEF ComingBack, Agreeing
<1> QED
  BY <1>1, <1>4 DEF Uniform, Agreeing

LEMMA NextBetweenGlobs == IInv /\ [Next]_vars => BetweenGlobs'
<1> SUFFICES ASSUME IInv, [Next]_vars PROVE BetweenGlobs'
  OBVIOUS
<1>0. TypeOK /\ Calls /\ BetweenGlobs /\ InGlob
  BY DEF IInv
<1>1. ASSUME UNCHANGED <<gstate, rackState, pass>>, flags \subseteq flags',
             \A d \in Dispatches : ustate'[d] = ustate[d]
      PROVE  BetweenGlobs'
  BY <1>0, <1>1 DEF BetweenGlobs, Uniform, Decided
<1>2. ASSUME NEW u \in Units, Request(u)
      PROVE  BetweenGlobs'
  BY <1>2, <1>1 DEF Request, profileVars
<1>3. ASSUME NEW u \in Units, NEW s \in State, Register(u, s)
      PROVE  BetweenGlobs'
  <2>1. u \notin Dispatches
    BY <1>3 DEF Register, Dispatches
  <2>2. \A d \in Dispatches : ustate'[d] = ustate[d]
    BY <1>0, <1>3, <2>1 DEF Register, TypeOK, Dispatches
  <2> QED
    BY <1>3, <2>2, <1>1 DEF Register, rackVars
<1>4. CASE SyncBegins
  BY <1>0, <1>4 DEF SyncBegins, BetweenGlobs, Uniform, Decided, profileVars
<1>5. CASE UpstreamOver
  BY <1>0, <1>5 DEF UpstreamOver, BetweenGlobs, Uniform, Decided, profileVars
<1>6. CASE GlobOver
  <2>1. Uniform /\ Decided
    BY <1>0, <1>6, PassAgrees DEF GlobOver
  <2> QED
    BY <1>6, <2>1 DEF GlobOver, BetweenGlobs, Uniform, Decided, profileVars
<1>7. CASE NextMainline \/ NextOutput \/ UnitGlob \/ UNCHANGED vars
  BY <1>7, <1>1 DEF NextMainline, NextOutput, UnitGlob, vars, profileVars, rackVars
<1>8. CASE MainlineUpstream \/ StepAsked
  BY <1>8, <1>1 DEF MainlineUpstream, StepAsked, profileVars
<1>9. CASE StepFollows \/ CombineOn \/ CombineOff
  <2>1. stack # <<>> /\ Top.unit \notin Dispatches
    BY <1>9 DEF StepFollows, CombineOn, CombineOff, Entered, Dispatches
  <2>2. \A d \in Dispatches : ustate'[d] = ustate[d]
    BY <1>0, <1>9, <2>1 DEF StepFollows, CombineOn, CombineOff, TypeOK, Dispatches
  <2> QED
    BY <1>9, <2>2, <1>1 DEF StepFollows, CombineOn, CombineOff
<1>10. CASE DispatchUpstream
  <2>1. UNCHANGED <<gstate, rackState, pass>> /\ pass = "upstream"
    BY <1>10 DEF DispatchUpstream, Entered
  <2>2. UNCHANGED <<ustate, flags>> \/ flags' = flags \cup {"glob"}
    BY <1>10 DEF DispatchUpstream
  <2> QED
    BY <1>0, <2>1, <2>2 DEF BetweenGlobs, Uniform, Decided
<1>11. CASE SyncLineReturns
  <2>1. pass' = pass /\ flags' = flags /\ rackState' = rackState /\ ustate' = ustate
    BY <1>11 DEF SyncLineReturns
  <2>2. pass # "glob" => gstate' = gstate
    BY <1>11 DEF SyncLineReturns
  <2> QED
    BY <1>0, <2>1, <2>2 DEF BetweenGlobs, Uniform, Decided
<1>12. CASE DispatchGlob
  BY <1>12 DEF DispatchGlob, Entered, BetweenGlobs
<1> QED
  BY <1>2, <1>3, <1>4, <1>5, <1>6, <1>7, <1>8, <1>9, <1>10, <1>11, <1>12 DEF Next, Rack

-----------------------------------------------------------------------------
(* What the steps of a global pass do to what it left behind.  First those *)
(* that are no part of it.                                                 *)
LEMMA OthersKeepInGlob ==
  ASSUME InGlob, UNCHANGED <<gstate, rackState, pass, stack, mainline>>,
         \A d \in Dispatches : ustate'[d] = ustate[d]
  PROVE  InGlob'
BY DEF InGlob, Uniform, Decided, GoingDown, ComingBack, FramesComeBack, MainlinesComeBack,
       Frames, Agreeing, ClosedUnderOut

(* A global pass begins with all units agreeing. *)
LEMMA BeginsInGlob ==
  ASSUME TypeOK, Calls, BetweenGlobs, stack = <<>>, pass # "glob",
         UNCHANGED <<profileVars, stack>>, mainline' = 1,
         pass' = "glob" => (pass = "upstream" \/ Decided)
  PROVE  InGlob'
<1>1. SUFFICES ASSUME pass' = "glob" PROVE IF Decided' THEN ComingBack' ELSE Uniform' /\ GoingDown'
  BY DEF InGlob
<1>2. Uniform /\ Uniform'
  BY DEF BetweenGlobs, Uniform, profileVars
<1>3. Agreeing' = Units
  BY <1>2 DEF Agreeing, Uniform
<1>4. ComingBack'
  BY <1>3, OutputsAreTyped, MainlinesAreUnits
     DEF ComingBack, ClosedUnderOut, FramesComeBack, MainlinesComeBack, Frames
<1>5. GoingDown'
  BY DEF GoingDown, Frames
<1> QED
  BY <1>2, <1>4, <1>5

LEMMA NextMainlineInGlob ==
  ASSUME TypeOK, InGlob, NextMainline
  PROVE  InGlob'
<1>1. SUFFICES ASSUME pass = "glob" PROVE IF Decided' THEN ComingBack' ELSE Uniform' /\ GoingDown'
  BY DEF InGlob, NextMainline
<1>2. /\ UNCHANGED <<ustate, gstate, rackState>> /\ stack = <<>> /\ mainline' = mainline + 1
      /\ mainline \in Nat
      /\ stack' = <<Call(Mainlines[mainline], 0, RackProfile)>>
  BY <1>1, MainlinesAreUnits DEF NextMainline, TypeOK
<1>3. Len(stack') = 1 /\ stack' # <<>> /\ stack'[1].at = 0
  BY <1>2 DEF Call
<1>4. Decided' = Decided /\ Uniform' = Uniform /\ Agreeing' = Agreeing
  BY <1>2 DEF Decided, Uniform, Agreeing
<1>5. CASE Decided
  <2>1. ComingBack
    BY <1>1, <1>5 DEF InGlob
  <2>2. FramesComeBack'
    <3>1. stack'[1].unit \in Units
      <4>1. mainline \in DOMAIN Mainlines
        BY <1>2, MainlinesAreUnits DEF NextMainline, TypeOK
      <4>2. stack'[1].unit = Mainlines[mainline]
        BY <1>2 DEF Call
      <4> QED
        BY <4>1, <4>2, MainlinesAreUnits
    <3>2. \A i \in DOMAIN Out[stack'[1].unit] : ~(i < 0)
      BY <3>1, OutputsAreTyped
    <3> QED
      BY <1>3, <3>2 DEF FramesComeBack, Frames
  <2>3. MainlinesComeBack'
    BY <1>2, <1>3, <1>4, <2>1 DEF ComingBack, MainlinesComeBack
  <2> QED
    BY <1>4, <1>5, <2>1, <2>2, <2>3 DEF ComingBack, ClosedUnderOut
<1>6. CASE ~Decided
  <2>1. Uniform /\ GoingDown
    BY <1>1, <1>6 DEF InGlob
  <2> QED
    BY <1>2, <1>3, <1>4, <1>6, <2>1 DEF GoingDown, Frames
<1> QED
  BY <1>5, <1>6

LEMMA NextOutputInGlob ==
  ASSUME TypeOK, Calls, InGlob, NextOutput
  PROVE  InGlob'
<1>1. SUFFICES ASSUME pass = "glob" PROVE IF Decided' THEN ComingBack' ELSE Uniform' /\ GoingDown'
  BY DEF InGlob, NextOutput
<1>2. /\ Len(stack) \in Nat \ {0} /\ stack # <<>> /\ Top = stack[1]
      /\ Len(stack') = Len(stack) + 1 /\ stack' # <<>>
      /\ Top.at \in DOMAIN Out[Top.unit] /\ Top.at \in Nat \ {0} /\ Top.unit \in Units
      /\ stack'[1].at = 0
      /\ stack'[2].unit = Top.unit /\ stack'[2].at = Top.at + 1
      /\ \A j \in 3 .. Len(stack) + 1 : stack'[j] = stack[j - 1]
  BY OutputIsCalled DEF Call
<1>3. UNCHANGED <<ustate, gstate, rackState, mainline>>
  BY DEF NextOutput, profileVars
<1>4. Decided' = Decided /\ Uniform' = Uniform /\ Agreeing' = Agreeing
  BY <1>3 DEF Decided, Uniform, Agreeing
<1>5. CASE Decided
  <2>1. ComingBack
    BY <1>1, <1>5 DEF InGlob
  <2>2. ASSUME NEW j \in Frames', NEW i \in DOMAIN Out[stack'[j].unit],
               i < (IF j = 1 THEN stack'[j].at ELSE stack'[j].at - 1)
        PROVE  Out[stack'[j].unit][i].to \in Agreeing
    <3>1. CASE j = 1
      <4>1. /\ i < 0 /\ 1 \in DOMAIN stack'
        BY <1>2, <2>2, <3>1
      <4>2. stack'[1].unit \in Units
        BY OutputIsCalled DEF Call
      <4> QED
        BY <4>1, <4>2, <2>2, <3>1, OutputsAreTyped
    <3>2. CASE j = 2
      <4>1. i < Top.at /\ i \in DOMAIN Out[Top.unit] /\ 1 \in Frames
        BY <1>2, <2>2, <3>2 DEF Frames
      <4> QED
        BY <1>2, <3>2, <4>1, <2>1 DEF ComingBack, FramesComeBack
    <3>3. CASE j \notin {1, 2}
      <4>1. j - 1 \in Frames /\ j - 1 # 1 /\ stack'[j] = stack[j - 1]
        BY <1>2, <3>3 DEF Frames
      <4> QED
        BY <2>1, <2>2, <3>3, <4>1 DEF ComingBack, FramesComeBack
    <3> QED
      BY <3>1, <3>2, <3>3
  <2>3. FramesComeBack'
    BY <1>4, <2>2 DEF FramesComeBack
  <2>4. MainlinesComeBack'
    BY <1>2, <1>3, <1>4, <2>1 DEF ComingBack, MainlinesComeBack
  <2> QED
    BY <1>4, <1>5, <2>1, <2>3, <2>4 DEF ComingBack, ClosedUnderOut
<1>6. CASE ~Decided
  <2>1. Uniform /\ GoingDown
    BY <1>1, <1>6 DEF InGlob
  <2>2. 1 \in Frames /\ Top.at = 1 /\ Top.unit \notin Dispatches
    BY <1>2, <2>1 DEF GoingDown, Frames
  <2>3. ASSUME NEW j \in Frames'
        PROVE  /\ IF j = 1 THEN stack'[j].at <= 1 ELSE stack'[j].at = 2
               /\ stack'[j].unit \in Dispatches => stack'[j].at = 0
    <3>1. CASE j \in {1, 2}
      BY <3>1, <1>2, <2>2
    <3>2. CASE j \notin {1, 2}
      <4>1. j - 1 \in Frames /\ j - 1 # 1 /\ stack'[j] = stack[j - 1]
        BY <1>2, <3>2 DEF Frames
      <4> QED
        BY <2>1, <3>2, <4>1 DEF GoingDown
    <3> QED
      BY <3>1, <3>2
  <2>4. mainline' = IF stack' = <<>> THEN 1 ELSE 2
    BY <1>2, <1>3, <2>1 DEF GoingDown
  <2>5. GoingDown'
    BY <2>3, <2>4 DEF GoingDown
  <2> QED
    BY <1>4, <1>6, <2>1, <2>5
<1> QED
  BY <1>5, <1>6

(* A unit that a call of the pass returns from agrees with the rack, and   *)
(* so do those its line leads to.                                          *)
LEMMA ReturnInGlob ==
  ASSUME TypeOK, Calls, InGlob, SyncLineReturns
  PROVE  InGlob'
<1>1. SUFFICES ASSUME pass = "glob" PROVE IF Decided' THEN ComingBack' ELSE Uniform' /\ GoingDown'
  BY DEF InGlob, SyncLineReturns
<1>2. Decided /\ Decided' /\ ComingBack
  <2>1. Decided
    BY <1>1, NothingComesBack
  <2> QED
    BY <1>1, <2>1 DEF SyncLineReturns, Decided, InGlob
<1>3. /\ stack # <<>> /\ Top = stack[1] /\ 1 \in Frames /\ Top.unit \in Units /\ Top.at \in Nat
      /\ Len(stack) \in Nat \ {0} /\ Len(stack') = Len(stack) - 1
      /\ \A j \in 1 .. Len(stack) - 1 : stack'[j] = stack[j + 1]
      /\ stack' \in Seq(Frame)
  BY TopIsFirst, ReturnIsTyped DEF SyncLineReturns, Frame
<1>4. /\ rackState' = rackState /\ mainline' = mainline
      /\ gstate' = [gstate EXCEPT ![Top.unit] = rackState]
  BY <1>1, <1>3, GlobCarriesTheRack DEF SyncLineReturns
<1>5. Agreeing' = Agreeing \cup {Top.unit}
  BY <1>3, <1>4 DEF Agreeing, TypeOK
<1>6. \A i \in DOMAIN Out[Top.unit] : Out[Top.unit][i].to \in Agreeing
  <2>1. \A i \in DOMAIN Out[Top.unit] : i < Top.at
    BY <1>3, OutputsAreTyped DEF SyncLineReturns
  <2> QED
    BY <1>2, <1>3, <2>1 DEF ComingBack, FramesComeBack
<1>7. ClosedUnderOut(Agreeing')
  BY <1>2, <1>5, <1>6 DEF ComingBack, ClosedUnderOut
<1>8. ASSUME NEW j \in Frames', NEW i \in DOMAIN Out[stack'[j].unit],
             i < (IF j = 1 THEN stack'[j].at ELSE stack'[j].at - 1)
      PROVE  Out[stack'[j].unit][i].to \in Agreeing'
  <2>1. j + 1 \in Frames /\ j + 1 \in 2 .. Len(stack) /\ stack'[j] = stack[j + 1] /\ j + 1 # 1
    BY <1>3 DEF Frames
  <2>2. stack'[j] \in Frame /\ stack'[j].unit \in Units /\ stack'[j].at \in Nat
    <3>1. j \in DOMAIN stack'
      BY <1>3 DEF Frames
    <3>2. stack'[j] \in Frame
      BY <1>3, <3>1, ItemIsTyped
    <3> QED
      BY <3>2 DEF Frame
  <2>3. i \in Nat
    BY <2>2, OutputsAreTyped
  <2>4. CASE i < stack'[j].at - 1
    BY <1>2, <1>5, <2>1, <2>4 DEF ComingBack, FramesComeBack
  <2>5. CASE ~(i < stack'[j].at - 1)
    <3>1. j = 1 /\ i = stack[2].at - 1
      BY <1>8, <2>1, <2>2, <2>3, <2>5
    <3>2. stack[1].unit = Out[stack[2].unit][i].to
      BY <2>1, <3>1 DEF Calls, Path
    <3> QED
      BY <1>3, <1>5, <2>1, <3>1, <3>2
  <2> QED
    BY <2>4, <2>5
<1>9. ASSUME NEW i \in DOMAIN Mainlines,
             i < (IF stack' = <<>> THEN mainline' ELSE mainline' - 1)
      PROVE  Mainlines[i] \in Agreeing'
  <2>1. i \in Nat /\ mainline \in Nat
    BY MainlinesAreUnits DEF TypeOK
  <2>2. CASE i < mainline - 1
    BY <1>2, <1>3, <1>5, <2>2 DEF ComingBack, MainlinesComeBack
  <2>3. CASE ~(i < mainline - 1)
    <3>1. stack' = <<>> /\ i = mainline - 1
      BY <1>4, <1>9, <2>1, <2>3
    <3>2. Len(stack) = 1
      BY <1>3, <3>1
    <3> QED
      BY <1>3, <1>5, <3>1, <3>2 DEF Calls, Path
  <2> QED
    BY <2>2, <2>3
<1> QED
  BY <1>2, <1>7, <1>8, <1>9 DEF ComingBack, FramesComeBack, MainlinesComeBack

(* A unit that is entered goes on to its outputs, with none of them done.  *)
LEMMA EnteredInGlob ==
  ASSUME TypeOK, stack # <<>>, Top.at = 0, Continue(Top.profile)
  PROVE  /\ Frames' = Frames /\ stack' # <<>> /\ stack'[1].at = 1
         /\ Top = stack[1] /\ Top.unit \in Units /\ 1 \in Frames
         /\ \A j \in Frames : stack'[j].unit = stack[j].unit
         /\ \A j \in Frames : j # 1 => stack'[j] = stack[j]
         /\ \A i \in DOMAIN Out[Top.unit] : ~(i < 1)
<1> DEFINE f == [Top EXCEPT !.at = 1, !.profile = Top.profile]
<1>1. /\ Top = stack[1] /\ Top \in Frame /\ 1 \in Frames /\ Len(stack) \in Nat \ {0}
      /\ Top.unit \in Units /\ Top.profile \in Units \cup {Bogus, RackProfile}
  BY TopIsFirst DEF Frame
<1>2. f.at = 1 /\ f.unit = Top.unit
  BY <1>1 DEF Frame
<1>3. stack'[1] = f /\ Len(stack') = Len(stack) /\ \A j \in 2 .. Len(stack) : stack'[j] = stack[j]
  BY <1>1, ContinueIsTyped
<1> HIDE DEF f
<1>4. \A j \in Frames : j # 1 => stack'[j] = stack[j]
  BY <1>1, <1>3 DEF Frames
<1>5. \A i \in DOMAIN Out[Top.unit] : ~(i < 1)
  BY <1>1, OutputsAreTyped
<1> QED
  BY <1>1, <1>2, <1>3, <1>4, <1>5 DEF Frames

LEMMA UnitGlobInGlob ==
  ASSUME TypeOK, InGlob, UnitGlob
  PROVE  InGlob'
<1>1. /\ pass = "glob" /\ pass' = "glob" /\ stack # <<>> /\ Top.at = 0 /\ Continue(Top.profile)
      /\ UNCHANGED <<ustate, gstate, rackState, mainline>> /\ Top.unit \notin Dispatches
  BY DEF UnitGlob, Entered, profileVars, Dispatches
<1>2. /\ Frames' = Frames /\ stack' # <<>> /\ stack'[1].at = 1
      /\ Top = stack[1] /\ Top.unit \in Units /\ 1 \in Frames
      /\ \A j \in Frames : stack'[j].unit = stack[j].unit
      /\ \A j \in Frames : j # 1 => stack'[j] = stack[j]
      /\ \A i \in DOMAIN Out[Top.unit] : ~(i < 1)
  BY <1>1, EnteredInGlob
<1>3. Decided' = Decided /\ Uniform' = Uniform /\ Agreeing' = Agreeing
  BY <1>1 DEF Decided, Uniform, Agreeing
<1>4. CASE Decided
  <2>1. ComingBack
    BY <1>1, <1>4 DEF InGlob
  <2>2. FramesComeBack'
    BY <1>2, <1>3, <2>1 DEF ComingBack, FramesComeBack
  <2>3. MainlinesComeBack'
    BY <1>1, <1>2, <1>3, <2>1 DEF ComingBack, MainlinesComeBack
  <2> QED
    BY <1>3, <1>4, <2>1, <2>2, <2>3 DEF InGlob, ComingBack, ClosedUnderOut
<1>5. CASE ~Decided
  <2>1. Uniform /\ GoingDown
    BY <1>1, <1>5 DEF InGlob
  <2>2. GoingDown'
    BY <1>1, <1>2, <2>1 DEF GoingDown
  <2> QED
    BY <1>3, <1>5, <2>1, <2>2 DEF InGlob
<1> QED
  BY <1>4, <1>5

(* The dispatch is reached: if it changes the state of the rack, no unit   *)
(* agrees yet, and there is nothing behind the pass.                       *)
LEMMA DispatchGlobInGlob ==
  ASSUME TypeOK, InGlob, DispatchGlob
  PROVE  InGlob'
<1>1. /\ pass = "glob" /\ pass' = "glob" /\ stack # <<>> /\ Top.at = 0 /\ Continue(Top.profile)
      /\ UNCHANGED <<ustate, gstate, mainline>> /\ rackState' = ustate[Top.unit]
      /\ Top.unit \in {u \in Units : Kind[u] = "dispatch"}
  BY TopIsFirst DEF DispatchGlob, Entered, Frame
<1>2. /\ Frames' = Frames /\ stack' # <<>> /\ stack'[1].at = 1
      /\ Top = stack[1] /\ Top.unit \in Units /\ 1 \in Frames
      /\ \A j \in Frames : stack'[j].unit = stack[j].unit
      /\ \A j \in Frames : j # 1 => stack'[j] = stack[j]
      /\ \A i \in DOMAIN Out[Top.unit] : ~(i < 1)
  BY <1>1, EnteredInGlob
<1>3. Dispatches = {Top.unit}
  BY <1>1, OneDispatch DEF Dispatches
<1>4. Decided'
  BY <1>1, <1>3 DEF Decided
<1>5. CASE Decided
  <2>1. ComingBack /\ rackState' = rackState
    BY <1>1, <1>3, <1>5 DEF InGlob, Decided
  <2>2. Agreeing' = Agreeing
    BY <1>1, <2>1 DEF Agreeing
  <2>3. FramesComeBack'
    BY <1>2, <2>1, <2>2 DEF ComingBack, FramesComeBack
  <2>4. MainlinesComeBack'
    BY <1>1, <1>2, <2>1, <2>2 DEF ComingBack, MainlinesComeBack
  <2> QED
    BY <1>4, <2>1, <2>2, <2>3, <2>4 DEF InGlob, ComingBack, ClosedUnderOut
<1>6. CASE ~Decided
  <2>1. Uniform /\ GoingDown /\ rackState' # rackState
    BY <1>1, <1>3, <1>6 DEF InGlob, Decided
  <2>2. Agreeing' = {}
    BY <1>1, <2>1 DEF Agreeing, Uniform
  <2>3. ASSUME NEW j \in Frames', NEW i \in DOMAIN Out[stack'[j].unit]
        PROVE  ~(i < (IF j = 1 THEN stack'[j].at ELSE stack'[j].at - 1))
    <3>1. (IF j = 1 THEN stack'[j].at ELSE stack'[j].at - 1) = 1
      BY <1>2, <2>1 DEF GoingDown
    <3>2. stack'[j].unit \in Units
      <4>1. j \in DOMAIN stack /\ stack \in Seq(Frame)
        BY <1>2 DEF Frames, TypeOK
      <4>2. stack[j] \in Frame
        BY <4>1, ItemIsTyped
      <4> QED
        BY <1>2, <4>2 DEF Frame
    <3> QED
      BY <3>1, <3>2, OutputsAreTyped
  <2>4. FramesComeBack'
    BY <2>3 DEF FramesComeBack
  <2>5. MainlinesComeBack'
    BY <1>1, <1>2, <2>1, MainlinesAreUnits DEF MainlinesComeBack, GoingDown
  <2> QED
    BY <1>4, <2>2, <2>4, <2>5 DEF InGlob, ComingBack, ClosedUnderOut
<1> QED
  BY <1>5, <1>6

LEMMA NextInGlob == IInv /\ [Next]_vars => InGlob'
<1> SUFFICES ASSUME IInv, [Next]_vars PROVE InGlob'
  OBVIOUS
<1>0. TypeOK /\ Calls /\ BetweenGlobs /\ InGlob
  BY DEF IInv
<1>1. ASSUME NEW u \in Units, Request(u)
      PROVE  InGlob'
  BY <1>0, <1>1, OthersKeepInGlob DEF Request, profileVars
<1>2. ASSUME NEW u \in Units, NEW s \in State, Register(u, s)
      PROVE  InGlob'
  <2>1. u \notin Dispatches
    BY <1>2 DEF Register, Dispatches
  <2>2. \A d \in Dispatches : ustate'[d] = ustate[d]
    BY <1>0, <1>2, <2>1 DEF Register, TypeOK, Dispatches
  <2> QED
    BY <1>0, <1>2, <2>2, OthersKeepInGlob DEF Register, rackVars
<1>3. CASE UNCHANGED vars
  BY <1>0, <1>3, OthersKeepInGlob DEF vars, profileVars, rackVars
<1>4. CASE SyncBegins
  <2>1. stack = <<>> /\ (pass' = "glob" => Decided)
    BY <1>0, <1>4 DEF SyncBegins, Calls, BetweenGlobs
  <2> QED
    BY <1>0, <1>4, <2>1, BeginsInGlob DEF SyncBegins
<1>5. CASE UpstreamOver
  BY <1>0, <1>5, BeginsInGlob DEF UpstreamOver, PassOver
<1>6. CASE GlobOver
  BY <1>6 DEF GlobOver, InGlob
<1>7. CASE NextMainline \/ NextOutput \/ SyncLineReturns \/ UnitGlob \/ DispatchGlob
  BY <1>0, <1>7, NextMainlineInGlob, NextOutputInGlob, ReturnInGlob, UnitGlobInGlob,
     DispatchGlobInGlob
<1>8. CASE \/ MainlineUpstream \/ StepAsked \/ StepFollows \/ CombineOn \/ CombineOff
           \/ DispatchUpstream
  BY <1>8 DEF MainlineUpstream, StepAsked, StepFollows, CombineOn, CombineOff,
              DispatchUpstream, Entered, InGlob
<1> QED
  BY <1>1, <1>2, <1>3, <1>4, <1>5, <1>6, <1>7, <1>8 DEF Next, Rack

LEMMA InitIInv == Init => IInv
<1> SUFFICES ASSUME Init PROVE IInv
  OBVIOUS
<1>1. TypeOK
  BY InitTypeOK
<1>2. Calls
  BY DEF Init, Calls, Path, Frames
<1>3. Uniform /\ Decided
  BY DEF Init, Uniform, Decided, Dispatches
<1>4. BetweenGlobs /\ InGlob
  BY <1>3 DEF Init, BetweenGlobs, InGlob
<1> QED
  BY <1>1, <1>2, <1>4 DEF IInv

(* The inductive invariant holds in every reachable state. *)
THEOREM Invariance == Spec => []IInv
<1>1. IInv /\ [Next]_vars => IInv'
  BY NextTypeOK, NextCalls, NextBetweenGlobs, NextInGlob DEF IInv
<1> QED
  BY InitIInv, <1>1, PTL DEF Spec

(* Between two passes there is one state, whatever the units, the lines    *)
(* and the changes made during a pass: that of the dispatch, which the     *)
(* units copy when the calls return (unit.cpp lines 187-192).              *)
THEOREM RackHasOneState == Spec => []OneStateBetweenPasses
<1>1. IInv => OneStateBetweenPasses
  BY DEF IInv, BetweenGlobs, Uniform, Decided, OneStateBetweenPasses, GlobalStateIsUniform,
         DispatchDecides
<1> QED
  BY <1>1, Invariance, PTL

-----------------------------------------------------------------------------
(* In an upstream pass the calls stay on the lane of the mainline, the     *)
(* dispatch makes none, and what goes down are the bogus profile and those *)
(* of steps.                                                               *)
OnLane(c, d, lane) ==
  pass = "upstream" =>
    \A j \in Frames :
      /\ stack[j].unit \in Inner(c, d) => lane[stack[j].unit] = mainline - 1
      /\ stack[j].unit = d => stack[j].at = 0
      /\ stack[j].profile \in Units => Kind[stack[j].profile] = "step"

SomeInput == \E x \in Combines, l \in Line : inputs[x][l]

(* The combine is still to be called for the mainline the pass is at.      *)
Descending(c, d) ==
  stack # <<>> /\ ((Top.unit \in Inner(c, d) /\ Top.at <= 1) \/ (Top.unit = c /\ Top.at = 0))

(* The combine is still to be called for the first time. *)
NotMetYet(c, d) ==
  (stack = <<>> /\ mainline = 1) \/ (Descending(c, d) /\ mainline = 2)

(* The combine lets state s through to the dispatch. *)
Arriving(c, d, s) ==
  /\ stack # <<>>
  /\ Top.unit = d \/ (Top.unit = c /\ Top.at = 1)
  /\ StateOf(Top.profile) = s

(* An input is on that this pass does not come to any more. *)
LastingInput(c, d, lane) ==
  \E u \in Inner(c, d) :
    /\ Out[u][1].to = c /\ inputs[c][Out[u][1].line]
    /\ lane[u] <= mainline - 1
    /\ Descending(c, d) => lane[u] < mainline - 1

(* Whoever says active, the dispatch or the rack before the dispatch was   *)
(* told otherwise, has an input that is on.                                *)
ActiveHasInput(c, d, lane) ==
  steady =>
    /\ pass # "upstream" /\ synced /\ ustate[d] = "active" => SomeInput
    /\ pass = "upstream" /\ rackState = "inactive" =>
         (ustate[d] = "active" \/ Arriving(c, d, "active") => LastingInput(c, d, lane))
    /\ pass = "upstream" /\ rackState = "active" =>
         (synced \/ ~NotMetYet(c, d) =>
            SomeInput \/ ustate[d] = "inactive" \/ Arriving(c, d, "inactive"))

(* What the kinds of units say of where they are. *)
LEMMA KindsOnLanes ==
  ASSUME NEW c, NEW d, NEW lane, LanesMeet(c, d, lane)
  PROVE  /\ c # d
         /\ \A u \in Units : Kind[u] = "combine" <=> u = c
         /\ \A u \in Units : Kind[u] = "dispatch" <=> u = d
         /\ \A u \in Units : Kind[u] \in {"mainline", "step"} <=> u \in Inner(c, d)
         /\ \A i \in DOMAIN Mainlines : Mainlines[i] \in Inner(c, d)
<1>1. Combines = {c} /\ Dispatches = {d}
  BY DEF LanesMeet
<1>2. /\ \A u \in Units : Kind[u] = "combine" <=> u = c
      /\ \A u \in Units : Kind[u] = "dispatch" <=> u = d
  BY <1>1 DEF Combines, Dispatches
<1>3. c # d
  BY <1>2 DEF LanesMeet
<1>4. \A u \in Units : Kind[u] \in {"mainline", "step", "combine", "dispatch"}
  BY LineAssumption
<1>5. \A u \in Units : Kind[u] \in {"mainline", "step"} <=> u \in Inner(c, d)
  BY <1>2, <1>4 DEF Inner
<1>6. ASSUME NEW i \in DOMAIN Mainlines
      PROVE  Mainlines[i] \in Inner(c, d)
  <2>1. Mainlines[i] \in {u \in Units : Kind[u] = "mainline"}
    <3>1. Mainlines \in Seq({u \in Units : Kind[u] = "mainline"})
      BY LineAssumption
    <3> QED
      BY <3>1, ItemIsTyped
  <2> QED
    BY <1>5, <2>1
<1> QED
  BY <1>2, <1>3, <1>5, <1>6

(* A call that a pass makes, and the unit it leads to. *)
LEMMA OutputOnLane ==
  ASSUME NEW c, NEW d, NEW lane, LanesMeet(c, d, lane),
         TypeOK, OnLane(c, d, lane), pass = "upstream", NextOutput
  PROVE  /\ Top.at = 1 /\ Top.unit # d
         /\ Top.unit = c => Out[Top.unit][Top.at].to = d
         /\ Top.unit \in Inner(c, d) =>
              /\ Out[Top.unit][Top.at].to # d
              /\ Out[Top.unit][Top.at].to # c => lane[Out[Top.unit][Top.at].to] = lane[Top.unit]
<1>1. /\ Top = stack[1] /\ 1 \in Frames /\ Top.unit \in Units /\ Top.at \in Nat \ {0}
      /\ Top.at \in 1 .. Len(Out[Top.unit])
  BY OutputIsCalled, OutputsAreTyped DEF Frames
<1>2. Top.unit # d
  BY <1>1 DEF OnLane
<1>3. Len(Out[Top.unit]) = 1
  BY <1>1, <1>2 DEF LanesMeet, Inner
<1>4. Top.at = 1
  BY <1>1, <1>3
<1> QED
  BY <1>2, <1>4 DEF LanesMeet

LEMMA NextOnLane ==
  ASSUME NEW c, NEW d, NEW lane, LanesMeet(c, d, lane),
         IInv, OnLane(c, d, lane), [Next]_vars
  PROVE  OnLane(c, d, lane)'
<1>0. TypeOK /\ Calls
  BY DEF IInv
<1>1. ASSUME UNCHANGED stack, UNCHANGED <<mainline, pass>> \/ stack = <<>>
      PROVE  OnLane(c, d, lane)'
  BY <1>1 DEF OnLane, Frames
<1>2. ASSUME NEW u \in Units, Request(u) \/ \E s \in State : Register(u, s)
      PROVE  OnLane(c, d, lane)'
  BY <1>2, <1>1 DEF Request, Register, rackVars
<1>3. CASE SyncBegins \/ UpstreamOver \/ GlobOver \/ UNCHANGED vars
  BY <1>0, <1>3, <1>1 DEF SyncBegins, UpstreamOver, GlobOver, PassOver, Calls, vars, rackVars
<1>4. CASE pass = "glob" /\ pass' = pass
  BY <1>4 DEF OnLane
<1>5. CASE NextMainline /\ pass = "upstream"
  <2>1. /\ stack' = <<Call(Mainlines[mainline], 0, Bogus)>> /\ mainline' = mainline + 1
        /\ mainline \in DOMAIN Mainlines /\ mainline \in Nat
    BY <1>0, <1>5, MainlinesAreUnits DEF NextMainline, TypeOK
  <2>2. /\ Len(stack') = 1 /\ stack'[1].unit = Mainlines[mainline] /\ stack'[1].at = 0
        /\ stack'[1].profile = Bogus
    BY <2>1 DEF Call
  <2>3. lane[Mainlines[mainline]] = mainline' - 1 /\ Bogus \notin Units
    BY <2>1, LineAssumption DEF LanesMeet
  <2> QED
    BY <2>2, <2>3 DEF OnLane, Frames
<1>6. ASSUME stack # <<>>, UNCHANGED <<pass, mainline>>, Return
      PROVE  OnLane(c, d, lane)'
  <2>1. /\ Len(stack) \in Nat \ {0} /\ Len(stack') = Len(stack) - 1
        /\ \A j \in 1 .. Len(stack) - 1 : stack'[j] = stack[j + 1]
    BY <1>0, <1>6, ReturnIsTyped, TopIsFirst
  <2> QED
    BY <1>6, <2>1 DEF OnLane, Frames
<1>7. ASSUME stack # <<>>, UNCHANGED <<pass, mainline>>, pass = "upstream",
             NEW p \in Units \cup {Bogus, RackProfile}, Continue(p),
             p \in Units => Kind[p] = "step", Top.unit # d
      PROVE  OnLane(c, d, lane)'
  <2> DEFINE f == [Top EXCEPT !.at = 1, !.profile = p]
  <2>1. /\ Len(stack) \in Nat \ {0} /\ Top \in Frame /\ Top = stack[1]
    BY <1>0, <1>7, TopIsFirst
  <2>2. f.profile = p /\ f.unit = Top.unit
    BY <2>1 DEF Frame
  <2>3. /\ Len(stack') = Len(stack) /\ stack'[1] = f
        /\ \A j \in 2 .. Len(stack) : stack'[j] = stack[j]
    BY <1>0, <1>7, ContinueIsTyped
  <2> HIDE DEF f
  <2>4. ASSUME NEW j \in Frames'
        PROVE  /\ stack'[j].unit \in Inner(c, d) => lane[stack'[j].unit] = mainline' - 1
               /\ stack'[j].unit = d => stack'[j].at = 0
               /\ stack'[j].profile \in Units => Kind[stack'[j].profile] = "step"
    <3>1. j \in Frames
      BY <2>3 DEF Frames
    <3>2. CASE j = 1
      BY <1>7, <2>1, <2>2, <2>3, <3>1, <3>2 DEF OnLane
    <3>3. CASE j # 1
      <4>1. stack'[j] = stack[j]
        BY <2>1, <2>3, <3>1, <3>3 DEF Frames
      <4> QED
        BY <1>7, <3>1, <4>1 DEF OnLane
    <3> QED
      BY <3>2, <3>3
  <2> QED
    BY <2>4 DEF OnLane
<1>8. CASE NextOutput /\ pass = "upstream"
  <2>1. UNCHANGED <<pass, mainline>>
    BY <1>8 DEF NextOutput
  <2> DEFINE to == Out[Top.unit][Top.at].to
  <2>2. /\ Len(stack) \in Nat \ {0} /\ Top = stack[1] /\ Top.unit \in Units
        /\ Len(stack') = Len(stack) + 1
        /\ stack'[1].unit = to /\ stack'[1].at = 0 /\ to \in Units
        /\ stack'[1].profile = Top.profile /\ stack'[2].profile = Top.profile
        /\ stack'[2].unit = Top.unit
        /\ \A j \in 3 .. Len(stack) + 1 : stack'[j] = stack[j - 1]
    BY <1>0, <1>8, OutputIsCalled DEF Call
  <2>3. /\ Top.unit # d /\ (Top.unit = c => to = d)
        /\ Top.unit \in Inner(c, d) => to # d /\ (to # c => lane[to] = lane[Top.unit])
    BY <1>0, <1>8, OutputOnLane
  <2> HIDE DEF to
  <2>4. 1 \in Frames /\ (Top.unit \in Inner(c, d) => lane[Top.unit] = mainline - 1)
        /\ (Top.profile \in Units => Kind[Top.profile] = "step")
    BY <1>8, <2>2 DEF OnLane, Frames
  <2>5. ASSUME NEW j \in Frames'
        PROVE  /\ stack'[j].unit \in Inner(c, d) => lane[stack'[j].unit] = mainline' - 1
               /\ stack'[j].unit = d => stack'[j].at = 0
               /\ stack'[j].profile \in Units => Kind[stack'[j].profile] = "step"
    <3>1. CASE j = 1
      <4>1. to \in Inner(c, d) => Top.unit \in Inner(c, d)
        BY <2>2, <2>3 DEF Inner
      <4>2. to \in Inner(c, d) => to # c
        BY DEF Inner
      <4> QED
        BY <2>1, <2>2, <2>3, <2>4, <3>1, <4>1, <4>2
    <3>2. CASE j = 2
      BY <2>1, <2>2, <2>3, <2>4, <3>2
    <3>3. CASE j \notin {1, 2}
      <4>1. j - 1 \in Frames /\ stack'[j] = stack[j - 1]
        BY <2>2, <3>3 DEF Frames
      <4> QED
        BY <1>8, <2>1, <4>1 DEF OnLane
    <3> QED
      BY <3>1, <3>2, <3>3
  <2> QED
    BY <2>5 DEF OnLane
<1>9. CASE SyncLineReturns \/ DispatchUpstream
  BY <1>9, <1>6 DEF SyncLineReturns, DispatchUpstream, Entered
<1>10. ASSUME stack # <<>>
       PROVE  /\ Top.unit \in Units /\ Top.profile \in Units \cup {Bogus, RackProfile}
              /\ pass = "upstream" /\ Top.profile \in Units => Kind[Top.profile] = "step"
  BY <1>0, <1>10, TopIsFirst DEF Frame, OnLane
<1>11. CASE MainlineUpstream \/ StepAsked \/ StepFollows
  <2>1. /\ stack # <<>> /\ pass = "upstream" /\ UNCHANGED <<pass, mainline>>
        /\ Kind[Top.unit] \in {"mainline", "step"}
    BY <1>11 DEF MainlineUpstream, StepAsked, StepFollows, Entered
  <2>2. Top.unit # d
    BY <1>10, <2>1, KindsOnLanes DEF Inner
  <2>3. Continue(Top.profile) \/ (Continue(Top.unit) /\ Kind[Top.unit] = "step")
    BY <1>11 DEF MainlineUpstream, StepAsked, StepFollows, Entered
  <2> QED
    BY <1>7, <1>10, <2>1, <2>2, <2>3
<1>12. CASE CombineOn \/ CombineOff
  <2>1. /\ stack # <<>> /\ pass = "upstream" /\ UNCHANGED <<pass, mainline>>
        /\ Kind[Top.unit] = "combine" /\ (Return \/ Continue(Top.profile))
    BY <1>12 DEF CombineOn, CombineOff, Entered
  <2>2. Top.unit # d
    BY <1>10, <2>1, KindsOnLanes
  <2> QED
    BY <1>6, <1>7, <1>10, <2>1, <2>2
<1>13. CASE DispatchGlob \/ UnitGlob
  BY <1>13, <1>4 DEF DispatchGlob, UnitGlob, Entered
<1>14. CASE NextMainline \/ NextOutput
  <2>1. pass \in {"upstream", "glob"} /\ pass' = pass
    BY <1>0, <1>14 DEF NextMainline, NextOutput, TypeOK, Calls
  <2> QED
    BY <1>4, <1>5, <1>8, <1>14, <2>1
<1> QED
  BY <1>2, <1>3, <1>9, <1>11, <1>12, <1>13, <1>14 DEF Next, Rack

(* A call that is not of a mainline was made to the one output of a unit.  *)
LEMMA CallerOfTop ==
  ASSUME NEW c, NEW d, NEW lane, LanesMeet(c, d, lane),
         TypeOK, Calls, OnLane(c, d, lane), pass = "upstream", stack # <<>>, Len(stack) # 1
  PROVE  \E v \in Units :
           /\ v # d /\ Out[v][1].to = Top.unit /\ Out[v][1].line = Top.line
           /\ v \in Inner(c, d) => lane[v] = mainline - 1
<1>1. Len(stack) \in Nat \ {0} /\ Top = stack[1] /\ stack \in Seq(Frame)
  BY TopIsFirst DEF TypeOK
<1>2. 2 \in 2 .. Len(stack) /\ 2 \in Frames /\ 2 \in DOMAIN stack
  <2> DEFINE n == Len(stack)
  <2>0. n \in Nat \ {0} /\ n # 1
    BY <1>1
  <2>1. Len(stack) >= 2
    <3> HIDE DEF n
    <3>1. n >= 2
      BY <2>0
    <3> QED
      BY <3>1 DEF n
  <2>2. DOMAIN stack = 1 .. Len(stack)
    BY <1>1
  <2> QED
    BY <1>1, <2>1, <2>2 DEF Frames
<1> DEFINE v == stack[2].unit
<1>3. v \in Units /\ stack[2].at \in Nat
  <2>1. stack[2] \in Frame
    BY <1>1, <1>2, ItemIsTyped
  <2> QED
    BY <2>1 DEF Frame
<1>4. /\ stack[2].at - 1 \in DOMAIN Out[v]
      /\ Top.unit = Out[v][stack[2].at - 1].to /\ Top.line = Out[v][stack[2].at - 1].line
  <2>1. /\ stack[2].at - 1 \in DOMAIN Out[stack[2].unit]
        /\ stack[2 - 1].unit = Out[stack[2].unit][stack[2].at - 1].to
        /\ stack[2 - 1].line = Out[stack[2].unit][stack[2].at - 1].line
    BY <1>2 DEF Calls, Path
  <2>2. 2 - 1 = 1
    OBVIOUS
  <2> QED
    BY <1>1, <2>1, <2>2
<1>5. DOMAIN Out[v] = 1 .. Len(Out[v]) /\ Len(Out[v]) \in Nat
  BY <1>3, OutputsAreTyped
<1>6. v # d
  BY <1>2, <1>3, <1>4, <1>5 DEF OnLane
<1>7. Len(Out[v]) = 1 /\ stack[2].at - 1 = 1
  <2>1. Len(Out[v]) = 1
    BY <1>3, <1>6 DEF LanesMeet, Inner
  <2> QED
    BY <1>3, <1>4, <1>5, <2>1
<1>8. v \in Inner(c, d) => lane[v] = mainline - 1
  BY <1>2 DEF OnLane
<1> QED
  BY <1>3, <1>4, <1>6, <1>7, <1>8

(* The combine is called by a unit of the lane of the mainline. *)
LEMMA CallerOnLane ==
  ASSUME NEW c, NEW d, NEW lane, LanesMeet(c, d, lane),
         TypeOK, Calls, OnLane(c, d, lane), pass = "upstream", stack # <<>>, Top.unit = c
  PROVE  \E v \in Inner(c, d) :
           Out[v][1].to = c /\ Out[v][1].line = Top.line /\ lane[v] = mainline - 1
<1>1. Len(stack) # 1
  <2>1. mainline - 1 \in DOMAIN Mainlines /\ stack[Len(stack)].unit = Mainlines[mainline - 1]
    BY DEF Calls, Path
  <2>2. Mainlines[mainline - 1] # c
    BY <2>1, KindsOnLanes DEF Inner
  <2>3. Top = stack[1]
    BY TopIsFirst
  <2> QED
    BY <2>1, <2>2, <2>3
<1>2. PICK v \in Units :
        /\ v # d /\ Out[v][1].to = Top.unit /\ Out[v][1].line = Top.line
        /\ v \in Inner(c, d) => lane[v] = mainline - 1
  BY <1>1, CallerOfTop
<1>3. v # c
  <2>1. c # d
    BY KindsOnLanes
  <2>2. Out[c][1].to = d
    BY DEF LanesMeet
  <2> QED
    BY <1>2, <2>1, <2>2
<1>4. v \in Inner(c, d)
  BY <1>2, <1>3 DEF Inner
<1> QED
  BY <1>2, <1>4

(* A call returns to one that has called its first output. *)
LEMMA ReturnsToCaller ==
  ASSUME NEW c, NEW d, NEW lane, LanesMeet(c, d, lane),
         TypeOK, Calls, OnLane(c, d, lane), pass = "upstream", stack # <<>>, Return,
         mainline' = mainline
  PROVE  /\ ~Descending(c, d)' /\ ~NotMetYet(c, d)'
         /\ \A s : ~Arriving(c, d, s)'
<1>1. /\ stack' \in Seq(Frame) /\ Len(stack') = Len(stack) - 1 /\ Len(stack) \in Nat \ {0}
      /\ \A j \in 1 .. Len(stack) - 1 : stack'[j] = stack[j + 1]
      /\ stack \in Seq(Frame)
  BY ReturnIsTyped, TopIsFirst DEF TypeOK
<1>2. mainline' # 1
  BY MainlinesAreUnits DEF Calls, Path, TypeOK
<1>3. ASSUME stack' # <<>>
      PROVE  Top' = stack[2] /\ stack[2].unit # d /\ stack[2].at \in Nat /\ stack[2].at >= 2
  <2>1. Len(stack) >= 2
    BY <1>1, <1>3
  <2>2. Top' = stack'[1] /\ stack'[1] = stack[2]
    BY <1>1, <1>3, <2>1 DEF Top
  <2>3. 2 \in 2 .. Len(stack) /\ 2 \in Frames /\ 2 \in DOMAIN stack
    BY <1>1, <2>1 DEF Frames
  <2>4. stack[2].unit \in Units /\ stack[2].at \in Nat
    <3>1. stack[2] \in Frame
      BY <1>1, <2>3, ItemIsTyped
    <3> QED
      BY <3>1 DEF Frame
  <2>5. stack[2].at - 1 \in DOMAIN Out[stack[2].unit]
    BY <2>3 DEF Calls, Path
  <2>6. stack[2].at >= 2
    BY <2>4, <2>5, OutputsAreTyped
  <2>7. stack[2].unit # d
    BY <2>3, <2>6 DEF OnLane
  <2> QED
    BY <2>2, <2>4, <2>6, <2>7
<1>4. ~Descending(c, d)'
  BY <1>3 DEF Descending
<1>5. \A s : ~Arriving(c, d, s)'
  BY <1>3 DEF Arriving
<1> QED
  BY <1>2, <1>4, <1>5 DEF NotMetYet

(* Steps that are not about the combine or the dispatch. *)
LEMMA Unconcerned ==
  ASSUME NEW c, NEW d, NEW lane, ActiveHasInput(c, d, lane),
         UNCHANGED <<inputs, rackState, pass, mainline, synced>>, steady' => steady,
         ustate'[d] = ustate[d],
         Descending(c, d)' <=> Descending(c, d),
         NotMetYet(c, d)' <=> NotMetYet(c, d),
         steady' => \A s : Arriving(c, d, s)' <=> Arriving(c, d, s)
  PROVE  ActiveHasInput(c, d, lane)'
<1>1. LastingInput(c, d, lane)' <=> LastingInput(c, d, lane)
  BY DEF LastingInput
<1>2. SomeInput' <=> SomeInput
  BY DEF SomeInput
<1> QED
  BY <1>1, <1>2 DEF ActiveHasInput

(* Steps outside of the upstream passes. *)
LEMMA Elsewhere ==
  ASSUME NEW c, NEW d, NEW lane, ActiveHasInput(c, d, lane),
         pass # "upstream", pass' # "upstream", UNCHANGED <<inputs, synced>>,
         steady' => steady, ustate'[d] = ustate[d]
  PROVE  ActiveHasInput(c, d, lane)'
BY DEF ActiveHasInput, SomeInput

LEMMA LastingIsSome ==
  ASSUME NEW c, NEW d, NEW lane, LanesMeet(c, d, lane), LastingInput(c, d, lane)
  PROVE  SomeInput
<1>1. PICK u \in Inner(c, d) : Out[u][1].to = c /\ inputs[c][Out[u][1].line]
  BY DEF LastingInput
<1>2. Len(Out[u]) = 1 /\ u \in Units
  BY DEF LanesMeet, Inner
<1>3. Out[u][1].line \in Line
  BY <1>2, OutputsAreTyped
<1> QED
  BY <1>1, <1>3 DEF LanesMeet, SomeInput

(* What the kinds and types say in a rack like this. *)
LEMMA RackKnows ==
  ASSUME NEW c, NEW d, NEW lane, LanesMeet(c, d, lane), IInv
  PROVE  /\ c # d /\ c \in Units /\ d \in Units /\ c \in Combines
         /\ \A u \in Units : Kind[u] = "combine" <=> u = c
         /\ \A u \in Units : Kind[u] = "dispatch" <=> u = d
         /\ \A u \in Units : Kind[u] \in {"mainline", "step"} <=> u \in Inner(c, d)
         /\ ustate \in [Units -> State] /\ rackState \in {"inactive", "active"}
         /\ ustate[d] \in {"inactive", "active"}
         /\ pass = "upstream" => gstate[c] = rackState /\ gstate[d] = rackState
         /\ pass = "none" => ustate[d] = rackState
<1>1. TypeOK /\ BetweenGlobs
  BY DEF IInv
<1>2. c # d /\ c \in Units /\ d \in Units /\ c \in Combines /\ d \in Dispatches
  BY KindsOnLanes DEF LanesMeet
<1>3. ustate \in [Units -> State] /\ rackState \in State /\ ustate[d] \in State
  BY <1>1, <1>2 DEF TypeOK
<1>4. /\ pass = "upstream" => gstate[c] = rackState /\ gstate[d] = rackState
      /\ pass = "none" => ustate[d] = rackState
  BY <1>1, <1>2 DEF BetweenGlobs, Uniform, Decided
<1> QED
  BY <1>2, <1>3, <1>4, KindsOnLanes DEF State

LEMMA AtTheTop ==
  ASSUME NEW c, NEW d, NEW lane, LanesMeet(c, d, lane), IInv, OnLane(c, d, lane), stack # <<>>
  PROVE  /\ Top = stack[1] /\ Top.unit \in Units /\ Top.line \in Line
         /\ Top.profile \in Units \cup {Bogus, RackProfile} /\ Top.at \in Nat
         /\ StateOf(Top.profile) \in {"inactive", "active"}
         /\ pass = "upstream" /\ Top.profile \in Units => Kind[Top.profile] = "step"
         /\ pass = "upstream" /\ Top.unit = d => Top.at = 0
         /\ mainline # 1 /\ pass # "none"
<1>0. TypeOK /\ Calls
  BY DEF IInv
<1>1. Top \in Frame /\ Top = stack[1] /\ 1 \in Frames
  BY <1>0, TopIsFirst
<1>2. /\ Top.unit \in Units /\ Top.line \in Line
      /\ Top.profile \in Units \cup {Bogus, RackProfile} /\ Top.at \in Nat
  BY <1>1 DEF Frame
<1>3. mainline # 1 /\ pass # "none"
  BY <1>0, MainlinesAreUnits DEF Calls, Path, TypeOK
<1>4. StateOf(Top.profile) \in {"inactive", "active"}
  BY <1>0, <1>2, StateOfIsState DEF State
<1> QED
  BY <1>1, <1>2, <1>3, <1>4 DEF OnLane

(* The steps of an upstream pass that are not about the combine or the     *)
(* dispatch.                                                               *)
Quiet(c, d) ==
  /\ UNCHANGED <<inputs, rackState, pass, mainline, synced, steady>> /\ ustate'[d] = ustate[d]
  /\ Descending(c, d)' <=> Descending(c, d)
  /\ NotMetYet(c, d)' <=> NotMetYet(c, d)
  /\ \A s : Arriving(c, d, s)' <=> Arriving(c, d, s)

LEMMA NextOutputIsQuiet ==
  ASSUME NEW c, NEW d, NEW lane, LanesMeet(c, d, lane), IInv, OnLane(c, d, lane),
         pass = "upstream", NextOutput
  PROVE  /\ Quiet(c, d)
         /\ Descending(c, d) => Top.unit \in Inner(c, d)
         /\ Top.at = 1 /\ Top'.at = 0 /\ Top'.unit = Out[Top.unit][1].to
<1>0. TypeOK /\ c # d
  BY RackKnows DEF IInv
<1>1. UNCHANGED <<inputs, rackState, pass, mainline, synced, steady, ustate, bogus>>
  BY DEF NextOutput, profileVars, askVars
<1> DEFINE to == Out[Top.unit][Top.at].to
<1>2. /\ stack # <<>> /\ Top = stack[1] /\ Top.unit \in Units /\ to \in Units
      /\ Len(stack) \in Nat /\ stack' \in Seq(Frame) /\ Len(stack') = Len(stack) + 1
      /\ stack'[1].unit = to /\ stack'[1].at = 0 /\ stack'[1].profile = Top.profile
  BY <1>0, OutputIsCalled DEF Call
<1>3. /\ Top.at = 1 /\ Top.unit # d
      /\ Top.unit = c => to = d
      /\ Top.unit \in Inner(c, d) => to # d
  BY <1>0, OutputOnLane
<1> HIDE DEF to
<1>4. stack' # <<>> /\ Top' = stack'[1]
  BY <1>2 DEF Top
<1>5. StateOf(Top.profile)' = StateOf(Top.profile)
  BY <1>1, <1>2, <1>4 DEF StateOf
<1>6. Descending(c, d)' <=> Descending(c, d)
  BY <1>0, <1>2, <1>3, <1>4 DEF Descending, Inner
<1>7. NotMetYet(c, d)' <=> NotMetYet(c, d)
  BY <1>1, <1>2, <1>4, <1>6 DEF NotMetYet
<1>8. \A s : Arriving(c, d, s)' <=> Arriving(c, d, s)
  BY <1>0, <1>2, <1>3, <1>4, <1>5 DEF Arriving, Inner
<1>9. Descending(c, d) => Top.unit \in Inner(c, d)
  BY <1>3 DEF Descending
<1>10. to = Out[Top.unit][1].to
  BY <1>3 DEF to
<1> QED
  BY <1>1, <1>2, <1>3, <1>4, <1>6, <1>7, <1>8, <1>9, <1>10 DEF Quiet

LEMMA ReturnIsQuiet ==
  ASSUME NEW c, NEW d, NEW lane, LanesMeet(c, d, lane), IInv, OnLane(c, d, lane),
         pass = "upstream", SyncLineReturns
  PROVE  Quiet(c, d) /\ ~Descending(c, d)
<1>0. TypeOK /\ Calls
  BY DEF IInv
<1>1. /\ UNCHANGED <<inputs, rackState, pass, mainline, synced, steady, ustate>>
      /\ stack # <<>> /\ Return /\ Top.at > Len(Out[Top.unit])
  BY DEF SyncLineReturns, askVars
<1>2. ~Descending(c, d)' /\ ~NotMetYet(c, d)' /\ \A s : ~Arriving(c, d, s)'
  BY <1>0, <1>1, ReturnsToCaller
<1>3. Top.unit # d /\ Top.at >= 2 /\ Top.at \in Nat
  <2>0. /\ Top.unit \in Units /\ Top.at \in Nat /\ (Top.unit = d => Top.at = 0)
    BY <1>1, AtTheTop
  <2>1. Len(Out[Top.unit]) \in Nat
    BY <2>0, OutputsAreTyped
  <2>2. Top.unit # d
    BY <1>1, <2>0, <2>1
  <2>3. Len(Out[Top.unit]) = 1
    BY <2>0, <2>2 DEF LanesMeet, Inner
  <2> QED
    BY <1>1, <2>0, <2>2, <2>3
<1>4. ~Descending(c, d) /\ ~NotMetYet(c, d) /\ \A s : ~Arriving(c, d, s)
  BY <1>1, <1>3 DEF Descending, NotMetYet, Arriving
<1> QED
  BY <1>1, <1>2, <1>4 DEF Quiet

LEMMA ContinueIsQuiet ==
  ASSUME NEW c, NEW d, NEW lane, LanesMeet(c, d, lane), IInv, OnLane(c, d, lane),
         MainlineUpstream \/ StepAsked \/ StepFollows
  PROVE  /\ Quiet(c, d) /\ pass = "upstream" /\ Descending(c, d)
         /\ stack # <<>> /\ Top.unit \in Inner(c, d) /\ Top'.unit = Top.unit /\ Top'.at = 1
<1>0. TypeOK /\ d \in Units /\ ustate \in [Units -> State]
  BY RackKnows DEF IInv
<1>1. /\ stack # <<>> /\ pass = "upstream" /\ Top.at = 0 /\ Kind[Top.unit] \in {"mainline", "step"}
      /\ UNCHANGED <<inputs, rackState, pass, mainline, synced, steady>>
      /\ \E p \in {Top.profile, Top.unit} : Continue(p)
      /\ ustate' = ustate \/ ustate' = [ustate EXCEPT ![Top.unit] = StateOf(Top.profile)]
  BY DEF MainlineUpstream, StepAsked, StepFollows, Entered, askVars, profileVars
<1>2. Top.unit \in Inner(c, d)
  BY <1>1, RackKnows, AtTheTop
<1>3. ustate'[d] = ustate[d]
  <2>1. Top.unit # d
    BY <1>2 DEF Inner
  <2> QED
    BY <1>0, <1>1, <2>1
<1>4. stack' # <<>> /\ Top'.unit = Top.unit /\ Top'.at = 1
  <2>1. PICK p \in Units \cup {Bogus, RackProfile} : Continue(p)
    BY <1>1, AtTheTop
  <2>2. stack'[1] = [Top EXCEPT !.at = 1, !.profile = p] /\ Len(stack') = Len(stack)
        /\ stack' \in Seq(Frame) /\ Len(stack) \in Nat \ {0} /\ Top \in Frame
    BY <1>0, <1>1, <2>1, ContinueIsTyped, TopIsFirst
  <2>3. stack' # <<>> /\ Top' = stack'[1]
    BY <2>2 DEF Top
  <2> QED
    BY <2>2, <2>3 DEF Frame
<1>5. Descending(c, d)' /\ Descending(c, d)
  BY <1>1, <1>2, <1>4 DEF Descending
<1>6. NotMetYet(c, d)' <=> NotMetYet(c, d)
  BY <1>1, <1>4, <1>5 DEF NotMetYet
<1>7. \A s : ~Arriving(c, d, s)' /\ ~Arriving(c, d, s)
  BY <1>2, <1>4 DEF Arriving, Inner
<1> QED
  BY <1>1, <1>2, <1>3, <1>4, <1>5, <1>6, <1>7 DEF Quiet

(* The pass begins with the line of a mainline. *)
LEMMA LineBegins ==
  ASSUME NEW c, NEW d, NEW lane, LanesMeet(c, d, lane), IInv, OnLane(c, d, lane),
         pass = "upstream", NextMainline
  PROVE  /\ stack = <<>> /\ mainline \in DOMAIN Mainlines /\ mainline \in Nat
         /\ mainline' = mainline + 1 /\ pass' = "upstream"
         /\ UNCHANGED <<ustate, rackState, inputs, upstream, flags, askVars, synced>>
         /\ Len(stack') = 1 /\ stack'[1] = Call(Mainlines[mainline], 0, Bogus)
         /\ Top'.unit = Mainlines[mainline] /\ Top'.at = 0
         /\ Descending(c, d)' /\ ~Descending(c, d)
         /\ \A s : ~Arriving(c, d, s)' /\ ~Arriving(c, d, s)
         /\ NotMetYet(c, d)' <=> NotMetYet(c, d)
<1>1. /\ stack = <<>> /\ mainline \in DOMAIN Mainlines /\ mainline \in Nat
      /\ mainline' = mainline + 1 /\ pass' = "upstream"
      /\ stack' = <<Call(Mainlines[mainline], 0, Bogus)>>
      /\ UNCHANGED <<ustate, rackState, inputs, upstream, flags, askVars, synced>>
  BY MainlinesAreUnits DEF NextMainline, IInv, TypeOK
<1>2. /\ stack' # <<>> /\ Top'.unit = Mainlines[mainline] /\ Top'.at = 0
      /\ Mainlines[mainline] \in Inner(c, d)
  BY <1>1, KindsOnLanes DEF Call, Top
<1>3. Descending(c, d)' /\ \A s : ~Arriving(c, d, s)'
  BY <1>2 DEF Descending, Arriving, Inner
<1>4. ~Descending(c, d) /\ \A s : ~Arriving(c, d, s)
  BY <1>1 DEF Descending, Arriving
<1>5. NotMetYet(c, d)' <=> NotMetYet(c, d)
  BY <1>1, <1>2, <1>3 DEF NotMetYet, Descending
<1> QED
  BY <1>1, <1>2, <1>3, <1>4, <1>5

(* It is over when it has been at every mainline, and there is one. *)
LEMMA PassEnds ==
  ASSUME NEW c, NEW d, NEW lane, LanesMeet(c, d, lane), IInv, UpstreamOver
  PROVE  /\ pass = "upstream" /\ pass' # "upstream" /\ stack = <<>> /\ stack' = <<>>
         /\ mainline > Len(Mainlines) /\ mainline \in Nat
         /\ UNCHANGED <<ustate, rackState, inputs, upstream, steady, alone, calm, changing>>
         /\ ~Descending(c, d) /\ ~NotMetYet(c, d) /\ \A s : ~Arriving(c, d, s)
<1>1. /\ pass = "upstream" /\ pass' # "upstream" /\ stack = <<>> /\ stack' = <<>>
      /\ mainline > Len(Mainlines) /\ mainline \in Nat
      /\ UNCHANGED <<ustate, rackState, inputs, upstream, steady, alone, calm, changing>>
  BY MainlinesAreUnits DEF UpstreamOver, PassOver, profileVars, IInv, TypeOK
<1>2. Mainlines # <<>>
  <2>1. CASE Mainlines = <<>>
    <3>1. ClosedUnderOut({})
      BY DEF ClosedUnderOut
    <3>2. {} = Units
      BY <2>1, <3>1, WiringAssumption
    <3> QED
      BY <3>2, RackKnows
  <2> QED
    BY <2>1
<1>3. mainline # 1
  <2>1. Len(Mainlines) \in Nat /\ Len(Mainlines) # 0
    BY <1>2, LineAssumption
  <2> QED
    BY <1>1, <2>1
<1> QED
  BY <1>1, <1>3 DEF NotMetYet, Arriving, Descending

(* The dispatch hears of a state. *)
LEMMA DispatchIsTold ==
  ASSUME NEW c, NEW d, NEW lane, LanesMeet(c, d, lane), IInv, OnLane(c, d, lane),
         DispatchUpstream
  PROVE  /\ pass = "upstream" /\ stack # <<>>
         /\ UNCHANGED <<inputs, rackState, pass, mainline, synced, steady>>
         /\ \A u \in Units : u # d => ustate'[u] = ustate[u]
         /\ ustate'[d] = IF StateOf(Top.profile) # rackState THEN StateOf(Top.profile) ELSE ustate[d]
         /\ ~Descending(c, d)' /\ ~NotMetYet(c, d)' /\ \A s : ~Arriving(c, d, s)'
         /\ ~Descending(c, d) /\ ~NotMetYet(c, d)
         /\ \A s : Arriving(c, d, s) <=> StateOf(Top.profile) = s
<1>0. TypeOK /\ Calls /\ c # d /\ d \in Units /\ ustate \in [Units -> State]
  BY RackKnows DEF IInv
<1>1. /\ stack # <<>> /\ pass = "upstream" /\ Top.at = 0 /\ Kind[Top.unit] = "dispatch"
      /\ UNCHANGED <<inputs, rackState, pass, mainline, synced, steady>> /\ Return
  BY DEF DispatchUpstream, Entered, askVars
<1>2. Top.unit = d /\ mainline # 1
  BY <1>1, RackKnows, AtTheTop
<1>3. /\ ustate'[d] = IF StateOf(Top.profile) # rackState THEN StateOf(Top.profile) ELSE ustate[d]
      /\ \A u \in Units : u # d => ustate'[u] = ustate[u]
  <2>1. gstate[Top.unit] = rackState
    BY <1>1, <1>2, RackKnows
  <2>2. CASE StateOf(Top.profile) # rackState
    <3>1. ustate' = [ustate EXCEPT ![Top.unit] = StateOf(Top.profile)]
      BY <2>1, <2>2 DEF DispatchUpstream
    <3> QED
      BY <1>0, <1>2, <2>2, <3>1
  <2>3. CASE StateOf(Top.profile) = rackState
    BY <2>1, <2>3 DEF DispatchUpstream
  <2> QED
    BY <2>2, <2>3
<1>4. ~Descending(c, d)' /\ ~NotMetYet(c, d)' /\ \A s : ~Arriving(c, d, s)'
  BY <1>0, <1>1, ReturnsToCaller
<1>5. /\ ~Descending(c, d) /\ ~NotMetYet(c, d)
      /\ \A s : Arriving(c, d, s) <=> StateOf(Top.profile) = s
  BY <1>0, <1>1, <1>2 DEF Descending, NotMetYet, Arriving, Inner
<1> QED
  BY <1>1, <1>3, <1>4, <1>5

(* The combine is called with the state of a line: it switches its input,  *)
(* and lets the state through if the rack is not of this state and no      *)
(* other input keeps it in its own.                                        *)
LEMMA CombineIsCalled ==
  ASSUME NEW c, NEW d, NEW lane, LanesMeet(c, d, lane), IInv, OnLane(c, d, lane),
         CombineOn \/ CombineOff
  PROVE  LET s == StateOf(Top.profile)
             through == s # rackState /\ (s = "active" \/ ~SomeInput')
         IN
         /\ pass = "upstream" /\ stack # <<>> /\ Top.unit = c /\ Top.line \in Line
         /\ s = (IF CombineOn THEN "active" ELSE "inactive")
         /\ UNCHANGED <<rackState, pass, mainline, synced, steady, bogus>>
         /\ \A u \in Units : u # c => ustate'[u] = ustate[u]
         /\ \A l \in Line : inputs'[c][l] <=> IF l = Top.line THEN s = "active" ELSE inputs[c][l]
         /\ Descending(c, d) /\ \A r : ~Arriving(c, d, r)
         /\ ~Descending(c, d)' /\ ~NotMetYet(c, d)'
         /\ \A r : Arriving(c, d, r)' <=> through /\ r = s
<1> DEFINE s == StateOf(Top.profile)
<1>0. /\ TypeOK /\ Calls /\ c # d /\ c \in Units /\ d \in Units /\ ustate \in [Units -> State]
      /\ rackState \in {"inactive", "active"}
      /\ Combines = {c}
  <2>1. TypeOK /\ Calls
    BY DEF IInv
  <2>2. Combines = {c}
    BY DEF LanesMeet
  <2> QED
    BY <2>1, <2>2, RackKnows
<1>1. /\ stack # <<>> /\ pass = "upstream" /\ Top.at = 0 /\ Kind[Top.unit] = "combine"
      /\ UNCHANGED <<rackState, pass, mainline, synced, steady, bogus>>
  BY DEF CombineOn, CombineOff, Entered, askVars
<1>2. /\ Top.unit = c /\ Top.line \in Line /\ s \in {"inactive", "active"} /\ mainline # 1
      /\ Top.profile \in Units \cup {Bogus, RackProfile}
      /\ Top.profile \in Units => Top.profile # c
      /\ gstate[c] = rackState
  BY <1>1, RackKnows, AtTheTop
<1>3. Descending(c, d) /\ \A r : ~Arriving(c, d, r)
  BY <1>0, <1>1, <1>2 DEF Descending, Arriving
<1>4. \A u \in Units : u # c => ustate'[u] = ustate[u]
  BY <1>0, <1>2 DEF CombineOn, CombineOff
<1>5. inputs[c] \in [Line -> BOOLEAN] /\ c \in DOMAIN inputs
  BY <1>0 DEF TypeOK
<1>6. s = (IF CombineOn THEN "active" ELSE "inactive")
  BY <1>2 DEF CombineOn, CombineOff
<1>7. \A l \in Line : inputs'[c][l] <=> IF l = Top.line THEN s = "active" ELSE inputs[c][l]
  BY <1>2, <1>5 DEF CombineOn, CombineOff
<1>8. SomeInput' <=> \E l \in Line : inputs'[c][l]
  BY <1>0 DEF SomeInput
<1> DEFINE through == s # rackState /\ (s = "active" \/ ~SomeInput')
<1>9. IF through THEN Continue(Top.profile) ELSE Return
  <2>1. CASE CombineOn
    BY <1>0, <1>2, <1>6, <2>1 DEF CombineOn
  <2>2. CASE CombineOff
    BY <1>0, <1>2, <1>8, <2>2 DEF CombineOff
  <2> QED
    BY <2>1, <2>2
<1> HIDE DEF through
<1>10. CASE ~through
  <2>1. ~Descending(c, d)' /\ ~NotMetYet(c, d)' /\ \A r : ~Arriving(c, d, r)'
    BY <1>0, <1>1, <1>9, <1>10, ReturnsToCaller
  <2> QED
    BY <1>1, <1>2, <1>3, <1>4, <1>6, <1>7, <1>10, <2>1 DEF through
<1>11. CASE through
  <2>1. /\ stack'[1] = [Top EXCEPT !.at = 1, !.profile = Top.profile]
        /\ Len(stack') = Len(stack)
        /\ stack' \in Seq(Frame) /\ Len(stack) \in Nat \ {0} /\ Top \in Frame
    BY <1>0, <1>1, <1>2, <1>9, <1>11, ContinueIsTyped, TopIsFirst
  <2>2. stack' # <<>> /\ Top' = stack'[1]
    BY <2>1 DEF Top
  <2>3. Top'.unit = c /\ Top'.at = 1 /\ Top'.profile = Top.profile
    BY <1>2, <2>1, <2>2 DEF Frame
  <2>4. StateOf(Top.profile)' = s
    BY <1>1, <1>2, <1>4, <2>3 DEF StateOf
  <2>5. /\ ~Descending(c, d)' /\ ~NotMetYet(c, d)'
        /\ \A r : Arriving(c, d, r)' <=> r = s
    BY <1>0, <1>1, <1>2, <2>2, <2>3, <2>4 DEF Descending, NotMetYet, Arriving, Inner
  <2> QED
    BY <1>1, <1>2, <1>3, <1>4, <1>6, <1>7, <1>11, <2>5 DEF through
<1> QED
  BY <1>10, <1>11

LEMMA NextActiveHasInput ==
  ASSUME NEW c, NEW d, NEW lane, LanesMeet(c, d, lane),
         IInv, OnLane(c, d, lane), ActiveHasInput(c, d, lane), [Next]_vars
  PROVE  ActiveHasInput(c, d, lane)'
<1>0. TypeOK /\ Calls
  BY DEF IInv
<1>a. /\ c # d /\ d \in Units /\ Combines = {c}
      /\ ustate \in [Units -> State] /\ ustate[d] \in {"inactive", "active"}
      /\ rackState \in {"inactive", "active"}
      /\ pass = "none" => ustate[d] = rackState
  BY RackKnows DEF LanesMeet
<1>1. ASSUME NEW u \in Units, Request(u)
      PROVE  ActiveHasInput(c, d, lane)'
  <2>1. UNCHANGED <<stack, mainline, bogus, rackState, ustate>>
    BY <1>1 DEF Request, profileVars
  <2> QED
    BY <1>1, <2>1, Unconcerned DEF Request, Descending, NotMetYet, Arriving, StateOf, Top
<1>2. ASSUME NEW u \in Units, NEW s \in State, Register(u, s)
      PROVE  ActiveHasInput(c, d, lane)'
  <2>1. /\ Kind[u] \in {"mainline", "step"} /\ ustate' = [ustate EXCEPT ![u] = s]
        /\ UNCHANGED <<inputs, rackState, bogus, pass, mainline, stack, synced>>
        /\ steady' = (steady /\ (pass = "none" \/ Kind[u] = "mainline"))
    BY <1>2 DEF Register, rackVars
  <2>2. ustate'[d] = ustate[d] /\ (steady' => steady)
    BY <1>a, <2>1, KindsOnLanes
  <2>3. ASSUME stack # <<>>, steady', pass = "upstream"
        PROVE  StateOf(Top.profile)' = StateOf(Top.profile)
    <3>1. Top.profile \in Units \cup {Bogus, RackProfile} /\ Top.profile # u
      BY <2>1, <2>3, AtTheTop
    <3> QED
      BY <1>a, <2>1, <3>1 DEF StateOf, Top
  <2>4. CASE pass = "upstream"
    BY <2>1, <2>2, <2>3, <2>4, Unconcerned DEF Descending, NotMetYet, Arriving, Top
  <2> QED
    BY <2>1, <2>2, <2>4, Elsewhere
<1>3. CASE UNCHANGED vars
  BY <1>3, Unconcerned
     DEF vars, profileVars, rackVars, askVars, Descending, NotMetYet, Arriving, StateOf, Top
<1>4. CASE pass # "upstream" /\ Rack /\ ~SyncBegins
  BY <1>4, Elsewhere
     DEF Rack, NextMainline, UpstreamOver, GlobOver, NextOutput, SyncLineReturns,
         MainlineUpstream, StepAsked, StepFollows, CombineOn, CombineOff, DispatchUpstream,
         DispatchGlob, UnitGlob, Entered, askVars, profileVars
<1>5. CASE SyncBegins
  <2>1. /\ stack = <<>> /\ UNCHANGED <<stack, ustate, rackState, inputs, synced, steady>>
        /\ mainline' = 1 /\ pass = "none" /\ pass' \in {"upstream", "glob"}
    BY <1>0, <1>5 DEF SyncBegins, Calls, profileVars, askVars
  <2>2. NotMetYet(c, d)' /\ \A s : ~Arriving(c, d, s)'
    BY <2>1 DEF NotMetYet, Arriving
  <2>3. SomeInput' <=> SomeInput
    BY <2>1 DEF SomeInput
  <2> QED
    BY <1>a, <2>1, <2>2, <2>3 DEF ActiveHasInput
<1>6. CASE UpstreamOver
  <2>1. SomeInput' <=> SomeInput
    BY <1>6, PassEnds DEF SomeInput
  <2> QED
    BY <1>6, <1>a, <2>1, PassEnds, LastingIsSome DEF ActiveHasInput
<1>7. CASE NextMainline /\ pass = "upstream"
  <2>1. /\ mainline \in Nat /\ mainline' = mainline + 1
        /\ UNCHANGED <<ustate, rackState, inputs, synced, steady>>
        /\ Descending(c, d)' /\ \A s : ~Arriving(c, d, s)' /\ ~Arriving(c, d, s)
        /\ NotMetYet(c, d)' <=> NotMetYet(c, d)
        /\ pass' = "upstream"
    BY <1>7, LineBegins DEF askVars
  <2>2. LastingInput(c, d, lane) => LastingInput(c, d, lane)'
    <3> SUFFICES ASSUME LastingInput(c, d, lane) PROVE LastingInput(c, d, lane)'
      OBVIOUS
    <3>1. PICK u \in Inner(c, d) :
            Out[u][1].to = c /\ inputs[c][Out[u][1].line] /\ lane[u] <= mainline - 1
      BY DEF LastingInput
    <3>2. lane[u] \in Nat
      BY DEF LanesMeet, Inner
    <3>3. lane[u] <= mainline' - 1 /\ lane[u] < mainline' - 1
      BY <2>1, <3>1, <3>2
    <3>4. inputs'[c][Out[u][1].line]
      BY <2>1, <3>1
    <3> QED
      BY <3>1, <3>3, <3>4 DEF LastingInput
  <2>3. SomeInput' <=> SomeInput
    BY <2>1 DEF SomeInput
  <2> QED
    BY <1>7, <2>1, <2>2, <2>3 DEF ActiveHasInput
<1>8. CASE pass = "upstream" /\ (NextOutput \/ SyncLineReturns)
  <2>1. Quiet(c, d)
    BY <1>8, NextOutputIsQuiet, ReturnIsQuiet
  <2> QED
    BY <2>1, Unconcerned DEF Quiet
<1>9. CASE MainlineUpstream \/ StepAsked \/ StepFollows
  <2>1. Quiet(c, d)
    BY <1>9, ContinueIsQuiet
  <2> QED
    BY <2>1, Unconcerned DEF Quiet
<1>10. CASE DispatchUpstream
  <2>1. LastingInput(c, d, lane) => LastingInput(c, d, lane)'
    BY <1>10, DispatchIsTold DEF LastingInput
  <2>2. SomeInput' <=> SomeInput
    BY <1>10, DispatchIsTold DEF SomeInput
  <2>3. StateOf(Top.profile) \in {"inactive", "active"}
    BY <1>10, DispatchIsTold, AtTheTop
  <2> QED
    BY <1>10, <1>a, <2>1, <2>2, <2>3, DispatchIsTold DEF ActiveHasInput
<1>11. CASE CombineOn \/ CombineOff
  <2> DEFINE s == StateOf(Top.profile)
             through == s # rackState /\ (s = "active" \/ ~SomeInput')
  <2>1. /\ pass = "upstream" /\ stack # <<>> /\ Top.unit = c /\ Top.line \in Line
        /\ UNCHANGED <<rackState, pass, mainline, synced, steady>>
        /\ ustate'[d] = ustate[d] /\ s \in {"inactive", "active"}
        /\ \A l \in Line : inputs'[c][l] <=> IF l = Top.line THEN s = "active" ELSE inputs[c][l]
        /\ Descending(c, d) /\ \A r : ~Arriving(c, d, r)
        /\ ~Descending(c, d)' /\ ~NotMetYet(c, d)'
        /\ \A r : Arriving(c, d, r)' <=> through /\ r = s
    BY <1>11, <1>a, CombineIsCalled
  <2> HIDE DEF s
  <2>2. PICK v \in Inner(c, d) :
          Out[v][1].to = c /\ Out[v][1].line = Top.line /\ lane[v] = mainline - 1
    BY <1>0, <2>1, CallerOnLane
  <2>3. mainline \in Nat /\ lane[v] \in Nat
    BY <1>0, MainlinesAreUnits DEF TypeOK, LanesMeet, Inner
  <2>4. CASE s = "active"
    <3>1. inputs'[c][Top.line] /\ SomeInput'
      BY <1>a, <2>1, <2>4 DEF SomeInput
    <3>2. lane[v] <= mainline' - 1
      BY <2>1, <2>2, <2>3
    <3>3. LastingInput(c, d, lane)'
      BY <2>1, <2>2, <3>1, <3>2 DEF LastingInput
    <3> QED
      BY <2>1, <3>1, <3>3 DEF ActiveHasInput
  <2>5. CASE s = "inactive"
    <3>1. ASSUME LastingInput(c, d, lane)
          PROVE  LastingInput(c, d, lane)'
      <4>1. PICK u \in Inner(c, d) :
              /\ Out[u][1].to = c /\ inputs[c][Out[u][1].line]
              /\ lane[u] <= mainline - 1 /\ lane[u] < mainline - 1
        BY <2>1, <3>1 DEF LastingInput
      <4>2. \A w \in Inner(c, d) : Out[w][1] \in [to : Units, line : Line]
        <5> SUFFICES ASSUME NEW w \in Inner(c, d) PROVE Out[w][1] \in [to : Units, line : Line]
          OBVIOUS
        <5>1. Len(Out[w]) = 1 /\ w \in Units
          BY DEF LanesMeet, Inner
        <5>2. Out[w] \in Seq([to : Units, line : Line])
          BY <5>1, LineAssumption
        <5>3. 1 \in DOMAIN Out[w]
          BY <5>1, <5>2
        <5> QED
          BY <5>2, <5>3, ItemIsTyped
      <4>3. ASSUME Out[u][1].line = Top.line
            PROVE  FALSE
        <5>1. Out[u][1] = Out[v][1]
          BY <2>2, <4>1, <4>2, <4>3
        <5>2. lane[u] = lane[v]
          BY <4>1, <5>1 DEF LanesMeet
        <5> QED
          BY <2>2, <2>3, <4>1, <5>2
      <4>4. inputs'[c][Out[u][1].line]
        BY <2>1, <4>1, <4>2, <4>3
      <4> QED
        BY <2>1, <4>1, <4>4 DEF LastingInput
    <3> QED
      BY <1>a, <2>1, <2>5, <3>1 DEF ActiveHasInput
  <2> QED
    BY <2>1, <2>4, <2>5
<1>12. CASE (GlobOver \/ DispatchGlob \/ UnitGlob) /\ pass = "upstream"
  BY <1>12 DEF GlobOver, PassOver, DispatchGlob, UnitGlob, Entered
<1> QED
  BY <1>1, <1>2, <1>3, <1>4, <1>5, <1>6, <1>7, <1>8, <1>9, <1>10, <1>11, <1>12 DEF Next, Rack

(* On a rack whose lines meet in one combine, each at an input of its own, *)
(* an active rack has an input that is on, as long as no step changes its  *)
(* state while the pass carries its profile on (unit.cpp line 207): the    *)
(* last input that is turned off turns the rack off (combine.cpp lines     *)
(* 34-47).                                                                 *)
THEOREM ActiveRackHasInput ==
  ASSUME NEW c, NEW d, NEW lane, LanesMeet(c, d, lane)
  PROVE  Spec => []ActiveNeedsInput
<1> DEFINE Inv == IInv /\ OnLane(c, d, lane) /\ ActiveHasInput(c, d, lane)
<1>1. Init => Inv
  <2> SUFFICES ASSUME Init PROVE Inv
    OBVIOUS
  <2>1. OnLane(c, d, lane)
    BY DEF Init, OnLane
  <2>2. ActiveHasInput(c, d, lane)
    BY DEF Init, ActiveHasInput
  <2> QED
    BY <2>1, <2>2, InitIInv
<1>2. Inv /\ [Next]_vars => Inv'
  <2> SUFFICES ASSUME Inv, [Next]_vars PROVE Inv'
    OBVIOUS
  <2>1. IInv'
    BY NextTypeOK, NextCalls, NextBetweenGlobs, NextInGlob DEF IInv
  <2> QED
    BY <2>1, NextOnLane, NextActiveHasInput
<1>3. Inv => ActiveNeedsInput
  <2> SUFFICES ASSUME Inv, steady, pass = "none", synced, rackState = "active" PROVE SomeInput
    BY DEF ActiveNeedsInput, SomeInput
  <2>1. ustate[d] = "active"
    BY DEF IInv, BetweenGlobs, Decided, LanesMeet
  <2> QED
    BY <2>1 DEF ActiveHasInput
<1> QED
  BY <1>1, <1>2, <1>3, PTL DEF Spec

-----------------------------------------------------------------------------
(* The rack follows its mainlines, as long as they change one at a time    *)
(* and between the passes (alone, calm).                                   *)

(* Who has asked: at most one mainline, which is still to trigger the pass *)
(* or has done so and waits for it.  The dispatch asks from the passes.    *)
OneAsks ==
  alone /\ calm =>
    /\ \A u, v \in asked : u = v
    /\ \A u \in asked : Kind[u] = "mainline"
    /\ changing \subseteq asked
    /\ flags # {} \/ pass # "none" => changing = {}
    /\ asked \subseteq changing \/ "upstream" \in flags
    /\ "upstream" \in flags => asked # {} /\ pass # "glob"

GlobFollows == pass = "none" => "glob" \notin flags

(* No step has a state of its own to send down. *)
StepsFollow ==
  calm =>
    /\ \A u \in changing : Kind[u] = "mainline"
    /\ \A u \in Units : Kind[u] = "step" => ~upstream[u]
    /\ pass = "upstream" => \A j \in Frames : stack[j].profile = Bogus

(* What goes down the line is the state of its mainline. *)
LineCarries(c, d) ==
  calm /\ pass = "upstream" /\ Descending(c, d) /\ (Kind[Top.unit] = "mainline" => Top.at # 0) =>
    bogus = ustate[Mainlines[mainline - 1]]

(* The pass has brought the state of the i-th mainline to the combine. *)
Met(c, d, i) ==
  pass = "upstream" /\ (i < mainline - 1 \/ (i = mainline - 1 /\ ~Descending(c, d)))

Pending(c, d) == \E i \in DOMAIN Mainlines : Mainlines[i] \in asked /\ ~Met(c, d, i)

(* Except for that of the one who asks, until the pass has met it, every   *)
(* input is what its mainline is.                                          *)
InputsFollow(c, d, entry) ==
  alone /\ calm =>
    /\ \A i \in DOMAIN Mainlines :
         Mainlines[i] \notin asked \/ Met(c, d, i) =>
           (inputs[c][entry[i]] <=> ustate[Mainlines[i]] = "active")
    /\ \A l \in Line : inputs[c][l] => \E i \in DOMAIN Mainlines : l = entry[i]

(* The dispatch is active if an input is on, as soon as it has been told.  *)
DispatchFollows(c, d) ==
  alone /\ calm =>
    /\ pass # "upstream" => (ustate[d] = "active" <=> SomeInput)
    /\ pass = "upstream" /\ Pending(c, d) =>
         /\ ustate[d] = rackState /\ (rackState = "active" <=> SomeInput)
         /\ \A s \in State : ~Arriving(c, d, s)
    /\ pass = "upstream" /\ ~Pending(c, d) =>
         /\ rackState = "inactive" =>
              (SomeInput <=> ustate[d] = "active" \/ Arriving(c, d, "active"))
         /\ rackState = "active" =>
              (~SomeInput <=> ustate[d] = "inactive" \/ Arriving(c, d, "inactive"))
         /\ ~Arriving(c, d, rackState)

Following(c, d, entry) ==
  /\ OneAsks /\ GlobFollows /\ StepsFollow /\ LineCarries(c, d)
  /\ InputsFollow(c, d, entry) /\ DispatchFollows(c, d)

(* What the calls of a pass leave alone. *)
LEMMA CallsDoNotAsk ==
  ASSUME \/ NextMainline \/ NextOutput \/ SyncLineReturns \/ MainlineUpstream \/ StepAsked
         \/ StepFollows \/ CombineOn \/ CombineOff \/ DispatchUpstream \/ DispatchGlob \/ UnitGlob
  PROVE  UNCHANGED askVars /\ pass' = pass
BY DEF NextMainline, NextOutput, SyncLineReturns, MainlineUpstream, StepAsked, StepFollows,
       CombineOn, CombineOff, DispatchUpstream, DispatchGlob, UnitGlob

(* What the histories say is never said again. *)
LEMMA HistoryFalls == [Next]_vars => (alone' => alone) /\ (calm' => calm)
<1> SUFFICES ASSUME [Next]_vars PROVE (alone' => alone) /\ (calm' => calm)
  OBVIOUS
<1>1. ASSUME NEW u \in Units, Request(u)
      PROVE  (alone' => alone) /\ (calm' => calm)
  BY <1>1 DEF Request
<1>2. ASSUME NEW u \in Units, NEW s \in State, Register(u, s)
      PROVE  (alone' => alone) /\ (calm' => calm)
  BY <1>2 DEF Register
<1>3. CASE SyncBegins \/ UpstreamOver \/ GlobOver \/ UNCHANGED vars
  BY <1>3 DEF SyncBegins, UpstreamOver, GlobOver, vars, askVars
<1> QED
  BY <1>1, <1>2, <1>3, CallsDoNotAsk DEF Next, Rack, askVars

LEMMA NextOneAsks ==
  ASSUME TypeOK, Calls, OneAsks, GlobFollows, [Next]_vars
  PROVE  OneAsks' /\ GlobFollows'
<1>1. ASSUME NEW u \in Units, Request(u)
      PROVE  OneAsks' /\ GlobFollows'
  <2>1. /\ u \in changing /\ changing' = changing \ {u} /\ flags' = flags \cup {"upstream"}
        /\ calm' = (calm /\ pass = "none") /\ UNCHANGED <<pass, asked, alone>>
    BY <1>1 DEF Request
  <2>2. GlobFollows'
    BY <2>1 DEF GlobFollows
  <2>3. OneAsks'
    <3> SUFFICES ASSUME alone', calm' PROVE OneAsks'
      BY DEF OneAsks
    <3>1. alone /\ calm /\ pass' = "none"
      BY <2>1
    <3>2. changing' = {} /\ asked # {}
      BY <2>1, <3>1 DEF OneAsks
    <3> QED
      BY <2>1, <3>1, <3>2 DEF OneAsks
  <2> QED
    BY <2>2, <2>3
<1>2. ASSUME NEW u \in Units, NEW s \in State, Register(u, s)
      PROVE  OneAsks' /\ GlobFollows'
  <2>1. /\ changing' = changing \cup {u} /\ asked' = asked \cup {u}
        /\ alone' = (alone /\ asked = {})
        /\ calm' = (calm /\ pass = "none" /\ Kind[u] = "mainline")
        /\ UNCHANGED <<pass, flags>>
    BY <1>2 DEF Register, rackVars
  <2>2. GlobFollows'
    BY <2>1 DEF GlobFollows
  <2>3. OneAsks'
    <3> SUFFICES ASSUME alone', calm' PROVE OneAsks'
      BY DEF OneAsks
    <3>1. alone /\ calm /\ pass = "none" /\ asked = {} /\ changing = {} /\ Kind[u] = "mainline"
      BY <2>1 DEF OneAsks
    <3>2. flags = {}
      BY <3>1 DEF OneAsks, GlobFollows, TypeOK
    <3> QED
      BY <2>1, <3>1, <3>2 DEF OneAsks
  <2> QED
    BY <2>2, <2>3
<1>3. CASE UNCHANGED vars
  BY <1>3 DEF vars, profileVars, rackVars, askVars, OneAsks, GlobFollows
<1>4. CASE SyncBegins
  BY <1>4 DEF SyncBegins, askVars, OneAsks, GlobFollows
<1>5. CASE UpstreamOver \/ GlobOver
  <2>1. /\ asked' = changing /\ UNCHANGED <<changing, alone, calm>> /\ pass # "none"
        /\ "upstream" \notin flags' /\ (pass' = "none" => "glob" \notin flags')
    BY <1>5 DEF UpstreamOver, GlobOver, PassOver
  <2> QED
    BY <2>1 DEF OneAsks, GlobFollows
<1>6. CASE DispatchUpstream
  <2>1. /\ UNCHANGED <<asked, changing, alone, calm, pass>> /\ pass = "upstream"
        /\ flags' \in {flags, flags \cup {"glob"}}
    BY <1>6 DEF DispatchUpstream, Entered, askVars
  <2> QED
    BY <2>1 DEF OneAsks, GlobFollows
<1>7. CASE \/ NextMainline \/ NextOutput \/ SyncLineReturns \/ MainlineUpstream \/ StepAsked
           \/ StepFollows \/ CombineOn \/ CombineOff \/ DispatchGlob \/ UnitGlob
  <2>1. UNCHANGED <<asked, changing, alone, calm, pass, flags>>
    BY <1>7 DEF NextMainline, NextOutput, SyncLineReturns, MainlineUpstream, StepAsked,
                StepFollows, CombineOn, CombineOff, DispatchGlob, UnitGlob, askVars
  <2> QED
    BY <2>1 DEF OneAsks, GlobFollows
<1> QED
  BY <1>1, <1>2, <1>3, <1>4, <1>5, <1>6, <1>7 DEF Next, Rack

LEMMA NextStepsFollow ==
  ASSUME TypeOK, Calls, StepsFollow, [Next]_vars
  PROVE  StepsFollow'
<1>0. SUFFICES ASSUME calm' PROVE StepsFollow'
  BY DEF StepsFollow
<1>a. /\ calm /\ \A u \in changing : Kind[u] = "mainline"
      /\ \A u \in Units : Kind[u] = "step" => ~upstream[u]
      /\ pass = "upstream" => \A j \in Frames : stack[j].profile = Bogus
  BY <1>0, HistoryFalls DEF StepsFollow
<1>b. upstream \in [Units -> BOOLEAN]
  BY DEF TypeOK
<1>1. ASSUME UNCHANGED <<changing, upstream>>,
             pass' = "upstream" => \A j \in Frames' : stack'[j].profile = Bogus
      PROVE  StepsFollow'
  BY <1>a, <1>1 DEF StepsFollow
<1>2. ASSUME NEW u \in Units, Request(u)
      PROVE  StepsFollow'
  <2>1. /\ u \in changing /\ changing' = changing \ {u}
        /\ upstream' = [upstream EXCEPT ![u] = TRUE] /\ UNCHANGED <<pass, stack>>
    BY <1>2 DEF Request
  <2>2. Kind[u] = "mainline"
    BY <1>a, <2>1
  <2>3. \A v \in Units : Kind[v] = "step" => ~upstream'[v]
    BY <1>a, <1>b, <2>1, <2>2
  <2> QED
    BY <1>a, <2>1, <2>3 DEF StepsFollow, Frames
<1>3. ASSUME NEW u \in Units, NEW s \in State, Register(u, s)
      PROVE  StepsFollow'
  <2>1. /\ changing' = changing \cup {u} /\ UNCHANGED <<pass, stack, upstream>>
        /\ Kind[u] = "mainline"
    BY <1>0, <1>3 DEF Register, rackVars
  <2> QED
    BY <1>a, <2>1 DEF StepsFollow, Frames
<1>4. CASE SyncBegins \/ UpstreamOver \/ GlobOver \/ UNCHANGED vars
  <2>1. /\ UNCHANGED <<changing, upstream, stack>>
        /\ pass' = "upstream" => pass = "upstream" \/ stack = <<>>
    BY <1>4 DEF SyncBegins, UpstreamOver, GlobOver, vars, profileVars, rackVars, askVars, Calls
  <2> QED
    BY <1>1, <1>a, <2>1 DEF Frames
<1>5. CASE NextMainline
  <2>1. /\ UNCHANGED <<changing, upstream, pass>>
        /\ pass = "upstream" => \E u : stack' = <<Call(u, 0, Bogus)>>
    BY <1>5 DEF NextMainline, askVars
  <2>2. pass = "upstream" => Len(stack') = 1 /\ stack'[1].profile = Bogus
    BY <2>1 DEF Call
  <2> QED
    BY <1>1, <2>1, <2>2 DEF Frames
<1>6. ASSUME stack # <<>>, Return, pass' = pass, UNCHANGED <<changing, upstream>>
      PROVE  StepsFollow'
  <2>1. /\ Len(stack) \in Nat \ {0} /\ Len(stack') = Len(stack) - 1
        /\ \A j \in 1 .. Len(stack) - 1 : stack'[j] = stack[j + 1]
    BY <1>6, ReturnIsTyped, TopIsFirst
  <2> QED
    BY <1>1, <1>6, <1>a, <2>1 DEF Frames
<1>7. ASSUME stack # <<>>, Continue(Top.profile), pass' = pass, changing' = changing,
             \A u \in Units : Kind[u] = "step" => ~upstream'[u]
      PROVE  StepsFollow'
  <2>1. Top \in Frame /\ Top = stack[1] /\ Len(stack) \in Nat \ {0}
    BY <1>7, TopIsFirst
  <2>2. /\ Top.profile \in Units \cup {Bogus, RackProfile}
        /\ [Top EXCEPT !.at = 1, !.profile = Top.profile].profile = Top.profile
    BY <2>1 DEF Frame
  <2>3. /\ Len(stack') = Len(stack) /\ stack'[1].profile = Top.profile
        /\ \A j \in 2 .. Len(stack) : stack'[j] = stack[j]
    BY <1>7, <2>2, ContinueIsTyped
  <2>4. \A j \in Frames' : stack'[j].profile = stack[j].profile
    BY <2>1, <2>3 DEF Frames
  <2>5. pass' = "upstream" => \A j \in Frames' : stack'[j].profile = Bogus
    BY <1>7, <1>a, <2>3, <2>4 DEF Frames
  <2> QED
    BY <1>7, <1>a, <2>5 DEF StepsFollow
<1>8. CASE NextOutput
  <2>1. UNCHANGED <<pass, changing, upstream>>
    BY <1>8 DEF NextOutput, askVars
  <2>2. /\ Len(stack) \in Nat \ {0} /\ Top = stack[1] /\ Len(stack') = Len(stack) + 1
        /\ stack'[1].profile = Top.profile /\ stack'[2].profile = Top.profile
        /\ \A j \in 3 .. Len(stack) + 1 : stack'[j] = stack[j - 1]
    BY <1>8, OutputIsCalled DEF Call
  <2>3. \A j \in Frames' : \E k \in Frames : stack'[j].profile = stack[k].profile
    <3> SUFFICES ASSUME NEW j \in Frames'
                 PROVE  \E k \in Frames : stack'[j].profile = stack[k].profile
      OBVIOUS
    <3>1. CASE j \in {1, 2}
      BY <2>2, <3>1 DEF Frames
    <3>2. CASE j \notin {1, 2}
      <4>1. j - 1 \in Frames /\ stack'[j] = stack[j - 1]
        BY <2>2, <3>2 DEF Frames
      <4> QED
        BY <4>1
    <3> QED
      BY <3>1, <3>2
  <2> QED
    BY <1>1, <1>a, <2>1, <2>3
<1>9. CASE SyncLineReturns \/ DispatchUpstream
  BY <1>9, <1>6 DEF SyncLineReturns, DispatchUpstream, Entered, askVars
<1>10. CASE CombineOn \/ CombineOff
  <2>1. /\ stack # <<>> /\ (Return \/ Continue(Top.profile))
        /\ UNCHANGED <<pass, changing, upstream>>
    BY <1>10 DEF CombineOn, CombineOff, Entered, askVars
  <2> QED
    BY <1>6, <1>7, <1>a, <2>1
<1>11. CASE StepFollows \/ DispatchGlob \/ UnitGlob
  <2>1. /\ stack # <<>> /\ Continue(Top.profile)
        /\ UNCHANGED <<pass, changing, upstream>>
    BY <1>11 DEF StepFollows, DispatchGlob, UnitGlob, Entered, askVars
  <2> QED
    BY <1>7, <1>a, <2>1
<1>12. CASE MainlineUpstream
  <2>1. /\ stack # <<>> /\ Continue(Top.profile) /\ UNCHANGED <<pass, changing>>
        /\ upstream' = [upstream EXCEPT ![Top.unit] = FALSE]
    BY <1>12 DEF MainlineUpstream, Entered, askVars
  <2>2. \A u \in Units : Kind[u] = "step" => ~upstream'[u]
    BY <1>a, <1>b, <2>1
  <2> QED
    BY <1>7, <2>1, <2>2
<1>13. CASE StepAsked
  <2>1. stack # <<>> /\ Kind[Top.unit] = "step" /\ upstream[Top.unit]
    BY <1>13 DEF StepAsked, Entered
  <2>2. Top.unit \in Units
    BY <2>1, TopIsFirst DEF Frame
  <2> QED
    BY <1>a, <2>1, <2>2
<1> QED
  BY <1>2, <1>3, <1>4, <1>5, <1>8, <1>9, <1>10, <1>11, <1>12, <1>13 DEF Next, Rack

(* A mainline is called first. *)
LEMMA MainlineIsFirst ==
  ASSUME NEW c, NEW d, NEW lane, NEW entry, LanesEnter(c, d, lane, entry), IInv,
         OnLane(c, d, lane), pass = "upstream", stack # <<>>, Kind[Top.unit] = "mainline"
  PROVE  Top.unit = Mainlines[mainline - 1]
<1>0. LanesMeet(c, d, lane) /\ TypeOK /\ Calls
  BY DEF LanesEnter, IInv
<1>1. CASE Len(stack) = 1
  BY <1>0, <1>1, TopIsFirst DEF Calls, Path
<1>2. CASE Len(stack) # 1
  <2>1. PICK v \in Units : v # d /\ Out[v][1].to = Top.unit
    BY <1>0, <1>2, CallerOfTop
  <2>2. v # c
    <3>1. Out[c][1].to = d /\ d \in Dispatches
      BY <1>0 DEF LanesMeet
    <3>2. Kind[d] = "dispatch"
      BY <3>1 DEF Dispatches
    <3> QED
      BY <2>1, <3>1, <3>2
  <2>3. v \in Inner(c, d)
    BY <2>1, <2>2 DEF Inner
  <2> QED
    BY <2>1, <2>3 DEF LanesEnter
<1> QED
  BY <1>1, <1>2

LEMMA NextLineCarries ==
  ASSUME NEW c, NEW d, NEW lane, NEW entry, LanesEnter(c, d, lane, entry), IInv,
         OnLane(c, d, lane), StepsFollow, LineCarries(c, d), [Next]_vars
  PROVE  LineCarries(c, d)'
<1>0. LanesMeet(c, d, lane) /\ TypeOK /\ Calls
  BY DEF LanesEnter, IInv
<1>a. SUFFICES ASSUME calm', pass' = "upstream", Descending(c, d)',
                      Kind[Top'.unit] = "mainline" => Top'.at # 0
               PROVE  bogus' = ustate'[Mainlines[mainline' - 1]]
  BY DEF LineCarries
<1>b. calm
  BY <1>a, HistoryFalls
<1>c. pass = "upstream" /\ stack # <<>> => mainline - 1 \in DOMAIN Mainlines
  BY <1>0 DEF Calls, Path
<1>d. \A i \in DOMAIN Mainlines : Mainlines[i] \in Units /\ Kind[Mainlines[i]] = "mainline"
  <2> SUFFICES ASSUME NEW i \in DOMAIN Mainlines
               PROVE  Mainlines[i] \in {u \in Units : Kind[u] = "mainline"}
    OBVIOUS
  <2>1. Mainlines \in Seq({u \in Units : Kind[u] = "mainline"})
    BY LineAssumption
  <2> QED
    BY <2>1, ItemIsTyped
<1>e. ustate \in [Units -> State]
  BY <1>0 DEF TypeOK
<1>1. ASSUME UNCHANGED <<bogus, ustate, pass, mainline, stack>>
      PROVE  bogus' = ustate'[Mainlines[mainline' - 1]]
  BY <1>a, <1>b, <1>1 DEF LineCarries, Descending, Top
<1>2. ASSUME NEW u \in Units, Request(u)
      PROVE  bogus' = ustate'[Mainlines[mainline' - 1]]
  BY <1>1, <1>2 DEF Request, profileVars
<1>3. ASSUME NEW u \in Units, NEW s \in State, Register(u, s)
      PROVE  FALSE
  BY <1>a, <1>3 DEF Register, rackVars
<1>4. CASE UNCHANGED vars
  BY <1>1, <1>4 DEF vars, profileVars, rackVars
<1>5. CASE SyncBegins
  BY <1>0, <1>5, <1>a DEF SyncBegins, Calls, Descending
<1>6. CASE UpstreamOver \/ GlobOver
  BY <1>6, <1>a DEF UpstreamOver, GlobOver
<1>7. CASE NextMainline
  <2>1. pass = "upstream"
    BY <1>7, <1>a DEF NextMainline
  <2>2. Top'.unit = Mainlines[mainline] /\ Top'.at = 0 /\ mainline \in DOMAIN Mainlines
    BY <1>0, <1>7, <2>1, LineBegins
  <2> QED
    BY <1>a, <1>d, <2>2
<1>8. CASE NextOutput
  <2>1. pass = "upstream" /\ UNCHANGED <<bogus, ustate, mainline, pass>> /\ stack # <<>>
    BY <1>8, <1>a DEF NextOutput, profileVars
  <2>2. Descending(c, d) /\ Top.at = 1
    BY <1>0, <1>8, <1>a, <2>1, NextOutputIsQuiet DEF Quiet
  <2> QED
    BY <1>b, <2>1, <2>2 DEF LineCarries
<1>9. CASE SyncLineReturns
  <2>1. pass = "upstream"
    BY <1>9, <1>a DEF SyncLineReturns
  <2>2. ~Descending(c, d) /\ (Descending(c, d)' <=> Descending(c, d))
    BY <1>0, <1>9, <2>1, ReturnIsQuiet DEF Quiet
  <2> QED
    BY <1>a, <2>2
<1>10. CASE MainlineUpstream
  <2>1. /\ pass = "upstream" /\ stack # <<>> /\ Kind[Top.unit] = "mainline"
        /\ bogus' = ustate[Top.unit] /\ UNCHANGED <<ustate, mainline>>
    BY <1>10 DEF MainlineUpstream, Entered
  <2> QED
    BY <2>1, MainlineIsFirst
<1>11. CASE StepFollows
  <2>1. /\ pass = "upstream" /\ stack # <<>> /\ Kind[Top.unit] = "step"
        /\ UNCHANGED <<bogus, mainline>>
        /\ ustate' = [ustate EXCEPT ![Top.unit] = StateOf(Top.profile)]
    BY <1>11 DEF StepFollows, Entered
  <2>2. Descending(c, d)
    BY <1>0, <1>11, ContinueIsQuiet
  <2>3. Mainlines[mainline - 1] \in Units /\ Mainlines[mainline - 1] # Top.unit
    BY <1>c, <1>d, <2>1
  <2>4. ustate'[Mainlines[mainline - 1]] = ustate[Mainlines[mainline - 1]]
    BY <1>e, <2>1, <2>3
  <2>5. bogus = ustate[Mainlines[mainline - 1]]
    BY <1>b, <2>1, <2>2 DEF LineCarries
  <2> QED
    BY <2>1, <2>4, <2>5
<1>12. CASE StepAsked
  <2>1. stack # <<>> /\ Kind[Top.unit] = "step" /\ upstream[Top.unit]
    BY <1>12 DEF StepAsked, Entered
  <2>2. Top.unit \in Units
    BY <1>0, <2>1, TopIsFirst DEF Frame
  <2> QED
    BY <1>b, <2>1, <2>2 DEF StepsFollow
<1>13. CASE CombineOn \/ CombineOff
  BY <1>0, <1>13, <1>a, CombineIsCalled
<1>14. CASE DispatchUpstream
  BY <1>0, <1>14, <1>a, DispatchIsTold
<1>15. CASE DispatchGlob \/ UnitGlob
  BY <1>15, <1>a DEF DispatchGlob, UnitGlob, Entered
<1> QED
  BY <1>2, <1>3, <1>4, <1>5, <1>6, <1>7, <1>8, <1>9, <1>10, <1>11, <1>12, <1>13, <1>14, <1>15
     DEF Next, Rack

LEMMA MainlinesAreMainlines ==
  \A i \in DOMAIN Mainlines :
    Mainlines[i] \in Units /\ Kind[Mainlines[i]] = "mainline" /\ i \in Nat \ {0}
<1> SUFFICES ASSUME NEW i \in DOMAIN Mainlines
             PROVE  Mainlines[i] \in {u \in Units : Kind[u] = "mainline"} /\ i \in Nat \ {0}
  OBVIOUS
<1>1. Mainlines \in Seq({u \in Units : Kind[u] = "mainline"})
  BY LineAssumption
<1> QED
  BY <1>1, ItemIsTyped, MainlinesAreUnits

(* The combine hears of the mainline the pass is at. *)
LEMMA CombineIsMet ==
  ASSUME NEW c, NEW d, NEW lane, NEW entry, LanesEnter(c, d, lane, entry), IInv,
         OnLane(c, d, lane), StepsFollow, LineCarries(c, d), calm, CombineOn \/ CombineOff
  PROVE  LET k == mainline - 1 IN
         /\ k \in DOMAIN Mainlines /\ Top.line = entry[k]
         /\ StateOf(Top.profile) = ustate[Mainlines[k]]
         /\ ~Met(c, d, k)
         /\ \A i \in DOMAIN Mainlines : Met(c, d, i)' <=> Met(c, d, i) \/ i = k
<1> DEFINE k == mainline - 1
<1>0. LanesMeet(c, d, lane) /\ TypeOK /\ Calls
  BY DEF LanesEnter, IInv
<1>1. /\ pass = "upstream" /\ stack # <<>> /\ Top.unit = c /\ UNCHANGED <<pass, mainline>>
      /\ Descending(c, d) /\ ~Descending(c, d)'
  BY <1>0, CombineIsCalled
<1>2. k \in DOMAIN Mainlines
  BY <1>0, <1>1 DEF Calls, Path
<1>3. Top.line = entry[k]
  <2>1. PICK v \in Inner(c, d) :
          Out[v][1].to = c /\ Out[v][1].line = Top.line /\ lane[v] = k
    BY <1>0, <1>1, CallerOnLane
  <2> QED
    BY <2>1 DEF LanesEnter
<1>4. Kind[Top.unit] = "combine"
  BY DEF CombineOn, CombineOff, Entered
<1>5. bogus = ustate[Mainlines[k]]
  BY <1>1, <1>4 DEF LineCarries
<1>6. Top.profile = Bogus
  BY <1>0, <1>1, TopIsFirst DEF StepsFollow
<1>7. StateOf(Top.profile) = ustate[Mainlines[k]]
  BY <1>5, <1>6 DEF StateOf
<1>8. mainline \in Nat /\ k \in Int /\ \A i \in DOMAIN Mainlines : i \in Nat
  BY <1>0, MainlinesAreUnits DEF TypeOK
<1>9. ~Met(c, d, k)
  BY <1>1, <1>8 DEF Met
<1>10. \A i \in DOMAIN Mainlines : Met(c, d, i)' <=> Met(c, d, i) \/ i = k
  BY <1>1, <1>8 DEF Met
<1> QED
  BY <1>2, <1>3, <1>7, <1>9, <1>10

(* Outside of the combine a pass does not change what is met. *)
LEMMA MetIsKept ==
  ASSUME NEW c, NEW d, UNCHANGED <<pass, mainline>>, Descending(c, d)' <=> Descending(c, d)
  PROVE  /\ \A i : Met(c, d, i)' <=> Met(c, d, i)
         /\ asked' = asked => (Pending(c, d)' <=> Pending(c, d))
BY DEF Met, Pending

LEMMA MetAtNextLine ==
  ASSUME NEW c, NEW d, NEW lane, LanesMeet(c, d, lane), IInv, OnLane(c, d, lane),
         pass = "upstream", NextMainline
  PROVE  /\ \A i \in DOMAIN Mainlines : Met(c, d, i)' <=> Met(c, d, i)
         /\ Pending(c, d)' <=> Pending(c, d)
<1>1. /\ mainline \in Nat /\ mainline' = mainline + 1 /\ pass' = "upstream" /\ asked' = asked
      /\ Descending(c, d)' /\ ~Descending(c, d)
  BY LineBegins DEF askVars
<1>2. \A i \in DOMAIN Mainlines : i \in Nat
  BY MainlinesAreMainlines
<1>3. \A i \in DOMAIN Mainlines : Met(c, d, i)' <=> Met(c, d, i)
  BY <1>1, <1>2 DEF Met
<1> QED
  BY <1>1, <1>3 DEF Pending

LEMMA MetAtTheEnd ==
  ASSUME NEW c, NEW d, NEW lane, LanesMeet(c, d, lane), IInv, UpstreamOver
  PROVE  \A i \in DOMAIN Mainlines : Met(c, d, i)
<1>1. /\ pass = "upstream" /\ mainline > Len(Mainlines) /\ mainline \in Nat /\ ~Descending(c, d)
  BY PassEnds
<1>2. \A i \in DOMAIN Mainlines : i \in Nat /\ i <= mainline - 1
  BY <1>1, MainlinesAreUnits
<1> QED
  BY <1>1, <1>2 DEF Met

LEMMA NextInputsFollow ==
  ASSUME NEW c, NEW d, NEW lane, NEW entry, LanesEnter(c, d, lane, entry), IInv,
         OnLane(c, d, lane), OneAsks, StepsFollow, LineCarries(c, d), InputsFollow(c, d, entry),
         [Next]_vars
  PROVE  InputsFollow(c, d, entry)'
<1>0. LanesMeet(c, d, lane) /\ TypeOK /\ Calls
  BY DEF LanesEnter, IInv
<1>a. SUFFICES ASSUME alone', calm' PROVE InputsFollow(c, d, entry)'
  BY DEF InputsFollow
<1>b. /\ alone /\ calm
      /\ \A i \in DOMAIN Mainlines :
           Mainlines[i] \notin asked \/ Met(c, d, i) =>
             (inputs[c][entry[i]] <=> ustate[Mainlines[i]] = "active")
      /\ \A l \in Line : inputs[c][l] => \E i \in DOMAIN Mainlines : l = entry[i]
  BY <1>a, HistoryFalls DEF InputsFollow
<1>c. ustate \in [Units -> State]
  BY <1>0 DEF TypeOK
<1>1. ASSUME inputs' = inputs,
             \A i \in DOMAIN Mainlines : ustate'[Mainlines[i]] = ustate[Mainlines[i]],
             \A i \in DOMAIN Mainlines :
               Mainlines[i] \notin asked' \/ Met(c, d, i)' => Mainlines[i] \notin asked \/ Met(c, d, i)
      PROVE  InputsFollow(c, d, entry)'
  BY <1>b, <1>1 DEF InputsFollow
<1>2. ASSUME NEW u \in Units, Request(u)
      PROVE  InputsFollow(c, d, entry)'
  <2>1. UNCHANGED <<inputs, ustate, asked, pass, mainline, stack>>
    BY <1>2 DEF Request, profileVars
  <2> QED
    BY <1>1, <2>1 DEF Met, Descending, Top
<1>3. ASSUME NEW u \in Units, NEW s \in State, Register(u, s)
      PROVE  InputsFollow(c, d, entry)'
  <2>1. /\ pass = "none" /\ asked' = asked \cup {u} /\ ustate' = [ustate EXCEPT ![u] = s]
        /\ UNCHANGED <<inputs, pass>>
    BY <1>3, <1>a DEF Register, rackVars
  <2>2. \A i \in DOMAIN Mainlines : ~Met(c, d, i)'
    BY <2>1 DEF Met
  <2>3. \A i \in DOMAIN Mainlines :
          Mainlines[i] # u => ustate'[Mainlines[i]] = ustate[Mainlines[i]]
    BY <1>c, <2>1, MainlinesAreMainlines
  <2> QED
    BY <1>b, <2>1, <2>2, <2>3 DEF InputsFollow
<1>4. CASE UNCHANGED vars
  <2>1. UNCHANGED <<inputs, ustate, asked, pass, mainline, stack>>
    BY <1>4 DEF vars, profileVars, rackVars, askVars
  <2> QED
    BY <1>1, <2>1 DEF Met, Descending, Top
<1>5. CASE SyncBegins
  <2>1. /\ stack' = <<>> /\ mainline' = 1 /\ UNCHANGED <<inputs, ustate, asked>>
    BY <1>0, <1>5 DEF SyncBegins, Calls, profileVars, askVars
  <2>2. \A i \in DOMAIN Mainlines : ~Met(c, d, i)'
    BY <2>1, MainlinesAreMainlines DEF Met
  <2> QED
    BY <1>1, <2>1, <2>2
<1>6. CASE UpstreamOver
  BY <1>0, <1>1, <1>6, PassEnds, MetAtTheEnd
<1>7. CASE pass # "upstream" /\ Rack /\ ~SyncBegins /\ ~UpstreamOver
  <2>1. /\ UNCHANGED <<inputs, ustate>> /\ pass' # "upstream"
        /\ asked' = asked \/ (GlobOver /\ asked' = changing)
    BY <1>7 DEF Rack, NextMainline, GlobOver, NextOutput, SyncLineReturns,
         MainlineUpstream, StepAsked, StepFollows, CombineOn, CombineOff, DispatchUpstream,
         DispatchGlob, UnitGlob, Entered, askVars, profileVars
  <2>2. GlobOver => asked = {}
    BY <1>b DEF GlobOver, PassOver, OneAsks
  <2>3. \A i \in DOMAIN Mainlines : ~Met(c, d, i)'
    BY <2>1 DEF Met
  <2> QED
    BY <1>1, <2>1, <2>2, <2>3
<1>8. CASE NextMainline /\ pass = "upstream"
  BY <1>0, <1>1, <1>8, LineBegins, MetAtNextLine DEF askVars
<1>9. CASE pass = "upstream" /\ (NextOutput \/ SyncLineReturns)
  <2>1. Quiet(c, d)
    BY <1>0, <1>9, NextOutputIsQuiet, ReturnIsQuiet
  <2>2. UNCHANGED <<ustate, asked>>
    BY <1>9 DEF NextOutput, SyncLineReturns, profileVars, askVars
  <2> QED
    BY <1>1, <2>1, <2>2, MetIsKept DEF Quiet
<1>10. CASE MainlineUpstream \/ StepAsked \/ StepFollows
  <2>1. Quiet(c, d) /\ stack # <<>>
    BY <1>0, <1>10, ContinueIsQuiet
  <2>2. asked' = asked
    BY <1>10, CallsDoNotAsk DEF askVars
  <2>3. \A i \in DOMAIN Mainlines : ustate'[Mainlines[i]] = ustate[Mainlines[i]]
    <3>1. CASE StepFollows
      <4>1. ustate' = [ustate EXCEPT ![Top.unit] = StateOf(Top.profile)] /\ Kind[Top.unit] = "step"
        BY <3>1 DEF StepFollows, Entered
      <4> QED
        BY <1>c, <4>1, MainlinesAreMainlines
    <3>2. CASE MainlineUpstream \/ StepAsked
      BY <3>2 DEF MainlineUpstream, StepAsked, profileVars
    <3> QED
      BY <1>10, <3>1, <3>2
  <2> QED
    BY <1>1, <2>1, <2>2, <2>3, MetIsKept DEF Quiet
<1>11. CASE DispatchUpstream
  <2>1. /\ UNCHANGED <<inputs, pass, mainline>> /\ ~Descending(c, d)' /\ ~Descending(c, d)
        /\ \A u \in Units : u # d => ustate'[u] = ustate[u]
    BY <1>0, <1>11, DispatchIsTold
  <2>2. asked' = asked
    BY <1>11, CallsDoNotAsk DEF askVars
  <2>3. Kind[d] = "dispatch"
    BY <1>0, RackKnows
  <2>4. \A i \in DOMAIN Mainlines : ustate'[Mainlines[i]] = ustate[Mainlines[i]]
    BY <2>1, <2>3, MainlinesAreMainlines
  <2> QED
    BY <1>1, <2>1, <2>2, <2>4, MetIsKept
<1>12. CASE CombineOn \/ CombineOff
  <2> DEFINE k == mainline - 1
  <2>1. /\ k \in DOMAIN Mainlines /\ Top.line = entry[k]
        /\ StateOf(Top.profile) = ustate[Mainlines[k]]
        /\ \A i \in DOMAIN Mainlines : Met(c, d, i)' <=> Met(c, d, i) \/ i = k
    BY <1>b, <1>12, CombineIsMet
  <2>2. /\ \A u \in Units : u # c => ustate'[u] = ustate[u]
        /\ \A l \in Line : inputs'[c][l] <=>
             IF l = Top.line THEN StateOf(Top.profile) = "active" ELSE inputs[c][l]
    BY <1>0, <1>12, CombineIsCalled
  <2> HIDE DEF k
  <2>3. asked' = asked
    BY <1>12, CallsDoNotAsk DEF askVars
  <2>4. Kind[c] = "combine"
    BY <1>0, RackKnows
  <2>5. \A i \in DOMAIN Mainlines : ustate'[Mainlines[i]] = ustate[Mainlines[i]]
    BY <2>2, <2>4, MainlinesAreMainlines
  <2>6. \A i \in DOMAIN Mainlines : entry[i] \in Line /\ (entry[i] = entry[k] => i = k)
    BY <2>1 DEF LanesEnter
  <2>7. inputs'[c][entry[k]] <=> ustate[Mainlines[k]] = "active"
    BY <2>1, <2>2, <2>6
  <2>8. \A i \in DOMAIN Mainlines : i # k => (inputs'[c][entry[i]] <=> inputs[c][entry[i]])
    BY <2>1, <2>2, <2>6
  <2>9. ASSUME NEW i \in DOMAIN Mainlines, Mainlines[i] \notin asked' \/ Met(c, d, i)'
        PROVE  inputs'[c][entry[i]] <=> ustate'[Mainlines[i]] = "active"
    <3>1. CASE i = k
      BY <2>5, <2>7, <3>1
    <3>2. CASE i # k
      BY <1>b, <2>1, <2>3, <2>5, <2>8, <2>9, <3>2
    <3> QED
      BY <3>1, <3>2
  <2>10. \A l \in Line : inputs'[c][l] => \E i \in DOMAIN Mainlines : l = entry[i]
    BY <1>b, <2>1, <2>2
  <2> QED
    BY <2>9, <2>10 DEF InputsFollow
<1>13. CASE (GlobOver \/ DispatchGlob \/ UnitGlob) /\ pass = "upstream"
  BY <1>13 DEF GlobOver, PassOver, DispatchGlob, UnitGlob, Entered
<1> QED
  BY <1>2, <1>3, <1>4, <1>5, <1>6, <1>7, <1>8, <1>9, <1>10, <1>11, <1>12, <1>13 DEF Next, Rack

LEMMA NextDispatchFollows ==
  ASSUME NEW c, NEW d, NEW lane, NEW entry, LanesEnter(c, d, lane, entry), IInv,
         OnLane(c, d, lane), OneAsks, StepsFollow, LineCarries(c, d), InputsFollow(c, d, entry),
         DispatchFollows(c, d), [Next]_vars
  PROVE  DispatchFollows(c, d)'
<1>0. LanesMeet(c, d, lane) /\ TypeOK /\ Calls
  BY DEF LanesEnter, IInv
<1>a. SUFFICES ASSUME alone', calm' PROVE DispatchFollows(c, d)'
  BY DEF DispatchFollows
<1>b. alone /\ calm
  BY <1>a, HistoryFalls
<1>c. /\ c # d /\ d \in Units /\ Combines = {c}
      /\ ustate \in [Units -> State] /\ ustate[d] \in {"inactive", "active"}
      /\ rackState \in {"inactive", "active"}
      /\ pass = "none" => ustate[d] = rackState
      /\ Kind[d] = "dispatch"
  BY <1>0, RackKnows DEF LanesMeet
<1>1. ASSUME UNCHANGED <<inputs, rackState, pass>>, ustate'[d] = ustate[d],
             Pending(c, d)' <=> Pending(c, d),
             pass = "upstream" => \A s : Arriving(c, d, s)' <=> Arriving(c, d, s)
      PROVE  DispatchFollows(c, d)'
  <2>1. SomeInput' <=> SomeInput
    BY <1>1 DEF SomeInput
  <2> QED
    BY <1>b, <1>1, <2>1 DEF DispatchFollows
<1>2. ASSUME pass # "upstream", pass' # "upstream", inputs' = inputs, ustate'[d] = ustate[d]
      PROVE  DispatchFollows(c, d)'
  <2>1. SomeInput' <=> SomeInput
    BY <1>2 DEF SomeInput
  <2> QED
    BY <1>b, <1>2, <2>1 DEF DispatchFollows
<1>3. ASSUME NEW u \in Units, Request(u)
      PROVE  DispatchFollows(c, d)'
  <2>1. UNCHANGED <<inputs, ustate, rackState, bogus, asked, pass, mainline, stack>>
    BY <1>3 DEF Request, profileVars
  <2> QED
    BY <1>1, <2>1 DEF Pending, Met, Descending, Arriving, StateOf, Top
<1>4. ASSUME NEW u \in Units, NEW s \in State, Register(u, s)
      PROVE  DispatchFollows(c, d)'
  <2>1. /\ pass = "none" /\ UNCHANGED <<inputs, pass>> /\ Kind[u] # "dispatch"
        /\ ustate' = [ustate EXCEPT ![u] = s]
    BY <1>4, <1>a DEF Register, rackVars
  <2> QED
    BY <1>2, <1>c, <2>1
<1>5. CASE UNCHANGED vars
  <2>1. UNCHANGED <<inputs, ustate, rackState, bogus, asked, pass, mainline, stack>>
    BY <1>5 DEF vars, profileVars, rackVars, askVars
  <2> QED
    BY <1>1, <2>1 DEF Pending, Met, Descending, Arriving, StateOf, Top
<1>6. CASE SyncBegins
  <2>1. /\ stack' = <<>> /\ UNCHANGED <<inputs, ustate, rackState>> /\ pass = "none"
    BY <1>0, <1>6 DEF SyncBegins, Calls, profileVars
  <2>2. (SomeInput' <=> SomeInput) /\ \A s : ~Arriving(c, d, s)'
    BY <2>1 DEF SomeInput, Arriving
  <2>3. ustate[d] = "active" <=> SomeInput
    BY <1>b, <2>1 DEF DispatchFollows
  <2> QED
    BY <1>c, <2>1, <2>2, <2>3 DEF DispatchFollows
<1>7. CASE UpstreamOver
  <2>1. /\ pass = "upstream" /\ pass' # "upstream" /\ UNCHANGED <<inputs, ustate>>
        /\ \A s : ~Arriving(c, d, s)
    BY <1>0, <1>7, PassEnds
  <2>2. ~Pending(c, d)
    BY <1>0, <1>7, MetAtTheEnd DEF Pending
  <2>3. SomeInput' <=> SomeInput
    BY <2>1 DEF SomeInput
  <2>4. ustate[d] = "active" <=> SomeInput
    BY <1>b, <1>c, <2>1, <2>2 DEF DispatchFollows
  <2> QED
    BY <2>1, <2>3, <2>4 DEF DispatchFollows
<1>8. CASE pass # "upstream" /\ Rack /\ ~SyncBegins
  BY <1>2, <1>8
     DEF Rack, NextMainline, UpstreamOver, GlobOver, NextOutput, SyncLineReturns,
         MainlineUpstream, StepAsked, StepFollows, CombineOn, CombineOff, DispatchUpstream,
         DispatchGlob, UnitGlob, Entered, profileVars
<1>9. CASE NextMainline /\ pass = "upstream"
  BY <1>0, <1>1, <1>9, LineBegins, MetAtNextLine
<1>10. CASE pass = "upstream" /\ (NextOutput \/ SyncLineReturns)
  <2>1. Quiet(c, d)
    BY <1>0, <1>10, NextOutputIsQuiet, ReturnIsQuiet
  <2>2. asked' = asked
    BY <1>10, CallsDoNotAsk DEF askVars
  <2> QED
    BY <1>1, <2>1, <2>2, MetIsKept DEF Quiet
<1>11. CASE MainlineUpstream \/ StepAsked \/ StepFollows
  <2>1. Quiet(c, d)
    BY <1>0, <1>11, ContinueIsQuiet
  <2>2. asked' = asked
    BY <1>11, CallsDoNotAsk DEF askVars
  <2> QED
    BY <1>1, <2>1, <2>2, MetIsKept DEF Quiet
<1>12. CASE DispatchUpstream
  <2> DEFINE s == StateOf(Top.profile)
  <2>1. /\ pass = "upstream" /\ stack # <<>>
        /\ UNCHANGED <<inputs, rackState, pass, mainline>>
        /\ ustate'[d] = IF s # rackState THEN s ELSE ustate[d]
        /\ ~Descending(c, d)' /\ ~Descending(c, d) /\ \A r : ~Arriving(c, d, r)'
        /\ \A r : Arriving(c, d, r) <=> s = r
    BY <1>0, <1>12, DispatchIsTold
  <2>2. s \in {"inactive", "active"}
    BY <1>0, <2>1, AtTheTop
  <2> HIDE DEF s
  <2>3. asked' = asked
    BY <1>12, CallsDoNotAsk DEF askVars
  <2>4. Pending(c, d)' <=> Pending(c, d)
    BY <2>1, <2>3, MetIsKept
  <2>5. SomeInput' <=> SomeInput
    BY <2>1 DEF SomeInput
  <2>6. ~Pending(c, d)
    BY <1>b, <2>1, <2>2 DEF DispatchFollows, State
  <2>7. /\ rackState = "inactive" => (SomeInput <=> ustate[d] = "active" \/ s = "active")
        /\ rackState = "active" => (~SomeInput <=> ustate[d] = "inactive" \/ s = "inactive")
        /\ s # rackState
    BY <1>b, <2>1, <2>6 DEF DispatchFollows
  <2> QED
    BY <1>c, <2>1, <2>2, <2>4, <2>5, <2>6, <2>7 DEF DispatchFollows
<1>13. CASE CombineOn \/ CombineOff
  <2> DEFINE k == mainline - 1
             s == StateOf(Top.profile)
  <2>1. /\ k \in DOMAIN Mainlines /\ Top.line = entry[k] /\ s = ustate[Mainlines[k]]
        /\ ~Met(c, d, k)
        /\ \A i \in DOMAIN Mainlines : Met(c, d, i)' <=> Met(c, d, i) \/ i = k
    BY <1>b, <1>13, CombineIsMet
  <2>2. /\ pass = "upstream" /\ stack # <<>> /\ Top.line \in Line
        /\ UNCHANGED <<rackState, pass>> /\ ustate'[d] = ustate[d]
        /\ \A l \in Line : inputs'[c][l] <=> IF l = Top.line THEN s = "active" ELSE inputs[c][l]
        /\ \A r : ~Arriving(c, d, r)
        /\ \A r : Arriving(c, d, r)' <=> s # rackState /\ (s = "active" \/ ~SomeInput') /\ r = s
    BY <1>0, <1>13, <1>c, CombineIsCalled
  <2>3. s \in {"inactive", "active"}
    BY <1>0, <2>2, AtTheTop
  <2> HIDE DEF k, s
  <2>4. asked' = asked /\ \A u, v \in asked : u = v
    BY <1>13, <1>b, CallsDoNotAsk DEF askVars, OneAsks
  <2>5. \A i \in DOMAIN Mainlines : Mainlines[i] = Mainlines[k] => i = k
    <3>1. \A i \in DOMAIN Mainlines : lane[Mainlines[i]] = i
      BY <1>0 DEF LanesMeet
    <3> QED
      BY <2>1, <3>1
  <2>6. /\ SomeInput <=> \E l \in Line : inputs[c][l]
        /\ SomeInput' <=> \E l \in Line : inputs'[c][l]
    BY <1>c DEF SomeInput
  <2>7. s = "active" => SomeInput'
    BY <2>2, <2>6
  <2>8. CASE Mainlines[k] \in asked
    <3>1. Pending(c, d)
      BY <2>1, <2>8 DEF Pending
    <3>2. ~Pending(c, d)'
      BY <2>1, <2>4, <2>5, <2>8 DEF Pending
    <3>3. ustate[d] = rackState /\ (rackState = "active" <=> SomeInput)
      BY <1>b, <2>2, <3>1 DEF DispatchFollows
    <3>4. s = "inactive" /\ ~SomeInput => ~SomeInput'
      BY <2>2, <2>3, <2>6
    <3>5. CASE rackState = "inactive"
      BY <2>2, <2>3, <2>7, <3>2, <3>3, <3>4, <3>5 DEF DispatchFollows
    <3>6. CASE rackState = "active"
      BY <2>2, <2>3, <2>7, <3>2, <3>3, <3>6 DEF DispatchFollows
    <3> QED
      BY <1>c, <3>5, <3>6
  <2>9. CASE Mainlines[k] \notin asked
    <3>1. inputs[c][entry[k]] <=> s = "active"
      BY <1>b, <2>1, <2>9 DEF InputsFollow
    <3>2. SomeInput' <=> SomeInput
      BY <2>1, <2>2, <2>6, <3>1
    <3>3. Pending(c, d)' <=> Pending(c, d)
      BY <2>1, <2>4, <2>9 DEF Pending
    <3>4. CASE Pending(c, d)
      <4>1. ustate[d] = rackState /\ (rackState = "active" <=> SomeInput)
        BY <1>b, <2>2, <3>4 DEF DispatchFollows
      <4>2. \A r : ~Arriving(c, d, r)'
        BY <1>c, <2>2, <2>3, <2>7, <3>2, <4>1
      <4> QED
        BY <2>2, <3>2, <3>3, <3>4, <4>1, <4>2 DEF DispatchFollows
    <3>5. CASE ~Pending(c, d)
      <4>1. /\ rackState = "inactive" => (SomeInput <=> ustate[d] = "active")
            /\ rackState = "active" => (~SomeInput <=> ustate[d] = "inactive")
        BY <1>b, <2>2, <3>5 DEF DispatchFollows
      <4>2. CASE rackState = "inactive"
        BY <2>2, <2>3, <2>7, <3>2, <3>3, <3>5, <4>1, <4>2 DEF DispatchFollows
      <4>3. CASE rackState = "active"
        BY <2>2, <2>3, <2>7, <3>2, <3>3, <3>5, <4>1, <4>3 DEF DispatchFollows
      <4> QED
        BY <1>c, <4>2, <4>3
    <3> QED
      BY <3>4, <3>5
  <2> QED
    BY <2>8, <2>9
<1>14. CASE (GlobOver \/ DispatchGlob \/ UnitGlob) /\ pass = "upstream"
  BY <1>14 DEF GlobOver, PassOver, DispatchGlob, UnitGlob, Entered
<1> QED
  BY <1>3, <1>4, <1>5, <1>6, <1>7, <1>8, <1>9, <1>10, <1>11, <1>12, <1>13, <1>14 DEF Next, Rack

(* On such a rack, if it was started inactive and its mainlines change one *)
(* at a time between the passes, the rack is active exactly when one of    *)
(* them is (combine.cpp lines 18-47, dispatch.cpp lines 14-35).            *)
THEOREM RackIsWhatItsLinesAre ==
  ASSUME NEW c, NEW d, NEW lane, NEW entry, LanesEnter(c, d, lane, entry)
  PROVE  Spec => []RackFollowsLines
<1> DEFINE Inv == IInv /\ OnLane(c, d, lane) /\ Following(c, d, entry)
<1>0. LanesMeet(c, d, lane)
  BY DEF LanesEnter
<1>1. Init => Inv
  <2> SUFFICES ASSUME Init PROVE Inv
    OBVIOUS
  <2>1. IInv /\ c \in Combines /\ d \in Dispatches /\ Combines = {c}
    BY <1>0, InitIInv DEF LanesMeet
  <2>2. OnLane(c, d, lane) /\ OneAsks /\ GlobFollows /\ StepsFollow /\ LineCarries(c, d)
    BY DEF Init, OnLane, OneAsks, GlobFollows, StepsFollow, LineCarries
  <2>3. \A l \in Line : ~inputs[c][l]
    BY <2>1 DEF Init
  <2>4. \A i \in DOMAIN Mainlines : ustate[Mainlines[i]] = "inactive" /\ entry[i] \in Line
    BY MainlinesAreMainlines DEF Init, Dispatches, LanesEnter
  <2>5. InputsFollow(c, d, entry)
    BY <2>3, <2>4 DEF InputsFollow
  <2>6. alone => ustate[d] = "inactive"
    BY <2>1 DEF Init, Dispatches
  <2>7. ~SomeInput
    BY <2>1, <2>3 DEF SomeInput
  <2>8. DispatchFollows(c, d)
    BY <2>6, <2>7 DEF Init, DispatchFollows
  <2> QED
    BY <2>1, <2>2, <2>5, <2>8 DEF Following
<1>2. Inv /\ [Next]_vars => Inv'
  <2> SUFFICES ASSUME Inv, [Next]_vars PROVE Inv'
    OBVIOUS
  <2>0. TypeOK /\ Calls
    BY DEF IInv
  <2>1. IInv'
    BY NextTypeOK, NextCalls, NextBetweenGlobs, NextInGlob DEF IInv
  <2>2. OnLane(c, d, lane)'
    BY <1>0, NextOnLane
  <2>3. OneAsks' /\ GlobFollows' /\ StepsFollow'
    BY <2>0, NextOneAsks, NextStepsFollow DEF Following
  <2>4. LineCarries(c, d)' /\ InputsFollow(c, d, entry)' /\ DispatchFollows(c, d)'
    BY NextLineCarries, NextInputsFollow, NextDispatchFollows DEF Following
  <2> QED
    BY <2>1, <2>2, <2>3, <2>4 DEF Following
<1>3. Inv => RackFollowsLines
  <2> SUFFICES ASSUME Inv, alone, calm, Settled
               PROVE  rackState = "active" <=>
                        \E i \in DOMAIN Mainlines : ustate[Mainlines[i]] = "active"
    BY DEF RackFollowsLines
  <2>1. asked = {} /\ pass = "none"
    BY DEF Following, OneAsks, Settled
  <2>2. ustate[d] = rackState /\ Combines = {c}
    BY <1>0, <2>1, RackKnows DEF LanesMeet
  <2>3. ustate[d] = "active" <=> SomeInput
    BY <2>1 DEF Following, DispatchFollows
  <2>4. /\ \A i \in DOMAIN Mainlines : inputs[c][entry[i]] <=> ustate[Mainlines[i]] = "active"
        /\ \A l \in Line : inputs[c][l] => \E i \in DOMAIN Mainlines : l = entry[i]
    BY <2>1 DEF Following, InputsFollow
  <2>5. \A i \in DOMAIN Mainlines : entry[i] \in Line
    BY DEF LanesEnter
  <2> QED
    BY <2>2, <2>3, <2>4, <2>5 DEF SomeInput
<1> QED
  BY <1>1, <1>2, <1>3, PTL DEF Spec

=============================================================================
