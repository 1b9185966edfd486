---------------------------- MODULE MCLineState ----------------------------
(* The daisychains of an instance of LineState: the lines of two mainlines *)
(* a and b meet in a combine before the dispatch.  The step unit is on the *)
(* line of b: no mainline comes after it to make up for what it does.      *)
EXTENDS LineState

CONSTANTS a, b, step, combine, dispatch

MCUnits == {a, b, step, combine, dispatch}

MCKind ==
  [u \in MCUnits |->
     CASE u \in {a, b} -> "mainline"
       [] u = step -> "step"
       [] u = combine -> "combine"
       [] u = dispatch -> "dispatch"]

To(u, l) == <<[to |-> u, line |-> l]>>

MCOut ==
  [u \in MCUnits |->
     CASE u = a -> To(combine, 0)
       [] u = b -> To(step, 0)
       [] u = step -> To(combine, 1)
       [] u = combine -> To(dispatch, 0)
       [] u = dispatch -> <<>>]

MCMainlines == <<a, b>>

(* The lines are as the theorems about such racks ask for. *)
MCLane == [u \in MCUnits |-> CASE u = a -> 1 [] u \in {b, step} -> 2 [] OTHER -> 0]

ASSUME LanesAreEntered == LanesEnter(combine, dispatch, MCLane, <<0, 1>>)

=============================================================================
