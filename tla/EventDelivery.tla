--------------------------- MODULE EventDelivery ---------------------------
(***************************************************************************)
(* What the event loop of framework/events/loop.cpp promises its clients:  *)
(* the listeners are called one at a time, event after event in the order  *)
(* in which the events were accepted, and for each event every listener of *)
(* its type once.                                                          *)
(***************************************************************************)
EXTENDS Integers, Sequences

CONSTANTS
  Types,        \* event types
  MaxEvents,    \* bound: events accepted
  MaxListeners  \* bound: listeners of one type

VARIABLES
  listeners,  \* number of listeners of a type
  accepted,   \* types of the accepted events, oldest first
  heard,      \* how many calls were made for an event
  done        \* the events all of whose listeners were called

vars == <<listeners, accepted, heard, done>>

Init ==
  /\ listeners = [t \in Types |-> 0]
  /\ accepted = <<>>
  /\ heard = [e \in 1 .. MaxEvents |-> 0]
  /\ done = {}

(* Listeners are registered while no event is on its way. *)
AddListener(t) ==
  /\ listeners[t] < MaxListeners
  /\ DOMAIN accepted \subseteq done
  /\ listeners' = [listeners EXCEPT ![t] = @ + 1]
  /\ UNCHANGED <<accepted, heard, done>>

(* An event nobody listens to is not accepted. *)
Accept(t) ==
  /\ listeners[t] > 0
  /\ Len(accepted) < MaxEvents
  /\ accepted' = Append(accepted, t)
  /\ UNCHANGED <<listeners, heard, done>>

(* The next listener of the oldest event that is not done is called. *)
Call(e) ==
  /\ e \in DOMAIN accepted \ done
  /\ 1 .. e - 1 \subseteq done
  /\ heard' = [heard EXCEPT ![e] = @ + 1]
  /\ done' = IF heard[e] + 1 = listeners[accepted[e]] THEN done \cup {e} ELSE done
  /\ UNCHANGED <<listeners, accepted>>

Calls == \E e \in 1 .. MaxEvents : Call(e)

Next ==
  \/ \E t \in Types : AddListener(t) \/ Accept(t)
  \/ Calls

(* When an event is delivered is left to whoever calls the listeners. *)
Spec == Init /\ [][Next]_vars

=============================================================================
