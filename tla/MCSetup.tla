------------------------------ MODULE MCSetup ------------------------------
(* A small instance of Setup.  The documents are of three families: graphs *)
(* of two units, libraries that fail, and controllers.                     *)
EXTENDS Setup

Library == [so |-> "good", old |-> "broken", gone |-> "absent"]

(* Source has more outputs than inputs, Mixer more inputs than outputs. *)
Model ==
  [Source |-> [outs |-> <<"left", "right">>, ins |-> <<"power">>,
               exports |-> {"gain"}, leds |-> {"on"}],
   Mixer |-> [outs |-> <<"left">>, ins |-> <<"power", "in">>,
              exports |-> {"gain", "mute"}, leds |-> {"on"}]]

Unit(library, model, bindings, leds) ==
  [library |-> library, model |-> model, bindings |-> bindings, leds |-> leds]
PlainUnits == [a |-> Unit("so", "Source", {}, <<>>), b |-> Unit("so", "Mixer", {}, <<>>)]

Link(from, plug, to, jack) == [from |-> from, plug |-> plug, to |-> to, jack |-> jack]
Doc(midi, chains, us, num) ==
  [midi |-> midi, mainlines |-> <<"ac">>, chains |-> chains, units |-> us, workers |-> num,
   linux |-> Null]

RackLinks == {Link("rack", plug, to, "power") : plug \in {"ac", "dc"}, to \in {"a", "b"}}
UnitLinks ==
  {Link(from, plug, to, IF to = "b" THEN "in" ELSE "power") :
     from \in {"a", "b"}, plug \in {"left", "right"}, to \in {"a", "b"}}
    \cup {Link("a", "left", "b", "power"), Link("a", "right", "a", "in")}

Graphs == {Doc(<<>>, chains, us, 3) :
  chains \in SeqOf(RackLinks \cup UnitLinks, 3),
  us \in {PlainUnits, [a |-> PlainUnits.a]}}

Linux(policy, priority, affinity) ==
  [policy |-> policy, priority |-> priority, affinity |-> affinity]

Failing == {[Doc(<<>>, <<Link("rack", "ac", "a", "power"), Link("a", "left", "b", "in"),
                        Link("rack", "ac", "b", "power")>>,
                [a |-> PlainUnits.a, b |-> Unit(library, model, {}, <<>>)], Null)
              EXCEPT !.linux = linux] :
  linux \in {Linux("SCHED_FIFO", 5, Null), Linux("SCHED_NONE", Null, 1), Linux(Null, Null, 0)},
  library \in DOMAIN Library, model \in {"Mixer", "none"}}

Bind(name, module, code) == [name |-> name, module |-> module, code |-> code]
Led(device, code, valued) ==
  [state |-> "on", device |-> device, code |-> code, mode |-> "steady", valued |-> valued]
Controls == {Doc(<<[label |-> "pad", port |-> p1, on |-> 1], [label |-> "knob", port |-> p2, on |-> 2]>>,
                 <<Link("rack", "ac", "a", "power"), Link("a", "left", "b", "in")>>,
                 [a |-> Unit("so", "Source", {Bind("gain", "pad", 1), Bind("mute", "pad", 2)},
                             <<Led(Null, 1, FALSE), Led("pad", 1, TRUE), Led("knob", 2, TRUE)>>),
                  b |-> Unit("so", "Mixer", {Bind("gain", "knob", Null), Bind("gain", module, 1), Bind("mute", "pad", 2)},
                             <<Led(module, 2, valued)>>)],
                 3) :
  p1 \in {"hw", NoPort, Plain}, p2 \in {"hw", NoPort, Plain}, module \in {"pad", "knob"}, valued \in BOOLEAN}

Document == Graphs \cup Failing \cup Controls \cup {NoFile}

=============================================================================
