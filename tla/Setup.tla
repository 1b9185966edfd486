------------------------------- MODULE Setup -------------------------------
(***************************************************************************)
(* routine::system::setup: a configuration document is parsed              *)
(* (config/document.cpp) into a description, from which the assembler      *)
(* (config/assembler.cpp) mounts units on the rack (component/mount.cpp),  *)
(* links them (component/linkable.cpp) and binds them to the midi          *)
(* controllers; then the queue and the controllers are started, and the    *)
(* owner of the rack uses it, stops the controllers or does not, and       *)
(* destroys it.                                                            *)
(*                                                                         *)
(* A document is a record: its controllers in the order of their labels,   *)
(* its mainlines and daisychains, the units it describes, and what it says *)
(* of the system.  `NoPort' stands for the port of a controller whose      *)
(* object does not have one, and `Plain' for a controller that is not an   *)
(* object.  Objects are visited by key: midi, rack, system.                *)
(***************************************************************************)
EXTENDS MidiHandler

CONSTANTS
  Documents,  \* the documents setup may be given
  NoFile,     \* the document of a file that is not there
  NoPort, Plain,
  Garbage,    \* a value that was never written
  Libraries,  \* what is found at a path: "good", "broken" or "absent"
  Models      \* the units a library builds: their ports, exports and leds

(* A document as picojson hands it out; Null stands for a key that is not  *)
(* there.  Of the value of a led, a byte of its messages, only whether it  *)
(* is there is kept.                                                       *)
DocumentUnit ==
  [library : DOMAIN Libraries, model : STRING,
   bindings : SUBSET [name : STRING, module : STRING \cup {Null}, code : Codes \cup {Null}],
   leds : Seq([state : STRING, device : STRING \cup {Null}, code : Codes \cup {Null},
               mode : STRING \cup {Null}, valued : BOOLEAN])]

IsDocument(d) ==
  /\ d \in [midi : Seq([label : STRING, port : STRING \cup {NoPort, Plain}, on : Nat]),
            mainlines : Seq(STRING),
            chains : Seq([from : STRING, plug : STRING, to : STRING, jack : STRING]),
            units : [DOMAIN d.units -> DocumentUnit],
            workers : Nat \cup {Null},
            linux : {Null} \cup [policy : STRING \cup {Null}, priority : Nat \cup {Null},
                                affinity : Int \cup {Null}]]
  /\ DOMAIN d.units \subseteq STRING

ASSUME DocumentsAssumption ==
  /\ NoFile \in Documents
  /\ \A d \in Documents \ {NoFile} : IsDocument(d)

ASSUME LibrariesAssumption ==
  /\ DOMAIN Libraries \subseteq STRING
  /\ Libraries \in [DOMAIN Libraries -> {"good", "broken", "absent"}]
  /\ Models \in [DOMAIN Models -> [outs : Seq(STRING), ins : Seq(STRING),
                                  exports : SUBSET STRING, leds : SUBSET STRING]]

ASSUME NotAValueAssumption ==
  /\ {Null, NoPort, Plain} \cap STRING = {}
  /\ Null \notin Nat \cup Codes \cup (STRING \X Nat) /\ Garbage \notin Int

VARIABLES
  pc,        \* where the thread that calls setup is, or how it ended
  doc,       \* the document
  desc,      \* the description
  link,      \* the daisychain the assembler is at
  workers,   \* the size of the queue
  mainlines, \* m_mainlines of the rack: a unit for each plug
  raw,       \* m_raw_mainlines
  schedule,  \* m_schpolicy of the rack: policy, priority and affinity
  units,     \* m_mounted: the ports of each unit, its id and its utilities
  registry,  \* m_registry: the labels of the registered units
  loaded,    \* m_libraries of the unit_loader
  toStop,    \* the devices of m_active_dev that stop() has not been through
  stray      \* history: a controller has called into a destroyed unit

rackVars == <<workers, mainlines, raw, schedule, units, registry, loaded>>
vars == <<midiVars, rackVars, pc, doc, desc, link, toStop, stray>>

(* The sched_desc of a rack: all zero. *)
NoSchedule == [policy |-> "SCHED_OTHER", priority |-> 0, affinity |-> 0]

Init ==
  /\ MidiInit
  /\ pc = "load" /\ doc \in Documents
  /\ desc = Null /\ link = 1
  /\ workers = 2 /\ mainlines = <<>> /\ raw = <<>>
  /\ schedule = NoSchedule
  /\ units = <<>> /\ registry = <<>> /\ loaded = {}
  /\ toStop = {} /\ stray = FALSE

-----------------------------------------------------------------------------
(* Variants: a definition named Bad... is a mistake in the one that        *)
(* follows it, and shows what the properties below would notice.           *)

(* The first controller that parse_document stumbles over, or one past the *)
(* last.                                                                   *)
Stumbles(d) ==
  LET odd == {i \in DOMAIN d.midi : d.midi[i].port \in {NoPort, Plain}} IN
  IF odd = {} THEN Len(d.midi) + 1 ELSE Min(odd)

(* parse_bindings and parse_leds: entries that lack one of the parts are   *)
(* passed over.                                                            *)
ParsedBindings(bindings) == {b \in bindings : Null \notin {b.module, b.code}}

ParsedLeds(leds) ==
  [n \in {k \in DOMAIN leds : Null \notin {leds[k].device, leds[k].code, leds[k].mode}} |->
     [state |-> leds[n].state, device |-> leds[n].device, code |-> leds[n].code,
      mode |-> leds[n].mode]]

ParsedUnit(u) ==
  [library |-> u.library, model |-> u.model,
   bindings |-> ParsedBindings(u.bindings), leds |-> ParsedLeds(u.leds)]

(* parse_rack: the units that are the end of a daisychain and are          *)
(* described, each once.                                                   *)
ParsedUnits(d) ==
  [u \in {d.chains[i].to : i \in DOMAIN d.chains} \cap DOMAIN d.units |->
     ParsedUnit(d.units[u])]

(* parse_syslinux: the policy and the priority have defaults, the affinity *)
(* only if there is a section about linux at all.                          *)
ParsedLinux(linux) ==
  IF linux = Null
  THEN [policy |-> "SCHED_OTHER", priority |-> 0, affinity |-> Garbage]
  ELSE [policy |-> IF linux.policy = Null THEN "SCHED_OTHER" ELSE linux.policy,
        priority |-> IF linux.priority = Null THEN 0 ELSE linux.priority,
        affinity |-> IF linux.affinity = Null THEN -1 ELSE linux.affinity]

(* A controller without a port ends parse_document at once: neither the    *)
(* rack nor the system, which come later, is looked at.  new does not      *)
(* initialise the numbers of the description.                              *)
Parsed(d) ==
  LET whole == Stumbles(d) > Len(d.midi) IN
  [controllers |-> SubSeq(d.midi, 1, Stumbles(d) - 1),
   mainlines |-> IF whole THEN d.mainlines ELSE <<>>,
   chains |-> IF whole THEN d.chains ELSE <<>>,
   units |-> IF whole THEN ParsedUnits(d) ELSE <<>>,
   workers |-> IF whole /\ d.workers # Null THEN d.workers ELSE Garbage,
   linux |-> ParsedLinux(IF whole THEN d.linux ELSE Null)]

(* get() throws: of a controller that is not an object, or, if the whole   *)
(* document is read, of the value that an entry about a led lacks, which,  *)
(* unlike its other parts, nobody has asked for before.                    *)
Throws(d) ==
  IF Stumbles(d) <= Len(d.midi) THEN d.midi[Stumbles(d)].port = Plain
  ELSE \E u \in DOMAIN ParsedUnits(d) :
         \E n \in DOMAIN ParsedLeds(d.units[u].leds) : ~d.units[u].leds[n].valued

(* document::load.  A file that is not there ends the process, and what    *)
(* get() throws is not caught.                                             *)
Load ==
  /\ pc = "load"
  /\ IF doc = NoFile THEN pc' = "exited" /\ UNCHANGED desc
     ELSE IF Throws(doc) THEN pc' = "thrown" /\ UNCHANGED desc
     ELSE pc' = "assemble" /\ desc' = Parsed(doc)
  /\ UNCHANGED <<midiVars, rackVars, doc, link, toStop, stray>>

SizeQueue == workers' = desc.workers

(* add_mainline: what is a mainline twice is added once. *)
AddMainlines(plugs) == [plug \in plugs |-> Null]
AssembleMainlines == mainlines' = AddMainlines(ToSet(desc.mainlines))

AssembleDevices == devices' = [i \in DOMAIN desc.controllers |-> Device(desc.controllers[i])]

AssembleParts ==
  /\ pc = "assemble" /\ pc' = "chains"
  /\ SizeQueue /\ AssembleMainlines /\ AssembleDevices
  /\ UNCHANGED <<active, ledMap, doc, desc, link, raw, schedule, units, registry,
                 loaded, toStop, stray>>

-----------------------------------------------------------------------------
(* linkable: has_output and has_input find the first port with the label.  *)
Found(ports, label) ==
  LET labelled == {n \in DOMAIN ports : ports[n].label = label} IN
  IF labelled = {} THEN 0 ELSE Min(labelled)

(* The unit that unit_loader builds: its ports in the order of add_output  *)
(* and add_input, none of them connected.                                  *)
Built(model) ==
  [id |-> Null, utilities |-> {},
   outs |-> [i \in DOMAIN Models[model].outs |->
              [label |-> Models[model].outs[i], to |-> Null]],
   ins |-> [i \in DOMAIN Models[model].ins |->
              [label |-> Models[model].ins[i], connected |-> FALSE]]]

(* register_component: the id is the place in the registry. *)
RegisterComponent(label) == registry' = Append(registry, label)
Registered(unit) == [unit EXCEPT !.id = Len(registry)]
WithId(id) == registry[id + 1]

(* mount_dependencies gives a unit what setup has given the rack.          *)
Utilities == {"queue", "loop", "midi", "cache", "registry"}
MountDependencies(unit) ==
  [unit EXCEPT !.utilities = @ \cup {"rack"} \cup (Utilities \ {"midi", "registry"})]

(* add_unit: insert keeps a unit that is mounted under the label.          *)
AddUnit(us, label, unit) == Inserted(us, [u \in {label} |-> MountDependencies(unit)])

(* get_unit and has_unit: what is mounted under the label, or nothing.     *)
HasUnit(us, label) == label \in DOMAIN us

(* connect() of output o of unit u to input i of unit v, and the units as  *)
(* they are afterwards.  `connected' of an output says that `to' is set.   *)
BadConnected(us, u, o, v, i) == [us EXCEPT ![u].outs[o].to = <<v, i>>]

Connected(us, u, o, v, i) ==
  [us EXCEPT ![u].outs[o].to = <<v, i>>, ![v].ins[i].connected = TRUE]

(* connect_mainline and connect_units.  What cannot be connected is left   *)
(* as it is, and the assembler does not look at the result.                *)
BadConnect(us, c) ==
  /\ mainlines' = IF c.from = "rack" /\ c.plug \in DOMAIN mainlines /\ HasUnit(us, c.to)
                  THEN [mainlines EXCEPT ![c.plug] = c.to] ELSE mainlines
  /\ raw' = IF c.from = "rack" /\ HasUnit(us, c.to) THEN Append(raw, c.to) ELSE raw
  /\ units' = us

Connect(us, c) ==
  LET onRack == c.from = "rack" /\ c.plug \in DOMAIN mainlines /\ HasUnit(us, c.to)
      o == Found(us[c.from].outs, c.plug)
      i == Found(us[c.to].ins, c.jack)
  IN /\ mainlines' = IF onRack THEN [mainlines EXCEPT ![c.plug] = c.to] ELSE mainlines
     /\ raw' = IF onRack THEN Append(raw, c.to) ELSE raw
     /\ units' = IF /\ c.from # "rack"
                    /\ HasUnit(us, c.from) /\ HasUnit(us, c.to)
                    /\ o > 0 /\ i > 0
                 THEN Connected(us, c.from, o, c.to, i) ELSE us

(* What a unit registers: midi handlers and the states of its leds. *)
MidiHandlers(model) == Models[model].exports
MidiLeds(model) == Models[model].leds

(* assemble_bindings: what the document binds and the unit exports.        *)
Binds(devs, u, described) ==
  AddBindings(devs, {b \in described.bindings : b.name \in MidiHandlers(described.model)}, u)

(* assemble_leds. *)
Lights(map, u, described) ==
  LET leds == described.leds
      known == {n \in DOMAIN leds : leds[n].state \in MidiLeds(described.model)}
  IN LedsAdded(map, u, Restrict(leds, known))

-----------------------------------------------------------------------------
ChainsLeft == pc = "chains" /\ link <= Len(desc.chains)
ThisChain == desc.chains[link]
ThisUnit == desc.units[ThisChain.to]

(* library::load; its constructor throws nothing at all when the file is   *)
(* there and cannot be linked, which terminates the process.  load_symbol  *)
(* finds the function that builds the unit.                                *)
Opened(library, as) == Libraries[library] = as
HasSymbol(model) == model \in DOMAIN Models

(* unit_description, of a unit that is not described, does the same. *)
Terminates ==
  /\ ChainsLeft
  /\ \/ ThisChain.to \notin DOMAIN desc.units
     \/ ThisChain.to \in DOMAIN desc.units \ DOMAIN units /\ Opened(ThisUnit.library, "broken")
  /\ pc' = "terminated"
  /\ UNCHANGED <<midiVars, rackVars, doc, desc, link, toStop, stray>>

(* check_unit finds the unit mounted, or cannot load it: nothing is        *)
(* mounted.  A library that was opened stays.                              *)
ChainOnly ==
  /\ ChainsLeft /\ ThisChain.to \in DOMAIN desc.units
  /\ \/ HasUnit(units, ThisChain.to) /\ UNCHANGED loaded
     \/ /\ ~HasUnit(units, ThisChain.to)
        /\ Opened(ThisUnit.library, "absent") /\ UNCHANGED loaded
     \/ /\ ~HasUnit(units, ThisChain.to)
        /\ Opened(ThisUnit.library, "good") /\ ~HasSymbol(ThisUnit.model)
        /\ loaded' = loaded \cup {ThisUnit.library}
  /\ Connect(units, ThisChain)
  /\ link' = link + 1
  /\ UNCHANGED <<midiVars, pc, doc, desc, workers, schedule, registry, toStop, stray>>

(* What check_unit makes of a unit that could be loaded. *)
LoadedUnit == [Registered(Built(ThisUnit.model)) EXCEPT !.utilities = {"led"}]

(* check_unit builds the unit, registers it, binds it to the controllers,  *)
(* configures and mounts it; then the daisychain is connected.             *)
MountAndChain ==
  /\ ChainsLeft /\ ThisChain.to \in DOMAIN desc.units \ DOMAIN units
  /\ Opened(ThisUnit.library, "good") /\ HasSymbol(ThisUnit.model)
  /\ loaded' = loaded \cup {ThisUnit.library}
  /\ RegisterComponent(ThisChain.to)
  /\ devices' = Binds(devices, ThisChain.to, ThisUnit)
  /\ ledMap' = Lights(ledMap, ThisChain.to, ThisUnit)
  /\ Connect(AddUnit(units, ThisChain.to, LoadedUnit), ThisChain)
  /\ link' = link + 1
  /\ UNCHANGED <<active, pc, doc, desc, workers, schedule, toStop, stray>>

(* assemble_schpolicy: a policy that is not known is the ordinary one. *)
AssignSchpolicy(policy) == schedule' = policy
AssembleSchpolicy ==
  AssignSchpolicy([desc.linux EXCEPT !.policy =
    IF @ \in {"SCHED_FIFO", "SCHED_RR", "SCHED_BATCH", "SCHED_IDLE"} THEN @ ELSE "SCHED_OTHER"])

(* After the last daisychain, and then queue::start, midi_handler::init    *)
(* and start.                                                              *)
StartParts ==
  /\ pc = "chains" /\ link > Len(desc.chains)
  /\ pc' = "up"
  /\ AssembleSchpolicy
  /\ InitAndStart /\ toStop' = active'
  /\ UNCHANGED <<doc, desc, link, workers, mainlines, raw, units, registry, loaded, stray>>

-----------------------------------------------------------------------------
(* disconnect(id), by a unit or the owner of the rack: the bound is that   *)
(* of the inputs, and an output that is linked to nothing is dereferenced. *)
Disconnect(u, o) ==
  /\ pc = "up" /\ o <= Len(units[u].ins)
  /\ pc' = IF o <= Len(units[u].outs) /\ units[u].outs[o].to # Null THEN pc ELSE "undefined"
  /\ units' = IF pc' = "undefined" THEN units
              ELSE LET to == units[u].outs[o].to IN
                   [units EXCEPT ![u].outs[o].to = Null, ![to[1]].ins[to[2]].connected = FALSE]
  /\ UNCHANGED <<midiVars, doc, desc, link, workers, mainlines, raw, schedule, registry,
                 loaded, toStop, stray>>

(* feed_out and fill_out of output o: the input they reach, or none.       *)
FeedOut(u, o) == IF o > Len(units[u].outs) THEN Null ELSE units[u].outs[o].to

(* input_connected: the bound lets the index one past the last through.    *)
InputConnected(u, i) ==
  CASE i <= Len(units[u].ins)     -> units[u].ins[i].connected
    [] i = Len(units[u].ins) + 1  -> Garbage
    [] OTHER                      -> FALSE

(* midi_handler::stop goes through the devices in their order. *)
Stopping == Min(toStop)

Stop ==
  /\ pc \in {"up", "stop"} /\ toStop # {}
  /\ StopDevice(Stopping)
  /\ pc' = "join"
  /\ UNCHANGED <<rackVars, doc, desc, link, toStop, stray>>

Join ==
  /\ pc = "join" /\ Joined(Stopping)
  /\ toStop' = toStop \ {Stopping}
  /\ pc' = IF toStop' = {} THEN "stopped" ELSE "stop"
  /\ UNCHANGED <<midiVars, rackVars, doc, desc, link, stray>>

(* The owner destroys the rack, and with it the units.  Nothing stops the  *)
(* threads of the controllers: setup never hands their handler out to be   *)
(* destroyed.                                                              *)
DestroyRack ==
  /\ pc \in {"up", "stopped"}
  /\ pc' = IF pc = "up" THEN "dropped" ELSE "ended"
  /\ units' = <<>> /\ mainlines' = <<>> /\ raw' = <<>>
  /\ UNCHANGED <<midiVars, doc, desc, link, workers, schedule, registry, loaded,
                 toStop, stray>>

(* A controller calls the function that is bound to a code. *)
Calls(d) ==
  /\ DeviceCalled(d)
  /\ stray' = (stray \/ (Callee(d) # Null /\ Callee(d) \notin DOMAIN units))
  /\ UNCHANGED <<rackVars, pc, doc, desc, link, toStop>>

Reads(d) ==
  /\ DeviceBegins(d) \/ DeviceReads(d) \/ DeviceFails(d) \/ DeviceChecks(d)
  /\ UNCHANGED <<rackVars, pc, doc, desc, link, toStop, stray>>

Next ==
  \/ Load \/ AssembleParts \/ Terminates \/ ChainOnly \/ MountAndChain \/ StartParts
  \/ \E u \in DOMAIN units : \E o \in 1 .. Len(units[u].ins) : Disconnect(u, o)
  \/ Stop \/ Join \/ DestroyRack
  \/ \E d \in DOMAIN devices : Calls(d) \/ Reads(d)

Spec == Init /\ [][Next]_vars
-----------------------------------------------------------------------------
(* What a document means, without the order in which it is worked through. *)

Whole == \A i \in DOMAIN doc.midi : doc.midi[i].port \notin {NoPort, Plain}

Mountable(u) ==
  /\ u \in DOMAIN doc.units
  /\ Libraries[doc.units[u].library] = "good" /\ doc.units[u].model \in DOMAIN Models

(* The units that are mounted once k daisychains were worked through. *)
MountedBy(k) == {u \in DOMAIN doc.units : Mountable(u) /\ \E j \in 1 .. k : doc.chains[j].to = u}

(* The daisychains so far that are plugged into the rack, and into output  *)
(* o of unit u.                                                            *)
OnRack ==
  {k \in 1 .. link - 1 : /\ doc.chains[k].from = "rack"
                         /\ doc.chains[k].plug \in ToSet(doc.mainlines)
                         /\ doc.chains[k].to \in MountedBy(k)}

OnOutput(u, o) ==
  {k \in 1 .. link - 1 :
     LET c == doc.chains[k] IN
     /\ c.from = u /\ u # "rack" /\ {u, c.to} \subseteq MountedBy(k)
     /\ Found(units[u].outs, c.plug) = o /\ Found(units[c.to].ins, c.jack) > 0}

-----------------------------------------------------------------------------
Ended == {"exited", "thrown", "terminated", "undefined", "dropped", "ended"}

(* description.hpp, and the ports of linkable.hpp. *)
IsUnitDescription(u) ==
  /\ u \in [library : STRING, model : STRING,
            bindings : SUBSET [name : STRING, module : STRING, code : Codes],
            leds : [DOMAIN u.leds ->
                      [state : STRING, device : STRING, code : Codes, mode : STRING]]]
  /\ DOMAIN u.leds \subseteq Nat

IsDescription(d) ==
  /\ d \in [controllers : Seq([label : STRING, port : STRING, on : Nat]),
            mainlines : Seq(STRING),
            chains : Seq([from : STRING, plug : STRING, to : STRING, jack : STRING]),
            units : {d.units},
            workers : Nat \cup {Garbage},
            linux : [policy : STRING \cup {NoSchedule.policy}, priority : Nat,
                     affinity : Int \cup {Garbage}]]
  /\ \A u \in DOMAIN d.units : u \in STRING /\ IsUnitDescription(d.units[u])

LinkIn == [label : STRING, connected : BOOLEAN]
LinkOut == [label : STRING, to : {Null} \cup ((DOMAIN units) \X Nat)]

TypeOK ==
  /\ pc \in {"load", "assemble", "chains", "up", "stop", "join", "stopped"} \cup Ended
  /\ doc \in Documents
  /\ desc = Null \/ IsDescription(desc)
  /\ workers \in Nat \cup {Garbage}
  /\ \A d \in DOMAIN devices : /\ devices[d].pc \in {"none", "begin", "read", "read it", "call", "done"}
                               /\ devices[d].running \in BOOLEAN
  /\ toStop \subseteq active /\ active \subseteq DOMAIN devices
  /\ \A u \in DOMAIN units :
       units[u] \in [id : Nat, utilities : {{"led", "rack", "queue", "loop", "cache"}},
                     ins : Seq(LinkIn), outs : Seq(LinkOut)]
  /\ \A plug \in DOMAIN mainlines : mainlines[plug] \in DOMAIN units \cup {Null}
  /\ link \in Nat /\ stray \in BOOLEAN

(* The rack is what the document says, however often units and plugs are   *)
(* named in it: the units at the end of a daisychain are mounted when they *)
(* first come up, a plug or an output leads to where the last daisychain   *)
(* puts it, and the passes visit every unit that was ever plugged into the *)
(* rack.  A daisychain from a unit that only comes up later is lost        *)
(* (assembler.cpp line 56), and one controller without a port leaves the   *)
(* rack empty (document.cpp line 90).  Without a section about linux the   *)
(* CPU of the rack's thread is whatever memory held (lines 249-254).       *)
RackAsDocumented ==
  /\ pc = "up" => (schedule.affinity = Garbage <=> ~Whole \/ doc.linux = Null)
  /\ pc = "chains" =>
    IF ~Whole THEN units = <<>> /\ raw = <<>> /\ workers = Garbage
    ELSE LET To(k) == doc.chains[k].to
             ToPort(k) == <<To(k), Found(units[To(k)].ins, doc.chains[k].jack)>>
         IN /\ DOMAIN units = MountedBy(link - 1)
            /\ DOMAIN mainlines = ToSet(doc.mainlines)
            /\ \A plug \in DOMAIN mainlines :
                 LET ks == {k \in OnRack : doc.chains[k].plug = plug} IN
                 mainlines[plug] = IF ks = {} THEN Null ELSE To(Max(ks))
            /\ \E ks \in [DOMAIN raw -> OnRack] :
                 /\ \A m, n \in DOMAIN raw : m < n => ks[m] < ks[n]
                 /\ OnRack = {ks[n] : n \in DOMAIN raw}
                 /\ \A n \in DOMAIN raw : raw[n] = To(ks[n])
            /\ \A u \in DOMAIN units : \A o \in DOMAIN units[u].outs :
                 LET ks == OnOutput(u, o) IN
                 units[u].outs[o].to = IF ks = {} THEN Null ELSE ToPort(Max(ks))
            /\ workers = IF doc.workers = Null THEN Garbage ELSE doc.workers

(* An input says that it is connected just when something can be fed to it *)
(* through an output, if the document uses each output and each input      *)
(* once, and whatever is disconnected later (linkable.cpp lines 16-28).    *)
(* Asked for any index but the one past the last, input_connected says so. *)
Unshared ==
  \A j, k \in DOMAIN doc.chains :
    LET c == doc.chains[j]  d == doc.chains[k] IN
    j # k /\ c.from # "rack" /\ d.from # "rack" =>
      <<c.from, c.plug>> # <<d.from, d.plug>> /\ <<c.to, c.jack>> # <<d.to, d.jack>>

InputFlagsAgree ==
  doc # NoFile /\ Unshared =>
    \A v \in DOMAIN units : \A i \in 1 .. Len(units[v].ins) + 2 :
      i # Len(units[v].ins) + 1 =>
        (InputConnected(v, i) <=>
           \E u \in DOMAIN units : \E o \in 1 .. Len(units[u].outs) + 1 :
             FeedOut(u, o) = <<v, i>>)

(* Of the units that bind the same code of a controller the first that was *)
(* mounted keeps it (device.cpp line 77), and a state of a unit lights up  *)
(* what that unit asked for, on its controller (midi_handler.cpp 86-124).  *)
Asks(u, module, code) ==
  \E b \in doc.units[u].bindings :
    b.module = module /\ b.code = code /\ b.name \in MidiHandlers(doc.units[u].model)

(* The entries of unit u about a state that have all of their parts. *)
Entries(u, state) ==
  {n \in DOMAIN doc.units[u].leds :
     LET l == doc.units[u].leds[n] IN
     l.state = state /\ Null \notin {l.device, l.code, l.mode}}

BindingsAsRequested ==
  \A d \in DOMAIN devices :
    /\ DOMAIN devices[d].bindings \subseteq Codes
    /\ \A code \in Codes :
         LET asking == {n \in DOMAIN registry : Asks(registry[n], devices[d].alias, code)} IN
         /\ code \in DOMAIN devices[d].bindings <=> asking # {}
         /\ asking # {} => devices[d].bindings[code] = registry[Min(asking)]

LedsAsRequested ==
  \A u \in ToSet(registry) : \A state \in MidiLeds(doc.units[u].model) :
    LET entries == Entries(u, state)
        led == doc.units[u].leds[Min(entries)]
        lit == {d \in active : devices[d].alias = led.device /\ devices[d].output}
    IN LedMessages(u, state) =
         IF entries = {} THEN {} ELSE {<<d, doc.midi[d].on, led.code>> : d \in lit}

FirstRequestWins == BindingsAsRequested /\ LedsAsRequested

(* An id is a place in the registry, and the unit mounted under a label is *)
(* the one that was registered under it (registry.cpp lines 15-44).        *)
RegistryNamesTheUnits ==
  /\ \A u \in DOMAIN units : WithId(units[u].id) = u
  /\ \A j, k \in DOMAIN registry : registry[j] = registry[k] => j = k

(* What setup leaves: the graph of the document, and an entry in the       *)
(* registry for each of its units.                                         *)
AssembledAsDocumented == TypeOK /\ RackAsDocumented /\ RegistryNamesTheUnits

(* Once the owner has stopped the controllers, destroying the rack is      *)
(* safe; if it just destroys the rack, controllers go on calling into its  *)
(* units (rack.cpp lines 47-53, device.cpp line 58).                       *)
NoCallAfterOrderlyEnd == pc # "dropped" => ~stray

(* A controller that the owner waits for has been told to stop, unless its *)
(* thread had not begun when it was (device.cpp lines 50 and 94): then it  *)
(* goes on.                                                                *)
StopIsMissedOnlyAtBegin ==
  pc = "join" /\ devices[Stopping].running => devices[Stopping].missed

(* Together, what a shutdown does to the threads of the controllers.       *)
ControllersAtShutdown == NoCallAfterOrderlyEnd /\ StopIsMissedOnlyAtBegin

=============================================================================
