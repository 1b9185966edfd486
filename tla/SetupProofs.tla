---------------------------- MODULE SetupProofs ----------------------------
(***************************************************************************)
(* Proofs about setup, for every set of documents, libraries and units:    *)
(* what a document is parsed into, the graph that is assembled from it,    *)
(* the bindings, and the threads of the controllers up to the end.         *)
(***************************************************************************)
EXTENDS Setup, WellFoundedInduction, TLAPS

LEMMA SeqDomain ==
  ASSUME NEW S, NEW s \in Seq(S)
  PROVE  DOMAIN s \subseteq Nat
  OBVIOUS

LEMMA SeqFacts ==
  ASSUME NEW S, NEW s \in Seq(S)
  PROVE  Len(s) \in Nat /\ DOMAIN s = 1 .. Len(s) /\ \A i \in DOMAIN s : s[i] \in S
OBVIOUS

(* The smallest number of a set, and the first port with a label. *)
LEMMA LeastNumber ==
  ASSUME NEW S \in SUBSET Nat, S # {}
  PROVE  Min(S) \in S /\ \A n \in S : Min(S) <= n
<1> DEFINE R == {ss \in Nat \X Nat : ss[1] < ss[2]}
<1>1. IsWellFoundedOn(R, Nat)
  BY NatLessThanWellFounded, Zenon DEF OpToRel
<1>2. \A n, m \in S : <<n, m>> \in R <=> n < m
  OBVIOUS
<1> HIDE DEF R
<1>3. PICK m \in S : \A n \in S : ~(<<n, m>> \in R)
  BY <1>1, WFMin, Zenon
<1>4. ASSUME NEW n \in S PROVE m <= n
  <2>1. ~(n < m)
    BY <1>2, <1>3
  <2> QED
    BY <2>1
<1> QED
  BY <1>4 DEF Min

LEMMA FoundPort ==
  ASSUME NEW ports, DOMAIN ports \subseteq Nat \ {0}, NEW label
  PROVE  /\ Found(ports, label) \in Nat
         /\ Found(ports, label) > 0 =>
              /\ Found(ports, label) \in DOMAIN ports
              /\ ports[Found(ports, label)].label = label
<1> DEFINE S == {n \in DOMAIN ports : ports[n].label = label}
<1>1. S # {} => Min(S) \in S
  BY LeastNumber
<1> QED
  BY <1>1 DEF Found

(* It depends on nothing but the labels. *)
LEMMA FoundByLabel ==
  ASSUME NEW p, NEW q, DOMAIN p = DOMAIN q, \A n \in DOMAIN p : p[n].label = q[n].label,
         NEW label
  PROVE  Found(p, label) = Found(q, label)
<1>1. {n \in DOMAIN p : p[n].label = label} = {n \in DOMAIN q : q[n].label = label}
  OBVIOUS
<1> QED
  BY <1>1 DEF Found

-----------------------------------------------------------------------------
(* parse_document: how far it comes.                                       *)
LEMMA StumbleFacts ==
  ASSUME NEW d, IsDocument(d)
  PROVE  /\ Stumbles(d) \in 1 .. Len(d.midi) + 1
         /\ \A i \in 1 .. Stumbles(d) - 1 :
              i \in DOMAIN d.midi /\ d.midi[i].port \notin {NoPort, Plain}
         /\ Stumbles(d) > Len(d.midi) <=>
              \A i \in DOMAIN d.midi : d.midi[i].port \notin {NoPort, Plain}
<1> DEFINE odd == {i \in DOMAIN d.midi : d.midi[i].port \in {NoPort, Plain}}
           len == Len(d.midi)
<1>1. len \in Nat /\ DOMAIN d.midi = 1 .. len
  <2>1. d.midi \in Seq([label : STRING, port : STRING \cup {NoPort, Plain}, on : Nat])
    BY DEF IsDocument
  <2> QED
    BY <2>1
<1>2. CASE odd = {}
  <2>1. Stumbles(d) = len + 1
    BY <1>2 DEF Stumbles
  <2> HIDE DEF len
  <2>2. Stumbles(d) \in 1 .. len + 1 /\ Stumbles(d) > len
    BY <1>1, <2>1
  <2>3. \A i \in DOMAIN d.midi : d.midi[i].port \notin {NoPort, Plain}
    BY <1>2
  <2> QED
    BY <1>1, <2>1, <2>2, <2>3 DEF len
<1>3. CASE odd # {}
  <2>1. odd \in SUBSET Nat
    BY <1>1
  <2>2. Min(odd) \in odd /\ \A n \in odd : Min(odd) <= n
    BY <1>3, <2>1, LeastNumber
  <2>3. Stumbles(d) = Min(odd)
    BY <1>3 DEF Stumbles
  <2> HIDE DEF len
  <2>4. Stumbles(d) \in 1 .. len /\ d.midi[Stumbles(d)].port \in {NoPort, Plain}
    BY <1>1, <2>2, <2>3
  <2>5. ASSUME NEW i \in 1 .. Stumbles(d) - 1
        PROVE  i \in DOMAIN d.midi /\ i \notin odd
    <3>1. i \in Nat /\ i < Stumbles(d) /\ i \in 1 .. len
      BY <1>1, <2>4
    <3>2. i \notin odd
      BY <2>2, <2>3, <2>4, <3>1
    <3> QED
      BY <1>1, <3>1, <3>2
  <2> QED
    BY <1>1, <2>4, <2>5 DEF len
<1> QED
  BY <1>2, <1>3

LEMMA ParsedUnitFacts ==
  ASSUME NEW d, IsDocument(d), NEW u \in DOMAIN d.units
  PROVE  /\ IsUnitDescription(ParsedUnit(d.units[u]))
         /\ ParsedUnit(d.units[u]).library = d.units[u].library
         /\ ParsedUnit(d.units[u]).model = d.units[u].model
         /\ ParsedUnit(d.units[u]).bindings = ParsedBindings(d.units[u].bindings)
         /\ ParsedUnit(d.units[u]).leds = ParsedLeds(d.units[u].leds)
<1> DEFINE e == d.units[u]
<1>1. e \in DocumentUnit
  BY DEF IsDocument
<1> HIDE DEF e
<1>2. ParsedUnit(e) = [library |-> e.library, model |-> e.model,
                         bindings |-> ParsedBindings(e.bindings), leds |-> ParsedLeds(e.leds)]
  BY <1>1 DEF ParsedUnit, DocumentUnit
<1>3. ParsedBindings(e.bindings) \subseteq [name : STRING, module : STRING, code : Codes]
  BY <1>1 DEF ParsedBindings, DocumentUnit
<1>4. /\ DOMAIN ParsedLeds(e.leds) \subseteq Nat
      /\ ParsedLeds(e.leds) \in [DOMAIN ParsedLeds(e.leds) ->
                  [state : STRING, device : STRING, code : Codes, mode : STRING]]
  <2> DEFINE S == {n \in DOMAIN e.leds :
                     Null \notin {e.leds[n].device, e.leds[n].code, e.leds[n].mode}}
             Entry == [state : STRING, device : STRING \cup {Null}, code : Codes \cup {Null},
                       mode : STRING \cup {Null}, valued : BOOLEAN]
  <2>1. ParsedLeds(e.leds) =
          [n \in S |-> [state |-> e.leds[n].state, device |-> e.leds[n].device,
                        code |-> e.leds[n].code, mode |-> e.leds[n].mode]]
    BY DEF ParsedLeds
  <2>2. e.leds \in Seq(Entry)
    BY <1>1 DEF DocumentUnit
  <2>3. DOMAIN e.leds \subseteq Nat /\ \A n \in DOMAIN e.leds : e.leds[n] \in Entry
    <3> HIDE DEF Entry
    <3>1. DOMAIN e.leds = 1 .. Len(e.leds) /\ \A n \in DOMAIN e.leds : e.leds[n] \in Entry
      BY <2>2, SeqFacts
    <3> QED
      BY <3>1
  <2>4. \A n \in S : /\ e.leds[n].state \in STRING /\ e.leds[n].device \in STRING
                     /\ e.leds[n].code \in Codes /\ e.leds[n].mode \in STRING
    BY <2>3
  <2> QED
    BY <2>1, <2>3, <2>4
<1>5. e.library \in STRING /\ e.model \in STRING
  BY <1>1, LibrariesAssumption DEF DocumentUnit
<1>6. IsUnitDescription(ParsedUnit(e))
  BY <1>2, <1>3, <1>4, <1>5 DEF IsUnitDescription
<1> QED
  BY <1>2, <1>6 DEF e

LinuxType ==
  [policy : STRING \cup {NoSchedule.policy}, priority : Nat, affinity : Int \cup {Garbage}]

LEMMA ParsedFacts ==
  ASSUME NEW d, IsDocument(d)
  PROVE  /\ IsDescription(Parsed(d))
         /\ Parsed(d).workers # Garbage <=>
              Stumbles(d) > Len(d.midi) /\ d.workers # Null
         /\ \A u \in DOMAIN Parsed(d).units :
              /\ u \in DOMAIN d.units
              /\ Parsed(d).units[u] = ParsedUnit(d.units[u])
         /\ DOMAIN Parsed(d).controllers \subseteq DOMAIN d.midi
         /\ \A i \in DOMAIN Parsed(d).controllers : Parsed(d).controllers[i] = d.midi[i]
<1> DEFINE P == Parsed(d)
           n == Stumbles(d) - 1
           Chain == [from : STRING, plug : STRING, to : STRING, jack : STRING]
           Controller == [label : STRING, port : STRING, on : Nat]
<1>1. /\ d.midi \in Seq([label : STRING, port : STRING \cup {NoPort, Plain}, on : Nat])
      /\ d.mainlines \in Seq(STRING) /\ d.chains \in Seq(Chain)
      /\ d.workers \in Nat \cup {Null} /\ DOMAIN d.units \subseteq STRING
      /\ d.linux \in {Null} \cup [policy : STRING \cup {Null}, priority : Nat \cup {Null},
                                  affinity : Int \cup {Null}]
  BY DEF IsDocument
<1>2. /\ n \in 0 .. Len(d.midi) /\ Len(d.midi) \in Nat /\ DOMAIN d.midi = 1 .. Len(d.midi)
      /\ \A i \in 1 .. n : d.midi[i] \in Controller
  <2>1. /\ Stumbles(d) \in 1 .. Len(d.midi) + 1
        /\ \A i \in 1 .. n : i \in DOMAIN d.midi /\ d.midi[i].port \notin {NoPort, Plain}
    BY StumbleFacts
  <2>2. /\ Len(d.midi) \in Nat /\ DOMAIN d.midi = 1 .. Len(d.midi)
        /\ \A i \in DOMAIN d.midi :
             d.midi[i] \in [label : STRING, port : STRING \cup {NoPort, Plain}, on : Nat]
    BY <1>1, SeqFacts
  <2> QED
    BY <2>1, <2>2
<1>3. /\ SubSeq(d.midi, 1, n) \in Seq(Controller)
      /\ DOMAIN SubSeq(d.midi, 1, n) = 1 .. n
      /\ \A i \in 1 .. n : SubSeq(d.midi, 1, n)[i] = d.midi[i]
  <2> HIDE DEF n, Controller
  <2> QED
    BY <1>1, <1>2
<1>4. /\ P.controllers = SubSeq(d.midi, 1, n)
      /\ P.mainlines \in Seq(STRING) /\ P.chains \in Seq(Chain)
      /\ P.units \in {ParsedUnits(d), <<>>}
      /\ P.workers = IF Stumbles(d) > Len(d.midi) /\ d.workers # Null THEN d.workers ELSE Garbage
      /\ P.linux \in {ParsedLinux(d.linux), ParsedLinux(Null)}
  <2>1. <<>> \in Seq(STRING) /\ <<>> \in Seq(Chain)
    OBVIOUS
  <2> HIDE DEF Chain, Controller
  <2>2. CASE Stumbles(d) > Len(d.midi)
    BY <1>1, <2>1, <2>2 DEF Parsed
  <2>3. CASE ~(Stumbles(d) > Len(d.midi))
    BY <1>1, <2>1, <2>3 DEF Parsed
  <2> QED
    BY <2>2, <2>3
<1>5. \A u \in DOMAIN P.units : u \in DOMAIN d.units /\ P.units[u] = ParsedUnit(d.units[u])
  BY <1>4 DEF ParsedUnits
<1>6. /\ P.workers \in Nat \cup {Garbage}
      /\ P.workers # Garbage <=> Stumbles(d) > Len(d.midi) /\ d.workers # Null
  BY <1>1, <1>4, NotAValueAssumption
<1>7. P.linux \in LinuxType
  <2>1. ParsedLinux(Null) \in LinuxType
    BY DEF ParsedLinux, LinuxType, NoSchedule
  <2>2. ASSUME d.linux # Null PROVE ParsedLinux(d.linux) \in LinuxType
    <3> DEFINE l == d.linux
    <3>1. /\ l.policy \in STRING \cup {Null} /\ l.priority \in Nat \cup {Null}
          /\ l.affinity \in Int \cup {Null}
      BY <1>1, <2>2
    <3>2. ParsedLinux(l) =
            [policy |-> IF l.policy = Null THEN "SCHED_OTHER" ELSE l.policy,
             priority |-> IF l.priority = Null THEN 0 ELSE l.priority,
             affinity |-> IF l.affinity = Null THEN -1 ELSE l.affinity]
      BY <2>2 DEF ParsedLinux
    <3> QED
      BY <3>1, <3>2 DEF LinuxType, NoSchedule
  <2> QED
    BY <1>4, <2>1, <2>2
<1>8. P \in [controllers : Seq(Controller), mainlines : Seq(STRING), chains : Seq(Chain),
             units : {P.units}, workers : Nat \cup {Garbage}, linux : LinuxType]
  BY <1>3, <1>4, <1>6, <1>7 DEF Parsed
<1>9. \A u \in DOMAIN P.units : u \in STRING /\ IsUnitDescription(P.units[u])
  BY <1>1, <1>5, ParsedUnitFacts
<1>10. IsDescription(P)
  BY <1>8, <1>9 DEF IsDescription, LinuxType
<1> QED
  BY <1>2, <1>3, <1>4, <1>5, <1>6, <1>10

-----------------------------------------------------------------------------
(* How far setup is, and what it has read.                                 *)
Early == {"load", "exited", "thrown"}
Unbuilt == Early \cup {"assemble"}
Destroyed == {"dropped", "ended"}

Control ==
  /\ pc \in {"load", "assemble", "chains", "up", "stop", "join", "stopped"} \cup Ended
  /\ doc \in Documents
  /\ pc \in Early => desc = Null
  /\ pc \notin Early => doc # NoFile /\ desc = Parsed(doc)
  /\ link \in Nat \ {0}
  /\ pc \in Unbuilt => link = 1
  /\ pc \notin Early => link <= Len(desc.chains) + 1
  /\ pc \in Unbuilt => /\ workers = 2 /\ mainlines = <<>> /\ raw = <<>> /\ units = <<>>
                      /\ registry = <<>> /\ devices = <<>> /\ ledMap = <<>>
                      /\ active = {} /\ toStop = {}
  /\ pc \notin Unbuilt => workers = desc.workers
  /\ pc \notin Unbuilt \cup {"chains", "terminated"} =>
       schedule.affinity = desc.linux.affinity

LEMMA LoadedDocument ==
  ASSUME Control, pc \notin Early
  PROVE  /\ IsDocument(doc) /\ IsDescription(Parsed(doc)) /\ desc = Parsed(doc)
         /\ Len(desc.chains) \in Nat /\ DOMAIN desc.chains = 1 .. Len(desc.chains)
         /\ \A k \in DOMAIN desc.chains :
              desc.chains[k] \in [from : STRING, plug : STRING, to : STRING, jack : STRING]
<1>1. IsDocument(doc) /\ desc = Parsed(doc)
  BY DocumentsAssumption DEF Control
<1>2. IsDescription(Parsed(doc))
  BY <1>1, ParsedFacts
<1>3. desc.chains \in Seq([from : STRING, plug : STRING, to : STRING, jack : STRING])
  BY <1>1, <1>2 DEF IsDescription
<1> QED
  BY <1>1, <1>2, <1>3, SeqFacts

LEMMA ControlStep == Control /\ [Next]_vars => Control'
<1> SUFFICES ASSUME Control, [Next]_vars PROVE Control'
  OBVIOUS
<1> USE DEF Early, Unbuilt, Ended
<1>1. CASE Load
  <2>1. CASE pc' \in {"exited", "thrown"}
    BY <1>1, <2>1 DEF Load, Control, rackVars, midiVars
  <2>2. CASE pc' = "assemble"
    <3>1. doc # NoFile /\ desc' = Parsed(doc) /\ UNCHANGED <<midiVars, rackVars, doc, link, toStop>>
      BY <1>1, <2>2 DEF Load
    <3>2. IsDescription(Parsed(doc))
      BY <3>1, DocumentsAssumption, ParsedFacts DEF Control
    <3>3. Len(Parsed(doc).chains) \in Nat
      BY <3>2 DEF IsDescription
    <3> QED
      BY <1>1, <2>2, <3>1, <3>3 DEF Load, Control, rackVars, midiVars
  <2> QED
    BY <1>1, <2>1, <2>2 DEF Load
<1>2. CASE AssembleParts
  BY <1>2 DEF AssembleParts, SizeQueue, Control
<1>3. CASE Terminates
  BY <1>3 DEF Terminates, ChainsLeft, Control, rackVars, midiVars
<1>4. CASE ChainOnly \/ MountAndChain
  <2>1. /\ pc = "chains" /\ link <= Len(desc.chains) /\ link' = link + 1
        /\ UNCHANGED <<pc, doc, desc, workers, schedule>>
    BY <1>4 DEF ChainOnly, MountAndChain, ChainsLeft
  <2>2. Len(desc.chains) \in Nat
    BY <2>1, LoadedDocument
  <2> QED
    BY <2>1, <2>2 DEF Control
<1>5. CASE StartParts
  <2>1. schedule'.affinity = desc.linux.affinity
    <3>1. IsDescription(desc)
      BY <1>5, LoadedDocument DEF StartParts
    <3>2. desc.linux \in [policy : STRING \cup {NoSchedule.policy}, priority : Nat,
                          affinity : Int \cup {Garbage}]
      BY <3>1 DEF IsDescription
    <3> QED
      BY <1>5, <3>2 DEF StartParts, AssembleSchpolicy, AssignSchpolicy
  <2> QED
    BY <1>5, <2>1 DEF StartParts, Control
<1>6. CASE \E u \in DOMAIN units : \E o \in 1 .. Len(units[u].ins) : Disconnect(u, o)
  BY <1>6 DEF Disconnect, Control
<1>7. CASE Stop \/ Join \/ DestroyRack
  BY <1>7 DEF Stop, Join, DestroyRack, Control, rackVars
<1>8. CASE \E d \in DOMAIN devices : Calls(d) \/ Reads(d)
  BY <1>8 DEF Calls, Reads, Control, rackVars
<1>9. CASE UNCHANGED vars
  BY <1>9 DEF vars, rackVars, midiVars, Control
<1> QED
  BY <1>1, <1>2, <1>3, <1>4, <1>5, <1>6, <1>7, <1>8, <1>9 DEF Next

(* What setup works with is the description that the document was parsed   *)
(* into, and nothing is mounted, bound or started before the daisychains   *)
(* are worked through (system.cpp lines 60-89, document.cpp 27-61).        *)
THEOREM ControlInvariance == Spec => []Control
<1>1. Init => Control
  BY DEF Init, MidiInit, Control, Early, Unbuilt, Ended
<1> QED
  BY <1>1, ControlStep, PTL DEF Spec

-----------------------------------------------------------------------------
(* The controllers and their threads.                                      *)
IsDevice(dev) ==
  /\ dev \in [alias : STRING, on : Nat, output : BOOLEAN, running : BOOLEAN,
              pc : {"none", "begin", "read", "read it", "call", "done"},
              msg : Codes \cup {Null}, missed : BOOLEAN, bindings : {dev.bindings}]
  /\ DOMAIN dev.bindings \subseteq Codes

(* What a step of a controller's thread does to it. *)
LEMMA DeviceSteps ==
  ASSUME NEW d \in DOMAIN devices, \A e \in DOMAIN devices : IsDevice(devices[e]),
         Calls(d) \/ Reads(d)
  PROVE  /\ UNCHANGED <<active, ledMap, rackVars, pc, doc, desc, link, toStop>>
         /\ DOMAIN devices' = DOMAIN devices
         /\ \A e \in DOMAIN devices : e # d => devices'[e] = devices[e]
         /\ devices[d].pc \notin {"none", "done"}
         /\ IsDevice(devices'[d])
         /\ devices'[d].pc \notin {"none", "begin"}
         /\ devices'[d].running => devices[d].running \/ devices[d].pc = "begin"
         /\ devices'[d].alias = devices[d].alias /\ devices'[d].on = devices[d].on
         /\ devices'[d].output = devices[d].output /\ devices'[d].missed = devices[d].missed
         /\ devices'[d].bindings = devices[d].bindings
<1> USE DEF IsDevice, At, Goes
<1>1. UNCHANGED <<rackVars, pc, doc, desc, link, toStop>>
  BY DEF Calls, Reads
<1>2. UNCHANGED <<active, ledMap>>
  BY DEF Calls, Reads, DeviceBegins, DeviceReads, DeviceFails, DeviceChecks, DeviceCalled
<1>3. CASE DeviceBegins(d)
  BY <1>1, <1>2, <1>3 DEF DeviceBegins
<1>4. CASE DeviceReads(d)
  <2>1. PICK code \in Codes :
          devices' = [devices EXCEPT ![d].pc = "read it", ![d].msg = code]
    BY <1>4 DEF DeviceReads
  <2> QED
    BY <1>1, <1>2, <1>4, <2>1 DEF DeviceReads
<1>5. CASE DeviceFails(d)
  BY <1>1, <1>2, <1>5 DEF DeviceFails
<1>6. CASE DeviceChecks(d)
  BY <1>1, <1>2, <1>6 DEF DeviceChecks
<1>7. CASE DeviceCalled(d)
  BY <1>1, <1>2, <1>7 DEF DeviceCalled
<1> QED
  BY <1>3, <1>4, <1>5, <1>6, <1>7 DEF Calls, Reads

(* What the other steps do to the controllers. *)
LEMMA DeviceAdded ==
  ASSUME Control, AssembleParts
  PROVE  /\ DOMAIN devices' = DOMAIN desc.controllers
         /\ \A d \in DOMAIN devices' :
              /\ IsDevice(devices'[d]) /\ DOMAIN devices'[d].bindings = {}
              /\ devices'[d].pc = "none" /\ ~devices'[d].running
              /\ devices'[d].alias = doc.midi[d].label /\ devices'[d].on = doc.midi[d].on
<1>1. pc = "assemble" /\ devices' = [i \in DOMAIN desc.controllers |-> Device(desc.controllers[i])]
  BY DEF AssembleParts, AssembleDevices
<1>2. IsDocument(doc) /\ desc = Parsed(doc) /\ IsDescription(desc)
  BY <1>1, LoadedDocument DEF Early
<1>3. desc.controllers \in Seq([label : STRING, port : STRING, on : Nat])
  BY <1>2 DEF IsDescription
<1> DEFINE D(d) == Device(desc.controllers[d])
<1>4. ASSUME NEW d \in DOMAIN desc.controllers
      PROVE  /\ IsDevice(D(d)) /\ DOMAIN D(d).bindings = {} /\ D(d).pc = "none" /\ ~D(d).running
             /\ D(d).alias = doc.midi[d].label /\ D(d).on = doc.midi[d].on
  <2>1. desc.controllers[d] \in [label : STRING, port : STRING, on : Nat]
    BY <1>3, SeqFacts
  <2>2. desc.controllers[d] = doc.midi[d]
    BY <1>2, ParsedFacts
  <2> QED
    BY <2>1, <2>2 DEF IsDevice, Device
<1>5. devices' = [i \in DOMAIN desc.controllers |-> D(i)]
  BY <1>1
<1> HIDE DEF D
<1> QED
  BY <1>4, <1>5

(* A device keeps what is bound, and gets the codes that it is asked for.  *)
LEMMA DeviceBound ==
  ASSUME NEW dev, IsDevice(dev), NEW codes \in SUBSET Codes, NEW unit
  PROVE  /\ IsDevice(Bound(dev, codes, unit))
         /\ DOMAIN Bound(dev, codes, unit).bindings = DOMAIN dev.bindings \cup codes
         /\ \A c \in DOMAIN dev.bindings : Bound(dev, codes, unit).bindings[c] = dev.bindings[c]
         /\ \A c \in codes \ DOMAIN dev.bindings : Bound(dev, codes, unit).bindings[c] = unit
         /\ Bound(dev, codes, unit).alias = dev.alias /\ Bound(dev, codes, unit).on = dev.on
         /\ Bound(dev, codes, unit).pc = dev.pc /\ Bound(dev, codes, unit).running = dev.running
         /\ Bound(dev, codes, unit).missed = dev.missed
         /\ Bound(dev, codes, unit).output = dev.output
<1>1. Bound(dev, codes, unit) =
        [dev EXCEPT !.bindings = Inserted(dev.bindings, [code \in codes |-> unit])]
  BY DEF Bound
<1>2. /\ DOMAIN Inserted(dev.bindings, [code \in codes |-> unit]) = DOMAIN dev.bindings \cup codes
      /\ \A c \in DOMAIN dev.bindings :
           Inserted(dev.bindings, [code \in codes |-> unit])[c] = dev.bindings[c]
      /\ \A c \in codes \ DOMAIN dev.bindings :
           Inserted(dev.bindings, [code \in codes |-> unit])[c] = unit
  BY DEF Inserted
<1> QED
  BY <1>1, <1>2 DEF IsDevice

(* init and start. *)
LEMMA DeviceStarted ==
  ASSUME \A d \in DOMAIN devices : IsDevice(devices[d]), InitAndStart
  PROVE  /\ DOMAIN devices' = DOMAIN devices /\ active' \subseteq DOMAIN devices
         /\ \A d \in DOMAIN devices :
              /\ IsDevice(devices'[d])
              /\ devices'[d].alias = devices[d].alias /\ devices'[d].on = devices[d].on
              /\ devices'[d].bindings = devices[d].bindings
              /\ devices'[d].running = devices[d].running
              /\ d \notin active' => devices'[d].pc = devices[d].pc
<1>1. PICK ports \in OpenPorts(DOMAIN devices) :
        /\ active' = ports.in
        /\ devices' = [i \in DOMAIN devices |->
             IF i \in ports.in THEN Started(devices[i], i \in ports.out) ELSE devices[i]]
  BY DEF InitAndStart
<1>2. ports.in \subseteq DOMAIN devices
  BY DEF OpenPorts
<1>3. ASSUME NEW dev, IsDevice(dev), NEW out \in BOOLEAN
      PROVE  /\ IsDevice(Started(dev, out))
             /\ Started(dev, out).alias = dev.alias /\ Started(dev, out).on = dev.on
             /\ Started(dev, out).bindings = dev.bindings
             /\ Started(dev, out).running = dev.running
  BY <1>3 DEF Started, IsDevice
<1>4. DOMAIN devices' = DOMAIN devices /\ active' \subseteq DOMAIN devices
  BY <1>1, <1>2
<1>5. ASSUME NEW d \in DOMAIN devices, d \in active'
      PROVE  devices'[d] = Started(devices[d], d \in ports.out)
  BY <1>1, <1>5
<1>6. ASSUME NEW d \in DOMAIN devices, d \notin active' PROVE devices'[d] = devices[d]
  BY <1>1, <1>6
<1>7. ASSUME NEW d \in DOMAIN devices
      PROVE  /\ IsDevice(devices'[d])
             /\ devices'[d].alias = devices[d].alias /\ devices'[d].on = devices[d].on
             /\ devices'[d].bindings = devices[d].bindings
             /\ devices'[d].running = devices[d].running
             /\ d \notin active' => devices'[d].pc = devices[d].pc
  <2>1. CASE d \in active'
    <3> DEFINE out == d \in ports.out
    <3>1. out \in BOOLEAN /\ devices'[d] = Started(devices[d], out)
      BY <1>5, <2>1
    <3> HIDE DEF out
    <3> QED
      BY <1>3, <2>1, <3>1
  <2>2. CASE d \notin active'
    BY <1>6, <2>2
  <2> QED
    BY <2>1, <2>2
<1> QED
  BY <1>4, <1>7

(* What MountAndChain binds of a controller. *)
Wanted(d) ==
  {c \in Codes : \E b \in ThisUnit.bindings :
     b.module = devices[d].alias /\ b.code = c /\ b.name \in MidiHandlers(ThisUnit.model)}

LEMMA DevicesBound ==
  ASSUME Control, MountAndChain, \A d \in DOMAIN devices : IsDevice(devices[d])
  PROVE  /\ DOMAIN devices' = DOMAIN devices
         /\ \A d \in DOMAIN devices : devices'[d] = Bound(devices[d], Wanted(d), ThisChain.to)
<1> DEFINE exported == {b \in ThisUnit.bindings : b.name \in MidiHandlers(ThisUnit.model)}
           codes(d) == {b.code : b \in {e \in exported : e.module = devices[d].alias}}
<1>1. devices' = [i \in DOMAIN devices |-> Bound(devices[i], codes(i), ThisChain.to)]
  BY DEF MountAndChain, Binds, AddBindings
<1>2. ThisUnit.bindings \subseteq [name : STRING, module : STRING, code : Codes]
  <2>1. IsDescription(desc) /\ ThisChain.to \in DOMAIN desc.units
    BY LoadedDocument DEF MountAndChain, ChainsLeft, Early
  <2> QED
    BY <2>1 DEF IsDescription, IsUnitDescription, ThisUnit
<1>3. \A d \in DOMAIN devices : codes(d) = Wanted(d)
  BY <1>2 DEF Wanted
<1> HIDE DEF codes
<1> QED
  BY <1>1, <1>3

(* The units that are mounted when a daisychain was connected.             *)
LEMMA ConnectKeepsUnits ==
  ASSUME NEW us, NEW c, Connect(us, c)
  PROVE  DOMAIN units' = DOMAIN us
BY DEF Connect, Connected

LEMMA UnitAdded ==
  ASSUME NEW us, NEW label, NEW unit
  PROVE  /\ DOMAIN AddUnit(us, label, unit) = DOMAIN us \cup {label}
         /\ \A u \in DOMAIN us : AddUnit(us, label, unit)[u] = us[u]
         /\ label \notin DOMAIN us => AddUnit(us, label, unit)[label] = MountDependencies(unit)
BY DEF AddUnit, Inserted

-----------------------------------------------------------------------------
(* The threads of the controllers: they begin after the last daisychain,   *)
(* one after the other is stopped, and they only call into units that are  *)
(* mounted.                                                                *)
CalleesMounted ==
  \A d \in DOMAIN devices : \A c \in DOMAIN devices[d].bindings :
    devices[d].bindings[c] \in DOMAIN units

StoppedInTurn ==
  /\ toStop \subseteq active /\ active \subseteq DOMAIN devices
  /\ pc \in {"chains", "terminated"} => active = {}
  /\ pc = "up" => toStop = active
  /\ pc \in {"stop", "join", "stopped", "ended"} =>
       \A d \in active \ toStop : devices[d].pc = "done"
  /\ pc \in {"stopped", "ended"} => toStop = {}
  /\ pc = "join" =>
       /\ toStop # {}
       /\ devices[Stopping].running \/ devices[Stopping].pc = "begin" => devices[Stopping].missed

Threads ==
  /\ DOMAIN devices \subseteq Nat
  /\ \A d \in DOMAIN devices :
       /\ IsDevice(devices[d])
       /\ d \notin active => devices[d].pc = "none"
       /\ devices[d].on = doc.midi[d].on
  /\ StoppedInTurn
  /\ pc \notin Destroyed => CalleesMounted
  /\ stray => pc = "dropped"

LEMMA ThreadsAssembled ==
  ASSUME Control, Threads, AssembleParts
  PROVE  Threads'
<1> USE DEF Early, Unbuilt, Ended
<1>1. pc = "assemble" /\ pc' = "chains" /\ UNCHANGED <<active, toStop, stray, doc>>
  BY DEF AssembleParts
<1>2. active = {} /\ toStop = {}
  BY <1>1 DEF Control
<1>3. DOMAIN desc.controllers \subseteq Nat
  <2>1. IsDescription(desc)
    BY <1>1, LoadedDocument
  <2> QED
    BY <2>1, SeqFacts DEF IsDescription
<1> QED
  BY <1>1, <1>2, <1>3, DeviceAdded DEF Threads, StoppedInTurn, CalleesMounted, Destroyed

LEMMA ThreadsBound ==
  ASSUME Control, Threads, MountAndChain
  PROVE  Threads'
<1> USE DEF Early, Unbuilt, Ended
<1>1. pc = "chains" /\ UNCHANGED <<pc, active, toStop, stray, doc>>
  BY DEF MountAndChain, ChainsLeft
<1>2. active = {} /\ toStop = {}
  BY <1>1 DEF Threads, StoppedInTurn
<1>3. DOMAIN units' = DOMAIN units \cup {ThisChain.to}
  <2>1. Connect(AddUnit(units, ThisChain.to, LoadedUnit), ThisChain)
    BY DEF MountAndChain
  <2>2. DOMAIN units' = DOMAIN AddUnit(units, ThisChain.to, LoadedUnit)
    BY <2>1, ConnectKeepsUnits
  <2> QED
    BY <2>2, UnitAdded
<1>4. DOMAIN devices' = DOMAIN devices
  BY DevicesBound DEF Threads
<1>5. ASSUME NEW d \in DOMAIN devices
      PROVE  /\ IsDevice(devices'[d]) /\ devices'[d].pc = "none"
             /\ devices'[d].on = doc.midi[d].on
             /\ \A c \in DOMAIN devices'[d].bindings : devices'[d].bindings[c] \in DOMAIN units'
  <2>1. devices'[d] = Bound(devices[d], Wanted(d), ThisChain.to) /\ IsDevice(devices[d])
    BY DevicesBound DEF Threads
  <2>2. Wanted(d) \subseteq Codes
    BY DEF Wanted
  <2>3. /\ devices[d].pc = "none" /\ devices[d].on = doc.midi[d].on
        /\ \A c \in DOMAIN devices[d].bindings : devices[d].bindings[c] \in DOMAIN units
    BY <1>1, <1>2 DEF Threads, CalleesMounted, Destroyed
  <2> HIDE DEF Wanted
  <2> QED
    BY <1>3, <2>1, <2>2, <2>3, DeviceBound
<1> QED
  BY <1>1, <1>2, <1>4, <1>5 DEF Threads, StoppedInTurn, CalleesMounted

LEMMA ThreadsStarted ==
  ASSUME Control, Threads, StartParts
  PROVE  Threads'
<1> USE DEF Early, Unbuilt, Ended
<1>1. /\ pc = "chains" /\ pc' = "up" /\ toStop' = active' /\ InitAndStart
      /\ UNCHANGED <<stray, doc, units>>
  BY DEF StartParts
<1>2. active = {}
  BY <1>1 DEF Threads, StoppedInTurn
<1> QED
  BY <1>1, <1>2, DeviceStarted DEF Threads, StoppedInTurn, CalleesMounted, Destroyed

LEMMA ThreadsStopped ==
  ASSUME Control, Threads, Stop \/ Join
  PROVE  Threads'
<1> USE DEF Early, Unbuilt, Ended
<1>1. toStop # {} /\ Stopping \in toStop /\ Stopping \in DOMAIN devices
  <2>1. toStop # {} /\ toStop \subseteq Nat
    BY DEF Threads, StoppedInTurn, Stop, Join
  <2> QED
    BY <2>1, LeastNumber DEF Threads, StoppedInTurn, Stopping
<1>2. CASE Stop
  <2>1. /\ pc \in {"up", "stop"} /\ pc' = "join"
        /\ UNCHANGED <<active, toStop, stray, doc, units>>
        /\ devices' = [devices EXCEPT ![Stopping].running = FALSE,
                                      ![Stopping].missed = devices[Stopping].pc = "begin"]
    BY <1>2 DEF Stop, StopDevice, rackVars
  <2>2. Stopping' = Stopping
    BY <2>1 DEF Stopping
  <2>3. /\ DOMAIN devices' = DOMAIN devices
        /\ \A d \in DOMAIN devices :
             /\ IsDevice(devices'[d]) /\ devices'[d].pc = devices[d].pc
             /\ devices'[d].on = devices[d].on /\ devices'[d].bindings = devices[d].bindings
        /\ ~devices'[Stopping].running
        /\ devices[Stopping].pc = "begin" => devices'[Stopping].missed
    <3> DEFINE first == Stopping
               missed == devices[first].pc = "begin"
    <3>1. first \in DOMAIN devices /\ \A d \in DOMAIN devices : IsDevice(devices[d])
      BY <1>1 DEF Threads
    <3>2. /\ DOMAIN devices' = DOMAIN devices
          /\ \A d \in DOMAIN devices : d # first => devices'[d] = devices[d]
          /\ devices'[first] = [devices[first] EXCEPT !.running = FALSE, !.missed = missed]
      BY <2>1, <3>1
    <3>3. missed \in BOOLEAN
      OBVIOUS
    <3> HIDE DEF first, missed
    <3>4. /\ IsDevice(devices'[first]) /\ devices'[first].pc = devices[first].pc
          /\ devices'[first].on = devices[first].on /\ ~devices'[first].running
          /\ devices'[first].bindings = devices[first].bindings
          /\ devices'[first].missed = missed
      BY <3>1, <3>2, <3>3 DEF IsDevice
    <3> QED
      BY <3>1, <3>2, <3>4 DEF first, missed
  <2>4. StoppedInTurn'
    <3>1. /\ toStop \subseteq active /\ active \subseteq DOMAIN devices
          /\ \A d \in active \ toStop : devices[d].pc = "done"
      BY <2>1 DEF Threads, StoppedInTurn
    <3>2. \A d \in active \ toStop : devices'[d].pc = "done"
      BY <2>3, <3>1
    <3>3. devices'[Stopping].running \/ devices'[Stopping].pc = "begin" =>
            devices'[Stopping].missed
      BY <1>1, <2>3
    <3> QED
      BY <1>1, <2>1, <2>2, <2>3, <3>1, <3>2, <3>3 DEF StoppedInTurn
  <2>5. \A d \in DOMAIN devices : devices[d].on = doc.midi[d].on
                                 /\ (d \notin active => devices[d].pc = "none")
    BY DEF Threads
  <2>6. CalleesMounted'
    BY <2>1, <2>3 DEF Threads, CalleesMounted, Destroyed
  <2>7. ~stray /\ pc' \notin Destroyed
    BY <2>1 DEF Threads, Destroyed
  <2>8. \A d \in DOMAIN devices' :
          /\ IsDevice(devices'[d])
          /\ d \notin active' => devices'[d].pc = "none"
          /\ devices'[d].on = doc'.midi[d].on
    <3>1. DOMAIN devices' = DOMAIN devices /\ active' = active /\ doc' = doc
      BY <2>1, <2>3
    <3>2. \A d \in DOMAIN devices : /\ IsDevice(devices'[d]) /\ devices'[d].pc = devices[d].pc
                                    /\ devices'[d].on = devices[d].on
      BY <2>3
    <3> QED
      BY <2>5, <3>1, <3>2
  <2> QED
    BY <2>1, <2>3, <2>4, <2>6, <2>7, <2>8 DEF Threads
<1>3. CASE Join
  <2>1. /\ pc = "join" /\ pc' \in {"stop", "stopped"} /\ toStop' = toStop \ {Stopping}
        /\ pc' = "stopped" => toStop' = {}
        /\ devices[Stopping].pc = "done"
        /\ UNCHANGED <<devices, active, stray, doc, units>>
    BY <1>3 DEF Join, Joined, At, rackVars, midiVars
  <2> QED
    BY <1>1, <2>1 DEF Threads, StoppedInTurn, CalleesMounted, Destroyed
<1> QED
  BY <1>2, <1>3

LEMMA ThreadsRun ==
  ASSUME Control, Threads, NEW d \in DOMAIN devices, Calls(d) \/ Reads(d)
  PROVE  Threads'
<1> USE DEF Early, Unbuilt, Ended
<1>1. /\ UNCHANGED <<active, rackVars, pc, doc, toStop>>
      /\ DOMAIN devices' = DOMAIN devices
      /\ \A e \in DOMAIN devices : e # d => devices'[e] = devices[e]
      /\ devices[d].pc \notin {"none", "done"}
      /\ IsDevice(devices'[d]) /\ devices'[d].pc \notin {"none", "begin"}
      /\ devices'[d].running => devices[d].running \/ devices[d].pc = "begin"
      /\ devices'[d].on = devices[d].on /\ devices'[d].missed = devices[d].missed
      /\ devices'[d].bindings = devices[d].bindings
  BY DeviceSteps DEF Threads
<1>2. d \in active
  BY <1>1 DEF Threads
<1>3. \A e \in DOMAIN devices : /\ IsDevice(devices'[e])
                                /\ e \notin active => devices'[e].pc = "none"
                                /\ devices'[e].on = doc'.midi[e].on
  BY <1>1, <1>2 DEF Threads
<1>4. StoppedInTurn'
  <2>1. Stopping' = Stopping
    BY <1>1 DEF Stopping
  <2>2. /\ toStop \subseteq active /\ active \subseteq DOMAIN devices
        /\ pc \in {"stop", "join", "stopped", "ended"} =>
             \A e \in active \ toStop : devices[e].pc = "done"
        /\ pc = "join" =>
             /\ toStop # {}
             /\ devices[Stopping].running \/ devices[Stopping].pc = "begin" =>
                  devices[Stopping].missed
    BY DEF Threads, StoppedInTurn
  <2>3. pc \in {"stop", "join", "stopped", "ended"} =>
          \A e \in active \ toStop : devices'[e].pc = "done"
    BY <1>1, <2>2
  <2>4. pc = "join" => Stopping \in DOMAIN devices
    BY <2>2, LeastNumber DEF Threads, Stopping
  <2>5. pc = "join" /\ (devices'[Stopping].running \/ devices'[Stopping].pc = "begin") =>
          devices'[Stopping].missed
    <3>1. CASE Stopping = d
      BY <1>1, <2>2, <3>1
    <3>2. CASE Stopping # d
      BY <1>1, <2>2, <2>4, <3>2
    <3> QED
      BY <3>1, <3>2
  <2> QED
    BY <1>1, <1>2, <2>1, <2>2, <2>3, <2>5 DEF Threads, StoppedInTurn
<1>5. pc' \notin Destroyed => CalleesMounted'
  BY <1>1 DEF Threads, CalleesMounted, rackVars
<1>6. stray' => pc' = "dropped"
  <2>1. CASE Calls(d) /\ stray' /\ ~stray
    <3>1. Callee(d) # Null /\ Callee(d) \notin DOMAIN units /\ devices[d].pc = "call"
      BY <2>1 DEF Calls, DeviceCalled, At
    <3>2. ~CalleesMounted
      BY <3>1 DEF Callee, CalleesMounted
    <3>3. pc \in Destroyed
      BY <3>2 DEF Threads
    <3>4. pc # "ended"
      BY <1>1, <1>2 DEF Threads, StoppedInTurn
    <3> QED
      BY <1>1, <3>3, <3>4 DEF Destroyed
  <2>2. CASE stray \/ ~stray'
    BY <1>1, <2>2 DEF Threads
  <2> QED
    BY <2>1, <2>2 DEF Calls, Reads
<1> QED
  BY <1>1, <1>3, <1>4, <1>5, <1>6 DEF Threads

LEMMA ThreadsStep == Control /\ Threads /\ [Next]_vars => Threads'
<1> SUFFICES ASSUME Control, Threads, [Next]_vars PROVE Threads'
  OBVIOUS
<1> USE DEF Early, Unbuilt, Ended
<1>1. CASE AssembleParts \/ MountAndChain \/ StartParts \/ Stop \/ Join
  BY <1>1, ThreadsAssembled, ThreadsBound, ThreadsStarted, ThreadsStopped
<1>2. CASE \E d \in DOMAIN devices : Calls(d) \/ Reads(d)
  BY <1>2, ThreadsRun
<1>3. ASSUME UNCHANGED <<devices, active, toStop, stray, doc>>, DOMAIN units' = DOMAIN units,
             <<pc, pc'>> \in {"load"} \X {"exited", "thrown", "assemble"}
                             \cup {<<"chains", "terminated">>, <<"up", "undefined">>}
               \/ pc' = pc
      PROVE  Threads'
  <2>1. pc = "load" => active = {} /\ toStop = {} /\ devices = <<>>
    BY DEF Control
  <2>2. Stopping' = Stopping
    BY <1>3 DEF Stopping
  <2>3. (pc' \notin Destroyed => pc \notin Destroyed) /\ (pc = "dropped" => pc' = "dropped")
    BY <1>3, <2>1 DEF Destroyed
  <2> QED
    BY <1>3, <2>1, <2>2, <2>3 DEF Threads, StoppedInTurn, CalleesMounted
<1>4. CASE Load
  BY <1>3, <1>4 DEF Load, midiVars, rackVars
<1>5. CASE Terminates \/ ChainOnly
  <2>1. CASE ChainOnly
    BY <1>3, <2>1, ConnectKeepsUnits DEF ChainOnly, midiVars
  <2>2. CASE Terminates
    BY <1>3, <2>2 DEF Terminates, ChainsLeft, midiVars, rackVars
  <2> QED
    BY <1>5, <2>1, <2>2
<1>6. CASE \E u \in DOMAIN units : \E o \in 1 .. Len(units[u].ins) : Disconnect(u, o)
  <2>1. /\ UNCHANGED <<devices, active, toStop, stray, doc>> /\ DOMAIN units' = DOMAIN units
        /\ pc = "up" /\ pc' \in {"up", "undefined"}
    <3>1. PICK u \in DOMAIN units : \E o \in 1 .. Len(units[u].ins) : Disconnect(u, o)
      BY <1>6
    <3>2. PICK o \in 1 .. Len(units[u].ins) : Disconnect(u, o)
      BY <3>1
    <3>3. DOMAIN units' = DOMAIN units
      BY <3>2 DEF Disconnect
    <3> QED
      BY <3>2, <3>3 DEF Disconnect, midiVars
  <2> QED
    BY <1>3, <2>1
<1>7. CASE DestroyRack
  BY <1>7 DEF DestroyRack, Threads, StoppedInTurn, Destroyed, midiVars
<1>8. CASE UNCHANGED vars
  BY <1>3, <1>8 DEF vars, midiVars, rackVars
<1> QED
  BY <1>1, <1>2, <1>4, <1>5, <1>6, <1>7, <1>8 DEF Next

(* The devices are stopped one after the other, each with its thread       *)
(* joined, and as long as the rack is there every function that is bound   *)
(* to a code belongs to a mounted unit (midi_handler.cpp lines 42-47,      *)
(* assembler.cpp 75-113).                                                  *)
THEOREM ThreadsInvariance == Spec => [](Control /\ Threads)
<1>1. Init => Threads
  BY DEF Init, MidiInit, Threads, StoppedInTurn, CalleesMounted
<1> QED
  BY <1>1, ControlInvariance, ThreadsStep, PTL DEF Spec

(* A controller calls into a unit that is gone only when the owner dropped *)
(* the rack without stopping the controllers, and goes on after stop only  *)
(* if its thread had not begun (rack.cpp lines 47-53, device.cpp 50-97).   *)
THEOREM ShutdownIsOrderly == Spec => []ControllersAtShutdown
<1>1. Threads => ControllersAtShutdown
  BY DEF Threads, StoppedInTurn, ControllersAtShutdown, NoCallAfterOrderlyEnd,
         StopIsMissedOnlyAtBegin
<1> QED
  BY <1>1, ThreadsInvariance, PTL

-----------------------------------------------------------------------------
(* The units that are mounted, and the registry.                           *)
LEMMA WholeDocument ==
  ASSUME Control, pc \notin Early
  PROVE  /\ Whole => /\ desc.chains = doc.chains /\ desc.mainlines = doc.mainlines
                     /\ DOMAIN desc.units =
                          {doc.chains[k].to : k \in DOMAIN doc.chains} \cap DOMAIN doc.units
                     /\ desc.workers = IF doc.workers = Null THEN Garbage ELSE doc.workers
                     /\ desc.linux = ParsedLinux(doc.linux)
         /\ ~Whole => /\ desc.chains = <<>> /\ DOMAIN desc.units = {}
                      /\ desc.workers = Garbage /\ desc.linux = ParsedLinux(Null)
<1>1. IsDocument(doc) /\ desc = Parsed(doc)
  BY LoadedDocument
<1>2. Whole <=> Stumbles(doc) > Len(doc.midi)
  BY <1>1, StumbleFacts DEF Whole
<1> QED
  BY <1>1, <1>2 DEF Parsed, ParsedUnits

LEMMA ThisChainFacts ==
  ASSUME Control, ChainsLeft
  PROVE  /\ Whole /\ link \in DOMAIN doc.chains /\ ThisChain = doc.chains[link]
         /\ ThisChain \in [from : STRING, plug : STRING, to : STRING, jack : STRING]
         /\ ThisChain.to \in DOMAIN desc.units <=> ThisChain.to \in DOMAIN doc.units
         /\ ThisChain.to \in DOMAIN doc.units =>
              /\ ThisUnit = ParsedUnit(doc.units[ThisChain.to])
              /\ ThisUnit.model = doc.units[ThisChain.to].model
              /\ ThisUnit.library = doc.units[ThisChain.to].library
              /\ ThisUnit.library \in DOMAIN Libraries
<1>1. pc \notin Early
  BY DEF ChainsLeft, Early
<1>2. /\ IsDocument(doc) /\ desc = Parsed(doc) /\ link \in DOMAIN desc.chains
      /\ ThisChain \in [from : STRING, plug : STRING, to : STRING, jack : STRING]
  BY <1>1, LoadedDocument DEF ChainsLeft, Control, ThisChain
<1>3. Whole /\ desc.chains = doc.chains
  BY <1>1, <1>2, WholeDocument
<1>4. ThisChain.to \in DOMAIN desc.units <=> ThisChain.to \in DOMAIN doc.units
  BY <1>1, <1>2, <1>3, WholeDocument DEF ThisChain
<1>5. ASSUME ThisChain.to \in DOMAIN doc.units
      PROVE  /\ ThisUnit = ParsedUnit(doc.units[ThisChain.to])
             /\ doc.units[ThisChain.to].library \in DOMAIN Libraries
  BY <1>2, <1>4, <1>5, ParsedFacts DEF ThisUnit, IsDocument, DocumentUnit
<1> QED
  BY <1>2, <1>3, <1>4, <1>5, ParsedUnitFacts DEF ThisChain

ModelOf(u) == Models[doc.units[u].model]
InsOf(u) == 1 .. Len(ModelOf(u).ins)
OutsOf(u) == 1 .. Len(ModelOf(u).outs)

IsUnit(u, unit) ==
  /\ unit \in [id : Nat, utilities : {{"led", "rack", "queue", "loop", "cache"}},
               ins : [InsOf(u) -> LinkIn],
               outs : [OutsOf(u) -> [label : STRING, to : {Null} \cup (STRING \X Nat)]]]
  /\ \A i \in InsOf(u) : unit.ins[i].label = ModelOf(u).ins[i]
  /\ \A o \in OutsOf(u) : unit.outs[o].label = ModelOf(u).outs[o]

LEMMA MountableModel ==
  ASSUME NEW u \in DOMAIN doc.units, Mountable(u)
  PROVE  /\ Len(ModelOf(u).ins) \in Nat /\ Len(ModelOf(u).outs) \in Nat
         /\ DOMAIN ModelOf(u).ins = InsOf(u) /\ \A i \in InsOf(u) : ModelOf(u).ins[i] \in STRING
         /\ DOMAIN ModelOf(u).outs = OutsOf(u) /\ \A o \in OutsOf(u) : ModelOf(u).outs[o] \in STRING
<1>1. ModelOf(u) \in [outs : Seq(STRING), ins : Seq(STRING),
                      exports : SUBSET STRING, leds : SUBSET STRING]
  BY LibrariesAssumption DEF Mountable, ModelOf
<1>2. ModelOf(u).ins \in Seq(STRING) /\ ModelOf(u).outs \in Seq(STRING)
  BY <1>1
<1> QED
  BY <1>2, SeqFacts DEF InsOf, OutsOf

(* Where a label is found is the model's, whatever the unit is linked to.  *)
Labelled(labels) == [n \in 1 .. Len(labels) |-> [label |-> labels[n]]]
InFound(u, label) == Found(Labelled(ModelOf(u).ins), label)
OutFound(u, label) == Found(Labelled(ModelOf(u).outs), label)

LEMMA FoundInModel ==
  ASSUME NEW u \in DOMAIN doc.units, Mountable(u), NEW label
  PROVE  /\ InFound(u, label) \in Nat /\ OutFound(u, label) \in Nat
         /\ InFound(u, label) > 0 =>
              InFound(u, label) \in InsOf(u) /\ ModelOf(u).ins[InFound(u, label)] = label
         /\ OutFound(u, label) > 0 =>
              OutFound(u, label) \in OutsOf(u) /\ ModelOf(u).outs[OutFound(u, label)] = label
         /\ \A x : IsUnit(u, x) => /\ Found(x.ins, label) = InFound(u, label)
                                   /\ Found(x.outs, label) = OutFound(u, label)
<1> DEFINE ins == Labelled(ModelOf(u).ins)
           outs == Labelled(ModelOf(u).outs)
<1>1. InsOf(u) \subseteq Nat \ {0} /\ OutsOf(u) \subseteq Nat \ {0}
  BY MountableModel DEF InsOf, OutsOf
<1>2. /\ DOMAIN ins = InsOf(u) /\ \A i \in InsOf(u) : ins[i].label = ModelOf(u).ins[i]
      /\ DOMAIN outs = OutsOf(u) /\ \A o \in OutsOf(u) : outs[o].label = ModelOf(u).outs[o]
  BY DEF Labelled, InsOf, OutsOf
<1> HIDE DEF ins, outs
<1>3. /\ Found(ins, label) \in Nat /\ Found(outs, label) \in Nat
      /\ Found(ins, label) > 0 => /\ Found(ins, label) \in InsOf(u)
                                  /\ ins[Found(ins, label)].label = label
      /\ Found(outs, label) > 0 => /\ Found(outs, label) \in OutsOf(u)
                                   /\ outs[Found(outs, label)].label = label
  BY <1>1, <1>2, FoundPort
<1>4. ASSUME NEW x, IsUnit(u, x)
      PROVE  Found(x.ins, label) = Found(ins, label) /\ Found(x.outs, label) = Found(outs, label)
  <2>1. /\ DOMAIN x.ins = DOMAIN ins /\ DOMAIN x.outs = DOMAIN outs
        /\ \A i \in DOMAIN x.ins : x.ins[i].label = ins[i].label
        /\ \A o \in DOMAIN x.outs : x.outs[o].label = outs[o].label
    BY <1>2, <1>4 DEF IsUnit
  <2> QED
    BY <2>1, FoundByLabel
<1> QED
  BY <1>2, <1>3, <1>4 DEF ins, outs, InFound, OutFound

(* A unit is built with nothing connected.                                 *)
LEMMA UnitBuilt ==
  ASSUME Control, MountAndChain, Len(registry) \in Nat
  PROVE  LET u == ThisChain.to  unit == MountDependencies(LoadedUnit) IN
         /\ u \in DOMAIN doc.units /\ Mountable(u) /\ u \notin DOMAIN units
         /\ IsUnit(u, unit) /\ unit.id = Len(registry)
         /\ \A i \in InsOf(u) : ~unit.ins[i].connected
         /\ \A o \in OutsOf(u) : unit.outs[o].to = Null
<1> DEFINE u == ThisChain.to
           unit == MountDependencies(LoadedUnit)
           ins == [i \in DOMAIN ModelOf(u).ins |->
                     [label |-> ModelOf(u).ins[i], connected |-> FALSE]]
           outs == [o \in DOMAIN ModelOf(u).outs |->
                      [label |-> ModelOf(u).outs[o], to |-> Null]]
<1>1. u \in DOMAIN doc.units /\ Mountable(u) /\ u \notin DOMAIN units
  BY ThisChainFacts DEF MountAndChain, Opened, HasSymbol, Mountable
<1>2. ThisUnit.model = doc.units[u].model
  BY <1>1, ThisChainFacts DEF MountAndChain
<1>3. unit = [id |-> Len(registry), utilities |-> {"led", "rack", "queue", "loop", "cache"},
              outs |-> outs, ins |-> ins]
  <2> DEFINE built == Built(ThisUnit.model)
             labelled == [built EXCEPT !.id = Len(registry)]
             loaded1 == [labelled EXCEPT !.utilities = {"led"}]
             given == {"led"} \cup {"rack"} \cup (Utilities \ {"midi", "registry"})
             mounted == [loaded1 EXCEPT !.utilities = given]
  <2>1. built = [id |-> Null, utilities |-> {}, outs |-> outs, ins |-> ins]
    BY <1>2 DEF Built, ModelOf
  <2> HIDE DEF ins, outs, built
  <2>2. labelled \in [id : {Len(registry)}, utilities : {{}}, outs : {outs}, ins : {ins}]
    BY <2>1
  <2> HIDE DEF labelled
  <2>3. loaded1 \in [id : {Len(registry)}, utilities : {{"led"}}, outs : {outs}, ins : {ins}]
    BY <2>2
  <2>4. LoadedUnit = loaded1
    BY DEF LoadedUnit, Registered, labelled, built
  <2> HIDE DEF loaded1, given
  <2>5. mounted \in [id : {Len(registry)}, utilities : {given}, outs : {outs}, ins : {ins}]
    BY <2>3
  <2>6. unit = mounted
    BY <2>3, <2>4 DEF MountDependencies, given
  <2>7. given = {"led", "rack", "queue", "loop", "cache"}
    BY DEF given, Utilities
  <2> HIDE DEF mounted
  <2> QED
    BY <2>5, <2>6, <2>7
<1>4. /\ ins \in [InsOf(u) -> LinkIn]
      /\ outs \in [OutsOf(u) -> [label : STRING, to : {Null} \cup (STRING \X Nat)]]
      /\ \A i \in InsOf(u) : ins[i].label = ModelOf(u).ins[i] /\ ~ins[i].connected
      /\ \A o \in OutsOf(u) : outs[o].label = ModelOf(u).outs[o] /\ outs[o].to = Null
  BY <1>1, MountableModel DEF LinkIn
<1> HIDE DEF ins, outs
<1>5. IsUnit(u, unit) /\ unit.id = Len(registry)
  BY <1>3, <1>4 DEF IsUnit
<1> QED
  BY <1>1, <1>3, <1>4, <1>5

(* An output and an input of a unit. *)
LEMMA OutputSet ==
  ASSUME NEW u, NEW x, IsUnit(u, x), NEW o \in OutsOf(u),
         NEW to \in {Null} \cup (STRING \X Nat)
  PROVE  LET y == [x EXCEPT !.outs[o].to = to] IN
         /\ IsUnit(u, y) /\ y.id = x.id /\ y.ins = x.ins
         /\ \A p \in OutsOf(u) : y.outs[p].to = IF p = o THEN to ELSE x.outs[p].to
<1> DEFINE Out == [label : STRING, to : {Null} \cup (STRING \X Nat)]
           y == [x EXCEPT !.outs[o].to = to]
           outs == [x.outs EXCEPT ![o] = [x.outs[o] EXCEPT !.to = to]]
<1>1. x.outs \in [OutsOf(u) -> Out] /\ x.outs[o] \in Out
  BY DEF IsUnit
<1>2. outs \in [OutsOf(u) -> Out]
  BY <1>1
<1>3. \A p \in OutsOf(u) : /\ outs[p].to = IF p = o THEN to ELSE x.outs[p].to
                           /\ outs[p].label = x.outs[p].label
  BY <1>1
<1>4. y = [x EXCEPT !.outs = outs]
  BY DEF IsUnit
<1> HIDE DEF outs, y
<1> QED
  BY <1>2, <1>3, <1>4 DEF IsUnit, y

LEMMA InputSet ==
  ASSUME NEW u, NEW x, IsUnit(u, x), NEW i \in InsOf(u), NEW value \in BOOLEAN
  PROVE  LET y == [x EXCEPT !.ins[i].connected = value] IN
         /\ IsUnit(u, y) /\ y.id = x.id /\ y.outs = x.outs
         /\ \A j \in InsOf(u) :
              y.ins[j].connected <=> (j = i /\ value) \/ (j # i /\ x.ins[j].connected)
<1> DEFINE y == [x EXCEPT !.ins[i].connected = value]
           ins == [x.ins EXCEPT ![i] = [x.ins[i] EXCEPT !.connected = value]]
<1>1. x.ins \in [InsOf(u) -> LinkIn] /\ x.ins[i] \in LinkIn
  BY DEF IsUnit
<1>2. ins \in [InsOf(u) -> LinkIn]
  BY <1>1 DEF LinkIn
<1>3. \A j \in InsOf(u) :
        /\ ins[j].connected <=> (j = i /\ value) \/ (j # i /\ x.ins[j].connected)
        /\ ins[j].label = x.ins[j].label
  BY <1>1 DEF LinkIn
<1>4. y = [x EXCEPT !.ins = ins]
  BY DEF IsUnit
<1> HIDE DEF ins, y
<1> QED
  BY <1>2, <1>3, <1>4 DEF IsUnit, y

(* What connect() and disconnect() change. *)
Rewired(us, u, o, to, v, i, value) ==
  [us EXCEPT ![u].outs[o].to = to, ![v].ins[i].connected = value]

LEMMA RewiredUnits ==
  ASSUME NEW us, \A w \in DOMAIN us : IsUnit(w, us[w]),
         NEW u \in DOMAIN us, NEW o \in OutsOf(u), NEW to \in {Null} \cup (STRING \X Nat),
         NEW v \in DOMAIN us, NEW i \in InsOf(v), NEW value \in BOOLEAN
  PROVE  LET new == Rewired(us, u, o, to, v, i, value) IN
         /\ DOMAIN new = DOMAIN us
         /\ \A w \in DOMAIN us :
              /\ IsUnit(w, new[w]) /\ new[w].id = us[w].id
              /\ \A p \in OutsOf(w) :
                   new[w].outs[p].to = IF w = u /\ p = o THEN to ELSE us[w].outs[p].to
              /\ \A j \in InsOf(w) :
                   new[w].ins[j].connected <=>
                     (w = v /\ j = i /\ value) \/ (~(w = v /\ j = i) /\ us[w].ins[j].connected)
<1> DEFINE mid == [us EXCEPT ![u].outs[o].to = to]
           new == [mid EXCEPT ![v].ins[i].connected = value]
<1>1. Rewired(us, u, o, to, v, i, value) = new
  BY DEF Rewired
<1>2. DOMAIN mid = DOMAIN us
  OBVIOUS
<1>3. ASSUME NEW w \in DOMAIN us
      PROVE  /\ IsUnit(w, mid[w]) /\ mid[w].id = us[w].id /\ mid[w].ins = us[w].ins
             /\ \A p \in OutsOf(w) :
                  mid[w].outs[p].to = IF w = u /\ p = o THEN to ELSE us[w].outs[p].to
  <2>1. CASE w = u
    <3>1. mid[u] = [us[u] EXCEPT !.outs[o].to = to]
      OBVIOUS
    <3> HIDE DEF mid
    <3> QED
      BY <2>1, <3>1, OutputSet
  <2>2. CASE w # u
    BY <2>2
  <2> QED
    BY <2>1, <2>2
<1> HIDE DEF mid
<1>4. DOMAIN new = DOMAIN us
  BY <1>2
<1>5. ASSUME NEW w \in DOMAIN us
      PROVE  /\ IsUnit(w, new[w]) /\ new[w].id = mid[w].id /\ new[w].outs = mid[w].outs
             /\ \A j \in InsOf(w) :
                  new[w].ins[j].connected <=>
                    (w = v /\ j = i /\ value) \/ (~(w = v /\ j = i) /\ mid[w].ins[j].connected)
  <2>1. CASE w = v
    <3>1. new[v] = [mid[v] EXCEPT !.ins[i].connected = value]
      BY <1>2
    <3> HIDE DEF new
    <3> QED
      BY <1>3, <2>1, <3>1, InputSet
  <2>2. CASE w # v
    BY <1>2, <1>3, <2>2
  <2> QED
    BY <2>1, <2>2
<1> HIDE DEF new
<1> QED
  BY <1>1, <1>3, <1>4, <1>5

LEMMA ConnectedUnits ==
  ASSUME NEW us, \A w \in DOMAIN us : IsUnit(w, us[w]), DOMAIN us \subseteq STRING,
         NEW u \in DOMAIN us, NEW o \in OutsOf(u), NEW v \in DOMAIN us, NEW i \in InsOf(v),
         i \in Nat
  PROVE  LET new == Connected(us, u, o, v, i) IN
         /\ DOMAIN new = DOMAIN us
         /\ \A w \in DOMAIN us :
              /\ IsUnit(w, new[w]) /\ new[w].id = us[w].id
              /\ \A p \in OutsOf(w) :
                   new[w].outs[p].to = IF w = u /\ p = o THEN <<v, i>> ELSE us[w].outs[p].to
              /\ \A j \in InsOf(w) :
                   new[w].ins[j].connected <=> (w = v /\ j = i) \/ us[w].ins[j].connected
<1> DEFINE z(value) == Rewired(us, u, o, <<v, i>>, v, i, value)
           new == z(TRUE)
<1>1. <<v, i>> \in {Null} \cup (STRING \X Nat)
  OBVIOUS
<1>2. \A value \in BOOLEAN :
        /\ DOMAIN z(value) = DOMAIN us
        /\ \A w \in DOMAIN us :
             /\ IsUnit(w, z(value)[w]) /\ z(value)[w].id = us[w].id
             /\ \A p \in OutsOf(w) :
                  z(value)[w].outs[p].to = IF w = u /\ p = o THEN <<v, i>> ELSE us[w].outs[p].to
             /\ \A j \in InsOf(w) :
                  z(value)[w].ins[j].connected <=>
                    (w = v /\ j = i /\ value) \/ (~(w = v /\ j = i) /\ us[w].ins[j].connected)
  BY <1>1, RewiredUnits
<1>3. new = Connected(us, u, o, v, i)
  BY DEF Connected, Rewired
<1> HIDE DEF z
<1>4. /\ DOMAIN new = DOMAIN us
      /\ \A w \in DOMAIN us :
           /\ IsUnit(w, new[w]) /\ new[w].id = us[w].id
           /\ \A p \in OutsOf(w) :
                new[w].outs[p].to = IF w = u /\ p = o THEN <<v, i>> ELSE us[w].outs[p].to
           /\ \A j \in InsOf(w) :
                new[w].ins[j].connected <=> (w = v /\ j = i) \/ us[w].ins[j].connected
  BY <1>2, Zenon
<1> HIDE DEF new
<1> QED
  BY <1>3, <1>4

Disconnected(us, u, o, v, i) ==
  [us EXCEPT ![u].outs[o].to = Null, ![v].ins[i].connected = FALSE]

LEMMA DisconnectedUnits ==
  ASSUME NEW us, \A w \in DOMAIN us : IsUnit(w, us[w]),
         NEW u \in DOMAIN us, NEW o \in OutsOf(u), NEW v \in DOMAIN us, NEW i \in InsOf(v)
  PROVE  LET new == Disconnected(us, u, o, v, i) IN
         /\ DOMAIN new = DOMAIN us
         /\ \A w \in DOMAIN us :
              /\ IsUnit(w, new[w]) /\ new[w].id = us[w].id
              /\ \A p \in OutsOf(w) :
                   new[w].outs[p].to = IF w = u /\ p = o THEN Null ELSE us[w].outs[p].to
              /\ \A j \in InsOf(w) :
                   new[w].ins[j].connected <=> ~(w = v /\ j = i) /\ us[w].ins[j].connected
<1> DEFINE z(value) == Rewired(us, u, o, Null, v, i, value)
           new == z(FALSE)
<1>1. Null \in {Null} \cup (STRING \X Nat)
  OBVIOUS
<1>2. \A value \in BOOLEAN :
        /\ DOMAIN z(value) = DOMAIN us
        /\ \A w \in DOMAIN us :
             /\ IsUnit(w, z(value)[w]) /\ z(value)[w].id = us[w].id
             /\ \A p \in OutsOf(w) :
                  z(value)[w].outs[p].to = IF w = u /\ p = o THEN Null ELSE us[w].outs[p].to
             /\ \A j \in InsOf(w) :
                  z(value)[w].ins[j].connected <=>
                    (w = v /\ j = i /\ value) \/ (~(w = v /\ j = i) /\ us[w].ins[j].connected)
  BY <1>1, RewiredUnits
<1>3. new = Disconnected(us, u, o, v, i)
  BY DEF Disconnected, Rewired
<1> HIDE DEF z
<1>4. /\ DOMAIN new = DOMAIN us
      /\ \A w \in DOMAIN us :
           /\ IsUnit(w, new[w]) /\ new[w].id = us[w].id
           /\ \A p \in OutsOf(w) :
                new[w].outs[p].to = IF w = u /\ p = o THEN Null ELSE us[w].outs[p].to
           /\ \A j \in InsOf(w) :
                new[w].ins[j].connected <=> ~(w = v /\ j = i) /\ us[w].ins[j].connected
  BY <1>2, Zenon
<1> HIDE DEF new
<1> QED
  BY <1>3, <1>4

(* What becomes of the units when a daisychain is connected.               *)
Mounted(us) ==
  \A w \in DOMAIN us : /\ w \in DOMAIN doc.units /\ w \in STRING
                       /\ Mountable(w) /\ IsUnit(w, us[w])

Links(us, c) ==
  /\ c.from # "rack" /\ c.from \in DOMAIN us /\ c.to \in DOMAIN us
  /\ OutFound(c.from, c.plug) > 0 /\ InFound(c.to, c.jack) > 0

LEMMA ConnectFacts ==
  ASSUME NEW us, Mounted(us), NEW c, Connect(us, c)
  PROVE  /\ DOMAIN units' = DOMAIN us
         /\ \A w \in DOMAIN us :
              /\ IsUnit(w, units'[w]) /\ units'[w].id = us[w].id
              /\ \A p \in OutsOf(w) :
                   units'[w].outs[p].to =
                     IF Links(us, c) /\ w = c.from /\ p = OutFound(c.from, c.plug)
                     THEN <<c.to, InFound(c.to, c.jack)>> ELSE us[w].outs[p].to
              /\ \A j \in InsOf(w) :
                   units'[w].ins[j].connected <=>
                     \/ Links(us, c) /\ w = c.to /\ j = InFound(c.to, c.jack)
                     \/ us[w].ins[j].connected
<1> DEFINE o == Found(us[c.from].outs, c.plug)
           i == Found(us[c.to].ins, c.jack)
           linked == /\ c.from # "rack" /\ c.from \in DOMAIN us /\ c.to \in DOMAIN us
                     /\ o > 0 /\ i > 0
<1>1. units' = IF linked THEN Connected(us, c.from, o, c.to, i) ELSE us
  BY DEF Connect, HasUnit
<1>2. c.from \in DOMAIN us /\ c.to \in DOMAIN us =>
        o = OutFound(c.from, c.plug) /\ i = InFound(c.to, c.jack)
  BY FoundInModel DEF Mounted
<1> HIDE DEF o, i
<1>3. linked <=> Links(us, c)
  BY <1>2 DEF Links
<1>4. CASE linked
  <2>1. /\ o = OutFound(c.from, c.plug) /\ o \in OutsOf(c.from)
        /\ i = InFound(c.to, c.jack) /\ i \in InsOf(c.to) /\ i \in Nat
    BY <1>2, <1>4, FoundInModel DEF Mounted
  <2>2. DOMAIN us \subseteq STRING /\ \A w \in DOMAIN us : IsUnit(w, us[w])
    BY DEF Mounted
  <2>3. units' = Connected(us, c.from, o, c.to, i)
    BY <1>1, <1>4
  <2>4. /\ DOMAIN units' = DOMAIN us
        /\ \A w \in DOMAIN us :
             /\ IsUnit(w, units'[w]) /\ units'[w].id = us[w].id
             /\ \A p \in OutsOf(w) :
                  units'[w].outs[p].to =
                    IF w = c.from /\ p = o THEN <<c.to, i>> ELSE us[w].outs[p].to
             /\ \A j \in InsOf(w) :
                  units'[w].ins[j].connected <=> (w = c.to /\ j = i) \/ us[w].ins[j].connected
    BY <1>4, <2>1, <2>2, <2>3, ConnectedUnits
  <2> HIDE DEF linked
  <2> QED
    BY <1>3, <1>4, <2>1, <2>4
<1>5. CASE ~linked
  BY <1>1, <1>3, <1>5 DEF Mounted
<1> QED
  BY <1>4, <1>5

LEMMA DocumentStays ==
  ASSUME doc' = doc
  PROVE  /\ \A u : /\ InsOf(u)' = InsOf(u) /\ OutsOf(u)' = OutsOf(u)
                   /\ Mountable(u)' <=> Mountable(u)
         /\ \A u, label : InFound(u, label)' = InFound(u, label)
                          /\ OutFound(u, label)' = OutFound(u, label)
         /\ \A u, x : IsUnit(u, x)' <=> IsUnit(u, x)
         /\ \A us, c : Links(us, c)' <=> Links(us, c)
         /\ Whole' <=> Whole
         /\ Unshared' <=> Unshared
<1>1. \A u : ModelOf(u)' = ModelOf(u)
  BY DEF ModelOf
<1>2. /\ \A u : /\ InsOf(u)' = InsOf(u) /\ OutsOf(u)' = OutsOf(u)
                /\ Mountable(u)' <=> Mountable(u)
      /\ \A u, label : InFound(u, label)' = InFound(u, label)
                       /\ OutFound(u, label)' = OutFound(u, label)
  BY <1>1 DEF InsOf, OutsOf, InFound, OutFound, Mountable
<1>3. \A u, x : IsUnit(u, x)' <=> IsUnit(u, x)
  BY <1>1, <1>2 DEF IsUnit
<1>4. \A us, c : Links(us, c)' <=> Links(us, c)
  BY <1>2 DEF Links
<1> QED
  BY <1>2, <1>3, <1>4 DEF Whole, Unshared

(* An output leads to where a daisychain put it; if none is shared, an     *)
(* input is connected just when an output leads to it.                     *)
Stems ==
  \A u \in DOMAIN units : \A o \in OutsOf(u) : units[u].outs[o].to # Null =>
    \E k \in 1 .. link - 1 :
      /\ Links(units, doc.chains[k]) /\ doc.chains[k].from = u
      /\ o = OutFound(u, doc.chains[k].plug)
      /\ units[u].outs[o].to =
           <<doc.chains[k].to, InFound(doc.chains[k].to, doc.chains[k].jack)>>

Flagged ==
  \A v \in DOMAIN units : \A i \in InsOf(v) :
    units[v].ins[i].connected <=>
      \E u \in DOMAIN units : \E o \in OutsOf(u) : units[u].outs[o].to = <<v, i>>

(* The units before a daisychain is connected: those that are mounted, and *)
(* perhaps a new one.                                                      *)
Extended(us) ==
  /\ Mounted(us) /\ DOMAIN units \subseteq DOMAIN us
  /\ \A w \in DOMAIN units : us[w] = units[w]
  /\ \A w \in DOMAIN us \ DOMAIN units :
       /\ \A i \in InsOf(w) : ~us[w].ins[i].connected
       /\ \A o \in OutsOf(w) : us[w].outs[o].to = Null

(* Two links of the same output or to the same input are the same.         *)
LEMMA LinksDiffer ==
  ASSUME Mounted(units), Unshared, NEW us, Mounted(us),
         NEW j \in DOMAIN doc.chains, NEW k \in DOMAIN doc.chains,
         Links(us, doc.chains[j]), Links(us, doc.chains[k]),
         LET c == doc.chains[j]  d == doc.chains[k] IN
         \/ c.from = d.from /\ OutFound(c.from, c.plug) = OutFound(d.from, d.plug)
         \/ c.to = d.to /\ InFound(c.to, c.jack) = InFound(d.to, d.jack)
  PROVE  j = k
<1> DEFINE c == doc.chains[j]
           d == doc.chains[k]
<1>1. /\ ModelOf(c.from).outs[OutFound(c.from, c.plug)] = c.plug
      /\ ModelOf(d.from).outs[OutFound(d.from, d.plug)] = d.plug
      /\ ModelOf(c.to).ins[InFound(c.to, c.jack)] = c.jack
      /\ ModelOf(d.to).ins[InFound(d.to, d.jack)] = d.jack
  BY FoundInModel DEF Links, Mounted
<1>2. \/ <<c.from, c.plug>> = <<d.from, d.plug>>
      \/ <<c.to, c.jack>> = <<d.to, d.jack>>
  BY <1>1
<1>3. c.from # "rack" /\ d.from # "rack"
  BY DEF Links
<1> QED
  BY <1>2, <1>3 DEF Unshared

LEMMA ChainWired ==
  ASSUME Control, Mounted(units), Stems, Unshared => Flagged, ChainsLeft,
         NEW us, Extended(us), Connect(us, ThisChain), link' = link + 1, doc' = doc
  PROVE  Stems' /\ (Unshared' => Flagged')
<1> DEFINE c == ThisChain
           out == OutFound(c.from, c.plug)
           in == InFound(c.to, c.jack)
<1>1. link \in Nat \ {0} /\ link \in DOMAIN doc.chains /\ c = doc.chains[link]
      /\ DOMAIN doc.chains = 1 .. Len(doc.chains) /\ Len(doc.chains) \in Nat
  <2>1. /\ Whole /\ link \in DOMAIN doc.chains /\ c = doc.chains[link] /\ pc \notin Early
        /\ link \in Nat \ {0}
    BY ThisChainFacts DEF ChainsLeft, Early, Control
  <2> QED
    BY <2>1, LoadedDocument, WholeDocument
<1>2. /\ DOMAIN units' = DOMAIN us
      /\ \A w \in DOMAIN us : \A p \in OutsOf(w) :
           units'[w].outs[p].to = IF Links(us, c) /\ w = c.from /\ p = out
                                  THEN <<c.to, in>> ELSE us[w].outs[p].to
      /\ \A w \in DOMAIN us : \A j \in InsOf(w) :
           units'[w].ins[j].connected <=>
             (Links(us, c) /\ w = c.to /\ j = in) \/ us[w].ins[j].connected
  BY ConnectFacts DEF Extended
<1> HIDE DEF c, out, in
<1>3. \A d : (Links(units, d)' <=> Links(us, d)) /\ (Links(units, d) => Links(us, d))
  BY <1>2, DocumentStays DEF Links, Extended
<1>4. Stems'
  <2> SUFFICES ASSUME NEW u \in DOMAIN us, NEW o \in OutsOf(u), units'[u].outs[o].to # Null
               PROVE  \E k \in 1 .. link :
                        /\ Links(us, doc.chains[k]) /\ doc.chains[k].from = u
                        /\ o = OutFound(u, doc.chains[k].plug)
                        /\ units'[u].outs[o].to =
                             <<doc.chains[k].to, InFound(doc.chains[k].to, doc.chains[k].jack)>>
    <3>1. /\ \A w : OutsOf(w)' = OutsOf(w)
          /\ \A w, label : InFound(w, label)' = InFound(w, label)
                          /\ OutFound(w, label)' = OutFound(w, label)
      BY DocumentStays
    <3>2. DOMAIN units' = DOMAIN us /\ link' - 1 = link
      BY <1>1, <1>2
    <3> QED
      BY <1>3, <3>1, <3>2 DEF Stems
  <2>1. CASE Links(us, c) /\ u = c.from /\ o = out
    <3>1. link \in 1 .. link /\ Links(us, c) /\ c.from = u /\ units'[u].outs[o].to = <<c.to, in>>
      BY <1>1, <1>2, <2>1
    <3>2. o = OutFound(u, c.plug) /\ in = InFound(c.to, c.jack)
      BY <2>1 DEF out, in
    <3> QED
      BY <1>1, <3>1, <3>2
  <2>2. CASE ~(Links(us, c) /\ u = c.from /\ o = out)
    <3>1. units'[u].outs[o].to = us[u].outs[o].to
      BY <1>2, <2>2
    <3>2. u \in DOMAIN units /\ us[u] = units[u]
      BY <3>1 DEF Extended
    <3>3. units[u].outs[o].to # Null
      BY <3>1, <3>2
    <3>4. \A x \in OutsOf(u) : units[u].outs[x].to # Null =>
            \E k \in 1 .. link - 1 :
              /\ Links(units, doc.chains[k]) /\ doc.chains[k].from = u
              /\ x = OutFound(u, doc.chains[k].plug)
              /\ units[u].outs[x].to =
                   <<doc.chains[k].to, InFound(doc.chains[k].to, doc.chains[k].jack)>>
      BY <3>2 DEF Stems
    <3>5. PICK k \in 1 .. link - 1 :
            /\ Links(units, doc.chains[k]) /\ doc.chains[k].from = u
            /\ o = OutFound(u, doc.chains[k].plug)
            /\ units[u].outs[o].to =
                 <<doc.chains[k].to, InFound(doc.chains[k].to, doc.chains[k].jack)>>
      BY <3>3, <3>4
    <3>6. k \in 1 .. link
      BY <1>1
    <3>7. Links(us, doc.chains[k])
      BY <1>3, <3>5
    <3> QED
      BY <3>1, <3>2, <3>5, <3>6, <3>7
  <2> QED
    BY <2>1, <2>2
<1>5. ASSUME Unshared PROVE Flagged'
  <2>1. DOMAIN units' = DOMAIN us /\ \A w : InsOf(w)' = InsOf(w) /\ OutsOf(w)' = OutsOf(w)
    BY <1>2, DocumentStays
  <2> SUFFICES ASSUME NEW v \in DOMAIN units', NEW i \in InsOf(v)'
               PROVE  units'[v].ins[i].connected <=>
                        \E u \in DOMAIN units' : \E o \in OutsOf(u)' :
                          units'[u].outs[o].to = <<v, i>>
    BY DEF Flagged
  <2>2. v \in DOMAIN us /\ i \in InsOf(v)
    BY <2>1
  <2>3. Flagged
    BY <1>5
  <2>4. ASSUME Links(us, c) /\ v = c.to /\ i = in
        PROVE  \E u \in DOMAIN us : \E o \in OutsOf(u) : units'[u].outs[o].to = <<v, i>>
    <3>1. c.from \in DOMAIN us /\ out \in OutsOf(c.from)
      BY <2>4, FoundInModel DEF Links, Extended, Mounted, out
    <3> QED
      BY <1>2, <2>4, <3>1
  <2>5. ASSUME us[v].ins[i].connected
        PROVE  \E u \in DOMAIN us : \E o \in OutsOf(u) : units'[u].outs[o].to = <<v, i>>
    <3>1. v \in DOMAIN units /\ us[v] = units[v]
      BY <2>5, <2>2 DEF Extended
    <3>2. PICK u \in DOMAIN units : \E o \in OutsOf(u) : units[u].outs[o].to = <<v, i>>
      BY <2>3, <2>5, <2>2, <3>1 DEF Flagged
    <3>3. PICK o \in OutsOf(u) : units[u].outs[o].to = <<v, i>>
      BY <3>2
    <3>4. units[u].outs[o].to # Null /\ us[u] = units[u] /\ u \in DOMAIN us
      BY <2>2, <3>1, <3>3, NotAValueAssumption, MountableModel DEF Extended, Mounted, InsOf
    <3>5. ~(Links(us, c) /\ u = c.from /\ o = out)
      <4>1. PICK k \in 1 .. link - 1 :
              /\ Links(units, doc.chains[k]) /\ doc.chains[k].from = u
              /\ o = OutFound(u, doc.chains[k].plug)
        BY <3>3, <3>4 DEF Stems
      <4>2. k \in DOMAIN doc.chains /\ k # link /\ Links(us, doc.chains[k])
        BY <1>1, <1>3, <4>1
      <4> QED
        BY <1>1, <1>5, <4>1, <4>2, LinksDiffer DEF out, Extended
    <3> QED
      BY <1>2, <3>3, <3>4, <3>5
  <2>6. ASSUME NEW u \in DOMAIN us, NEW o \in OutsOf(u), units'[u].outs[o].to = <<v, i>>
        PROVE  units'[v].ins[i].connected
    <3>1. CASE Links(us, c) /\ u = c.from /\ o = out
      BY <1>2, <2>6, <2>2, <3>1
    <3>2. CASE ~(Links(us, c) /\ u = c.from /\ o = out)
      <4>1. us[u].outs[o].to = <<v, i>> /\ <<v, i>> # Null
        BY <1>2, <2>6, <2>2, <3>2, NotAValueAssumption, MountableModel DEF Extended, Mounted, InsOf
      <4>2. u \in DOMAIN units /\ us[u] = units[u]
        BY <4>1 DEF Extended
      <4>3. units[u].outs[o].to # Null
        BY <4>1, <4>2
      <4>4. PICK k \in 1 .. link - 1 :
              /\ Links(units, doc.chains[k])
              /\ units[u].outs[o].to =
                   <<doc.chains[k].to, InFound(doc.chains[k].to, doc.chains[k].jack)>>
        BY <4>2, <4>3 DEF Stems
      <4>5. v = doc.chains[k].to /\ v \in DOMAIN units
        BY <4>1, <4>2, <4>4 DEF Links
      <4> QED
        BY <1>2, <2>3, <2>2, <4>1, <4>2, <4>5 DEF Flagged, Extended
    <3> QED
      BY <3>1, <3>2
  <2>7. units'[v].ins[i].connected <=>
          \E u \in DOMAIN us : \E o \in OutsOf(u) : units'[u].outs[o].to = <<v, i>>
    <3>1. units'[v].ins[i].connected <=>
            (Links(us, c) /\ v = c.to /\ i = in) \/ us[v].ins[i].connected
      BY <1>2, <2>2
    <3> QED
      BY <2>4, <2>5, <2>6, <3>1
  <2> QED
    BY <2>1, <2>7
<1> QED
  BY <1>4, <1>5, DocumentStays

(* disconnect() of an output that is linked, which is the only one of the  *)
(* input it leads to.                                                      *)
LEMMA LinkRemoved ==
  ASSUME Control, Mounted(units), Stems, NEW u \in DOMAIN units, NEW o \in Nat \ {0},
         Disconnect(u, o), pc' # "undefined"
  PROVE  o \in OutsOf(u) /\ \E v \in DOMAIN units : \E i \in InsOf(v) :
           /\ units[u].outs[o].to = <<v, i>> /\ DOMAIN units' = DOMAIN units
           /\ \A w \in DOMAIN units :
                /\ IsUnit(w, units'[w]) /\ units'[w].id = units[w].id
                /\ \A p \in OutsOf(w) :
                     units'[w].outs[p].to = IF w = u /\ p = o THEN Null ELSE units[w].outs[p].to
                /\ \A j \in InsOf(w) :
                     units'[w].ins[j].connected <=> ~(w = v /\ j = i) /\ units[w].ins[j].connected
<1>1. /\ o <= Len(units[u].outs) /\ units[u].outs[o].to # Null
      /\ units' = Disconnected(units, u, o, units[u].outs[o].to[1], units[u].outs[o].to[2])
  BY DEF Disconnect, Disconnected
<1>2. o \in OutsOf(u)
  <2>1. units[u].outs \in [OutsOf(u) -> [label : STRING, to : {Null} \cup (STRING \X Nat)]]
    BY DEF Mounted, IsUnit
  <2>2. Len(units[u].outs) = Len(ModelOf(u).outs)
    BY <2>1, MountableModel DEF OutsOf, Mounted
  <2> QED
    BY <1>1, <2>2, MountableModel DEF OutsOf, Mounted
<1>3. PICK k \in 1 .. link - 1 :
        /\ Links(units, doc.chains[k])
        /\ units[u].outs[o].to =
             <<doc.chains[k].to, InFound(doc.chains[k].to, doc.chains[k].jack)>>
  BY <1>1, <1>2 DEF Stems
<1>4. PICK v \in DOMAIN units : \E i \in InsOf(v) : units[u].outs[o].to = <<v, i>>
  BY <1>3, FoundInModel DEF Links, Mounted
<1>5. PICK i \in InsOf(v) : units[u].outs[o].to = <<v, i>>
  BY <1>4
<1>6. units' = Disconnected(units, u, o, v, i)
  BY <1>1, <1>5
<1>7. \A w \in DOMAIN units : IsUnit(w, units[w])
  BY DEF Mounted
<1>8. /\ DOMAIN units' = DOMAIN units
      /\ \A w \in DOMAIN units :
           /\ IsUnit(w, units'[w]) /\ units'[w].id = units[w].id
           /\ \A p \in OutsOf(w) :
                units'[w].outs[p].to = IF w = u /\ p = o THEN Null ELSE units[w].outs[p].to
           /\ \A j \in InsOf(w) :
                units'[w].ins[j].connected <=> ~(w = v /\ j = i) /\ units[w].ins[j].connected
  BY <1>2, <1>6, <1>7, DisconnectedUnits
<1> QED
  BY <1>2, <1>5, <1>8

LEMMA LinkRemovedFlagged ==
  ASSUME Control, Mounted(units), Stems, Unshared => Flagged,
         NEW u \in DOMAIN units, NEW o \in Nat \ {0}, Disconnect(u, o), pc' # "undefined"
  PROVE  Stems' /\ (Unshared' => Flagged')
<1>1. pc = "up" /\ doc' = doc /\ link' = link
  BY DEF Disconnect
<1>2. PICK v \in DOMAIN units : o \in OutsOf(u) /\ \E i \in InsOf(v) :
        /\ units[u].outs[o].to = <<v, i>> /\ DOMAIN units' = DOMAIN units
        /\ \A w \in DOMAIN units :
             /\ \A p \in OutsOf(w) :
                  units'[w].outs[p].to = IF w = u /\ p = o THEN Null ELSE units[w].outs[p].to
             /\ \A j \in InsOf(w) :
                  units'[w].ins[j].connected <=> ~(w = v /\ j = i) /\ units[w].ins[j].connected
  BY LinkRemoved
<1>3. PICK i \in InsOf(v) :
        /\ o \in OutsOf(u) /\ units[u].outs[o].to = <<v, i>> /\ DOMAIN units' = DOMAIN units
        /\ \A w \in DOMAIN units :
             /\ \A p \in OutsOf(w) :
                  units'[w].outs[p].to = IF w = u /\ p = o THEN Null ELSE units[w].outs[p].to
             /\ \A j \in InsOf(w) :
                  units'[w].ins[j].connected <=> ~(w = v /\ j = i) /\ units[w].ins[j].connected
  BY <1>2
<1>4. \A c : Links(units, c)' <=> Links(units, c)
  BY <1>1, <1>3, DocumentStays DEF Links
<1>5. Stems'
  BY <1>1, <1>3, <1>4, DocumentStays DEF Stems
<1>6. ASSUME Unshared PROVE Flagged'
  <2>1. DOMAIN units' = DOMAIN units /\ \A x : InsOf(x)' = InsOf(x) /\ OutsOf(x)' = OutsOf(x)
    BY <1>1, <1>3, DocumentStays
  <2> SUFFICES ASSUME NEW w \in DOMAIN units', NEW j \in InsOf(w)'
               PROVE  units'[w].ins[j].connected <=>
                        \E x \in DOMAIN units' : \E p \in OutsOf(x)' :
                          units'[x].outs[p].to = <<w, j>>
    BY DEF Flagged
  <2>2. w \in DOMAIN units /\ j \in InsOf(w)
    BY <2>1
  <2>3. Flagged /\ <<w, j>> # Null
    BY <1>6, <2>2, NotAValueAssumption, MountableModel DEF Mounted, InsOf
  <2>4. CASE w = v /\ j = i
    <3>1. ASSUME NEW x \in DOMAIN units, NEW p \in OutsOf(x), units'[x].outs[p].to = <<w, j>>
          PROVE  FALSE
      <4>1. units'[x].outs[p].to # Null /\ <<v, i>> # Null
        BY <2>3, <2>4, <3>1
      <4>2. ~(x = u /\ p = o) /\ units[x].outs[p].to = <<v, i>>
        BY <1>3, <2>4, <3>1, <4>1
      <4>3. units[x].outs[p].to # Null /\ units[u].outs[o].to # Null
        BY <1>3, <4>1, <4>2
      <4>4. PICK k \in 1 .. link - 1 :
              /\ Links(units, doc.chains[k]) /\ doc.chains[k].from = x
              /\ units[x].outs[p].to =
                   <<doc.chains[k].to, InFound(doc.chains[k].to, doc.chains[k].jack)>>
              /\ p = OutFound(x, doc.chains[k].plug)
        BY <4>3 DEF Stems
      <4>5. PICK m \in 1 .. link - 1 :
              /\ Links(units, doc.chains[m]) /\ doc.chains[m].from = u
              /\ units[u].outs[o].to =
                   <<doc.chains[m].to, InFound(doc.chains[m].to, doc.chains[m].jack)>>
              /\ o = OutFound(u, doc.chains[m].plug)
        <5>1. o \in OutsOf(u)
          BY <1>3
        <5> QED
          BY <4>3, <5>1 DEF Stems
      <4>6. k \in DOMAIN doc.chains /\ m \in DOMAIN doc.chains
        BY <1>1, LoadedDocument, WholeDocument DEF Early, Control
      <4>7. /\ doc.chains[k].to = doc.chains[m].to
            /\ InFound(doc.chains[k].to, doc.chains[k].jack) =
                 InFound(doc.chains[m].to, doc.chains[m].jack)
        <5>1. units[u].outs[o].to = <<v, i>>
          BY <1>3
        <5>2. units[x].outs[p].to = units[u].outs[o].to
          BY <4>2, <5>1, Zenon
        <5>3. <<doc.chains[k].to, InFound(doc.chains[k].to, doc.chains[k].jack)>> =
                <<doc.chains[m].to, InFound(doc.chains[m].to, doc.chains[m].jack)>>
          BY <4>4, <4>5, <5>2, Zenon
        <5> QED
          BY <5>3
      <4>8. k = m
        BY <1>6, <4>4, <4>5, <4>6, <4>7, LinksDiffer
      <4> QED
        BY <4>2, <4>4, <4>5, <4>8
    <3> QED
      BY <1>3, <2>4, <2>1, <3>1
  <2>5. CASE ~(w = v /\ j = i)
    <3>1. units'[w].ins[j].connected <=> units[w].ins[j].connected
      BY <1>3, <2>5, <2>2
    <3>2. ASSUME NEW x \in DOMAIN units, NEW p \in OutsOf(x)
          PROVE  units'[x].outs[p].to = <<w, j>> <=> units[x].outs[p].to = <<w, j>>
      <4>1. CASE x = u /\ p = o
        <5>1. units'[x].outs[p].to = Null /\ units[x].outs[p].to = <<v, i>>
          BY <1>3, <4>1
        <5> QED
          BY <2>3, <2>5, <5>1
      <4>2. CASE ~(x = u /\ p = o)
        BY <1>3, <4>2
      <4> QED
        BY <4>1, <4>2
    <3>3. units[w].ins[j].connected <=>
            \E x \in DOMAIN units : \E p \in OutsOf(x) : units[x].outs[p].to = <<w, j>>
      BY <2>3, <2>2 DEF Flagged
    <3> QED
      BY <2>1, <3>1, <3>2, <3>3
  <2> QED
    BY <2>4, <2>5
<1> QED
  BY <1>1, <1>5, <1>6, DocumentStays

(* The units that were registered are those that are mounted, each under   *)
(* its own id.                                                             *)
InRegistry ==
  /\ registry \in Seq(STRING)
  /\ \A n \in DOMAIN registry : registry[n] \in DOMAIN doc.units /\ Mountable(registry[n])
  /\ \A j, k \in DOMAIN registry : registry[j] = registry[k] => j = k
  /\ pc \notin Destroyed => DOMAIN units = {registry[n] : n \in DOMAIN registry}
  /\ \A u \in DOMAIN units : /\ units[u].id + 1 \in DOMAIN registry
                              /\ registry[units[u].id + 1] = u

Wired == Mounted(units) /\ InRegistry /\ Stems /\ (Unshared => Flagged)

LEMMA ChainExtends ==
  ASSUME Control, Mounted(units), InRegistry, ChainOnly \/ MountAndChain
  PROVE  \E us :
           /\ Extended(us) /\ Connect(us, ThisChain)
           /\ \/ DOMAIN us = DOMAIN units /\ registry' = registry
              \/ /\ DOMAIN us = DOMAIN units \cup {ThisChain.to}
                 /\ ThisChain.to \in DOMAIN doc.units \ DOMAIN units
                 /\ Mountable(ThisChain.to) /\ ThisChain.to \in STRING
                 /\ registry' = Append(registry, ThisChain.to)
                 /\ us[ThisChain.to].id = Len(registry)
<1>1. CASE ChainOnly
  <2>1. Connect(units, ThisChain) /\ registry' = registry
    BY <1>1 DEF ChainOnly
  <2>2. Extended(units)
    BY DEF Extended
  <2> QED
    BY <2>1, <2>2
<1>2. CASE MountAndChain
  <2> DEFINE x == ThisChain.to
             made == MountDependencies(LoadedUnit)
             added == AddUnit(units, x, LoadedUnit)
  <2>1. Connect(added, ThisChain) /\ registry' = Append(registry, x) /\ ChainsLeft
    BY <1>2 DEF MountAndChain, RegisterComponent
  <2>2. Len(registry) \in Nat
    BY DEF InRegistry
  <2>3. /\ x \in DOMAIN doc.units /\ Mountable(x) /\ x \notin DOMAIN units
        /\ IsUnit(x, made) /\ made.id = Len(registry)
        /\ \A i \in InsOf(x) : ~made.ins[i].connected
        /\ \A o \in OutsOf(x) : made.outs[o].to = Null
    BY <1>2, <2>2, UnitBuilt
  <2>4. x \in STRING
    BY <2>1, ThisChainFacts
  <2>5. /\ DOMAIN added = DOMAIN units \cup {x} /\ added[x] = made
        /\ \A w \in DOMAIN units : added[w] = units[w]
    <3> HIDE DEF x, made, added
    <3>1. DOMAIN AddUnit(units, x, LoadedUnit) = DOMAIN units \cup {x}
      BY UnitAdded
    <3>2. \A w \in DOMAIN units : AddUnit(units, x, LoadedUnit)[w] = units[w]
      BY DEF AddUnit, Inserted
    <3>3. AddUnit(units, x, LoadedUnit)[x] = MountDependencies(LoadedUnit)
      BY <2>3 DEF AddUnit, Inserted
    <3> QED
      BY <3>1, <3>2, <3>3 DEF made, added
  <2> HIDE DEF x, made, added
  <2>6. Extended(added)
    BY <2>3, <2>4, <2>5 DEF Extended, Mounted
  <2>7. added[x].id = Len(registry)
    BY <2>3, <2>5
  <2> QED
    BY <2>1, <2>3, <2>4, <2>5, <2>6, <2>7 DEF x
<1> QED
  BY <1>1, <1>2

LEMMA WiredChain ==
  ASSUME Control, Wired, ChainOnly \/ MountAndChain
  PROVE  Wired'
<1>1. /\ ChainsLeft /\ pc = "chains" /\ pc' = pc /\ doc' = doc /\ link' = link + 1
  BY DEF ChainOnly, MountAndChain, ChainsLeft
<1>2. PICK us :
        /\ Extended(us) /\ Connect(us, ThisChain)
        /\ \/ DOMAIN us = DOMAIN units /\ registry' = registry
           \/ /\ DOMAIN us = DOMAIN units \cup {ThisChain.to}
              /\ ThisChain.to \in DOMAIN doc.units \ DOMAIN units
              /\ Mountable(ThisChain.to) /\ ThisChain.to \in STRING
              /\ registry' = Append(registry, ThisChain.to)
              /\ us[ThisChain.to].id = Len(registry)
  BY ChainExtends DEF Wired
<1>3. DOMAIN units' = DOMAIN us /\ \A w \in DOMAIN us : /\ IsUnit(w, units'[w])
                                                       /\ units'[w].id = us[w].id
  BY <1>2, ConnectFacts DEF Extended
<1>4. Mounted(units)'
  BY <1>1, <1>2, <1>3, DocumentStays DEF Mounted, Extended
<1>5. Stems' /\ (Unshared' => Flagged')
  BY <1>1, <1>2, ChainWired DEF Wired
<1>6. InRegistry'
  <2>1. /\ registry \in Seq(STRING)
        /\ \A n \in DOMAIN registry : registry[n] \in DOMAIN doc.units /\ Mountable(registry[n])
        /\ \A j, k \in DOMAIN registry : registry[j] = registry[k] => j = k
        /\ DOMAIN units = {registry[n] : n \in DOMAIN registry}
        /\ \A u \in DOMAIN units : /\ units[u].id + 1 \in DOMAIN registry
                                    /\ registry[units[u].id + 1] = u
    BY <1>1 DEF Wired, InRegistry, Destroyed
  <2>2. \A u \in DOMAIN units : u \in DOMAIN us /\ us[u] = units[u]
    BY <1>2 DEF Extended
  <2>3. CASE DOMAIN us = DOMAIN units /\ registry' = registry
    <3>1. \A u \in DOMAIN units' : /\ units'[u].id + 1 \in DOMAIN registry
                                   /\ registry[units'[u].id + 1] = u
      BY <1>3, <2>1, <2>2, <2>3
    <3> QED
      BY <1>1, <1>3, <2>1, <2>3, <3>1, DocumentStays DEF InRegistry
  <2>4. CASE /\ DOMAIN us = DOMAIN units \cup {ThisChain.to}
             /\ ThisChain.to \in DOMAIN doc.units \ DOMAIN units
             /\ Mountable(ThisChain.to) /\ ThisChain.to \in STRING
             /\ registry' = Append(registry, ThisChain.to)
             /\ us[ThisChain.to].id = Len(registry)
    <3> DEFINE v == ThisChain.to
               n == Len(registry)
    <3> HIDE DEF v
    <3>1. n \in Nat /\ DOMAIN registry = 1 .. n /\ v \in STRING
      BY <2>1, <2>4 DEF v
    <3>2. /\ registry' \in Seq(STRING) /\ DOMAIN registry' = 1 .. n + 1
          /\ registry'[n + 1] = v /\ \A m \in 1 .. n : registry'[m] = registry[m]
      BY <2>1, <2>4, <3>1 DEF v
    <3> HIDE DEF n
    <3>3. v \notin DOMAIN units /\ v \in DOMAIN doc.units /\ Mountable(v) /\ us[v].id = n
      BY <2>4 DEF v, n
    <3>4. \A m \in DOMAIN registry' :
            registry'[m] \in DOMAIN doc.units /\ Mountable(registry'[m])
      BY <2>1, <3>1, <3>2, <3>3
    <3>5. \A j, k \in DOMAIN registry' : registry'[j] = registry'[k] => j = k
      BY <2>1, <3>1, <3>2, <3>3
    <3>6. DOMAIN units' = {registry'[m] : m \in DOMAIN registry'}
      <4>1. DOMAIN units' = DOMAIN units \cup {v}
        BY <1>3, <2>4 DEF v
      <4> QED
        BY <2>1, <3>1, <3>2, <4>1
    <3>7. ASSUME NEW u \in DOMAIN units'
          PROVE  units'[u].id + 1 \in DOMAIN registry' /\ registry'[units'[u].id + 1] = u
      <4>1. CASE u = v
        <5>1. units'[u].id = n
          BY <1>3, <3>3, <3>7, <4>1
        <5> QED
          BY <3>1, <3>2, <4>1, <5>1
      <4>2. CASE u # v
        <5>1. u \in DOMAIN units
          BY <1>3, <2>4, <3>7, <4>2 DEF v
        <5>2. units'[u].id = units[u].id
          BY <1>3, <2>2, <5>1
        <5>3. units[u].id + 1 \in 1 .. n /\ registry[units[u].id + 1] = u
          BY <2>1, <3>1, <5>1
        <5> QED
          BY <3>1, <3>2, <5>2, <5>3
      <4> QED
        BY <4>1, <4>2
    <3> QED
      BY <1>1, <3>2, <3>4, <3>5, <3>6, <3>7, DocumentStays DEF InRegistry
  <2> QED
    BY <1>2, <2>3, <2>4
<1> QED
  BY <1>4, <1>5, <1>6 DEF Wired

LEMMA WiredStep == Control /\ Wired /\ [Next]_vars => Wired'
<1> SUFFICES ASSUME Control, Wired, [Next]_vars PROVE Wired'
  OBVIOUS
<1>1. CASE ChainOnly \/ MountAndChain
  BY <1>1, WiredChain
<1>2. ASSUME NEW u \in DOMAIN units, NEW o \in Nat \ {0}, Disconnect(u, o), pc' # "undefined"
      PROVE  Wired'
  <2>1. pc' = pc /\ UNCHANGED <<doc, registry>>
    BY <1>2 DEF Disconnect
  <2>2. Stems' /\ (Unshared' => Flagged')
    BY <1>2, LinkRemovedFlagged DEF Wired
  <2>3. DOMAIN units' = DOMAIN units /\ \A w \in DOMAIN units : /\ IsUnit(w, units'[w])
                                                               /\ units'[w].id = units[w].id
    BY <1>2, LinkRemoved DEF Wired
  <2>4. Mounted(units)'
    BY <2>1, <2>3, DocumentStays DEF Mounted, Wired
  <2>5. InRegistry'
    BY <2>1, <2>3, DocumentStays DEF InRegistry, Wired
  <2> QED
    BY <2>2, <2>4, <2>5 DEF Wired
<1>3. CASE DestroyRack
  <2>1. units' = <<>> /\ UNCHANGED <<doc, registry>> /\ pc' \in Destroyed
    BY <1>3 DEF DestroyRack, Destroyed
  <2>2. DOMAIN units' = {}
    BY <2>1
  <2>3. Mounted(units)' /\ Stems' /\ Flagged'
    BY <2>2 DEF Mounted, Stems, Flagged
  <2>4. InRegistry'
    BY <2>1, <2>2, DocumentStays DEF InRegistry, Wired
  <2> QED
    BY <2>3, <2>4 DEF Wired
<1>4. ASSUME UNCHANGED <<doc, link, units, registry>>, pc' \notin Destroyed => pc \notin Destroyed
      PROVE  Wired'
  <2>1. Mounted(units)'
    BY <1>4, DocumentStays DEF Mounted, Wired
  <2>2. InRegistry'
    BY <1>4, DocumentStays DEF InRegistry, Wired
  <2>3. Stems'
    BY <1>4, DocumentStays DEF Stems, Wired
  <2>4. Unshared' => Flagged'
    BY <1>4, DocumentStays DEF Flagged, Wired
  <2> QED
    BY <2>1, <2>2, <2>3, <2>4 DEF Wired
<1>5. CASE Load \/ AssembleParts \/ Terminates
  <2>1. pc \notin Destroyed /\ UNCHANGED <<doc, link, units, registry>>
    BY <1>5 DEF Load, AssembleParts, Terminates, ChainsLeft, rackVars, Destroyed
  <2> QED
    BY <1>4, <2>1
<1>6. CASE StartParts \/ Stop \/ Join
  <2>1. pc \notin Destroyed /\ UNCHANGED <<doc, link, units, registry>>
    BY <1>6 DEF StartParts, Stop, Join, rackVars, Destroyed
  <2> QED
    BY <1>4, <2>1
<1>7. CASE \E u \in DOMAIN units : \E o \in 1 .. Len(units[u].ins) : Disconnect(u, o)
  <2>1. PICK u \in DOMAIN units : \E o \in 1 .. Len(units[u].ins) : Disconnect(u, o)
    BY <1>7
  <2>2. PICK o \in 1 .. Len(units[u].ins) : Disconnect(u, o)
    BY <2>1
  <2>3. o \in Nat \ {0}
    OBVIOUS
  <2>4. CASE pc' # "undefined"
    BY <1>2, <2>2, <2>3, <2>4
  <2>5. CASE pc' = "undefined"
    <3>1. pc = "up" /\ UNCHANGED <<doc, link, units, registry>>
      BY <2>2, <2>5 DEF Disconnect
    <3> QED
      BY <1>4, <3>1 DEF Destroyed
  <2> QED
    BY <2>4, <2>5
<1>8. CASE \E d \in DOMAIN devices : Calls(d) \/ Reads(d)
  BY <1>4, <1>8 DEF Calls, Reads, rackVars
<1>9. CASE UNCHANGED vars
  BY <1>4, <1>9 DEF vars, rackVars
<1> QED
  BY <1>1, <1>3, <1>5, <1>6, <1>7, <1>8, <1>9 DEF Next

(* The mounted units are those in the registry, an output leads where one  *)
(* of the daisychains so far puts it, and if no port is used twice the     *)
(* flags of the inputs agree (linkable.cpp lines 10-62, mount.cpp 66-117). *)
THEOREM WiredInvariance == Spec => [](Control /\ Wired)
<1>1. Init => Wired
  <2> SUFFICES ASSUME Init PROVE Wired
    OBVIOUS
  <2>1. DOMAIN units = {} /\ registry = <<>> /\ registry \in Seq(STRING) /\ DOMAIN registry = {}
    BY DEF Init
  <2> QED
    BY <2>1 DEF Wired, Mounted, InRegistry, Stems, Flagged
<1> QED
  BY <1>1, ControlInvariance, WiredStep, PTL DEF Spec

(* An input says that it is connected just when an output leads to it, if  *)
(* the document uses no output and no input twice (linkable.cpp 16-84).    *)
THEOREM FlagsAgree == Spec => []InputFlagsAgree
<1>1. Wired => InputFlagsAgree
  <2> SUFFICES ASSUME Wired, Unshared,
                      NEW v \in DOMAIN units, NEW i \in 1 .. Len(units[v].ins) + 2,
                      i # Len(units[v].ins) + 1
               PROVE  InputConnected(v, i) <=>
                        \E u \in DOMAIN units : \E o \in 1 .. Len(units[u].outs) + 1 :
                          FeedOut(u, o) = <<v, i>>
    BY DEF InputFlagsAgree
  <2>1. Mounted(units) /\ Flagged /\ Stems
    BY DEF Wired
  <2>2. ASSUME NEW w \in DOMAIN units
        PROVE  /\ Len(units[w].ins) \in Nat /\ InsOf(w) = 1 .. Len(units[w].ins)
               /\ Len(units[w].outs) \in Nat /\ OutsOf(w) = 1 .. Len(units[w].outs)
               /\ \A n \in InsOf(w) : units[w].ins[n].connected \in BOOLEAN
    <3>1. /\ units[w].ins \in [InsOf(w) -> LinkIn]
          /\ units[w].outs \in [OutsOf(w) -> [label : STRING, to : {Null} \cup (STRING \X Nat)]]
      BY <2>1, <2>2 DEF Mounted, IsUnit
    <3>2. /\ Len(ModelOf(w).ins) \in Nat /\ InsOf(w) = 1 .. Len(ModelOf(w).ins)
          /\ Len(ModelOf(w).outs) \in Nat /\ OutsOf(w) = 1 .. Len(ModelOf(w).outs)
      BY <2>1, <2>2, MountableModel DEF Mounted, InsOf, OutsOf
    <3>3. Len(units[w].ins) = Len(ModelOf(w).ins) /\ Len(units[w].outs) = Len(ModelOf(w).outs)
      BY <3>1, <3>2
    <3>4. \A n \in InsOf(w) : units[w].ins[n].connected \in BOOLEAN
      BY <3>1 DEF LinkIn
    <3> QED
      BY <3>2, <3>3, <3>4
  <2>3. <<v, i>> # Null
    BY <2>1, <2>2, NotAValueAssumption DEF Mounted
  <2>4. (\E u \in DOMAIN units : \E o \in 1 .. Len(units[u].outs) + 1 : FeedOut(u, o) = <<v, i>>)
          <=> \E u \in DOMAIN units : \E o \in OutsOf(u) : units[u].outs[o].to = <<v, i>>
    <3>1. ASSUME NEW u \in DOMAIN units, NEW o \in 1 .. Len(units[u].outs) + 1,
                 FeedOut(u, o) = <<v, i>>
          PROVE  o \in OutsOf(u) /\ units[u].outs[o].to = <<v, i>>
      <4>1. Len(units[u].outs) \in Nat /\ OutsOf(u) = 1 .. Len(units[u].outs)
        BY <2>2
      <4>2. ~(o > Len(units[u].outs))
        BY <2>3, <3>1 DEF FeedOut
      <4> QED
        BY <3>1, <4>1, <4>2 DEF FeedOut
    <3>2. ASSUME NEW u \in DOMAIN units, NEW o \in OutsOf(u), units[u].outs[o].to = <<v, i>>
          PROVE  o \in 1 .. Len(units[u].outs) + 1 /\ FeedOut(u, o) = <<v, i>>
      <4>1. Len(units[u].outs) \in Nat /\ OutsOf(u) = 1 .. Len(units[u].outs)
        BY <2>2
      <4> QED
        BY <3>2, <4>1 DEF FeedOut
    <3> QED
      BY <3>1, <3>2
  <2>5. CASE i <= Len(units[v].ins)
    <3>1. i \in InsOf(v)
      BY <2>2, <2>5
    <3>2. InputConnected(v, i) = units[v].ins[i].connected
      BY <2>5 DEF InputConnected
    <3>3. units[v].ins[i].connected <=>
            \E u \in DOMAIN units : \E o \in OutsOf(u) : units[u].outs[o].to = <<v, i>>
      BY <2>1, <3>1 DEF Flagged
    <3> QED
      BY <2>4, <3>2, <3>3
  <2>6. CASE ~(i <= Len(units[v].ins))
    <3>1. i \notin InsOf(v) /\ ~InputConnected(v, i)
      <4>1. Len(units[v].ins) \in Nat /\ InsOf(v) = 1 .. Len(units[v].ins)
        BY <2>2
      <4>2. InputConnected(v, i) = FALSE
        BY <2>6, <4>1 DEF InputConnected
      <4> QED
        BY <2>6, <4>1, <4>2
    <3>2. ASSUME NEW u \in DOMAIN units, NEW o \in OutsOf(u), units[u].outs[o].to = <<v, i>>
          PROVE  FALSE
      <4>1. units[u].outs[o].to # Null
        BY <2>3, <3>2
      <4>2. PICK k \in 1 .. link - 1 :
              /\ Links(units, doc.chains[k])
              /\ units[u].outs[o].to =
                   <<doc.chains[k].to, InFound(doc.chains[k].to, doc.chains[k].jack)>>
        BY <2>1, <4>1 DEF Stems
      <4>3. InFound(doc.chains[k].to, doc.chains[k].jack) \in InsOf(doc.chains[k].to)
        BY <2>1, <4>2, FoundInModel DEF Links, Mounted
      <4>4. v = doc.chains[k].to /\ i = InFound(doc.chains[k].to, doc.chains[k].jack)
        BY <3>2, <4>2
      <4> QED
        BY <3>1, <4>3, <4>4
    <3> QED
      BY <2>4, <3>1, <3>2
  <2> QED
    BY <2>5, <2>6
<1> QED
  BY <1>1, WiredInvariance, PTL

-----------------------------------------------------------------------------
(* A code of a controller belongs to the first registered unit that asks   *)
(* for it.                                                                 *)
FirstAsks ==
  \A d \in DOMAIN devices : \A c \in Codes :
    /\ c \in DOMAIN devices[d].bindings <=>
         \E n \in DOMAIN registry : Asks(registry[n], devices[d].alias, c)
    /\ c \in DOMAIN devices[d].bindings =>
         \E n \in DOMAIN registry :
           /\ Asks(registry[n], devices[d].alias, c) /\ devices[d].bindings[c] = registry[n]
           /\ \A m \in DOMAIN registry : m < n => ~Asks(registry[m], devices[d].alias, c)

LEMMA WantedIsAsked ==
  ASSUME Control, MountAndChain, NEW d \in DOMAIN devices, IsDevice(devices[d]), NEW c \in Codes
  PROVE  c \in Wanted(d) <=> Asks(ThisChain.to, devices[d].alias, c)
<1> DEFINE u == ThisChain.to
<1>1. /\ u \in DOMAIN doc.units /\ ThisUnit = ParsedUnit(doc.units[u])
      /\ ThisUnit.model = doc.units[u].model /\ IsDocument(doc)
  BY ThisChainFacts, LoadedDocument DEF MountAndChain, ChainsLeft, Early
<1>2. ThisUnit.bindings = {b \in doc.units[u].bindings : Null \notin {b.module, b.code}}
  BY <1>1, ParsedUnitFacts DEF ParsedBindings
<1>3. devices[d].alias # Null /\ c # Null
  BY NotAValueAssumption DEF IsDevice
<1> QED
  BY <1>1, <1>2, <1>3 DEF Wanted, Asks

LEMMA RegistryGrows ==
  ASSUME InRegistry, MountAndChain
  PROVE  /\ Len(registry) \in Nat /\ DOMAIN registry = 1 .. Len(registry)
         /\ DOMAIN registry' = 1 .. Len(registry) + 1
         /\ registry'[Len(registry) + 1] = ThisChain.to
         /\ \A n \in 1 .. Len(registry) : registry'[n] = registry[n]
<1>1. registry \in Seq(STRING) /\ registry' = Append(registry, ThisChain.to)
  BY DEF InRegistry, MountAndChain, RegisterComponent
<1> QED
  BY <1>1

LEMMA FirstAsksGrows ==
  ASSUME Control, InRegistry, FirstAsks, \A d \in DOMAIN devices : IsDevice(devices[d]),
         MountAndChain
  PROVE  FirstAsks'
<1> DEFINE v == ThisChain.to
           n == Len(registry)
<1>1. /\ n \in Nat /\ DOMAIN registry = 1 .. n /\ DOMAIN registry' = 1 .. n + 1
      /\ registry'[n + 1] = v /\ \A m \in 1 .. n : registry'[m] = registry[m]
  BY RegistryGrows
<1>2. DOMAIN devices' = DOMAIN devices
      /\ \A d \in DOMAIN devices : devices'[d] = Bound(devices[d], Wanted(d), v)
  BY DevicesBound
<1>3. doc' = doc /\ \A u, module, c : Asks(u, module, c)' <=> Asks(u, module, c)
  BY DEF MountAndChain, Asks
<1> HIDE DEF v, n
<1>4. ASSUME NEW d \in DOMAIN devices, NEW c \in Codes
      PROVE  LET dev == devices'[d] IN
             /\ c \in DOMAIN dev.bindings <=>
                  \E m \in 1 .. n + 1 : Asks(registry'[m], dev.alias, c)
             /\ c \in DOMAIN dev.bindings =>
                  \E m \in 1 .. n + 1 :
                    /\ Asks(registry'[m], dev.alias, c) /\ dev.bindings[c] = registry'[m]
                    /\ \A k \in 1 .. n + 1 : k < m => ~Asks(registry'[k], dev.alias, c)
  <2> DEFINE a == devices[d].alias
             asks(m) == Asks(registry[m], a, c)
             held == DOMAIN devices[d].bindings
  <2>1. /\ devices'[d].alias = a
        /\ DOMAIN devices'[d].bindings = held \cup Wanted(d)
        /\ \A e \in held : devices'[d].bindings[e] = devices[d].bindings[e]
        /\ \A e \in Wanted(d) \ held : devices'[d].bindings[e] = v
    <3>1. IsDevice(devices[d]) /\ Wanted(d) \in SUBSET Codes
      BY DEF Wanted
    <3>2. devices'[d] = Bound(devices[d], Wanted(d), v)
      BY <1>2
    <3> DEFINE dev == devices[d]
               codes == Wanted(d)
    <3>3. IsDevice(dev) /\ codes \in SUBSET Codes /\ devices'[d] = Bound(dev, codes, v)
      BY <3>1, <3>2
    <3> HIDE DEF dev, codes
    <3>4. /\ devices'[d].alias = dev.alias
          /\ devices'[d].bindings = Inserted(dev.bindings, [code \in codes |-> v])
      BY <3>3 DEF Bound, IsDevice
    <3>5. /\ DOMAIN devices'[d].bindings = DOMAIN dev.bindings \cup codes
          /\ \A e \in DOMAIN dev.bindings : devices'[d].bindings[e] = dev.bindings[e]
          /\ \A e \in codes \ DOMAIN dev.bindings : devices'[d].bindings[e] = v
      BY <3>4 DEF Inserted
    <3> QED
      BY <3>4, <3>5 DEF dev, codes
  <2>2. c \in Wanted(d) <=> Asks(v, a, c)
    BY WantedIsAsked DEF v
  <2>3. /\ c \in held <=> \E m \in 1 .. n : asks(m)
        /\ c \in held => \E m \in 1 .. n : /\ asks(m) /\ devices[d].bindings[c] = registry[m]
                                         /\ \A k \in 1 .. n : k < m => ~asks(k)
    BY <1>1 DEF FirstAsks
  <2>4. \A m \in 1 .. n : Asks(registry'[m], a, c) <=> asks(m)
    BY <1>1
  <2>5. Asks(registry'[n + 1], a, c) <=> c \in Wanted(d)
    BY <1>1, <2>2
  <2> HIDE DEF a, asks
  <2> DEFINE news(m) == Asks(registry'[m], a, c)
  <2>6. CASE c \in held
    <3>1. PICK m \in 1 .. n : /\ asks(m) /\ devices[d].bindings[c] = registry[m]
                              /\ \A k \in 1 .. n : k < m => ~asks(k)
      BY <2>3, <2>6
    <3>2. /\ m \in 1 .. n + 1 /\ news(m) /\ devices'[d].bindings[c] = registry'[m]
          /\ \A k \in 1 .. n + 1 : k < m => ~news(k)
      BY <1>1, <2>1, <2>4, <2>6, <3>1
    <3> HIDE DEF news
    <3>3. c \in DOMAIN devices'[d].bindings
      BY <2>1, <2>6
    <3> QED
      BY <2>1, <3>2, <3>3 DEF news
  <2>7. CASE c \notin held /\ c \in Wanted(d)
    <3>1. /\ n + 1 \in 1 .. n + 1 /\ news(n + 1) /\ devices'[d].bindings[c] = registry'[n + 1]
          /\ \A k \in 1 .. n + 1 : k < n + 1 => ~news(k)
      BY <1>1, <2>1, <2>3, <2>4, <2>5, <2>7
    <3> HIDE DEF news
    <3>2. c \in DOMAIN devices'[d].bindings
      BY <2>1, <2>7
    <3> QED
      BY <2>1, <3>1, <3>2 DEF news
  <2>8. CASE c \notin held /\ c \notin Wanted(d)
    <3>1. \A k \in 1 .. n + 1 : ~news(k)
      BY <1>1, <2>3, <2>4, <2>5, <2>8
    <3> HIDE DEF news
    <3>2. c \notin DOMAIN devices'[d].bindings
      BY <2>1, <2>8
    <3> QED
      BY <2>1, <3>1, <3>2 DEF news
  <2> QED
    BY <2>6, <2>7, <2>8
<1> QED
  BY <1>1, <1>2, <1>3, <1>4 DEF FirstAsks

LEMMA FirstAsksStays ==
  ASSUME FirstAsks, doc' = doc, registry' = registry, DOMAIN devices' = DOMAIN devices,
         \A d \in DOMAIN devices : /\ devices'[d].alias = devices[d].alias
                                   /\ devices'[d].bindings = devices[d].bindings
  PROVE  FirstAsks'
<1>1. \A u, module, c : Asks(u, module, c)' <=> Asks(u, module, c)
  BY DEF Asks
<1> QED
  BY <1>1 DEF FirstAsks

(* A state of a registered unit lights up what the first entry about it    *)
(* says.                                                                   *)
LedKept(u, state) ==
  LET led == doc.units[u].leds[Min(Entries(u, state))] IN
  /\ <<u, state>> \in DOMAIN ledMap <=> Entries(u, state) # {}
  /\ Entries(u, state) # {} => /\ ledMap[<<u, state>>].device = led.device
                              /\ ledMap[<<u, state>>].code = led.code

LedsOfRegistry ==
  /\ \A key \in DOMAIN ledMap : \E n \in DOMAIN registry : key[1] = registry[n]
  /\ \A n \in DOMAIN registry : \A state \in MidiLeds(doc.units[registry[n]].model) :
       LedKept(registry[n], state)

LEMMA LedsMapped ==
  ASSUME Control, MountAndChain
  PROVE  LET u == ThisChain.to IN
         /\ \A key \in DOMAIN ledMap : key \in DOMAIN ledMap' /\ ledMap'[key] = ledMap[key]
         /\ \A key \in DOMAIN ledMap' : key \in DOMAIN ledMap \/ key[1] = u
         /\ \A state \in MidiLeds(doc.units[u].model) :
              LET led == doc.units[u].leds[Min(Entries(u, state))] IN
              <<u, state>> \notin DOMAIN ledMap =>
                /\ <<u, state>> \in DOMAIN ledMap' <=> Entries(u, state) # {}
                /\ Entries(u, state) # {} => /\ ledMap'[<<u, state>>].device = led.device
                                            /\ ledMap'[<<u, state>>].code = led.code
<1> DEFINE u == ThisChain.to
           leds == doc.units[u].leds
           full == {n \in DOMAIN leds : Null \notin {leds[n].device, leds[n].code, leds[n].mode}}
           K == {n \in full : leds[n].state \in MidiLeds(doc.units[u].model)}
           part(n) == [state |-> leds[n].state, device |-> leds[n].device,
                       code |-> leds[n].code, mode |-> leds[n].mode]
           kept == [n \in K |-> part(n)]
           keys == {<<u, leds[n].state>> : n \in K}
           lit == [key \in keys |-> LET led == kept[FirstAbout(kept, key[2])] IN
                                     [device |-> led.device, code |-> led.code]]
<1>1. /\ u \in DOMAIN doc.units /\ ThisUnit = ParsedUnit(doc.units[u])
      /\ ThisUnit.model = doc.units[u].model /\ IsDocument(doc)
  BY ThisChainFacts, LoadedDocument DEF MountAndChain, ChainsLeft, Early
<1>2. DOMAIN leds \subseteq Nat
  <2>1. doc.units[u].leds \in Seq([state : STRING, device : STRING \cup {Null},
                                  code : Codes \cup {Null}, mode : STRING \cup {Null},
                                  valued : BOOLEAN])
    BY <1>1 DEF IsDocument, DocumentUnit
  <2> QED
    BY <2>1, SeqDomain
<1>3. ThisUnit.leds = [n \in full |-> part(n)]
  <2>1. ThisUnit.leds = ParsedLeds(leds)
    BY <1>1 DEF ParsedUnit
  <2> QED
    BY <2>1 DEF ParsedLeds
<1>4. ledMap' = Inserted(ledMap, lit)
  <2>1. ledMap' = Lights(ledMap, u, ThisUnit)
    BY DEF MountAndChain
  <2>2. {n \in DOMAIN ThisUnit.leds : ThisUnit.leds[n].state \in MidiLeds(ThisUnit.model)} = K
    <3>1. DOMAIN ThisUnit.leds = full /\ \A n \in full : ThisUnit.leds[n].state = leds[n].state
      <4>1. \A n \in full : part(n).state = leds[n].state
        OBVIOUS
      <4> HIDE DEF leds, full, u, part
      <4> QED
        BY <1>3, <4>1
    <3> HIDE DEF leds, full, u, part
    <3>2. {n \in DOMAIN ThisUnit.leds : ThisUnit.leds[n].state \in MidiLeds(ThisUnit.model)}
          = {n \in full : leds[n].state \in MidiLeds(doc.units[u].model)}
      BY <1>1, <3>1 DEF u
    <3> QED
      BY <3>2
  <2>3. Restrict(ThisUnit.leds, K) = kept
    BY <1>3 DEF Restrict
  <2>4. ledMap' = LedsAdded(ledMap, u, kept)
    BY <2>1, <2>2, <2>3 DEF Lights
  <2>5. {<<u, kept[n].state>> : n \in DOMAIN kept} = keys
    OBVIOUS
  <2> HIDE DEF kept, keys, u
  <2> QED
    BY <2>4, <2>5 DEF LedsAdded
<1>5. /\ \A key \in DOMAIN ledMap : key \in DOMAIN ledMap' /\ ledMap'[key] = ledMap[key]
      /\ DOMAIN ledMap' = DOMAIN ledMap \cup keys
      /\ \A key \in keys \ DOMAIN ledMap : ledMap'[key] = lit[key]
  <2> HIDE DEF keys, kept
  <2> QED
    BY <1>4 DEF Inserted
<1>6. ASSUME NEW state \in MidiLeds(doc.units[u].model)
      PROVE  {n \in DOMAIN kept : kept[n].state = state} = Entries(u, state)
  BY <1>6 DEF Entries
<1>7. ASSUME NEW state \in MidiLeds(doc.units[u].model), <<u, state>> \notin DOMAIN ledMap
      PROVE  LET led == doc.units[u].leds[Min(Entries(u, state))] IN
             /\ <<u, state>> \in DOMAIN ledMap' <=> Entries(u, state) # {}
             /\ Entries(u, state) # {} => /\ ledMap'[<<u, state>>].device = led.device
                                         /\ ledMap'[<<u, state>>].code = led.code
  <2>1. <<u, state>> \in keys <=> Entries(u, state) # {}
    <3>1. <<u, state>> \in keys <=> \E n \in K : leds[n].state = state
      OBVIOUS
    <3>2. (\E n \in K : leds[n].state = state) <=> {n \in DOMAIN kept : kept[n].state = state} # {}
      OBVIOUS
    <3> QED
      BY <1>6, <1>7, <3>1, <3>2
  <2>2. ASSUME Entries(u, state) # {}
        PROVE  /\ Min(Entries(u, state)) \in K
               /\ FirstAbout(kept, state) = Min(Entries(u, state))
    <3>1. Entries(u, state) \subseteq K
      BY <1>6, <1>7
    <3>2. Min(Entries(u, state)) \in Entries(u, state)
      BY <1>2, <2>2, <3>1, LeastNumber
    <3> QED
      BY <1>6, <1>7, <3>1, <3>2 DEF FirstAbout
  <2>3. ASSUME Entries(u, state) # {}
        PROVE  LET led == leds[Min(Entries(u, state))] IN
               lit[<<u, state>>] = [device |-> led.device, code |-> led.code]
    <3>1. <<u, state>> \in keys /\ <<u, state>>[2] = state
      BY <2>1, <2>3
    <3> HIDE DEF keys, kept
    <3>2. LET led == kept[FirstAbout(kept, state)] IN
          lit[<<u, state>>] = [device |-> led.device, code |-> led.code]
      BY <3>1
    <3> QED
      BY <2>2, <2>3, <3>2 DEF kept
  <2> HIDE DEF keys, lit, K, kept, full, u, leds
  <2>4. CASE Entries(u, state) # {}
    BY <1>5, <1>7, <2>1, <2>3, <2>4 DEF leds
  <2>5. CASE Entries(u, state) = {}
    BY <1>5, <1>7, <2>1, <2>5
  <2> QED
    BY <2>4, <2>5
<1>8. \A key \in keys : key[1] = u
  OBVIOUS
<1> HIDE DEF keys, lit, K, kept, full, leds
<1> QED
  BY <1>5, <1>7, <1>8

LEMMA LedsOfRegistryGrow ==
  ASSUME Control, InRegistry, pc \notin Destroyed, LedsOfRegistry, MountAndChain
  PROVE  LedsOfRegistry'
<1> DEFINE v == ThisChain.to
           n == Len(registry)
<1>1. /\ n \in Nat /\ DOMAIN registry = 1 .. n /\ DOMAIN registry' = 1 .. n + 1
      /\ registry'[n + 1] = v /\ \A m \in 1 .. n : registry'[m] = registry[m]
  BY RegistryGrows
<1>2. doc' = doc /\ \A u, state : Entries(u, state)' = Entries(u, state)
  BY DEF MountAndChain, Entries
<1>3. /\ \A key \in DOMAIN ledMap : key \in DOMAIN ledMap' /\ ledMap'[key] = ledMap[key]
      /\ \A key \in DOMAIN ledMap' : key \in DOMAIN ledMap \/ key[1] = v
      /\ \A state \in MidiLeds(doc.units[v].model) :
           LET led == doc.units[v].leds[Min(Entries(v, state))] IN
           <<v, state>> \notin DOMAIN ledMap =>
             /\ <<v, state>> \in DOMAIN ledMap' <=> Entries(v, state) # {}
             /\ Entries(v, state) # {} => /\ ledMap'[<<v, state>>].device = led.device
                                         /\ ledMap'[<<v, state>>].code = led.code
  BY LedsMapped
<1>4. \A m \in 1 .. n : registry[m] # v
  BY <1>1 DEF MountAndChain, InRegistry
<1> HIDE DEF v, n
<1>5. \A key \in DOMAIN ledMap' : \E m \in 1 .. n + 1 : key[1] = registry'[m]
  <2>1. \A key \in DOMAIN ledMap : \E m \in 1 .. n : key[1] = registry[m]
    BY <1>1 DEF LedsOfRegistry
  <2> QED
    BY <1>1, <1>3, <2>1
<1>6. \A m \in 1 .. n : \A state : <<registry[m], state>> \in DOMAIN ledMap' =>
        <<registry[m], state>> \in DOMAIN ledMap
  BY <1>3, <1>4
<1>7. \A state : <<v, state>> \notin DOMAIN ledMap
  BY <1>1, <1>4 DEF LedsOfRegistry
<1>8. ASSUME NEW m \in 1 .. n + 1, NEW state \in MidiLeds(doc.units[registry'[m]].model)
      PROVE  LET u == registry'[m]  led == doc.units[u].leds[Min(Entries(u, state))] IN
             /\ <<u, state>> \in DOMAIN ledMap' <=> Entries(u, state) # {}
             /\ Entries(u, state) # {} => /\ ledMap'[<<u, state>>].device = led.device
                                         /\ ledMap'[<<u, state>>].code = led.code
  <2>1. CASE m \in 1 .. n
    <3> DEFINE w == registry[m]
    <3>1. registry'[m] = w /\ LedKept(w, state)
      BY <1>1, <1>8, <2>1 DEF LedsOfRegistry
    <3>2. /\ <<w, state>> \in DOMAIN ledMap' <=> <<w, state>> \in DOMAIN ledMap
          /\ <<w, state>> \in DOMAIN ledMap => ledMap'[<<w, state>>] = ledMap[<<w, state>>]
      BY <1>3, <1>6, <2>1
    <3> HIDE DEF w
    <3> QED
      BY <3>1, <3>2 DEF LedKept
  <2>2. CASE m = n + 1
    <3>1. registry'[m] = v
      BY <1>1, <2>2
    <3> QED
      BY <1>3, <1>7, <1>8, <3>1
  <2> QED
    BY <1>1, <2>1, <2>2
<1>9. \A m \in DOMAIN registry' : \A state \in MidiLeds(doc.units[registry'[m]].model) :
        LET u == registry'[m]  led == doc.units[u].leds[Min(Entries(u, state))] IN
        /\ <<u, state>> \in DOMAIN ledMap' <=> Entries(u, state) # {}
        /\ Entries(u, state) # {} => /\ ledMap'[<<u, state>>].device = led.device
                                    /\ ledMap'[<<u, state>>].code = led.code
  BY <1>1, <1>8
<1>10. \A key \in DOMAIN ledMap' : \E m \in DOMAIN registry' : key[1] = registry'[m]
  BY <1>1, <1>5
<1>11. ASSUME NEW m \in DOMAIN registry',
              NEW state \in MidiLeds(doc.units[registry[m]].model)'
       PROVE  LedKept(registry[m], state)'
  <2>1. Entries(registry[m], state)' =
          {k \in DOMAIN doc.units[registry'[m]].leds :
             LET l == doc.units[registry'[m]].leds[k] IN
             l.state = state /\ Null \notin {l.device, l.code, l.mode}}
    BY <1>2 DEF Entries
  <2>2. state \in MidiLeds(doc.units[registry'[m]].model)
    BY <1>2, <1>11 DEF MidiLeds
  <2>3. LET u == registry'[m]  led == doc.units[u].leds[Min(Entries(u, state))] IN
        /\ <<u, state>> \in DOMAIN ledMap' <=> Entries(u, state) # {}
        /\ Entries(u, state) # {} => /\ ledMap'[<<u, state>>].device = led.device
                                    /\ ledMap'[<<u, state>>].code = led.code
    BY <1>9, <1>11, <2>2
  <2>4. Entries(registry[m], state)' = Entries(registry'[m], state)
    BY <2>1 DEF Entries
  <2> QED
    BY <1>2, <2>3, <2>4 DEF LedKept
<1>12. \A m \in DOMAIN registry' : \A state \in MidiLeds(doc.units[registry[m]].model)' :
         LedKept(registry[m], state)'
  BY <1>11
<1> QED
  BY <1>10, <1>12 DEF LedsOfRegistry

Requested == FirstAsks /\ LedsOfRegistry

LEMMA LedsOfRegistryStay ==
  ASSUME LedsOfRegistry, doc' = doc, registry' = registry, ledMap' = ledMap
  PROVE  LedsOfRegistry'
<1>1. \A u, state : Entries(u, state)' = Entries(u, state)
  BY DEF Entries
<1>2. \A u, state : LedKept(u, state)' <=> LedKept(u, state)
  BY <1>1 DEF LedKept
<1>3. \A model : MidiLeds(model)' = MidiLeds(model)
  BY DEF MidiLeds
<1> QED
  BY <1>2, <1>3 DEF LedsOfRegistry

LEMMA RequestedStep == Control /\ Threads /\ Wired /\ Requested /\ [Next]_vars => Requested'
<1> SUFFICES ASSUME Control, Threads, Wired, Requested, [Next]_vars PROVE Requested'
  OBVIOUS
<1>1. InRegistry /\ FirstAsks /\ LedsOfRegistry /\ \A d \in DOMAIN devices : IsDevice(devices[d])
  BY DEF Threads, Wired, Requested
<1>2. CASE MountAndChain
  <2>1. pc \notin Destroyed
    BY <1>2 DEF MountAndChain, ChainsLeft, Destroyed
  <2> QED
    BY <1>1, <1>2, <2>1, FirstAsksGrows, LedsOfRegistryGrow DEF Requested
<1>3. ASSUME doc' = doc, registry' = registry, ledMap' = ledMap,
             DOMAIN devices' = DOMAIN devices,
             \A d \in DOMAIN devices : /\ devices'[d].alias = devices[d].alias
                                       /\ devices'[d].bindings = devices[d].bindings
      PROVE  Requested'
  BY <1>1, <1>3, FirstAsksStays, LedsOfRegistryStay DEF Requested
<1>4. CASE AssembleParts
  <2>1. /\ pc = "assemble" /\ doc' = doc /\ registry' = registry /\ ledMap' = ledMap
    BY <1>4 DEF AssembleParts
  <2>2. registry = <<>>
    BY <2>1 DEF Control, Unbuilt
  <2>3. FirstAsks'
    BY <1>4, <2>1, <2>2, DeviceAdded DEF FirstAsks
  <2> QED
    BY <1>1, <2>1, <2>3, LedsOfRegistryStay DEF Requested
<1>5. CASE StartParts
  <2>1. doc' = doc /\ registry' = registry /\ ledMap' = ledMap /\ InitAndStart
    BY <1>5 DEF StartParts, InitAndStart
  <2> QED
    BY <1>1, <1>3, <2>1, DeviceStarted
<1>6. CASE Stop
  <2>1. /\ UNCHANGED <<doc, registry, ledMap>>
        /\ devices' = [devices EXCEPT ![Stopping].running = FALSE,
                                      ![Stopping].missed = devices[Stopping].pc = "begin"]
    BY <1>6 DEF Stop, StopDevice, rackVars
  <2> HIDE DEF Stopping
  <2>2. /\ DOMAIN devices' = DOMAIN devices
        /\ \A d \in DOMAIN devices : /\ devices'[d].alias = devices[d].alias
                                      /\ devices'[d].bindings = devices[d].bindings
    BY <1>1, <2>1 DEF IsDevice
  <2> QED
    BY <1>3, <2>1, <2>2
<1>7. CASE Load \/ Terminates \/ Join \/ DestroyRack
  BY <1>3, <1>7 DEF Load, Terminates, Join, DestroyRack, midiVars, rackVars
<1>8. CASE ChainOnly
  BY <1>3, <1>8 DEF ChainOnly, midiVars
<1>9. CASE \E u \in DOMAIN units : \E o \in 1 .. Len(units[u].ins) : Disconnect(u, o)
  BY <1>3, <1>9 DEF Disconnect, midiVars
<1>10. CASE \E d \in DOMAIN devices : Calls(d) \/ Reads(d)
  <2>1. PICK d \in DOMAIN devices : Calls(d) \/ Reads(d)
    BY <1>10
  <2>2. /\ UNCHANGED <<ledMap, rackVars, doc>> /\ DOMAIN devices' = DOMAIN devices
        /\ \A e \in DOMAIN devices : e # d => devices'[e] = devices[e]
        /\ devices'[d].alias = devices[d].alias /\ devices'[d].bindings = devices[d].bindings
    BY <1>1, <2>1, DeviceSteps
  <2> QED
    BY <1>3, <2>2 DEF rackVars
<1>11. CASE UNCHANGED vars
  BY <1>3, <1>11 DEF vars, midiVars, rackVars
<1> QED
  BY <1>2, <1>4, <1>5, <1>6, <1>7, <1>8, <1>9, <1>10, <1>11 DEF Next

(* The first unit in the registry that asks for a code has it, and the     *)
(* first entry of a unit about a state is in the map (device.cpp line 77,  *)
(* midi_handler.cpp lines 82-101).                                         *)
THEOREM RequestedInvariance == Spec => [](Control /\ Threads /\ Wired /\ Requested)
<1>1. Init => Requested
  <2> SUFFICES ASSUME Init PROVE Requested
    OBVIOUS
  <2>1. DOMAIN devices = {} /\ DOMAIN registry = {} /\ DOMAIN ledMap = {}
    BY DEF Init, MidiInit
  <2> QED
    BY <2>1 DEF Requested, FirstAsks, LedsOfRegistry
<1> QED
  BY <1>1, ThreadsInvariance, WiredInvariance, RequestedStep, PTL DEF Spec

(* Of the units that bind a code of a controller the first that was mounted *)
(* keeps it, and a state of a unit lights up what its first entry asks for, *)
(* on the controllers that have an output (device.cpp line 77,              *)
(* midi_handler.cpp lines 86-124).                                          *)
THEOREM FirstKeeps == Spec => []FirstRequestWins
<1>1. Control /\ Threads /\ Wired /\ Requested => FirstRequestWins
  <2> SUFFICES ASSUME Control, Threads, Wired, Requested PROVE FirstRequestWins
    OBVIOUS
  <2>1. /\ \A d \in DOMAIN devices : IsDevice(devices[d]) /\ devices[d].on = doc.midi[d].on
        /\ active \subseteq DOMAIN devices /\ FirstAsks /\ LedsOfRegistry
        /\ DOMAIN registry \subseteq Nat
    <3>1. registry \in Seq(STRING)
      BY DEF Wired, InRegistry
    <3>2. DOMAIN registry = 1 .. Len(registry)
      BY <3>1, SeqFacts
    <3> QED
      BY <3>2 DEF Threads, StoppedInTurn, Requested
  <2>2. BindingsAsRequested
    <3> SUFFICES ASSUME NEW d \in DOMAIN devices, NEW code \in Codes
                 PROVE  LET asking == {n \in DOMAIN registry :
                                         Asks(registry[n], devices[d].alias, code)} IN
                        /\ code \in DOMAIN devices[d].bindings <=> asking # {}
                        /\ asking # {} => devices[d].bindings[code] = registry[Min(asking)]
      <4>1. \A d \in DOMAIN devices : DOMAIN devices[d].bindings \subseteq Codes
        BY <2>1 DEF IsDevice
      <4> QED
        BY <4>1 DEF BindingsAsRequested
    <3> DEFINE asking == {n \in DOMAIN registry : Asks(registry[n], devices[d].alias, code)}
    <3>1. code \in DOMAIN devices[d].bindings <=> asking # {}
      BY <2>1 DEF FirstAsks
    <3>2. ASSUME asking # {}
          PROVE  devices[d].bindings[code] = registry[Min(asking)]
      <4>1. PICK n \in DOMAIN registry :
              /\ Asks(registry[n], devices[d].alias, code)
              /\ devices[d].bindings[code] = registry[n]
              /\ \A m \in DOMAIN registry : m < n => ~Asks(registry[m], devices[d].alias, code)
        BY <2>1, <3>1, <3>2 DEF FirstAsks
      <4>2. n \in asking /\ \A m \in asking : ~(m < n)
        BY <4>1
      <4>3. asking \subseteq Nat
        BY <2>1
      <4> HIDE DEF asking
      <4>4. Min(asking) \in asking /\ Min(asking) <= n
        BY <4>2, <4>3, LeastNumber
      <4>5. Min(asking) = n
        BY <4>2, <4>3, <4>4
      <4> QED
        BY <4>1, <4>5
    <3> QED
      BY <3>1, <3>2
  <2>3. LedsAsRequested
    <3> SUFFICES ASSUME NEW u \in ToSet(registry), NEW state \in MidiLeds(doc.units[u].model)
                 PROVE  LET entries == Entries(u, state)
                            led == doc.units[u].leds[Min(entries)]
                            lit == {d \in active : devices[d].alias = led.device
                                                   /\ devices[d].output}
                        IN LedMessages(u, state) =
                             IF entries = {} THEN {}
                             ELSE {<<d, doc.midi[d].on, led.code>> : d \in lit}
      BY DEF LedsAsRequested
    <3>1. LedKept(u, state)
      BY <2>1 DEF LedsOfRegistry, ToSet
    <3>2. \A d \in active : devices[d].on = doc.midi[d].on
      BY <2>1
    <3>3. CASE Entries(u, state) = {}
      BY <3>1, <3>3 DEF LedKept, LedMessages
    <3>4. CASE Entries(u, state) # {}
      <4> DEFINE led == doc.units[u].leds[Min(Entries(u, state))]
                 lit == {d \in active : devices[d].alias = led.device /\ devices[d].output}
                 of == ledMap[<<u, state>>]
      <4>1. <<u, state>> \in DOMAIN ledMap /\ of.device = led.device /\ of.code = led.code
        BY <3>1, <3>4 DEF LedKept
      <4>2. LedMessages(u, state) =
              {<<d, devices[d].on, of.code>> :
                 d \in {e \in active : devices[e].alias = of.device /\ WritesMsg(e)}}
        BY <4>1 DEF LedMessages
      <4>3. {e \in active : devices[e].alias = of.device /\ WritesMsg(e)} = lit
        BY <4>1 DEF WritesMsg
      <4> HIDE DEF led, of
      <4>4. {<<d, devices[d].on, of.code>> : d \in lit} =
              {<<d, doc.midi[d].on, led.code>> : d \in lit}
        BY <3>2, <4>1
      <4> QED
        BY <3>4, <4>2, <4>3, <4>4 DEF led
    <3> QED
      BY <3>3, <3>4
  <2> QED
    BY <2>2, <2>3 DEF FirstRequestWins
<1> QED
  BY <1>1, RequestedInvariance, PTL

-----------------------------------------------------------------------------
(* While the daisychains are worked through the rack is what those so far  *)
(* make of it.                                                             *)
LEMMA GreatestNumber ==
  ASSUME NEW S \in SUBSET Nat, NEW k \in S, \A j \in S : j <= k
  PROVE  Max(S) = k
<1>1. \A j \in S : k >= j
  OBVIOUS
<1>2. Max(S) \in S /\ \A j \in S : Max(S) >= j
  BY <1>1 DEF Max
<1> DEFINE max == Max(S)
<1>3. max \in Nat /\ k \in Nat /\ max <= k /\ max >= k
  BY <1>2
<1> HIDE DEF max
<1>4. max = k
  BY <1>3
<1> QED
  BY <1>4 DEF max

(* The daisychain k plugs its unit into the rack, and output o of u feeds  *)
(* what it leads to.                                                       *)
Plugs(k) ==
  /\ doc.chains[k].from = "rack" /\ doc.chains[k].plug \in ToSet(doc.mainlines)
  /\ doc.chains[k].to \in MountedBy(k)

Fed(k, u, o) ==
  LET c == doc.chains[k] IN
  /\ c.from = u /\ u # "rack" /\ {u, c.to} \subseteq MountedBy(k)
  /\ OutFound(u, c.plug) = o /\ InFound(c.to, c.jack) > 0

PlugsLead ==
  \A plug \in DOMAIN mainlines :
    \/ /\ \A k \in 1 .. link - 1 : Plugs(k) => doc.chains[k].plug # plug
       /\ mainlines[plug] = Null
    \/ \E k \in 1 .. link - 1 :
         /\ Plugs(k) /\ doc.chains[k].plug = plug /\ mainlines[plug] = doc.chains[k].to
         /\ \A j \in 1 .. link - 1 : Plugs(j) /\ doc.chains[j].plug = plug => j <= k

RawLeads ==
  /\ raw \in Seq(STRING)
  /\ \E ks \in [DOMAIN raw -> {k \in 1 .. link - 1 : Plugs(k)}] :
       /\ \A m, n \in DOMAIN raw : m < n => ks[m] < ks[n]
       /\ \A k \in 1 .. link - 1 : Plugs(k) => \E n \in DOMAIN raw : ks[n] = k
       /\ \A n \in DOMAIN raw : raw[n] = doc.chains[ks[n]].to

OutputsLead ==
  \A u \in DOMAIN units : \A o \in OutsOf(u) :
    \/ (\A k \in 1 .. link - 1 : ~Fed(k, u, o)) /\ units[u].outs[o].to = Null
    \/ \E k \in 1 .. link - 1 :
         /\ Fed(k, u, o) /\ \A j \in 1 .. link - 1 : Fed(j, u, o) => j <= k
         /\ units[u].outs[o].to =
              <<doc.chains[k].to, InFound(doc.chains[k].to, doc.chains[k].jack)>>

SoFar ==
  /\ DOMAIN units = MountedBy(link - 1) /\ DOMAIN mainlines = ToSet(doc.mainlines)
  /\ PlugsLead /\ RawLeads /\ OutputsLead

Documented ==
  /\ pc = "chains" => IF Whole THEN SoFar ELSE units = <<>> /\ raw = <<>>
  /\ \A plug \in DOMAIN mainlines : mainlines[plug] \in DOMAIN units \cup {Null}
  /\ stray \in BOOLEAN

LEMMA PlansStay ==
  ASSUME doc' = doc
  PROVE  /\ \A k : MountedBy(k)' = MountedBy(k) /\ (Plugs(k)' <=> Plugs(k))
         /\ \A k, u, o : Fed(k, u, o)' <=> Fed(k, u, o)
<1>1. \A k : MountedBy(k)' = MountedBy(k)
  BY DocumentStays DEF MountedBy
<1> QED
  BY <1>1, DocumentStays DEF Plugs, Fed

(* The daisychain that is worked through now. *)
LEMMA NowMounted ==
  ASSUME Control, ChainOnly \/ MountAndChain, DOMAIN units = MountedBy(link - 1)
  PROVE  DOMAIN units' = MountedBy(link)
<1> DEFINE v == ThisChain.to
<1>1. ChainsLeft
  BY DEF ChainOnly, MountAndChain
<1>2. link \in Nat \ {0} /\ v = doc.chains[link].to
  BY <1>1, ThisChainFacts DEF Control
<1>3. MountedBy(link) = MountedBy(link - 1) \cup {u \in DOMAIN doc.units : Mountable(u) /\ u = v}
  BY <1>2 DEF MountedBy
<1>4. v \in DOMAIN desc.units => /\ v \in DOMAIN doc.units
                                 /\ ThisUnit.model = doc.units[v].model
                                 /\ ThisUnit.library = doc.units[v].library
  BY <1>1, ThisChainFacts
<1>5. CASE ChainOnly
  <2>1. DOMAIN units' = DOMAIN units
    BY <1>5, ConnectKeepsUnits DEF ChainOnly
  <2>2. v \in DOMAIN units \/ ~Mountable(v)
    BY <1>4, <1>5 DEF ChainOnly, HasUnit, HasSymbol, Opened, Mountable
  <2> HIDE DEF v
  <2> QED
    BY <1>3, <2>1, <2>2
<1>6. CASE MountAndChain
  <2>1. DOMAIN units' = DOMAIN units \cup {v}
    <3>1. Connect(AddUnit(units, ThisChain.to, LoadedUnit), ThisChain)
      BY <1>6 DEF MountAndChain
    <3>2. DOMAIN units' = DOMAIN AddUnit(units, ThisChain.to, LoadedUnit)
      BY <3>1, ConnectKeepsUnits
    <3> QED
      BY <3>2, UnitAdded
  <2>2. v \in DOMAIN doc.units /\ Mountable(v)
    BY <1>4, <1>6 DEF MountAndChain, HasSymbol, Opened, Mountable
  <2> HIDE DEF v
  <2> QED
    BY <1>3, <2>1, <2>2
<1> QED
  BY <1>5, <1>6

LEMMA SoFarGrows ==
  ASSUME Control, Wired, pc = "chains", SoFar, ChainOnly \/ MountAndChain
  PROVE  SoFar' /\ \A plug \in DOMAIN mainlines' : mainlines'[plug] \in DOMAIN units' \cup {Null}
<1> DEFINE c == ThisChain
<1>1. /\ ChainsLeft /\ doc' = doc /\ link' = link + 1
  BY DEF ChainOnly, MountAndChain
<1>2. /\ link \in Nat \ {0} /\ c = doc.chains[link] /\ link' - 1 = link
      /\ c \in [from : STRING, plug : STRING, to : STRING, jack : STRING]
  BY <1>1, ThisChainFacts DEF Control
<1>3. PICK us : Extended(us) /\ Connect(us, c)
  BY ChainExtends DEF Wired
<1>4. DOMAIN units' = MountedBy(link) /\ DOMAIN us = MountedBy(link)
  <2>1. DOMAIN units' = MountedBy(link)
    BY NowMounted DEF SoFar
  <2> QED
    BY <1>3, <2>1, ConnectKeepsUnits
<1>5. /\ DOMAIN units = MountedBy(link - 1) /\ DOMAIN mainlines = ToSet(doc.mainlines)
      /\ PlugsLead /\ RawLeads /\ OutputsLead
  BY DEF SoFar
<1> HIDE DEF c
<1>6. /\ mainlines' = IF Plugs(link) THEN [mainlines EXCEPT ![c.plug] = c.to] ELSE mainlines
      /\ raw' = IF Plugs(link) THEN Append(raw, c.to) ELSE raw
  <2>1. Plugs(link) <=> c.from = "rack" /\ c.plug \in DOMAIN mainlines /\ HasUnit(us, c.to)
    BY <1>2, <1>4, <1>5 DEF Plugs, HasUnit
  <2> QED
    BY <1>3, <2>1 DEF Connect
<1>7. DOMAIN mainlines' = DOMAIN mainlines
  BY <1>6
<1>8. PlugsLead'
  <2> SUFFICES ASSUME NEW plug \in DOMAIN mainlines
               PROVE  \/ /\ \A k \in 1 .. link : Plugs(k) => doc.chains[k].plug # plug
                         /\ mainlines'[plug] = Null
                      \/ \E k \in 1 .. link :
                           /\ Plugs(k) /\ doc.chains[k].plug = plug
                           /\ mainlines'[plug] = doc.chains[k].to
                           /\ \A j \in 1 .. link :
                                Plugs(j) /\ doc.chains[j].plug = plug => j <= k
    BY <1>1, <1>2, <1>7, PlansStay DEF PlugsLead
  <2>1. CASE Plugs(link) /\ c.plug = plug
    <3>1. mainlines'[plug] = c.to
      BY <1>6, <2>1
    <3>2. link \in 1 .. link /\ \A j \in 1 .. link : j <= link
      BY <1>2
    <3> QED
      BY <1>2, <2>1, <3>1, <3>2
  <2>2. CASE ~(Plugs(link) /\ c.plug = plug)
    <3>1. mainlines'[plug] = mainlines[plug]
      BY <1>6, <2>2
    <3>2. CASE /\ \A k \in 1 .. link - 1 : Plugs(k) => doc.chains[k].plug # plug
               /\ mainlines[plug] = Null
      <4>1. \A k \in 1 .. link : Plugs(k) => doc.chains[k].plug # plug
        BY <1>2, <2>2, <3>2
      <4> QED
        BY <3>1, <3>2, <4>1
    <3>3. ASSUME NEW k \in 1 .. link - 1, Plugs(k), doc.chains[k].plug = plug,
                 mainlines[plug] = doc.chains[k].to,
                 \A j \in 1 .. link - 1 : Plugs(j) /\ doc.chains[j].plug = plug => j <= k
          PROVE  /\ k \in 1 .. link /\ mainlines'[plug] = doc.chains[k].to
                 /\ \A j \in 1 .. link : Plugs(j) /\ doc.chains[j].plug = plug => j <= k
      BY <1>2, <2>2, <3>1, <3>3
    <3> QED
      BY <1>5, <3>2, <3>3 DEF PlugsLead
  <2> QED
    BY <2>1, <2>2
<1>9. RawLeads'
  <2>1. PICK ks \in [DOMAIN raw -> {k \in 1 .. link - 1 : Plugs(k)}] :
          /\ \A m, n \in DOMAIN raw : m < n => ks[m] < ks[n]
          /\ \A k \in 1 .. link - 1 : Plugs(k) => \E n \in DOMAIN raw : ks[n] = k
          /\ \A n \in DOMAIN raw : raw[n] = doc.chains[ks[n]].to
    BY <1>5 DEF RawLeads
  <2>2. raw \in Seq(STRING)
    BY <1>5 DEF RawLeads
  <2> SUFFICES /\ raw' \in Seq(STRING)
               /\ \E ls \in [DOMAIN raw' -> {k \in 1 .. link : Plugs(k)}] :
                    /\ \A m, n \in DOMAIN raw' : m < n => ls[m] < ls[n]
                    /\ \A k \in 1 .. link : Plugs(k) => \E n \in DOMAIN raw' : ls[n] = k
                    /\ \A n \in DOMAIN raw' : raw'[n] = doc.chains[ls[n]].to
    BY <1>1, <1>2, PlansStay DEF RawLeads
  <2>3. CASE ~Plugs(link)
    <3>1. raw' = raw /\ ks \in [DOMAIN raw -> {k \in 1 .. link : Plugs(k)}]
      BY <1>2, <1>6, <2>3
    <3>2. \A k \in 1 .. link : Plugs(k) => \E n \in DOMAIN raw : ks[n] = k
      BY <1>2, <2>1, <2>3
    <3> QED
      BY <2>1, <2>2, <3>1, <3>2
  <2>4. CASE Plugs(link)
    <3> DEFINE len == Len(raw)
               ls == [n \in 1 .. len + 1 |-> IF n = len + 1 THEN link ELSE ks[n]]
    <3>1. /\ len \in Nat /\ DOMAIN raw = 1 .. len /\ raw' \in Seq(STRING)
          /\ DOMAIN raw' = 1 .. len + 1 /\ raw'[len + 1] = c.to
          /\ \A n \in 1 .. len : raw'[n] = raw[n]
      BY <1>2, <1>6, <2>2, <2>4
    <3> HIDE DEF len
    <3>2. \A n \in 1 .. len : ks[n] \in 1 .. link - 1 /\ Plugs(ks[n])
      BY <3>1
    <3>3. ls \in [1 .. len + 1 -> {k \in 1 .. link : Plugs(k)}]
      BY <1>2, <2>4, <3>1, <3>2
    <3>4. ASSUME NEW m \in 1 .. len + 1, NEW n \in 1 .. len + 1, m < n PROVE ls[m] < ls[n]
      <4>1. m \in 1 .. len /\ ls[m] = ks[m]
        BY <3>1, <3>4
      <4>2. CASE n = len + 1
        BY <1>2, <3>2, <4>1, <4>2
      <4>3. CASE n # len + 1
        <5>1. n \in 1 .. len /\ ls[n] = ks[n]
          BY <3>1, <4>3
        <5> QED
          BY <2>1, <3>1, <3>4, <4>1, <5>1
      <4> QED
        BY <4>2, <4>3
    <3>5. ASSUME NEW k \in 1 .. link, Plugs(k) PROVE \E n \in 1 .. len + 1 : ls[n] = k
      <4>1. CASE k = link
        BY <3>1, <4>1
      <4>2. CASE k # link
        <5>1. PICK n \in 1 .. len : ks[n] = k
          BY <1>2, <2>1, <3>1, <3>5, <4>2
        <5> QED
          BY <3>1, <5>1
      <4> QED
        BY <4>1, <4>2
    <3>6. ASSUME NEW n \in 1 .. len + 1 PROVE raw'[n] = doc.chains[ls[n]].to
      <4>1. CASE n = len + 1
        BY <1>2, <3>1, <4>1
      <4>2. CASE n # len + 1
        <5>1. n \in 1 .. len /\ n \in DOMAIN raw /\ ls[n] = ks[n]
          BY <3>1, <4>2
        <5>2. raw'[n] = raw[n] /\ raw[n] = doc.chains[ks[n]].to
          BY <2>1, <3>1, <5>1
        <5> QED
          BY <5>1, <5>2
      <4> QED
        BY <4>1, <4>2
    <3> HIDE DEF ls
    <3>7. ls \in [DOMAIN raw' -> {k \in 1 .. link : Plugs(k)}]
      BY <3>1, <3>3
    <3>8. \A m, n \in DOMAIN raw' : m < n => ls[m] < ls[n]
      BY <3>1, <3>4
    <3>9. \A k \in 1 .. link : Plugs(k) => \E n \in DOMAIN raw' : ls[n] = k
      BY <3>1, <3>5
    <3>10. \A n \in DOMAIN raw' : raw'[n] = doc.chains[ls[n]].to
      BY <3>1, <3>6
    <3>11. raw' \in Seq(STRING)
      BY <3>1
    <3> QED
      BY <3>7, <3>8, <3>9, <3>10, <3>11
  <2> QED
    BY <2>3, <2>4
<1>10. OutputsLead'
  <2> SUFFICES ASSUME NEW u \in DOMAIN us, NEW o \in OutsOf(u)
               PROVE  \/ (\A k \in 1 .. link : ~Fed(k, u, o)) /\ units'[u].outs[o].to = Null
                      \/ \E k \in 1 .. link :
                           /\ Fed(k, u, o) /\ \A j \in 1 .. link : Fed(j, u, o) => j <= k
                           /\ units'[u].outs[o].to =
                                <<doc.chains[k].to, InFound(doc.chains[k].to, doc.chains[k].jack)>>
    BY <1>1, <1>2, <1>4, PlansStay, DocumentStays DEF OutputsLead
  <2>1. units'[u].outs[o].to = IF Fed(link, u, o) THEN <<c.to, InFound(c.to, c.jack)>>
                               ELSE us[u].outs[o].to
    <3>1. Fed(link, u, o) <=> Links(us, c) /\ u = c.from /\ o = OutFound(c.from, c.plug)
      <4>1. o > 0
        BY <1>3, MountableModel DEF OutsOf, Extended, Mounted
      <4> QED
        BY <1>2, <1>4, <4>1 DEF Fed, Links
    <3> QED
      BY <1>3, <3>1, ConnectFacts DEF Extended
  <2>2. CASE Fed(link, u, o)
    <3>1. link \in 1 .. link /\ \A j \in 1 .. link : j <= link
      BY <1>2
    <3> QED
      BY <1>2, <2>1, <2>2, <3>1
  <2>3. CASE ~Fed(link, u, o) /\ u \in DOMAIN units
    <3>1. units'[u].outs[o].to = units[u].outs[o].to
      BY <1>3, <2>1, <2>3 DEF Extended
    <3>2. CASE (\A k \in 1 .. link - 1 : ~Fed(k, u, o)) /\ units[u].outs[o].to = Null
      <4>1. \A k \in 1 .. link : ~Fed(k, u, o)
        BY <1>2, <2>3, <3>2
      <4> QED
        BY <3>1, <3>2, <4>1
    <3>3. ASSUME NEW k \in 1 .. link - 1, Fed(k, u, o),
                 \A j \in 1 .. link - 1 : Fed(j, u, o) => j <= k
          PROVE  k \in 1 .. link /\ \A j \in 1 .. link : Fed(j, u, o) => j <= k
      BY <1>2, <2>3, <3>3
    <3>4. CASE \E k \in 1 .. link - 1 :
                 /\ Fed(k, u, o) /\ \A j \in 1 .. link - 1 : Fed(j, u, o) => j <= k
                 /\ units[u].outs[o].to =
                      <<doc.chains[k].to, InFound(doc.chains[k].to, doc.chains[k].jack)>>
      BY <3>1, <3>3, <3>4
    <3> QED
      BY <1>5, <2>3, <3>2, <3>4 DEF OutputsLead
  <2>4. CASE u \notin DOMAIN units /\ ~Fed(link, u, o)
    <3>1. units'[u].outs[o].to = Null
      BY <1>3, <2>1, <2>4 DEF Extended
    <3>2. \A k \in 1 .. link - 1 : MountedBy(k) \subseteq MountedBy(link - 1)
      BY <1>2 DEF MountedBy
    <3>3. \A k \in 1 .. link - 1 : ~Fed(k, u, o)
      BY <1>5, <2>4, <3>2 DEF Fed
    <3>4. \A k \in 1 .. link : ~Fed(k, u, o)
      BY <1>2, <2>4, <3>3
    <3> QED
      BY <3>1, <3>4
  <2> QED
    BY <2>2, <2>3, <2>4
<1>11. \A plug \in DOMAIN mainlines' : mainlines'[plug] \in DOMAIN units' \cup {Null}
  <2>1. \A k \in 1 .. link : Plugs(k) => doc.chains[k].to \in MountedBy(link)
    BY <1>2 DEF Plugs, MountedBy
  <2>2. \A plug \in DOMAIN mainlines' :
          \/ mainlines'[plug] = Null
          \/ \E k \in 1 .. link : Plugs(k) /\ mainlines'[plug] = doc.chains[k].to
    BY <1>1, <1>2, <1>8, PlansStay DEF PlugsLead
  <2> QED
    BY <1>4, <2>1, <2>2
<1>12. DOMAIN units' = MountedBy(link - 1)' /\ DOMAIN mainlines' = ToSet(doc.mainlines)'
  <2>1. MountedBy(link - 1)' = MountedBy(link)
    BY <1>1, <1>2, DocumentStays DEF MountedBy
  <2> QED
    BY <1>1, <1>4, <1>5, <1>7, <2>1
<1> QED
  BY <1>8, <1>9, <1>10, <1>11, <1>12 DEF SoFar

LEMMA DocumentedStep == Control /\ Wired /\ Documented /\ [Next]_vars => Documented'
<1> SUFFICES ASSUME Control, Wired, Documented, [Next]_vars PROVE Documented'
  OBVIOUS
<1>1. CASE AssembleParts
  <2>1. /\ pc = "assemble" /\ UNCHANGED <<doc, link, raw, units, stray>>
        /\ mainlines' = AddMainlines(ToSet(desc.mainlines))
    BY <1>1 DEF AssembleParts, AssembleMainlines
  <2>2. link = 1 /\ raw = <<>> /\ units = <<>>
    BY <2>1 DEF Control, Unbuilt
  <2>3. \A plug \in DOMAIN mainlines' : mainlines'[plug] = Null
    BY <2>1 DEF AddMainlines
  <2>4. ASSUME Whole PROVE SoFar'
    <3>1. DOMAIN mainlines' = ToSet(doc.mainlines)
      BY <2>1, <2>4, WholeDocument DEF AddMainlines, Early
    <3>2. DOMAIN units' = MountedBy(link - 1)'
      BY <2>1, <2>2 DEF MountedBy
    <3>3. 1 .. link' - 1 = {} /\ DOMAIN raw' = {} /\ raw' \in Seq(STRING) /\ DOMAIN units' = {}
      BY <2>1, <2>2
    <3>4. PlugsLead' /\ OutputsLead'
      BY <2>3, <3>3 DEF PlugsLead, OutputsLead
    <3>5. RawLeads'
      <4>1. raw' \in [DOMAIN raw' -> {k \in 1 .. link' - 1 : Plugs(k)'}]
        BY <2>1, <2>2, <3>3
      <4> QED
        BY <3>3, <4>1 DEF RawLeads
    <3> QED
      BY <2>1, <3>1, <3>2, <3>4, <3>5 DEF SoFar
  <2> QED
    BY <2>1, <2>2, <2>3, <2>4, DocumentStays DEF Documented
<1>2. CASE ChainOnly \/ MountAndChain
  <2>1. /\ ChainsLeft /\ pc = "chains" /\ UNCHANGED <<pc, doc, stray>>
    BY <1>2 DEF ChainOnly, MountAndChain, ChainsLeft
  <2>2. Whole
    BY <2>1, ThisChainFacts
  <2> QED
    BY <1>2, <2>1, <2>2, SoFarGrows, DocumentStays DEF Documented
<1>3. ASSUME pc' # "chains", mainlines' = mainlines, DOMAIN units' = DOMAIN units, stray' = stray
      PROVE  Documented'
  BY <1>3 DEF Documented
<1>4. CASE Load \/ Terminates \/ StartParts \/ Stop \/ Join
  <2>1. /\ pc' # "chains"
        /\ UNCHANGED <<mainlines, units, stray>>
    BY <1>4 DEF Load, Terminates, StartParts, Stop, Join, rackVars
  <2> QED
    BY <1>3, <2>1
<1>5. CASE \E u \in DOMAIN units : \E o \in 1 .. Len(units[u].ins) : Disconnect(u, o)
  <2>1. pc' # "chains" /\ UNCHANGED <<mainlines, stray>> /\ DOMAIN units' = DOMAIN units
    BY <1>5 DEF Disconnect
  <2> QED
    BY <1>3, <2>1
<1>6. CASE DestroyRack
  <2>1. pc' # "chains" /\ DOMAIN mainlines' = {} /\ stray' = stray
    BY <1>6 DEF DestroyRack
  <2> QED
    BY <2>1 DEF Documented
<1>7. ASSUME UNCHANGED <<pc, doc, link, units, mainlines, raw>>, stray' \in BOOLEAN
      PROVE  Documented'
  <2>1. SoFar => SoFar'
    <3>1. PlugsLead => PlugsLead'
      BY <1>7, PlansStay DEF PlugsLead
    <3>2. RawLeads => RawLeads'
      BY <1>7, PlansStay DEF RawLeads
    <3>3. OutputsLead => OutputsLead'
      BY <1>7, PlansStay, DocumentStays DEF OutputsLead
    <3> QED
      BY <1>7, <3>1, <3>2, <3>3, PlansStay DEF SoFar
  <2> QED
    BY <1>7, <2>1, DocumentStays DEF Documented
<1>8. CASE \E d \in DOMAIN devices : Calls(d) \/ Reads(d)
  <2>1. UNCHANGED <<pc, doc, link, units, mainlines, raw>> /\ stray' \in BOOLEAN
    BY <1>8 DEF Calls, Reads, rackVars, Documented
  <2> QED
    BY <1>7, <2>1
<1>9. CASE UNCHANGED vars
  BY <1>7, <1>9 DEF vars, rackVars, Documented
<1> QED
  BY <1>1, <1>2, <1>4, <1>5, <1>6, <1>8, <1>9 DEF Next

(* After each daisychain the units, plugs and outputs are what the         *)
(* daisychains so far say (assembler.cpp lines 50-59 and 75-100).          *)
THEOREM DocumentedInvariance == Spec => [](Control /\ Threads /\ Wired /\ Documented)
<1>1. Init => Documented
  <2> SUFFICES ASSUME Init PROVE Documented
    OBVIOUS
  <2>1. pc # "chains" /\ DOMAIN mainlines = {} /\ stray = FALSE
    BY DEF Init
  <2> QED
    BY <2>1 DEF Documented
<1> QED
  BY <1>1, ThreadsInvariance, WiredInvariance, DocumentedStep, PTL DEF Spec

LEMMA TypesFollow ==
  ASSUME Control, Threads, Wired, Documented
  PROVE  TypeOK
<1>1. desc = Null \/ IsDescription(desc)
  BY LoadedDocument DEF Control
<1>2. workers \in Nat \cup {Garbage}
  <2>1. CASE pc \in Unbuilt
    BY <2>1 DEF Control
  <2>2. CASE pc \notin Unbuilt
    <3>1. workers = desc.workers /\ IsDescription(desc)
      BY <2>2, LoadedDocument DEF Control, Unbuilt
    <3> QED
      BY <3>1 DEF IsDescription
  <2> QED
    BY <2>1, <2>2
<1>3. /\ \A d \in DOMAIN devices :
           /\ devices[d].pc \in {"none", "begin", "read", "read it", "call", "done"}
           /\ devices[d].running \in BOOLEAN
      /\ toStop \subseteq active /\ active \subseteq DOMAIN devices
  BY DEF Threads, StoppedInTurn, IsDevice
<1>4. ASSUME NEW u \in DOMAIN units
      PROVE  units[u] \in [id : Nat, utilities : {{"led", "rack", "queue", "loop", "cache"}},
                           ins : Seq(LinkIn), outs : Seq(LinkOut)]
  <2>1. IsUnit(u, units[u]) /\ u \in DOMAIN doc.units /\ Mountable(u)
    BY DEF Wired, Mounted
  <2>2. Len(ModelOf(u).ins) \in Nat /\ Len(ModelOf(u).outs) \in Nat
    BY <2>1, MountableModel
  <2>3. units[u].ins \in Seq(LinkIn)
    <3>1. units[u].ins \in [1 .. Len(ModelOf(u).ins) -> LinkIn]
      BY <2>1 DEF IsUnit, InsOf
    <3> QED
      BY <2>2, <3>1
  <2>4. ASSUME NEW o \in OutsOf(u) PROVE units[u].outs[o] \in LinkOut
    <3>1. units[u].outs[o] \in [label : STRING, to : {Null} \cup (STRING \X Nat)]
      BY <2>1 DEF IsUnit
    <3>2. CASE units[u].outs[o].to = Null
      BY <3>1, <3>2 DEF LinkOut
    <3>3. CASE units[u].outs[o].to # Null
      <4>1. PICK k \in 1 .. link - 1 :
              /\ Links(units, doc.chains[k])
              /\ units[u].outs[o].to =
                   <<doc.chains[k].to, InFound(doc.chains[k].to, doc.chains[k].jack)>>
        BY <3>3 DEF Wired, Stems
      <4>2. /\ doc.chains[k].to \in DOMAIN units
            /\ InFound(doc.chains[k].to, doc.chains[k].jack) \in Nat
        BY <4>1, FoundInModel DEF Links, Wired, Mounted
      <4>3. units[u].outs[o].to \in (DOMAIN units) \X Nat
        BY <4>1, <4>2
      <4> QED
        BY <3>1, <4>3 DEF LinkOut
    <3> QED
      BY <3>2, <3>3
  <2>5. units[u].outs \in Seq(LinkOut)
    <3>1. units[u].outs \in [1 .. Len(ModelOf(u).outs) -> LinkOut]
      BY <2>1, <2>4 DEF IsUnit, OutsOf
    <3> QED
      BY <2>2, <3>1
  <2> QED
    BY <2>1, <2>3, <2>5 DEF IsUnit
<1>5. /\ \A plug \in DOMAIN mainlines : mainlines[plug] \in DOMAIN units \cup {Null}
      /\ stray \in BOOLEAN
  BY DEF Documented
<1> QED
  BY <1>1, <1>2, <1>3, <1>4, <1>5 DEF TypeOK, Control

LEMMA RackFollows ==
  ASSUME Control, Wired, Documented
  PROVE  RackAsDocumented
<1>1. ASSUME pc = "up"
      PROVE  schedule.affinity = Garbage <=> ~Whole \/ doc.linux = Null
  <2>1. schedule.affinity = desc.linux.affinity /\ IsDocument(doc)
    BY <1>1, LoadedDocument DEF Control, Unbuilt, Early
  <2>2. desc.linux = ParsedLinux(IF Whole THEN doc.linux ELSE Null)
    BY <1>1, WholeDocument DEF Early
  <2>3. ParsedLinux(Null).affinity = Garbage
    BY DEF ParsedLinux
  <2>4. ASSUME doc.linux # Null PROVE ParsedLinux(doc.linux).affinity # Garbage
    <3>1. doc.linux.affinity \in Int \cup {Null}
      BY <2>1, <2>4 DEF IsDocument
    <3> QED
      BY <2>4, <3>1, NotAValueAssumption DEF ParsedLinux
  <2>5. CASE Whole
    BY <2>1, <2>2, <2>3, <2>4, <2>5
  <2>6. CASE ~Whole
    BY <2>1, <2>2, <2>3, <2>6
  <2> QED
    BY <2>5, <2>6
<1>2. ASSUME pc = "chains", ~Whole
      PROVE  units = <<>> /\ raw = <<>> /\ workers = Garbage
  BY <1>2, WholeDocument DEF Documented, Control, Unbuilt, Early
<1>3. ASSUME pc = "chains", Whole
      PROVE  LET To(k) == doc.chains[k].to
                 ToPort(k) == <<To(k), Found(units[To(k)].ins, doc.chains[k].jack)>>
             IN /\ DOMAIN units = MountedBy(link - 1)
                /\ DOMAIN mainlines = ToSet(doc.mainlines)
                /\ \A plug \in DOMAIN mainlines :
                     LET ks == {k \in OnRack : doc.chains[k].plug = plug} IN
                     mainlines[plug] = IF ks = {} THEN Null ELSE To(Max(ks))
                /\ \E ks \in [DOMAIN raw -> OnRack] :
                     /\ \A m, n \in DOMAIN raw : m < n => ks[m] < ks[n]
                     /\ OnRack = {ks[n] : n \in DOMAIN raw}
                     /\ \A n \in DOMAIN raw : raw[n] = To(ks[n])
                /\ \A u \in DOMAIN units : \A o \in DOMAIN units[u].outs :
                     LET ks == OnOutput(u, o) IN
                     units[u].outs[o].to = IF ks = {} THEN Null ELSE ToPort(Max(ks))
                /\ workers = IF doc.workers = Null THEN Garbage ELSE doc.workers
  <2>1. SoFar /\ Mounted(units) /\ link \in Nat \ {0}
    BY <1>3 DEF Documented, Wired, Control
  <2>2. OnRack = {k \in 1 .. link - 1 : Plugs(k)}
    BY DEF OnRack, Plugs
  <2>3. workers = IF doc.workers = Null THEN Garbage ELSE doc.workers
    BY <1>3, WholeDocument DEF Control, Unbuilt, Early
  <2>4. ASSUME NEW plug \in DOMAIN mainlines
        PROVE  LET ks == {k \in OnRack : doc.chains[k].plug = plug} IN
               mainlines[plug] = IF ks = {} THEN Null ELSE doc.chains[Max(ks)].to
    <3> DEFINE ks == {k \in OnRack : doc.chains[k].plug = plug}
    <3>1. ks \in SUBSET Nat
      BY <2>1, <2>2
    <3>2. CASE /\ \A k \in 1 .. link - 1 : Plugs(k) => doc.chains[k].plug # plug
               /\ mainlines[plug] = Null
      BY <2>2, <3>2
    <3>3. ASSUME NEW k \in 1 .. link - 1, Plugs(k), doc.chains[k].plug = plug,
                 mainlines[plug] = doc.chains[k].to,
                 \A j \in 1 .. link - 1 : Plugs(j) /\ doc.chains[j].plug = plug => j <= k
          PROVE  ks # {} /\ mainlines[plug] = doc.chains[Max(ks)].to
      <4>1. k \in ks /\ \A j \in ks : j <= k
        BY <2>2, <3>3
      <4> HIDE DEF ks
      <4>2. Max(ks) = k
        BY <3>1, <4>1, GreatestNumber
      <4> QED
        BY <3>3, <4>1, <4>2
    <3> QED
      BY <2>1, <3>2, <3>3 DEF SoFar, PlugsLead
  <2>5. \E ks \in [DOMAIN raw -> OnRack] :
          /\ \A m, n \in DOMAIN raw : m < n => ks[m] < ks[n]
          /\ OnRack = {ks[n] : n \in DOMAIN raw}
          /\ \A n \in DOMAIN raw : raw[n] = doc.chains[ks[n]].to
    <3>1. PICK ks \in [DOMAIN raw -> OnRack] :
            /\ \A m, n \in DOMAIN raw : m < n => ks[m] < ks[n]
            /\ \A k \in 1 .. link - 1 : Plugs(k) => \E n \in DOMAIN raw : ks[n] = k
            /\ \A n \in DOMAIN raw : raw[n] = doc.chains[ks[n]].to
      BY <2>1, <2>2 DEF SoFar, RawLeads
    <3>2. OnRack = {ks[n] : n \in DOMAIN raw}
      BY <2>2, <3>1
    <3> QED
      BY <3>1, <3>2
  <2>6. ASSUME NEW u \in DOMAIN units, NEW o \in DOMAIN units[u].outs
        PROVE  LET ks == OnOutput(u, o)
                   to == doc.chains[Max(ks)].to
               IN units[u].outs[o].to =
                    IF ks = {} THEN Null
                    ELSE <<to, Found(units[to].ins, doc.chains[Max(ks)].jack)>>
    <3>1. o \in OutsOf(u) /\ IsUnit(u, units[u]) /\ u \in DOMAIN doc.units /\ Mountable(u)
      BY <2>1, <2>6 DEF Mounted, IsUnit
    <3>2. ASSUME NEW k \in 1 .. link - 1
          PROVE  /\ k \in OnOutput(u, o) <=> Fed(k, u, o)
                 /\ Fed(k, u, o) => Found(units[doc.chains[k].to].ins, doc.chains[k].jack)
                                      = InFound(doc.chains[k].to, doc.chains[k].jack)
      <4> DEFINE c == doc.chains[k]
      <4>1. MountedBy(k) \subseteq DOMAIN units
        BY <2>1, <3>2 DEF SoFar, MountedBy
      <4>2. Found(units[u].outs, c.plug) = OutFound(u, c.plug)
        BY <3>1, FoundInModel
      <4>3. c.to \in MountedBy(k) => Found(units[c.to].ins, c.jack) = InFound(c.to, c.jack)
        BY <2>1, <4>1, FoundInModel DEF Mounted
      <4> QED
        BY <4>2, <4>3 DEF OnOutput, Fed
    <3>3. OnOutput(u, o) \subseteq 1 .. link - 1 /\ OnOutput(u, o) \in SUBSET Nat
      BY <2>1 DEF OnOutput
    <3>4. CASE (\A k \in 1 .. link - 1 : ~Fed(k, u, o)) /\ units[u].outs[o].to = Null
      BY <3>2, <3>3, <3>4
    <3>5. ASSUME NEW k \in 1 .. link - 1, Fed(k, u, o),
                 \A j \in 1 .. link - 1 : Fed(j, u, o) => j <= k
          PROVE  /\ OnOutput(u, o) # {} /\ Max(OnOutput(u, o)) = k
                 /\ Found(units[doc.chains[k].to].ins, doc.chains[k].jack)
                      = InFound(doc.chains[k].to, doc.chains[k].jack)
      <4>1. k \in OnOutput(u, o) /\ \A j \in OnOutput(u, o) : j <= k
        BY <3>2, <3>3, <3>5
      <4> QED
        BY <3>2, <3>3, <3>5, <4>1, GreatestNumber
    <3>6. CASE \E k \in 1 .. link - 1 :
                 /\ Fed(k, u, o) /\ \A j \in 1 .. link - 1 : Fed(j, u, o) => j <= k
                 /\ units[u].outs[o].to =
                      <<doc.chains[k].to, InFound(doc.chains[k].to, doc.chains[k].jack)>>
      BY <3>5, <3>6
    <3> QED
      BY <2>1, <3>1, <3>4, <3>6 DEF SoFar, OutputsLead
  <2> QED
    BY <2>1, <2>3, <2>4, <2>5, <2>6 DEF SoFar
<1> QED
  BY <1>1, <1>2, <1>3 DEF RackAsDocumented

(* What setup assembles is what the document says, and the registry names  *)
(* its units (assembler.cpp, document.cpp, mount.cpp and registry.cpp).    *)
THEOREM SetupAsDocumented == Spec => []AssembledAsDocumented
<1>1. Control /\ Threads /\ Wired /\ Documented => AssembledAsDocumented
  <2> SUFFICES ASSUME Control, Threads, Wired, Documented PROVE AssembledAsDocumented
    OBVIOUS
  <2>1. RegistryNamesTheUnits
    BY DEF Wired, InRegistry, RegistryNamesTheUnits, WithId
  <2> QED
    BY <2>1, TypesFollow, RackFollows DEF AssembledAsDocumented
<1> QED
  BY <1>1, DocumentedInvariance, PTL

=============================================================================
