---------------------------- MODULE MidiHandler ----------------------------
(***************************************************************************)
(* The midi controllers: midi_handler, its devices and their threads       *)
(* (framework/midi).  Setup calls the operations below; this module has no *)
(* specification of its own.                                               *)
(*                                                                         *)
(* Of a message the note code is kept.  A function that is bound to a code *)
(* is named by the unit it belongs to.  m_devices is a vector: pointers    *)
(* into it, which init takes, would not survive a push_back; setup calls   *)
(* add_device before init, so that an index stands for a pointer.          *)
(***************************************************************************)
EXTENDS Integers, SequencesExt

CONSTANTS
  Codes,   \* note codes of the messages
  Null     \* nullptr

VARIABLES
  devices, \* m_devices
  active,  \* m_active_dev: pointers into m_devices, in their order there
  ledMap   \* m_led_map: what to light up for a unit and a state

midiVars == <<devices, active, ledMap>>

MidiInit == devices = <<>> /\ active = {} /\ ledMap = <<>>

-----------------------------------------------------------------------------
(* insert of a std::map: what is there under a key is kept. *)
Inserted(map, new) ==
  [key \in DOMAIN map \cup DOMAIN new |->
     IF key \in DOMAIN map THEN map[key] ELSE new[key]]

(* Called by the assembler. *)

(* add_device, and set_led_on of the device that get() then finds.  Its    *)
(* thread is not there yet, and neither are its ports.                     *)
Device(controller) ==
  [alias |-> controller.label, on |-> controller.on, output |-> FALSE,
   running |-> FALSE, pc |-> "none", msg |-> Null, missed |-> FALSE,
   bindings |-> <<>>]

(* device::add_binding, for each of the codes that a unit asks for. *)
BadBound(dev, codes, unit) ==
  [dev EXCEPT !.bindings = Inserted([code \in codes |-> unit], @)]

Bound(dev, codes, unit) ==
  [dev EXCEPT !.bindings = Inserted(@, [code \in codes |-> unit])]

(* add_binding hands the function to every device with the alias. *)
AddBindings(devs, bindings, unit) ==
  [i \in DOMAIN devs |->
     Bound(devs[i], {b.code : b \in {e \in bindings : e.module = devs[i].alias}}, unit)]

(* add_led, for the entries of a unit in their order: of those about the   *)
(* same state the first stays.                                             *)
FirstAbout(leds, state) == Min({n \in DOMAIN leds : leds[n].state = state})

LedsAdded(map, unit, leds) ==
  Inserted(map, [key \in {<<unit, leds[n].state>> : n \in DOMAIN leds} |->
    LET led == leds[FirstAbout(leds, key[2])] IN [device |-> led.device, code |-> led.code]])

(* write_msg: nothing is written to a device without an output. *)
WritesMsg(d) == devices[d].output

(* trigger_led: the messages that are written, and to which devices.  The  *)
(* mode is not looked at.                                                  *)
LedMessages(unit, state) ==
  IF <<unit, state>> \notin DOMAIN ledMap THEN {}
  ELSE LET led == ledMap[<<unit, state>>] IN
       {<<d, devices[d].on, led.code>> :
          d \in {e \in active : devices[e].alias = led.device /\ WritesMsg(e)}}

(* open_input_port and open_output_port: a port of a controller that is    *)
(* not plugged in, or that another program has, cannot be opened.  The     *)
(* output is only tried when the input was opened.                         *)
OpenPorts(devs) ==
  {ports \in [in : SUBSET devs, out : SUBSET devs] : ports.out \subseteq ports.in}

(* device::init and start, of a device whose input was opened. *)
Started(dev, hasOutput) == [dev EXCEPT !.output = hasOutput, !.pc = "begin"]

(* init and start: a device without its input is not used. *)
InitAndStart ==
  \E ports \in OpenPorts(DOMAIN devices) :
    /\ active' = ports.in
    /\ devices' = [i \in DOMAIN devices |->
         IF i \in ports.in THEN Started(devices[i], i \in ports.out) ELSE devices[i]]
    /\ UNCHANGED ledMap

-----------------------------------------------------------------------------
(* device::cycle, the thread of device d. *)
At(d, pc) == d \in DOMAIN devices /\ devices[d].pc = pc

Goes(d, pc) == devices' = [devices EXCEPT ![d].pc = pc] /\ UNCHANGED <<active, ledMap>>

DeviceBegins(d) ==
  /\ At(d, "begin")
  /\ devices' = [devices EXCEPT ![d].running = TRUE, ![d].pc = "read"]
  /\ UNCHANGED <<active, ledMap>>

(* flush blocks until there is a message. *)
DeviceReads(d) ==
  /\ At(d, "read")
  /\ \E code \in Codes :
       devices' = [devices EXCEPT ![d].pc = "read it", ![d].msg = code]
  /\ UNCHANGED <<active, ledMap>>

(* After an error the message is 0: the thread returns, and m_running      *)
(* stays.                                                                  *)
DeviceFails(d) == At(d, "read") /\ Goes(d, "done")

DeviceChecks(d) ==
  /\ At(d, "read it")
  /\ Goes(d, IF devices[d].running THEN "call" ELSE "done")

(* The unit whose function is called: Null when nothing is bound. *)
Callee(d) ==
  IF devices[d].msg \in DOMAIN devices[d].bindings
  THEN devices[d].bindings[devices[d].msg] ELSE Null

DeviceCalled(d) ==
  /\ At(d, "call")
  /\ devices' = [devices EXCEPT ![d].pc = IF devices[d].running
                                          THEN "read" ELSE "done",
                                ![d].msg = Null]
  /\ UNCHANGED <<active, ledMap>>

-----------------------------------------------------------------------------
(* stop(), device by device: m_running is reset, which a thread that has   *)
(* not begun yet undoes, and the thread joined.                            *)
BadStopDevice(d) ==
  /\ devices' = [devices EXCEPT ![d].missed = devices[d].pc = "begin"]
  /\ UNCHANGED <<active, ledMap>>

StopDevice(d) ==
  /\ devices' = [devices EXCEPT ![d].running = FALSE, ![d].missed = devices[d].pc = "begin"]
  /\ UNCHANGED <<active, ledMap>>

Joined(d) == At(d, "done")

=============================================================================
