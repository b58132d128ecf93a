----------------------------- MODULE Accessory ------------------------------
(***************************************************************************)
(* One channel of a relay device: an input, an output with the switch that *)
(* ties the two together, and the service the input gets when the switch   *)
(* is detached from it (CreateHAPSwitch).  The three meet in the order of  *)
(* their events: edges are handled some time after they happen, timers     *)
(* expire in between, Home and the web interface write, the status timer   *)
(* of the firmware looks at everything, the service is restarted by a      *)
(* change of the configuration, and the power may fail at any time.        *)
(***************************************************************************)
EXTENDS Integers

P == INSTANCE InputPin
S == INSTANCE Switch
D == INSTANCE DetachedInput

CONSTANTS
  Configs,          \* configurations of the switch that users choose
  DetachedConfigs   \* configurations of the detached input that users choose

ASSUME ConfigAssumption == Configs \subseteq S!SwitchConfigs
ASSUME InputConfigAssumption == DetachedConfigs \subseteq D!InputConfigs

VARIABLES
  level,         \* the pin of the input is at its on_value
  edge,          \* an edge of it is waiting for HandleGPIOInt
  pin,           \* InputPin
  sw,            \* ShellySwitch, its output and its configuration
  det,           \* ShellyInput and its configuration
  restart,       \* RestartService has been called
  soft,          \* IsSoftReboot, of the present boot
  calm           \* nobody is going to do anything any more

vars == <<level, edge, pin, sw, det, restart, soft, calm>>

\* What a read of the input returns now.
Input == P!State(pin, level)

Read == P!GetState(pin, level)

\* The events of the input, as the handlers of sw and det take them.
Deliver(events, on) ==
  /\ sw' = S!InputEvents(sw, events, on)
  /\ det' = D!InputEvents(det, events, on)

-----------------------------------------------------------------------------
\* The pin changes; Mongoose OS will call the handler.
PinChange ==
  /\ level' = ~level /\ edge' = TRUE
  /\ UNCHANGED <<pin, sw, det, restart, soft, calm>>

\* HandleGPIOInt.
HandleEdge ==
  /\ edge /\ edge' = FALSE
  /\ IF P!Noise(pin, level) THEN UNCHANGED <<pin, sw, det>>
     ELSE /\ pin' = P!HandleEdge(pin, level)
          /\ Deliver(P!EdgeEvents(Read, Input), Input)
  /\ UNCHANGED <<level, restart, soft, calm>>

\* InputPin::HandleTimer.
PinTimer ==
  /\ pin.armed
  /\ pin' = P!HandleTimer(pin, level)
  /\ Deliver(P!TimerEvents(pin), Input)
  /\ UNCHANGED <<level, edge, restart, soft, calm>>

\* ShellySwitch::AutoOffTimerCB; only an activation input is asked.
AutoOffTimer ==
  /\ sw.armed
  /\ sw' = S!AutoOff(sw, Input)
  /\ pin' = IF sw.cfg.autoOff /\ sw.cfg.inMode = "Activation"
            THEN Read ELSE pin
  /\ UNCHANGED <<level, edge, det, restart, soft, calm>>

\* SensorBase::AutoOffTimerCB.
SensorTimer ==
  /\ det.armed
  /\ det' = D!SensorTimer(det)
  /\ UNCHANGED <<level, edge, pin, sw, restart, soft, calm>>

\* Mutant: to look at the components changes nothing.
MutStatus ==
  /\ sw.live
  /\ pin' = Read
  /\ UNCHANGED <<level, edge, sw, det, restart, soft, calm>>

\* Every 8 seconds, and for the debugging page: GetInfo of the components.
\* The switch reads its input and saves its state.
Status ==
  /\ sw.live
  /\ pin' = Read
  /\ sw' = S!SaveState(sw)
  /\ UNCHANGED <<level, edge, det, restart, soft, calm>>

-----------------------------------------------------------------------------
\* Home writes the value of the service; a hidden switch has none.
HAPWrite(value) ==
  /\ sw.live /\ sw.svc # "Hidden"
  /\ sw' = S!HAPWrite(sw, value)
  /\ UNCHANGED <<level, edge, pin, det, restart, soft, calm>>

\* Shelly.SetState, with a state or with toggle.
RPCSetState ==
  /\ sw.live
  /\ \/ \E on \in BOOLEAN : sw' = S!SetOutputState(sw, on)
     \/ sw' = S!Toggle(sw)
  /\ UNCHANGED <<level, edge, pin, det, restart, soft, calm>>

\* Shelly.InjectInputEvent: the handlers hear of a click that no press made.
\* The input does not notice.
InjectInputEvent(click) ==
  /\ Deliver({click}, FALSE)
  /\ UNCHANGED <<level, edge, pin, restart, soft, calm>>

\* A short press of the system button, which counts through the states of
\* all switches: there is one here.
ButtonSingle ==
  /\ sw.live
  /\ sw' = S!SetOutputState(sw, ~S!Out(sw))
  /\ UNCHANGED <<level, edge, pin, det, restart, soft, calm>>

\* Shelly.SetConfig of the switch.
SetSwitchConfig(new) ==
  /\ sw.live /\ new # sw.cfg /\ S!ValidConfig(sw.cfg, new)
  /\ sw' = S!SetConfig(sw, new)
  /\ restart' = (restart \/ S!RestartRequired(sw.cfg, new))
  /\ UNCHANGED <<level, edge, pin, det, soft, calm>>

\* Shelly.SetConfig of the detached input; a sensor that goes to level mode
\* reads the input.
SetInputConfig(new) ==
  /\ det.live
  /\ det' = D!SetConfig(det, new, Input)
  /\ pin' = IF D!IsSensor(det) /\ new.sensorMode = "Level"
            THEN P!Noted(Read) ELSE pin
  /\ sw' = [sw EXCEPT !.saved = sw.state]
  /\ restart' = (restart \/ D!RestartRequired(det, new))
  /\ UNCHANGED <<level, edge, soft, calm>>

-----------------------------------------------------------------------------
\* The server has stopped for a restart: DestroyComponents.
Stop ==
  /\ restart /\ sw.live
  /\ sw' = S!Destroy(sw) /\ det' = D!Destroy(det)
  /\ restart' = FALSE
  /\ UNCHANGED <<level, edge, pin, soft, calm>>

Inversion == IF sw.cfg.inMode = "Detached" THEN det.cfg.inv ELSE sw.cfg.inInv

\* CreateHAPInput, which is only called for a detached input.
CreateHAPInput ==
  IF sw.cfg.inMode = "Detached" THEN D!Create(det, level # Inversion) ELSE det

\* StartService: CreateHAPSwitch, and CreateHAPInput for a detached input.
\* Both set the inversion of the input; the one of the switch comes first.
Start ==
  /\ ~sw.live
  /\ sw' = S!Create(sw, soft, level # sw.cfg.inInv)
  /\ pin' = P!Noted(P!SetInvert(pin, Inversion, level))
  /\ det' = CreateHAPInput
  /\ UNCHANGED <<level, edge, restart, soft, calm>>

\* The device boots, after a power failure or, if s, by a restart of the
\* system: memory is lost, the outputs are low, peripherals are created.
Boot(s) ==
  /\ sw' = S!Reset(sw)
  /\ det' = D!Destroy(det)
  /\ pin' = P!NewPin(level)
  /\ edge' = FALSE /\ restart' = FALSE /\ soft' = s
  /\ UNCHANGED <<level, calm>>

-----------------------------------------------------------------------------
Init ==
  /\ level \in BOOLEAN /\ edge = FALSE
  /\ pin = P!NewPin(level)
  /\ \E c \in Configs, state \in BOOLEAN :
       sw = [cfg |-> c, svc |-> c.svc, live |-> FALSE, gpio |-> FALSE,
             inv |-> FALSE, led |-> FALSE, state |-> state, saved |-> state,
             dirty |-> FALSE, armed |-> FALSE, told |-> FALSE, set |-> FALSE,
             spared |-> FALSE]
  /\ \E c \in DetachedConfigs :
       det = [cfg |-> c, live |-> FALSE, kind |-> c.type, state |-> FALSE,
              armed |-> FALSE, told |-> FALSE, press |-> "none"]
  /\ restart = FALSE /\ soft = FALSE /\ calm = FALSE

\* What the firmware does by itself.
Device ==
  \/ HandleEdge \/ PinTimer \/ AutoOffTimer \/ SensorTimer \/ Status
  \/ Stop \/ Start

\* What is done to it.
User ==
  /\ ~calm
  /\ \/ PinChange
     \/ \E value \in BOOLEAN : HAPWrite(value)
     \/ RPCSetState \/ ButtonSingle
     \/ \E click \in P!Clicks : InjectInputEvent(click)
     \/ \E new \in Configs : SetSwitchConfig(new)
     \/ \E new \in DetachedConfigs : SetInputConfig(new)
     \/ \E s \in BOOLEAN : Boot(s)

\* From some time on, only the device itself acts.
CalmDown ==
  /\ ~calm /\ calm' = TRUE
  /\ UNCHANGED <<level, edge, pin, sw, det, restart, soft>>

Next == Device \/ User \/ CalmDown

Spec == Init /\ [][Next]_vars

\* Timers expire, and interrupts and the status timer are served: the device
\* does not stop while there is anything left for it to do.
Fairness == WF_vars(Device)

FairSpec == Spec /\ Fairness

-----------------------------------------------------------------------------
\* The members of the objects, the configuration and the history are what
\* their declarations allow.
TypeOK ==
  /\ level \in BOOLEAN /\ edge \in BOOLEAN
  /\ pin \in P!Pins
  /\ sw \in S!Switches
  /\ det \in D!Detached
  /\ restart \in BOOLEAN /\ soft \in BOOLEAN

\* Home knows the value that a read of the service would return, whoever
\* switched last and whatever hk_state_inverted was meanwhile.
HomeInSync ==
  /\ sw.live /\ sw.svc # "Hidden" => sw.told = S!Shown(sw)
  /\ D!IsSensor(det) => det.told = D!Shown(det)

\* A state that is not marked as dirty is in the flash, although it is only
\* saved when somebody looks at the switch, or by the way.
FlashIsHonest == sw.live /\ ~sw.dirty => sw.saved = sw.state

\* The state that would be restored is the state of the output, once the
\* object has set it.
StateIsOutput == sw.live /\ sw.set => sw.state = S!Out(sw)

\* Output, state, its mark and its copy in the flash go together, whichever
\* of the ways to switch, save, restart and lose power was taken.
StateIsKept == TypeOK /\ StateIsOutput /\ FlashIsHonest

\* Every click the input reports follows a press that no other click was
\* reported for, whichever edges are lost to reads of the input.  Those that
\* InjectInputEvent makes up are reported past the input.
NoPhantomClicks == ~pin.phantom

\* A sensor in level mode shows what its input last reported, and a pulse
\* that is shown has a timer that ends it, through changes of the mode,
\* restarts and pulses that have not ended.
SensorsTrack ==
  D!IsSensor(det) =>
    /\ det.cfg.sensorMode = "Level" => det.state = pin.heard
    /\ det.cfg.sensorMode = "Pulse" /\ det.state => det.armed

\* What handlers do not hear is noise: as long as no edge is waiting to be
\* handled, the last state the input reported is the one it has.
EdgesAreHeard == sw.live /\ ~edge => pin.heard = Input

\* No path leaves an output on that auto-off should turn off: not a second
\* command, an edge that is reported late, a change of the configuration, a
\* restart or a power failure.  The code has three exceptions, and this says
\* that there is no fourth: a long press of a momentary switch, auto-off being
\* enabled while the output is on, and a service that starts with
\* initial_state "input" and an input that is no toggle, which leaves the
\* output as it finds it.  Each lasts until the output is set again.
AutoOffIsKept ==
  sw.live /\ sw.cfg.autoOff /\ S!Out(sw) => sw.armed \/ sw.spared

\* An output with auto-off is off, unless its input holds it on, or one of the
\* three exceptions above does.
AutoOffDone ==
  sw.cfg.autoOff /\ S!Out(sw) => S!InputHolds(sw, Input) \/ sw.spared

\* When everybody leaves the device alone, it comes to rest and stays so:
\* outputs with auto-off are off, with the exceptions above, pulses have ended,
\* and the flash has the last state.
ComesToRest ==
  <>calm => <>[](/\ sw.live /\ AutoOffDone
                 /\ det.state => det.cfg.sensorMode = "Level"
                 /\ sw.saved = sw.state)
=============================================================================
