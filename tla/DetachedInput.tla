--------------------------- MODULE DetachedInput ---------------------------
(***************************************************************************)
(* The service an input has in Home when its switch is detached from it    *)
(* (ShellyInput and what it creates): a disabled input, a stateless switch *)
(* or a doorbell (StatelessSwitchBase), or a sensor (SensorBase).  The     *)
(* object and its configuration are one record, d.                         *)
(***************************************************************************)
EXTENDS Integers

StatelessTypes == {"StatelessSwitch", "Doorbell"}
SensorTypes == {"Motion", "Occupancy", "Contact", "Leak", "Smoke", "CO", "CO2"}
InputTypes == {"Disabled"} \cup StatelessTypes \cup SensorTypes

\* How a stateless switch, and how a sensor, takes the events of the input.
SwitchModes == {"Momentary", "ToggleShort", "ToggleShortLong"}
SensorModes == {"Level", "Pulse"}

\* Both have a configuration of their own, whatever the type is now.
InputConfigs == [type : InputTypes, inv : BOOLEAN, switchMode : SwitchModes,
                 sensorMode : SensorModes]

Presses == {"Single", "Double", "Long"}

(***************************************************************************)
(* kind is initial_type_, state and armed are state_ and auto_off_timer_   *)
(* of the sensor, press the last event of the switch.  told is the state   *)
(* Home was last told.                                                     *)
(***************************************************************************)
Detached ==
  [cfg : InputConfigs, live : BOOLEAN, kind : InputTypes, state : BOOLEAN,
   armed : BOOLEAN, told : BOOLEAN, press : Presses \cup {"none"}]

IsSensor(d) == d.live /\ d.kind \in SensorTypes
IsStateless(d) == d.live /\ d.kind \in StatelessTypes

\* A contact sensor reports a contact, not an opening.
Shown(d) == IF d.kind = "Contact" THEN ~d.state ELSE d.state

-----------------------------------------------------------------------------
SetInternalState(d, on) ==
  LET t == [d EXCEPT !.state = on,
                     !.armed = @ \/ (on /\ d.cfg.sensorMode = "Pulse")]
  IN  IF on = d.state THEN t ELSE [t EXCEPT !.told = Shown(t)]

\* SensorBase::InputEventHandler.
SensorChange(d, on) ==
  IF on \/ d.cfg.sensorMode = "Level" THEN SetInternalState(d, on) ELSE d

\* SensorBase::AutoOffTimerCB.
SensorTimer(d) ==
  LET t == [d EXCEPT !.armed = FALSE]
  IN  IF d.cfg.sensorMode = "Pulse" THEN SetInternalState(t, FALSE) ELSE t

\* The press that StatelessSwitchBase makes of the events of the input.
PressOf(mode, events, on) ==
  IF mode = "Momentary" THEN events \cap Presses
  ELSE IF "Change" \notin events THEN {}
  ELSE {IF mode = "ToggleShortLong" /\ ~on THEN "Double" ELSE "Single"}

InputEvents(d, events, on) ==
  CASE IsSensor(d) /\ "Change" \in events -> SensorChange(d, on)
    [] IsStateless(d) /\ PressOf(d.cfg.switchMode, events, on) # {} ->
         [d EXCEPT !.press =
            CHOOSE p \in PressOf(d.cfg.switchMode, events, on) : TRUE]
    [] OTHER -> d

-----------------------------------------------------------------------------
\* The type of the next service is compared with the one of this service.
NewType(d, type) == IF type = d.kind THEN d.cfg.type ELSE type

RestartRequired(d, new) == new.type # d.kind \/ new.inv # d.cfg.inv

\* The part that ShellyInput changes before it asks its service to do the rest;
\* a request that the service rejects then is left out.
TypeAndInversion(d, new) ==
  [d EXCEPT !.cfg.type = NewType(d, new.type), !.cfg.inv = new.inv]

\* Mutant: the new mode begins with the next change of the input.
MutServiceConfig(d, new, input) ==
  IF IsSensor(d) THEN [d EXCEPT !.cfg.sensorMode = new.sensorMode]
  ELSE IF IsStateless(d) THEN [d EXCEPT !.cfg.switchMode = new.switchMode]
  ELSE d

\* SetConfig of the present service: it knows its own mode only, and a sensor
\* starts the mode from the state of the input.
ServiceConfig(d, new, input) ==
  IF IsSensor(d)
  THEN SetInternalState([d EXCEPT !.cfg.sensorMode = new.sensorMode],
                        new.sensorMode = "Level" /\ input)
  ELSE IF IsStateless(d) THEN [d EXCEPT !.cfg.switchMode = new.switchMode]
  ELSE d

SetConfig(d, new, input) ==
  ServiceConfig(TypeAndInversion(d, new), new, input)

Destroy(d) == [d EXCEPT !.live = FALSE, !.kind = d.cfg.type, !.state = FALSE,
                        !.armed = FALSE, !.told = FALSE, !.press = "none"]

\* A sensor in level mode starts from the state of the input.
SensorInit(d, input) ==
  IF d.cfg.sensorMode = "Level" THEN SetInternalState(d, input) ELSE d

\* A new service of the configured type.  Home reads it when the server starts.
Create(d, input) ==
  LET t == [d EXCEPT !.live = TRUE, !.kind = d.cfg.type, !.state = FALSE,
                     !.armed = FALSE, !.press = "none"]
      u == IF IsSensor(t) THEN SensorInit(t, input) ELSE t
  IN  [u EXCEPT !.told = Shown(u)]
=============================================================================
