------------------------------- MODULE Switch -------------------------------
(***************************************************************************)
(* An output with its input and its service in Home (ShellySwitch and the  *)
(* classes made from it: Switch, Outlet, Lock and Valve).  The members of  *)
(* the object, the configuration it shares with the rest of the firmware   *)
(* and the pin of its output are one record, s, and every method is an     *)
(* operator from record to record.  Names and power meters are left out.   *)
(***************************************************************************)
EXTENDS Integers

SvcTypes == {"Hidden", "Switch", "Outlet", "Lock", "Valve"}
InModes == {"Absent", "Momentary", "Toggle", "Edge", "Detached", "Activation",
            "EdgeBoth", "ActivationBoth"}
InitialStates == {"Off", "On", "Last", "Input"}

\* valve is valve_type, led is state_led_en; -1 where there is none.
SwitchConfigs ==
  [svc : SvcTypes, valve : -1 .. 1, inMode : InModes, inInv : BOOLEAN,
   initial : InitialStates, autoOff : BOOLEAN, hkInv : BOOLEAN,
   outInv : BOOLEAN, led : -1 .. 1]

(***************************************************************************)
(* svc is the class of the object, live whether there is one; gpio is the  *)
(* level of the output, inv its out_invert_, led the state LED; state is   *)
(* cfg_->state and saved what the flash has of it; armed says whether      *)
(* auto_off_timer_ runs.  told is the value Home was last told, or wrote.  *)
(* History: set says whether this object has set the output, spared that   *)
(* it is on without the timer although auto-off is enabled, for one of     *)
(* three reasons: a long press has stopped the timer, auto-off was enabled *)
(* later, or the object was created and left the output as it was.         *)
(***************************************************************************)
Switches ==
  [cfg : SwitchConfigs, svc : SvcTypes, live : BOOLEAN, gpio : BOOLEAN,
   inv : BOOLEAN, led : BOOLEAN, state : BOOLEAN, saved : BOOLEAN,
   dirty : BOOLEAN, armed : BOOLEAN, told : BOOLEAN, set : BOOLEAN,
   spared : BOOLEAN]

\* OutputPin::GetState.
Out(s) == s.gpio # s.inv

\* OutputPin::SetState.
SetState(s, on) == [s EXCEPT !.gpio = on # s.inv]

\* Only the switch and the outlet know hk_state_inverted.
Inverted(s) == s.svc \in {"Switch", "Outlet"} /\ s.cfg.hkInv

\* What a read of On, of the lock's states, of Active and InUse returns.
Shown(s) == Out(s) # Inverted(s)

\* RaiseEvent of the characteristics in state_notify_chars_.
Notify(s) == [s EXCEPT !.told = Shown(s)]

-----------------------------------------------------------------------------
\* Mutant: the timer is only started by a transition.
MutSetOutputState(s, on) ==
  LET t == [SetState(s, on) EXCEPT
              !.led = s.cfg.led = 1 /\ on,
              !.state = on, !.dirty = @ \/ s.state # on, !.set = TRUE,
              !.spared = FALSE,
              !.armed = on /\ s.cfg.autoOff /\ ~Out(s)]
  IN  IF on = Out(s) THEN t ELSE Notify(t)

SetOutputState(s, on) ==
  LET t == [SetState(s, on) EXCEPT
              !.led = s.cfg.led = 1 /\ on,
              !.state = on, !.dirty = @ \/ s.state # on, !.set = TRUE,
              !.spared = FALSE,
              !.armed = on /\ s.cfg.autoOff]
  IN  IF on = Out(s) THEN t ELSE Notify(t)

Rearm(s) == [s EXCEPT !.armed = TRUE, !.spared = FALSE]

\* SaveState writes the whole configuration, if there is need to.
SaveState(s) == IF s.dirty THEN [s EXCEPT !.saved = s.state, !.dirty = FALSE]
                ELSE s

Toggle(s) == SetOutputState(s, ~Out(s))

\* A write from Home, in its terms; who wrote is told of no transition.
HAPWrite(s, value) ==
  SetOutputState([s EXCEPT !.told = value], value # Inverted(s))

-----------------------------------------------------------------------------
\* The input was told to be on (or off), InputEventHandler for kChange.
InputChange(s, on) ==
  CASE s.cfg.inMode = "Momentary" /\ on -> Toggle(s)
    [] s.cfg.inMode = "Toggle" -> SetOutputState(s, on)
    [] s.cfg.inMode \in {"Edge", "EdgeBoth"} -> Toggle(s)
    [] s.cfg.inMode \in {"Activation", "ActivationBoth"} ->
         IF on THEN SetOutputState(s, TRUE)
         ELSE IF Out(s) /\ s.cfg.autoOff THEN Rearm(s) ELSE s
    [] OTHER -> s

\* kLong: "Disable auto-off if it was active".
LongPress(s) ==
  IF s.cfg.inMode = "Momentary"
  THEN [s EXCEPT !.armed = FALSE, !.spared = @ \/ s.armed]
  ELSE s

\* The other events are ignored, and so is every one while there is no object.
InputEvents(s, events, on) ==
  IF ~s.live THEN s
  ELSE IF "Change" \in events THEN InputChange(s, on)
  ELSE IF "Long" \in events THEN LongPress(s) ELSE s

\* The input keeps the output on.
InputHolds(s, input) == s.cfg.inMode = "Activation" /\ input /\ Out(s)

\* AutoOffTimerCB; input is what GetInputState returns.
AutoOff(s, input) ==
  LET t == [s EXCEPT !.armed = FALSE]
  IN  IF ~s.cfg.autoOff THEN t
      ELSE IF InputHolds(s, input) THEN Rearm(t)
      ELSE SetOutputState(t, FALSE)

-----------------------------------------------------------------------------
\* What SetConfig accepts.  The two boolean settings are always valid.
ValidConfig(old, new) ==
  /\ (new.svc = "Valve") = (new.valve # -1)
  /\ new.inMode # "Absent" \/ old.inMode = "Absent"
  /\ ~(old.inMode = "Absent" /\ new.initial = "Input")
  /\ (old.led = -1) = (new.led = -1)

\* Modes between which the input has other listeners.
Listeners == {"Detached", "EdgeBoth", "ActivationBoth"}

RestartRequired(old, new) ==
  \/ old.svc # new.svc \/ old.valve # new.valve
  \/ old.inMode # new.inMode /\ Listeners \cap {old.inMode, new.inMode} # {}
  \/ old.inInv # new.inInv \/ old.outInv # new.outInv \/ old.led # new.led

\* Mutant: Home is not told that the meaning of the values has changed.
MutSetConfig(s, new) ==
  LET enabled == ~s.cfg.autoOff /\ Out(s) /\ ~s.armed
  IN  [s EXCEPT !.cfg = new, !.saved = s.state,
                !.spared = new.autoOff /\ (@ \/ enabled)]

(***************************************************************************)
(* SetConfig, and the save by its caller.  The state LED and the inversion *)
(* of the output follow at the restart, the timer at the next transition.  *)
(* A hidden switch has no characteristic to notify: raising the event of   *)
(* the first one is undefined and may end in a crash, PowerFail.           *)
(***************************************************************************)
SetConfig(s, new) ==
  LET enabled == ~s.cfg.autoOff /\ Out(s) /\ ~s.armed
      t == [s EXCEPT !.cfg = new, !.saved = s.state,
                     !.spared = new.autoOff /\ (@ \/ enabled)]
  IN  IF s.cfg.hkInv # new.hkInv THEN Notify(t) ELSE t

\* The destructor.
Destroy(s) ==
  [SaveState(s) EXCEPT !.live = FALSE, !.armed = FALSE, !.told = FALSE,
                       !.set = FALSE, !.spared = FALSE]

\* Init's choice of the first state; soft is IsSoftReboot.  An output that is
\* to follow an input that is no toggle stays as it is, whatever its state was,
\* and so does a timer that does not run.
FirstState(s, soft, input) ==
  CASE soft \/ s.cfg.initial = "Last" -> SetOutputState(s, s.state)
    [] ~soft /\ s.cfg.initial = "Off" -> SetOutputState(s, FALSE)
    [] ~soft /\ s.cfg.initial = "On" -> SetOutputState(s, TRUE)
    [] ~soft /\ s.cfg.initial = "Input" ->
         IF s.cfg.inMode = "Toggle" THEN SetOutputState(s, input)
         ELSE [s EXCEPT !.spared = s.cfg.autoOff /\ Out(s)]

\* Mutant: the output is inverted after it has been set.
MutCreate(s, soft, input) ==
  LET t == [s EXCEPT !.live = TRUE, !.svc = s.cfg.svc, !.dirty = FALSE,
                     !.armed = FALSE, !.set = FALSE]
  IN  Notify([FirstState(t, soft, input) EXCEPT !.inv = s.cfg.outInv])

\* A new object of the configured class; Home reads its values when the
\* server starts.
Create(s, soft, input) ==
  LET t == [s EXCEPT !.live = TRUE, !.svc = s.cfg.svc, !.inv = s.cfg.outInv,
                     !.dirty = FALSE, !.armed = FALSE, !.set = FALSE]
  IN  Notify(FirstState(t, soft, input))

\* Outputs are low after a reset, and the configuration is what the flash has.
Reset(s) ==
  [s EXCEPT !.live = FALSE, !.gpio = FALSE, !.inv = FALSE, !.led = FALSE,
            !.state = s.saved, !.dirty = FALSE, !.armed = FALSE,
            !.told = FALSE, !.set = FALSE, !.spared = FALSE]
=============================================================================
