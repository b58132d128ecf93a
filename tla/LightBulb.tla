------------------------------- MODULE LightBulb -------------------------------
(***************************************************************************)
(* A light bulb in Home (LightBulb) with its controller and, if it has     *)
(* colour temperatures, adaptive lighting.  The service and both objects   *)
(* call each other: a new brightness moves the colour temperature along    *)
(* the curve, a new colour temperature ends the transition, and each of    *)
(* them starts a fade.  Members are one record, l, and methods operators   *)
(* from record to record.                                                  *)
(***************************************************************************)
EXTENDS ColorModel, LightController, AdaptiveLighting

CONSTANTS
  Types,          \* bulbs that are looked at
  Configs,        \* what Shelly.SetConfig may choose
  Times,          \* transition_time, in units of Identify's 500 ms
  Brightnesses, Hues, Saturations, Temperatures,  \* what users choose
  Tables          \* curves that Home sends

ASSUME TypesAssumption == Types \subseteq BulbTypes
ASSUME TablesAssumption == Tables \subseteq TransitionCurves

ASSUME TimesAssumption == Times \subseteq Nat

VARIABLES
  l,              \* the bulb, its timers and its configuration
  level,          \* the level of its input
  calm            \* nobody is going to do anything any more

vars == <<l, level, calm>>

\* The bulb has an input; without one it is as with a detached one.
InModes == {"Momentary", "Toggle", "Edge", "Detached", "Activation"}
InitialStates == {"Off", "On", "Last", "Input"}
BulbConfigs == [inMode : InModes, autoOff : BOOLEAN, initial : InitialStates,
                time : Times]

\* What SetConfig and SetState accept, and what Home may write.
ASSUME ConfigsAssumption == Configs \subseteq BulbConfigs
ASSUME SettingsAssumption ==
  /\ Brightnesses \subseteq 0 .. 100 /\ Hues \subseteq 0 .. 360
  /\ Saturations \subseteq 0 .. 100 /\ Temperatures \subseteq 50 .. 400

\* The longest queue is the one of Identify.
MaxQueue == 6

(***************************************************************************)
(* cfg is what the light is set to, opt how the bulb is configured; armed  *)
(* says whether auto_off_timer_ runs, c is the controller and a adaptive   *)
(* lighting.  History: manual, the colour temperature that Home, or a      *)
(* client after Home, has chosen since the last activation, or None;       *)
(* fresh, nothing since the last adjustment has changed what was adjusted  *)
(* to; set, this object has set the outputs; spared, the light is on with  *)
(* auto-off enabled but no timer, because somebody held the input, because *)
(* auto-off was enabled when the light was on already, or because a new    *)
(* object left it as it was.                                               *)
(***************************************************************************)
None == 0

NewBulb(type, cfg, opt) ==
  [type |-> type, cfg |-> cfg, opt |-> opt, dirty |-> FALSE, armed |-> FALSE,
   c |-> NewController(Dark(type)), a |-> NewAdaptiveLighting,
   manual |-> None, fresh |-> FALSE, set |-> FALSE,
   spared |-> cfg.on /\ opt.autoOff]

\* Characteristics the bulb has.
HasColor(b) == b.type \in {"rgb", "rgbw"}
HasTemperature(b) == b.type = "cct"

\* controller_->UpdateOutput(cfg_, true).
Show(b) == [b EXCEPT !.c = UpdateOutput(b.c, ConfigToState(b.type, b.cfg),
                                        b.opt.time, TRUE),
                     !.set = TRUE]

-----------------------------------------------------------------------------
UpdateOnOff(b, on, force) ==
  IF ~force /\ b.cfg.on = on THEN b
  ELSE Show([b EXCEPT !.cfg.on = on, !.dirty = TRUE, !.armed = on,
                      !.spared = FALSE])

SetHue(b, h) ==
  IF b.cfg.h = h THEN b ELSE Show([b EXCEPT !.cfg.h = h, !.dirty = TRUE])

\* Mutant: the new saturation is shown with the next change.
MutSetSaturation(b, s) ==
  IF b.cfg.s = s THEN b ELSE [b EXCEPT !.cfg.s = s, !.dirty = TRUE]

SetSaturation(b, s) ==
  IF b.cfg.s = s THEN b ELSE Show([b EXCEPT !.cfg.s = s, !.dirty = TRUE])

\* SetColorTemperature, and ColorTempChangedManually for Home.
SetColorTemperature(b, ct, source) ==
  LET t == [b EXCEPT !.cfg.ct = ct, !.dirty = TRUE, !.fresh = FALSE]
  IN  IF b.cfg.ct = ct THEN b
      ELSE IF source = "HAP" /\ HasTemperature(b)
      THEN Show([t EXCEPT !.a = Disable(b.a), !.manual = ct])
      ELSE IF source = "RPC" /\ b.manual # None
      THEN Show([t EXCEPT !.manual = ct])
      ELSE Show(t)

\* The curves, for every time and brightness, until after their end.
LastTime(table) == EndOf(table, Len(table)) + 1

Curves == [t \in Tables |-> [o \in 0 .. LastTime(t) |->
             [v \in 0 .. 100 |-> Temperature(t, o, v)]]]

CurveAt(a, v) == Curves[a.table][Lower(a.offset, LastTime(a.table))][v]

\* AdjustColorTemp.
AdjustColorTemp(b, elapsed) ==
  LET t == [b EXCEPT !.a = Advance(b.a, elapsed)]
  IN  IF b.a.count # 1 THEN b
      ELSE [SetColorTemperature(t, CurveAt(t.a, t.cfg.b), "AUTO")
              EXCEPT !.fresh = TRUE]

\* Mutant: only the timer adjusts the temperature.
MutSetBrightness(b, v, source) ==
  IF b.cfg.b = v THEN b
  ELSE Show([b EXCEPT !.cfg.b = v, !.dirty = TRUE,
                      !.fresh = @ /\ source = "HAP"])

\* SetBrightness, and BrightnessChangedManually for Home.
SetBrightness(b, v, source) ==
  LET t == [b EXCEPT !.cfg.b = v, !.dirty = TRUE, !.fresh = FALSE]
  IN  IF b.cfg.b = v THEN b
      ELSE IF source = "HAP" /\ HasTemperature(b)
      THEN Show(AdjustColorTemp(t, 0))
      ELSE Show(t)

\* Shelly.SetState, in this order; Keep stands for a member that is missing.
Keep == -1

ApplyState(b, r) ==
  LET b1 == IF r.on = {} THEN b
            ELSE UpdateOnOff(b, r.on = {TRUE}, FALSE)
      b2 == IF r.h = Keep THEN b1 ELSE SetHue(b1, r.h)
      b3 == IF r.s = Keep THEN b2 ELSE SetSaturation(b2, r.s)
      b4 == IF r.b = Keep THEN b3 ELSE SetBrightness(b3, r.b, "RPC")
  IN  IF r.ct = Keep THEN b4 ELSE SetColorTemperature(b4, r.ct, "RPC")

\* What is asked of a bulb of this type.  (SetHue of a bulb without colours
\* dereferences a characteristic it does not have.)
StateRequests(b) ==
  [on : {{}, {TRUE}, {~b.cfg.on}},
   h : {Keep} \union (IF HasColor(b) THEN Hues ELSE {}),
   s : {Keep} \union (IF HasColor(b) THEN Saturations ELSE {}),
   b : {Keep} \union Brightnesses,
   ct : {Keep} \union (IF HasTemperature(b) THEN Temperatures ELSE {})]

\* Identify: six fades, the last of which leads back.
Identified(b) ==
  LET on == ConfigToState(b.type, [Defaults EXCEPT !.on = TRUE])
      off == ConfigToState(b.type, [Defaults EXCEPT !.on = TRUE, !.b = 0])
      end == ConfigToState(b.type, b.cfg)
      c1 == UpdateOutput(b.c, on, 1, TRUE)
      c2 == UpdateOutput(c1, off, 1, FALSE)
      c3 == UpdateOutput(c2, on, 1, FALSE)
      c4 == UpdateOutput(c3, off, 1, FALSE)
      c5 == UpdateOutput(c4, on, 1, FALSE)
  IN  [b EXCEPT !.c = UpdateOutput(c5, end, 1, FALSE), !.set = TRUE]

-----------------------------------------------------------------------------
\* Init, from should_restore on.  A light that is to follow an input that is
\* no toggle stays dark, whatever its setting was.
Started(b, soft) ==
  IF b.opt.initial = "Last" \/ soft THEN UpdateOnOff(b, b.cfg.on, TRUE)
  ELSE IF b.opt.initial = "Input"
  THEN IF b.opt.inMode = "Toggle" THEN UpdateOnOff(b, level, TRUE) ELSE b
  ELSE UpdateOnOff(b, b.opt.initial = "On", TRUE)

\* CreateComponents: the bulb, its controller and its adaptive lighting are
\* new, which a bulb without colour temperatures has no use for.
CreateComponents(type, cfg, opt, soft) ==
  Started(NewBulb(type, cfg, opt), soft)

\* InputEventHandler for a change of the input.
InputEvent(b, state) ==
  CASE b.opt.inMode = "Momentary" ->
         IF state THEN UpdateOnOff(b, ~b.cfg.on, FALSE) ELSE b
    [] b.opt.inMode = "Toggle" -> UpdateOnOff(b, state, FALSE)
    [] b.opt.inMode = "Edge" -> UpdateOnOff(b, ~b.cfg.on, FALSE)
    [] b.opt.inMode = "Activation" ->
         IF state THEN UpdateOnOff(b, TRUE, FALSE)
         ELSE IF b.cfg.on /\ b.opt.autoOff THEN [b EXCEPT !.armed = TRUE] ELSE b
    [] OTHER -> b

\* Whether an active input keeps the light on.
InputHolds(b) == b.opt.inMode = "Activation" /\ level /\ b.cfg.on

\* AutoOffTimerCB.
AutoOff(b) ==
  IF ~b.opt.autoOff THEN [b EXCEPT !.armed = FALSE]
  ELSE IF InputHolds(b) THEN b
  ELSE UpdateOnOff([b EXCEPT !.armed = FALSE], FALSE, FALSE)

-----------------------------------------------------------------------------
AutoOffTimer ==
  /\ l.armed /\ l' = AutoOff(l)
  /\ UNCHANGED <<level, calm>>

FadeTimer ==
  /\ l.c.running /\ l' = [l EXCEPT !.c = TransitionTimer(l.c)]
  /\ UNCHANGED <<level, calm>>

\* UpdateCB.
UpdateTimer ==
  /\ l.a.timer /\ l' = AdjustColorTemp(l, 1)
  /\ UNCHANGED <<level, calm>>

\* SaveState: by GetInfo, and the timer that calls it.
SaveState ==
  /\ l.dirty /\ l' = [l EXCEPT !.dirty = FALSE]
  /\ UNCHANGED <<level, calm>>

\* Writes from Home.
HAPWrite ==
  \/ \E on \in BOOLEAN : l' = UpdateOnOff(l, on, FALSE)
  \/ \E v \in Brightnesses : l' = SetBrightness(l, v, "HAP")
  \/ HasColor(l) /\ \E h \in Hues : l' = SetHue(l, h)
  \/ HasColor(l) /\ \E s \in Saturations : l' = SetSaturation(l, s)
  \/ /\ HasTemperature(l)
     /\ \E ct \in Temperatures : l' = SetColorTemperature(l, ct, "HAP")

RPCSetState == \E r \in StateRequests(l) : l' = ApplyState(l, r)

\* A write to the control point.
ControlWrite ==
  /\ HasTemperature(l)
  /\ \E r \in Requests(Tables) :
       LET a == Control(l.a, r)
       IN  l' = [l EXCEPT !.a = a,
                          !.manual = IF Activates(r) THEN None ELSE @,
                          !.fresh = @ /\ a.table = l.a.table
                                    /\ a.offset = l.a.offset]

Identify == l' = Identified(l)

\* Whether in_mode may become this one without a restart.
LiveMode(b, mode) ==
  mode = b.opt.inMode \/ "Detached" \notin {mode, b.opt.inMode}

\* Shelly.SetConfig of members that need no restart.
SetConfig ==
  \E o \in Configs :
    /\ LiveMode(l, o.inMode)
    /\ l' = [l EXCEPT !.opt = o,
                      !.spared = /\ @ \/ ~l.opt.autoOff
                                 /\ o.autoOff /\ l.cfg.on /\ ~l.armed]

\* The service restarts, with a new configuration: all objects are new, what
\* was not saved is saved, and the fade to the setting starts from dark.
RestartService ==
  \E o \in Configs, soft \in BOOLEAN :
    l' = CreateComponents(l.type, l.cfg, o, soft)

\* The power fails, or the firmware crashes; what is dirty is older then.
PowerFail ==
  \E cfg \in IF l.dirty THEN {l.cfg, [l.cfg EXCEPT !.on = ~@]} ELSE {l.cfg} :
    l' = CreateComponents(l.type, cfg, l.opt, FALSE)

\* The input changes, or is held, which ends auto-off in momentary mode.
InputChange == level' = ~level /\ l' = InputEvent(l, ~level)

LongPress ==
  /\ l' = IF l.opt.inMode = "Momentary"
          THEN [l EXCEPT !.armed = FALSE,
                         !.spared = l.cfg.on /\ l.opt.autoOff]
          ELSE l
  /\ UNCHANGED level

-----------------------------------------------------------------------------
Init ==
  /\ level \in BOOLEAN
  /\ \E type \in Types, o \in Configs :
       l = CreateComponents(type, Defaults, o, FALSE)
  /\ calm = FALSE

\* What the firmware does by itself.
Device == AutoOffTimer \/ FadeTimer \/ UpdateTimer \/ SaveState

\* What Home, RPC clients and hands do.
User ==
  /\ ~calm /\ UNCHANGED calm
  /\ \/ InputChange \/ LongPress
     \/ /\ UNCHANGED level
        /\ \/ HAPWrite \/ RPCSetState \/ ControlWrite
           \/ Identify \/ SetConfig \/ RestartService \/ PowerFail

\* From here on nobody touches the light.
CalmDown == calm' = TRUE /\ UNCHANGED <<l, level>>

Next == Device \/ User \/ CalmDown

Spec == Init /\ [][Next]_vars

\* Timers are served.
FairSpec == Spec /\ WF_vars(Device)

-----------------------------------------------------------------------------
\* Types: every setting can be shown, no output is driven beyond its range
\* and the queue is never longer than the one of Identify.
TypeOK ==
  /\ l.type \in Types /\ l.cfg \in Settings /\ l.opt \in BulbConfigs
  /\ {l.dirty, l.armed, l.fresh, l.set, l.spared, level, calm}
       \subseteq BOOLEAN
  /\ l.manual \in {None} \union 50 .. 400
  /\ \A i \in DOMAIN Dark(l.type) : StateNow(l.c)[i] \in 0 .. Full(l.type)
  /\ Len(l.c.queue) <= MaxQueue
  /\ l.a.count \in {0, 1} /\ l.a.offset \in Nat

\* Fades get somewhere: the timer runs if there is one in the queue, the last
\* one leads to what the light is set to, and if there is none the outputs
\* show it, as the definition of its colour has it; except that a new bulb
\* is dark until it is told something, see Started.
ShowsSetting ==
  /\ TypeOK
  /\ l.c.running <=> l.c.queue # <<>>
  /\ l.set => Shows(l.type, l.cfg,
                    IF l.c.running THEN l.c.queue[Len(l.c.queue)].end
                    ELSE StateNow(l.c))

\* A colour temperature that was chosen in Home stays what it is until
\* adaptive lighting is activated again or somebody chooses another one,
\* whatever timers still run and whatever the brightness becomes.
ManualWins ==
  l.manual # None => l.a.count = 0 /\ l.cfg.ct = l.manual

\* While adaptive lighting is active the colour temperature is the one of its
\* curve for the time and the brightness.
FollowsCurve ==
  l.a.count = 1 /\ l.fresh => l.cfg.ct = OnCurve(l.a.table, l.a.offset, l.cfg.b)

\* Left alone, the light shows its setting, adaptive lighting has come to the
\* end of the curve, what has changed is saved, and a light with auto-off is
\* off, unless its input keeps it on or it was spared.
Settled ==
  /\ l.set => Shows(l.type, l.cfg, StateNow(l.c))
  /\ l.c.queue = <<>>
  /\ l.a.count = 0 /\ ~l.dirty
  /\ l.cfg.on /\ l.opt.autoOff => InputHolds(l) \/ l.spared

Settles == calm ~> (calm /\ Settled)
=============================================================================
