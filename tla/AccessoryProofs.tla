--------------------------- MODULE AccessoryProofs ---------------------------
(***************************************************************************)
(* One channel of a relay device, for any configurations that users choose *)
(* from.  Each class has an invariant of its own: SwitchGood of the switch *)
(* and its output, PinGood of the input, DetGood of the detached input and *)
(* what the input has told it.  A lemma per method shows that the method   *)
(* keeps it; the steps of Accessory put them together.                     *)
(***************************************************************************)
EXTENDS Accessory, TLAPS

\* A switch between two handlers: the output is the state once it has been
\* set, a state that is not dirty is in the flash, Home knows what a read would
\* return, and an output that is on is not forgotten; a switch that does not
\* exist has nothing to save and no timer.
Guarded(s) == s.cfg.autoOff /\ S!Out(s) => s.armed \/ s.spared

Linked(s) ==
  (s.set => s.state = S!Out(s)) /\ s.told = S!Shown(s) /\ Guarded(s)

Kept(s) == ~s.dirty => s.saved = s.state

SwitchGood(s) ==
  /\ s \in S!Switches /\ Kept(s)
  /\ IF s.live THEN Linked(s) ELSE ~s.dirty /\ ~s.armed

\* What each state of the machine for clicks knows: the timer runs until a
\* press is decided, and up to then the press is not yet reported.
PinGood(p) ==
  /\ p \in P!Pins /\ ~p.phantom
  /\ p.fsm = "Idle" => ~p.armed
  /\ p.fsm \in {"WaitOffSingle", "WaitOnDouble", "WaitOffDouble"} =>
       p.armed /\ p.cnt = 0 /\ p.fresh
  /\ p.fsm = "WaitOffLong" =>
       IF p.armed THEN p.cnt = 1 /\ p.fresh ELSE p.cnt = 2

\* A detached input whose input has told it heard.
DetGood(d, heard) ==
  /\ d \in D!Detached
  /\ D!IsSensor(d) =>
       /\ d.told = D!Shown(d)
       /\ d.cfg.sensorMode = "Level" => d.state = heard
       /\ d.cfg.sensorMode = "Pulse" /\ d.state => d.armed

Inv ==
  /\ level \in BOOLEAN /\ edge \in BOOLEAN
  /\ restart \in BOOLEAN /\ soft \in BOOLEAN
  /\ PinGood(pin) /\ SwitchGood(sw) /\ DetGood(det, pin.heard)
  /\ det.live => sw.live

-----------------------------------------------------------------------------
LEMMA NotifyGood ==
  ASSUME NEW s \in S!Switches
  PROVE  /\ S!Notify(s) \in S!Switches
         /\ S!Notify(s).told = S!Shown(S!Notify(s))
         /\ S!Notify(s) = [s EXCEPT !.told = S!Shown(s)]
<1>1. S!Shown(s) \in BOOLEAN
  BY DEF S!Shown
<1>2. S!Notify(s) = [s EXCEPT !.told = S!Shown(s)]
  BY DEF S!Notify
<1>3. S!Shown(S!Notify(s)) = S!Shown(s)
  BY <1>2 DEF S!Switches, S!Shown, S!Out, S!Inverted
<1> QED BY <1>1, <1>2, <1>3 DEF S!Switches

\* Whatever Home was told before, if that was the value of the output or the
\* output changes, it knows the new one.
LEMMA SetOutputStateGood ==
  ASSUME NEW s \in S!Switches, NEW on \in BOOLEAN, Kept(s), s.live
  PROVE  /\ S!SetOutputState(s, on) \in S!Switches
         /\ Kept(S!SetOutputState(s, on))
         /\ S!SetOutputState(s, on).live
         /\ S!SetOutputState(s, on).state = on
         /\ S!Out(S!SetOutputState(s, on)) = on
         /\ Guarded(S!SetOutputState(s, on))
         /\ S!Out(s) # on \/ s.told = (on # S!Inverted(s)) =>
              SwitchGood(S!SetOutputState(s, on))
<1> DEFINE t == [S!SetState(s, on) EXCEPT
                   !.led = s.cfg.led = 1 /\ on,
                   !.state = on, !.dirty = @ \/ s.state # on, !.set = TRUE,
                   !.spared = FALSE, !.armed = on /\ s.cfg.autoOff]
<1>1. /\ t \in S!Switches /\ t.live /\ t.state = on
      /\ t.gpio = (on # s.inv) /\ t.inv = s.inv /\ t.told = s.told
      /\ t.cfg = s.cfg /\ t.svc = s.svc /\ t.saved = s.saved
      /\ t.dirty = (s.dirty \/ s.state # on)
      /\ t.armed = (on /\ s.cfg.autoOff)
  <2> DEFINE g == on # s.inv
             l == s.cfg.led = 1 /\ on
             d == s.dirty \/ s.state # on
             a == on /\ s.cfg.autoOff
  <2>1. g \in BOOLEAN /\ l \in BOOLEAN /\ d \in BOOLEAN /\ a \in BOOLEAN
    BY DEF S!Switches, S!SwitchConfigs
  <2>2. t = [s EXCEPT !.gpio = g, !.led = l, !.state = on, !.dirty = d,
                      !.set = TRUE, !.spared = FALSE, !.armed = a]
    BY DEF S!SetState, S!Switches
  <2> HIDE DEF t, g, l, d, a
  <2>3. t \in S!Switches
    <3> DEFINE e == [s EXCEPT !.gpio = g, !.led = l, !.state = on]
    <3>1. e \in S!Switches
      BY <2>1 DEF S!Switches
    <3>2. t = [e EXCEPT !.dirty = d, !.set = TRUE, !.spared = FALSE,
                        !.armed = a]
      BY <2>2 DEF S!Switches
    <3> HIDE DEF e
    <3> QED BY <2>1, <3>1, <3>2 DEF S!Switches
  <2>4. /\ t.live /\ t.state = on /\ t.gpio = g
        /\ t.inv = s.inv /\ t.told = s.told /\ t.cfg = s.cfg
        /\ t.svc = s.svc /\ t.saved = s.saved /\ t.dirty = d /\ t.armed = a
    BY <2>1, <2>2 DEF S!Switches
  <2> QED BY <2>3, <2>4 DEF g, d, a
<1> HIDE DEF t
<1>2. S!Out(t) = on /\ S!Inverted(t) = S!Inverted(s)
  BY <1>1 DEF S!Out, S!Inverted, S!Switches
<1>3. Kept(t) /\ Guarded(t)
  BY <1>1, <1>2 DEF Kept, Guarded
<1>4. S!SetOutputState(s, on) = IF on = S!Out(s) THEN t ELSE S!Notify(t)
  BY DEF S!SetOutputState, t
<1>5. CASE on = S!Out(s)
  <2>1. s.told = (on # S!Inverted(s)) => SwitchGood(t)
    BY <1>1, <1>2, <1>3 DEF SwitchGood, Linked, S!Shown
  <2> QED BY <1>1, <1>2, <1>3, <1>4, <1>5, <2>1
<1>6. CASE on # S!Out(s)
  <2> DEFINE u == S!Notify(t)
  <2>1. u \in S!Switches /\ u.told = S!Shown(u)
          /\ u = [t EXCEPT !.told = S!Shown(t)]
    BY <1>1, NotifyGood
  <2> HIDE DEF u
  <2>2. S!Out(u) = on /\ u.live /\ u.state = on
    BY <1>1, <1>2, <2>1 DEF S!Out, S!Switches
  <2>3. Kept(u) /\ Guarded(u)
    BY <1>1, <1>2, <1>3, <2>1, <2>2 DEF Kept, Guarded, S!Switches
  <2> QED BY <1>4, <1>6, <2>1, <2>2, <2>3 DEF SwitchGood, Linked, u
<1> QED BY <1>5, <1>6

\* The same for a switch that is in order.
LEMMA SwitchedGood ==
  ASSUME NEW s, SwitchGood(s), s.live, NEW on \in BOOLEAN
  PROVE  /\ SwitchGood(S!SetOutputState(s, on))
         /\ S!SetOutputState(s, on).live
BY SetOutputStateGood DEF SwitchGood, Linked, S!Shown, S!Out

LEMMA ToggleGood ==
  ASSUME NEW s, SwitchGood(s), s.live
  PROVE  SwitchGood(S!Toggle(s)) /\ S!Toggle(s).live
<1> DEFINE on == ~S!Out(s)
<1>1. on \in BOOLEAN /\ S!Toggle(s) = S!SetOutputState(s, on)
  BY DEF S!Toggle
<1> HIDE DEF on
<1> QED BY <1>1, SwitchedGood

LEMMA HAPWriteGood ==
  ASSUME NEW s, SwitchGood(s), s.live, NEW value \in BOOLEAN
  PROVE  SwitchGood(S!HAPWrite(s, value)) /\ S!HAPWrite(s, value).live
<1> DEFINE t == [s EXCEPT !.told = value]
           on == value # S!Inverted(s)
<1>1. /\ t \in S!Switches /\ Kept(t) /\ t.live /\ t.told = value
  BY DEF SwitchGood, S!Switches, Kept
<1>2. S!Inverted(t) = S!Inverted(s)
  BY DEF S!Inverted, SwitchGood, S!Switches
<1>3. S!Inverted(s) \in BOOLEAN
  BY DEF S!Inverted, SwitchGood, S!Switches, S!SwitchConfigs
<1>4. on \in BOOLEAN /\ t.told = (on # S!Inverted(t))
  BY <1>1, <1>2, <1>3
<1> HIDE DEF t, on
<1>5. SwitchGood(S!SetOutputState(t, on)) /\ S!SetOutputState(t, on).live
  BY <1>1, <1>4, SetOutputStateGood
<1> QED BY <1>1, <1>5 DEF S!HAPWrite, t, on

\* Only the timer and its history change.
LEMMA TimerHistoryGood ==
  ASSUME NEW s, SwitchGood(s), s.live, NEW a \in BOOLEAN, NEW b \in BOOLEAN,
         s.cfg.autoOff /\ S!Out(s) => a \/ b
  PROVE  LET t == [s EXCEPT !.armed = a, !.spared = b]
         IN  SwitchGood(t) /\ t.live /\ t.live = s.live
<1> DEFINE t == [s EXCEPT !.armed = a, !.spared = b]
<1>1. /\ t \in S!Switches /\ t.live = s.live /\ t.armed = a /\ t.spared = b
      /\ t.cfg = s.cfg /\ t.svc = s.svc /\ t.gpio = s.gpio /\ t.inv = s.inv
      /\ t.state = s.state /\ t.told = s.told /\ t.dirty = s.dirty
      /\ t.saved = s.saved /\ t.set = s.set
  BY DEF SwitchGood, S!Switches
<1> HIDE DEF t
<1>2. SwitchGood(t)
  BY <1>1 DEF SwitchGood, Linked, Guarded, Kept, S!Shown, S!Out, S!Inverted
<1> QED BY <1>1, <1>2 DEF t

LEMMA RearmGood ==
  ASSUME NEW s, SwitchGood(s), s.live
  PROVE  SwitchGood(S!Rearm(s)) /\ S!Rearm(s).live
BY TimerHistoryGood DEF S!Rearm

LEMMA LongPressGood ==
  ASSUME NEW s, SwitchGood(s), s.live
  PROVE  SwitchGood(S!LongPress(s)) /\ S!LongPress(s).live
<1> DEFINE b == s.spared \/ s.armed
<1>1. b \in BOOLEAN /\ (s.cfg.autoOff /\ S!Out(s) => b)
  BY DEF SwitchGood, Linked, Guarded, S!Switches
<1>2. S!LongPress(s) = s \/ S!LongPress(s) = [s EXCEPT !.armed = FALSE, !.spared = b]
  BY DEF S!LongPress
<1> HIDE DEF b
<1> QED BY <1>1, <1>2, TimerHistoryGood

LEMMA InputChangeGood ==
  ASSUME NEW s, SwitchGood(s), s.live, NEW on \in BOOLEAN
  PROVE  SwitchGood(S!InputChange(s, on)) /\ S!InputChange(s, on).live
<1>1. SwitchGood(S!Rearm(s)) /\ S!Rearm(s).live
  BY RearmGood
<1>2. /\ SwitchGood(S!SetOutputState(s, TRUE))
      /\ S!SetOutputState(s, TRUE).live
  BY SwitchedGood
<1> QED BY <1>1, <1>2, ToggleGood, SwitchedGood DEF S!InputChange

LEMMA InputEventsGood ==
  ASSUME NEW s, SwitchGood(s), NEW events, NEW on \in BOOLEAN
  PROVE  /\ SwitchGood(S!InputEvents(s, events, on))
         /\ S!InputEvents(s, events, on).live = s.live
<1>1. CASE ~s.live
  BY <1>1 DEF S!InputEvents
<1>2. CASE s.live
  <2>1. s.live = TRUE
    BY <1>2 DEF SwitchGood, S!Switches
  <2>2. \A r : SwitchGood(r) /\ r.live => r.live = TRUE
    BY DEF SwitchGood, S!Switches
  <2> QED BY <1>2, <2>1, <2>2, InputChangeGood, LongPressGood
          DEF S!InputEvents
<1> QED BY <1>1, <1>2

LEMMA AutoOffGood ==
  ASSUME NEW s, SwitchGood(s), s.live, NEW input
  PROVE  SwitchGood(S!AutoOff(s, input)) /\ S!AutoOff(s, input).live
<1> DEFINE t == [s EXCEPT !.armed = FALSE]
<1>1. /\ t \in S!Switches /\ t.live /\ t.armed = FALSE /\ t.cfg = s.cfg
      /\ t.svc = s.svc /\ t.gpio = s.gpio /\ t.inv = s.inv
      /\ t.state = s.state /\ t.told = s.told /\ t.dirty = s.dirty
      /\ t.saved = s.saved /\ t.set = s.set
  BY DEF SwitchGood, S!Switches
<1>2. S!Rearm(t) = S!Rearm(s)
  BY DEF S!Rearm, SwitchGood, S!Switches
<1> HIDE DEF t
<1>3. Kept(t) /\ S!Out(t) = S!Out(s) /\ S!Shown(t) = S!Shown(s)
  BY <1>1 DEF SwitchGood, Kept, S!Out, S!Shown, S!Inverted
<1>4. CASE ~s.cfg.autoOff
  <2>1. SwitchGood(t)
    BY <1>1, <1>3, <1>4 DEF SwitchGood, Linked, Guarded
  <2> QED BY <1>1, <1>4, <2>1 DEF S!AutoOff, t
<1>5. CASE s.cfg.autoOff /\ S!InputHolds(s, input)
  BY <1>2, <1>5, RearmGood DEF S!AutoOff, t
<1>6. CASE s.cfg.autoOff /\ ~S!InputHolds(s, input)
  <2>1. S!Inverted(t) = S!Inverted(s)
    BY <1>1 DEF S!Inverted
  <2>2. S!Out(t) # FALSE \/ t.told = (FALSE # S!Inverted(t))
    BY <1>1, <1>3, <2>1 DEF SwitchGood, Linked, S!Shown, S!Out
  <2>3. /\ SwitchGood(S!SetOutputState(t, FALSE))
        /\ S!SetOutputState(t, FALSE).live
    BY <1>1, <1>3, <2>2, SetOutputStateGood
  <2> QED BY <1>6, <2>3 DEF S!AutoOff, t
<1> QED BY <1>4, <1>5, <1>6

LEMMA SaveStateGood ==
  ASSUME NEW s, SwitchGood(s)
  PROVE  /\ SwitchGood(S!SaveState(s)) /\ ~S!SaveState(s).dirty
         /\ S!SaveState(s).live = s.live
<1> DEFINE t == [s EXCEPT !.saved = s.state, !.dirty = FALSE]
<1>1. /\ t \in S!Switches /\ t.live = s.live /\ t.cfg = s.cfg
      /\ t.svc = s.svc /\ t.gpio = s.gpio /\ t.inv = s.inv
      /\ t.state = s.state /\ t.told = s.told /\ t.dirty = FALSE
      /\ t.saved = s.state /\ t.armed = s.armed /\ t.set = s.set
      /\ t.spared = s.spared
  BY DEF SwitchGood, S!Switches
<1> HIDE DEF t
<1>2. SwitchGood(t)
  BY <1>1 DEF SwitchGood, Linked, Guarded, Kept, S!Shown, S!Out, S!Inverted
<1> QED BY <1>1, <1>2 DEF S!SaveState, t

\* Home is told whatever the value is now.
LEMMA NotifiedGood ==
  ASSUME NEW s \in S!Switches, s.live, Kept(s), Guarded(s),
         s.set => s.state = S!Out(s)
  PROVE  SwitchGood(S!Notify(s)) /\ S!Notify(s).live
<1> DEFINE t == S!Notify(s)
<1>1. /\ t \in S!Switches /\ t.told = S!Shown(t)
      /\ t = [s EXCEPT !.told = S!Shown(s)]
  BY NotifyGood
<1> HIDE DEF t
<1>2. /\ t.live /\ t.armed = s.armed /\ t.gpio = s.gpio /\ t.inv = s.inv
      /\ t.state = s.state /\ t.set = s.set /\ t.dirty = s.dirty
      /\ t.saved = s.saved /\ t.spared = s.spared /\ t.cfg = s.cfg
  BY <1>1 DEF S!Switches
<1>3. SwitchGood(t)
  BY <1>1, <1>2 DEF SwitchGood, Linked, Guarded, Kept, S!Out
<1> QED BY <1>2, <1>3 DEF t

LEMMA SetConfigGood ==
  ASSUME NEW s, SwitchGood(s), s.live, NEW new \in S!SwitchConfigs
  PROVE  SwitchGood(S!SetConfig(s, new)) /\ S!SetConfig(s, new).live
<1> DEFINE b == new.autoOff /\
                (s.spared \/ (~s.cfg.autoOff /\ S!Out(s) /\ ~s.armed))
           t == [s EXCEPT !.cfg = new, !.saved = s.state, !.spared = b]
<1>0. /\ b \in BOOLEAN
      /\ S!SetConfig(s, new) = IF s.cfg.hkInv # new.hkInv THEN S!Notify(t)
                                ELSE t
  BY DEF S!SetConfig, S!SwitchConfigs
<1>b. new.autoOff /\ S!Out(s) => s.armed \/ b
  BY DEF SwitchGood, Linked, Guarded
<1> HIDE DEF b
<1>1. /\ t \in S!Switches /\ t.live /\ t.cfg = new /\ t.svc = s.svc
      /\ t.gpio = s.gpio /\ t.inv = s.inv /\ t.state = s.state
      /\ t.told = s.told /\ t.saved = s.state /\ t.armed = s.armed
      /\ t.set = s.set /\ t.spared = b
  BY <1>0 DEF SwitchGood, S!Switches
<1>2. /\ Kept(t) /\ (t.set => t.state = S!Out(t))
      /\ Guarded(t)
  <2> HIDE DEF t
  <2> QED BY <1>1, <1>b DEF Kept, SwitchGood, Linked, Guarded, S!Out
<1> HIDE DEF t
<1>3. CASE s.cfg.hkInv # new.hkInv
  BY <1>0, <1>1, <1>2, <1>3, NotifiedGood
<1>4. CASE s.cfg.hkInv = new.hkInv
  <2>1. S!Shown(t) = S!Shown(s)
    BY <1>1, <1>4 DEF S!Shown, S!Out, S!Inverted
  <2>2. SwitchGood(t)
    BY <1>1, <1>2, <2>1 DEF SwitchGood, Linked
  <2> QED BY <1>0, <1>1, <1>4, <2>2
<1> QED BY <1>3, <1>4

\* A switch that is saved by the way.
LEMMA SavedGood ==
  ASSUME NEW s, SwitchGood(s), s.live
  PROVE  /\ SwitchGood([s EXCEPT !.saved = s.state])
         /\ [s EXCEPT !.saved = s.state].live
<1> DEFINE t == [s EXCEPT !.saved = s.state]
<1>1. /\ t \in S!Switches /\ t.live /\ t.cfg = s.cfg /\ t.svc = s.svc
      /\ t.gpio = s.gpio /\ t.inv = s.inv /\ t.state = s.state
      /\ t.told = s.told /\ t.saved = s.state /\ t.armed = s.armed
      /\ t.set = s.set /\ t.spared = s.spared
  BY DEF SwitchGood, S!Switches
<1> HIDE DEF t
<1>2. SwitchGood(t)
  BY <1>1 DEF SwitchGood, Linked, Guarded, Kept, S!Shown, S!Out, S!Inverted
<1> QED BY <1>1, <1>2 DEF t

LEMMA DestroyGood ==
  ASSUME NEW s, SwitchGood(s)
  PROVE  SwitchGood(S!Destroy(s)) /\ ~S!Destroy(s).live
<1> DEFINE u == S!SaveState(s)
           t == [u EXCEPT !.live = FALSE, !.armed = FALSE, !.told = FALSE,
                          !.set = FALSE, !.spared = FALSE]
<1>1. SwitchGood(u) /\ ~u.dirty
  BY SaveStateGood
<1> HIDE DEF u
<1>2. /\ t \in S!Switches /\ ~t.live /\ ~t.armed /\ ~t.dirty
      /\ t.saved = u.saved /\ t.state = u.state
  BY <1>1 DEF SwitchGood, S!Switches
<1> HIDE DEF t
<1>3. SwitchGood(t)
  BY <1>1, <1>2 DEF SwitchGood, Kept
<1> QED BY <1>2, <1>3 DEF S!Destroy, t, u

LEMMA ResetGood ==
  ASSUME NEW s, SwitchGood(s)
  PROVE  SwitchGood(S!Reset(s)) /\ ~S!Reset(s).live
<1> DEFINE e == [s EXCEPT !.live = FALSE, !.gpio = FALSE, !.inv = FALSE,
                          !.led = FALSE, !.state = s.saved]
           t == [e EXCEPT !.dirty = FALSE, !.armed = FALSE, !.told = FALSE,
                          !.set = FALSE, !.spared = FALSE]
<1>1. e \in S!Switches /\ ~e.live /\ e.saved = e.state
  BY DEF SwitchGood, S!Switches
<1>2. S!Reset(s) = t
  BY DEF S!Reset, SwitchGood, S!Switches
<1> HIDE DEF e
<1>3. t \in S!Switches /\ ~t.live /\ t.saved = t.state /\ ~t.dirty /\ ~t.armed
  BY <1>1 DEF S!Switches
<1> QED BY <1>2, <1>3 DEF SwitchGood, Kept

\* A new object, which takes over state and output of the one before.
LEMMA CreateGood ==
  ASSUME NEW s, SwitchGood(s), ~s.live,
         NEW first \in BOOLEAN, NEW input \in BOOLEAN
  PROVE  SwitchGood(S!Create(s, first, input))
         /\ S!Create(s, first, input).live
<1> DEFINE e == [s EXCEPT !.live = TRUE, !.svc = s.cfg.svc,
                          !.inv = s.cfg.outInv]
           t == [e EXCEPT !.dirty = FALSE, !.armed = FALSE, !.set = FALSE]
           f == S!FirstState(t, first, input)
<1>1. /\ e \in S!Switches /\ e.live /\ e.saved = s.saved
      /\ e.state = s.state
  BY DEF SwitchGood, S!Switches, S!SwitchConfigs
<1>2. S!Create(s, first, input) = S!Notify(f)
  <2>1. t = [s EXCEPT !.live = TRUE, !.svc = s.cfg.svc, !.inv = s.cfg.outInv,
                      !.dirty = FALSE, !.armed = FALSE, !.set = FALSE]
    BY DEF SwitchGood, S!Switches
  <2> HIDE DEF t
  <2> QED BY <2>1 DEF S!Create
<1> HIDE DEF e
<1>3. t \in S!Switches /\ t.live /\ t.saved = s.saved /\ t.state = s.state
      /\ ~t.set
  BY <1>1 DEF S!Switches
<1> HIDE DEF t
<1>4. Kept(t)
  BY <1>3 DEF Kept, SwitchGood
<1>5. /\ f \in S!Switches /\ f.live /\ Kept(f)
      /\ f.set => f.state = S!Out(f)
      /\ Guarded(f)
  <2> DEFINE b == t.cfg.autoOff /\ S!Out(t)
             left == [t EXCEPT !.spared = b]
  <2>1. f \in {S!SetOutputState(t, on) : on \in BOOLEAN} \cup {left}
    BY <1>3 DEF S!FirstState, S!Switches, S!SwitchConfigs, S!InitialStates
  <2>2. CASE f = left
    <3>1. b \in BOOLEAN
      BY <1>3 DEF S!Switches, S!SwitchConfigs
    <3>2. b = (t.cfg.autoOff /\ S!Out(t))
      OBVIOUS
    <3> HIDE DEF b
    <3>3. /\ left \in S!Switches /\ left.live = t.live /\ left.set = t.set
          /\ left.gpio = t.gpio /\ left.inv = t.inv /\ left.cfg = t.cfg
          /\ left.dirty = t.dirty /\ left.saved = t.saved
          /\ left.state = t.state /\ left.spared = b
      BY <1>3, <3>1 DEF S!Switches
    <3> HIDE DEF left
    <3> QED BY <1>3, <1>4, <2>2, <3>2, <3>3 DEF Kept, Guarded, S!Out
  <2>3. ASSUME NEW on \in BOOLEAN, f = S!SetOutputState(t, on)
        PROVE  /\ f \in S!Switches /\ f.live /\ Kept(f)
               /\ f.set => f.state = S!Out(f)
               /\ Guarded(f)
    BY <1>3, <1>4, <2>3, SetOutputStateGood
  <2> QED BY <2>1, <2>2, <2>3
<1> HIDE DEF f
<1> QED BY <1>2, <1>5, NotifiedGood

-----------------------------------------------------------------------------
LEMMA StateIsBoolean ==
  ASSUME NEW p \in P!Pins, NEW l \in BOOLEAN
  PROVE  P!State(p, l) \in BOOLEAN
BY DEF P!State

\* Reads change the last state only.
LEMMA ReadGood ==
  ASSUME NEW p, PinGood(p), NEW l \in BOOLEAN
  PROVE  /\ PinGood(P!GetState(p, l))
         /\ P!GetState(p, l) = [p EXCEPT !.last = P!State(p, l)]
         /\ P!GetState(p, l).heard = p.heard
         /\ P!GetState(p, l).last = P!State(p, l)
         /\ P!GetState(p, l).fsm = p.fsm /\ P!GetState(p, l).cnt = p.cnt
         /\ P!GetState(p, l).armed = p.armed
         /\ P!GetState(p, l).fresh = p.fresh
<1> DEFINE t == P!GetState(p, l)
<1>1. P!State(p, l) \in BOOLEAN
  BY StateIsBoolean DEF PinGood
<1>2. t = [p EXCEPT !.last = P!State(p, l)]
  BY DEF P!GetState
<1> HIDE DEF t
<1>3. /\ t \in P!Pins /\ t.last = P!State(p, l) /\ t.heard = p.heard
      /\ t.phantom = p.phantom /\ t.fsm = p.fsm /\ t.armed = p.armed
      /\ t.cnt = p.cnt /\ t.fresh = p.fresh
  BY <1>1, <1>2 DEF PinGood, P!Pins
<1> QED BY <1>2, <1>3 DEF t, PinGood

LEMMA NotedGood ==
  ASSUME NEW p, PinGood(p)
  PROVE  PinGood(P!Noted(p)) /\ P!Noted(p).heard = p.last
<1> DEFINE t == P!Noted(p)
<1>1. /\ t \in P!Pins /\ t.heard = p.last
      /\ t.phantom = p.phantom /\ t.fsm = p.fsm /\ t.armed = p.armed
      /\ t.cnt = p.cnt /\ t.fresh = p.fresh
  BY DEF PinGood, P!Pins, P!Noted
<1> HIDE DEF t
<1> QED BY <1>1 DEF t, PinGood

LEMMA InvertGood ==
  ASSUME NEW p, PinGood(p), NEW inv \in BOOLEAN, NEW l \in BOOLEAN
  PROVE  /\ PinGood(P!SetInvert(p, inv, l))
         /\ P!SetInvert(p, inv, l).last = (l # inv)
<1> DEFINE t == [p EXCEPT !.inv = inv]
<1>1. /\ t \in P!Pins /\ t.inv = inv
      /\ t.phantom = p.phantom /\ t.fsm = p.fsm /\ t.armed = p.armed
      /\ t.cnt = p.cnt /\ t.fresh = p.fresh
  BY DEF PinGood, P!Pins
<1> HIDE DEF t
<1>2. PinGood(t) /\ P!State(t, l) = (l # inv)
  BY <1>1 DEF PinGood, P!State
<1> QED BY <1>2, ReadGood DEF P!SetInvert, t

\* A report without a click, and a report of a click that follows a press.
LEMMA ReportGood ==
  ASSUME NEW p \in P!Pins, ~p.phantom, NEW events, NEW clicked \in BOOLEAN,
         clicked = (events \cap P!Clicks # {}), clicked => p.fresh
  PROVE  /\ P!Report(p, events) \in P!Pins
         /\ ~P!Report(p, events).phantom
         /\ P!Report(p, events).heard =
              IF "Change" \in events THEN p.last ELSE p.heard
         /\ P!Report(p, events).fresh =
              (~clicked /\ (p.fresh \/ ("Change" \in events /\ p.last)))
         /\ P!Report(p, events).last = p.last
         /\ P!Report(p, events).fsm = p.fsm
         /\ P!Report(p, events).cnt = p.cnt
         /\ P!Report(p, events).armed = p.armed
<1> DEFINE h == IF "Change" \in events THEN p.last ELSE p.heard
           ph == p.phantom \/ (clicked /\ ~p.fresh)
           fr == ~clicked /\ (p.fresh \/ ("Change" \in events /\ p.last))
           t == P!Report(p, events)
<1>1. h \in BOOLEAN /\ ph = FALSE /\ fr \in BOOLEAN
  BY DEF P!Pins
<1>2. t = [p EXCEPT !.heard = h, !.phantom = ph, !.fresh = fr]
  BY DEF P!Report, P!Pins
<1> HIDE DEF h, ph, fr, t
<1>3. /\ t \in P!Pins /\ t.phantom = FALSE /\ t.heard = h /\ t.fresh = fr
      /\ t.last = p.last /\ t.fsm = p.fsm /\ t.cnt = p.cnt
      /\ t.armed = p.armed
  BY <1>1, <1>2 DEF P!Pins
<1> QED BY <1>3 DEF h, fr, t

\* The handlers hear the state that the edge led to.
LEMMA EdgeGood ==
  ASSUME NEW p, PinGood(p), NEW l \in BOOLEAN
  PROVE  /\ PinGood(P!HandleEdge(p, l))
         /\ P!HandleEdge(p, l).heard = P!State(p, l)
<1> DEFINE q == P!GetState(p, l)
           on == P!State(p, l)
           events == P!EdgeEvents(q, on)
           r == P!Report(q, events)
           t == P!EdgeStep(r, on)
<1>1. PinGood(q) /\ q.last = on /\ on \in BOOLEAN
  BY ReadGood, StateIsBoolean DEF PinGood
<1>2. P!HandleEdge(p, l) = t
  BY <1>1 DEF P!HandleEdge
<1> HIDE DEF q, on
<1> DEFINE clicked == /\ ~on
                      /\ \/ q.fsm = "WaitOffDouble"
                         \/ q.fsm = "WaitOffLong" /\ q.cnt = 1
<1>3. /\ clicked = (events \cap P!Clicks # {}) /\ "Change" \in events
      /\ clicked \in BOOLEAN /\ clicked => q.fresh
  <2>1. CASE clicked
    <3>1. "Double" \in events \/ "Single" \in events
      BY <2>1 DEF P!EdgeEvents
    <3>2. q.fresh
      BY <1>1, <2>1 DEF PinGood, P!Pins
    <3> QED BY <2>1, <3>1, <3>2 DEF P!EdgeEvents, P!Clicks
  <2>2. CASE ~clicked
    <3>1. events = {"Change"}
      BY <2>2 DEF P!EdgeEvents
    <3> QED BY <2>2, <3>1 DEF P!Clicks
  <2> QED BY <2>1, <2>2
<1> HIDE DEF clicked, events
<1>4. /\ r \in P!Pins /\ ~r.phantom /\ r.heard = on
      /\ r.fresh = (~clicked /\ (q.fresh \/ on))
      /\ r.fsm = q.fsm /\ r.cnt = q.cnt /\ r.armed = q.armed
  BY <1>1, <1>3, ReportGood DEF PinGood
<1> HIDE DEF r
<1>5. CASE q.fsm \in {"Idle", "WaitOnDouble"} /\ on
  <2> DEFINE fsm == IF q.fsm = "Idle" THEN "WaitOffSingle"
                    ELSE "WaitOffDouble"
  <2>1. t = [r EXCEPT !.fsm = fsm, !.cnt = 0, !.armed = TRUE]
    BY <1>4, <1>5 DEF P!EdgeStep, P!Pressed
  <2>2. fsm \in {"WaitOffSingle", "WaitOffDouble"}
    OBVIOUS
  <2> HIDE DEF t, fsm
  <2>3. r.fresh = TRUE
    BY <1>4, <1>5 DEF clicked
  <2>4. t \in P!Pins
    <3>1. fsm \in P!States
      BY <2>2 DEF P!States
    <3>2. r \in P!Pins
      BY <1>4
    <3> DEFINE e == [r EXCEPT !.cnt = 0, !.armed = TRUE]
    <3>3. e \in P!Pins
      <4>1. [r EXCEPT !.cnt = 0] \in P!Pins
        BY <3>2, 0 \in 0 .. 2 DEF P!Pins
      <4>2. e = [[r EXCEPT !.cnt = 0] EXCEPT !.armed = TRUE]
        BY <3>2 DEF P!Pins
      <4> QED BY <4>1, <4>2 DEF P!Pins
    <3>4. t = [e EXCEPT !.fsm = fsm]
      BY <2>1, <3>2 DEF P!Pins
    <3> HIDE DEF e
    <3> QED BY <3>1, <3>3, <3>4 DEF P!Pins
  <2>5. /\ t.phantom = r.phantom /\ t.heard = r.heard /\ t.fresh = r.fresh
        /\ t.fsm = fsm /\ t.cnt = 0 /\ t.armed
    BY <1>4, <2>1, <2>2 DEF P!Pins
  <2> QED BY <1>2, <1>4, <2>2, <2>3, <2>4, <2>5 DEF PinGood, on
<1>6. CASE q.fsm = "WaitOffSingle" /\ ~on
  <2>1. t = [r EXCEPT !.fsm = "WaitOnDouble"]
    BY <1>4, <1>6 DEF P!EdgeStep
  <2>2. q.armed /\ q.cnt = 0 /\ q.fresh
    BY <1>1, <1>6 DEF PinGood
  <2> HIDE DEF t
  <2>3. r.fresh = TRUE
    BY <1>4, <1>6, <2>2 DEF clicked
  <2>4. t \in P!Pins
    BY <1>4, <2>1 DEF P!Pins, P!States
  <2>5. /\ t.phantom = r.phantom /\ t.heard = r.heard /\ t.fresh = r.fresh
        /\ t.fsm = "WaitOnDouble" /\ t.cnt = r.cnt /\ t.armed = r.armed
    BY <1>4, <2>1 DEF P!Pins
  <2> QED BY <1>2, <1>4, <2>2, <2>3, <2>4, <2>5 DEF PinGood, on
<1>7. CASE q.fsm \in {"WaitOffDouble", "WaitOffLong"} /\ ~on
  <2>1. t = [r EXCEPT !.fsm = "Idle", !.armed = FALSE]
    BY <1>4, <1>7 DEF P!EdgeStep, P!Released
  <2> HIDE DEF t
  <2>2. /\ t \in P!Pins /\ ~t.phantom /\ t.heard = on
        /\ t.fsm = "Idle" /\ ~t.armed
    BY <1>4, <2>1 DEF P!Pins, P!States
  <2> QED BY <1>2, <2>2 DEF PinGood, on
<1>8. CASE /\ ~(q.fsm \in {"Idle", "WaitOnDouble"} /\ on)
           /\ ~(q.fsm = "WaitOffSingle" /\ ~on)
           /\ ~(q.fsm \in {"WaitOffDouble", "WaitOffLong"} /\ ~on)
  <2>1. t = r
    BY <1>4, <1>8 DEF P!EdgeStep
  <2>2. ~clicked
    BY <1>8 DEF clicked
  <2>3. r.fresh = (q.fresh \/ on)
    BY <1>4, <2>2
  <2>4. PinGood(r)
    BY <1>1, <1>4, <2>3 DEF PinGood
  <2> QED BY <1>2, <1>4, <2>1, <2>4 DEF on
<1> QED BY <1>5, <1>6, <1>7, <1>8

\* The timer tells of clicks only.
LEMMA TimerGood ==
  ASSUME NEW p, PinGood(p), p.armed, NEW l \in BOOLEAN
  PROVE  /\ PinGood(P!HandleTimer(p, l))
         /\ P!HandleTimer(p, l).heard = p.heard
         /\ P!HandleTimer(p, l).cnt = p.cnt + 1
         /\ "Change" \notin P!TimerEvents(p)
<1> DEFINE q == P!GetState(p, l)
           events == P!TimerEvents(p)
           r == P!Report(q, events)
           u == P!TimerStep(r)
           t == [u EXCEPT !.cnt = p.cnt + 1]
<1>1. /\ PinGood(q) /\ q.heard = p.heard /\ q.fsm = p.fsm /\ q.cnt = p.cnt
      /\ q.armed = p.armed /\ q.fresh = p.fresh
  BY ReadGood
<1>2. P!HandleTimer(p, l) = t
  BY DEF P!HandleTimer
<1> HIDE DEF q
<1>3. /\ p.fsm \in P!States /\ p.fsm # "Idle" /\ p.fresh /\ p.cnt \in 0 .. 1
      /\ IF p.fsm = "WaitOffLong" THEN p.cnt = 1 ELSE p.cnt = 0
  BY DEF PinGood, P!Pins, P!States
<1> DEFINE clicked == p.fsm \in {"WaitOnDouble", "WaitOffLong"}
<1>4. /\ clicked = (events \cap P!Clicks # {}) /\ "Change" \notin events
      /\ clicked \in BOOLEAN
  <2>1. CASE clicked
    <3>1. events \in {{"Single"}, {"Long"}}
      BY <1>3, <2>1 DEF P!TimerEvents
    <3> QED BY <2>1, <3>1 DEF P!Clicks
  <2>2. CASE ~clicked
    <3>1. events = {}
      BY <2>2 DEF P!TimerEvents
    <3> QED BY <2>2, <3>1
  <2> QED BY <2>1, <2>2
<1> HIDE DEF clicked, events
<1>5. /\ r \in P!Pins /\ ~r.phantom /\ r.heard = p.heard
      /\ r.fresh = ~clicked
      /\ r.fsm = p.fsm /\ r.cnt = p.cnt /\ r.armed
  BY <1>1, <1>3, <1>4, ReportGood DEF PinGood
<1> HIDE DEF r
<1> DEFINE fsm == IF p.fsm = "WaitOnDouble" THEN "Idle" ELSE "WaitOffLong"
           armed == ~clicked
<1>6. /\ u \in P!Pins /\ ~u.phantom /\ u.heard = p.heard
      /\ u.fresh = ~clicked /\ u.fsm = fsm /\ u.armed = armed
  <2>1. CASE p.fsm \in {"WaitOffSingle", "WaitOffDouble"}
    <3>1. u = [r EXCEPT !.fsm = "WaitOffLong"]
      BY <1>5, <2>1 DEF P!TimerStep
    <3> HIDE DEF u
    <3> QED BY <1>5, <2>1, <3>1 DEF P!Pins, P!States, clicked
  <2>2. CASE p.fsm = "WaitOnDouble"
    <3>1. u = [r EXCEPT !.fsm = "Idle", !.armed = FALSE]
      BY <1>5, <2>2 DEF P!TimerStep
    <3> HIDE DEF u
    <3> QED BY <1>5, <2>2, <3>1 DEF P!Pins, P!States, clicked
  <2>3. CASE p.fsm = "WaitOffLong"
    <3>1. u = [r EXCEPT !.armed = FALSE]
      BY <1>5, <2>3 DEF P!TimerStep
    <3> HIDE DEF u
    <3> QED BY <1>5, <2>3, <3>1 DEF P!Pins, P!States, clicked
  <2> QED BY <1>3, <2>1, <2>2, <2>3 DEF P!States
<1> HIDE DEF u, fsm, armed
<1>7. /\ t \in P!Pins /\ ~t.phantom /\ t.heard = p.heard
      /\ t.fresh = ~clicked /\ t.fsm = fsm /\ t.armed = armed
      /\ t.cnt = p.cnt + 1
  BY <1>3, <1>6 DEF P!Pins
<1> HIDE DEF t
<1>8. PinGood(t)
  <2>1. CASE p.fsm = "WaitOnDouble"
    <3>1. t.fsm = "Idle"
      BY <1>7, <2>1 DEF fsm
    <3>2. t.armed = FALSE
      BY <1>7, <2>1 DEF armed, clicked
    <3> QED BY <1>7, <3>1, <3>2 DEF PinGood
  <2>2. CASE p.fsm = "WaitOffLong"
    <3>1. t.fsm = "WaitOffLong" /\ t.cnt = 2
      BY <1>3, <1>7, <2>2 DEF fsm
    <3>2. t.armed = FALSE
      BY <1>7, <2>2 DEF armed, clicked
    <3> QED BY <1>7, <3>1, <3>2 DEF PinGood
  <2>3. CASE p.fsm \in {"WaitOffSingle", "WaitOffDouble"}
    <3>1. t.fsm = "WaitOffLong" /\ t.cnt = 1
      BY <1>3, <1>7, <2>3 DEF fsm
    <3>2. t.armed = TRUE /\ t.fresh = TRUE
      BY <1>7, <2>3 DEF armed, clicked
    <3> QED BY <1>7, <3>1, <3>2 DEF PinGood
  <2> QED BY <1>3, <2>1, <2>2, <2>3 DEF P!States
<1> QED BY <1>2, <1>4, <1>7, <1>8 DEF events

-----------------------------------------------------------------------------
\* Whatever Home was told before, if that was the state of the sensor or the
\* state changes, it knows the new one.
LEMMA SetInternalStateGood ==
  ASSUME NEW d \in D!Detached, NEW on \in BOOLEAN
  PROVE  /\ D!SetInternalState(d, on) \in D!Detached
         /\ D!SetInternalState(d, on).state = on
         /\ D!SetInternalState(d, on).cfg = d.cfg
         /\ D!SetInternalState(d, on).live = d.live
         /\ D!SetInternalState(d, on).kind = d.kind
         /\ on /\ d.cfg.sensorMode = "Pulse" =>
              D!SetInternalState(d, on).armed
         /\ d.told = D!Shown(d) \/ on # d.state =>
              D!SetInternalState(d, on).told =
                D!Shown(D!SetInternalState(d, on))
<1> DEFINE a == d.armed \/ (on /\ d.cfg.sensorMode = "Pulse")
           t == [d EXCEPT !.state = on, !.armed = a]
           u == [t EXCEPT !.told = D!Shown(t)]
<1>1. a \in BOOLEAN
  BY DEF D!Detached
<1>2. D!SetInternalState(d, on) = IF on = d.state THEN t ELSE u
  <2>1. t = [d EXCEPT !.state = on,
                      !.armed = @ \/ (on /\ d.cfg.sensorMode = "Pulse")]
    BY DEF D!Detached
  <2> HIDE DEF t
  <2> QED BY <2>1 DEF D!SetInternalState
<1> HIDE DEF a
<1>3. /\ t \in D!Detached /\ t.state = on /\ t.armed = a /\ t.cfg = d.cfg
      /\ t.live = d.live /\ t.kind = d.kind /\ t.told = d.told
  BY <1>1 DEF D!Detached
<1> HIDE DEF t
<1>4. D!Shown(t) \in BOOLEAN
  BY <1>3 DEF D!Shown, D!Detached
<1>5. /\ u \in D!Detached /\ u.state = on /\ u.armed = a /\ u.cfg = d.cfg
      /\ u.live = d.live /\ u.kind = d.kind /\ u.told = D!Shown(t)
  BY <1>3, <1>4 DEF D!Detached
<1> HIDE DEF u
<1>6. D!Shown(u) = D!Shown(t)
  BY <1>3, <1>5 DEF D!Shown
<1>7. on /\ d.cfg.sensorMode = "Pulse" => a
  BY DEF a
<1>8. CASE on = d.state
  BY <1>2, <1>3, <1>7, <1>8 DEF D!Shown
<1>9. CASE on # d.state
  BY <1>2, <1>5, <1>6, <1>7, <1>9
<1> QED BY <1>8, <1>9

\* A sensor has heard of every change, and nobody hears of anything else.
LEMMA DetEventsGood ==
  ASSUME NEW heard, NEW d, DetGood(d, heard), NEW events, NEW on \in BOOLEAN
  PROVE  /\ DetGood(D!InputEvents(d, events, on),
                    IF "Change" \in events THEN on ELSE heard)
         /\ D!InputEvents(d, events, on).live = d.live
<1>1. CASE D!IsSensor(d) /\ "Change" \in events
  <2> DEFINE t == D!SetInternalState(d, on)
  <2>1. D!InputEvents(d, events, on) = D!SensorChange(d, on)
    <3>1. ~D!IsStateless(d)
      BY <1>1 DEF D!IsSensor, D!IsStateless, D!SensorTypes, D!StatelessTypes
    <3> QED BY <1>1, <3>1 DEF D!InputEvents
  <2>2. CASE on \/ d.cfg.sensorMode = "Level"
    <3>1. /\ t \in D!Detached /\ t.state = on /\ t.cfg = d.cfg
          /\ t.live = d.live /\ t.kind = d.kind /\ t.told = D!Shown(t)
          /\ on /\ d.cfg.sensorMode = "Pulse" => t.armed
      BY <1>1, SetInternalStateGood DEF DetGood
    <3>2. D!SensorChange(d, on) = t
      BY <2>2 DEF D!SensorChange
    <3> HIDE DEF t
    <3> QED BY <1>1, <2>1, <3>1, <3>2 DEF DetGood
  <2>3. CASE ~(on \/ d.cfg.sensorMode = "Level")
    <3>1. D!SensorChange(d, on) = d
      BY <2>3 DEF D!SensorChange
    <3> QED BY <1>1, <2>1, <2>3, <3>1 DEF DetGood
  <2> QED BY <2>2, <2>3
<1>2. CASE /\ D!IsStateless(d)
           /\ D!PressOf(d.cfg.switchMode, events, on) # {}
  <2> DEFINE e == CHOOSE x \in D!PressOf(d.cfg.switchMode, events, on) : TRUE
             t == [d EXCEPT !.press = e]
  <2>1. e \in D!Presses
    <3>1. D!PressOf(d.cfg.switchMode, events, on) \subseteq D!Presses
      BY DEF D!PressOf, D!Presses
    <3>2. e \in D!PressOf(d.cfg.switchMode, events, on)
      BY <1>2
    <3> QED BY <3>1, <3>2
  <2>2. ~D!IsSensor(d)
    BY <1>2 DEF D!IsSensor, D!IsStateless, D!SensorTypes, D!StatelessTypes
  <2>3. D!InputEvents(d, events, on) = t
    BY <1>2, <2>2 DEF D!InputEvents
  <2> HIDE DEF e
  <2>4. t \in D!Detached /\ t.live = d.live /\ t.kind = d.kind
    BY <2>1 DEF DetGood, D!Detached
  <2> HIDE DEF t
  <2> QED BY <2>2, <2>3, <2>4 DEF DetGood, D!IsSensor
<1>3. CASE /\ ~(D!IsSensor(d) /\ "Change" \in events)
           /\ ~(/\ D!IsStateless(d)
                /\ D!PressOf(d.cfg.switchMode, events, on) # {})
  <2>1. D!InputEvents(d, events, on) = d
    BY <1>3 DEF D!InputEvents
  <2> QED BY <1>3, <2>1 DEF DetGood
<1> QED BY <1>1, <1>2, <1>3

LEMMA SensorTimerGood ==
  ASSUME NEW heard, NEW d, DetGood(d, heard)
  PROVE  DetGood(D!SensorTimer(d), heard) /\ D!SensorTimer(d).live = d.live
<1> DEFINE t == [d EXCEPT !.armed = FALSE]
           u == D!SetInternalState(t, FALSE)
<1>1. /\ t \in D!Detached /\ t.cfg = d.cfg /\ t.live = d.live
      /\ t.kind = d.kind /\ t.state = d.state /\ t.told = d.told
  BY DEF DetGood, D!Detached
<1>2. D!SensorTimer(d) = IF d.cfg.sensorMode = "Pulse" THEN u ELSE t
  BY DEF D!SensorTimer
<1> HIDE DEF t
<1>3. D!IsSensor(d) => t.told = D!Shown(t)
  BY <1>1 DEF DetGood, D!Shown
<1>4. /\ u \in D!Detached /\ u.state = FALSE /\ u.cfg = d.cfg
      /\ u.live = d.live /\ u.kind = d.kind
      /\ D!IsSensor(d) => u.told = D!Shown(u)
  BY <1>1, <1>3, SetInternalStateGood
<1> HIDE DEF u
<1>5. CASE d.cfg.sensorMode = "Pulse"
  BY <1>2, <1>4, <1>5 DEF DetGood, D!IsSensor
<1>6. CASE d.cfg.sensorMode # "Pulse"
  BY <1>1, <1>2, <1>3, <1>6 DEF DetGood, D!IsSensor
<1> QED BY <1>5, <1>6

\* A sensor that goes to level mode, or stays in it, reads its input.
LEMMA DetConfigGood ==
  ASSUME NEW heard, NEW d, DetGood(d, heard), NEW new \in D!InputConfigs,
         NEW input \in BOOLEAN
  PROVE  /\ DetGood(D!SetConfig(d, new, input),
                    IF D!IsSensor(d) /\ new.sensorMode = "Level"
                    THEN input ELSE heard)
         /\ D!SetConfig(d, new, input).live = d.live
<1> DEFINE c == [d.cfg EXCEPT !.type = D!NewType(d, new.type),
                              !.inv = new.inv]
           e == [d EXCEPT !.cfg = c]
<1>1. D!NewType(d, new.type) \in D!InputTypes
  BY DEF D!NewType, DetGood, D!Detached, D!InputConfigs
<1>2. /\ c \in D!InputConfigs /\ c.sensorMode = d.cfg.sensorMode
      /\ c.switchMode = d.cfg.switchMode
  BY <1>1 DEF DetGood, D!Detached, D!InputConfigs
<1>3. D!TypeAndInversion(d, new) = e
  BY DEF D!TypeAndInversion, DetGood, D!Detached, D!InputConfigs
<1> HIDE DEF c
<1>4. /\ e \in D!Detached /\ e.cfg = c /\ e.live = d.live /\ e.kind = d.kind
      /\ e.state = d.state /\ e.told = d.told
  BY <1>2 DEF DetGood, D!Detached
<1> HIDE DEF e
<1>5. /\ D!IsSensor(e) = D!IsSensor(d) /\ D!Shown(e) = D!Shown(d)
  BY <1>4 DEF D!IsSensor, D!Shown
<1>6. D!SetConfig(d, new, input) = D!ServiceConfig(e, new, input)
  BY <1>3 DEF D!SetConfig
<1>7. CASE D!IsSensor(d)
  <2> DEFINE f == [e EXCEPT !.cfg.sensorMode = new.sensorMode]
             on == new.sensorMode = "Level" /\ input
             u == D!SetInternalState(f, on)
  <2>1. on \in BOOLEAN
    OBVIOUS
  <2>2. D!ServiceConfig(e, new, input) = u
    BY <1>5, <1>7 DEF D!ServiceConfig
  <2>3. /\ f \in D!Detached /\ f.cfg.sensorMode = new.sensorMode
        /\ f.live = d.live /\ f.kind = d.kind /\ f.state = d.state
        /\ f.told = d.told
    BY <1>4 DEF D!Detached, D!InputConfigs
  <2> HIDE DEF f, on
  <2>4. f.told = D!Shown(f)
    BY <1>7, <2>3 DEF DetGood, D!Shown
  <2>5. /\ u \in D!Detached /\ u.state = on /\ u.told = D!Shown(u)
        /\ u.cfg = f.cfg /\ u.live = d.live /\ u.kind = d.kind
    BY <2>1, <2>3, <2>4, SetInternalStateGood
  <2> HIDE DEF u
  <2>6. u.cfg.sensorMode = "Level" => u.state = input
    BY <2>3, <2>5 DEF on
  <2>7. u.cfg.sensorMode = "Pulse" => ~u.state
    BY <2>3, <2>5 DEF on
  <2> QED BY <1>6, <1>7, <2>2, <2>3, <2>5, <2>6, <2>7 DEF DetGood
<1>8. CASE ~D!IsSensor(d)
  <2> DEFINE u == D!ServiceConfig(e, new, input)
  <2>1. u \in D!Detached /\ u.live = d.live /\ u.kind = d.kind
    <3>1. CASE D!IsStateless(e)
      <4>1. u = [e EXCEPT !.cfg.switchMode = new.switchMode]
        BY <1>5, <1>8, <3>1 DEF D!ServiceConfig
      <4> HIDE DEF u
      <4> QED BY <1>4, <4>1 DEF D!Detached, D!InputConfigs
    <3>2. CASE ~D!IsStateless(e)
      BY <1>4, <1>5, <1>8, <3>2 DEF D!ServiceConfig
    <3> QED BY <3>1, <3>2
  <2> HIDE DEF u
  <2> QED BY <1>6, <1>8, <2>1 DEF DetGood, D!IsSensor, u
<1> QED BY <1>7, <1>8

LEMMA DetDestroyGood ==
  ASSUME NEW heard, NEW d \in D!Detached
  PROVE  DetGood(D!Destroy(d), heard) /\ ~D!Destroy(d).live
<1> DEFINE e == [d EXCEPT !.live = FALSE, !.kind = d.cfg.type,
                          !.state = FALSE]
           t == [e EXCEPT !.armed = FALSE, !.told = FALSE, !.press = "none"]
<1>1. e \in D!Detached /\ ~e.live
  BY DEF D!Detached, D!InputConfigs
<1>2. D!Destroy(d) = t
  BY DEF D!Destroy, D!Detached
<1> HIDE DEF e
<1>3. t \in D!Detached /\ ~t.live
  BY <1>1 DEF D!Detached
<1> HIDE DEF t
<1> QED BY <1>2, <1>3 DEF DetGood, D!IsSensor

LEMMA DetCreateGood ==
  ASSUME NEW d \in D!Detached, NEW input \in BOOLEAN
  PROVE  DetGood(D!Create(d, input), input)
<1> DEFINE e == [d EXCEPT !.live = TRUE, !.kind = d.cfg.type,
                          !.state = FALSE]
           t == [e EXCEPT !.armed = FALSE, !.press = "none"]
           u == IF D!IsSensor(t) THEN D!SensorInit(t, input) ELSE t
           w == [u EXCEPT !.told = D!Shown(u)]
<1>1. e \in D!Detached /\ e.cfg = d.cfg /\ e.state = FALSE
  BY DEF D!Detached, D!InputConfigs
<1>2. D!Create(d, input) = w
  <2>1. t = [d EXCEPT !.live = TRUE, !.kind = d.cfg.type, !.state = FALSE,
                      !.armed = FALSE, !.press = "none"]
    BY DEF D!Detached
  <2> HIDE DEF t
  <2> QED BY <2>1 DEF D!Create
<1> HIDE DEF e
<1>3. t \in D!Detached /\ t.cfg = d.cfg /\ t.state = FALSE
  BY <1>1 DEF D!Detached
<1> HIDE DEF t
<1>4. /\ u \in D!Detached /\ u.cfg = d.cfg
      /\ D!IsSensor(t) /\ d.cfg.sensorMode = "Level" => u.state = input
      /\ d.cfg.sensorMode # "Level" => u.state = FALSE
      /\ D!IsSensor(u) = D!IsSensor(t)
  <2>1. CASE D!IsSensor(t) /\ d.cfg.sensorMode = "Level"
    <3>1. u = D!SetInternalState(t, input)
      BY <1>3, <2>1 DEF D!SensorInit
    <3> HIDE DEF u
    <3> QED BY <1>3, <2>1, <3>1, SetInternalStateGood DEF D!IsSensor
  <2>2. CASE ~(D!IsSensor(t) /\ d.cfg.sensorMode = "Level")
    <3>1. u = t
      BY <1>3, <2>2 DEF D!SensorInit
    <3> HIDE DEF u
    <3> QED BY <1>3, <2>2, <3>1
  <2> QED BY <2>1, <2>2
<1> HIDE DEF u
<1>5. D!Shown(u) \in BOOLEAN
  BY <1>4 DEF D!Shown, D!Detached
<1>6. /\ w \in D!Detached /\ w.told = D!Shown(u) /\ w.cfg = u.cfg
      /\ w.state = u.state /\ w.kind = u.kind /\ w.live = u.live
  BY <1>4, <1>5 DEF D!Detached
<1> HIDE DEF w
<1>7. D!Shown(w) = D!Shown(u) /\ D!IsSensor(w) = D!IsSensor(u)
  BY <1>6 DEF D!Shown, D!IsSensor
<1> QED BY <1>2, <1>4, <1>6, <1>7 DEF DetGood

-----------------------------------------------------------------------------
LEMMA InitInv == Init => Inv
<1> SUFFICES ASSUME Init PROVE Inv
  OBVIOUS
<1>1. level \in BOOLEAN /\ edge \in BOOLEAN /\ restart \in BOOLEAN
      /\ soft \in BOOLEAN
  BY DEF Init
<1>2. PinGood(pin)
  BY <1>1, 0 \in 0 .. 2 DEF Init, PinGood, P!NewPin, P!Pins, P!States
<1>3. SwitchGood(sw) /\ ~sw.live
  BY ConfigAssumption
     DEF Init, SwitchGood, Kept, S!Switches, S!SwitchConfigs
<1>4. DetGood(det, pin.heard) /\ ~det.live
  BY InputConfigAssumption
     DEF Init, DetGood, D!Detached, D!InputConfigs, D!IsSensor
<1> QED BY <1>1, <1>2, <1>3, <1>4 DEF Inv

LEMMA InputReal == Inv => Input \in BOOLEAN
BY StateIsBoolean DEF Inv, Input, PinGood

\* What happens to the input only.
LEMMA PinOnly ==
  ASSUME Inv, level' \in BOOLEAN, edge' \in BOOLEAN, PinGood(pin'),
         pin'.heard = pin.heard, UNCHANGED <<sw, det, restart, soft>>
  PROVE  Inv'
BY DEF Inv

\* What happens to a switch that stays.
LEMMA SwitchOnly ==
  ASSUME Inv, SwitchGood(sw'), sw'.live, PinGood(pin'),
         pin'.heard = pin.heard, restart' \in BOOLEAN,
         UNCHANGED <<level, edge, det, soft>>
  PROVE  Inv'
BY DEF Inv

LEMMA EdgeStep ==
  ASSUME Inv, HandleEdge
  PROVE  Inv'
<1> DEFINE events == P!EdgeEvents(Read, Input)
<1>1. Input \in BOOLEAN
  BY InputReal
<1>2. "Change" \in events
  BY DEF P!EdgeEvents
<1> HIDE DEF events
<1>3. CASE P!Noise(pin, level)
  BY <1>3, PinOnly DEF HandleEdge, Inv
<1>4. CASE ~P!Noise(pin, level)
  <2>1. /\ pin' = P!HandleEdge(pin, level)
        /\ sw' = S!InputEvents(sw, events, Input)
        /\ det' = D!InputEvents(det, events, Input)
        /\ edge' = FALSE /\ UNCHANGED <<level, restart, soft>>
    BY <1>4 DEF HandleEdge, Deliver, events
  <2>2. PinGood(pin') /\ pin'.heard = Input
    BY <2>1, EdgeGood DEF Inv, Input
  <2>3. /\ SwitchGood(sw') /\ sw'.live = sw.live
       
    <3>1. CASE ~sw.live
      BY <1>1, <2>1, <3>1, InputEventsGood DEF Inv
    <3>2. CASE sw.live
      <4>1. S!InputEvents(sw, events, Input) = S!InputChange(sw, Input)
        BY <1>2, <3>2 DEF S!InputEvents
      <4> QED BY <1>1, <2>1, <3>2, <4>1, InputEventsGood, InputChangeGood
              DEF Inv
    <3> QED BY <3>1, <3>2
  <2>4. DetGood(det', pin'.heard) /\ det'.live = det.live
    BY <1>1, <1>2, <2>1, <2>2, DetEventsGood DEF Inv
  <2> QED BY <2>1, <2>2, <2>3, <2>4 DEF Inv
<1> QED BY <1>3, <1>4

LEMMA PinTimerStep ==
  ASSUME Inv, PinTimer
  PROVE  Inv'
<1> DEFINE events == P!TimerEvents(pin)
<1>1. Input \in BOOLEAN
  BY InputReal
<1>2. /\ pin' = P!HandleTimer(pin, level)
      /\ sw' = S!InputEvents(sw, events, Input)
      /\ det' = D!InputEvents(det, events, Input)
      /\ UNCHANGED <<level, edge, restart, soft>>
  BY DEF PinTimer, Deliver
<1>3. /\ PinGood(pin') /\ pin'.heard = pin.heard /\ pin'.cnt = pin.cnt + 1
      /\ "Change" \notin events
  BY <1>2, TimerGood DEF Inv, PinTimer
<1>4. SwitchGood(sw') /\ sw'.live = sw.live
  BY <1>1, <1>2, InputEventsGood DEF Inv
<1> HIDE DEF events
<1>5. DetGood(det', pin'.heard) /\ det'.live = det.live
  BY <1>1, <1>2, <1>3, DetEventsGood DEF Inv
<1> QED BY <1>2, <1>3, <1>4, <1>5 DEF Inv

LEMMA AutoOffTimerStep ==
  ASSUME Inv, AutoOffTimer
  PROVE  Inv'
<1>1. sw.live
  BY DEF Inv, SwitchGood, AutoOffTimer
<1>2. /\ SwitchGood(sw') /\ sw'.live
  BY <1>1, AutoOffGood DEF Inv, AutoOffTimer
<1>3. PinGood(pin') /\ pin'.heard = pin.heard
  BY ReadGood DEF Inv, AutoOffTimer, Read
<1> QED BY <1>2, <1>3, SwitchOnly DEF AutoOffTimer, Inv

LEMMA SensorTimerStep ==
  ASSUME Inv, SensorTimer
  PROVE  Inv'
<1>1. DetGood(det', pin'.heard) /\ det'.live = det.live
  BY SensorTimerGood DEF Inv, SensorTimer
<1> QED BY <1>1 DEF Inv, SensorTimer

LEMMA StatusStep ==
  ASSUME Inv, Status
  PROVE  Inv'
<1>1. SwitchGood(sw') /\ sw'.live
  BY SaveStateGood DEF Inv, Status
<1>2. PinGood(pin') /\ pin'.heard = pin.heard
  BY ReadGood DEF Inv, Status, Read
<1> QED BY <1>1, <1>2, SwitchOnly DEF Status, Inv

LEMMA HAPWriteStep ==
  ASSUME Inv, NEW value \in BOOLEAN, HAPWrite(value)
  PROVE  Inv'
<1>1. SwitchGood(sw') /\ sw'.live
  BY HAPWriteGood DEF Inv, HAPWrite
<1> QED BY <1>1, SwitchOnly DEF HAPWrite, Inv

LEMMA RPCSetStateStep ==
  ASSUME Inv, RPCSetState
  PROVE  Inv'
<1>1. SwitchGood(sw') /\ sw'.live
  BY SwitchedGood, ToggleGood DEF Inv, RPCSetState
<1> QED BY <1>1, SwitchOnly DEF RPCSetState, Inv

LEMMA InjectInputEventStep ==
  ASSUME Inv, NEW click \in P!Clicks, InjectInputEvent(click)
  PROVE  Inv'
<1>1. "Change" \notin {click}
  BY DEF P!Clicks
<1>2. SwitchGood(sw') /\ sw'.live = sw.live
  BY InputEventsGood DEF Inv, InjectInputEvent, Deliver
<1>3. DetGood(det', pin.heard) /\ det'.live = det.live
  <2> DEFINE events == {click}
  <2>1. "Change" \notin events /\ det' = D!InputEvents(det, events, FALSE)
    BY <1>1 DEF InjectInputEvent, Deliver
  <2> HIDE DEF events
  <2>2. FALSE \in BOOLEAN /\ DetGood(det, pin.heard)
    BY DEF Inv
  <2>3. /\ DetGood(D!InputEvents(det, events, FALSE),
                   IF "Change" \in events THEN FALSE ELSE pin.heard)
        /\ D!InputEvents(det, events, FALSE).live = det.live
    BY <2>2, DetEventsGood
  <2> QED BY <2>1, <2>3
<1> QED BY <1>2, <1>3 DEF Inv, InjectInputEvent

LEMMA ButtonSingleStep ==
  ASSUME Inv, ButtonSingle
  PROVE  Inv'
<1>1. SwitchGood(sw') /\ sw'.live
  BY ToggleGood DEF Inv, ButtonSingle, S!Toggle
<1> QED BY <1>1, SwitchOnly DEF ButtonSingle, Inv

LEMMA SetSwitchConfigStep ==
  ASSUME Inv, NEW new \in Configs, SetSwitchConfig(new)
  PROVE  Inv'
<1>1. SwitchGood(sw') /\ sw'.live
  BY ConfigAssumption, SetConfigGood DEF Inv, SetSwitchConfig
<1>2. restart' \in BOOLEAN
  BY DEF SetSwitchConfig
<1> QED BY <1>1, <1>2, SwitchOnly DEF SetSwitchConfig, Inv

LEMMA SetInputConfigStep ==
  ASSUME Inv, NEW new \in DetachedConfigs, SetInputConfig(new)
  PROVE  Inv'
<1>1. sw.live /\ Input \in BOOLEAN /\ new \in D!InputConfigs
  BY InputConfigAssumption, InputReal DEF Inv, SetInputConfig
<1>2. SwitchGood(sw') /\ sw'.live
  BY <1>1, SavedGood DEF Inv, SetInputConfig
<1> DEFINE reads == D!IsSensor(det) /\ new.sensorMode = "Level"
<1>3. /\ PinGood(pin')
      /\ pin'.heard = IF reads THEN Input ELSE pin.heard
  <2>1. /\ PinGood(Read) /\ Read.last = Input
    BY ReadGood DEF Inv, Read, Input
  <2>2. PinGood(P!Noted(Read)) /\ P!Noted(Read).heard = Input
    BY <2>1, NotedGood
  <2> QED BY <2>2 DEF SetInputConfig, Inv
<1>4. DetGood(det', pin'.heard) /\ det'.live = det.live
  <2> DEFINE heard == IF reads THEN Input ELSE pin.heard
  <2>1. /\ DetGood(D!SetConfig(det, new, Input), heard)
        /\ D!SetConfig(det, new, Input).live = det.live
    BY <1>1, DetConfigGood DEF Inv
  <2>2. pin'.heard = heard /\ det' = D!SetConfig(det, new, Input)
    BY <1>3 DEF SetInputConfig
  <2> HIDE DEF heard
  <2> QED BY <2>1, <2>2
<1>5. restart' \in BOOLEAN
  BY DEF SetInputConfig
<1> QED BY <1>2, <1>3, <1>4, <1>5
        DEF SetInputConfig, Inv

LEMMA StopStep ==
  ASSUME Inv, Stop
  PROVE  Inv'
<1>1. SwitchGood(sw') /\ ~sw'.live
  BY DestroyGood DEF Inv, Stop
<1>2. DetGood(det', pin'.heard) /\ ~det'.live
  BY DetDestroyGood DEF Inv, Stop, DetGood
<1> QED BY <1>1, <1>2 DEF Inv, Stop

LEMMA StartStep ==
  ASSUME Inv, Start
  PROVE  Inv'
<1>1. Inversion \in BOOLEAN /\ sw.cfg.inInv \in BOOLEAN
  BY DEF Inv, Inversion, SwitchGood, S!Switches, S!SwitchConfigs,
         DetGood, D!Detached, D!InputConfigs
<1>2. SwitchGood(sw') /\ sw'.live
  <2> DEFINE input == level # sw.cfg.inInv
  <2>1. input \in BOOLEAN /\ sw' = S!Create(sw, soft, input)
    BY <1>1 DEF Start, Inv
  <2> HIDE DEF input
  <2> QED BY <2>1, CreateGood DEF Start, Inv, SwitchGood
<1>3. PinGood(pin') /\ pin'.heard = (level # Inversion)
  <2> DEFINE p == P!SetInvert(pin, Inversion, level)
  <2>1. PinGood(p) /\ p.last = (level # Inversion)
    BY <1>1, InvertGood DEF Inv
  <2>2. pin' = P!Noted(p)
    BY DEF Start
  <2> HIDE DEF p
  <2>3. PinGood(pin') /\ pin'.heard = p.last
    BY <2>1, <2>2, NotedGood
  <2> QED BY <2>1, <2>3
<1>4. DetGood(det', pin'.heard)
  <2>1. CASE sw.cfg.inMode = "Detached"
    <3> DEFINE input == level # Inversion
    <3>1. input \in BOOLEAN /\ det' = D!Create(det, input)
      BY <1>1, <2>1 DEF Start, CreateHAPInput, Inv
    <3>2. pin'.heard = input
      BY <1>3
    <3> HIDE DEF input
    <3> QED BY <3>1, <3>2, DetCreateGood DEF Inv, DetGood
  <2>2. CASE sw.cfg.inMode # "Detached"
    BY <2>2 DEF Start, CreateHAPInput, Inv, DetGood, D!IsSensor
  <2> QED BY <2>1, <2>2
<1> QED BY <1>2, <1>3, <1>4 DEF Inv, Start

LEMMA BootStep ==
  ASSUME Inv, NEW s \in BOOLEAN, Boot(s)
  PROVE  Inv'
<1>1. SwitchGood(sw') /\ ~sw'.live
  BY ResetGood DEF Inv, Boot
<1>2. DetGood(det', pin'.heard) /\ ~det'.live
  BY DetDestroyGood DEF Inv, Boot, DetGood
<1>3. PinGood(pin')
  BY 0 \in 0 .. 2 DEF Inv, Boot, PinGood, P!NewPin, P!Pins, P!States
<1> QED BY <1>1, <1>2, <1>3 DEF Inv, Boot

LEMMA StepInv == Inv /\ [Next]_vars => Inv'
<1> SUFFICES ASSUME Inv, [Next]_vars PROVE Inv'
  OBVIOUS
<1>1. CASE Device
  BY <1>1, EdgeStep, PinTimerStep, AutoOffTimerStep, SensorTimerStep,
     StatusStep, StopStep, StartStep DEF Device
<1>2. CASE User
  <2>1. CASE PinChange
    <3>1. level' \in BOOLEAN
      BY <2>1 DEF PinChange, Inv
    <3> QED BY <2>1, <3>1, PinOnly DEF PinChange, Inv
  <2> QED BY <1>2, <2>1, HAPWriteStep, RPCSetStateStep, ButtonSingleStep,
             InjectInputEventStep,
             SetSwitchConfigStep, SetInputConfigStep, BootStep DEF User
<1>3. CASE CalmDown
  BY <1>3 DEF CalmDown, Inv
<1>4. CASE UNCHANGED vars
  BY <1>4 DEF vars, Inv
<1> QED BY <1>1, <1>2, <1>3, <1>4 DEF Next

-----------------------------------------------------------------------------
\* Everything the classes keep between two handlers.
THEOREM Invariant == Spec => []Inv
<1>1. Init => Inv
  BY InitInv
<1>2. Inv /\ [Next]_vars => Inv'
  BY StepInv
<1> QED BY <1>1, <1>2, PTL DEF Spec

\* The members of the objects are what their declarations allow.
THEOREM TypeCorrect == Spec => []TypeOK
<1>1. Inv => TypeOK
  BY DEF Inv, TypeOK, PinGood, SwitchGood, DetGood
<1> QED BY <1>1, Invariant, PTL

\* The output, the state, its mark and its copy in the flash go together,
\* whichever of the ways to switch, save, restart and lose power was taken.
THEOREM StateKept == Spec => []StateIsKept
<1>1. Inv => StateIsKept
  BY DEF Inv, TypeOK, PinGood, SwitchGood, DetGood, Linked, Kept,
         StateIsKept, StateIsOutput, FlashIsHonest
<1> QED BY <1>1, Invariant, PTL

\* Home knows what a read of the switch or the sensor would return.
THEOREM HomeKnows == Spec => []HomeInSync
<1>1. Inv => HomeInSync
  BY DEF Inv, SwitchGood, DetGood, Linked, HomeInSync
<1> QED BY <1>1, Invariant, PTL

\* Every click follows a press of its own.
THEOREM ClicksReal == Spec => []NoPhantomClicks
<1>1. Inv => NoPhantomClicks
  BY DEF Inv, PinGood, NoPhantomClicks
<1> QED BY <1>1, Invariant, PTL

\* A level that is shown is the one last reported, and a pulse has an end.
THEOREM SensorsFollow == Spec => []SensorsTrack
<1>1. Inv => SensorsTrack
  BY DEF Inv, DetGood, SensorsTrack
<1> QED BY <1>1, Invariant, PTL

\* No step, restarts and power failures included, leaves an output on that
\* auto-off should turn off without its timer, but for the three exceptions that
\* spared stands for: a long press, auto-off enabled when the output was on, and
\* an output that a new object leaves as it finds it.
THEOREM AutoOffKept == Spec => []AutoOffIsKept
<1>1. Inv => AutoOffIsKept
  BY DEF Inv, SwitchGood, Linked, Guarded, AutoOffIsKept
<1> QED BY <1>1, Invariant, PTL
=============================================================================
