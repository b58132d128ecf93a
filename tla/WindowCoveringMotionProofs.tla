--------------------- MODULE WindowCoveringMotionProofs ---------------------
(***************************************************************************)
(* What a step of the roller shutter may never do, for every travel,       *)
(* timing, set of targets and set of input modes: reverse the motor, and   *)
(* start it again after a tap.  Both rest on the invariant Good of         *)
(* WindowCoveringProofs; the tap needs one of its own, about where the     *)
(* shutter is while it moves, and a timer that is on time.                 *)
(***************************************************************************)
EXTENDS WindowCoveringProofs

(***************************************************************************)
(* Relays.  A run of the state machine turns one on only in the first      *)
(* state of a calibration and where both are off, unless a request has put *)
(* it midway.                                                              *)
(***************************************************************************)
NoReversal(s, r) ==
  ~s.jumped /\ ~r.jumped =>
    /\ ~(s.open /\ r.close)
    /\ s.close /\ r.open => "PreCal0" \in {s.state, s.tgtState}

SameRelays(s, r) == r.open = s.open /\ r.close = s.close

\* A method that leaves the relays and the state machine alone.
SameMotor(s, r) ==
  /\ SameRelays(s, r) /\ r.state = s.state /\ r.tgtState = s.tgtState
  /\ r.jumped = s.jumped

LEMMA MoveRelays ==
  ASSUME NEW s \in Members, NEW d \in Directions
  PROVE  LET r == Move(s, d)
         IN  /\ r.open = (s.calibrated /\ d = "open")
             /\ r.close = (s.calibrated /\ d = "close")
             /\ r.state = s.state /\ r.tgtState = s.tgtState
             /\ r.dir = d /\ r.cur = s.cur /\ r.tgt = s.tgt
BY DEF Move, Drive, Members

LEMMA StateRelays ==
  ASSUME NEW s \in Members, NEW st \in States
  PROVE  LET r == SetInternalState(s, st)
         IN  SameRelays(s, r) /\ r.state = st /\ r.tgtState = s.tgtState
BY DEF SetInternalState, SameRelays, Members

\* A pending state is entered.
LEMMA EnterFields ==
  ASSUME NEW s \in Members, s.state = "Idle", s.tgtState \notin {"None", "Idle"}
  PROVE  LET r == IdleStep(s)
         IN  /\ r.state = s.tgtState /\ r.tgtState = "None" /\ r.halt = s.halt
             /\ r.jumped = (s.jumped \/ s.tgtState \in Midway)
<1> DEFINE j == s.jumped \/ s.tgtState \in Midway
           e == SetInternalState(s, s.tgtState)
           r == [e EXCEPT !.tgtState = "None", !.jumped = j]
<1>1. s.tgtState \in States
  BY DEF Members
<1>2. e \in Members
  BY <1>1, SetInternalStateType
<1>3. e.state = s.tgtState /\ e.halt = s.halt
  BY DEF SetInternalState, Members
<1>4. IdleStep(s) = r
  <2>1. e.jumped = s.jumped
    BY DEF SetInternalState, Members
  <2> HIDE DEF e
  <2>2. QED
    BY <1>2, <2>1 DEF IdleStep, Members, e
<1> HIDE DEF e, j
<1>5. /\ r.state = s.tgtState /\ r.tgtState = "None" /\ r.jumped = j
      /\ r.halt = s.halt
  BY <1>2, <1>3 DEF Members
<1>6. QED
  BY <1>4, <1>5 DEF j

\* One run: the states in which it turns a relay on, and the states before
\* those.
LEMMA RunOnceRelays ==
  ASSUME NEW s, Ready(s), ~s.jumped, NEW pw \in PowerPair
  PROVE  LET r == RunOnce(s, pw)
         IN  /\ r.open => \/ s.open \/ s.state = "PreCal0"
                          \/ s.state = "Move" /\ ~s.open /\ ~s.close
             /\ r.close => \/ s.close
                           \/ /\ s.state \in {"Move", "PreCal1"}
                              /\ ~s.open /\ ~s.close
             /\ r.state = "Move" => s.state = "Idle" /\ SameRelays(s, r)
             /\ r.state = "PreCal1" /\ ~r.jumped => ~s.open /\ ~s.close
             /\ r.state = "PreCal0" =>
                  /\ s.state = "Idle" /\ s.tgtState = "PreCal0"
                  /\ SameRelays(s, r)
<1> DEFINE r == RunOnce(s, pw)
<1>1. s \in Members /\ RelaysOK(s)
  BY DEF Ready
<1>2. CASE s.state = "Idle"
  <2>1. r = IdleStep(s)
    BY <1>2 DEF RunOnce
  <2>2. SameRelays(s, r)
    BY <1>1, <2>1 DEF IdleStep, SetInternalState, SameRelays, Members
  <2>3. /\ r.state = "PreCal1" => r.jumped
        /\ r.state = "PreCal0" => s.tgtState = "PreCal0"
    <3>1. CASE s.tgtState \in {"None", "Idle"}
      BY <1>1, <1>2, <2>1, <3>1 DEF IdleStep, SetInternalState, Members
    <3>2. CASE s.tgtState \notin {"None", "Idle"}
      BY <1>1, <1>2, <2>1, <3>2, EnterFields DEF Midway
    <3>3. QED
      BY <3>1, <3>2
  <2>4. QED
    BY <1>1, <1>2, <2>2, <2>3 DEF SameRelays
<1>3. CASE s.state = "Move"
  <2>1. r = MoveStep(s)
    BY <1>3 DEF RunOnce
  <2>2. s.calibrated => ~s.open /\ ~s.close
    BY <1>1, <1>3 DEF RelaysOK
  <2>3. /\ r.open => s.open \/ s.calibrated
        /\ r.close => s.close \/ s.calibrated
        /\ r.state \in {"Stop", "RampUp"}
    BY <1>1, <1>3, <2>1 DEF MoveStep, SetInternalState, Move, Drive, Members
  <2>4. QED
    BY <1>3, <2>2, <2>3
<1>4. CASE s.state \in CalStates
  <2>1. s.state \in {"PostCal0", "PreCal1", "PostCal1"} =>
          ~s.open /\ ~s.close
    BY <1>1 DEF RelaysOK
  <2>2. /\ s.state = "PreCal0" => r = PreCal0Step(s)
        /\ s.state = "Cal0" => r = Cal0Step(s, pw.open)
        /\ s.state = "PostCal0" => r = PostCal0Step(s)
        /\ s.state = "PreCal1" => r = PreCal1Step(s)
        /\ s.state = "Cal1" => r = Cal1Step(s, pw.close)
        /\ s.state = "PostCal1" => r = PostCal1Step(s)
    BY DEF RunOnce
  <2>3. CASE s.state = "PreCal0"
    BY <1>1, <2>2, <2>3 DEF PreCal0Step, NewHistory, Drive, SaveState, SetInternalState, Members
  <2>4. CASE s.state = "Cal0"
    BY <1>1, <2>2, <2>4 DEF Cal0Step, Drive, SetInternalState, Members
  <2>5. CASE s.state = "Cal1"
    BY <1>1, <2>2, <2>5 DEF Cal1Step, Drive, SetInternalState, Members
  <2>6. CASE s.state = "PostCal0"
    BY <1>1, <2>1, <2>2, <2>6 DEF PostCal0Step, Drive, SetInternalState, Members
  <2>7. CASE s.state = "PreCal1"
    BY <1>1, <2>1, <2>2, <2>7 DEF PreCal1Step, Drive, SetInternalState, Members
  <2>8. CASE s.state = "PostCal1"
    BY <1>1, <2>1, <2>2, <2>8 DEF PostCal1Step, Command, SaveState, SetCurPos, SetTgtPos, SetInternalState, Members
  <2>9. QED
    BY <1>4, <2>3, <2>4, <2>5, <2>6, <2>7, <2>8 DEF CalStates
<1>5. CASE s.state = "RampUp"
  <2>1. r = RampUpStep(s, ActivePM(s, pw))
    BY <1>5 DEF RunOnce
  <2>2. QED
    BY <1>1, <1>5, <2>1 DEF RampUpStep, Fail, SetInternalState, Members
<1>6. CASE s.state = "Moving"
  <2> DEFINE p == ActivePM(s, pw)
             m == TrackPower(SetCurPos(s, NewCurPos(s)), p)
             limit == IF s.dir = "open" THEN FullyOpen ELSE FullyClosed
  <2>1. r = MovingStep(s, p)
    BY <1>6 DEF RunOnce
  <2>2. p \in AllReadings /\ NewCurPos(s) \in Int /\ limit \in Int
    BY <1>6, ReadingAssumption, NewCurPosInt, LimitsInt DEF PowerPair, ActivePM
  <2>3. Ready(m) /\ m.state = "Moving"
    BY <1>6, <2>2, SetCurPosReady, TrackPowerReady
  <2>4. SameRelays(s, m)
    BY <1>1 DEF TrackPower, SetCurPos, SameRelays, Members
  <2>5. m \in Members /\ SetCurPos(m, limit) \in Members /\ Fixup(m) \in Members
    BY <2>2, <2>3, SetCurPosReady, FixupReady DEF Ready
  <2>6. [m EXCEPT !.obst = TRUE] \in Members
    BY <2>5 DEF Members
  <2>7. \A t \in Members : SameRelays(t, Fail(t)) /\ Fail(t).state = "Stop"
    BY DEF SameRelays, Fail, SetInternalState, Members
  <2>8. \A t \in Members : /\ ~Halt(t).open /\ ~Halt(t).close
                           /\ Halt(t).state = "Stop"
    BY DEF Halt, Move, Drive, SetInternalState, Members
  <2>9. SameRelays(s, [m EXCEPT !.obst = TRUE])
    BY <2>4, <2>5 DEF SameRelays, Members
  <2>10. \/ r = m \/ r = Fail(s) \/ r = Fail([m EXCEPT !.obst = TRUE])
         \/ r = Halt(SetCurPos(m, limit)) \/ r = Halt(Fixup(m))
    BY <2>1 DEF MovingStep
  <2> HIDE DEF m, limit
  <2>11. CASE r = m
    BY <2>3, <2>4, <2>11 DEF SameRelays
  <2>12. CASE r = Fail(s)
    BY <1>1, <2>7, <2>12 DEF SameRelays
  <2>13. CASE r = Fail([m EXCEPT !.obst = TRUE])
    BY <2>6, <2>7, <2>9, <2>13 DEF SameRelays
  <2>14. CASE r = Halt(SetCurPos(m, limit)) \/ r = Halt(Fixup(m))
    BY <2>5, <2>8, <2>14
  <2>15. QED
    BY <2>10, <2>11, <2>12, <2>13, <2>14
<1>7. CASE s.state = "Stop"
  <2>1. r = StopStep(s)
    BY <1>7 DEF RunOnce
  <2>2. ~r.open /\ ~r.close /\ r.state = "Stopping"
    BY <1>1, <1>7, <2>1 DEF StopStep, Move, Drive, SaveState, SetInternalState, Members
  <2>3. QED
    BY <2>2
<1>8. CASE s.state = "Stopping"
  <2>1. r = StoppingStep(s, pw)
    BY <1>8 DEF RunOnce
  <2>2. QED
    BY <1>1, <1>8, <2>1 DEF StoppingStep, SetInternalState, Members
<1>9. CASE s.state = "Error"
  <2>1. r = ErrorStep(s)
    BY <1>9 DEF RunOnce
  <2>2. ~r.open /\ ~r.close /\ r.state = "Idle"
    BY <1>1, <1>9, <2>1 DEF ErrorStep, SetTgtPos, Move, Drive, SetInternalState, Members
  <2>3. QED
    BY <2>2
<1>10. QED
  BY <1>1, <1>2, <1>3, <1>4, <1>5, <1>6, <1>7, <1>8, <1>9 DEF Members, States

\* What one run does to the history of requests and taps.
LEMMA RunOnceHistory ==
  ASSUME NEW s, Ready(s), NEW pw \in PowerPair
  PROVE  LET r == RunOnce(s, pw)
         IN  /\ s.state \notin {"Idle", "PreCal0"} => r.jumped = s.jumped
             /\ s.state = "Idle" => r.jumped = (s.jumped \/ r.state \in Midway)
             /\ s.state = "PreCal0" => ~r.jumped
             /\ r.tgtState \in {s.tgtState, "None", "Error"}
             /\ r.halt \in {s.halt, "no", "failed"}
             /\ r.state \in CalStates => s.state \in CalStates \/ r.state = s.tgtState
             /\ r.state \in {"Move", "RampUp", "Moving"} =>
                  \/ r.tgtState \in {"None", "Idle"}
                  \/ /\ s.state \in {"Move", "RampUp", "Moving"}
                     /\ r.tgtState = s.tgtState
<1> DEFINE r == RunOnce(s, pw)
<1>1. s \in Members
  BY DEF Ready
<1>2. CASE s.state = "Idle"
  <2>1. r = IdleStep(s)
    BY <1>2 DEF RunOnce
  <2>2. CASE s.tgtState \in {"None", "Idle"}
    BY <1>1, <1>2, <2>1, <2>2 DEF IdleStep, SetInternalState, Members, CalStates, Midway
  <2>3. CASE s.tgtState \notin {"None", "Idle"}
    BY <1>1, <1>2, <2>1, <2>3, EnterFields
  <2>4. QED
    BY <2>2, <2>3
<1>3. CASE s.state = "Move"
  <2>1. r = MoveStep(s)
    BY <1>3 DEF RunOnce
  <2>2. /\ r.jumped = s.jumped /\ r.tgtState = s.tgtState /\ r.halt = s.halt
        /\ r.state \in {"Stop", "RampUp"}
    BY <1>1, <2>1 DEF MoveStep, SetInternalState, Move, Drive, Members
  <2>3. QED
    BY <1>3, <2>2 DEF CalStates
<1>4. CASE s.state \in CalStates
  <2>1. /\ s.state = "PreCal0" => r = PreCal0Step(s)
        /\ s.state = "Cal0" => r = Cal0Step(s, pw.open)
        /\ s.state = "PostCal0" => r = PostCal0Step(s)
        /\ s.state = "PreCal1" => r = PreCal1Step(s)
        /\ s.state = "Cal1" => r = Cal1Step(s, pw.close)
        /\ s.state = "PostCal1" => r = PostCal1Step(s)
    BY DEF RunOnce
  <2>2. CASE s.state = "PreCal0"
    BY <1>1, <2>1, <2>2 DEF PreCal0Step, NewHistory, Drive, SaveState, SetInternalState, Members, CalStates
  <2>3. CASE s.state = "Cal0"
    BY <1>1, <2>1, <2>3 DEF Cal0Step, Drive, SetInternalState, Members, CalStates
  <2>4. CASE s.state = "Cal1"
    BY <1>1, <2>1, <2>4 DEF Cal1Step, Drive, SetInternalState, Members, CalStates
  <2>5. CASE s.state = "PostCal0"
    BY <1>1, <2>1, <2>5 DEF PostCal0Step, Drive, SetInternalState, Members, CalStates
  <2>6. CASE s.state = "PreCal1"
    BY <1>1, <2>1, <2>6 DEF PreCal1Step, Drive, SetInternalState, Members, CalStates
  <2>7. CASE s.state = "PostCal1"
    BY <1>1, <2>1, <2>7 DEF PostCal1Step, Command, SaveState, SetCurPos, SetTgtPos, SetInternalState, Members, CalStates
  <2>8. QED
    BY <1>4, <2>2, <2>3, <2>4, <2>5, <2>6, <2>7 DEF CalStates
<1>5. CASE s.state = "RampUp"
  <2>1. r = RampUpStep(s, ActivePM(s, pw))
    BY <1>5 DEF RunOnce
  <2>2. QED
    BY <1>1, <1>5, <2>1 DEF RampUpStep, Fail, SetInternalState, Members, CalStates
<1>6. CASE s.state = "Moving"
  <2> DEFINE p == ActivePM(s, pw)
             m == TrackPower(SetCurPos(s, NewCurPos(s)), p)
             limit == IF s.dir = "open" THEN FullyOpen ELSE FullyClosed
             Kept(t) == /\ t \in Members /\ t.jumped = s.jumped
                        /\ t.tgtState = s.tgtState /\ t.halt = s.halt
                        /\ t.state = "Moving"
  <2>1. r = MovingStep(s, p)
    BY <1>6 DEF RunOnce
  <2>2. p \in AllReadings /\ NewCurPos(s) \in Int /\ limit \in Int
    BY <1>6, ReadingAssumption, NewCurPosInt, LimitsInt DEF PowerPair, ActivePM
  <2>3. m \in Members
    BY <1>6, <2>2, SetCurPosReady, TrackPowerReady DEF Ready
  <2>4. Kept(m) /\ Kept(s)
    BY <1>1, <1>6, <2>3 DEF TrackPower, SetCurPos, Members
  <2> HIDE DEF m, limit
  <2>5. Kept([m EXCEPT !.obst = TRUE])
    BY <2>4 DEF Members
  <2>6. m.cur \in Int
    BY <2>4, PosInt
  <2>7. SetCurPos(m, limit) \in Members /\ SetTgtPos(m, m.cur) \in Members
    BY <2>2, <2>4, <2>6, SetCurPosType, SetTgtPosType
  <2>8. Kept(SetCurPos(m, limit)) /\ Kept(SetTgtPos(m, m.cur))
    BY <2>4, <2>7 DEF SetCurPos, SetTgtPos, Members
  <2>9. Kept(Fixup(m))
    BY <2>4, <2>8 DEF Fixup
  <2>10. \A t \in Members : Kept(t) =>
           /\ Fail(t).jumped = s.jumped /\ Fail(t).state = "Stop"
           /\ Fail(t).tgtState = "Error" /\ Fail(t).halt = "failed"
    BY DEF Fail, SetInternalState, Members
  <2>11. \A t \in Members : Kept(t) =>
           /\ Halt(t).jumped = s.jumped /\ Halt(t).state = "Stop"
           /\ Halt(t).tgtState = s.tgtState /\ Halt(t).halt = s.halt
    BY DEF Halt, Move, Drive, SetInternalState, Members
  <2>12. \/ r = m \/ r = Fail(s) \/ r = Fail([m EXCEPT !.obst = TRUE])
         \/ r = Halt(SetCurPos(m, limit)) \/ r = Halt(Fixup(m))
    BY <2>1 DEF MovingStep, m, limit
  <2>13. /\ r.jumped = s.jumped /\ r.tgtState \in {s.tgtState, "Error"}
         /\ r.halt \in {s.halt, "failed"} /\ r.state \in {"Moving", "Stop"}
         /\ r.state = "Moving" => r.tgtState = s.tgtState
    <3>1. CASE r = m
      BY <2>4, <3>1
    <3>2. CASE r = Fail(s) \/ r = Fail([m EXCEPT !.obst = TRUE])
      BY <2>4, <2>5, <2>10, <3>2
    <3>3. CASE r = Halt(SetCurPos(m, limit)) \/ r = Halt(Fixup(m))
      BY <2>8, <2>9, <2>11, <3>3
    <3>4. QED
      BY <2>12, <3>1, <3>2, <3>3
  <2>14. QED
    BY <1>6, <2>13 DEF CalStates
<1>7. CASE s.state = "Stop"
  <2>1. r = StopStep(s)
    BY <1>7 DEF RunOnce
  <2>2. QED
    BY <1>1, <1>7, <2>1 DEF StopStep, Move, Drive, SaveState, SetInternalState, Members, CalStates
<1>8. CASE s.state = "Stopping"
  <2>1. r = StoppingStep(s, pw)
    BY <1>8 DEF RunOnce
  <2>2. QED
    BY <1>1, <1>8, <2>1 DEF StoppingStep, SetInternalState, Members, CalStates
<1>9. CASE s.state = "Error"
  <2>1. r = ErrorStep(s)
    BY <1>9 DEF RunOnce
  <2>2. QED
    BY <1>1, <1>9, <2>1 DEF ErrorStep, SetTgtPos, Move, Drive, SetInternalState, Members, CalStates
<1>10. QED
  BY <1>1, <1>2, <1>3, <1>4, <1>5, <1>6, <1>7, <1>8, <1>9 DEF Members, States

\* The meters and the target do not matter to what a run does to the relays.
LEMMA RunOnceNeverReverses ==
  ASSUME NEW s, NEW t, Ready(t), SameMotor(s, t), NEW pw \in PowerPair
  PROVE  NoReversal(s, RunOnce(t, pw))
<1>1. SUFFICES ASSUME ~t.jumped PROVE NoReversal(s, RunOnce(t, pw))
  BY DEF NoReversal, SameMotor
<1>2. ~(t.open /\ t.close)
  BY <1>1 DEF Ready, RelaysOK
<1>3. QED
  BY <1>1, <1>2, RunOnceRelays DEF NoReversal, SameMotor, SameRelays

LEMMA CommandSameMotor ==
  ASSUME NEW s \in Members, NEW p \in Int
  PROVE  SameMotor(s, Command(s, p)) /\ SameMotor(s, Tapped(s, p))
BY DEF SameMotor, SameRelays, Command, SetTgtPos, Tapped, Members

\* Two runs in one handler: the first never ends where the second drives a
\* relay while the other one was on.
LEMMA StopHereNeverReverses ==
  ASSUME NEW s, Good(s), NEW pw \in PowerPair
  PROVE  NoReversal(s, StopHere(s, pw))
<1> DEFINE now == RunOnce(s, pw)
           t == Command(now, now.cur)
           r == RunOnce(t, pw)
<1>1. Good(now) /\ s \in Members
  BY RunOnceKeeps DEF Good
<1>2. now \in Members /\ now.cur \in Int
  BY <1>1, PosInt DEF Good
<1>3. Ready(t)
  BY <1>1, <1>2, CommandGood, GoodIsReady
<1>4. SameMotor(now, t)
  BY <1>2, CommandSameMotor
<1>5. ~s.jumped /\ now.jumped => now.state # "PreCal0"
  BY GoodIsReady, RunOnceHistory DEF Midway
<1>6. t.jumped /\ t.state \notin {"Idle", "PreCal0"} => r.jumped
  BY <1>3, RunOnceHistory
<1>7. t.jumped /\ t.state = "Idle" => r.jumped
  BY <1>3, RunOnceHistory
<1> HIDE DEF now, t
<1>8. CASE s.jumped \/ now.jumped
  <2>1. s.jumped \/ r.jumped
    BY <1>4, <1>5, <1>6, <1>7, <1>8 DEF SameMotor
  <2>2. NoReversal(s, r)
    BY <2>1 DEF NoReversal
  <2>3. QED
    BY <2>2 DEF StopHere, now, t
<1>9. CASE ~s.jumped /\ ~now.jumped
  <2>1. ~(s.open /\ s.close) /\ ~(now.open /\ now.close)
    BY <1>1, <1>9 DEF Good, RelaysOK
  <2>2. /\ now.open => \/ s.open \/ s.state = "PreCal0"
                       \/ ~s.open /\ ~s.close
        /\ now.close => s.close \/ (~s.open /\ ~s.close)
        /\ now.state = "PreCal0" => s.tgtState = "PreCal0"
        /\ now.state = "PreCal1" => ~s.open /\ ~s.close
        /\ now.state = "Move" => SameRelays(s, now)
    BY <1>9, GoodIsReady, RunOnceRelays DEF now
  <2>3. ~t.jumped
    BY <1>4, <1>9 DEF SameMotor
  <2>4. /\ r.open => \/ now.open \/ now.state = "PreCal0"
                     \/ now.state = "Move" /\ ~now.open /\ ~now.close
        /\ r.close => \/ now.close \/ now.state = "PreCal1"
                      \/ now.state = "Move" /\ ~now.open /\ ~now.close
    BY <1>3, <1>4, <2>3, RunOnceRelays DEF SameMotor, SameRelays
  <2>5. NoReversal(s, r)
    BY <2>1, <2>2, <2>4 DEF NoReversal, SameRelays
  <2>6. QED
    BY <2>5 DEF StopHere, now, t
<1>10. QED
  BY <1>8, <1>9

LEMMA ChoiceSameMotor ==
  ASSUME NEW s \in Members, NEW value \in Int
  PROVE  /\ SameMotor(s, HandleInputSingle(s))
         /\ SameMotor(s, ChooseHapTarget(s, value))
<1>1. s.dir \in Directions
  BY DEF Members
<1>2. SameMotor(s, HandleInputSingle(s))
  BY <1>1, PosInt, LimitsInt, CommandSameMotor DEF HandleInputSingle, Directions
<1>3. SameMotor(s, s)
  BY DEF SameMotor, SameRelays
<1>4. QED
  BY <1>2, <1>3, CommandSameMotor DEF ChooseHapTarget

LEMMA AgedSameMotor ==
  ASSUME NEW s \in Members, NEW d \in 1 .. MaxStall
  PROVE  SameMotor(s, Aged(s, d))
BY DEF SameMotor, SameRelays, Aged, Members

LEMMA WallSwitchesNeverReverse ==
  ASSUME NEW s \in Members, NEW inOpen \in BOOLEAN, NEW inClose \in BOOLEAN,
         ~s.jumped => ~(s.open /\ s.close)
  PROVE  NoReversal(s, HandleInputEventNotCalibrated(s, inOpen, inClose))
<1> DEFINE forbidden == \/ inOpen /\ inClose
                        \/ inOpen /\ s.close
                        \/ inClose /\ s.open
           wantOpen == inOpen /\ ~forbidden
           wantClose == inClose /\ ~forbidden
<1>1. ~(wantOpen /\ s.close) /\ ~(wantClose /\ s.open)
  OBVIOUS
<1> HIDE DEF wantOpen, wantClose
<1>2. /\ Drive(s, wantOpen, wantClose).open = wantOpen
      /\ Drive(s, wantOpen, wantClose).close = wantClose
  BY DEF Drive, Members
<1>3. NoReversal(s, s)
  BY DEF NoReversal
<1>4. QED
  BY <1>1, <1>2, <1>3 DEF HandleInputEventNotCalibrated, NoReversal, wantOpen, wantClose

LEMMA HandleInputEvent01NeverReverses ==
  ASSUME NEW s, Good(s), NEW dir \in {"open", "close"}, NEW level \in BOOLEAN,
         NEW pw \in PowerPair
  PROVE  NoReversal(s, HandleInputEvent01(s, dir, level, pw))
<1> DEFINE limit == IF dir = "open" THEN FullyOpen ELSE FullyClosed
           t == [s EXCEPT !.lastDir = dir]
<1>1. Good(t)
  BY FreeMembersGood DEF Directions
<1>2. s \in Members /\ t \in Members /\ limit \in Int
  BY <1>1, LimitsInt DEF Good
<1>3. SameMotor(s, t)
  BY <1>2 DEF SameMotor, SameRelays, Members
<1>4. SameMotor(s, Command(t, limit)) /\ Ready(Command(t, limit))
  BY <1>1, <1>2, <1>3, CommandSameMotor, CommandGood, GoodIsReady
     DEF SameMotor, SameRelays
<1>5. NoReversal(s, RunOnce(Command(t, limit), pw))
  BY <1>4, RunOnceNeverReverses
<1>6. SameMotor(s, s)
  BY DEF SameMotor, SameRelays
<1>7. NoReversal(s, RunOnce(s, pw))
  BY <1>6, GoodIsReady, RunOnceNeverReverses
<1>8. QED
  BY <1>5, <1>7, StopHereNeverReverses DEF HandleInputEvent01

LEMMA UserNeverReverses ==
  ASSUME Good(wc), User
  PROVE  NoReversal(wc, wc')
<1>0. /\ wc \in Members /\ HapTargets \subseteq Int
      /\ ~wc.jumped => ~(wc.open /\ wc.close)
  BY InputAssumption, PositionAssumption
     DEF Good, RelaysOK, Positions, FullyClosed
<1>a. ASSUME SameRelays(wc, wc') PROVE NoReversal(wc, wc')
  BY <1>0, <1>a DEF SameRelays, NoReversal
<1>b. ASSUME ~wc'.open, ~wc'.close PROVE NoReversal(wc, wc')
  BY <1>b DEF NoReversal
<1>1. ASSUME NEW value \in HapTargets, NEW pw \in PowerPair,
             HAPSetTgtPos(value, pw)
      PROVE  NoReversal(wc, wc')
  <2> DEFINE c == ChooseHapTarget(wc, value)
             t == [c EXCEPT !.hapFresh = TRUE]
  <2>1. Good(c) /\ SameMotor(wc, c)
    BY <1>0, ChooseHapTargetGood, ChoiceSameMotor
  <2>2. Good(t) /\ c \in Members
    BY <2>1, FreeMembersGood DEF Good
  <2> HIDE DEF c
  <2>3. SameMotor(wc, t)
    BY <2>1, <2>2 DEF SameMotor, SameRelays, Members
  <2>4. NoReversal(wc, RunOnce(t, pw))
    BY <2>2, <2>3, GoodIsReady, RunOnceNeverReverses
  <2>5. QED
    BY <1>1, <2>4 DEF HAPSetTgtPos, c
<1>2. ASSUME NEW value \in HapTargets, HAPSetTgtDoor(value)
      PROVE  NoReversal(wc, wc')
  BY <1>0, <1>a, <1>2 DEF HAPSetTgtDoor, Command, SetTgtPos, SameRelays, Members
<1>3. CASE HoldPosition
  BY <1>0, <1>a, <1>3 DEF HoldPosition, SetInternalState, SameRelays, Members
<1>4. ASSUME NEW value \in HapTargets, RPCSetTgtPos(value)
      PROVE  NoReversal(wc, wc')
  BY <1>0, <1>a, <1>4, CommandSameMotor DEF RPCSetTgtPos, SameMotor
<1>5. ASSUME NEW pw \in PowerPair, RPCStop(pw)
      PROVE  NoReversal(wc, wc')
  BY <1>5, StopHereNeverReverses DEF RPCStop
<1>6. ASSUME NEW st \in RpcStates, RPCSetState(st)
      PROVE  NoReversal(wc, wc')
  BY <1>0, <1>a, <1>6 DEF RPCSetState, SetInternalState, SameRelays, Members
<1>7. ASSUME NEW dir \in {"open", "close"}, NEW level \in BOOLEAN,
             NEW pw \in PowerPair, InputChange(dir, level, pw)
      PROVE  NoReversal(wc, wc')
  BY <1>7, HandleInputEvent01NeverReverses DEF InputChange
<1>8. ASSUME NEW pw \in PowerPair, InputSingleChange(pw)
      PROVE  NoReversal(wc, wc')
  <2>1. Good(HandleInputSingle(wc)) /\ SameMotor(wc, HandleInputSingle(wc))
    BY <1>0, HandleInputSingleGood, ChoiceSameMotor, LimitsInt
  <2>2. QED
    BY <1>8, <2>1, GoodIsReady, RunOnceNeverReverses DEF InputSingleChange
<1>9. ASSUME NEW inOpen \in BOOLEAN, NEW inClose \in BOOLEAN,
             InputNotCalibrated(inOpen, inClose)
      PROVE  NoReversal(wc, wc')
  BY <1>0, <1>9, WallSwitchesNeverReverse DEF InputNotCalibrated
<1>10. ASSUME NEW mode \in InModes, NEW swap \in BOOLEAN,
              SetConfig(mode, swap)
       PROVE  NoReversal(wc, wc')
  BY <1>0, <1>a, <1>10 DEF SetConfig, SaveState, SameRelays, Members
<1>11. ASSUME NEW recent \in BOOLEAN, Restart(recent)
       PROVE  NoReversal(wc, wc')
  BY <1>b, <1>11 DEF Restart, Fresh
<1>12. CASE PowerLoss
  BY <1>b, <1>12 DEF PowerLoss, Fresh
<1>13. QED
  BY <1>1, <1>2, <1>3, <1>4, <1>5, <1>6, <1>7, <1>8, <1>9, <1>10, <1>11,
     <1>12 DEF User

LEMMA NextNeverReverses == Good(wc) /\ [Next]_wc => NoReversal(wc, wc')
<1> SUFFICES ASSUME Good(wc), [Next]_wc PROVE NoReversal(wc, wc')
  OBVIOUS
<1>1. wc \in Members /\ (~wc.jumped => ~(wc.open /\ wc.close))
  BY DEF Good, RelaysOK
<1>2. CASE Tick
  <2>1. PICK d \in 1 .. MaxStall, pw \in PowerPair : Timer(d, pw)
    BY <1>2 DEF Tick
  <2>2. QED
    BY <1>1, <2>1, AgedReady, AgedSameMotor, RunOnceNeverReverses DEF Timer
<1>3. CASE HAPExpire
  BY <1>1, <1>3 DEF HAPExpire, NoReversal, Members
<1>4. CASE User
  BY <1>4, UserNeverReverses
<1>5. CASE UNCHANGED wc
  BY <1>1, <1>5 DEF NoReversal
<1>6. QED
  BY <1>2, <1>3, <1>4, <1>5 DEF Next

\* No handler, however it composes runs of the state machine, turns one relay
\* off and the other on, the start of a calibration excepted, as long as no
\* request has put the state machine midway.
THEOREM NeverReverses == Spec => NoSuddenReversal
<1>1. Good(wc) /\ [Next]_wc =>
        [~wc.jumped /\ ~wc'.jumped =>
           /\ ~(wc.open /\ wc'.close)
           /\ wc.close /\ wc'.open => "PreCal0" \in {wc.state, wc.tgtState}]_wc
  BY NextNeverReverses DEF NoReversal
<1>2. QED
  BY <1>1, Invariant, PTL DEF Spec, NoSuddenReversal

-----------------------------------------------------------------------------
(***************************************************************************)
(* A tap.  The tile sets the target one percent ahead and leaves it to the *)
(* next run of the timer to stop there; an overshoot of a percent or more  *)
(* would be corrected by a new movement, in the other direction.  That it  *)
(* never is depends on how far the shutter gets between two runs, so on    *)
(* the timer and on the travel time, which no calibration finds shorter    *)
(* than the ramp-up time.                                                  *)
(***************************************************************************)
\* A movement of a percent and a half and more between two runs of the timer
\* is for a shutter faster than this.
Slow(t) == 2 * MaxStall * FullyOpen <= (3 * Pct - 2) * t

\* The fastest shutter moves less than two percent between two runs, and is
\* slow if they are not evenly spaced.
Prompt ==
  /\ MaxMoveTime > MaxRampUp
  /\ MaxStall * FullyOpen <= (2 * Pct - 1) * (MaxRampUp + 1)
  /\ MaxStall = 1 \/ Slow(MaxRampUp + 1)

PosAt(s, clock) ==
  LET diff == IF s.moveTime = 0 THEN FullyOpen
              ELSE (clock * FullyOpen) \div s.moveTime
  IN  IF s.dir = "open" THEN s.start + diff ELSE s.start - diff

\* What is left to the target, in the direction of the movement.
Left(s) == IF s.dir = "open" THEN s.tgt - s.cur ELSE s.cur - s.tgt

Near(s) ==
  /\ s.dir \in {"open", "close"}
  /\ \/ ToLimit(s)
     \/ Left(s) = Pct
     \/ Slow(s.moveTime) /\ Pct <= 2 * Left(s) /\ Left(s) <= Pct

TimeOK(s) ==
  /\ s.flash.calibrated => s.flash.moveTime > MaxRampUp
  /\ s.calibrated \/ s.state \in {"PostCal1", "RampUp", "Moving"} =>
       s.moveTime > MaxRampUp

\* On its way to stop, at rest where it is, or on its way to kError, which
\* makes where it is the target.
TapOK(s) ==
  s.halt = "tapped" =>
    \/ s.state = "Moving" /\ Near(s)
    \/ /\ s.state \in Restful /\ s.tgtState \in Restful \cup {"None"}
       /\ s.calibrated => s.tgt = s.cur
    \/ s.state \in {"Stop", "Stopping", "Idle"} /\ s.tgtState = "Error"
    \/ s.state = "Error" /\ s.tgtState = "None"

\* What holds of the shutter on its way, the position apart.
WayOK(s) ==
  /\ TimeOK(s) /\ TapOK(s)
  /\ s.state = "RampUp" => s.cur = s.start
  /\ s.state \in {"Move", "RampUp", "Moving"} => s.tgtState \in {"None", "Idle"}

\* After a run of the state machine, and up to MaxStall periods later.
OnWay(s) ==
  WayOK(s) /\ (s.state = "Moving" => s.cur = TrimPos(PosAt(s, s.clock)))

OnWayReady(s) ==
  /\ WayOK(s)
  /\ s.state = "Moving" =>
       \E c \in Nat : /\ c <= s.clock /\ s.clock <= c + MaxStall
                      /\ s.cur = TrimPos(PosAt(s, c))

\* What also holds of a shutter that was put midway: no other state is pending
\* while it moves, and no calibration begins before a tap is forgotten.
TapAway(s) ==
  /\ s.state \in {"Move", "RampUp", "Moving"} => s.tgtState \in {"None", "Idle"}
  /\ s.halt = "tapped" => /\ s.state \notin CalStates
                          /\ s.tgtState \in Restful \cup {"None"}

Calm(s) == TapAway(s) /\ (~s.jumped => OnWay(s))
CalmReady(s) == TapAway(s) /\ (~s.jumped => OnWayReady(s))

LEMMA CalmIsReady ==
  ASSUME NEW s \in Members, Calm(s) PROVE CalmReady(s)
BY ClockBound, TimeAssumption DEF Calm, CalmReady, OnWay, OnWayReady, Members

(***************************************************************************)
(* How far the shutter gets, by the dead reckoning of kMoving.             *)
(***************************************************************************)
LEMMA Quotient ==
  ASSUME NEW a \in Nat, NEW t \in Nat \ {0}
  PROVE  /\ a \div t \in Nat
         /\ t * (a \div t) <= a /\ a < t * (a \div t) + t
OBVIOUS

LEMMA Multiply ==
  ASSUME NEW t \in Nat, NEW x \in Int, NEW y \in Int, x <= y
  PROVE  t * x <= t * y
OBVIOUS

\* The advance between two runs of the timer at clocks c and e.
Advance(t, c, e) == (e * FullyOpen) \div t - (c * FullyOpen) \div t

LEMMA AdvanceBounds ==
  ASSUME NEW t \in Nat \ {0}, NEW c \in Nat, NEW e \in Nat,
         c <= e, e <= c + MaxStall
  PROVE  LET v == Advance(t, c, e)
         IN  /\ v \in Nat
             /\ t * (v - 1) < MaxStall * FullyOpen
             /\ e > c => FullyOpen < t * (v + 1)
             /\ e = c => v = 0
<1> DEFINE f == FullyOpen
           x == (c * f) \div t
           y == (e * f) \div t
           v == y - x
<1>1. f \in Nat \ {0} /\ MaxStall \in Nat
  BY PositionAssumption, TimeAssumption
<1>2. c * f \in Nat /\ e * f \in Nat /\ c * f <= e * f
  BY <1>1, Multiply
<1>3. e * f <= c * f + MaxStall * f
  <2>1. f * e <= f * (c + MaxStall)
    BY <1>1, Multiply
  <2>2. QED
    BY <1>1, <2>1
<1>4. /\ x \in Nat /\ t * x <= c * f /\ c * f < t * x + t
      /\ y \in Nat /\ t * y <= e * f /\ e * f < t * y + t
  BY <1>2, Quotient
<1>5. v \in Int /\ t * v = t * y - t * x
  BY <1>4
<1>6. t * (v - 1) = t * v - t /\ t * (v + 1) = t * v + t
  BY <1>5
<1>7. t * (v - 1) < MaxStall * f
  <2>1. t * y <= c * f + MaxStall * f /\ c * f < t * x + t
    BY <1>1, <1>2, <1>3, <1>4
  <2>2. t * y - t * x - t < MaxStall * f
    BY <1>1, <1>2, <1>4, <2>1
  <2> HIDE DEF v, x, y
  <2>3. t * (v - 1) = t * y - t * x - t
    BY <1>5, <1>6
  <2>4. QED
    BY <2>2, <2>3
<1>8. v >= 0
  <2>1. SUFFICES ASSUME v <= -1 PROVE FALSE
    BY <1>5
  <2>2. t * v <= t * (-1)
    BY <1>5, <2>1, Multiply
  <2>3. QED
    BY <1>2, <1>4, <1>5, <2>2
<1>9. ASSUME e > c PROVE f < t * (v + 1)
  <2>1. f * (c + 1) <= f * e
    BY <1>1, <1>9, Multiply
  <2>2. c * f + f <= e * f
    BY <1>1, <2>1
  <2>3. QED
    BY <1>1, <1>2, <1>4, <1>5, <1>6, <2>2
<1>10. e = c => v = 0
  BY <1>4
<1>11. Advance(t, c, e) = v
  BY DEF Advance
<1> HIDE DEF v, x, y
<1>12. v \in Nat
  BY <1>5, <1>8
<1>13. QED
  BY <1>7, <1>9, <1>10, <1>11, <1>12

\* A shutter that has been told to stop one percent ahead: it does not get a
\* percent too far, and where it goes on the same holds of the next run.
LEMMA AdvanceOfTap ==
  ASSUME Prompt,
         NEW t \in Nat, t > MaxRampUp,
         NEW c \in Nat, NEW e \in Nat, c <= e, e <= c + MaxStall,
         NEW left \in Int,
         \/ left = Pct
         \/ Slow(t) /\ Pct <= 2 * left /\ left <= Pct,
         NEW w \in Nat, w <= Advance(t, c, e)
  PROVE  /\ -Pct < left - w /\ left - w <= Pct
         /\ Pct <= 2 * (left - w) /\ w = Advance(t, c, e) =>
              left - w = Pct \/ Slow(t)
<1> DEFINE v == Advance(t, c, e)
           far == MaxStall * FullyOpen
<1>1. /\ FullyOpen \in Nat \ {0} /\ MaxStall \in Nat \ {0} /\ Pct \in Nat \ {0}
      /\ MaxRampUp \in Nat /\ far \in Nat /\ t \in Nat \ {0}
  BY PositionAssumption, TimeAssumption
<1>2. /\ v \in Nat /\ t * (v - 1) < far
      /\ e > c => FullyOpen < t * (v + 1)
      /\ e = c => v = 0
  BY <1>1, AdvanceBounds
<1>a. 2 * MaxStall * FullyOpen = 2 * far
  BY <1>1
<1>b. \A x : Slow(x) <=> 2 * far <= (3 * Pct - 2) * x
  BY <1>a DEF Slow
<1> HIDE DEF v, far
<1>3. far <= (2 * Pct - 1) * t
  <2>1. (2 * Pct - 1) * (MaxRampUp + 1) <= (2 * Pct - 1) * t
    BY <1>1, Multiply
  <2>2. far <= (2 * Pct - 1) * (MaxRampUp + 1)
    BY DEF Prompt, far
  <2>3. QED
    BY <1>1, <2>1, <2>2
<1>4. v <= 2 * Pct - 1
  <2>1. SUFFICES ASSUME 2 * Pct - 1 <= v - 1 PROVE FALSE
    BY <1>1, <1>2
  <2>2. t * (2 * Pct - 1) <= t * (v - 1)
    BY <1>1, <1>2, <2>1, Multiply
  <2>3. QED
    BY <1>1, <1>2, <1>3, <2>2
<1>5. ASSUME Slow(t) PROVE 2 * v < 3 * Pct
  <2>1. 2 * far <= (3 * Pct - 2) * t
    BY <1>b, <1>5
  <2>2. SUFFICES ASSUME 3 * Pct - 2 <= 2 * (v - 1) PROVE FALSE
    BY <1>1, <1>2
  <2>3. t * (3 * Pct - 2) <= t * (2 * (v - 1))
    BY <1>1, <1>2, <2>2, Multiply
  <2>4. t * (2 * (v - 1)) = 2 * (t * (v - 1))
    BY <1>1, <1>2
  <2>5. QED
    BY <1>1, <1>2, <2>1, <2>3, <2>4
<1>6. -Pct < left - w /\ left - w <= Pct
  BY <1>1, <1>2, <1>4, <1>5 DEF v
<1>7. ASSUME Pct <= 2 * (left - w), w = v, ~Slow(t)
      PROVE  left - w = Pct
  <2>1. left = Pct
    BY <1>7
  <2>2. CASE e = c
    BY <1>1, <1>2, <1>7, <2>1, <2>2
  <2>3. CASE e > c
    <3>1. MaxStall = 1
      <4>1. (3 * Pct - 2) * (MaxRampUp + 1) <= (3 * Pct - 2) * t
        BY <1>1, Multiply
      <4>2. SUFFICES ASSUME Slow(MaxRampUp + 1) PROVE FALSE
        BY DEF Prompt
      <4>3. 2 * far <= (3 * Pct - 2) * (MaxRampUp + 1)
        BY <1>b, <4>2
      <4>4. ~(2 * far <= (3 * Pct - 2) * t)
        BY <1>b, <1>7
      <4>5. QED
        BY <1>1, <4>1, <4>3, <4>4
    <3>2. far = FullyOpen
      BY <1>1, <3>1 DEF far
    <3>3. (3 * Pct - 2) * t < 2 * far
      BY <1>1, <1>b, <1>7
    <3>4. 3 * Pct - 2 < 2 * (v + 1)
      <4>1. SUFFICES ASSUME 2 * (v + 1) <= 3 * Pct - 2 PROVE FALSE
        BY <1>1, <1>2
      <4>2. t * (2 * (v + 1)) <= t * (3 * Pct - 2)
        BY <1>1, <1>2, <4>1, Multiply
      <4>3. QED
        BY <1>1, <1>2, <2>3, <3>2, <3>3, <4>2
    <3>5. Pct = 1 /\ v = 0
      BY <1>1, <1>2, <1>7, <2>1, <3>4
    <3>6. QED
      BY <1>1, <1>7, <2>1, <3>5
  <2>4. QED
    BY <2>2, <2>3
<1>8. QED
  BY <1>6, <1>7 DEF v

\* From one position to the next: TrimPos only ever shortens the way, and
\* only at the limit.
LEMMA Travelled ==
  ASSUME NEW s \in Members, s.moveTime # 0, s.dir \in {"open", "close"},
         NEW c \in Nat, NEW e \in Nat, c <= e, e <= c + MaxStall,
         s.cur = TrimPos(PosAt(s, c)),
         NEW q, q = TrimPos(PosAt(s, e))
  PROVE  LET w == IF s.dir = "open" THEN q - s.cur ELSE s.cur - q
         IN  /\ w \in Nat /\ w <= Advance(s.moveTime, c, e)
             /\ q # (IF s.dir = "open" THEN FullyOpen ELSE FullyClosed) =>
                  w = Advance(s.moveTime, c, e)
<1> DEFINE t == s.moveTime
           x == (c * FullyOpen) \div t
           y == (e * FullyOpen) \div t
<1>1. /\ t \in Nat \ {0} /\ s.start \in 0 .. FullyOpen
      /\ FullyOpen \in Nat \ {0}
  BY TimeAssumption, PositionAssumption DEF Members, Positions, FullyClosed
<1>2. Advance(t, c, e) = y - x
  BY DEF Advance
<1>3. Advance(t, c, e) \in Nat
  BY <1>1, AdvanceBounds
<1>4. c * FullyOpen \in Nat /\ e * FullyOpen \in Nat
  BY <1>1
<1>5. x \in Nat /\ y \in Nat
  BY <1>1, <1>4, Quotient
<1>6. /\ PosAt(s, c) = IF s.dir = "open" THEN s.start + x ELSE s.start - x
      /\ PosAt(s, e) = IF s.dir = "open" THEN s.start + y ELSE s.start - y
  BY DEF PosAt
<1> HIDE DEF x, y, t
<1>7. CASE s.dir = "open"
  BY <1>1, <1>2, <1>3, <1>5, <1>6, <1>7 DEF TrimPos, FullyClosed, t
<1>8. CASE s.dir = "close"
  <2>1. /\ s.cur = IF s.start - x < 0 THEN 0 ELSE s.start - x
        /\ q = IF s.start - y < 0 THEN 0 ELSE s.start - y
    BY <1>1, <1>5, <1>6, <1>8 DEF TrimPos, FullyClosed
  <2>2. /\ s.cur - q \in Nat /\ s.cur - q <= y - x
        /\ q # 0 => s.cur - q = y - x
    BY <1>1, <1>2, <1>3, <1>5, <2>1
  <2>3. QED
    BY <1>2, <1>8, <2>2 DEF FullyClosed, t
<1>9. QED
  BY <1>7, <1>8

\* A run in kMoving on the way to a tap: the shutter fails, goes on, or stops
\* on its target.
LEMMA MovingStepTapped ==
  ASSUME Prompt, NEW s, Ready(s), s.state = "Moving",
         s.moveTime > MaxRampUp, Near(s),
         NEW c \in Nat, c <= s.clock, s.clock <= c + MaxStall,
         s.cur = TrimPos(PosAt(s, c)),
         NEW p \in AllReadings
  PROVE  LET m == TrackPower(SetCurPos(s, NewCurPos(s)), p)
             limit == IF s.dir = "open" THEN FullyOpen ELSE FullyClosed
         IN  /\ ToLimit(m) /\ ~Reverse(m) => m.tgt = limit /\ Near(m)
             /\ ToLimit(m) => ~Reverse(m)
             /\ ~ToLimit(m) /\ GetDesiredMoveDirection(m) = m.dir => Near(m)
             /\ ~ToLimit(m) /\ GetDesiredMoveDirection(m) # m.dir /\ m.calibrated =>
                  Fixup(m).tgt = Fixup(m).cur
<1> DEFINE q == TrimPos(PosAt(s, s.clock))
           m == TrackPower(SetCurPos(s, NewCurPos(s)), p)
           w == IF s.dir = "open" THEN q - s.cur ELSE s.cur - q
           v == Advance(s.moveTime, c, s.clock)
           left == Left(s)
<1>1. /\ s \in Members /\ s.dir \in {"open", "close"} /\ s.moveTime \in Nat
      /\ s.clock \in Nat
      /\ s.cur \in 0 .. FullyOpen /\ s.tgt \in 0 .. FullyOpen
      /\ FullyOpen \in Nat \ {0} /\ Pct \in Nat \ {0} /\ MaxRampUp \in Nat
  BY ClockBound, TimeAssumption, PositionAssumption
     DEF Ready, Near, Members, Positions, FullyClosed
<1>2. NewCurPos(s) = PosAt(s, s.clock)
  BY DEF NewCurPos, PosAt
<1>3. /\ m.cur = q /\ m.tgt = s.tgt /\ m.dir = s.dir
      /\ m.calibrated = s.calibrated /\ m.moveTime = s.moveTime
  BY <1>1, <1>2 DEF TrackPower, SetCurPos, Members
<1>4. Ready(m) /\ m \in Members
  BY NewCurPosInt, SetCurPosReady, TrackPowerReady DEF Ready
<1>5. q \in 0 .. FullyOpen
  BY <1>3, <1>4 DEF Members, Positions, FullyClosed
<1>6. /\ w \in Nat /\ w <= v
      /\ q # (IF s.dir = "open" THEN FullyOpen ELSE FullyClosed) => w = v
  BY <1>1, Travelled
<1>7. left \in Int /\ Left(m) = left - w
  BY <1>1, <1>3, <1>5 DEF Left
<1> HIDE DEF m, q, w, v, left
<1>8. ToLimit(m) <=> ToLimit(s)
  BY <1>3 DEF ToLimit
<1>9. ASSUME ToLimit(m)
      PROVE  /\ ~Reverse(m) /\ Near(m)
             /\ m.tgt = IF s.dir = "open" THEN FullyOpen ELSE FullyClosed
  <2>1. Near(m)
    BY <1>1, <1>3, <1>9 DEF Near
  <2>2. m.tgt = IF s.dir = "open" THEN FullyOpen ELSE FullyClosed
    BY <1>3, <1>9 DEF ToLimit
  <2>3. GetDesiredMoveDirection(m) \in {"none", m.dir}
    <3>1. CASE s.dir = "open"
      BY <1>1, <1>3, <1>4, <1>5, <2>2, <3>1, DesiredDirection
         DEF GetDesiredMoveDirection
    <3>2. CASE s.dir = "close"
      BY <1>1, <1>3, <1>4, <1>5, <2>2, <3>2, DesiredDirection
         DEF GetDesiredMoveDirection, FullyClosed
    <3>3. QED
      BY <1>1, <3>1, <3>2
  <2>4. QED
    BY <2>1, <2>2, <2>3 DEF Reverse
<1>10. ASSUME ~ToLimit(m)
       PROVE  /\ -Pct < left - w /\ left - w <= Pct
              /\ Pct <= 2 * (left - w) /\ w = v =>
                   left - w = Pct \/ Slow(s.moveTime)
  <2>1. \/ left = Pct
        \/ Slow(s.moveTime) /\ Pct <= 2 * left /\ left <= Pct
    BY <1>8, <1>10 DEF Near, left
  <2>2. QED
    BY SMTT(30), <1>1, <1>6, <1>7, <2>1, AdvanceOfTap DEF v
<1>11. ASSUME ~ToLimit(m), GetDesiredMoveDirection(m) = m.dir
       PROVE  Near(m)
  <2>1. /\ m.dir = "open" => m.tgt > m.cur
        /\ m.dir = "close" => m.tgt < m.cur
        /\ Pct <= 2 * Left(m)
    <3>1. /\ GetDesiredMoveDirection(m) # "none"
          /\ m.tgt > m.cur <=> GetDesiredMoveDirection(m) = "open"
          /\ ~(2 * Abs(m.tgt - m.cur) < Pct)
      BY <1>1, <1>3, <1>11 DEF GetDesiredMoveDirection
    <3>2. m.tgt # m.cur
      BY <1>4, <3>1, DesiredDirection
    <3>3. QED
      BY <1>1, <1>3, <1>5, <1>11, <3>1, <3>2 DEF Abs, Left
  <2>2. q # (IF s.dir = "open" THEN FullyOpen ELSE FullyClosed)
    BY <1>1, <1>3, <1>5, <2>1 DEF FullyClosed
  <2>3. QED
    BY <1>1, <1>3, <1>6, <1>7, <1>10, <1>11, <2>1, <2>2 DEF Near
<1>12. ASSUME ~ToLimit(m), GetDesiredMoveDirection(m) # m.dir, m.calibrated
       PROVE  Fixup(m).tgt = Fixup(m).cur
  <2>1. Abs(m.tgt - m.cur) < Pct
    BY <1>1, <1>3, <1>5, <1>7, <1>10, <1>12
       DEF GetDesiredMoveDirection, Abs, Left
  <2>2. TrimPos(m.cur) = m.cur
    BY <1>1, <1>3, <1>5 DEF TrimPos, FullyClosed
  <2>3. QED
    BY <1>4, <2>1, <2>2 DEF Fixup, SetTgtPos, Members
<1>13. QED
  BY <1>9, <1>11, <1>12 DEF m

(***************************************************************************)
(* The invariant of a shutter on its way, one state of RunOnce at a time.  *)
(***************************************************************************)
LEMMA SaveStateFields ==
  ASSUME NEW s \in Members
  PROVE  LET r == SaveState(s)
         IN  /\ r \in Members
             /\ r.flash.calibrated = s.calibrated
             /\ r.flash.moveTime = s.moveTime
             /\ r.state = s.state /\ r.tgtState = s.tgtState
             /\ r.cur = s.cur /\ r.tgt = s.tgt /\ r.start = s.start
             /\ r.dir = s.dir /\ r.clock = s.clock /\ r.halt = s.halt
             /\ r.calibrated = s.calibrated /\ r.moveTime = s.moveTime
             /\ r.jumped = s.jumped
<1>1. SaveState(s) \in Members
  BY SaveStateType
<1>2. QED
  BY <1>1 DEF SaveState, Members

LEMMA IdleStepOnWay ==
  ASSUME NEW s, Ready(s), ~s.jumped, OnWayReady(s), s.state = "Idle"
  PROVE  ~IdleStep(s).jumped => OnWay(IdleStep(s))
<1> DEFINE r == IdleStep(s)
<1>1. s \in Members /\ WayOK(s)
  BY DEF Ready, OnWayReady
<1>2. CASE s.tgtState \in {"None", "Idle"}
  <2>1. s.halt = "tapped" /\ s.calibrated => s.tgt = s.cur
    BY <1>1, <1>2 DEF WayOK, TapOK
  <2>2. s.halt = "tapped" => GetDesiredMoveDirection(s) = "none"
    BY <1>1, <2>1, DesiredDirection DEF Directions
  <2>3. r = s \/ (r = SetInternalState(s, "Move") /\ s.halt # "tapped")
    BY <1>2, <2>2 DEF IdleStep
  <2>4. WayOK(SetInternalState(s, "Move")) \/ s.halt = "tapped"
    BY <1>1, <1>2 DEF SetInternalState, Members, WayOK, TimeOK, TapOK
  <2>5. SetInternalState(s, "Move").state = "Move"
    BY <1>1 DEF SetInternalState, Members
  <2>6. QED
    BY <1>1, <2>3, <2>4, <2>5 DEF OnWay
<1>3. CASE s.tgtState \notin {"None", "Idle"}
  <2>1. /\ r.state = s.tgtState /\ r.tgtState = "None" /\ r.halt = s.halt
        /\ r.jumped = (s.jumped \/ s.tgtState \in Midway)
    BY <1>1, <1>3, EnterFields
  <2>2. SUFFICES ASSUME s.tgtState \notin Midway PROVE OnWay(r)
    BY <2>1
  <2>3. r.state \notin {"PostCal1", "RampUp", "Moving"}
    BY <2>1, <2>2 DEF Midway
  <2>4. /\ r.cur = s.cur /\ r.tgt = s.tgt /\ r.calibrated = s.calibrated
        /\ r.moveTime = s.moveTime /\ r.flash = s.flash
    BY <1>1, <1>3 DEF IdleStep, SetInternalState, Members
  <2>5. TimeOK(r)
    BY <1>1, <2>3, <2>4 DEF WayOK, TimeOK
  <2>6. s.halt = "tapped" =>
          \/ s.tgtState \in Restful /\ (s.calibrated => s.tgt = s.cur)
          \/ s.tgtState = "Error"
    BY <1>1, <1>3 DEF WayOK, TapOK
  <2>7. TapOK(r)
    BY <2>1, <2>4, <2>6 DEF TapOK, Restful
  <2>8. QED
    BY <2>1, <2>3, <2>5, <2>7 DEF OnWay, WayOK
<1>4. QED
  BY <1>2, <1>3

\* A calibration that begins on a shutter put midway is measured afresh, and so is any other.
LEMMA RunOnceHeals ==
  ASSUME NEW s, Ready(s), s.halt # "tapped", s.state = "PreCal0"
  PROVE  OnWay(PreCal0Step(s))
<1> DEFINE n == NewHistory(s)
           off == [Drive(n, FALSE, FALSE) EXCEPT !.calibrated = FALSE]
           saved == SaveState(off)
           r == PreCal0Step(s)
<1>1. s \in Members /\ n \in Members /\ s.halt # "tapped"
  BY DEF Ready, NewHistory, Members
<1>2. Drive(n, FALSE, FALSE) \in Members
  BY <1>1, DriveType
<1>3. Drive(n, FALSE, FALSE).halt = s.halt
  BY <1>1 DEF NewHistory, Drive, Members
<1>4. off \in Members /\ ~off.calibrated /\ off.halt = s.halt
  BY <1>2, <1>3 DEF Members
<1>5. /\ saved \in Members /\ saved.halt = s.halt
      /\ ~saved.calibrated /\ ~saved.flash.calibrated
  BY <1>4, SaveStateFields
<1>6. r = SetInternalState(Drive(saved, TRUE, FALSE), "Cal0")
  BY DEF PreCal0Step
<1> HIDE DEF saved
<1>7. /\ r.halt # "tapped" /\ TimeOK(r) /\ r.state = "Cal0"
  BY <1>1, <1>5, <1>6 DEF Drive, SetInternalState, Members, TimeOK
<1>8. QED
  BY <1>7 DEF OnWay, WayOK, TapOK

LEMMA CalibrationOnWay ==
  ASSUME Prompt, NEW s, Ready(s), ~s.jumped, OnWayReady(s), s.state \in CalStates,
         NEW pw \in PowerPair
  PROVE  OnWay(RunOnce(s, pw))
<1> DEFINE r == RunOnce(s, pw)
<1>1. s \in Members /\ WayOK(s) /\ s.halt # "tapped"
  BY DEF Ready, OnWayReady, WayOK, TapOK, CalStates, Restful
<1>2. MaxRampUp \in Nat /\ MaxMoveTime > MaxRampUp
  BY TimeAssumption DEF Prompt
<1>3. s.clock \in Nat /\ s.moveTime \in Nat
  BY <1>1, ClockBound DEF Members
<1>4. SUFFICES /\ r.halt # "tapped" /\ TimeOK(r)
               /\ r.state \notin {"Move", "RampUp", "Moving"}
  BY DEF OnWay, WayOK, TapOK
<1>5. /\ s.state = "PreCal0" => r = PreCal0Step(s)
      /\ s.state = "Cal0" => r = Cal0Step(s, pw.open)
      /\ s.state = "PostCal0" => r = PostCal0Step(s)
      /\ s.state = "PreCal1" => r = PreCal1Step(s)
      /\ s.state = "Cal1" => r = Cal1Step(s, pw.close)
      /\ s.state = "PostCal1" => r = PostCal1Step(s)
  BY DEF RunOnce
<1>6. CASE s.state = "PreCal0"
  <2>1. OnWay(r) /\ r = PreCal0Step(s)
    BY <1>1, <1>5, <1>6, RunOnceHeals
  <2>2. PreCal0Step(s).state = "Cal0"
    BY <1>1, SaveStateType DEF PreCal0Step, SetInternalState, Drive, SaveState, NewHistory, Members
  <2>3. QED
    BY <2>1, <2>2, <1>1 DEF OnWay, WayOK, TapOK, Restful
<1>7. CASE s.state = "Cal0"
  BY <1>1, <1>5, <1>7 DEF Cal0Step, Drive, SetInternalState, Members, WayOK, TimeOK
<1>8. CASE s.state = "PostCal0"
  BY <1>1, <1>5, <1>8 DEF PostCal0Step, Drive, SetInternalState, Members, WayOK, TimeOK
<1>9. CASE s.state = "PreCal1"
  BY <1>1, <1>5, <1>9 DEF PreCal1Step, Drive, SetInternalState, Members, WayOK, TimeOK
<1>10. CASE s.state = "Cal1"
  <2>1. ~s.calibrated /\ ~s.flash.calibrated
    BY <1>10 DEF Ready, ConfigOK, Calibrating, CalStates
  <2>2. QED
    BY <1>1, <1>2, <1>3, <1>5, <1>10, <2>1 DEF Cal1Step, Drive, SetInternalState, Members, WayOK, TimeOK
<1>11. CASE s.state = "PostCal1"
  <2> DEFINE cal == [s EXCEPT !.calibrated = TRUE]
             at == SetCurPos(cal, FullyClosed)
             done == SaveState(at)
  <2>1. cal \in Members /\ cal.moveTime > MaxRampUp
    BY <1>1, <1>11 DEF Members, WayOK, TimeOK
  <2>2. at \in Members
    BY <2>1, LimitsInt, SetCurPosType
  <2>3. at.moveTime > MaxRampUp
    BY <2>1 DEF SetCurPos, Members
  <2>4. /\ done \in Members /\ done.moveTime > MaxRampUp
        /\ done.flash.moveTime > MaxRampUp
    BY <2>2, <2>3, SaveStateFields
  <2>5. r = SetInternalState(Command(done, (FullyOpen - FullyClosed) \div 2),
                             "Idle")
    BY <1>5, <1>11 DEF PostCal1Step
  <2> HIDE DEF done
  <2>6. QED
    BY <2>4, <2>5 DEF Command, SetTgtPos, SetInternalState, Members, TimeOK
<1>12. QED
  BY <1>6, <1>7, <1>8, <1>9, <1>10, <1>11 DEF CalStates

LEMMA MoveStepOnWay ==
  ASSUME NEW s, Ready(s), ~s.jumped, OnWayReady(s), s.state = "Move"
  PROVE  OnWay(MoveStep(s))
<1> DEFINE r == MoveStep(s)
<1>1. s \in Members /\ WayOK(s) /\ s.halt # "tapped"
  BY DEF Ready, OnWayReady, WayOK, TapOK, Restful
<1>2. r.halt # "tapped" /\ r.state \in {"Stop", "RampUp"}
  BY <1>1 DEF MoveStep, SetInternalState, Move, Drive, Members
<1>3. r.state = "RampUp" => s.calibrated /\ r.cur = r.start
  BY <1>1, DesiredDirection DEF MoveStep, SetInternalState, Move, Drive, Members
<1>4. /\ r.tgtState = s.tgtState /\ r.flash = s.flash
      /\ r.calibrated = s.calibrated /\ r.moveTime = s.moveTime
  BY <1>1 DEF MoveStep, SetInternalState, Move, Drive, Members
<1>5. QED
  BY <1>1, <1>2, <1>3, <1>4 DEF OnWay, WayOK, TimeOK, TapOK

LEMMA FailOnWay ==
  ASSUME NEW s \in Members, TimeOK(s) PROVE OnWay(Fail(s))
BY DEF Fail, SetInternalState, Members, OnWay, WayOK, TapOK, TimeOK

LEMMA RampUpStepOnWay ==
  ASSUME NEW s, Ready(s), ~s.jumped, OnWayReady(s), s.state = "RampUp",
         NEW p \in AllReadings
  PROVE  OnWay(RampUpStep(s, p))
<1> DEFINE t == SetInternalState(s, "Moving")
<1>1. s \in Members /\ WayOK(s) /\ s.halt # "tapped"
  BY DEF Ready, OnWayReady, WayOK, TapOK, Restful
<1>2. s.start \in 0 .. FullyOpen /\ s.moveTime \in Nat \ {0}
  BY <1>1, TimeAssumption DEF Members, Positions, FullyClosed, WayOK, TimeOK
<1>3. /\ t.clock = 0 /\ t.start = s.start /\ t.cur = s.cur /\ t.dir = s.dir
      /\ t.moveTime = s.moveTime /\ t.state = "Moving"
      /\ t.tgtState = s.tgtState /\ t.halt = s.halt /\ t.flash = s.flash
      /\ t.calibrated = s.calibrated
  BY <1>1 DEF SetInternalState, Members
<1>4. (0 * FullyOpen) \div s.moveTime = 0
  BY <1>2, PositionAssumption
<1>5. PosAt(t, 0) = s.start
  BY <1>2, <1>3, <1>4 DEF PosAt
<1>6. TrimPos(s.start) = s.cur
  BY <1>1, <1>2, PositionAssumption DEF WayOK, TrimPos, FullyClosed
<1>7. OnWay(t)
  BY <1>1, <1>3, <1>5, <1>6 DEF OnWay, WayOK, TimeOK, TapOK
<1>8. OnWay(s)
  BY <1>1 DEF OnWay
<1>9. QED
  BY <1>1, <1>7, <1>8, FailOnWay DEF RampUpStep, WayOK

LEMMA RestStepOnWay ==
  ASSUME NEW s, Ready(s), ~s.jumped, OnWayReady(s), NEW pw \in PowerPair,
         s.state \in {"Stop", "Stopping", "Error"}
  PROVE  OnWay(RunOnce(s, pw))
<1> DEFINE r == RunOnce(s, pw)
<1>1. s \in Members /\ WayOK(s)
  BY DEF Ready, OnWayReady
<1>2. /\ s.state = "Stop" => r = StopStep(s)
      /\ s.state = "Stopping" => r = StoppingStep(s, pw)
      /\ s.state = "Error" => r = ErrorStep(s)
  BY DEF RunOnce
<1>3. CASE s.state = "Stop"
  <2> DEFINE still == Move(s, "none")
             saved == SaveState(still)
  <2>1. still \in Members
    BY <1>1, MoveType DEF Directions
  <2>2. /\ still.halt = s.halt /\ still.tgtState = s.tgtState
        /\ still.cur = s.cur /\ still.tgt = s.tgt
        /\ still.calibrated = s.calibrated /\ still.moveTime = s.moveTime
    BY <1>1 DEF Move, Drive, Members
  <2>3. r = SetInternalState(saved, "Stopping")
    BY <1>2, <1>3 DEF StopStep
  <2>4. /\ saved \in Members
        /\ saved.flash.calibrated = s.calibrated
        /\ saved.flash.moveTime = s.moveTime
        /\ saved.halt = s.halt /\ saved.tgtState = s.tgtState
        /\ saved.cur = s.cur /\ saved.tgt = s.tgt
        /\ saved.calibrated = s.calibrated /\ saved.moveTime = s.moveTime
    BY <2>1, <2>2, SaveStateFields
  <2> HIDE DEF saved
  <2>5. TimeOK(r)
    BY <1>1, <2>3, <2>4 DEF SetInternalState, Members, WayOK, TimeOK
  <2>6. TapOK(r) /\ r.state = "Stopping"
    BY <1>1, <1>3, <2>3, <2>4 DEF SetInternalState, Members, WayOK, TapOK, Restful
  <2>7. QED
    BY <2>5, <2>6 DEF OnWay, WayOK
<1>4. CASE s.state = "Stopping"
  BY <1>1, <1>2, <1>4 DEF StoppingStep, SetInternalState, Members, OnWay, WayOK, TimeOK, TapOK, Restful
<1>5. CASE s.state = "Error"
  <2>0. s.cur \in Positions /\ TrimPos(s.cur) = s.cur
    BY <1>1, PositionAssumption DEF TrimPos, Members, Positions, FullyClosed
  <2>1. /\ r.state = "Idle" /\ r.tgt = r.cur /\ r.tgtState = s.tgtState
        /\ r.halt = s.halt /\ r.calibrated = s.calibrated
        /\ r.moveTime = s.moveTime /\ r.flash = s.flash
    BY <1>1, <1>2, <1>5, <2>0
       DEF ErrorStep, Move, Drive, SetTgtPos, SetInternalState, Members
  <2>2. TapOK(r)
    BY <1>1, <1>5, <2>1 DEF WayOK, TapOK, Restful
  <2>3. TimeOK(r)
    BY <1>1, <1>5, <2>1 DEF WayOK, TimeOK
  <2>4. QED
    BY <2>1, <2>2, <2>3 DEF OnWay, WayOK
<1>6. QED
  BY <1>3, <1>4, <1>5

LEMMA HaltOnWay ==
  ASSUME NEW s \in Members, TimeOK(s), s.tgtState \in {"None", "Idle"},
         s.halt = "tapped" /\ s.calibrated => s.tgt = s.cur
  PROVE  OnWay(Halt(s))
<1> DEFINE t == Move(s, "none")
<1>1. t \in Members
  BY MoveType DEF Directions
<1>2. /\ t.halt = s.halt /\ t.tgtState = s.tgtState /\ t.flash = s.flash
      /\ t.cur = s.cur /\ t.tgt = s.tgt
      /\ t.calibrated = s.calibrated /\ t.moveTime = s.moveTime
  BY DEF Move, Drive, Members
<1> HIDE DEF t
<1>3. OnWay(SetInternalState(t, "Stop"))
  BY <1>1, <1>2 DEF SetInternalState, Members, OnWay, WayOK, TimeOK, TapOK, Restful
<1>4. QED
  BY <1>3 DEF Halt, t

LEMMA MovingStepOnWay ==
  ASSUME Prompt, NEW s, Ready(s), ~s.jumped, OnWayReady(s), s.state = "Moving",
         NEW p \in AllReadings
  PROVE  OnWay(MovingStep(s, p))
<1> DEFINE m == TrackPower(SetCurPos(s, NewCurPos(s)), p)
           o == [m EXCEPT !.obst = TRUE]
           limit == IF s.dir = "open" THEN FullyOpen ELSE FullyClosed
           there == SetCurPos(m, limit)
           fixed == Fixup(m)
<1>1. s \in Members /\ WayOK(s) /\ TimeOK(s) /\ s.moveTime > MaxRampUp
  BY DEF Ready, OnWayReady, WayOK, TimeOK
<1>2. PICK c \in Nat : /\ c <= s.clock /\ s.clock <= c + MaxStall
                       /\ s.cur = TrimPos(PosAt(s, c))
  BY DEF OnWayReady
<1>3. NewCurPos(s) = PosAt(s, s.clock)
  BY DEF NewCurPos, PosAt
<1>4. /\ m.cur = TrimPos(NewCurPos(s)) /\ m.clock = s.clock
      /\ m.start = s.start /\ m.dir = s.dir /\ m.moveTime = s.moveTime
      /\ m.state = s.state /\ m.tgtState = s.tgtState /\ m.tgt = s.tgt
      /\ m.halt = s.halt /\ m.flash = s.flash /\ m.calibrated = s.calibrated
  BY <1>1 DEF TrackPower, SetCurPos, Members
<1>5. Ready(m) /\ m \in Members /\ Ready(o) /\ o \in Members
  BY NewCurPosInt, SetCurPosReady, TrackPowerReady, ObstructionReady DEF Ready
<1>6. s.halt = "tapped" =>
        /\ ToLimit(m) /\ ~Reverse(m) => m.tgt = limit /\ Near(m)
        /\ ToLimit(m) => ~Reverse(m)
        /\ ~ToLimit(m) /\ GetDesiredMoveDirection(m) = m.dir => Near(m)
        /\ ~ToLimit(m) /\ GetDesiredMoveDirection(m) # m.dir /\ m.calibrated =>
             Fixup(m).tgt = Fixup(m).cur
  <2>1. SUFFICES ASSUME s.halt = "tapped" PROVE Near(s)
    BY <1>1, <1>2, MovingStepTapped
  <2>2. QED
    BY <1>1, <2>1 DEF WayOK, TapOK, Restful
<1>7. limit \in Int /\ TrimPos(limit) = limit
  BY PositionAssumption DEF TrimPos, FullyClosed
<1>8. there \in Members /\ fixed \in Members
  BY <1>4, <1>5, <1>7, SetCurPosReady, FixupReady DEF Ready
<1>9. PosAt(m, m.clock) = PosAt(s, s.clock)
  BY <1>4 DEF PosAt
<1> HIDE DEF m, limit
<1>10. TimeOK(m) /\ TimeOK(o) /\ TimeOK(there) /\ TimeOK(fixed)
  BY <1>1, <1>4, <1>5 DEF TimeOK, SetCurPos, SetTgtPos, Fixup, Members
<1>11. /\ there.tgtState = s.tgtState /\ fixed.tgtState = s.tgtState
       /\ there.halt = s.halt /\ fixed.halt = s.halt
       /\ there.tgt = s.tgt /\ there.cur = limit
       /\ fixed.calibrated = m.calibrated
  BY <1>4, <1>5, <1>7 DEF SetCurPos, SetTgtPos, Fixup, Members
<1>12. s.tgtState \in {"None", "Idle"}
  BY <1>1 DEF WayOK
<1>13. OnWay(Fail(s)) /\ OnWay(Fail(o))
  BY <1>1, <1>5, <1>10, FailOnWay
<1>14. s.halt # "tapped" \/ Near(m) => OnWay(m)
  BY <1>1, <1>3, <1>4, <1>9, <1>10, <1>12 DEF OnWay, WayOK, TapOK
<1>15. s.halt # "tapped" \/ s.tgt = limit => OnWay(Halt(there))
  BY <1>8, <1>10, <1>11, <1>12, HaltOnWay
<1>16. s.halt # "tapped" \/ ~m.calibrated \/ fixed.tgt = fixed.cur =>
         OnWay(Halt(fixed))
  BY <1>8, <1>10, <1>11, <1>12, HaltOnWay
<1>17. CASE p = "error" \/ Obstructed(m, p)
  BY <1>13, <1>17 DEF MovingStep, m
<1>18. CASE ~(p = "error") /\ ~Obstructed(m, p)
  <2> DEFINE r == MovingStep(s, p)
  <2>1. CASE ToLimit(m) /\ ~Reverse(m)
    <3>1. r = m \/ r = Halt(there)
      BY <1>18, <2>1 DEF MovingStep, m, limit
    <3>2. OnWay(m) /\ OnWay(Halt(there))
      BY <1>4, <1>6, <1>14, <1>15, <2>1
    <3>3. QED
      BY <3>1, <3>2
  <2>2. CASE ~(ToLimit(m) /\ ~Reverse(m)) /\ GetDesiredMoveDirection(m) = m.dir
    <3>1. r = m
      BY <1>18, <2>2 DEF MovingStep, m
    <3>2. QED
      BY <1>6, <1>14, <2>2, <3>1
  <2>3. CASE ~(ToLimit(m) /\ ~Reverse(m)) /\ GetDesiredMoveDirection(m) # m.dir
    <3>1. r = Halt(fixed)
      BY <1>18, <2>3 DEF MovingStep, m
    <3>2. QED
      BY <1>6, <1>16, <2>3, <3>1
  <2>4. QED
    BY <2>1, <2>2, <2>3
<1>19. QED
  BY <1>17, <1>18

LEMMA RunOnceOnWay ==
  ASSUME Prompt, NEW s, Ready(s), ~s.jumped, OnWayReady(s), NEW pw \in PowerPair
  PROVE  ~RunOnce(s, pw).jumped => OnWay(RunOnce(s, pw))
<1>1. s.state \in States
  BY DEF Ready, Members
<1>2. ActivePM(s, pw) \in AllReadings
  BY ReadingAssumption DEF PowerPair, ActivePM
<1>3. CASE s.state \in CalStates
  BY <1>3, CalibrationOnWay
<1>4. CASE s.state \in {"Stop", "Stopping", "Error"}
  BY <1>4, RestStepOnWay
<1>5. CASE s.state \in {"Idle", "Move", "RampUp", "Moving"}
  BY <1>2, <1>5, IdleStepOnWay, MoveStepOnWay, RampUpStepOnWay, MovingStepOnWay
     DEF RunOnce
<1>6. QED
  BY <1>1, <1>3, <1>4, <1>5 DEF States

LEMMA RunOnceTapAway ==
  ASSUME NEW s, Ready(s), TapAway(s), NEW pw \in PowerPair
  PROVE  TapAway(RunOnce(s, pw))
BY RunOnceHistory DEF TapAway, Restful, CalStates

LEMMA RunOnceCalm ==
  ASSUME Prompt, NEW s, Ready(s), CalmReady(s), NEW pw \in PowerPair
  PROVE  Calm(RunOnce(s, pw))
<1> DEFINE r == RunOnce(s, pw)
<1>1. TapAway(s) /\ TapAway(r)
  BY RunOnceTapAway DEF CalmReady
<1>2. CASE ~s.jumped
  BY <1>1, <1>2, RunOnceOnWay DEF Calm, CalmReady
<1>3. CASE s.jumped /\ s.state = "PreCal0"
  <2>1. r = PreCal0Step(s)
    BY <1>3 DEF RunOnce
  <2>2. QED
    BY <1>1, <1>3, <2>1, RunOnceHeals DEF Calm, CalmReady, TapAway, CalStates
<1>4. CASE s.jumped /\ s.state # "PreCal0"
  <2>1. r.jumped
    BY <1>4, RunOnceHistory
  <2>2. QED
    BY <1>1, <2>1 DEF Calm
<1>5. QED
  BY <1>2, <1>3, <1>4

(***************************************************************************)
(* The commands.                                                           *)
(***************************************************************************)
\* A method that leaves the movement alone and forgets a tap, or keeps it with
\* its target.
SameWay(s, t) ==
  /\ t.state = s.state /\ t.tgtState = s.tgtState
  /\ t.cur = s.cur /\ t.start = s.start /\ t.dir = s.dir /\ t.clock = s.clock
  /\ t.moveTime = s.moveTime /\ t.calibrated = s.calibrated
  /\ t.flash = s.flash /\ t.jumped = s.jumped
  /\ t.halt = "tapped" => s.halt = "tapped" /\ t.tgt = s.tgt

LEMMA SameWayCalm ==
  ASSUME NEW s, NEW t, Calm(s), SameWay(s, t)
  PROVE  Calm(t)
<1>1. TapAway(t)
  BY DEF Calm, TapAway, SameWay
<1>2. SUFFICES ASSUME ~t.jumped PROVE OnWay(t)
  BY <1>1 DEF Calm
<1>3. OnWay(s)
  BY <1>2 DEF Calm, SameWay
<1>4. TimeOK(t)
  BY <1>3 DEF OnWay, WayOK, TimeOK, SameWay
<1>5. TapOK(t)
  BY <1>3 DEF OnWay, WayOK, TapOK, Near, ToLimit, Left, SameWay
<1>6. PosAt(t, t.clock) = PosAt(s, s.clock)
  BY DEF PosAt, SameWay
<1>7. QED
  BY <1>3, <1>4, <1>5, <1>6 DEF OnWay, WayOK, SameWay

LEMMA CommandCalm ==
  ASSUME NEW s \in Members, Calm(s), NEW p \in Int
  PROVE  Calm(Command(s, p))
<1>1. SameWay(s, Command(s, p))
  BY DEF SameWay, Command, SetTgtPos, Members
<1>2. QED
  BY <1>1, SameWayCalm

LEMMA FreeMembersCalm ==
  ASSUME NEW s \in Members, Calm(s)
  PROVE  /\ \A b \in BOOLEAN : Calm([s EXCEPT !.hapFresh = b])
         /\ \A d \in Directions : Calm([s EXCEPT !.lastDir = d])
<1>1. ASSUME NEW b \in BOOLEAN PROVE SameWay(s, [s EXCEPT !.hapFresh = b])
  BY DEF SameWay, Members
<1>2. ASSUME NEW d \in Directions PROVE SameWay(s, [s EXCEPT !.lastDir = d])
  BY DEF SameWay, Members
<1>3. QED
  BY <1>1, <1>2, SameWayCalm

\* One percent ahead, or the limit.
LEMMA TappedCalm ==
  ASSUME NEW s \in Members, Calm(s), NEW p \in Int,
         \/ s.dir = "open" /\ p = s.cur + Pct
         \/ s.dir = "close" /\ p = s.cur - Pct
  PROVE  Calm(Tapped(s, p))
<1> DEFINE r == Tapped(s, p)
<1>1. /\ r.state = s.state /\ r.tgtState = s.tgtState /\ r.cur = s.cur
      /\ r.start = s.start /\ r.dir = s.dir /\ r.clock = s.clock
      /\ r.moveTime = s.moveTime /\ r.calibrated = s.calibrated
      /\ r.flash = s.flash /\ r.tgt = TrimPos(p) /\ r.jumped = s.jumped
      /\ r.halt = "tapped" => s.state = "Moving"
  BY DEF Tapped, Command, SetTgtPos, Members
<1>2. TapAway(r)
  BY <1>1 DEF Calm, TapAway, Restful, CalStates
<1>3. SUFFICES ASSUME ~s.jumped PROVE OnWay(r)
  BY <1>1, <1>2 DEF Calm
<1>4. OnWay(s)
  BY <1>3 DEF Calm
<1>5. s.cur \in 0 .. FullyOpen /\ FullyOpen \in Nat /\ Pct \in Nat \ {0}
  BY PositionAssumption DEF Members, Positions, FullyClosed
<1>6. ToLimit(r) \/ Left(r) = Pct
  BY <1>1, <1>5 DEF ToLimit, Left, TrimPos, FullyClosed
<1>7. Near(r)
  BY <1>1, <1>6 DEF Near
<1>8. TapOK(r) /\ TimeOK(r)
  BY <1>1, <1>4, <1>7 DEF OnWay, WayOK, TapOK, TimeOK
<1>9. PosAt(r, r.clock) = PosAt(s, s.clock)
  BY <1>1 DEF PosAt
<1>10. QED
  BY <1>1, <1>4, <1>8, <1>9 DEF OnWay, WayOK

LEMMA ChoiceCalm ==
  ASSUME NEW s \in Members, Calm(s), NEW value \in Int
  PROVE  Calm(HandleInputSingle(s)) /\ Calm(ChooseHapTarget(s, value))
<1>1. s.dir \in Directions
  BY DEF Members
<1>2. Calm(HandleInputSingle(s))
  BY <1>1, PosInt, LimitsInt, TappedCalm, CommandCalm
     DEF HandleInputSingle, Directions
<1>3. QED
  BY <1>2, CommandCalm DEF ChooseHapTarget

LEMMA AgedCalm ==
  ASSUME NEW s \in Members, Calm(s), NEW d \in 1 .. MaxStall
  PROVE  CalmReady(Aged(s, d))
<1> DEFINE r == Aged(s, d)
<1>1. /\ s.clock \in 0 .. MaxClock /\ MaxClock \in Nat
      /\ d \in Nat /\ d <= MaxStall /\ MaxStall \in Nat
  BY ClockBound, TimeAssumption DEF Members
<1>2. /\ r.state = s.state /\ r.tgtState = s.tgtState /\ r.cur = s.cur
      /\ r.tgt = s.tgt /\ r.start = s.start /\ r.dir = s.dir
      /\ r.moveTime = s.moveTime /\ r.calibrated = s.calibrated
      /\ r.flash = s.flash /\ r.halt = s.halt /\ r.jumped = s.jumped
  BY DEF Aged, Members
<1>a. TapAway(r)
  BY <1>2 DEF Calm, TapAway
<1>b. SUFFICES ASSUME ~s.jumped PROVE OnWayReady(r)
  BY <1>2, <1>a DEF CalmReady
<1>3. s.clock <= r.clock /\ r.clock <= s.clock + MaxStall
  BY <1>1 DEF Aged, Members
<1>4. WayOK(r)
  BY <1>b, <1>2 DEF Calm, OnWay, WayOK, TimeOK, TapOK, Near, ToLimit, Left
<1>5. \A c : PosAt(r, c) = PosAt(s, c)
  BY <1>2 DEF PosAt
<1>6. QED
  BY <1>b, <1>1, <1>2, <1>3, <1>4, <1>5 DEF Calm, OnWay, OnWayReady

LEMMA RunOnceKeepsCalm ==
  ASSUME Prompt, NEW s, Good(s), Calm(s), NEW pw \in PowerPair
  PROVE  Calm(RunOnce(s, pw))
BY GoodIsReady, CalmIsReady, RunOnceCalm DEF Good

LEMMA StopHereCalm ==
  ASSUME Prompt, NEW s, Good(s), Calm(s), NEW pw \in PowerPair
  PROVE  Calm(StopHere(s, pw))
<1> DEFINE now == RunOnce(s, pw)
<1>1. Good(now) /\ now \in Members /\ Calm(now)
  BY RunOnceKeeps, RunOnceKeepsCalm DEF Good
<1>2. Good(Command(now, now.cur)) /\ Calm(Command(now, now.cur))
  BY <1>1, PosInt, CommandGood, CommandCalm
<1>3. QED
  BY <1>2, RunOnceKeepsCalm DEF StopHere

LEMMA HandleInputEvent01Calm ==
  ASSUME Prompt, NEW s, Good(s), Calm(s), NEW dir \in {"open", "close"},
         NEW level \in BOOLEAN, NEW pw \in PowerPair
  PROVE  Calm(HandleInputEvent01(s, dir, level, pw))
<1> DEFINE limit == IF dir = "open" THEN FullyOpen ELSE FullyClosed
           t == [s EXCEPT !.lastDir = dir]
<1>1. Good(t) /\ t \in Members /\ Calm(t)
  BY FreeMembersGood, FreeMembersCalm DEF Good, Directions
<1>2. Good(Command(t, limit)) /\ Calm(Command(t, limit))
  BY <1>1, LimitsInt, CommandGood, CommandCalm
<1>3. Calm(RunOnce(Command(t, limit), pw))
  BY <1>2, RunOnceKeepsCalm
<1>4. QED
  BY <1>3, StopHereCalm, RunOnceKeepsCalm DEF HandleInputEvent01

LEMMA FreshCalm ==
  ASSUME NEW cfg \in Config, NEW mode \in InModes, NEW recent \in BOOLEAN,
         NEW j \in BOOLEAN,
         ~j /\ cfg.calibrated => cfg.moveTime > MaxRampUp
  PROVE  /\ Calm([Fresh(cfg, mode, recent) EXCEPT !.jumped = j])
         /\ ~j => Calm(Fresh(cfg, mode, recent))
<1> DEFINE f == Fresh(cfg, mode, recent)
           r == [f EXCEPT !.jumped = j]
<1>1. /\ 0 \in 0 .. MaxClock /\ -1 \in -1 .. ObstructionTime + 1
      /\ 0 \in Positions
  BY ClockBound, TimeAssumption, PositionAssumption DEF Positions, FullyClosed
<1>2. f \in Members
  BY <1>1 DEF Fresh, Members, Config, States, Directions
<1>3. /\ f.state = "Idle" /\ f.halt = "boot" /\ f.calibrated = cfg.calibrated
      /\ f.flash = cfg /\ f.moveTime = cfg.moveTime /\ f.jumped = FALSE
  BY DEF Fresh
<1> HIDE DEF f
<1>4. /\ r.state = "Idle" /\ r.halt = "boot" /\ r.calibrated = cfg.calibrated
      /\ r.flash = cfg /\ r.moveTime = cfg.moveTime /\ r.jumped = j
  BY <1>2, <1>3 DEF Members
<1>5. Calm(r) /\ (~j => Calm(f))
  BY <1>3, <1>4 DEF Calm, TapAway, OnWay, WayOK, TimeOK, TapOK, CalStates
<1>6. QED
  BY <1>5 DEF f

-----------------------------------------------------------------------------
LEMMA UserCalm ==
  ASSUME Prompt, Good(wc), Calm(wc), User
  PROVE  Calm(wc')
<1>0. /\ wc \in Members /\ HapTargets \subseteq Int /\ TapAway(wc)
      /\ ~wc.jumped => OnWay(wc) /\ TimeOK(wc)
  BY InputAssumption, PositionAssumption
     DEF Good, Calm, OnWay, WayOK, Positions, FullyClosed
<1>1. ASSUME NEW value \in HapTargets, NEW pw \in PowerPair,
             HAPSetTgtPos(value, pw)
      PROVE  Calm(wc')
  <2> DEFINE c == ChooseHapTarget(wc, value)
  <2>1. Good(c) /\ c \in Members /\ Calm(c)
    BY <1>0, ChooseHapTargetGood, ChoiceCalm DEF Good
  <2>2. /\ Good([c EXCEPT !.hapFresh = TRUE])
        /\ Calm([c EXCEPT !.hapFresh = TRUE])
    BY <2>1, FreeMembersGood, FreeMembersCalm
  <2>3. QED
    BY <1>1, <2>2, RunOnceKeepsCalm DEF HAPSetTgtPos
<1>2. ASSUME NEW value \in HapTargets, HAPSetTgtDoor(value)
      PROVE  Calm(wc')
  <2>1. Command(wc, value) \in Members /\ Calm(Command(wc, value))
    BY <1>0, CommandType, CommandCalm
  <2>2. QED
    BY <1>2, <2>1, FreeMembersCalm DEF HAPSetTgtDoor
<1>3. CASE HoldPosition
  <2>1. /\ wc'.state = "Stop" /\ wc'.flash = wc.flash
        /\ wc'.calibrated = wc.calibrated /\ wc'.moveTime = wc.moveTime
        /\ wc'.tgtState = wc.tgtState /\ wc'.jumped = wc.jumped
        /\ wc'.tgt = wc.tgt /\ wc'.cur = wc.cur
        /\ wc'.halt = "tapped" => wc.halt = "tapped" /\ ~CutShort(wc)
    BY <1>0, <1>3 DEF HoldPosition, SetInternalState, Members
  <2>2. TapAway(wc')
    BY <1>0, <2>1 DEF TapAway, CalStates
  <2>3. ~wc.jumped => TimeOK(wc') /\ TapOK(wc')
    BY <1>0, <2>1 DEF OnWay, WayOK, TimeOK, TapOK, CutShort, Restful
  <2>4. QED
    BY <2>1, <2>2, <2>3 DEF Calm, OnWay, WayOK
<1>4. ASSUME NEW value \in HapTargets, RPCSetTgtPos(value)
      PROVE  Calm(wc')
  BY <1>0, <1>4, CommandCalm DEF RPCSetTgtPos
<1>5. ASSUME NEW pw \in PowerPair, RPCStop(pw)
      PROVE  Calm(wc')
  BY <1>5, StopHereCalm DEF RPCStop
<1>6. ASSUME NEW st \in RpcStates, RPCSetState(st)
      PROVE  Calm(wc')
  <2> DEFINE dropped == wc.halt \in {"failed", "tapped"} /\ wc.tgtState = "Error"
             cut == st # "Error" /\ (CutShort(wc) \/ dropped)
             h == IF st \in Midway \cup {"PreCal0", "Move"} THEN "no"
                  ELSE IF cut THEN "cut" ELSE wc.halt
             t == [wc EXCEPT !.tgtState = st, !.halt = h]
  <2>1. wc \in Members /\ st \in States
    BY <1>0, InputAssumption
  <2>2. h = "tapped" =>
          wc.halt = "tapped" /\ st \in Restful
          /\ (st = "Error" \/ (~CutShort(wc) /\ wc.tgtState # "Error"))
    <3>1. st \notin Midway \cup {"PreCal0", "Move"} => st \in Restful
      BY <2>1 DEF Restful, Midway, States, CalStates
    <3>2. ~cut => st = "Error" \/ (~CutShort(wc) /\ ~dropped)
      OBVIOUS
    <3> HIDE DEF cut
    <3>3. CASE st \in Midway \cup {"PreCal0", "Move"}
      <4>1. h = "no"
        BY <3>3
      <4> HIDE DEF h
      <4>2. QED
        BY <4>1
    <3>4. CASE st \notin Midway \cup {"PreCal0", "Move"}
      <4>1. h = "tapped" => wc.halt = "tapped" /\ ~cut
        BY <3>4
      <4> HIDE DEF h
      <4>2. QED
        BY <3>1, <3>2, <3>4, <4>1
    <3>5. QED
      BY <3>3, <3>4
  <2>3. wc' = IF wc.state = "Idle" THEN t ELSE SetInternalState(t, "Stop")
    BY <1>6, <2>1 DEF RPCSetState, Members
  <2>4. h \in {"no", "boot", "failed", "held", "tapped", "cut"}
    BY <2>1 DEF Members
  <2> HIDE DEF h
  <2>5. t \in Members
    BY <2>1, <2>4 DEF Members
  <2>6. /\ wc'.state \in {"Idle", "Stop"} /\ wc'.flash = wc.flash
        /\ wc'.calibrated = wc.calibrated /\ wc'.moveTime = wc.moveTime
        /\ wc'.tgtState = st /\ wc'.jumped = wc.jumped /\ wc'.halt = h
        /\ wc'.tgt = wc.tgt /\ wc'.cur = wc.cur
    BY <2>1, <2>3, <2>5 DEF SetInternalState, Members
  <2>7. TapAway(wc')
    BY <2>2, <2>6 DEF TapAway, CalStates
  <2>8. ~wc.jumped => TimeOK(wc')
    BY <1>0, <2>6 DEF TimeOK
  <2>9. ~wc.jumped => TapOK(wc')
    BY <1>0, <2>2, <2>6 DEF OnWay, WayOK, TapOK, CutShort, Restful
  <2>10. QED
    BY <2>6, <2>7, <2>8, <2>9 DEF Calm, OnWay, WayOK
<1>7. ASSUME NEW dir \in {"open", "close"}, NEW level \in BOOLEAN,
             NEW pw \in PowerPair, InputChange(dir, level, pw)
      PROVE  Calm(wc')
  BY <1>7, HandleInputEvent01Calm DEF InputChange
<1>8. ASSUME NEW pw \in PowerPair, InputSingleChange(pw)
      PROVE  Calm(wc')
  BY <1>0, <1>8, LimitsInt, HandleInputSingleGood, ChoiceCalm,
     RunOnceKeepsCalm DEF InputSingleChange
<1>9. ASSUME NEW inOpen \in BOOLEAN, NEW inClose \in BOOLEAN,
             InputNotCalibrated(inOpen, inClose)
      PROVE  Calm(wc')
  <2>1. \A o, c \in BOOLEAN : SameWay(wc, Drive(wc, o, c))
    BY <1>0 DEF SameWay, Drive, Members
  <2>2. wc' = wc \/ \E o, c \in BOOLEAN : wc' = Drive(wc, o, c)
    BY <1>9 DEF InputNotCalibrated, HandleInputEventNotCalibrated
  <2>3. QED
    BY <2>1, <2>2, SameWayCalm
<1>10. ASSUME NEW mode \in InModes, NEW swap \in BOOLEAN,
              SetConfig(mode, swap)
       PROVE  Calm(wc')
  <2> DEFINE cal == wc.calibrated /\ ~swap
             t == [wc EXCEPT !.inMode = mode, !.calibrated = cal]
  <2>1. cal \in BOOLEAN /\ (cal => wc.calibrated)
    BY <1>0 DEF Members
  <2> HIDE DEF cal
  <2>2. /\ t \in Members /\ t.calibrated = cal /\ t.moveTime = wc.moveTime
        /\ t.state = wc.state /\ t.tgtState = wc.tgtState
        /\ t.cur = wc.cur /\ t.tgt = wc.tgt /\ t.start = wc.start
        /\ t.dir = wc.dir /\ t.clock = wc.clock /\ t.halt = wc.halt
        /\ t.jumped = wc.jumped
    BY <1>0, <2>1 DEF Members
  <2>3. wc' = SaveState(t)
    BY <1>10 DEF SetConfig, cal
  <2> HIDE DEF t
  <2>a. TapAway(wc') /\ wc'.jumped = wc.jumped
    BY <1>0, <2>2, <2>3, SaveStateFields DEF TapAway
  <2>b. SUFFICES ASSUME ~wc.jumped PROVE OnWay(wc')
    BY <2>a DEF Calm
  <2>4. TimeOK(wc')
    BY <1>0, <2>b, <2>1, <2>2, <2>3, SaveStateFields DEF TimeOK
  <2>5. TapOK(wc')
    BY <1>0, <2>b, <2>1, <2>2, <2>3, SaveStateFields
       DEF OnWay, WayOK, TapOK, Near, ToLimit, Left
  <2>6. PosAt(wc', wc'.clock) = PosAt(wc, wc.clock)
    BY <2>2, <2>3, SaveStateFields DEF PosAt
  <2>7. QED
    BY <1>0, <2>b, <2>2, <2>3, <2>4, <2>5, <2>6, SaveStateFields DEF OnWay, WayOK
<1>11. ASSUME NEW recent \in BOOLEAN, Restart(recent)
       PROVE  Calm(wc')
  <2>1. /\ SaveState(wc).flash \in Config /\ wc.inMode \in InModes
        /\ wc.jumped \in BOOLEAN
    BY <1>0, SaveStateFields DEF Members
  <2>2. /\ SaveState(wc).flash.calibrated = wc.calibrated
        /\ SaveState(wc).flash.moveTime = wc.moveTime
    BY <1>0, SaveStateFields
  <2>3. QED
    BY <1>0, <1>11, <2>1, <2>2, FreshCalm DEF Restart, TimeOK
<1>12. CASE PowerLoss
  <2>1. wc.flash \in Config /\ wc.inMode \in InModes /\ wc.jumped \in BOOLEAN
    BY <1>0 DEF Members
  <2>2. ~wc.jumped /\ wc.flash.calibrated => wc.flash.moveTime > MaxRampUp
    BY <1>0 DEF TimeOK
  <2>3. QED
    BY <1>12, <2>1, <2>2, FreshCalm DEF PowerLoss
<1>13. QED
  BY <1>1, <1>2, <1>3, <1>4, <1>5, <1>6, <1>7, <1>8, <1>9, <1>10, <1>11,
     <1>12 DEF User

LEMMA InitCalm == Init => Calm(wc)
BY FreshCalm DEF Init

LEMMA NextCalm == Prompt /\ Good(wc) /\ Calm(wc) /\ [Next]_wc => Calm(wc')
<1> SUFFICES ASSUME Prompt, Good(wc), Calm(wc), [Next]_wc PROVE Calm(wc')
  OBVIOUS
<1>1. wc \in Members
  BY DEF Good
<1>2. CASE Tick
  <2>1. PICK d \in 1 .. MaxStall, pw \in PowerPair : Timer(d, pw)
    BY <1>2 DEF Tick
  <2>2. QED
    BY <1>1, <2>1, AgedReady, AgedCalm, RunOnceCalm DEF Timer
<1>3. CASE HAPExpire
  BY <1>1, <1>3, FreeMembersCalm DEF HAPExpire
<1>4. CASE User
  BY <1>4, UserCalm
<1>5. CASE UNCHANGED wc
  BY <1>5
<1>6. QED
  BY <1>2, <1>3, <1>4, <1>5 DEF Next

\* Where the timer is on time, a tap on the tile of a moving shutter stops it
\* for good: the run that stops it finds it less than a percent from its
\* target, so Fixup makes where it is the target, and no correction follows.
\* Unless a request has put the state machine midway, or a Hold or a request
\* for a state comes between.
THEOREM TapHolds == ASSUME Prompt PROVE Spec => TapStops
<1>1. Init => Calm(wc)
  BY InitCalm
<1>2. Good(wc) /\ Calm(wc) /\ [Next]_wc => Calm(wc)'
  BY NextCalm
<1>3. Calm(wc)' => (Starts /\ ~wc'.jumped => wc'.halt # "tapped")
  BY DEF Calm, OnWay, WayOK, TapOK, Restful, Starts
<1>4. QED
  BY <1>1, <1>2, <1>3, Invariant, PTL DEF Spec, TapStops
=============================================================================
