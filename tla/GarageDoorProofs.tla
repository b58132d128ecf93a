-------------------------- MODULE GarageDoorProofs --------------------------
(***************************************************************************)
(* The garage door opener for every timing, sensor and mode.  Good(d) is   *)
(* the inductive invariant of the members; TargetAgrees holds between any  *)
(* two changes because each of them sets target and state together.        *)
(***************************************************************************)
EXTENDS GarageDoor, TLAPS

Agree(d) == /\ d.cur \in {"Open", "Opening"} => d.tgt = "Open"
            /\ d.cur \in {"Closed", "Closing"} => d.tgt = "Closed"

InSync(d) ==
  /\ d.obst => d.cur = "Stopped" /\ d.pre \in {"Opening", "Closing"}
  /\ d.obstTold = d.obst

Good(d) == d \in Members /\ Agree(d) /\ InSync(d)

Levels == [close : BOOLEAN, open : BOOLEAN]

LEMMA ClockBound == MaxClock \in Nat
BY TimeAssumption DEF MaxClock

\* SetCurState reaches the state and keeps the obstruction in sync.
LEMMA SetCurStateGood ==
  ASSUME NEW d \in Members, InSync(d), NEW new \in States
  PROVE  /\ SetCurState(d, new) \in Members
         /\ InSync(SetCurState(d, new))
         /\ SetCurState(d, new).cur = new
         /\ SetCurState(d, new).tgt = d.tgt
<1>1. CASE d.cur = new
  BY <1>1 DEF SetCurState
<1>2. CASE d.cur # new
  <2> DEFINE pre == IF new = "Stopped" THEN d.cur ELSE d.pre
  <2>1. ~(d.obst /\ d.cur # "Stopped")
    BY DEF InSync
  <2>2. d.obstTold = d.obst /\ d.obst \in BOOLEAN
    BY DEF InSync, Members
  <2>3. SetCurState(d, new) =
          [d EXCEPT !.cur = new, !.clock = 0, !.obst = FALSE,
                    !.obstTold = FALSE, !.pre = pre]
    <3>1. CASE d.cur = "Stopped"
      BY <1>2, <3>1 DEF SetCurState
    <3>2. CASE d.cur # "Stopped"
      <4>1. d.obst = FALSE /\ d.obstTold = FALSE
        BY <2>1, <2>2, <3>2
      <4>2. (IF "Stopped" \in {d.cur, new} THEN FALSE ELSE d.obstTold) = FALSE
        BY <4>1
      <4> QED BY <1>2, <4>1, <4>2, <3>2 DEF SetCurState
    <3> QED BY <3>1, <3>2
  <2>4. pre \in States
    BY DEF Members
  <2> DEFINE r == SetCurState(d, new)
  <2> HIDE DEF pre
  <2>5. 0 \in 0 .. MaxClock
    BY ClockBound
  <2>6. r \in Members
    BY <2>3, <2>4, <2>5 DEF Members
  <2>7. r.cur = new /\ r.tgt = d.tgt /\ r.obst = FALSE /\ r.obstTold = FALSE
    BY <2>3 DEF Members
  <2> HIDE DEF r
  <2>8. InSync(r)
    BY <2>7 DEF InSync
  <2> QED BY <2>6, <2>7, <2>8 DEF r
<1> QED BY <1>1, <1>2

LEMMA ExternalGood ==
  ASSUME NEW d \in Members, InSync(d),
         NEW tgt \in Targets, NEW new \in States
  PROVE  /\ External(d, tgt, new) \in Members
         /\ InSync(External(d, tgt, new))
         /\ External(d, tgt, new).cur = new
         /\ External(d, tgt, new).tgt = tgt
<1> DEFINE s == SetTgtState(d, tgt)
<1>1. s \in Members /\ InSync(s) /\ s.tgt = tgt
  BY DEF SetTgtState, Members, InSync
<1>2. External(d, tgt, new) = SetCurState(s, new)
  BY DEF External
<1> HIDE DEF s
<1> QED BY <1>1, <1>2, SetCurStateGood

LEMMA ObstructGood ==
  ASSUME NEW d \in Members, d.cur \in {"Opening", "Closing"}, InSync(d)
  PROVE  Good(Obstruct(d)) /\ Obstruct(d).cur = "Stopped"
<1> DEFINE o == [d EXCEPT !.obst = TRUE]
<1>1. o.cur = d.cur /\ o.obst = TRUE /\ d.cur # "Stopped"
  BY DEF Members
<1>2. SetCurState(o, "Stopped") =
        [o EXCEPT !.cur = "Stopped", !.clock = 0, !.obst = TRUE,
                  !.obstTold = TRUE, !.pre = d.cur]
  <2> HIDE DEF o
  <2> QED BY <1>1 DEF SetCurState
<1>3. o \in Members
  BY DEF Members
<1>4. Obstruct(d) = SetCurState(o, "Stopped")
  BY DEF Obstruct
<1>5. 0 \in 0 .. MaxClock
  BY ClockBound
<1> HIDE DEF o
<1> DEFINE r == Obstruct(d)
<1>6. r \in Members
  BY <1>2, <1>3, <1>4, <1>5 DEF Members, States
<1>7. r.cur = "Stopped" /\ r.obst = TRUE /\ r.obstTold = TRUE /\ r.pre = d.cur
  BY <1>2, <1>3, <1>4 DEF Members
<1> HIDE DEF r
<1>8. InSync(r) /\ Agree(r)
  BY <1>7 DEF InSync, Agree
<1> QED BY <1>6, <1>7, <1>8 DEF Good, r

\* One run of the state machine.
LEMMA RunOnceGood ==
  ASSUME NEW d0, Good(d0)
  PROVE  Good(RunOnce(d0))
<1> DEFINE d == IF BothActive THEN SetCurState(d0, "Stopped") ELSE d0
<1>1. Good(d)
  <2>1. CASE BothActive
    BY <2>1, SetCurStateGood DEF Good, Agree, States
  <2>2. CASE ~BothActive
    BY <2>2
  <2> QED BY <2>1, <2>2
<1>2. /\ d \in Members /\ InSync(d) /\ Agree(d) /\ d.cur \in States
  BY <1>1 DEF Good, Members
<1>3. RunOnce(d0) = CASE d.cur = "Open" -> OpenStep(d)
                      [] d.cur = "Closed" -> ClosedStep(d)
                      [] d.cur = "Opening" -> OpeningStep(d)
                      [] d.cur = "Closing" -> ClosingStep(d)
                      [] d.cur = "Stopped" -> StoppedStep(d)
  BY DEF RunOnce
<1> HIDE DEF d
<1>4. \A tgt \in Targets, new \in States :
        (new \in {"Open", "Opening"} => tgt = "Open")
        /\ (new \in {"Closed", "Closing"} => tgt = "Closed")
        => Good(External(d, tgt, new))
  BY <1>2, ExternalGood DEF Good, Agree
<1>5. CASE d.cur = "Open"
  <2>1. RunOnce(d0) = OpenStep(d) BY <1>3, <1>5
  <2> QED BY <2>1, <1>1, <1>4 DEF OpenStep, Targets, States
<1>6. CASE d.cur = "Closed"
  <2>1. RunOnce(d0) = ClosedStep(d) BY <1>3, <1>6
  <2> QED BY <2>1, <1>1, <1>4 DEF ClosedStep, Targets, States
<1>7. CASE d.cur = "Opening"
  <2>1. RunOnce(d0) = OpeningStep(d) BY <1>3, <1>7
  <2>2. Good(SetCurState(d, "Open"))
    BY <1>2, <1>7, SetCurStateGood DEF Good, Agree, States
  <2>3. Good(Obstruct(d)) BY <1>2, <1>7, ObstructGood
  <2> QED BY <2>1, <2>2, <2>3, <1>1, <1>4 DEF OpeningStep, Targets, States
<1>8. CASE d.cur = "Closing"
  <2>1. RunOnce(d0) = ClosingStep(d) BY <1>3, <1>8
  <2>2. Good(SetCurState(d, "Closed"))
    BY <1>2, <1>8, SetCurStateGood DEF Good, Agree, States
  <2>3. Good(Obstruct(d)) BY <1>2, <1>8, ObstructGood
  <2> QED BY <2>1, <2>2, <2>3, <1>1, <1>4 DEF ClosingStep, Targets, States
<1>9. CASE d.cur = "Stopped"
  <2>1. RunOnce(d0) = StoppedStep(d) BY <1>3, <1>9
  <2> QED BY <2>1, <1>1, <1>4 DEF StoppedStep, Targets, States
<1> QED BY <1>2, <1>5, <1>6, <1>7, <1>8, <1>9 DEF States

\* A run of the state machine never ends in a state that the sensors deny.
LEMMA RunOnceReports ==
  ASSUME NEW d0, Good(d0)
  PROVE  /\ RunOnce(d0).cur = "Closed" => IsClosed
         /\ RunOnce(d0).cur = "Open" => IsOpen # "no"
<1> DEFINE d == IF BothActive THEN SetCurState(d0, "Stopped") ELSE d0
<1>1. d \in Members /\ InSync(d) /\ d.cur \in States
  <2>1. CASE BothActive
    BY <2>1, SetCurStateGood DEF Good, States
  <2>2. CASE ~BothActive
    BY <2>2 DEF Good, Members
  <2> QED BY <2>1, <2>2
<1>2. RunOnce(d0) = CASE d.cur = "Open" -> OpenStep(d)
                      [] d.cur = "Closed" -> ClosedStep(d)
                      [] d.cur = "Opening" -> OpeningStep(d)
                      [] d.cur = "Closing" -> ClosingStep(d)
                      [] d.cur = "Stopped" -> StoppedStep(d)
  BY DEF RunOnce
<1> HIDE DEF d
<1>3. \A tgt \in Targets, new \in States : External(d, tgt, new).cur = new
  BY <1>1, ExternalGood
<1>4. \A new \in States : SetCurState(d, new).cur = new
  BY <1>1, SetCurStateGood
<1>5. d.cur \in {"Opening", "Closing"} => Obstruct(d).cur = "Stopped"
  BY <1>1, ObstructGood
<1>6. CASE d.cur = "Open"
  <2>1. RunOnce(d0) = OpenStep(d) BY <1>2, <1>6
  <2> QED BY <2>1, <1>3, <1>6 DEF OpenStep, Targets, States
<1>7. CASE d.cur = "Closed"
  <2>1. RunOnce(d0) = ClosedStep(d) BY <1>2, <1>7
  <2> QED BY <2>1, <1>3, <1>7 DEF ClosedStep, Targets, States
<1>8. CASE d.cur = "Opening"
  <2>1. RunOnce(d0) = OpeningStep(d) BY <1>2, <1>8
  <2> QED BY <2>1, <1>3, <1>4, <1>5, <1>8 DEF OpeningStep, Targets, States
<1>9. CASE d.cur = "Closing"
  <2>1. RunOnce(d0) = ClosingStep(d) BY <1>2, <1>9
  <2> QED BY <2>1, <1>3, <1>4, <1>5, <1>9 DEF ClosingStep, Targets, States
<1>10. CASE d.cur = "Stopped"
  <2>1. RunOnce(d0) = StoppedStep(d) BY <1>2, <1>10
  <2> QED BY <2>1, <1>3, <1>10 DEF StoppedStep, Targets, States
<1> QED BY <1>1, <1>6, <1>7, <1>8, <1>9, <1>10 DEF States

\* A toggle derives target and state from both, and they agree again.
LEMMA ToggledGood ==
  ASSUME NEW d, Good(d)
  PROVE  Good(Toggled(d))
<1>1. d \in Members /\ InSync(d) /\ Agree(d) /\ d.cur \in States
  BY DEF Good, Members
<1>2. \A tgt \in Targets, new \in States :
        (new \in {"Open", "Opening"} => tgt = "Open")
        /\ (new \in {"Closed", "Closing"} => tgt = "Closed")
        => Good(External(d, tgt, new))
  BY <1>1, ExternalGood DEF Good, Agree
<1>3. CASE d.cur = "Open"
  BY <1>1, <1>2, <1>3 DEF Toggled, Opposite, Agree, Targets, States
<1>4. CASE d.cur = "Closed"
  BY <1>1, <1>2, <1>4 DEF Toggled, Opposite, Agree, Targets, States
<1>5. CASE d.cur = "Opening"
  BY <1>1, <1>2, <1>5 DEF Toggled, Opposite, Agree, Targets, States
<1>6. CASE d.cur = "Closing"
  BY <1>1, <1>2, <1>6 DEF Toggled, Targets, States
<1>7. CASE d.cur = "Stopped"
  BY <1>1, <1>2, <1>7 DEF Toggled, Targets, States
<1> QED BY <1>1, <1>3, <1>4, <1>5, <1>6, <1>7 DEF States

LEMMA FreshGood == ASSUME NEW d \in Members, Fresh(d) PROVE Good(d)
BY DEF Fresh, Good, Agree, InSync, Members

Inv == /\ Good(door) /\ cfg \in Config /\ level \in Levels
       /\ pulse \subseteq {"close", "open"} /\ writes \in 0 .. MaxWrites

LEMMA InitInv == Init => Inv
BY FreshGood, WriteAssumption DEF Init, Inv, Levels

Aged == [door EXCEPT !.clock = IF @ < MaxClock THEN @ + 1 ELSE @]

LEMMA AgedGood == Inv => Good(Aged)
BY ClockBound DEF Inv, Aged, Good, Agree, InSync, Members

LEMMA ToggleInv == Inv /\ Toggle => Good(door') /\ pulse' \subseteq {"close", "open"}
<1> SUFFICES ASSUME Inv, Toggle
             PROVE  Good(door') /\ pulse' \subseteq {"close", "open"}
  OBVIOUS
<1>1. Good(Toggled(door)) BY ToggledGood DEF Inv
<1>2. Good(door') BY <1>1, RunOnceGood DEF Toggle
<1> QED BY <1>2 DEF Toggle, PulseOutput, Inv

LEMMA StepInv == Inv /\ [Next]_vars => Inv'
<1> SUFFICES ASSUME Inv, [Next]_vars PROVE Inv'
  OBVIOUS
<1> USE WriteAssumption DEF Inv
<1>1. CASE RPCToggle
  BY <1>1, ToggleInv DEF RPCToggle, Toggle
<1>2. CASE HAPToggle
  BY <1>2, ToggleInv DEF HAPToggle, Toggle
<1>3. ASSUME NEW value \in Targets, HAPTgtStateWrite(value) PROVE Inv'
  BY <1>3 DEF HAPTgtStateWrite
<1>4. CASE Timer
  <2>1. Good(Aged) /\ door' = RunOnce(Aged) BY <1>4, AgedGood DEF Timer, Aged
  <2>3. Good(door') BY <2>1, RunOnceGood
  <2> QED BY <1>4, <2>3 DEF Timer
<1>5. CASE PulseEnds
  BY <1>5 DEF PulseEnds
<1>6. CASE SetConfig
  BY <1>6 DEF SetConfig
<1>7. CASE Restart
  <2>1. door' \in Members /\ Fresh(door') BY <1>7 DEF Restart
  <2>2. Good(door') BY <2>1, FreshGood
  <2> QED BY <1>7, <2>2 DEF Restart
<1>8. CASE Sensors
  BY <1>8 DEF Sensors, Levels
<1>9. CASE UNCHANGED vars
  BY <1>9 DEF vars
<1> QED BY <1>1, <1>2, <1>3, <1>4, <1>5, <1>6, <1>7, <1>8, <1>9
        DEF Next, User, Loop

\* The inductive invariant: the members agree with each other after every
\* handler, whatever the sensors, the configuration and the users do.
THEOREM Invariant == Spec => []Inv
BY InitInv, StepInv, PTL DEF Spec

\* The members of GarageDoorOpener have their types; the target is never an
\* intermediate state.
THEOREM TypeCorrect == Spec => []TypeOK
<1>1. Inv => TypeOK BY DEF Inv, Good, TypeOK, Levels
<1> QED BY <1>1, Invariant, PTL

\* The target shown in Home agrees with the state of the door.
THEOREM TargetsAgree == Spec => []TargetAgrees
<1>1. Inv => TargetAgrees BY DEF Inv, Good, Agree, TargetAgrees
<1> QED BY <1>1, Invariant, PTL

\* Obstructions are of stopped doors, and Home knows of each.
THEOREM ObstructionsInSync == Spec => []ObstructionInSync
<1>1. Inv => ObstructionInSync BY DEF Inv, Good, InSync, ObstructionInSync
<1> QED BY <1>1, Invariant, PTL

\* No step but the making of a new object contradicts a sensor.
THEOREM SensorsReported == Spec => ReportsSensors
<1> DEFINE Reports ==
      ~Restart => /\ door'.cur = "Closed" /\ door.cur # "Closed" => IsClosed
                  /\ door'.cur = "Open" /\ door.cur # "Open" => IsOpen # "no"
<1>1. Inv /\ [Next]_vars => [Reports]_vars
  <2> SUFFICES ASSUME Inv, Next, ~Restart PROVE Reports
    BY DEF vars
  <2>1. CASE Toggle
    <3>1. Good(Toggled(door)) BY ToggledGood DEF Inv
    <3>2. door' = RunOnce(Toggled(door)) BY <2>1 DEF Toggle
    <3> QED BY <3>1, <3>2, RunOnceReports
  <2>2. CASE Timer
    <3>1. Good(Aged) /\ door' = RunOnce(Aged) BY <2>2, AgedGood DEF Timer, Aged
    <3> QED BY <3>1, RunOnceReports
  <2>3. CASE door' = door
    BY <2>3
  <2> QED BY <2>1, <2>2, <2>3
          DEF Next, User, Loop, RPCToggle, HAPToggle, HAPTgtStateWrite,
              PulseEnds, SetConfig, Sensors
<1>2. Spec => [][Reports]_vars
  BY <1>1, Invariant, PTL DEF Spec
<1> QED BY <1>2 DEF ReportsSensors
=============================================================================
