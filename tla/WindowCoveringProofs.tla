------------------------ MODULE WindowCoveringProofs ------------------------
(***************************************************************************)
(* The safety of the roller shutter for every travel, timing, set of       *)
(* targets and set of input modes.  Good(s) is the inductive invariant of  *)
(* the record of members; each lemma shows that one method preserves it,   *)
(* and the actions compose the methods.                                    *)
(***************************************************************************)
EXTENDS WindowCovering, TLAPS

Calibrating == CalStates \ {"PreCal0"}

\* The relays, state by state, unless a request has put the machine midway.
RelaysOK(s) ==
  ~s.jumped =>
    /\ ~s.overlap /\ ~(s.open /\ s.close)
    /\ s.calibrated => /\ s.open => s.dir = "open"
                       /\ s.close => s.dir = "close"
    /\ s.calibrated /\ s.state \in {"Idle", "PreCal0", "Move", "Stopping",
                                    "Error"} => ~s.open /\ ~s.close
    /\ s.state \in {"PostCal0", "PreCal1", "PostCal1"} => ~s.open /\ ~s.close
    /\ s.state = "Cal0" => ~s.close
    /\ s.state = "Cal1" => ~s.open

\* What is known of the configuration, in memory and in flash.
ConfigOK(s) ==
  ~s.jumped =>
    /\ s.state \in Calibrating => ~s.calibrated
    /\ s.flash.calibrated => /\ s.calibrated
                             /\ s.flash.moveTime # 0 /\ ~s.flash.moveNaN
    /\ s.calibrated \/ s.state = "PostCal1" => s.moveTime # 0 /\ ~s.moveNaN

\* States in which, and requests with which, a shutter that is where it is
\* told to be stays there.
Restful == {"Idle", "Stop", "Stopping", "Error"}
Resting(s) == /\ s.state \in Restful /\ s.tgtState \in Restful \cup {"None"}
              /\ s.tgt = s.cur

\* A failed move and a boot keep the shutter where it is.
HaltOK(s) ==
  /\ s.halt = "failed" =>
       \/ s.state \in {"Stop", "Stopping", "Idle"} /\ s.tgtState = "Error"
       \/ s.state = "Error" /\ s.tgtState = "None"
       \/ Resting(s)
  /\ s.halt = "boot" => Resting(s)

\* Before a run of the state machine, and after it.
Ready(s) ==
  /\ s \in Members /\ RelaysOK(s) /\ ConfigOK(s) /\ HaltOK(s)
  /\ s.state = "Cal1" /\ ~s.sampled /\ ~s.jumped => s.clock <= MaxRampUp

Good(s) ==
  /\ s \in Members /\ RelaysOK(s) /\ ConfigOK(s) /\ HaltOK(s)
  /\ s.state = "Cal1" /\ ~s.sampled /\ ~s.jumped => s.clock = 0

LEMMA GoodIsReady == ASSUME NEW s, Good(s) PROVE Ready(s)
BY TimeAssumption DEF Good, Ready

LEMMA TrimPosInTravel == ASSUME NEW p \in Int PROVE TrimPos(p) \in Positions
BY PositionAssumption DEF TrimPos, Positions, FullyClosed

LEMMA TooLongNat == ASSUME NEW t \in Nat PROVE TooLong(t) \in Int
BY TimeAssumption DEF TooLong

LEMMA ClockBound ==
  MaxClock \in Nat /\ MaxClock > MaxMoveTime /\ MaxClock > MaxRampUp
BY TimeAssumption, TooLongNat DEF MaxClock, Larger

LEMMA SetInternalStateType ==
  ASSUME NEW s \in Members, NEW st \in States
  PROVE  SetInternalState(s, st) \in Members
<1>1. 0 \in 0 .. MaxClock
  BY ClockBound
<1>2. [s EXCEPT !.state = st, !.clock = 0] \in Members
  BY <1>1 DEF Members
<1>3. QED
  BY <1>2 DEF SetInternalState

LEMMA DesiredDirection ==
  ASSUME NEW s \in Members
  PROVE  /\ GetDesiredMoveDirection(s) \in Directions
         /\ GetDesiredMoveDirection(s) # "none" => s.calibrated /\ s.tgt # s.cur
BY PositionAssumption DEF GetDesiredMoveDirection, Directions, Members, Positions, Abs, FullyClosed


LEMMA DriveType ==
  ASSUME NEW s \in Members, NEW o \in BOOLEAN, NEW c \in BOOLEAN
  PROVE  Drive(s, o, c) \in Members
<1> DEFINE v == s.overlap \/ (o /\ (s.close \/ c))
<1>1. v \in BOOLEAN
  OBVIOUS
<1>2. Drive(s, o, c) = [s EXCEPT !.open = o, !.close = c, !.overlap = v]
  BY DEF Drive, Members
<1> HIDE DEF v
<1>3. QED
  BY <1>1, <1>2 DEF Members

LEMMA SaveStateType ==
  ASSUME NEW s \in Members PROVE SaveState(s) \in Members
BY DEF SaveState, Members, Config

LEMMA SetTgtPosType ==
  ASSUME NEW s \in Members, NEW p \in Int PROVE SetTgtPos(s, p) \in Members
BY TrimPosInTravel DEF SetTgtPos, Members

LEMMA SetCurPosType ==
  ASSUME NEW s \in Members, NEW p \in Int PROVE SetCurPos(s, p) \in Members
BY TrimPosInTravel DEF SetCurPos, Members

LEMMA CommandType ==
  ASSUME NEW s \in Members, NEW p \in Int PROVE Command(s, p) \in Members
<1>1. SetTgtPos(s, p) \in Members
  BY SetTgtPosType
<1>2. QED
  BY <1>1 DEF Command, Members

LEMMA MoveType ==
  ASSUME NEW s \in Members, NEW d \in Directions PROVE Move(s, d) \in Members
<1> DEFINE t == Drive(s, s.calibrated /\ d = "open", s.calibrated /\ d = "close")
<1>1. t \in Members
  BY DriveType
<1>2. [t EXCEPT !.dir = d, !.lastDir = IF d = "none" THEN @ ELSE d] \in Members
  BY <1>1 DEF Members
<1>3. QED
  BY <1>2 DEF Move

\* A pending state is entered, and the jump into the middle noted.
LEMMA EnterGood ==
  ASSUME NEW s, Ready(s), s.state = "Idle", s.tgtState \notin {"None", "Idle"}
  PROVE  Good(IdleStep(s))
<1> DEFINE r == IdleStep(s)
           j == s.jumped \/ s.tgtState \in Midway
           e == SetInternalState(s, s.tgtState)
<1>1. s \in Members /\ s.tgtState \in States
  BY DEF Ready, Members
<1>2. e \in Members
  BY <1>1, SetInternalStateType
<1>3. j \in BOOLEAN
  OBVIOUS
<1>4. r = [e EXCEPT !.tgtState = "None", !.jumped = j]
  BY <1>1 DEF IdleStep, SetInternalState, Members
<1>5. /\ j => s.jumped \/ s.tgtState \in Midway
      /\ ~j => ~s.jumped /\ s.tgtState \notin Midway
  OBVIOUS
<1> HIDE DEF j
<1>6. r \in Members
  BY <1>2, <1>3, <1>4 DEF Members
<1>7. /\ r.state = s.tgtState /\ r.tgtState = "None" /\ r.jumped = j
      /\ r.overlap = s.overlap /\ r.open = s.open /\ r.close = s.close
      /\ r.calibrated = s.calibrated /\ r.dir = s.dir /\ r.flash = s.flash
      /\ r.moveTime = s.moveTime /\ r.moveNaN = s.moveNaN /\ r.halt = s.halt
      /\ r.tgt = s.tgt /\ r.cur = s.cur
  BY <1>1, <1>2, <1>3, <1>4 DEF SetInternalState, Members
<1> HIDE DEF r
<1>8. ~j => r.state \in {"PreCal0", "Move", "Stop", "Stopping", "Error"}
  BY <1>1, <1>5, <1>7 DEF States, CalStates, Midway
<1>9. RelaysOK(r)
  BY <1>5, <1>7, <1>8 DEF Ready, RelaysOK
<1>10. ConfigOK(r)
  BY <1>5, <1>7, <1>8 DEF Ready, ConfigOK, Calibrating, CalStates
<1>11. HaltOK(r)
  BY <1>7 DEF Ready, HaltOK, Resting, Restful, Resting, Restful
<1>12. Good(r)
  BY <1>6, <1>7, <1>8, <1>9, <1>10, <1>11 DEF Good
<1>13. QED
  BY <1>12 DEF r

LEMMA IdleStepGood ==
  ASSUME NEW s, Ready(s), s.state = "Idle"
  PROVE  Good(IdleStep(s))
<1> DEFINE r == IF GetDesiredMoveDirection(s) # "none"
                THEN SetInternalState(s, "Move") ELSE s
<1>1. s \in Members
  BY DEF Ready
<1>2. r \in Members
  BY <1>1, SetInternalStateType DEF States, CalStates
<1>3. GetDesiredMoveDirection(s) # "none" => s.tgt # s.cur
  BY <1>1, DesiredDirection
<1>4. CASE s.tgtState \in {"None", "Idle"}
  <2>1. RelaysOK(r)
    BY <1>1 DEF Ready, RelaysOK, SetInternalState, Members
  <2>2. ConfigOK(r)
    BY <1>1 DEF Ready, ConfigOK, SetInternalState, Members, Calibrating, CalStates
  <2>3. HaltOK(r)
    BY <1>1, <1>3, <1>4 DEF Ready, HaltOK, Resting, Restful, SetInternalState, Members
  <2>4. r.state # "Cal1"
    BY <1>1 DEF SetInternalState, Members
  <2>5. QED
    BY <1>2, <1>4, <2>1, <2>2, <2>3, <2>4 DEF Good, IdleStep
<1>5. QED
  BY <1>4, EnterGood

\* The beginning of a calibration: whatever was the case before, it is not now.
LEMMA PreCal0StepGood ==
  ASSUME NEW s, Ready(s), s.state = "PreCal0"
  PROVE  Good(PreCal0Step(s))
<1> DEFINE r == PreCal0Step(s)
           n == NewHistory(s)
           off == [Drive(n, FALSE, FALSE) EXCEPT !.calibrated = FALSE]
<1>1. s \in Members /\ n \in Members
  BY DEF Ready, NewHistory, Members
<1>2. Drive(n, FALSE, FALSE) \in Members
  BY <1>1, DriveType
<1>3. off \in Members
  BY <1>2 DEF Members
<1>4. SaveState(off) \in Members
  BY <1>3, SaveStateType
<1>5. r \in Members
  BY <1>4, DriveType, SetInternalStateType
     DEF PreCal0Step, States, CalStates
<1>6. /\ off.jumped = FALSE /\ off.overlap = FALSE /\ off.calibrated = FALSE
      /\ off.open = FALSE /\ off.close = FALSE /\ off.halt = s.halt
      /\ off.state = s.state
  BY <1>1, <1>2, <1>3 DEF NewHistory, Drive, Members
<1> HIDE DEF off, n
<1>7. /\ r.jumped = FALSE /\ r.overlap = FALSE /\ r.calibrated = FALSE
      /\ r.close = FALSE /\ r.state = "Cal0" /\ r.halt = s.halt
      /\ r.flash.calibrated = FALSE
  BY <1>3, <1>4, <1>6 DEF PreCal0Step, SaveState, Drive, SetInternalState, Members, off, n
<1>8. RelaysOK(r) /\ ConfigOK(r)
  BY <1>7 DEF RelaysOK, ConfigOK
<1>9. HaltOK(r)
  BY <1>7 DEF Ready, HaltOK, Resting, Restful, Resting, Restful
<1>10. QED
  BY <1>5, <1>7, <1>8, <1>9 DEF Good

LEMMA Cal0StepGood ==
  ASSUME NEW s, Ready(s), s.state = "Cal0", NEW p \in AllReadings
  PROVE  Good(Cal0Step(s, p))
<1> DEFINE r == Cal0Step(s, p)
<1>1. s \in Members
  BY DEF Ready
<1>2. s.close \in BOOLEAN
  BY <1>1 DEF Members
<1>3. Drive(s, FALSE, s.close) \in Members
  BY <1>1, <1>2, DriveType
<1>4. r \in Members
  BY <1>1, <1>3, SetInternalStateType DEF Cal0Step, States, CalStates
<1>0. ~s.jumped => ~s.calibrated
  BY DEF Ready, ConfigOK, Calibrating, CalStates
<1>5. RelaysOK(r)
  BY <1>0, <1>1 DEF Ready, RelaysOK, Cal0Step, Drive, SetInternalState, Members
<1>6. ConfigOK(r)
  BY <1>1 DEF Ready, ConfigOK, Cal0Step, Drive, SetInternalState, Members, Calibrating, CalStates
<1>7. HaltOK(r)
  BY <1>1 DEF Ready, HaltOK, Resting, Restful, Cal0Step, Drive, SetInternalState, Members
<1>8. r.state = "Cal1" /\ ~r.sampled /\ ~r.jumped => r.clock = 0
  BY <1>1 DEF Ready, Cal0Step, Drive, SetInternalState, Members
<1>9. QED
  BY <1>4, <1>5, <1>6, <1>7, <1>8 DEF Good

LEMMA PostCal0StepGood ==
  ASSUME NEW s, Ready(s), s.state = "PostCal0"
  PROVE  Good(PostCal0Step(s))
<1> DEFINE r == PostCal0Step(s)
<1>1. s \in Members
  BY DEF Ready
<1>4. r \in Members
  BY <1>1, DriveType, SetInternalStateType DEF PostCal0Step, States, CalStates
<1>5. RelaysOK(r)
  BY <1>1 DEF Ready, RelaysOK, PostCal0Step, Drive, SetInternalState, Members
<1>6. ConfigOK(r)
  BY <1>1 DEF Ready, ConfigOK, PostCal0Step, Drive, SetInternalState, Members, Calibrating, CalStates
<1>7. HaltOK(r)
  BY <1>1 DEF Ready, HaltOK, Resting, Restful, PostCal0Step, Drive, SetInternalState, Members
<1>8. r.state = "Cal1" /\ ~r.sampled /\ ~r.jumped => r.clock = 0
  BY <1>1 DEF Ready, PostCal0Step, Drive, SetInternalState, Members
<1>9. QED
  BY <1>4, <1>5, <1>6, <1>7, <1>8 DEF Good

LEMMA PreCal1StepGood ==
  ASSUME NEW s, Ready(s), s.state = "PreCal1"
  PROVE  Good(PreCal1Step(s))
<1> DEFINE r == PreCal1Step(s)
<1>1. s \in Members
  BY DEF Ready
<1>2. Drive(s, FALSE, TRUE) \in Members
  BY <1>1, DriveType
<1>3. [Drive(s, FALSE, TRUE) EXCEPT !.sampled = FALSE] \in Members
  BY <1>2 DEF Members
<1>4. r \in Members
  BY <1>3, SetInternalStateType DEF PreCal1Step, States, CalStates
<1>0. ~s.jumped => ~s.calibrated
  BY DEF Ready, ConfigOK, Calibrating, CalStates
<1>5. RelaysOK(r)
  BY <1>0, <1>1, <1>3 DEF Ready, RelaysOK, PreCal1Step, Drive, SetInternalState, Members
<1>6. ConfigOK(r)
  BY <1>1, <1>3 DEF Ready, ConfigOK, PreCal1Step, Drive, SetInternalState, Members, Calibrating, CalStates
<1>7. HaltOK(r)
  BY <1>1, <1>3 DEF Ready, HaltOK, Resting, Restful, PreCal1Step, Drive, SetInternalState, Members
<1>8. r.state = "Cal1" /\ ~r.sampled /\ ~r.jumped => r.clock = 0
  BY <1>1, <1>3 DEF Ready, PreCal1Step, Drive, SetInternalState, Members
<1>9. QED
  BY <1>4, <1>5, <1>6, <1>7, <1>8 DEF Good

LEMMA Cal1StepGood ==
  ASSUME NEW s, Ready(s), s.state = "Cal1", NEW p \in AllReadings
  PROVE  Good(Cal1Step(s, p))
<1> DEFINE r == Cal1Step(s, p)
<1>1. s \in Members
  BY DEF Ready
<1>a. MaxRampUp \in Nat /\ MaxMoveTime \in Nat \ {0}
  BY TimeAssumption
<1>b. s.open \in BOOLEAN /\ s.clock \in Nat
  BY <1>1, ClockBound DEF Members
<1> DEFINE t == IF s.clock > MaxMoveTime THEN MaxMoveTime ELSE s.clock
           n == ~s.sampled
           e == [Drive(s, s.open, FALSE) EXCEPT !.moveTime = t, !.moveNaN = n]
<1>c. t \in 0 .. MaxMoveTime
  BY <1>a, <1>b
<1>2. Drive(s, s.open, FALSE) \in Members /\ t \in 0 .. MaxMoveTime
  BY <1>1, <1>b, <1>c, DriveType
<1>3. e \in Members /\ [s EXCEPT !.sampled = TRUE] \in Members
  <2>1. n \in BOOLEAN
    OBVIOUS
  <2> HIDE DEF n, t
  <2>2. QED
    BY <1>1, <1>2, <2>1 DEF Members
<1>4. r \in Members
  BY <1>1, <1>3, SetInternalStateType DEF Cal1Step, States, CalStates
<1>0. ~s.jumped => ~s.calibrated
  BY DEF Ready, ConfigOK, Calibrating, CalStates
<1>5. RelaysOK(r)
  BY <1>0, <1>1, <1>2, <1>3, <1>a, <1>b DEF Ready, RelaysOK, Cal1Step, Drive, SetInternalState, Members
<1>6. ConfigOK(r)
  BY <1>1, <1>2, <1>3, <1>a, <1>b DEF Ready, ConfigOK, Cal1Step, Drive, SetInternalState, Members, Calibrating, CalStates
<1>7. HaltOK(r)
  BY <1>1, <1>2, <1>3, <1>a, <1>b DEF Ready, HaltOK, Resting, Restful, Cal1Step, Drive, SetInternalState, Members
<1>8. r.state = "Cal1" /\ ~r.sampled /\ ~r.jumped => r.clock = 0
  BY <1>1, <1>2, <1>3, <1>a, <1>b DEF Ready, Cal1Step, Drive, SetInternalState, Members
<1>9. QED
  BY <1>4, <1>5, <1>6, <1>7, <1>8 DEF Good

LEMMA PostCal1StepGood ==
  ASSUME NEW s, Ready(s), s.state = "PostCal1"
  PROVE  Good(PostCal1Step(s))
<1> DEFINE r == PostCal1Step(s)
<1>1. s \in Members
  BY DEF Ready
<1> DEFINE c == SetCurPos([s EXCEPT !.calibrated = TRUE], FullyClosed)
           done == SaveState(c)
<1>a. FullyClosed \in Int /\ (FullyOpen - FullyClosed) \div 2 \in Int
  BY PositionAssumption DEF FullyClosed
<1>2. [s EXCEPT !.calibrated = TRUE] \in Members
  BY <1>1 DEF Members
<1>3. c \in Members /\ done \in Members
  BY <1>2, <1>a, SetCurPosType, SaveStateType
<1>4. r \in Members
  BY <1>3, <1>a, CommandType, SetInternalStateType
     DEF PostCal1Step, States, CalStates
<1>5. RelaysOK(r)
  BY <1>1, <1>2, <1>3 DEF Ready, RelaysOK, PostCal1Step, Command, SetTgtPos, SetCurPos, SaveState, SetInternalState, Members
<1>6. ConfigOK(r)
  BY <1>1, <1>2, <1>3 DEF Ready, ConfigOK, PostCal1Step, Command, SetTgtPos, SetCurPos, SaveState, SetInternalState, Members, Calibrating, CalStates
<1>7. HaltOK(r)
  BY <1>1, <1>2, <1>3 DEF Ready, HaltOK, Resting, Restful, PostCal1Step, Command, SetTgtPos, SetCurPos, SaveState, SetInternalState, Members
<1>8. r.state = "Cal1" /\ ~r.sampled /\ ~r.jumped => r.clock = 0
  BY <1>1, <1>2, <1>3 DEF Ready, PostCal1Step, Command, SetTgtPos, SetCurPos, SaveState, SetInternalState, Members
<1>9. QED
  BY <1>4, <1>5, <1>6, <1>7, <1>8 DEF Good

LEMMA MoveStepGood ==
  ASSUME NEW s, Ready(s), s.state = "Move"
  PROVE  Good(MoveStep(s))
<1> DEFINE r == MoveStep(s)
<1>1. s \in Members
  BY DEF Ready
<1> DEFINE d == GetDesiredMoveDirection(s)
           b == [s EXCEPT !.obst = FALSE, !.start = s.cur, !.obstClock = -1]
<1>0. /\ d \in Directions
      /\ d # "none" => s.calibrated /\ (~s.jumped => ~s.open /\ ~s.close)
  BY <1>1, DesiredDirection DEF Ready, RelaysOK
<1>a. s.cur \in Positions /\ -1 \in -1 .. ObstructionTime + 1
  BY <1>1, TimeAssumption DEF Members
<1>2. b \in Members
  BY <1>1, <1>a DEF Members
<1>3. Move(b, d) \in Members
  BY <1>0, <1>2, MoveType
<1>4. r \in Members
  BY <1>1, <1>3, SetInternalStateType DEF MoveStep, States, CalStates
<1>5. RelaysOK(r)
  BY <1>1, <1>0, <1>2 DEF Ready, RelaysOK, MoveStep, Move, Drive, SetInternalState, Members
<1>6. ConfigOK(r)
  BY <1>1, <1>0, <1>2 DEF Ready, ConfigOK, MoveStep, Move, Drive, SetInternalState, Members, Calibrating, CalStates
<1>7. HaltOK(r)
  BY <1>1, <1>0, <1>2 DEF Ready, HaltOK, Resting, Restful, MoveStep, Move, Drive, SetInternalState, Members
<1>8. r.state = "Cal1" /\ ~r.sampled /\ ~r.jumped => r.clock = 0
  BY <1>1, <1>0, <1>2 DEF Ready, MoveStep, Move, Drive, SetInternalState, Members
<1>9. QED
  BY <1>4, <1>5, <1>6, <1>7, <1>8 DEF Good

\* What the failure exits of kRampUp and kMoving leave behind.
LEMMA FailGood ==
  ASSUME NEW s, Ready(s), s.state \in {"RampUp", "Moving"}
  PROVE  Good(Fail(s))
<1> DEFINE r == Fail(s)
<1>1. s \in Members
  BY DEF Ready
<1>2. [s EXCEPT !.tgtState = "Error", !.halt = "failed"] \in Members
  BY <1>1 DEF Members, States
<1>4. r \in Members
  BY <1>2, SetInternalStateType DEF Fail, States, CalStates
<1>5. RelaysOK(r)
  BY <1>1 DEF Ready, RelaysOK, Fail, SetInternalState, Members
<1>6. ConfigOK(r)
  BY <1>1 DEF Ready, ConfigOK, Fail, SetInternalState, Members, Calibrating, CalStates
<1>7. HaltOK(r)
  BY <1>1 DEF Ready, HaltOK, Resting, Restful, Fail, SetInternalState, Members
<1>8. r.state = "Cal1" /\ ~r.sampled /\ ~r.jumped => r.clock = 0
  BY <1>1 DEF Ready, Fail, SetInternalState, Members
<1>9. QED
  BY <1>4, <1>5, <1>6, <1>7, <1>8 DEF Good

LEMMA HaltGood ==
  ASSUME NEW s, Ready(s), s.state = "Moving"
  PROVE  Good(Halt(s))
<1> DEFINE r == Halt(s)
<1>1. s \in Members
  BY DEF Ready
<1>2. Move(s, "none") \in Members
  BY <1>1, MoveType DEF Directions
<1>4. r \in Members
  BY <1>2, SetInternalStateType DEF Halt, States, CalStates
<1>5. RelaysOK(r)
  BY <1>1 DEF Ready, RelaysOK, Halt, Move, Drive, SetInternalState, Members
<1>6. ConfigOK(r)
  BY <1>1 DEF Ready, ConfigOK, Halt, Move, Drive, SetInternalState, Members, Calibrating, CalStates
<1>7. HaltOK(r)
  BY <1>1 DEF Ready, HaltOK, Resting, Restful, Halt, Move, Drive, SetInternalState, Members
<1>8. r.state = "Cal1" /\ ~r.sampled /\ ~r.jumped => r.clock = 0
  BY <1>1 DEF Ready, Halt, Move, Drive, SetInternalState, Members
<1>9. QED
  BY <1>4, <1>5, <1>6, <1>7, <1>8 DEF Good

LEMMA RampUpStepGood ==
  ASSUME NEW s, Ready(s), s.state = "RampUp", NEW p \in AllReadings
  PROVE  Good(RampUpStep(s, p))
<1> DEFINE r == RampUpStep(s, p)
<1>1. s \in Members
  BY DEF Ready
<1>2. Good(Fail(s))
  BY FailGood
<1>4. r \in Members
  BY <1>1, <1>2, SetInternalStateType DEF RampUpStep, States, CalStates, Good
<1>5. RelaysOK(r)
  BY <1>1 DEF Ready, RelaysOK, RampUpStep, Fail, SetInternalState, Members
<1>6. ConfigOK(r)
  BY <1>1 DEF Ready, ConfigOK, RampUpStep, Fail, SetInternalState, Members, Calibrating, CalStates
<1>7. HaltOK(r)
  BY <1>1 DEF Ready, HaltOK, Resting, Restful, RampUpStep, Fail, SetInternalState, Members
<1>8. r.state = "Cal1" /\ ~r.sampled /\ ~r.jumped => r.clock = 0
  BY <1>1 DEF Ready, RampUpStep, Fail, SetInternalState, Members
<1>9. QED
  BY <1>4, <1>5, <1>6, <1>7, <1>8 DEF Good

\* What kMoving does before it decides.
LEMMA SetCurPosReady ==
  ASSUME NEW s, Ready(s), s.state = "Moving", NEW q \in Int
  PROVE  Ready(SetCurPos(s, q)) /\ SetCurPos(s, q).state = "Moving" /\ SetCurPos(s, q).dir = s.dir
<1> DEFINE r == SetCurPos(s, q)
<1>1. s \in Members
  BY DEF Ready
<1>2. r \in Members
  BY <1>1, SetCurPosType
<1>3. RelaysOK(r) /\ ConfigOK(r) /\ HaltOK(r) /\ r.state = "Moving" /\ r.dir = s.dir
  BY <1>1 DEF Ready, RelaysOK, ConfigOK, HaltOK, Resting, Restful, SetCurPos, Members, Calibrating, CalStates
<1>4. QED
  BY <1>2, <1>3 DEF Ready

LEMMA TrackPowerReady ==
  ASSUME NEW s, Ready(s), s.state = "Moving", NEW p \in AllReadings
  PROVE  Ready(TrackPower(s, p)) /\ TrackPower(s, p).state = "Moving" /\ TrackPower(s, p).dir = s.dir
<1> DEFINE r == TrackPower(s, p)
<1>1. s \in Members
  BY DEF Ready
<1>2. r \in Members
  <2>1. -1 \in -1 .. ObstructionTime + 1 /\ 0 \in -1 .. ObstructionTime + 1
    BY TimeAssumption
  <2>2. QED
    BY <1>1, <2>1 DEF TrackPower, Members
<1>3. RelaysOK(r) /\ ConfigOK(r) /\ HaltOK(r) /\ r.state = "Moving" /\ r.dir = s.dir
  BY <1>1 DEF Ready, RelaysOK, ConfigOK, HaltOK, Resting, Restful, TrackPower, Members, Calibrating, CalStates
<1>4. QED
  BY <1>2, <1>3 DEF Ready

LEMMA ObstructionReady ==
  ASSUME NEW s, Ready(s), s.state = "Moving"
  PROVE  Ready([s EXCEPT !.obst = TRUE]) /\ [s EXCEPT !.obst = TRUE].state = "Moving" /\ [s EXCEPT !.obst = TRUE].dir = s.dir
<1> DEFINE r == [s EXCEPT !.obst = TRUE]
<1>1. s \in Members
  BY DEF Ready
<1>2. r \in Members
  BY <1>1 DEF Members
<1>3. RelaysOK(r) /\ ConfigOK(r) /\ HaltOK(r) /\ r.state = "Moving" /\ r.dir = s.dir
  BY <1>1 DEF Ready, RelaysOK, ConfigOK, HaltOK, Resting, Restful, Ready, Members, Calibrating, CalStates
<1>4. QED
  BY <1>2, <1>3 DEF Ready

LEMMA FixupReady ==
  ASSUME NEW s, Ready(s), s.state = "Moving"
  PROVE  Ready(Fixup(s)) /\ Fixup(s).state = "Moving" /\ Fixup(s).dir = s.dir
<1> DEFINE r == Fixup(s)
<1>1. s \in Members
  BY DEF Ready
<1>2. r \in Members
  <2>1. s.cur \in Int
    BY <1>1, PositionAssumption DEF Members, Positions, FullyClosed
  <2>2. SetTgtPos(s, s.cur) \in Members
    BY <1>1, <2>1, SetTgtPosType
  <2>3. QED
    BY <1>1, <2>2 DEF Fixup
<1>3. RelaysOK(r) /\ ConfigOK(r) /\ HaltOK(r) /\ r.state = "Moving" /\ r.dir = s.dir
  BY <1>1 DEF Ready, RelaysOK, ConfigOK, HaltOK, Resting, Restful, Fixup, SetTgtPos, Members, Calibrating, CalStates
<1>4. QED
  BY <1>2, <1>3 DEF Ready

LEMMA NewCurPosInt ==
  ASSUME NEW s, Ready(s), s.state = "Moving"
  PROVE  NewCurPos(s) \in Int
<1>1. s.clock \in Nat /\ s.moveTime \in Nat /\ s.start \in Int
  BY ClockBound, TimeAssumption, PositionAssumption
     DEF Ready, Members, Positions, FullyClosed
<1>2. s.clock * FullyOpen \in Int /\ FullyOpen \in Int
  BY <1>1, PositionAssumption
<1>3. s.moveTime # 0 => (s.clock * FullyOpen) \div s.moveTime \in Int
  BY <1>1, <1>2
<1>4. QED
  BY <1>1, <1>2, <1>3 DEF NewCurPos

LEMMA MovingStepGood ==
  ASSUME NEW s, Ready(s), s.state = "Moving", NEW p \in AllReadings
  PROVE  Good(MovingStep(s, p))
<1> DEFINE m == TrackPower(SetCurPos(s, NewCurPos(s)), p)
           limit == IF s.dir = "open" THEN FullyOpen ELSE FullyClosed
<1>1. /\ Ready(SetCurPos(s, NewCurPos(s)))
      /\ SetCurPos(s, NewCurPos(s)).state = "Moving"
  BY NewCurPosInt, SetCurPosReady
<1>2. Ready(m) /\ m.state = "Moving"
  BY <1>1, TrackPowerReady
<1>3. Good(m)
  BY <1>2 DEF Ready, Good
<1>4. Good(Fail(s)) /\ Good(Fail([m EXCEPT !.obst = TRUE]))
  BY <1>2, FailGood, ObstructionReady
<1>5. limit \in Int
  BY PositionAssumption DEF FullyClosed
<1>6. Good(Halt(SetCurPos(m, limit)))
  BY <1>2, <1>5, SetCurPosReady, HaltGood
<1>7. Good(Halt(Fixup(m)))
  BY <1>2, FixupReady, HaltGood
<1>8. QED
  BY <1>3, <1>4, <1>6, <1>7 DEF MovingStep

LEMMA StopStepGood ==
  ASSUME NEW s, Ready(s), s.state = "Stop"
  PROVE  Good(StopStep(s))
<1> DEFINE r == StopStep(s)
<1>1. s \in Members
  BY DEF Ready
<1>2. Move(s, "none") \in Members
  BY <1>1, MoveType DEF Directions
<1>3. SaveState(Move(s, "none")) \in Members
  BY <1>2, SaveStateType
<1>4. r \in Members
  BY <1>3, SetInternalStateType DEF StopStep, States, CalStates
<1>5. RelaysOK(r)
  BY <1>1, <1>2, <1>3 DEF Ready, RelaysOK, StopStep, Move, Drive, SaveState, SetInternalState, Members
<1>6. ConfigOK(r)
  BY <1>1, <1>2, <1>3 DEF Ready, ConfigOK, StopStep, Move, Drive, SaveState, SetInternalState, Members, Calibrating, CalStates
<1>7. HaltOK(r)
  BY <1>1, <1>2, <1>3 DEF Ready, HaltOK, Resting, Restful, StopStep, Move, Drive, SaveState, SetInternalState, Members
<1>8. r.state = "Cal1" /\ ~r.sampled /\ ~r.jumped => r.clock = 0
  BY <1>1, <1>2, <1>3 DEF Ready, StopStep, Move, Drive, SaveState, SetInternalState, Members
<1>9. QED
  BY <1>4, <1>5, <1>6, <1>7, <1>8 DEF Good

LEMMA StoppingStepGood ==
  ASSUME NEW s, Ready(s), s.state = "Stopping", NEW pw \in PowerPair
  PROVE  Good(StoppingStep(s, pw))
<1> DEFINE r == StoppingStep(s, pw)
<1>1. s \in Members
  BY DEF Ready
<1>4. r \in Members
  BY <1>1, SetInternalStateType DEF StoppingStep, States, CalStates
<1>5. RelaysOK(r)
  BY <1>1 DEF Ready, RelaysOK, StoppingStep, SetInternalState, Members
<1>6. ConfigOK(r)
  BY <1>1 DEF Ready, ConfigOK, StoppingStep, SetInternalState, Members, Calibrating, CalStates
<1>7. HaltOK(r)
  BY <1>1 DEF Ready, HaltOK, Resting, Restful, StoppingStep, SetInternalState, Members
<1>8. r.state = "Cal1" /\ ~r.sampled /\ ~r.jumped => r.clock = 0
  BY <1>1 DEF Ready, StoppingStep, SetInternalState, Members
<1>9. QED
  BY <1>4, <1>5, <1>6, <1>7, <1>8 DEF Good

LEMMA ErrorStepGood ==
  ASSUME NEW s, Ready(s), s.state = "Error"
  PROVE  Good(ErrorStep(s))
<1> DEFINE r == ErrorStep(s)
<1>1. s \in Members
  BY DEF Ready
<1>a. s.cur \in Positions /\ TrimPos(s.cur) = s.cur
  BY <1>1, PositionAssumption DEF Members, Positions, FullyClosed, TrimPos
<1>2. Move(s, "none") \in Members
  BY <1>1, MoveType DEF Directions
<1>3. /\ Move(s, "none").cur \in Int
      /\ SetTgtPos(Move(s, "none"), Move(s, "none").cur) \in Members
  <2>1. Move(s, "none").cur \in Positions
    BY <1>2 DEF Members
  <2>2. Move(s, "none").cur \in Int
    BY <2>1, PositionAssumption DEF Positions, FullyClosed
  <2>3. QED
    BY <1>2, <2>2, SetTgtPosType
<1>4. r \in Members
  BY <1>3, SetInternalStateType DEF ErrorStep, States, CalStates
<1>5. RelaysOK(r)
  BY <1>1, <1>2, <1>3, <1>a DEF Ready, RelaysOK, ErrorStep, Move, Drive, SetTgtPos, SetInternalState, Members
<1>6. ConfigOK(r)
  BY <1>1, <1>2, <1>3, <1>a DEF Ready, ConfigOK, ErrorStep, Move, Drive, SetTgtPos, SetInternalState, Members, Calibrating, CalStates
<1>7. HaltOK(r)
  BY <1>1, <1>2, <1>3, <1>a DEF Ready, HaltOK, Resting, Restful, ErrorStep, Move, Drive, SetTgtPos, SetInternalState, Members
<1>8. r.state = "Cal1" /\ ~r.sampled /\ ~r.jumped => r.clock = 0
  BY <1>1, <1>2, <1>3, <1>a DEF Ready, ErrorStep, Move, Drive, SetTgtPos, SetInternalState, Members
<1>9. QED
  BY <1>4, <1>5, <1>6, <1>7, <1>8 DEF Good

\* One run of the state machine, whatever its state.
LEMMA RunOnceGood ==
  ASSUME NEW s, Ready(s), NEW pw \in PowerPair
  PROVE  Good(RunOnce(s, pw))
<1>1. s.state \in States
  BY DEF Ready, Members
<1>2. pw.open \in AllReadings /\ pw.close \in AllReadings
  BY ReadingAssumption DEF PowerPair
<1>3. ActivePM(s, pw) \in AllReadings
  BY <1>2 DEF ActivePM
<1>4. CASE s.state \in CalStates
  BY <1>2, <1>4, PreCal0StepGood, Cal0StepGood, PostCal0StepGood,
     PreCal1StepGood, Cal1StepGood, PostCal1StepGood DEF RunOnce, CalStates
<1>5. CASE s.state \in {"Idle", "Stop", "Stopping", "Error"}
  BY <1>5, IdleStepGood, StopStepGood, StoppingStepGood, ErrorStepGood
     DEF RunOnce
<1>6. CASE s.state \in {"Move", "RampUp", "Moving"}
  BY <1>3, <1>6, MoveStepGood, RampUpStepGood, MovingStepGood DEF RunOnce
<1>7. QED
  BY <1>1, <1>4, <1>5, <1>6 DEF States

-----------------------------------------------------------------------------
(***************************************************************************)
(* The commands.                                                           *)
(***************************************************************************)
LEMMA PosInt == ASSUME NEW s \in Members
                PROVE  /\ s.cur \in Int /\ s.cur + Pct \in Int
                       /\ s.cur - Pct \in Int
<1>1. s.cur \in Positions
  BY DEF Members
<1>2. QED
  BY <1>1, PositionAssumption DEF Positions, FullyClosed

LEMMA LimitsInt == FullyClosed \in Int /\ FullyOpen \in Int
BY PositionAssumption DEF FullyClosed

LEMMA CommandGood ==
  ASSUME NEW s, Good(s), NEW p \in Int
  PROVE  Good(Command(s, p))
<1> DEFINE r == Command(s, p)
<1>1. s \in Members
  BY DEF Good
<1>2. r \in Members
  BY <1>1, CommandType
<1>3. RelaysOK(r) /\ ConfigOK(r)
  BY <1>1 DEF Good, RelaysOK, ConfigOK, Command, SetTgtPos, Members, Calibrating, CalStates
<1>4. HaltOK(r) /\ (r.state = "Cal1" /\ ~r.sampled /\ ~r.jumped => r.clock = 0)
  BY <1>1 DEF Good, HaltOK, Resting, Restful, Command, SetTgtPos, Members
<1>5. QED
  BY <1>2, <1>3, <1>4 DEF Good

LEMMA AgedReady ==
  ASSUME NEW s, Good(s), NEW d \in 1 .. MaxStall
  PROVE  Ready(Aged(s, d))
<1> DEFINE r == Aged(s, d)
<1>1. s \in Members
  BY DEF Good
<1>2. /\ d \in Nat \ {0} /\ d <= MaxRampUp /\ MaxRampUp \in Nat
      /\ ObstructionTime \in Nat /\ MaxClock \in Nat
  BY TimeAssumption, StallAssumption, ClockBound
<1>3. s.clock \in 0 .. MaxClock /\ s.obstClock \in -1 .. ObstructionTime + 1
  BY <1>1 DEF Members
<1> DEFINE c == IF s.clock + d > MaxClock THEN MaxClock ELSE s.clock + d
           o == IF s.obstClock = -1 THEN -1
                ELSE IF s.obstClock + d > ObstructionTime + 1
                THEN ObstructionTime + 1 ELSE s.obstClock + d
<1>4. c \in 0 .. MaxClock /\ o \in -1 .. ObstructionTime + 1
  BY <1>2, <1>3
<1>5. /\ [s EXCEPT !.clock = c, !.obstClock = o] \in Members
      /\ [s EXCEPT !.obstClock = o] \in Members
  <2> HIDE DEF c, o
  <2>1. QED
    BY <1>1, <1>4 DEF Members
<1>6. r \in Members
  <2>1. r = IF s.state \in {"Cal0", "Cal1", "RampUp", "Moving"}
            THEN [s EXCEPT !.clock = c, !.obstClock = o]
            ELSE [s EXCEPT !.obstClock = o]
    BY <1>1 DEF Aged, Members
  <2>2. QED
    BY <1>5, <2>1
<1>7. RelaysOK(r) /\ ConfigOK(r)
  BY <1>1 DEF Good, RelaysOK, ConfigOK, Aged, Members
<1>8. HaltOK(r)
  BY <1>1 DEF Good, HaltOK, Resting, Restful, Aged, Members
<1>9. r.state = "Cal1" /\ ~r.sampled /\ ~r.jumped => r.clock <= MaxRampUp
  BY <1>1, <1>2 DEF Good, Aged, Members
<1>10. QED
  BY <1>6, <1>7, <1>8, <1>9 DEF Ready

\* Members that no part of the invariant constrains beyond their type.
LEMMA FreeMembersGood ==
  ASSUME NEW s, Good(s)
  PROVE  /\ \A b \in BOOLEAN : Good([s EXCEPT !.hapFresh = b])
         /\ \A d \in Directions : Good([s EXCEPT !.lastDir = d])
         /\ \A h \in {"no", "held", "tapped"} : Good([s EXCEPT !.halt = h])
<1>1. s \in Members
  BY DEF Good
<1>2. ASSUME NEW b \in BOOLEAN PROVE Good([s EXCEPT !.hapFresh = b])
  <2>1. [s EXCEPT !.hapFresh = b] \in Members
    BY <1>1 DEF Members
  <2>2. QED
    BY <1>1, <2>1 DEF Good, RelaysOK, ConfigOK, HaltOK, Resting, Restful, Members
<1>3. ASSUME NEW d \in Directions PROVE Good([s EXCEPT !.lastDir = d])
  <2>1. [s EXCEPT !.lastDir = d] \in Members
    BY <1>1 DEF Members
  <2>2. QED
    BY <1>1, <2>1 DEF Good, RelaysOK, ConfigOK, HaltOK, Resting, Restful, Members
<1>4. ASSUME NEW h \in {"no", "held", "tapped"}
      PROVE  Good([s EXCEPT !.halt = h])
  <2>1. [s EXCEPT !.halt = h] \in Members
    BY <1>1 DEF Members
  <2>2. QED
    BY <1>1, <2>1 DEF Good, RelaysOK, ConfigOK, HaltOK, Resting, Restful, Members
<1>5. QED
  BY <1>2, <1>3, <1>4

LEMMA TappedGood ==
  ASSUME NEW s, Good(s), NEW p \in Int
  PROVE  Good(Tapped(s, p))
<1> DEFINE t == Command(s, p)
           h == IF s.state = "Moving" THEN "tapped" ELSE t.halt
<1>1. Good(t)
  BY CommandGood
<1>2. s \in Members /\ SetTgtPos(s, p) \in Members
  BY SetTgtPosType DEF Good
<1>3. t.halt = "no"
  BY <1>2 DEF Command, Members
<1>4. Good([t EXCEPT !.halt = h])
  BY <1>1, <1>3, FreeMembersGood
<1>5. QED
  BY <1>4 DEF Tapped

LEMMA HandleInputSingleGood ==
  ASSUME NEW s, Good(s)
  PROVE  Good(HandleInputSingle(s))
<1>1. s \in Members /\ s.dir \in Directions
  BY DEF Good, Members
<1>2. Good(Tapped(s, s.cur + Pct)) /\ Good(Tapped(s, s.cur - Pct))
  BY <1>1, PosInt, TappedGood
<1>3. Good(Command(s, FullyOpen)) /\ Good(Command(s, FullyClosed))
  BY LimitsInt, CommandGood
<1>4. QED
  BY <1>1, <1>2, <1>3 DEF HandleInputSingle, Directions

LEMMA ChooseHapTargetGood ==
  ASSUME NEW s, Good(s), NEW value \in Int
  PROVE  Good(ChooseHapTarget(s, value))
BY CommandGood, HandleInputSingleGood DEF ChooseHapTarget

LEMMA NotCalibratedGood ==
  ASSUME NEW s, Good(s), ~s.calibrated,
         NEW inOpen \in BOOLEAN, NEW inClose \in BOOLEAN
  PROVE  Good(HandleInputEventNotCalibrated(s, inOpen, inClose))
<1> DEFINE forbidden == \/ inOpen /\ inClose
                        \/ inOpen /\ s.close
                        \/ inClose /\ s.open
           wantOpen == inOpen /\ ~forbidden
           wantClose == inClose /\ ~forbidden
           r == Drive(s, wantOpen, wantClose)
<1>1. s \in Members /\ s.open \in BOOLEAN /\ s.close \in BOOLEAN
  BY DEF Good, Members
<1>2. wantOpen \in BOOLEAN /\ wantClose \in BOOLEAN
  BY <1>1
<1>3. ~(wantOpen /\ wantClose) /\ ~(wantOpen /\ s.close)
  BY <1>1
<1>4. r \in Members
  BY <1>1, <1>2, DriveType
<1>5. ASSUME s.state = "Idle" PROVE Good(r)
  <2> HIDE DEF wantOpen, wantClose
  <2>1. RelaysOK(r)
    BY <1>1, <1>2, <1>3, <1>5 DEF Good, RelaysOK, Drive, Members
  <2>2. ConfigOK(r) /\ HaltOK(r) /\ r.state # "Cal1"
    BY <1>1, <1>5 DEF Good, ConfigOK, HaltOK, Resting, Restful, Drive, Members, Calibrating
  <2>3. QED
    BY <1>4, <2>1, <2>2 DEF Good
<1>6. QED
  BY <1>5 DEF HandleInputEventNotCalibrated

LEMMA RunOnceKeeps ==
  ASSUME NEW s, Good(s), NEW pw \in PowerPair
  PROVE  Good(RunOnce(s, pw))
BY GoodIsReady, RunOnceGood

LEMMA StopHereGood ==
  ASSUME NEW s, Good(s), NEW pw \in PowerPair
  PROVE  Good(StopHere(s, pw))
<1> DEFINE now == RunOnce(s, pw)
<1>1. Good(now)
  BY RunOnceKeeps
<1>2. now.cur \in Int
  BY <1>1, PosInt DEF Good
<1>3. Good(RunOnce(Command(now, now.cur), pw))
  BY <1>1, <1>2, CommandGood, RunOnceKeeps
<1>4. QED
  BY <1>3 DEF StopHere

LEMMA HandleInputEvent01Good ==
  ASSUME NEW s, Good(s), NEW dir \in {"open", "close"}, NEW level \in BOOLEAN,
         NEW pw \in PowerPair
  PROVE  Good(HandleInputEvent01(s, dir, level, pw))
<1> DEFINE limit == IF dir = "open" THEN FullyOpen ELSE FullyClosed
           t == [s EXCEPT !.lastDir = dir]
<1>1. Good(t)
  BY FreeMembersGood DEF Directions
<1>2. Good(RunOnce(Command(t, limit), pw))
  BY <1>1, LimitsInt, CommandGood, RunOnceKeeps
<1>3. QED
  BY <1>2, StopHereGood, RunOnceKeeps DEF HandleInputEvent01

-----------------------------------------------------------------------------
LEMMA FreshGood ==
  ASSUME NEW cfg \in Config, NEW mode \in InModes, NEW recent \in BOOLEAN,
         NEW j \in BOOLEAN,
         ~j /\ cfg.calibrated => cfg.moveTime # 0 /\ ~cfg.moveNaN
  PROVE  /\ Good([Fresh(cfg, mode, recent) EXCEPT !.jumped = j])
         /\ ~j => Good(Fresh(cfg, mode, recent))
<1> DEFINE f == Fresh(cfg, mode, recent)
           r == [f EXCEPT !.jumped = j]
<1>1. /\ 0 \in 0 .. MaxClock /\ -1 \in -1 .. ObstructionTime + 1
      /\ 0 \in Positions
  BY ClockBound, TimeAssumption, PositionAssumption DEF Positions, FullyClosed
<1>2. f \in Members
  BY <1>1 DEF Fresh, Members, Config, States, Directions
<1>3. /\ f.state = "Idle" /\ f.tgtState = "None" /\ f.tgt = f.cur
      /\ ~f.open /\ ~f.close /\ ~f.overlap /\ f.jumped = FALSE
      /\ f.calibrated = cfg.calibrated /\ f.flash = cfg
      /\ f.moveTime = cfg.moveTime /\ f.moveNaN = cfg.moveNaN
  BY DEF Fresh
<1> HIDE DEF f
<1>4. r \in Members
  BY <1>2 DEF Members
<1>5. HaltOK(f) /\ (~j => RelaysOK(f) /\ ConfigOK(f))
  BY <1>3 DEF RelaysOK, ConfigOK, HaltOK, Resting, Restful, Calibrating, CalStates
<1>6. RelaysOK(r) /\ ConfigOK(r) /\ HaltOK(r)
  BY <1>2, <1>3 DEF RelaysOK, ConfigOK, HaltOK, Resting, Restful, Calibrating, CalStates, Members
<1>7. r.state # "Cal1"
  BY <1>2, <1>3 DEF Members
<1>8. Good(r) /\ (~j => Good(f))
  BY <1>2, <1>3, <1>4, <1>5, <1>6, <1>7 DEF Good
<1>9. QED
  BY <1>8 DEF f

LEMMA InitGood == Init => Good(wc)
<1> SUFFICES ASSUME NEW cfg \in Config, NEW mode \in InModes,
                    cfg.calibrated => cfg.moveTime > MaxRampUp, ~cfg.moveNaN,
                    wc = Fresh(cfg, mode, TRUE)
             PROVE  Good(wc)
  BY DEF Init
<1>1. cfg.moveTime > MaxRampUp => cfg.moveTime # 0
  BY TimeAssumption DEF Config
<1>2. QED
  BY <1>1, FreshGood

LEMMA TickGood ==
  ASSUME Good(wc), Tick
  PROVE  Good(wc')
<1>1. PICK d \in 1 .. MaxStall, pw \in PowerPair : Timer(d, pw)
  BY DEF Tick
<1>2. Good(RunOnce(Aged(wc, d), pw))
  BY AgedReady, RunOnceGood
<1>3. QED
  BY <1>1, <1>2 DEF Timer

LEMMA HoldPositionGood ==
  ASSUME Good(wc), HoldPosition
  PROVE  Good(wc')
<1> DEFINE h == IF CutShort(wc) THEN "cut"
                ELSE IF wc.halt = "no" THEN "held" ELSE wc.halt
           t == [wc EXCEPT !.halt = h]
           r == SetInternalState(t, "Stop")
<1>1. wc \in Members
  BY DEF Good
<1>2. t \in Members
  BY <1>1 DEF Members
<1>3. r \in Members
  BY <1>2, SetInternalStateType DEF States
<1>4. RelaysOK(r) /\ ConfigOK(r) /\ r.state # "Cal1"
  BY <1>1 DEF Good, RelaysOK, ConfigOK, SetInternalState, Members,
              Calibrating, CalStates
<1>5. HaltOK(r)
  BY <1>1 DEF Good, HaltOK, Resting, Restful, SetInternalState, CutShort, Members
<1>6. wc' = r
  BY <1>1 DEF HoldPosition, Members
<1>7. QED
  BY <1>3, <1>4, <1>5, <1>6 DEF Good

LEMMA RPCSetStateGood ==
  ASSUME Good(wc), NEW st \in RpcStates, RPCSetState(st)
  PROVE  Good(wc')
<1> DEFINE dropped == wc.halt \in {"failed", "tapped"} /\ wc.tgtState = "Error"
           cut == st # "Error" /\ (CutShort(wc) \/ dropped)
           h == IF st \in Midway \cup {"PreCal0", "Move"} THEN "no"
                ELSE IF cut THEN "cut" ELSE wc.halt
           t == [wc EXCEPT !.tgtState = st, !.halt = h]
           r == SetInternalState(t, "Stop")
<1>1. wc \in Members /\ st \in States
  BY InputAssumption DEF Good
<1>2. h \in {"no", "boot", "failed", "held", "tapped", "cut"}
  BY <1>1 DEF Members
<1>3. h \in {"failed", "boot"} =>
        h = wc.halt /\ st \in Restful /\ ~cut
  <2> HIDE DEF cut
  <2>1. st \notin Midway \cup {"PreCal0", "Move"} => st \in Restful
    BY <1>1 DEF Restful, Midway, States, CalStates
  <2>2. CASE st \in Midway \cup {"PreCal0", "Move"}
    <3>1. h = "no"
      BY <2>2
    <3> HIDE DEF h
    <3>2. QED
      BY <3>1
  <2>3. CASE st \notin Midway \cup {"PreCal0", "Move"}
    BY <2>1, <2>3
  <2>4. QED
    BY <2>2, <2>3
<1>4. wc' = IF wc.state = "Idle" THEN t ELSE r
  BY <1>1 DEF RPCSetState, Members
<1>5. (wc.state = "Idle" => HaltOK(t)) /\ HaltOK(r)
  <2> HIDE DEF h
  <2>1. ~cut => st = "Error" \/ (~CutShort(wc) /\ ~dropped)
    OBVIOUS
  <2> HIDE DEF cut
  <2>2. HaltOK(r)
    BY <1>1, <1>3, <2>1 DEF Good, HaltOK, Resting, Restful, SetInternalState, CutShort, Members
  <2>3. wc.state = "Idle" => HaltOK(t)
    BY <1>1, <1>3, <2>1 DEF Good, HaltOK, Resting, Restful, CutShort, Members
  <2>4. QED
    BY <2>2, <2>3
<1> HIDE DEF h
<1>6. t \in Members
  BY <1>1, <1>2 DEF Members
<1>7. r \in Members
  BY <1>6, SetInternalStateType DEF States
<1>8. RelaysOK(r) /\ ConfigOK(r) /\ r.state # "Cal1"
  BY <1>1 DEF Good, RelaysOK, ConfigOK, SetInternalState, Members,
              Calibrating, CalStates
<1>9. wc.state = "Idle" => RelaysOK(t) /\ ConfigOK(t) /\ t.state # "Cal1"
  BY <1>1 DEF Good, RelaysOK, ConfigOK, Members, Calibrating, CalStates
<1>10. QED
  BY <1>4, <1>5, <1>6, <1>7, <1>8, <1>9 DEF Good

LEMMA SetConfigGood ==
  ASSUME Good(wc), NEW mode \in InModes, NEW swap \in BOOLEAN,
         SetConfig(mode, swap)
  PROVE  Good(wc')
<1> DEFINE t == [wc EXCEPT !.inMode = mode, !.calibrated = @ /\ ~swap]
<1>1. wc \in Members /\ wc.calibrated \in BOOLEAN
  BY DEF Good, Members
<1>2. t \in Members
  BY <1>1 DEF Members
<1>3. SaveState(t) \in Members
  BY <1>2, SaveStateType
<1>4. RelaysOK(SaveState(t))
  BY <1>1, <1>2 DEF Good, RelaysOK, SaveState, Members
<1>5. ConfigOK(SaveState(t))
  BY <1>1, <1>2 DEF Good, ConfigOK, SaveState, Members, Calibrating, CalStates
<1>6. /\ HaltOK(SaveState(t))
      /\ SaveState(t).state = "Cal1" /\ ~SaveState(t).sampled
           /\ ~SaveState(t).jumped => SaveState(t).clock = 0
  BY <1>1, <1>2 DEF Good, HaltOK, Resting, Restful, SaveState, Members
<1>7. QED
  BY <1>3, <1>4, <1>5, <1>6 DEF Good, SetConfig

LEMMA BootGood ==
  ASSUME Good(wc), NEW recent \in BOOLEAN
  PROVE  Restart(recent) \/ PowerLoss => Good(wc')
<1>1. wc \in Members /\ wc.inMode \in InModes /\ wc.jumped \in BOOLEAN
  BY DEF Good, Members
<1> DEFINE flash == SaveState(wc).flash
<1>2. flash \in Config /\ wc.flash \in Config
  <2>1. SaveState(wc) \in Members
    BY <1>1, SaveStateType
  <2>2. QED
    BY <1>1, <2>1 DEF Members
<1>3. ~wc.jumped /\ flash.calibrated => flash.moveTime # 0 /\ ~flash.moveNaN
  BY <1>1 DEF Good, ConfigOK, SaveState, Members, Config
<1>4. ~wc.jumped /\ wc.flash.calibrated =>
        wc.flash.moveTime # 0 /\ ~wc.flash.moveNaN
  BY DEF Good, ConfigOK
<1>5. Good([Fresh(flash, wc.inMode, recent) EXCEPT !.jumped = wc.jumped])
  BY <1>1, <1>2, <1>3, FreshGood
<1>6. Good([Fresh(wc.flash, wc.inMode, TRUE) EXCEPT !.jumped = wc.jumped])
  BY <1>1, <1>2, <1>4, FreshGood
<1>7. QED
  BY <1>5, <1>6 DEF Restart, PowerLoss

LEMMA UserGood ==
  ASSUME Good(wc), User
  PROVE  Good(wc')
<1>0. HapTargets \subseteq Int /\ {FullyClosed, FullyOpen} \subseteq Int
  BY InputAssumption, PositionAssumption DEF Positions, FullyClosed
<1>1. ASSUME NEW value \in HapTargets, NEW pw \in PowerPair,
             HAPSetTgtPos(value, pw)
      PROVE  Good(wc')
  <2>1. Good(ChooseHapTarget(wc, value))
    BY <1>0, ChooseHapTargetGood
  <2>2. Good([ChooseHapTarget(wc, value) EXCEPT !.hapFresh = TRUE])
    BY <2>1, FreeMembersGood
  <2>3. QED
    BY <1>1, <2>2, RunOnceKeeps DEF HAPSetTgtPos
<1>2. ASSUME NEW value \in HapTargets, HAPSetTgtDoor(value)
      PROVE  Good(wc')
  <2>1. Good(Command(wc, value))
    BY <1>0, CommandGood
  <2>2. QED
    BY <1>2, <2>1, FreeMembersGood DEF HAPSetTgtDoor
<1>3. CASE HoldPosition
  BY <1>3, HoldPositionGood
<1>4. ASSUME NEW value \in HapTargets, RPCSetTgtPos(value)
      PROVE  Good(wc')
  BY <1>0, <1>4, CommandGood DEF RPCSetTgtPos
<1>5. ASSUME NEW pw \in PowerPair, RPCStop(pw)
      PROVE  Good(wc')
  BY <1>5, StopHereGood DEF RPCStop
<1>6. ASSUME NEW st \in RpcStates, RPCSetState(st)
      PROVE  Good(wc')
  BY <1>6, RPCSetStateGood
<1>7. ASSUME NEW dir \in {"open", "close"}, NEW level \in BOOLEAN,
             NEW pw \in PowerPair, InputChange(dir, level, pw)
      PROVE  Good(wc')
  BY <1>7, HandleInputEvent01Good DEF InputChange
<1>8. ASSUME NEW pw \in PowerPair, InputSingleChange(pw)
      PROVE  Good(wc')
  BY <1>8, HandleInputSingleGood, RunOnceKeeps DEF InputSingleChange
<1>9. ASSUME NEW inOpen \in BOOLEAN, NEW inClose \in BOOLEAN,
             InputNotCalibrated(inOpen, inClose)
      PROVE  Good(wc')
  BY <1>9, NotCalibratedGood DEF InputNotCalibrated
<1>10. ASSUME NEW mode \in InModes, NEW swap \in BOOLEAN,
              SetConfig(mode, swap)
       PROVE  Good(wc')
  BY <1>10, SetConfigGood
<1>11. ASSUME NEW recent \in BOOLEAN, Restart(recent)
       PROVE  Good(wc')
  BY <1>11, BootGood
<1>12. CASE PowerLoss
  BY <1>12, BootGood
<1>13. QED
  BY <1>1, <1>2, <1>3, <1>4, <1>5, <1>6, <1>7, <1>8, <1>9, <1>10, <1>11,
     <1>12 DEF User

LEMMA NextGood == Good(wc) /\ [Next]_wc => Good(wc')
<1> SUFFICES ASSUME Good(wc), [Next]_wc PROVE Good(wc')
  OBVIOUS
<1>1. CASE Tick
  BY <1>1, TickGood
<1>2. CASE HAPExpire
  BY <1>2, FreeMembersGood DEF HAPExpire
<1>3. CASE User
  BY <1>3, UserGood
<1>4. CASE UNCHANGED wc
  BY <1>4 DEF Good
<1>5. QED
  BY <1>1, <1>2, <1>3, <1>4 DEF Next

-----------------------------------------------------------------------------
(***************************************************************************)
(* What follows for every behaviour of the shutter.                        *)
(***************************************************************************)
\* Good is an invariant: every handler ends in a state in which the last halt
\* and, of a shutter no request has put midway, the relays, the configuration
\* and its copy in flash agree.
THEOREM Invariant == Spec => []Good(wc)
<1>1. Init => Good(wc)
  BY InitGood
<1>2. Good(wc) /\ [Next]_wc => Good(wc)'
  BY NextGood
<1>3. QED
  BY <1>1, <1>2, PTL DEF Spec

\* The members keep their types: in particular TrimPos keeps both positions
\* within the travel, whatever the dead reckoning of kMoving computes.
THEOREM TypeCorrect == Spec => []TypeOK
<1>1. Good(wc) => TypeOK
  BY DEF Good, TypeOK
<1>2. QED
  BY <1>1, Invariant, PTL

\* The two relays of the motor are never on together, unless a request has put
\* the state machine midway.
THEOREM NeverOverlap == Spec => []NoOverlap
<1>1. Good(wc) => NoOverlap
  BY DEF Good, RelaysOK, NoOverlap
<1>2. QED
  BY <1>1, Invariant, PTL

\* The calibration in flash is never ahead of the one in memory, unless a
\* request has put the state machine midway.
THEOREM CalibrationSurvivesPowerLoss == Spec => []CrashSafeCalibration
<1>1. Good(wc) => CrashSafeCalibration
  BY DEF Good, ConfigOK, CrashSafeCalibration, Calibrating
<1>2. QED
  BY <1>1, Invariant, PTL

\* A calibrated shutter has measured: no division by a travel time of zero, no
\* comparison with NaN, unless a request has put the state machine midway.
THEOREM CalibrationMeasured == Spec => []CalibrationIsMeasured
<1>1. Good(wc) => CalibrationIsMeasured
  BY DEF Good, ConfigOK, CalibrationIsMeasured
<1>2. QED
  BY <1>1, Invariant, PTL

\* PositionState never hides a relay that is on, unless a request has put the
\* state machine midway.
THEOREM DirectionReported == Spec => []ReportedDirection
<1>1. Good(wc) => ReportedDirection
  BY DEF Good, RelaysOK, ReportedDirection
<1>2. QED
  BY <1>1, Invariant, PTL

\* After a failed move or a boot the motor starts only on a new target or a
\* request for a movement, whatever states were asked for; a failure that was
\* cut short before kError could give up the target is not counted.
THEOREM NeverStartsUnasked == Spec => NoUnaskedStart
<1>1. Good(wc)' => (Starts => wc'.halt \notin {"failed", "boot"})
  BY DEF Good, HaltOK, Resting, Restful, Starts
<1>2. QED
  BY <1>1, Invariant, PTL DEF NoUnaskedStart
=============================================================================
