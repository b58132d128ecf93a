--------------------------- MODULE WindowCovering ---------------------------
(***************************************************************************)
(* The roller shutter component (hap::WindowCovering): two relays driving  *)
(* one motor, a power meter on each, a state machine run every 100 ms by   *)
(* state_timer_ and at once by every command.                              *)
(*                                                                         *)
(* A handler may run the state machine twice around an update of the       *)
(* target, so the members of the object are one record, wc, and each       *)
(* method is an operator from record to record; an action composes them    *)
(* in the order in which the handler calls them.                           *)
(*                                                                         *)
(* Data.  Positions are 0 .. FullyOpen, Pct units to the percent.  Time is *)
(* counted in periods of state_timer_, since begin_ was last set (clock)   *)
(* and since obstruction_begin_ was set (obstClock).  A power reading is   *)
(* the class that the code's comparisons put it in.                        *)
(***************************************************************************)
EXTENDS Integers

CONSTANTS
  FullyOpen,           \* kFullyOpen in position units; kFullyClosed is 0
  Pct,                 \* position units in one percent
  MaxMoveTime,         \* bound: the longest travel a calibration measures
  MaxRampUp,           \* max_ramp_up_time_ms
  ObstructionTime,     \* obstruction_duration_ms
  TimeCoeffTenths,     \* ten times obstruction_time_coeff
  MaxStall,            \* bound: periods between two runs of state_timer_
  HapTargets,          \* positions HAP and RPC ask for
  RpcStates,           \* states the RPC asks for; it accepts any
  Readings,            \* readings the power meters return
  InModes,             \* input modes the configuration may hold
  GarageDoor           \* service_type_ == ServiceType::GARAGE_DOOR

FullyClosed == 0
Positions == FullyClosed .. FullyOpen
MoveTimes == 1 .. MaxMoveTime

TooLong(t) == (t * TimeCoeffTenths) \div 10

Larger(a, b) == IF a > b THEN a ELSE b

\* No comparison of the code tells two clocks above this one apart.
MaxClock == Larger(MaxMoveTime, Larger(MaxRampUp, TooLong(MaxMoveTime))) + 1

ASSUME PositionAssumption == FullyOpen \in Nat \ {0} /\ Pct \in Nat \ {0}
ASSUME TimeAssumption ==
  /\ MaxMoveTime \in Nat \ {0} /\ MaxRampUp \in Nat /\ ObstructionTime \in Nat
  /\ TimeCoeffTenths \in Nat /\ MaxStall \in Nat \ {0}
\* The timer, due every 100 ms, is never later than the ramp-up time, 5 s.
ASSUME StallAssumption == MaxStall <= MaxRampUp

VARIABLE wc

CalStates == {"PreCal0", "Cal0", "PostCal0", "PreCal1", "Cal1", "PostCal1"}
States == CalStates \cup {"Idle", "Move", "RampUp", "Moving", "Stop",
                          "Stopping", "Error"}
Directions == {"none", "open", "close"}

\* States that RunOnce only enters from the state before, which sets up what
\* they rely on.  SetState accepts them like any other.
Midway == {"Cal0", "PostCal0", "PreCal1", "Cal1", "PostCal1", "RampUp",
           "Moving"}

ASSUME InputAssumption ==
  /\ HapTargets \subseteq Positions
  /\ RpcStates \subseteq States
  /\ InModes \subseteq {"momentary", "toggle", "single", "detached"}
  /\ InModes # {} /\ GarageDoor \in BOOLEAN

(***************************************************************************)
(* A reading of a power meter: an error, 0 W, more but below               *)
(* idle_power_thr, equal to it, above it but under 3/4 of move_power,      *)
(* normal, or more than obstruction_power_coeff allows.  move_power is the *)
(* average of a calibration, NaN when that had no sample: then nothing     *)
(* compares to it.  Before the first calibration move_power, like          *)
(* move_time_ms, is 0.                                                     *)
(***************************************************************************)
AllReadings == {"error", "off", "trickle", "at", "low", "run", "over"}
PowerPair == [open : Readings, close : Readings]

ASSUME ReadingAssumption == Readings \subseteq AllReadings /\ "off" \in Readings

Below(p) == p \in {"off", "trickle"}
Above(p) == p \in {"low", "run", "over"}
Driving(s, p) == IF s.moveTime = 0 THEN p # "error"
                 ELSE p \in {"run", "over"} /\ ~s.moveNaN
TooMuch(s, p) == IF s.moveTime = 0 THEN p \notin {"error", "off"}
                 ELSE p = "over" /\ ~s.moveNaN

ActivePM(s, pw) == IF s.dir = "open" THEN pw.open ELSE pw.close

(***************************************************************************)
(* What mgos_sys_config_save writes to flash of this component.            *)
(***************************************************************************)
Config == [calibrated : BOOLEAN, pos : Positions,
           moveTime : 0 .. MaxMoveTime, moveNaN : BOOLEAN]

SaveState(s) ==
  [s EXCEPT !.flash = [calibrated |-> s.calibrated, pos |-> s.cur,
                       moveTime |-> s.moveTime, moveNaN |-> s.moveNaN]]

\* Mutant: the upper limit is forgotten.
MutTrimPos(pos) == IF pos < FullyClosed THEN FullyClosed ELSE pos

TrimPos(pos) == IF pos < FullyClosed THEN FullyClosed
                ELSE IF pos > FullyOpen THEN FullyOpen ELSE pos

SetInternalState(s, new) ==
  IF s.state = new THEN s ELSE [s EXCEPT !.state = new, !.clock = 0]

SetCurPos(s, pos) == [s EXCEPT !.cur = TrimPos(pos)]
SetTgtPos(s, pos) == [s EXCEPT !.tgt = TrimPos(pos)]

(***************************************************************************)
(* A target set on behalf of a user or by the end of a calibration.  halt  *)
(* is a history variable: what last told the shutter to stay where it is   *)
(* ("no" once a newer target is given).                                    *)
(***************************************************************************)
Command(s, pos) == [SetTgtPos(s, pos) EXCEPT !.halt = "no"]

(***************************************************************************)
(* The relays, out_open_ written before out_close_.  overlap is a history  *)
(* variable: both have been on, if only between two writes, since the boot *)
(* or the last time a calibration began.                                   *)
(***************************************************************************)
Drive(s, wantOpen, wantClose) ==
  [s EXCEPT !.open = wantOpen, !.close = wantClose,
            !.overlap = @ \/ (wantOpen /\ (s.close \/ wantClose))]

Abs(x) == IF x < 0 THEN -x ELSE x

GetDesiredMoveDirection(s) ==
  IF ~s.calibrated \/ 2 * Abs(s.tgt - s.cur) < Pct THEN "none"
  ELSE IF s.tgt > s.cur THEN "open" ELSE "close"

Move(s, dir) ==
  [Drive(s, s.calibrated /\ dir = "open", s.calibrated /\ dir = "close")
     EXCEPT !.dir = dir,
            !.lastDir = IF dir = "none" THEN @ ELSE dir]

(***************************************************************************)
(* The cases of RunOnce, one operator for each value of state_.  jumped is *)
(* a history variable: a request has put the state machine in the middle   *)
(* of a calibration or a movement, and no calibration has begun since.     *)
(***************************************************************************)
IdleStep(s) ==
  IF s.tgtState \notin {"None", "Idle"}
  THEN [SetInternalState(s, s.tgtState) EXCEPT
          !.tgtState = "None", !.jumped = @ \/ s.tgtState \in Midway]
  ELSE IF GetDesiredMoveDirection(s) # "none"
       THEN SetInternalState(s, "Move") ELSE s

NewHistory(s) == [s EXCEPT !.jumped = FALSE, !.overlap = FALSE]

\* Mutant: the calibration is dropped in memory only.
MutPreCal0Step(s) ==
  LET off == [Drive(NewHistory(s), FALSE, FALSE) EXCEPT !.calibrated = FALSE]
  IN  SetInternalState(Drive(off, TRUE, FALSE), "Cal0")

PreCal0Step(s) ==
  LET off == SaveState([Drive(NewHistory(s), FALSE, FALSE) EXCEPT
                          !.calibrated = FALSE])
  IN  SetInternalState(Drive(off, TRUE, FALSE), "Cal0")

Cal0Step(s, p) ==
  IF p = "error" THEN SetInternalState(s, "Error")
  ELSE IF Below(p) /\ s.clock > MaxRampUp
       THEN SetInternalState(Drive(s, FALSE, s.close), "PostCal0") ELSE s

PostCal0Step(s) == SetInternalState(Drive(s, FALSE, FALSE), "PreCal1")

PreCal1Step(s) ==
  SetInternalState([Drive(s, FALSE, TRUE) EXCEPT !.sampled = FALSE], "Cal1")

\* Mutant: off by one at the end of the ramp-up.
MutCal1Step(s, p) ==
  IF p = "error" THEN SetInternalState(s, "Error")
  ELSE IF Below(p) /\ s.clock >= MaxRampUp
       THEN SetInternalState([Drive(s, s.open, FALSE) EXCEPT
                                !.moveTime = s.clock, !.moveNaN = ~s.sampled],
                             "PostCal1")
       ELSE [s EXCEPT !.sampled = TRUE]

\* The travel time is capped by the bound MaxMoveTime.
Cal1Step(s, p) ==
  IF p = "error" THEN SetInternalState(s, "Error")
  ELSE IF Below(p) /\ s.clock > MaxRampUp
       THEN SetInternalState(
              [Drive(s, s.open, FALSE) EXCEPT
                 !.moveTime = IF s.clock > MaxMoveTime THEN MaxMoveTime
                              ELSE s.clock,
                 !.moveNaN = ~s.sampled],
              "PostCal1")
       ELSE [s EXCEPT !.sampled = TRUE]

PostCal1Step(s) ==
  LET done == SaveState(SetCurPos([s EXCEPT !.calibrated = TRUE], FullyClosed))
  IN  SetInternalState(Command(done, (FullyOpen - FullyClosed) \div 2), "Idle")

MoveStep(s) ==
  LET dir == GetDesiredMoveDirection(s)
  IN  IF \/ dir = "none"
         \/ dir = "close" /\ s.cur = FullyClosed
         \/ dir = "open" /\ s.cur = FullyOpen
      THEN SetInternalState(s, "Stop")
      ELSE SetInternalState(
             Move([s EXCEPT !.obst = FALSE, !.start = s.cur, !.obstClock = -1],
                  dir),
             "RampUp")

\* Mutant: the direction is reset before the relay is.
MutFail(s) ==
  SetInternalState([s EXCEPT !.tgtState = "Error", !.halt = "failed",
                             !.dir = "none"], "Stop")

\* The move failed: reach kError by way of kStop.
Fail(s) ==
  SetInternalState([s EXCEPT !.tgtState = "Error", !.halt = "failed"], "Stop")

RampUpStep(s, p) ==
  IF p = "error" THEN Fail(s)
  ELSE IF Driving(s, p) THEN SetInternalState(s, "Moving")
  ELSE IF s.clock > MaxRampUp THEN Fail(s) ELSE s

\* Dead reckoning from where and when the movement began.  Of a shutter that
\* was never calibrated the quotient is infinite, and TrimPos makes that the
\* limit; the NaN of its first millisecond (0 / 0) is taken for the same.
NewCurPos(s) ==
  LET diff == IF s.moveTime = 0 THEN FullyOpen
              ELSE (s.clock * FullyOpen) \div s.moveTime
  IN  IF s.dir = "open" THEN s.start + diff ELSE s.start - diff

\* Stop at once, to minimize error, then clean up in kStop.
Halt(s) == SetInternalState(Move(s, "none"), "Stop")

TrackPower(s, p) ==
  [s EXCEPT !.obstClock = IF ~TooMuch(s, p) THEN -1
                          ELSE IF @ = -1 THEN 0 ELSE @]

\* Mutant: the travel time is not bounded.
MutObstructed(s, p) == TooMuch(s, p) /\ s.obstClock > ObstructionTime

Obstructed(s, p) ==
  \/ TooMuch(s, p) /\ s.obstClock > ObstructionTime
  \/ Above(p) /\ s.clock > TooLong(s.moveTime)

ToLimit(s) == \/ s.tgt = FullyOpen /\ s.dir = "open"
              \/ s.tgt = FullyClosed /\ s.dir = "close"

Reverse(s) == GetDesiredMoveDirection(s) \notin {"none", s.dir}

\* Mutant: the target is left where it was.
MutFixup(s) == s

\* Reconcile the target with where the shutter really stopped.
Fixup(s) == IF Abs(s.tgt - s.cur) < Pct THEN SetTgtPos(s, s.cur) ELSE s

MovingStep(s, p) ==
  LET m == TrackPower(SetCurPos(s, NewCurPos(s)), p)
      limit == IF s.dir = "open" THEN FullyOpen ELSE FullyClosed
  IN  IF p = "error" THEN Fail(s)
      ELSE IF Obstructed(m, p) THEN Fail([m EXCEPT !.obst = TRUE])
      ELSE IF ToLimit(m) /\ ~Reverse(m)
           THEN IF Above(p) \/ m.clock < MaxRampUp THEN m
                ELSE Halt(SetCurPos(m, limit))
      ELSE IF GetDesiredMoveDirection(m) = m.dir THEN m
      ELSE Halt(Fixup(m))

StopStep(s) == SetInternalState(SaveState(Move(s, "none")), "Stopping")

\* A meter that cannot be read counts as zero.
StoppingStep(s, pw) ==
  IF /\ pw.open = "error" \/ Below(pw.open)
     /\ pw.close = "error" \/ Below(pw.close)
  THEN SetInternalState(s, "Idle") ELSE s

\* Mutant: the target of the failed move is kept.
MutErrorStep(s) == SetInternalState(Move(s, "none"), "Idle")

ErrorStep(s) ==
  LET still == Move(s, "none")
  IN  SetInternalState(SetTgtPos(still, still.cur), "Idle")

RunOnce(s, pw) ==
  CASE s.state = "Idle" -> IdleStep(s)
    [] s.state = "PreCal0" -> PreCal0Step(s)
    [] s.state = "Cal0" -> Cal0Step(s, pw.open)
    [] s.state = "PostCal0" -> PostCal0Step(s)
    [] s.state = "PreCal1" -> PreCal1Step(s)
    [] s.state = "Cal1" -> Cal1Step(s, pw.close)
    [] s.state = "PostCal1" -> PostCal1Step(s)
    [] s.state = "Move" -> MoveStep(s)
    [] s.state = "RampUp" -> RampUpStep(s, ActivePM(s, pw))
    [] s.state = "Moving" -> MovingStep(s, ActivePM(s, pw))
    [] s.state = "Stop" -> StopStep(s)
    [] s.state = "Stopping" -> StoppingStep(s, pw)
    [] s.state = "Error" -> ErrorStep(s)

(***************************************************************************)
(* Commands.                                                               *)
(***************************************************************************)
\* A tap stops a moving shutter: one percent more and it is there.
Tapped(s, pos) ==
  [Command(s, pos) EXCEPT !.halt = IF s.state = "Moving" THEN "tapped" ELSE @]

HandleInputSingle(s) ==
  CASE s.dir = "open" -> Tapped(s, s.cur + Pct)
    [] s.dir = "close" -> Tapped(s, s.cur - Pct)
    [] s.dir = "none" ->
         Command(s, IF \/ s.cur = FullyClosed
                       \/ s.cur # FullyOpen /\ s.lastDir # "open"
                    THEN FullyOpen ELSE FullyClosed)

\* Home sends 0 for a tap on the tile of a half open shutter: within a
\* minute of the last request (hapFresh) a limit means "the other way".
ChooseHapTarget(s, value) ==
  LET known == s.hapFresh /\ s.lastDir # "none"
  IN  IF value \notin {FullyClosed, FullyOpen} \/ ~known
      THEN Command(s, value)
      ELSE IF value \in {s.cur, s.tgt} THEN s
      ELSE HandleInputSingle(s)

\* Mutant: opening is not refused while closing.
MutInputOverlap(s, inOpen, inClose) ==
  LET forbidden == inClose /\ (inOpen \/ s.open)
  IN  IF s.state # "Idle" THEN s
      ELSE Drive(s, inOpen /\ ~forbidden, inClose /\ ~forbidden)

\* Mutant: closing is not refused while opening.
MutInputReversal(s, inOpen, inClose) ==
  LET forbidden == inOpen /\ (inClose \/ s.close)
  IN  IF s.state # "Idle" THEN s
      ELSE Drive(s, inOpen /\ ~forbidden, inClose /\ ~forbidden)

HandleInputEventNotCalibrated(s, inOpen, inClose) ==
  LET forbidden == \/ inOpen /\ inClose
                   \/ inOpen /\ s.close
                   \/ inClose /\ s.open
  IN  IF s.state # "Idle" THEN s
      ELSE Drive(s, inOpen /\ ~forbidden, inClose /\ ~forbidden)

\* Run the state machine to refresh cur_pos_, make that the target, and run
\* it again to stop.
StopHere(s, pw) ==
  LET now == RunOnce(s, pw)
  IN  RunOnce(Command(now, now.cur), pw)

HandleInputEvent01(s, dir, level, pw) ==
  LET limit == IF dir = "open" THEN FullyOpen ELSE FullyClosed
  IN  IF level /\ s.dir = "none"
      THEN RunOnce(Command([s EXCEPT !.lastDir = dir], limit), pw)
      ELSE IF level \/ (s.inMode = "toggle" /\ s.dir = dir)
      THEN StopHere(s, pw)
      ELSE RunOnce(s, pw)

\* d periods pass.  Only these states look at the first clock.
Aged(s, d) ==
  [s EXCEPT !.clock = IF s.state \notin {"Cal0", "Cal1", "RampUp", "Moving"}
                      THEN @
                      ELSE IF @ + d > MaxClock THEN MaxClock ELSE @ + d,
            !.obstClock = IF @ = -1 THEN -1
                          ELSE IF @ + d > ObstructionTime + 1
                          THEN ObstructionTime + 1 ELSE @ + d]

-----------------------------------------------------------------------------
\* The members of a new object, from the configuration cfg.
Fresh(cfg, inMode, hapFresh) ==
  [state |-> "Idle", tgtState |-> "None", cur |-> cfg.pos, tgt |-> cfg.pos,
   dir |-> "none", lastDir |-> "none", clock |-> 0, start |-> 0,
   obst |-> FALSE, obstClock |-> -1, hapFresh |-> hapFresh, sampled |-> FALSE,
   open |-> FALSE, close |-> FALSE, calibrated |-> cfg.calibrated,
   moveTime |-> cfg.moveTime, moveNaN |-> cfg.moveNaN, inMode |-> inMode,
   bound |-> inMode, flash |-> cfg, overlap |-> FALSE, jumped |-> FALSE,
   halt |-> "boot"]

Init ==
  \E cfg \in Config, mode \in InModes :
    /\ cfg.calibrated => cfg.moveTime > MaxRampUp
    /\ ~cfg.moveNaN
    /\ wc = Fresh(cfg, mode, TRUE)

\* state_timer_ fires, d periods after it last did.
Timer(d, pw) == wc' = RunOnce(Aged(wc, d), pw)

HAPSetTgtPos(value, pw) ==
  /\ ~GarageDoor
  /\ wc' = RunOnce([ChooseHapTarget(wc, value) EXCEPT !.hapFresh = TRUE], pw)

\* As a garage door: the state machine is left to the timer.
HAPSetTgtDoor(value) ==
  /\ GarageDoor /\ value \in {FullyClosed, FullyOpen}
  /\ wc' = [Command(wc, value) EXCEPT !.hapFresh = TRUE]

\* More than a minute has passed since last_hap_set_tgt_pos_.
HAPExpire == wc.hapFresh /\ wc' = [wc EXCEPT !.hapFresh = FALSE]

\* A stop at once, which cuts short what kError still has to do after a failed
\* move, and the reconciliation of a tap in kMoving.
CutShort(s) == \/ s.halt = "tapped" /\ s.state = "Moving"
               \/ s.halt \in {"failed", "tapped"} /\ s.state = "Error"

HoldPosition ==
  wc' = SetInternalState(
          [wc EXCEPT !.halt = IF CutShort(wc) THEN "cut"
                              ELSE IF @ = "no" THEN "held" ELSE @], "Stop")

RPCSetTgtPos(value) == wc' = Command(wc, value)

RPCStop(pw) == wc' = StopHere(wc, pw)

\* Any state that StateStr names is accepted ("none" does nothing).  A request
\* for a movement or a calibration counts as a command.
RPCSetState(st) ==
  LET dropped == wc.halt \in {"failed", "tapped"} /\ wc.tgtState = "Error"
      asked == [wc EXCEPT
                  !.tgtState = st,
                  !.halt = IF st \in Midway \cup {"PreCal0", "Move"} THEN "no"
                           ELSE IF st # "Error" /\ (CutShort(wc) \/ dropped)
                           THEN "cut" ELSE @]
  IN  wc' = IF wc.state = "Idle" THEN asked ELSE SetInternalState(asked, "Stop")

\* An input changes its level, and its handler is one of a pair.
InputChange(dir, level, pw) ==
  /\ wc.calibrated /\ wc.bound \in {"momentary", "toggle"}
  /\ wc' = HandleInputEvent01(wc, dir, level, pw)

\* The only input changes its level; release does nothing.
InputSingleChange(pw) ==
  /\ wc.calibrated /\ wc.bound = "single"
  /\ wc' = RunOnce(HandleInputSingle(wc), pw)

\* Any event of an input before calibration, with the levels of both inputs
\* as the handler reads them.
InputNotCalibrated(inOpen, inClose) ==
  /\ ~wc.calibrated /\ wc.bound # "detached"
  /\ wc' = HandleInputEventNotCalibrated(wc, inOpen, inClose)

\* SetConfig, then the save its RPC handler makes; the new input handlers
\* and the new roles of the relays wait for the restart it asks for.
SetConfig(mode, swapOutputs) ==
  wc' = SaveState([wc EXCEPT !.inMode = mode,
                             !.calibrated = @ /\ ~swapOutputs])

\* The service restarts: the destructor turns the relays off and saves, a
\* new object starts from the configuration in memory.
Restart(recent) ==
  wc' = [Fresh(SaveState(wc).flash, wc.inMode, recent) EXCEPT
           !.jumped = wc.jumped]

\* The power fails: the new object starts from what was saved.
PowerLoss ==
  wc' = [Fresh(wc.flash, wc.inMode, TRUE) EXCEPT !.jumped = wc.jumped]

User ==
  \/ \E value \in HapTargets, pw \in PowerPair : HAPSetTgtPos(value, pw)
  \/ \E value \in HapTargets : HAPSetTgtDoor(value)
  \/ HoldPosition
  \/ \E value \in HapTargets : RPCSetTgtPos(value)
  \/ \E pw \in PowerPair : RPCStop(pw)
  \/ \E st \in RpcStates : RPCSetState(st)
  \/ \E dir \in {"open", "close"}, level \in BOOLEAN, pw \in PowerPair :
        InputChange(dir, level, pw)
  \/ \E pw \in PowerPair : InputSingleChange(pw)
  \/ \E inOpen, inClose \in BOOLEAN : InputNotCalibrated(inOpen, inClose)
  \/ \E mode \in InModes, swap \in BOOLEAN : SetConfig(mode, swap)
  \/ \E recent \in BOOLEAN : Restart(recent)
  \/ PowerLoss

Tick == \E d \in 1 .. MaxStall, pw \in PowerPair : Timer(d, pw)

\* A timer run at which the motor draws no current.
QuietTick == \E d \in 1 .. MaxStall :
               Timer(d, [open |-> "off", close |-> "off"])

Next == Tick \/ HAPExpire \/ User

Spec == Init /\ [][Next]_wc

(***************************************************************************)
(* The main loop never starves a repeating timer.  Nothing is assumed of   *)
(* the users.                                                              *)
(***************************************************************************)
TimerSpec == Spec /\ WF_wc(Tick)

-----------------------------------------------------------------------------
(***************************************************************************)
(* A request may put the state machine in any state.  From one that starts *)
(* a sequence (Move, PreCal0) or ends one (Stop, Stopping, Error, Idle) it *)
(* goes on as ever.  In the middle of a sequence it finds nothing of what  *)
(* it relies on: then these properties do fail (MCWindowCoveringJump.cfg), *)
(* so they speak of a shutter that has not jumped, or has begun another    *)
(* calibration since.  NoUnaskedStart holds either way.                    *)
(***************************************************************************)
\* The two relays are never on together, not even between the two writes of
\* one handler: no path through calibration, wall switches, moves, restarts
\* and power failures leads Move or the wall switches to close the second.
NoOverlap == ~wc.jumped => ~wc.overlap

\* Calibration survives a power failure at any point: what is in flash never
\* claims a calibration that memory does not have, so a restart in the middle
\* of a calibration, or after the outputs were swapped, comes up uncalibrated.
CrashSafeCalibration ==
  wc.flash.calibrated /\ ~wc.jumped =>
    wc.calibrated /\ wc.state \notin CalStates \ {"PreCal0"}

\* A calibrated shutter has a travel time to divide by and a move_power that
\* is a number: the average in kCal1 is taken over at least one sample.
CalibrationIsMeasured ==
  wc.calibrated /\ ~wc.jumped => wc.moveTime # 0 /\ ~wc.moveNaN

\* While calibrated, a relay that is on is reported: PositionState is the
\* direction in which the motor is driven, whatever interrupted the move.
ReportedDirection ==
  wc.calibrated /\ ~wc.jumped => /\ wc.open => wc.dir = "open"
                                 /\ wc.close => wc.dir = "close"

\* "Don't allow ... sudden transitions": no handler, however it composes runs
\* of the state machine, turns one relay off and the other on.  The start of a
\* calibration does, when a wall switch holds the closing relay.
NoSuddenReversal ==
  [][~wc.jumped /\ ~wc'.jumped =>
       /\ ~(wc.open /\ wc'.close)
       /\ wc.close /\ wc'.open => "PreCal0" \in {wc.state, wc.tgtState}]_wc

Starts == wc.state # "RampUp" /\ wc'.state = "RampUp"

\* The motor does not start by itself: after a failed move (no power, overload,
\* travel too long, meter error) and after a boot or a restart it stays off
\* until a user or a calibration sets a new target.  Not when a Hold, or a
\* request for another state, came before kError had given up the target: that
\* halt is "cut", and the failed move may start again (FailureIsFinal).
NoUnaskedStart == [][Starts => wc'.halt \notin {"failed", "boot"}]_wc

\* What one might expect of a failed move: nothing but a new target starts it
\* again.
FailureIsFinal == [][Starts => wc'.halt \notin {"failed", "cut"}]_wc

\* Hold position holds: once held, the shutter stays until a new target.
HoldHolds == [][Starts => wc'.halt # "held"]_wc

\* Nothing ever turns both relays on.
NeverBoth == ~wc.overlap

\* A tap on the tile of a moving shutter stops it: it does not start again
\* until a new target, unless a Hold or a request for a state comes before the
\* timer has stopped it (halt is then "cut").
TapStops == [][Starts /\ ~wc'.jumped => wc'.halt # "tapped"]_wc

MotorOff == ~wc.open /\ ~wc.close

\* Every movement ends, with a motor that never stops drawing current and with
\* users that never stop sending commands: obstruction_time_coeff bounds it.
MovesEnd == wc.state \in {"RampUp", "Moving"} /\ ~wc.jumped ~> MotorOff

AtRest == /\ wc.state = "Idle"
          /\ GetDesiredMoveDirection(wc) = "none"
          /\ wc.calibrated => MotorOff

\* A motor that was told to stop, or has reached its limit switch, draws no
\* current at some later run of the timer.
MotorStops == WF_wc(QuietTick)

\* Once the users leave it alone, a shutter with such a motor comes to rest on
\* its target: no endless correction of the position, no state that is never
\* left.
Settles ==
  MotorStops /\ <>[][Tick \/ HAPExpire]_wc => <>[](AtRest \/ wc.jumped)

Members ==
  [state : States, tgtState : States \cup {"None"},
   cur : Positions, tgt : Positions, start : Positions,
   dir : Directions, lastDir : Directions,
   clock : 0 .. MaxClock, obstClock : -1 .. ObstructionTime + 1,
   obst : BOOLEAN, hapFresh : BOOLEAN, sampled : BOOLEAN,
   open : BOOLEAN, close : BOOLEAN, overlap : BOOLEAN, jumped : BOOLEAN,
   calibrated : BOOLEAN, moveTime : 0 .. MaxMoveTime,
   moveNaN : BOOLEAN, inMode : InModes, bound : InModes,
   flash : Config, halt : {"no", "boot", "failed", "held", "tapped", "cut"}]

\* Type invariant of the members of WindowCovering: positions stay within the
\* travel however long the clock ran, whatever states were asked for.
TypeOK == wc \in Members
=============================================================================
