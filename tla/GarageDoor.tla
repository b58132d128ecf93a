----------------------------- MODULE GarageDoor -----------------------------
(***************************************************************************)
(* The garage door opener component (hap::GarageDoorOpener): up to two     *)
(* sensors tell where the door is, a pulse on an output tells the opener   *)
(* of the door to move, stop or turn round, and a state machine run every  *)
(* 100 ms and after every command guesses what the door is doing.          *)
(*                                                                         *)
(* A command runs the state machine after its own changes, so the members  *)
(* of the object are one record, door, and each method is an operator from *)
(* record to record.  The door itself is not modelled: its sensors may     *)
(* change at any time, as a door that is also moved by hand makes them.    *)
(***************************************************************************)
EXTENDS Integers

CONSTANTS
  MoveTime,        \* move_time_ms, in periods of state_timer_
  BeginMoveTime,   \* begin_move_time_ms
  MaxWrites,       \* bound: HAP writes whose callbacks are pending
  HasOpenSensor,   \* in_open_ # nullptr
  OutModes         \* values of out_mode that are configured

ASSUME TimeAssumption == MoveTime \in Nat /\ BeginMoveTime \in Nat
ASSUME WriteAssumption == MaxWrites \in Nat \ {0}
ASSUME HardwareAssumption == HasOpenSensor \in BOOLEAN
ASSUME OutModeAssumption == OutModes \subseteq 0 .. 2 /\ OutModes # {}

VARIABLES
  door,            \* members of the GarageDoorOpener object
  cfg,             \* configuration of the component
  level,           \* levels of the two inputs
  pulse,           \* outputs on which a pulse is under way
  writes           \* HAP writes passed on to InvokeCB

vars == <<door, cfg, level, pulse, writes>>

States == {"Open", "Closed", "Opening", "Closing", "Stopped"}
Targets == {"Open", "Closed"}
Config == [closeMode : 0 .. 1, openMode : 0 .. 2, outMode : OutModes]

\* No comparison of the code tells two clocks above this one apart.
MaxClock == IF MoveTime > BeginMoveTime THEN MoveTime + 1
            ELSE BeginMoveTime + 1

(***************************************************************************)
(* GetInputsState.  IsOpen is "unknown" (-1) without an open sensor.       *)
(***************************************************************************)
IsClosed == level.close = (cfg.closeMode = 0)

IsOpen == IF ~HasOpenSensor \/ cfg.openMode = 2 THEN "unknown"
          ELSE IF level.open = (cfg.openMode = 0) THEN "yes" ELSE "no"

BothActive == IsClosed /\ IsOpen = "yes"

-----------------------------------------------------------------------------
\* Mutant: the end of an obstruction is not announced.
MutSetCurState(d, new) ==
  LET obst == d.obst /\ d.cur # "Stopped"
  IN  IF d.cur = new THEN d
      ELSE [d EXCEPT !.cur = new, !.clock = 0, !.obst = obst,
                     !.obstTold = IF new = "Stopped" THEN obst ELSE @,
                     !.pre = IF new = "Stopped" THEN d.cur ELSE @]

(***************************************************************************)
(* Leaving Stopped clears the obstruction, entering it remembers from      *)
(* where; Home is told of the flag either way (obstTold is what it last    *)
(* heard).  On other paths obst_notify is uninitialised: Home may be told  *)
(* again what it knows.                                                    *)
(***************************************************************************)
SetCurState(d, new) ==
  LET obst == d.obst /\ d.cur # "Stopped"
  IN  IF d.cur = new THEN d
      ELSE [d EXCEPT !.cur = new, !.clock = 0, !.obst = obst,
                     !.obstTold = IF "Stopped" \in {d.cur, new} THEN obst ELSE @,
                     !.pre = IF new = "Stopped" THEN d.cur ELSE @]

SetTgtState(d, new) == [d EXCEPT !.tgt = new]

\* A sensor saw the door arrive, or leave, without being told to.
External(d, tgt, new) == SetCurState(SetTgtState(d, tgt), new)

Obstruct(d) == SetCurState([d EXCEPT !.obst = TRUE], "Stopped")

OpenStep(d) ==
  IF IsClosed THEN External(d, "Closed", "Closed")
  ELSE IF IsOpen = "no" THEN External(d, "Closed", "Closing") ELSE d

ClosedStep(d) == IF IsClosed THEN d ELSE External(d, "Open", "Opening")

\* The move_time has passed, or all of begin_move_time has.
TimeIsUp(d) == d.clock > MoveTime
HasBegun(d) == d.clock > BeginMoveTime

\* Mutant: the target is left as it was when the door closes by itself.
MutOpeningStep(d) ==
  IF IsOpen = "yes" \/ (IsOpen = "unknown" /\ TimeIsUp(d))
  THEN SetCurState(d, "Open")
  ELSE IF IsOpen = "no" /\ TimeIsUp(d) THEN Obstruct(d)
  ELSE IF IsClosed /\ HasBegun(d) THEN SetCurState(d, "Closed")
  ELSE d

OpeningStep(d) ==
  IF IsOpen = "yes" \/ (IsOpen = "unknown" /\ TimeIsUp(d))
  THEN SetCurState(d, "Open")
  ELSE IF IsOpen = "no" /\ TimeIsUp(d) THEN Obstruct(d)
  ELSE IF IsClosed /\ HasBegun(d) THEN External(d, "Closed", "Closed")
  ELSE d

\* Mutant: without an open sensor the door is taken to have closed in time,
\* as it is taken to have opened.
MutClosingStep(d) ==
  IF IsClosed \/ (IsOpen = "unknown" /\ TimeIsUp(d))
  THEN SetCurState(d, "Closed")
  ELSE IF TimeIsUp(d) THEN Obstruct(d)
  ELSE IF IsOpen = "yes" /\ HasBegun(d) THEN External(d, "Open", "Open")
  ELSE d

\* Mutant: a door that stays between its sensors is waited for.
MutClosingWaits(d) ==
  IF IsClosed THEN SetCurState(d, "Closed")
  ELSE IF IsOpen = "yes" /\ HasBegun(d) THEN External(d, "Open", "Open")
  ELSE d

ClosingStep(d) ==
  IF IsClosed THEN SetCurState(d, "Closed")
  ELSE IF TimeIsUp(d) THEN Obstruct(d)
  ELSE IF IsOpen = "yes" /\ HasBegun(d) THEN External(d, "Open", "Open")
  ELSE d

\* Mutant: a stopped door waits for the next command.
MutStoppedStep(d) == d

StoppedStep(d) ==
  IF BothActive THEN d
  ELSE IF IsClosed THEN External(d, "Closed", "Closed")
  ELSE IF IsOpen = "yes" THEN External(d, "Open", "Open") ELSE d

RunOnce(d0) ==
  LET d == IF BothActive THEN SetCurState(d0, "Stopped") ELSE d0
  IN  CASE d.cur = "Open" -> OpenStep(d)
        [] d.cur = "Closed" -> ClosedStep(d)
        [] d.cur = "Opening" -> OpeningStep(d)
        [] d.cur = "Closing" -> ClosingStep(d)
        [] d.cur = "Stopped" -> StoppedStep(d)

-----------------------------------------------------------------------------
Opposite(target) == IF target = "Closed" THEN "Open" ELSE "Closed"

\* The output that ToggleState pulses.
PulseOutput ==
  IF \/ cfg.outMode = 0
     \/ cfg.outMode = 1 /\ Opposite(door.tgt) = "Closed"
  THEN "close" ELSE "open"

\* What ToggleState makes of the members.
Toggled(d) ==
  CASE d.cur = "Open" -> External(d, Opposite(d.tgt), "Closing")
    [] d.cur = "Closed" -> External(d, Opposite(d.tgt), "Opening")
    [] d.cur = "Opening" -> External(d, Opposite(d.tgt), "Stopped")
    [] d.cur = "Closing" -> External(d, "Open", "Opening")
    [] d.cur = "Stopped" -> IF d.pre = "Opening"
                            THEN External(d, "Closed", "Closing")
                            ELSE External(d, "Open", "Opening")

\* A command: the pulse, the change of state, then a run of the state machine.
Toggle ==
  /\ pulse' = pulse \cup {PulseOutput}
  /\ door' = RunOnce(Toggled(door))
  /\ UNCHANGED <<cfg, level>>

RPCToggle == Toggle /\ UNCHANGED writes

\* "Nothing to do" when the door is there or on its way.
NothingToDo(value) ==
  IF value = "Open" THEN door.cur \in {"Open", "Opening"}
  ELSE door.cur \in {"Closed", "Closing"}

\* A write of the target door state is checked at once and carried out, as a
\* toggle whatever its value, by a callback of the main loop.
HAPTgtStateWrite(value) ==
  /\ ~NothingToDo(value) /\ writes < MaxWrites
  /\ writes' = writes + 1
  /\ UNCHANGED <<door, cfg, level, pulse>>

HAPToggle == writes > 0 /\ writes' = writes - 1 /\ Toggle

\* state_timer_ fires, a period after it last did.
Timer ==
  /\ door' = RunOnce([door EXCEPT
                        !.clock = IF @ < MaxClock THEN @ + 1 ELSE @])
  /\ UNCHANGED <<cfg, level, pulse, writes>>

PulseEnds ==
  /\ \E out \in pulse : pulse' = pulse \ {out}
  /\ UNCHANGED <<door, cfg, level, writes>>

\* Takes effect at once, except that the RPC handler saves it and restarts the
\* service when an out_mode is given.
SetConfig ==
  /\ cfg' \in Config
  /\ UNCHANGED <<door, level, pulse, writes>>

\* A new object.  pre_stopped_state_ is uninitialised; the first guess at the
\* state of the door takes the level of the input for the state of the sensor.
Fresh(d) ==
  /\ d.cur = IF level.close THEN "Closed" ELSE "Open"
  /\ d.tgt = d.cur /\ d.pre \in States
  /\ d.clock = 0 /\ d.obst = FALSE /\ d.obstTold = FALSE

Members == [cur : States, tgt : Targets, pre : States, clock : 0 .. MaxClock,
            obst : BOOLEAN, obstTold : BOOLEAN]

Init ==
  /\ cfg \in Config /\ level \in [close : BOOLEAN, open : BOOLEAN]
  /\ door \in Members /\ Fresh(door)
  /\ pulse = {} /\ writes = 0

\* The service restarts, or the device boots with the saved configuration: the
\* outputs are turned off.  Pending callbacks run before the service has
\* stopped, or are lost with the power.
Restart ==
  /\ door' \in Members /\ Fresh(door')
  /\ pulse' = {} /\ writes' = 0
  /\ UNCHANGED <<cfg, level>>

Sensors ==
  /\ level' \in [close : BOOLEAN, open : BOOLEAN]
  /\ UNCHANGED <<door, cfg, pulse, writes>>

User ==
  \/ RPCToggle \/ SetConfig \/ Restart
  \/ \E value \in Targets : HAPTgtStateWrite(value)

Loop == Timer \/ HAPToggle \/ PulseEnds

Next == User \/ Sensors \/ Loop

Spec == Init /\ [][Next]_vars

(***************************************************************************)
(* The main loop never starves a repeating timer and runs the callbacks    *)
(* posted to it.                                                           *)
(***************************************************************************)
FairSpec == Spec /\ WF_vars(Timer) /\ WF_vars(HAPToggle)

-----------------------------------------------------------------------------
\* Type invariant of the members of GarageDoorOpener: a target is never one of
\* the intermediate states, which have no value in HAP.
TypeOK ==
  /\ door \in Members
  /\ cfg \in Config /\ level \in [close : BOOLEAN, open : BOOLEAN]
  /\ pulse \subseteq {"close", "open"} /\ writes \in 0 .. MaxWrites

\* The target shown in Home is where the door is, or is going: toggles derive
\* the next target from the target and the next state from the state, and the
\* two must not drift apart, whoever moved the door.
TargetAgrees ==
  /\ door.cur \in {"Open", "Opening"} => door.tgt = "Open"
  /\ door.cur \in {"Closed", "Closing"} => door.tgt = "Closed"

\* An obstruction is reported of a stopped door only, of one that was moving,
\* and Home knows: the event is raised whenever the flag changes although
\* obst_notify is uninitialised on some paths.
ObstructionInSync ==
  /\ door.obst => door.cur = "Stopped" /\ door.pre \in {"Opening", "Closing"}
  /\ door.obstTold = door.obst

\* No timeout, command or guess reports the door closed while its sensor says
\* that it is not, or open while an open sensor says that it is not.  A new
\* object may, until its first run.
ReportsSensors ==
  [][~Restart => /\ door'.cur = "Closed" /\ door.cur # "Closed" => IsClosed
                 /\ door'.cur = "Open" /\ door.cur # "Open" => IsOpen # "no"]_vars

\* IsIdle gates firmware updates: no movement is reported for ever, whatever
\* the sensors do and the users ask.
MovesEnd == /\ door.cur = "Opening" ~> door.cur # "Opening"
            /\ door.cur = "Closing" ~> door.cur # "Closing"

\* What a door with steady sensors should be taken for.
Settled ==
  CASE BothActive -> door.cur = "Stopped"
    [] IsClosed /\ ~BothActive -> door.cur = "Closed"
    [] ~IsClosed /\ IsOpen = "yes" -> door.cur = "Open"
    [] ~IsClosed /\ IsOpen = "no" -> door.cur = "Stopped"
    [] ~IsClosed /\ IsOpen = "unknown" -> door.cur \in {"Open", "Stopped"}

\* Once the door and the users are at rest the component finds out where the
\* door is, from whatever it believed before.
Settles == <>[][Loop]_vars => <>[]Settled

\* "1 - dual (1=open, 2=close)": a command that makes the door open pulses the
\* output for opening, one that makes it close the output for closing.
PulseMatches ==
  [][RPCToggle /\ cfg.outMode = 1
       => /\ door'.cur = "Opening" => PulseOutput = "open"
          /\ door'.cur = "Closing" => PulseOutput = "close"]_vars
=============================================================================
