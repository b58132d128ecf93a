------------------------------ MODULE InputPin ------------------------------
(***************************************************************************)
(* A digital input (InputPin): its level is read by an interrupt handler   *)
(* that Mongoose OS calls some 20 ms after an edge, and by anybody who     *)
(* calls GetState; a state machine and a timer turn edges into clicks.     *)
(*                                                                         *)
(* The members of the object are one record and every method an operator   *)
(* from record to record; level says whether the pin is at on_value.  What *)
(* a method reports to its handlers is a set of events: a handler of this  *)
(* firmware looks either at changes or at clicks, so the order of the two  *)
(* makes no difference.  The reset sequence is in Boot.                    *)
(***************************************************************************)
EXTENDS Integers

States == {"Idle", "WaitOffSingle", "WaitOnDouble", "WaitOffDouble",
           "WaitOffLong"}

Clicks == {"Single", "Double", "Long"}

(***************************************************************************)
(* last is last_state_, inv invert_, fsm state_, cnt timer_cnt_, and armed *)
(* says whether timer_ runs.  History: heard is the state the handlers     *)
(* were last told, fresh that they were told of a press since the last     *)
(* click, phantom that a click was reported without one.                   *)
(***************************************************************************)
Pins == [last : BOOLEAN, inv : BOOLEAN, fsm : States, cnt : 0 .. 2,
         armed : BOOLEAN, heard : BOOLEAN, fresh : BOOLEAN, phantom : BOOLEAN]

\* The constructor and Init: handlers that are created now know the state.
NewPin(level) ==
  [last |-> level, inv |-> FALSE, fsm |-> "Idle", cnt |-> 0, armed |-> FALSE,
   heard |-> level, fresh |-> FALSE, phantom |-> FALSE]

State(p, level) == level # p.inv

GetState(p, level) == [p EXCEPT !.last = State(p, level)]

SetInvert(p, inv, level) == GetState([p EXCEPT !.inv = inv], level)

\* A handler has taken note of the state at last.
Noted(p) == [p EXCEPT !.heard = p.last]

\* Reporting events leaves a trace in the history.
Report(p, events) ==
  LET clicked == events \cap Clicks # {}
  IN  [p EXCEPT !.heard = IF "Change" \in events THEN p.last ELSE @,
                !.phantom = @ \/ (clicked /\ ~p.fresh),
                !.fresh = ~clicked /\ (@ \/ ("Change" \in events /\ p.last))]

-----------------------------------------------------------------------------
\* "Noise": an edge after which the state is the one that was last read.
Noise(p, level) == State(p, level) = p.last

\* Mutant: a long press counts as a click when it is released, too.
MutEdgeEvents(p, on) ==
  {"Change"} \cup (IF on THEN {}
                   ELSE IF p.fsm = "WaitOffDouble" THEN {"Double"}
                   ELSE IF p.fsm = "WaitOffLong" THEN {"Single"} ELSE {})

EdgeEvents(p, on) ==
  {"Change"} \cup
  (IF on THEN {}
   ELSE IF p.fsm = "WaitOffDouble" THEN {"Double"}
   ELSE IF p.fsm = "WaitOffLong" /\ p.cnt = 1 THEN {"Single"} ELSE {})

\* The press has been noticed, the timer decides whether it is a long one.
Pressed(p, fsm) == [p EXCEPT !.fsm = fsm, !.cnt = 0, !.armed = TRUE]

Released(p) == [p EXCEPT !.fsm = "Idle", !.armed = FALSE]

EdgeStep(p, on) ==
  CASE p.fsm = "Idle" /\ on -> Pressed(p, "WaitOffSingle")
    [] p.fsm = "WaitOffSingle" /\ ~on -> [p EXCEPT !.fsm = "WaitOnDouble"]
    [] p.fsm = "WaitOnDouble" /\ on -> Pressed(p, "WaitOffDouble")
    [] p.fsm \in {"WaitOffDouble", "WaitOffLong"} /\ ~on -> Released(p)
    [] OTHER -> p

\* HandleGPIOInt, for an edge that is not noise.
HandleEdge(p, level) ==
  LET q == GetState(p, level)
  IN  EdgeStep(Report(q, EdgeEvents(q, q.last)), q.last)

-----------------------------------------------------------------------------
TimerEvents(p) ==
  CASE p.fsm = "WaitOnDouble" -> {"Single"}
    [] p.fsm = "WaitOffLong" /\ p.cnt = 1 -> {"Long"}
    [] OTHER -> {}

TimerStep(p) ==
  CASE p.fsm \in {"WaitOffSingle", "WaitOffDouble"} ->
         [p EXCEPT !.fsm = "WaitOffLong"]
    [] p.fsm = "WaitOnDouble" -> [p EXCEPT !.fsm = "Idle", !.armed = FALSE]
    [] OTHER -> [p EXCEPT !.armed = FALSE]

\* HandleTimer reads the pin, too, and tells nobody if it has changed.
HandleTimer(p, level) ==
  LET q == Report(GetState(p, level), TimerEvents(p))
  IN  [TimerStep(q) EXCEPT !.cnt = p.cnt + 1]
=============================================================================
