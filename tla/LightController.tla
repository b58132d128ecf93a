---------------------------- MODULE LightController ----------------------------
(***************************************************************************)
(* Fades (LightBulbController): a queue of transitions and the timer that  *)
(* carries out the first of them.  The members of a controller are one     *)
(* record, c: the state the fade starts from, which is the end of the one  *)
(* before, the queue, whether the timer runs and the time since            *)
(* transition_start_.  A state is a tuple, see ColorModel.                 *)
(***************************************************************************)
EXTENDS Integers, Sequences

\* A controller as it is constructed.
NewController(dark) ==
  [start |-> dark, queue |-> <<>>, running |-> FALSE, elapsed |-> 0]

StartPendingTransitions(c) ==
  IF c.running \/ c.queue = <<>> THEN c
  ELSE [c EXCEPT !.elapsed = 0, !.running = TRUE]

\* UpdateOutputSpecialized.  The timer of a fade that is cancelled goes on,
\* and with it the time since that fade was started.
UpdateOutput(c, end, time, cancel) ==
  LET q == IF cancel THEN <<>> ELSE c.queue
  IN  StartPendingTransitions(
        [c EXCEPT !.queue = Append(q, [end |-> end, time |-> time])])

\* Mutant: the next fade is not started.
MutTransitionTimer(c) ==
  IF c.elapsed + 1 >= Head(c.queue).time
  THEN [c EXCEPT !.start = Head(c.queue).end, !.queue = Tail(@),
                 !.running = FALSE]
  ELSE [c EXCEPT !.elapsed = @ + 1]

\* TransitionTimerCB: time has passed.
TransitionTimer(c) ==
  IF c.elapsed + 1 >= Head(c.queue).time
  THEN StartPendingTransitions(
         [c EXCEPT !.start = Head(c.queue).end, !.queue = Tail(@),
                   !.running = FALSE])
  ELSE [c EXCEPT !.elapsed = @ + 1]

\* The part e of the way of length n from s to t, output by output.
Mix(s, t, e, n) ==
  [i \in DOMAIN s |-> (t[i] * e + s[i] * (n - e)) \div n]

\* state_now_, which UpdatePWM has set the outputs to.
StateNow(c) ==
  IF c.running /\ c.elapsed > 0
  THEN LET cur == Head(c.queue)
       IN  IF c.elapsed < cur.time
           THEN Mix(c.start, cur.end, c.elapsed, cur.time) ELSE c.start
  ELSE c.start
=============================================================================
