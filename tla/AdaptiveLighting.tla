--------------------------- MODULE AdaptiveLighting ---------------------------
(***************************************************************************)
(* Adaptive lighting (AdaptiveLighting): Home sends a curve, and a timer   *)
(* moves the colour temperature along it.  Time is counted in update       *)
(* intervals.  The members of the object are one record, a: count is       *)
(* active_transition_count_, table the curve, offset the time on it, timer *)
(* whether update_timer_ runs.  What the control point answers, and what   *)
(* else the wire format carries, is left out.                              *)
(***************************************************************************)
EXTENDS Integers, Sequences, FiniteSetsExt

CONSTANTS
  MinMultiplier, MaxMultiplier, \* adjustmentMultiplierRange
  TemperatureOfNaN  \* what the build makes of no number, clamped

ASSUME MultiplierAssumption ==
  /\ MinMultiplier \in 0 .. 100 /\ MaxMultiplier \in MinMultiplier .. 100

ASSUME NaNAssumption == TemperatureOfNaN \in 50 .. 400

\* An entry of a curve: duration is 0 where there is none.
Entries == [value : Int, adj : Int, offset : Nat, duration : Nat]

\* Curves are not empty: the firmware reads the first entry of every curve.
TransitionCurves == Seq(Entries) \ {<<>>}

\* A transition: whether it has a curve, is for the colour temperature and is
\* to be activated (unknown_3).
Transitions(tables) ==
  [curve : BOOLEAN, ours : BOOLEAN, activate : BOOLEAN, table : tables]

\* What Home may write to the control point: a transition, of which there is
\* none in a request that only reads.
Requests(tables) == {{}} \union {{t} : t \in Transitions(tables)}

\* "Schedule activated".
Activates(r) == \E t \in r : t.curve /\ t.ours /\ t.activate

NewAdaptiveLighting ==
  [count |-> 0, table |-> <<>>, offset |-> 0, timer |-> FALSE]

\* Mutant: the transition stays active.
MutDisable(a) == [a EXCEPT !.timer = FALSE]

Disable(a) == [a EXCEPT !.timer = FALSE, !.count = 0]

Clamp(v, lo, hi) == Min({Max({v, lo}), hi})

\* The time at which entry j is reached: offset_next after it.
EndOf(table, j) ==
  LET end[k \in 0 .. Len(table)] ==
        IF k = 0 THEN 0
        ELSE end[k - 1] + table[k].offset + table[k].duration
  IN  end[j]

\* The loop of AdjustColorTemp at time o: the entry that ends it is the first
\* that is not over, or the last.
NextEntry(table, o) ==
  Min({j \in DOMAIN table : o <= EndOf(table, j)} \union {Len(table)})

IsOver(table, o) == o > EndOf(table, Len(table))

\* curr, and when it began.
CurrEntry(table, o) ==
  IF IsOver(table, o) THEN Len(table) ELSE Max({1, NextEntry(table, o) - 1})

CurrOffset(table, o) ==
  EndOf(table, IF IsOver(table, o) THEN Len(table) ELSE NextEntry(table, o) - 1)

\* elapsed and duration for percentage, once the duration of curr is taken
\* off both.  A segment of no length is given a millisecond, which is less
\* than any duration.
Elapsed(table, o) ==
  o - CurrOffset(table, o) - table[CurrEntry(table, o)].duration

Duration(table, o) ==
  LET hold == table[CurrEntry(table, o)].duration
      length == EndOf(table, NextEntry(table, o)) - CurrOffset(table, o)
  IN  IF length # 0 THEN length - hold ELSE IF hold = 0 THEN 1 ELSE -1

\* Zero is divided by zero, which the clamp of percentage lets pass.
IsNaN(table, o) == Elapsed(table, o) >= 0 /\ Duration(table, o) = 0

\* percentage, as a fraction <<part, whole>> between 0 and 1.
Percentage(table, o) ==
  LET e == Elapsed(table, o)
      d == Duration(table, o)
  IN  IF e < 0 \/ d <= 0 THEN <<0, 1>> ELSE <<Clamp(e, 0, d), d>>

\* The value of an entry at this brightness.
At(entry, brightness) ==
  entry.value + entry.adj * Clamp(brightness, MinMultiplier, MaxMultiplier)

\* The temperature AdjustColorTemp computes, after its clamp.  NaN converted
\* to an integer is undefined: any temperature, but the same in every build.
Temperature(table, o, brightness) ==
  IF IsNaN(table, o) THEN TemperatureOfNaN ELSE
  LET p == Percentage(table, o)
      from == At(table[CurrEntry(table, o)], brightness)
      to == At(table[NextEntry(table, o)], brightness)
  IN  Clamp((from * (p[2] - p[1]) + to * p[1]) \div p[2], 50, 400)

\* What AdjustColorTemp leaves in the object itself.
Advance(a, elapsed) ==
  LET t == [a EXCEPT !.offset = @ + elapsed]
  IN  IF IsOver(t.table, t.offset) THEN Disable(t) ELSE t

\* The write handler of the control point.  The curve is replaced before it
\* is known for what it is; a request without one deactivates in silence.
Control(a, r) ==
  IF \A t \in r : ~t.curve THEN [a EXCEPT !.count = 0]
  ELSE LET t == CHOOSE t \in r : TRUE
           new == [a EXCEPT !.table = t.table]
       IN  IF ~t.ours THEN new
           ELSE IF ~t.activate THEN Disable(new)
           ELSE [new EXCEPT !.count = 1, !.offset = 0, !.timer = TRUE]

-----------------------------------------------------------------------------
\* The curve, for comparison, as the comment on TransitionEntryTypes has it:
\* to reach entry j takes duration, in which the value before stays the same,
\* and then offset, in which it changes evenly.
OnCurve(table, o, brightness) ==
  LET j == Min({k \in DOMAIN table : o <= EndOf(table, k)} \union {Len(table)})
      to == At(table[j], brightness)
      from == IF j = 1 THEN to ELSE At(table[j - 1], brightness)
      left == Clamp(EndOf(table, j) - o, 0, table[j].offset)
  IN  Clamp(IF left = 0 THEN to
            ELSE (from * left + to * (table[j].offset - left))
                 \div table[j].offset, 50, 400)
=============================================================================
