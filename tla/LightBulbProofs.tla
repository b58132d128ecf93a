--------------------------- MODULE LightBulbProofs ---------------------------
(***************************************************************************)
(* The light bulb, for any settings, curves and configurations.  The lemmas *)
(* go from the bottom up: minima, the curve, whose ends are a recursive     *)
(* function, the colours, the queue of fades, and the methods of the bulb.  *)
(***************************************************************************)
EXTENDS LightBulb, WellFoundedInduction, TLAPS

LEMMA NatMin ==
  ASSUME NEW S \in SUBSET Nat, S # {}
  PROVE  \E x \in S : \A y \in S : x <= y
<1> DEFINE R == {ss \in Nat \X Nat : ss[1] < ss[2]}
<1>1. IsWellFoundedOn(R, Nat)
  BY NatLessThanWellFounded DEF OpToRel
<1> HIDE DEF R
<1>2. PICK x \in S : \A y \in S : ~(<<y, x>> \in R)
  BY <1>1, WFMin
<1>3. \A y \in S : <<y, x>> \in R <=> y < x
  BY DEF R
<1>4. \A y \in S : ~(y < x)
  BY <1>2, <1>3
<1>5. \A y \in S : x <= y
  <2> TAKE y \in S
  <2>1. y \in Nat /\ x \in Nat
    OBVIOUS
  <2> QED BY <1>4, <2>1
<1> QED BY <1>5

\* Induction, with a set for the formula.
LEMMA Induction ==
  ASSUME NEW S, 0 \in S, \A n \in Nat : n \in S => n + 1 \in S
  PROVE  Nat \subseteq S
<1> SUFFICES ASSUME Nat \ S # {} PROVE FALSE
  OBVIOUS
<1>1. PICK x \in Nat \ S : \A y \in Nat \ S : x <= y
  BY NatMin
<1>2. x - 1 \in Nat /\ x - 1 \notin Nat \ S
  BY <1>1
<1> QED BY <1>1, <1>2

-----------------------------------------------------------------------------
LEMMA MinOfNats ==
  ASSUME NEW S \in SUBSET Nat, S # {}
  PROVE  Min(S) \in S /\ \A y \in S : Min(S) <= y
BY NatMin DEF Min

LEMMA MinOfPair ==
  ASSUME NEW a \in Int, NEW b \in Int
  PROVE  Min({a, b}) = IF a <= b THEN a ELSE b
<1> DEFINE m == IF a <= b THEN a ELSE b
<1>1. m \in {a, b} /\ \A y \in {a, b} : m <= y
  OBVIOUS
<1>2. ASSUME NEW x \in {a, b}, \A y \in {a, b} : x <= y
      PROVE  x = m
  BY <1>2
<1> HIDE DEF m
<1>3. Min({a, b}) = m
  BY <1>1, <1>2 DEF Min
<1> QED BY <1>3 DEF m

LEMMA MaxOfPair ==
  ASSUME NEW a \in Int, NEW b \in Int
  PROVE  Max({a, b}) = IF a >= b THEN a ELSE b
<1> DEFINE m == IF a >= b THEN a ELSE b
<1>1. m \in {a, b} /\ \A y \in {a, b} : m >= y
  OBVIOUS
<1>2. ASSUME NEW x \in {a, b}, \A y \in {a, b} : x >= y
      PROVE  x = m
  BY <1>2
<1> HIDE DEF m
<1>3. Max({a, b}) = m
  BY <1>1, <1>2 DEF Max
<1> QED BY <1>3 DEF m

LEMMA MinOfThree ==
  ASSUME NEW a \in Int, NEW b \in Int, NEW c \in Int
  PROVE  /\ Min({a, b, c}) \in {a, b, c}
         /\ Min({a, b, c}) <= a /\ Min({a, b, c}) <= b /\ Min({a, b, c}) <= c
<1> DEFINE m == IF a <= b /\ a <= c THEN a ELSE IF b <= c THEN b ELSE c
<1>1. m \in {a, b, c} /\ \A y \in {a, b, c} : m <= y
  OBVIOUS
<1> HIDE DEF m
<1>2. /\ Min({a, b, c}) \in {a, b, c}
      /\ \A y \in {a, b, c} : Min({a, b, c}) <= y
  BY <1>1 DEF Min
<1> QED BY <1>2

LEMMA ClampIs ==
  ASSUME NEW v \in Int, NEW lo \in Int, NEW hi \in Int, lo <= hi
  PROVE  Clamp(v, lo, hi) = IF v < lo THEN lo ELSE IF v > hi THEN hi ELSE v
<1>1. Max({v, lo}) = IF v >= lo THEN v ELSE lo
  BY MaxOfPair
<1>2. Max({v, lo}) \in Int
  BY <1>1
<1>3. Clamp(v, lo, hi) = IF Max({v, lo}) <= hi THEN Max({v, lo}) ELSE hi
  BY <1>2, MinOfPair DEF Clamp
<1> QED BY <1>1, <1>3

-----------------------------------------------------------------------------
\* The recursive function of EndOf exists.
LEMMA SumExists ==
  ASSUME NEW w
  PROVE  \A n \in Nat : \E f : f = [k \in 0 .. n |->
           IF k = 0 THEN 0 ELSE f[k - 1] + w[k].offset + w[k].duration]
<1> DEFINE S == {n \in Nat : \E f : f = [k \in 0 .. n |->
             IF k = 0 THEN 0 ELSE f[k - 1] + w[k].offset + w[k].duration]}
<1>1. 0 \in S
  <2> DEFINE f == [k \in 0 .. 0 |-> 0]
  <2>1. f = [k \in 0 .. 0 |-> IF k = 0 THEN 0
               ELSE f[k - 1] + w[k].offset + w[k].duration]
    OBVIOUS
  <2> QED BY <2>1
<1>2. ASSUME NEW n \in Nat, n \in S PROVE n + 1 \in S
  <2>1. PICK f : f = [k \in 0 .. n |-> IF k = 0 THEN 0
                        ELSE f[k - 1] + w[k].offset + w[k].duration]
    BY <1>2
  <2> DEFINE g == [k \in 0 .. n + 1 |-> IF k = n + 1
                     THEN f[n] + w[k].offset + w[k].duration ELSE f[k]]
  <2>2. g = [k \in 0 .. n + 1 |-> IF k = 0 THEN 0
               ELSE g[k - 1] + w[k].offset + w[k].duration]
    <3> SUFFICES ASSUME NEW k \in 0 .. n + 1
                 PROVE  g[k] = IF k = 0 THEN 0
                          ELSE g[k - 1] + w[k].offset + w[k].duration
      OBVIOUS
    <3>1. CASE k = n + 1
      BY <3>1, <2>1
    <3>2. CASE k # n + 1 /\ k # 0
      <4>1. k \in 0 .. n /\ k - 1 \in 0 .. n
        BY <3>2
      <4>2. g[k] = f[k] /\ g[k - 1] = f[k - 1]
        BY <3>2, <4>1
      <4>3. f[k] = f[k - 1] + w[k].offset + w[k].duration
        BY <2>1, <3>2, <4>1
      <4> QED BY <3>2, <4>2, <4>3
    <3>3. CASE k = 0
      BY <3>3, <2>1
    <3> QED BY <3>1, <3>2, <3>3
  <2> HIDE DEF g
  <2> QED BY <2>2
<1> HIDE DEF S
<1>3. Nat \subseteq S
  BY <1>1, <1>2, Induction
<1> QED BY <1>3 DEF S

\* Each entry ends an offset and a duration after the one before.
LEMMA EndOfSteps ==
  ASSUME NEW table \in TransitionCurves
  PROVE  /\ EndOf(table, 0) = 0
         /\ \A k \in 1 .. Len(table) :
              EndOf(table, k) =
                EndOf(table, k - 1) + table[k].offset + table[k].duration
<1> DEFINE F(f) == [k \in 0 .. Len(table) |-> IF k = 0 THEN 0
                      ELSE f[k - 1] + table[k].offset + table[k].duration]
           f == CHOOSE g : g = F(g)
<1>1. Len(table) \in Nat
  BY DEF TransitionCurves
<1>2. f = F(f)
  BY <1>1, SumExists
<1>3. \A k : EndOf(table, k) = f[k]
  BY DEF EndOf
<1> HIDE DEF f
<1>4. \A k \in 0 .. Len(table) :
         f[k] = IF k = 0 THEN 0
                ELSE f[k - 1] + table[k].offset + table[k].duration
  BY <1>2
<1>5. EndOf(table, 0) = 0
  BY <1>1, <1>3, <1>4
<1>6. ASSUME NEW k \in 1 .. Len(table)
      PROVE  EndOf(table, k) =
               EndOf(table, k - 1) + table[k].offset + table[k].duration
  <2>1. k \in 0 .. Len(table) /\ k # 0
    BY <1>1
  <2> QED BY <1>3, <1>4, <2>1
<1> QED BY <1>5, <1>6

LEMMA CurveShape ==
  ASSUME NEW table \in TransitionCurves
  PROVE  /\ Len(table) \in Nat \ {0} /\ DOMAIN table = 1 .. Len(table)
         /\ \A k \in 1 .. Len(table) : table[k] \in Entries
<1>1. table \in Seq(Entries) /\ table # <<>>
  BY DEF TransitionCurves
<1> QED BY <1>1

LEMMA EndOfNat ==
  ASSUME NEW table \in TransitionCurves, NEW j \in 0 .. Len(table)
  PROVE  EndOf(table, j) \in Nat
<1> DEFINE S == {n \in Nat : n <= Len(table) => EndOf(table, n) \in Nat}
<1>1. Len(table) \in Nat /\ j \in Nat
  BY CurveShape
<1>2. 0 \in S
  BY EndOfSteps
<1>3. ASSUME NEW n \in Nat, n \in S PROVE n + 1 \in S
  <2> SUFFICES ASSUME n + 1 <= Len(table) PROVE EndOf(table, n + 1) \in Nat
    OBVIOUS
  <2>1. n + 1 \in 1 .. Len(table) /\ EndOf(table, n) \in Nat
    BY <1>1, <1>3
  <2>2. table[n + 1].offset \in Nat /\ table[n + 1].duration \in Nat
    BY <2>1, CurveShape DEF Entries
  <2>3. EndOf(table, n + 1) = EndOf(table, (n + 1) - 1)
          + table[n + 1].offset + table[n + 1].duration
    BY <2>1, EndOfSteps
  <2>4. (n + 1) - 1 = n
    OBVIOUS
  <2> QED BY <2>1, <2>2, <2>3, <2>4
<1> HIDE DEF S
<1>4. j \in S
  BY <1>1, <1>2, <1>3, Induction
<1> QED BY <1>1, <1>4 DEF S

\* The first entry that is not over, or the last.
LEMMA NextEntryIs ==
  ASSUME NEW table \in TransitionCurves, NEW o \in Nat
  PROVE  LET j == NextEntry(table, o)
         IN  /\ j \in 1 .. Len(table)
             /\ ~IsOver(table, o) => o <= EndOf(table, j)
             /\ j > 1 => o > EndOf(table, j - 1)
<1> DEFINE E == {k \in DOMAIN table : o <= EndOf(table, k)}
           S == E \union {Len(table)}
           j == NextEntry(table, o)
<1>1. Len(table) \in Nat \ {0} /\ DOMAIN table = 1 .. Len(table)
  BY CurveShape
<1>2. S \subseteq 1 .. Len(table) /\ S \subseteq Nat /\ S # {}
  BY <1>1
<1>3. j = Min(S)
  BY DEF NextEntry
<1> HIDE DEF S
<1>4. j \in S /\ \A y \in S : j <= y
  BY <1>2, <1>3, MinOfNats
<1> HIDE DEF j
<1>5. j \in 1 .. Len(table)
  BY <1>2, <1>4
<1>6. ASSUME ~IsOver(table, o) PROVE o <= EndOf(table, j)
  <2>1. o <= EndOf(table, Len(table))
    BY <1>1, <1>6, EndOfNat DEF IsOver
  <2> QED BY <1>4, <2>1 DEF S
<1>7. ASSUME j > 1 PROVE o > EndOf(table, j - 1)
  <2>1. j - 1 \in DOMAIN table /\ j - 1 \in 0 .. Len(table)
    BY <1>1, <1>5, <1>7
  <2>2. j - 1 \notin S
    BY <1>4, <1>5
  <2>3. ~(o <= EndOf(table, j - 1))
    BY <2>1, <2>2 DEF S
  <2>4. EndOf(table, j - 1) \in Nat
    BY <2>1, EndOfNat
  <2> QED BY <2>3, <2>4
<1> QED BY <1>5, <1>6, <1>7 DEF j

LEMMA CurrIs ==
  ASSUME NEW table \in TransitionCurves, NEW o \in Nat
  PROVE  /\ CurrEntry(table, o) \in 1 .. Len(table)
         /\ CurrOffset(table, o) \in Nat
         /\ ~IsOver(table, o) =>
              /\ CurrOffset(table, o) = EndOf(table, NextEntry(table, o) - 1)
              /\ CurrEntry(table, o) = IF NextEntry(table, o) = 1 THEN 1
                                       ELSE NextEntry(table, o) - 1
<1> DEFINE j == NextEntry(table, o)
<1>1. j \in 1 .. Len(table) /\ Len(table) \in Nat \ {0}
  BY NextEntryIs, CurveShape
<1> HIDE DEF j
<1>2. Max({1, j - 1}) = IF j = 1 THEN 1 ELSE j - 1
  <2>1. j - 1 \in Int /\ 1 \in Int
    BY <1>1
  <2>2. Max({1, j - 1}) = IF 1 >= j - 1 THEN 1 ELSE j - 1
    BY <2>1, MaxOfPair
  <2> QED BY <1>1, <2>2
<1>3. CurrEntry(table, o) =
        IF IsOver(table, o) THEN Len(table) ELSE IF j = 1 THEN 1 ELSE j - 1
  BY <1>2 DEF CurrEntry, j
<1>4. CurrOffset(table, o) =
        EndOf(table, IF IsOver(table, o) THEN Len(table) ELSE j - 1)
  BY DEF CurrOffset, j
<1>5. Len(table) \in 0 .. Len(table) /\ j - 1 \in 0 .. Len(table)
  BY <1>1
<1>6. CurrOffset(table, o) \in Nat
  BY <1>4, <1>5, EndOfNat
<1> QED BY <1>1, <1>3, <1>4, <1>6 DEF j

LEMMA AtIsInt ==
  ASSUME NEW entry \in Entries, NEW v \in 0 .. 100
  PROVE  At(entry, v) \in Int
<1>1. /\ MinMultiplier \in Int /\ MaxMultiplier \in Int
      /\ MinMultiplier <= MaxMultiplier
  BY MultiplierAssumption
<1>2. Clamp(v, MinMultiplier, MaxMultiplier) \in Int
  BY <1>1, ClampIs
<1> HIDE DEF Clamp
<1>3. entry.value \in Int /\ entry.adj \in Int
  BY DEF Entries
<1>4. entry.adj * Clamp(v, MinMultiplier, MaxMultiplier) \in Int
  BY <1>2, <1>3
<1> QED BY <1>3, <1>4 DEF At

\* The parts of a segment are whole.
LEMMA SegmentIs ==
  ASSUME NEW table \in TransitionCurves, NEW o \in Nat
  PROVE  Elapsed(table, o) \in Int /\ Duration(table, o) \in Int
<1> DEFINE hold == table[CurrEntry(table, o)].duration
           n == EndOf(table, NextEntry(table, o)) - CurrOffset(table, o)
<1>1. hold \in Nat
  BY CurrIs, CurveShape DEF Entries
<1>2. CurrOffset(table, o) \in Nat
  BY CurrIs
<1>3. n \in Int
  <2>1. NextEntry(table, o) \in 0 .. Len(table)
    BY NextEntryIs
  <2>2. EndOf(table, NextEntry(table, o)) \in Nat
    BY <2>1, EndOfNat
  <2> QED BY <1>2, <2>2
<1>4. Elapsed(table, o) = o - CurrOffset(table, o) - hold
  BY DEF Elapsed
<1>5. Duration(table, o) =
        IF n # 0 THEN n - hold ELSE IF hold = 0 THEN 1 ELSE -1
  BY DEF Duration
<1> HIDE DEF hold, n
<1> QED BY <1>1, <1>2, <1>3, <1>4, <1>5

\* A part and a whole that is not zero.
LEMMA PercentageIs ==
  ASSUME NEW table \in TransitionCurves, NEW o \in Nat
  PROVE  /\ Percentage(table, o)[1] \in Int
         /\ Percentage(table, o)[2] \in Nat \ {0}
<1> DEFINE e == Elapsed(table, o)
           d == Duration(table, o)
<1>1. Percentage(table, o) =
        IF e < 0 \/ d <= 0 THEN <<0, 1>> ELSE <<Clamp(e, 0, d), d>>
  BY DEF Percentage
<1>2. e \in Int /\ d \in Int
  BY SegmentIs
<1> HIDE DEF e, d
<1>3. CASE e < 0 \/ d <= 0
  BY <1>1, <1>3
<1>4. CASE ~(e < 0 \/ d <= 0)
  <2>1. d \in Nat \ {0} /\ 0 <= d
    BY <1>2, <1>4
  <2>2. Clamp(e, 0, d) \in Int
    BY <1>2, <2>1, ClampIs
  <2>3. Percentage(table, o) = <<Clamp(e, 0, d), d>>
    BY <1>1, <1>4
  <2> QED BY <2>1, <2>2, <2>3
<1> QED BY <1>3, <1>4

\* Whatever the curve, the bulb can show the temperature.
LEMMA TemperatureGood ==
  ASSUME NEW table \in TransitionCurves, NEW o \in Nat, NEW v \in 0 .. 100
  PROVE  Temperature(table, o, v) \in 50 .. 400
<1> DEFINE p == Percentage(table, o)
           from == At(table[CurrEntry(table, o)], v)
           to == At(table[NextEntry(table, o)], v)
           x == (from * (p[2] - p[1]) + to * p[1]) \div p[2]
<1>1. p[1] \in Int /\ p[2] \in Nat \ {0}
  BY PercentageIs
<1>2. from \in Int /\ to \in Int
  BY CurrIs, NextEntryIs, CurveShape, AtIsInt
<1>3. Temperature(table, o, v) =
        IF IsNaN(table, o) THEN TemperatureOfNaN ELSE Clamp(x, 50, 400)
  BY DEF Temperature
<1> HIDE DEF p, from, to
<1>4. x \in Int
  BY <1>1, <1>2
<1> HIDE DEF x
<1>5. Clamp(x, 50, 400) = IF x < 50 THEN 50 ELSE IF x > 400 THEN 400 ELSE x
  BY <1>4, ClampIs
<1>6. CASE IsNaN(table, o)
  BY <1>3, <1>6, NaNAssumption
<1>7. CASE ~IsNaN(table, o)
  BY <1>3, <1>4, <1>5, <1>7
<1> QED BY <1>6, <1>7

\* Without durations the code computes the curve of the definition.
Plain(table) == \A k \in DOMAIN table : table[k].duration = 0

LEMMA ExactDivision ==
  ASSUME NEW x \in Int, NEW w \in Nat \ {0}
  PROVE  (x * w) \div w = x
OBVIOUS

LEMMA OnCurveGood ==
  ASSUME NEW table \in TransitionCurves, Plain(table),
         NEW o \in Nat, ~IsOver(table, o), NEW v \in 0 .. 100
  PROVE  Temperature(table, o, v) = OnCurve(table, o, v)
<1> DEFINE j == NextEntry(table, o)
           start == EndOf(table, j - 1)
           w == table[j].offset
           e == o - start
           m == IF w >= 1 THEN w ELSE 1
           curr == IF j = 1 THEN 1 ELSE j - 1
           F == At(table[curr], v)
           T == At(table[j], v)
<1>1. /\ j \in 1 .. Len(table) /\ o <= EndOf(table, j)
      /\ j > 1 => o > start
  BY NextEntryIs
<1>2. /\ w \in Nat /\ T \in Int /\ table[j].duration = 0
  BY <1>1, CurveShape, AtIsInt DEF Entries, Plain
<1>3. curr \in 1 .. Len(table)
  BY <1>1
<1>4. F \in Int /\ table[curr].duration = 0
  <2> HIDE DEF curr
  <2>1. table[curr] \in Entries /\ curr \in DOMAIN table
    BY <1>3, CurveShape
  <2> QED BY <2>1, AtIsInt DEF Plain
<1>5. start \in Nat /\ EndOf(table, j) = start + w
  <2>1. j - 1 \in 0 .. Len(table)
    BY <1>1
  <2>2. EndOf(table, j) = EndOf(table, j - 1) + w + table[j].duration
    BY <1>1, EndOfSteps
  <2>3. start \in Nat
    BY <2>1, EndOfNat
  <2> HIDE DEF w
  <2> QED BY <1>2, <2>2, <2>3
<1>6. j = 1 => start = 0 /\ F = T
  BY EndOfSteps
<1>7. CurrEntry(table, o) = curr /\ CurrOffset(table, o) = start
  BY CurrIs
<1>8. e \in 0 .. w /\ (w = 0 => j = 1)
  <2> HIDE DEF j, start, w
  <2>1. CASE j = 1
    BY <1>1, <1>2, <1>5, <1>6, <2>1
  <2>2. CASE j # 1
    BY <1>1, <1>2, <1>5, <2>2
  <2> QED BY <2>1, <2>2
<1>9. Percentage(table, o) = <<e, m>> /\ ~IsNaN(table, o)
  <2>1. /\ Elapsed(table, o) = o - start - table[curr].duration
        /\ Duration(table, o) =
             IF EndOf(table, j) - start # 0
             THEN EndOf(table, j) - start - table[curr].duration
             ELSE IF table[curr].duration = 0 THEN 1 ELSE -1
    BY <1>7 DEF Elapsed, Duration
  <2> HIDE DEF w, j, start, curr
  <2>2. Elapsed(table, o) = e /\ Duration(table, o) = m
    BY <1>2, <1>4, <1>5, <2>1
  <2>3. m \in Nat \ {0} /\ e \in 0 .. m
    BY <1>2, <1>8
  <2>4. Percentage(table, o) =
          IF e < 0 \/ m <= 0 THEN <<0, 1>> ELSE <<Clamp(e, 0, m), m>>
    BY <2>2 DEF Percentage
  <2>5. IsNaN(table, o) <=> e >= 0 /\ m = 0
    BY <2>2 DEF IsNaN
  <2> HIDE DEF e, m
  <2>6. Clamp(e, 0, m) = e
    <3>1. e \in Int /\ m \in Int /\ 0 <= m
      BY <2>3
    <3>2. Clamp(e, 0, m) = IF e < 0 THEN 0 ELSE IF e > m THEN m ELSE e
      BY <3>1, ClampIs
    <3> QED BY <2>3, <3>2
  <2> QED BY <2>3, <2>4, <2>5, <2>6
<1>10. Temperature(table, o, v) = Clamp((F * (m - e) + T * e) \div m, 50, 400)
  BY <1>7, <1>9 DEF Temperature
<1> DEFINE left == Clamp(EndOf(table, j) - o, 0, w)
           from == IF j = 1 THEN T ELSE At(table[j - 1], v)
<1>11. OnCurve(table, o, v) =
         Clamp(IF left = 0 THEN T
               ELSE (from * left + T * (w - left)) \div w, 50, 400)
  BY DEF OnCurve, j, NextEntry
<1>12. from = F
  BY <1>6
<1>13. left = w - e
  <2> HIDE DEF j, start, w
  <2>1. EndOf(table, j) - o = w - e
    BY <1>2, <1>5, <1>1
  <2>2. w - e \in 0 .. w /\ 0 <= w
    BY <1>2, <1>8
  <2> HIDE DEF e
  <2>3. Clamp(w - e, 0, w) = IF w - e < 0 THEN 0
                             ELSE IF w - e > w THEN w ELSE w - e
    BY <1>2, <2>2, ClampIs
  <2>4. ~(w - e < 0) /\ ~(w - e > w)
    BY <1>2, <2>2
  <2> QED BY <2>1, <2>3, <2>4
<1> HIDE DEF j, start, w, F, T, e, from, left
<1>14. CASE w = 0
  <2>1. e = 0 /\ m = 1 /\ F = T /\ left = 0
    <3>1. e = 0
      BY <1>8, <1>14
    <3>2. F = T
      BY <1>6, <1>8, <1>14
    <3> QED BY <1>13, <1>14, <3>1, <3>2
  <2>2. (F * (m - e) + T * e) \div m = T
    BY <1>2, <2>1
  <2> QED BY <1>10, <1>11, <2>1, <2>2
<1>15. CASE w # 0
  <2>1. m = w /\ w \in Nat \ {0} /\ e \in Int
    BY <1>2, <1>8, <1>15
  <2>2. CASE left = 0
    <3>1. m - e = 0 /\ e = m
      BY <1>13, <2>1, <2>2
    <3>2. F * (m - e) + T * e = T * w
      BY <1>2, <1>4, <2>1, <3>1
    <3>3. (F * (m - e) + T * e) \div m = T
      BY <1>2, <2>1, <3>2, ExactDivision
    <3> QED BY <1>10, <1>11, <2>2, <3>3
  <2>3. CASE left # 0
    <3>1. w - left = e /\ m - e = left
      BY <1>13, <2>1
    <3> QED BY <1>10, <1>11, <1>12, <2>1, <2>3, <3>1
  <2> QED BY <2>2, <2>3
<1> QED BY <1>14, <1>15

-----------------------------------------------------------------------------
\* How much of the saturation a channel loses, in sixtieths.
Weight(k) == Max({0, Min({k, 240 - k, 60})})

LEMMA WeightIs ==
  ASSUME NEW k \in 0 .. 359
  PROVE  Weight(k) = IF k <= 60 THEN k ELSE IF k <= 180 THEN 60
                     ELSE IF k <= 240 THEN 240 - k ELSE 0
<1> DEFINE m == Min({k, 240 - k, 60})
<1>1. /\ m \in {k, 240 - k, 60} /\ m <= k /\ m <= 240 - k /\ m <= 60
      /\ m \in Int
  <2> DEFINE a == 240 - k
             c == 60
  <2>1. k \in Int /\ a \in Int /\ c \in Int
    OBVIOUS
  <2>2. m = Min({k, a, c})
    OBVIOUS
  <2> HIDE DEF m, a, c
  <2>3. /\ m \in {k, a, c} /\ m <= k /\ m <= a /\ m <= c
    BY <2>1, <2>2, MinOfThree
  <2>4. m \in Int
    BY <2>1, <2>3
  <2> QED BY <2>3, <2>4 DEF a, c
<1> HIDE DEF m
<1>2. Max({0, m}) = IF 0 >= m THEN 0 ELSE m
  BY <1>1, MaxOfPair
<1>3. Weight(k) = IF 0 >= m THEN 0 ELSE m
  BY <1>2 DEF Weight, m
<1> QED BY <1>1, <1>3

\* The weight of red, green and blue (n is 5, 3 and 1) for a hue.
Loss(h, n) == Weight((60 * n + h) % 360)

LEMMA SectorLosses ==
  ASSUME NEW h \in 0 .. 360,
         NEW i, i = (h \div 60) % 6, NEW f, f = h % 60
  PROVE  /\ i \in 0 .. 5 /\ f \in 0 .. 59
         /\ i = 0 => Loss(h, 5) = 0 /\ Loss(h, 3) = 60 - f /\ Loss(h, 1) = 60
         /\ i = 1 => Loss(h, 5) = f /\ Loss(h, 3) = 0 /\ Loss(h, 1) = 60
         /\ i = 2 => Loss(h, 5) = 60 /\ Loss(h, 3) = 0 /\ Loss(h, 1) = 60 - f
         /\ i = 3 => Loss(h, 5) = 60 /\ Loss(h, 3) = f /\ Loss(h, 1) = 0
         /\ i = 4 => Loss(h, 5) = 60 - f /\ Loss(h, 3) = 60 /\ Loss(h, 1) = 0
         /\ i = 5 => Loss(h, 5) = 0 /\ Loss(h, 3) = 60 /\ Loss(h, 1) = f
<1> DEFINE r == (60 * 5 + h) % 360
           g == (60 * 3 + h) % 360
           b == (60 * 1 + h) % 360
           k == 60 * i + f
<1>1. i \in 0 .. 5 /\ f \in 0 .. 59 /\ h \in {k, k + 360}
  OBVIOUS
<1>2. /\ r = IF k >= 60 THEN k - 60 ELSE k + 300
      /\ g = IF k >= 180 THEN k - 180 ELSE k + 180
      /\ b = IF k >= 300 THEN k - 300 ELSE k + 60
  <2>1. k \in 0 .. 359
    BY <1>1
  <2> HIDE DEF k
  <2> QED BY <1>1, <2>1
<1>3. /\ Loss(h, 5) = Weight(r) /\ Loss(h, 3) = Weight(g)
      /\ Loss(h, 1) = Weight(b)
  BY DEF Loss
<1>4. r \in 0 .. 359 /\ g \in 0 .. 359 /\ b \in 0 .. 359
  OBVIOUS
<1> HIDE DEF r, g, b
<1>5. \A n \in {r, g, b} :
        Weight(n) = IF n <= 60 THEN n ELSE IF n <= 180 THEN 60
                    ELSE IF n <= 240 THEN 240 - n ELSE 0
  BY <1>4, WeightIs
<1>6. CASE i = 0
  BY <1>1, <1>2, <1>3, <1>5, <1>6
<1>7. CASE i = 1
  BY <1>1, <1>2, <1>3, <1>5, <1>7
<1>8. CASE i = 2
  BY <1>1, <1>2, <1>3, <1>5, <1>8
<1>9. CASE i = 3
  BY <1>1, <1>2, <1>3, <1>5, <1>9
<1>10. CASE i = 4
  BY <1>1, <1>2, <1>3, <1>5, <1>10
<1>11. CASE i = 5
  BY <1>1, <1>2, <1>3, <1>5, <1>11
<1> QED BY <1>1, <1>6, <1>7, <1>8, <1>9, <1>10, <1>11

\* A product of two bounded numbers.
LEMMA ProductBound ==
  ASSUME NEW x \in Nat, NEW y \in Nat, NEW u \in Nat, NEW w \in Nat,
         x <= u, y <= w
  PROVE  x * y \in Nat /\ x * y <= u * w
<1>1. x * y \in Nat /\ u * y \in Nat /\ u * w \in Nat
  OBVIOUS
<1>2. x * y <= u * y
  OBVIOUS
<1>3. u * y <= u * w
  OBVIOUS
<1> QED BY <1>1, <1>2, <1>3

\* Where the ranges are: the provers do not like them written out.
LEMMA FullIs ==
  /\ Full("white") = 100 /\ Full("cct") = 350 * 100
  /\ Full("rgb") = 100 * 6000 /\ Full("rgbw") = 100 * 6000
BY SMT DEF Full

LEMMA InRange ==
  ASSUME NEW x \in Int, NEW top \in Int, 0 <= x, x <= top
  PROVE  x \in 0 .. top
OBVIOUS

\* A channel that loses so much.
Shade(cfg, x) == cfg.b * (6000 - cfg.s * x)

LEMMA ShadeGood ==
  ASSUME NEW cfg \in Settings, NEW x \in 0 .. 60
  PROVE  Shade(cfg, x) \in 0 .. Full("rgb")
<1> DEFINE y == cfg.s * x
           z == 6000 - y
           p == cfg.b * z
           top == Full("rgb")
<1>0. cfg.b \in 0 .. 100 /\ cfg.s \in 0 .. 100
  BY DEF Settings
<1>1. y \in Nat /\ y <= 100 * 60
  BY <1>0, ProductBound, SMT
<1>2. Shade(cfg, x) = p
  BY SMT DEF z, y, Shade
<1> HIDE DEF y
<1>3. z \in Nat /\ z <= 6000
  BY <1>1, SMT DEF z
<1> HIDE DEF z
<1>4. p \in Nat /\ p <= 100 * 6000
  BY <1>0, <1>3, ProductBound, SMT
<1> HIDE DEF p
<1>5. p <= top /\ top \in Int
  BY <1>4, FullIs, SMT DEF top
<1> HIDE DEF top
<1>6. p \in 0 .. top
  BY <1>4, <1>5, InRange
<1> QED BY <1>2, <1>6 DEF top

LEMMA ChannelIs ==
  ASSUME NEW cfg \in Settings, NEW n \in {1, 3, 5}
  PROVE  /\ Channel(cfg, n) = Shade(cfg, Loss(cfg.h, n))
         /\ Loss(cfg.h, n) \in 0 .. 60
<1>1. Channel(cfg, n) = Shade(cfg, Loss(cfg.h, n))
  BY SMT DEF Channel, Shade, Loss, Weight
<1>2. cfg.h \in 0 .. 360
  BY DEF Settings
<1>3. Loss(cfg.h, n) \in 0 .. 60
  <2> DEFINE i == (cfg.h \div 60) % 6
             f == cfg.h % 60
  <2>1. /\ i \in 0 .. 5 /\ f \in 0 .. 59
        /\ i = 0 => /\ Loss(cfg.h, 5) = 0 /\ Loss(cfg.h, 3) = 60 - f
                    /\ Loss(cfg.h, 1) = 60
        /\ i = 1 => /\ Loss(cfg.h, 5) = f /\ Loss(cfg.h, 3) = 0
                    /\ Loss(cfg.h, 1) = 60
        /\ i = 2 => /\ Loss(cfg.h, 5) = 60 /\ Loss(cfg.h, 3) = 0
                    /\ Loss(cfg.h, 1) = 60 - f
        /\ i = 3 => /\ Loss(cfg.h, 5) = 60 /\ Loss(cfg.h, 3) = f
                    /\ Loss(cfg.h, 1) = 0
        /\ i = 4 => /\ Loss(cfg.h, 5) = 60 - f /\ Loss(cfg.h, 3) = 60
                    /\ Loss(cfg.h, 1) = 0
        /\ i = 5 => /\ Loss(cfg.h, 5) = 0 /\ Loss(cfg.h, 3) = 60
                    /\ Loss(cfg.h, 1) = f
    BY <1>2, SectorLosses
  <2> HIDE DEF i, f
  <2> QED BY <2>1
<1> QED BY <1>1, <1>3

\* The six cases of the code are the definition of HSV.
LEMMA HsvGood ==
  ASSUME NEW cfg \in Settings
  PROVE  HsvState(cfg) =
           <<Channel(cfg, 5), Channel(cfg, 3), Channel(cfg, 1)>>
<1> DEFINE f == cfg.h % 60
           k == (cfg.h \div 60) % 6
           v == cfg.b * 6000
           p == cfg.b * (6000 - 60 * cfg.s)
           q == cfg.b * (6000 - f * cfg.s)
           t == cfg.b * (6000 - (60 - f) * cfg.s)
           r3 == Loss(cfg.h, 5)
           g3 == Loss(cfg.h, 3)
           b3 == Loss(cfg.h, 1)
<1>1. cfg.h \in 0 .. 360 /\ cfg.b \in 0 .. 100 /\ cfg.s \in 0 .. 100
  BY DEF Settings
<1>2. HsvState(cfg) =
        IF cfg.s = 0 THEN <<v, v, v>>
        ELSE <<<<v, t, p>>, <<q, v, p>>, <<p, v, t>>,
               <<p, q, v>>, <<t, p, v>>, <<v, p, q>>>>[k + 1]
  BY DEF HsvState
<1>3. f \in 0 .. 59
  BY <1>1
<1>4. v = Shade(cfg, 0)
  BY <1>1, SMT DEF Shade
<1>5. p = Shade(cfg, 60)
  BY <1>1, SMT DEF Shade
<1>6. q = Shade(cfg, f)
  <2> HIDE DEF f
  <2> QED BY <1>1, <1>3, SMT DEF Shade
<1>7. t = Shade(cfg, 60 - f)
  <2> HIDE DEF f
  <2>1. 60 - f \in Int
    BY <1>3
  <2>2. (60 - f) * cfg.s = cfg.s * (60 - f)
    BY <1>1, <2>1
  <2> QED BY <2>2, SMT DEF Shade
<1>8. /\ k \in 0 .. 5
      /\ k = 0 => r3 = 0 /\ g3 = 60 - f /\ b3 = 60
      /\ k = 1 => r3 = f /\ g3 = 0 /\ b3 = 60
      /\ k = 2 => r3 = 60 /\ g3 = 0 /\ b3 = 60 - f
      /\ k = 3 => r3 = 60 /\ g3 = f /\ b3 = 0
      /\ k = 4 => r3 = 60 - f /\ g3 = 60 /\ b3 = 0
      /\ k = 5 => r3 = 0 /\ g3 = 60 /\ b3 = f
  BY <1>1, SectorLosses
<1>9. /\ Channel(cfg, 5) = Shade(cfg, r3) /\ r3 \in 0 .. 60
      /\ Channel(cfg, 3) = Shade(cfg, g3) /\ g3 \in 0 .. 60
      /\ Channel(cfg, 1) = Shade(cfg, b3) /\ b3 \in 0 .. 60
  BY ChannelIs
<1> HIDE DEF f, k, v, p, q, t, r3, g3, b3
<1>10. CASE cfg.s = 0
  <2>1. \A x \in 0 .. 60 : Shade(cfg, x) = v
    BY <1>1, <1>4, <1>10, SMT DEF Shade
  <2> QED BY <1>2, <1>9, <1>10, <2>1
<1>11. CASE cfg.s # 0
  <2>1. CASE k = 0
    BY <1>2, <1>4, <1>5, <1>7, <1>8, <1>9, <1>11, <2>1
  <2>2. CASE k = 1
    BY <1>2, <1>4, <1>5, <1>6, <1>8, <1>9, <1>11, <2>2
  <2>3. CASE k = 2
    BY <1>2, <1>4, <1>5, <1>7, <1>8, <1>9, <1>11, <2>3
  <2>4. CASE k = 3
    BY <1>2, <1>4, <1>5, <1>6, <1>8, <1>9, <1>11, <2>4
  <2>5. CASE k = 4
    BY <1>2, <1>4, <1>5, <1>7, <1>8, <1>9, <1>11, <2>5
  <2>6. CASE k = 5
    BY <1>2, <1>4, <1>5, <1>6, <1>8, <1>9, <1>11, <2>6
  <2> QED BY <1>8, <2>1, <2>2, <2>3, <2>4, <2>5, <2>6
<1> QED BY <1>10, <1>11

\* What the outputs of a type can show.
States(type) == [1 .. Outputs(type) -> 0 .. Full(type)]

LEMMA OutputsIs ==
  /\ Outputs("white") = 1 /\ Outputs("cct") = 2
  /\ Outputs("rgb") = 3 /\ Outputs("rgbw") = 4
BY DEF Outputs

LEMMA FullNat ==
  ASSUME NEW type \in BulbTypes
  PROVE  Full(type) \in Nat
BY FullIs, SMT DEF BulbTypes

LEMMA DarkGood ==
  ASSUME NEW type \in BulbTypes
  PROVE  Dark(type) \in States(type)
<1> DEFINE top == Full(type)
<1>1. top \in Nat
  BY FullNat
<1> HIDE DEF top
<1>2. Dark(type) \in [1 .. Outputs(type) -> 0 .. top]
  BY <1>1 DEF Dark
<1> QED BY <1>2 DEF States, top

LEMMA CCTGood ==
  ASSUME NEW cfg \in Settings
  PROVE  LET st == CCTState(cfg)
         IN  /\ st \in States("cct")
             /\ st[1] + st[2] = cfg.b * 350
             /\ st[1] * (400 - cfg.ct) = st[2] * (cfg.ct - 50)
<1> DEFINE st == CCTState(cfg)
           b == cfg.b
           x == cfg.ct - 50
           y == 350 - x
           top == Full("cct")
<1>1. /\ b \in Nat /\ b <= 100 /\ x \in Nat /\ x <= 350
      /\ y \in Nat /\ y <= 350 /\ 400 - cfg.ct = y
  BY DEF Settings
<1>2. st = <<x * b, y * b>>
  BY DEF CCTState
<1>3. x + y = 350
  BY <1>1
<1> HIDE DEF b, x, y, st
<1>4. /\ x * b \in Nat /\ x * b <= 350 * 100
      /\ y * b \in Nat /\ y * b <= 350 * 100
  BY <1>1, ProductBound, SMT
<1>5. x * b + y * b = b * 350
  <2>1. x * b + y * b = (x + y) * b
    BY <1>1, SMT
  <2> QED BY <1>1, <1>3, <2>1, SMT
<1>6. (x * b) * y = (y * b) * x
  BY <1>1, SMT
<1> DEFINE p == x * b
           q == y * b
<1>7. p <= top /\ q <= top /\ p \in Nat /\ q \in Nat /\ top \in Int
  BY <1>4, FullIs, SMT DEF top
<1>8. st = <<p, q>> /\ st[1] = p /\ st[2] = q
  BY <1>2
<1>9. st[1] + st[2] = cfg.b * 350
  BY <1>5, <1>8, SMT DEF b
<1>10. st[1] * (400 - cfg.ct) = st[2] * (cfg.ct - 50)
  BY <1>1, <1>6, <1>8, SMT DEF x
<1> HIDE DEF p, q, top
<1>11. p \in 0 .. top /\ q \in 0 .. top
  BY <1>7, InRange
<1>12. st \in [1 .. 2 -> 0 .. top]
  BY <1>8, <1>11
<1>13. st \in States("cct")
  BY <1>12, OutputsIs DEF States, top
<1> QED BY <1>9, <1>10, <1>13 DEF st

LEMMA RGBGood ==
  ASSUME NEW cfg \in Settings
  PROVE  /\ HsvState(cfg) \in States("rgb")
         /\ \A i \in 1 .. 3 : HsvState(cfg)[i] = Channel(cfg, 7 - 2 * i)
<1> DEFINE r == Channel(cfg, 5)
           g == Channel(cfg, 3)
           b == Channel(cfg, 1)
           st == HsvState(cfg)
           S == 0 .. Full("rgb")
<1>1. st = <<r, g, b>>
  BY HsvGood
<1>2. r \in S /\ g \in S /\ b \in S
  BY ChannelIs, ShadeGood
<1> HIDE DEF S
<1>3. /\ 7 - 2 * 1 = 5 /\ 7 - 2 * 2 = 3 /\ 7 - 2 * 3 = 1
  OBVIOUS
<1>4. \A i \in 1 .. 3 : st[i] = Channel(cfg, 7 - 2 * i)
  <2>1. \A i \in 1 .. 3 : i = 1 \/ i = 2 \/ i = 3
    OBVIOUS
  <2>2. st[1] = r /\ st[2] = g /\ st[3] = b
    BY <1>1
  <2> HIDE DEF st
  <2> QED BY <1>3, <2>1, <2>2
<1> HIDE DEF r, g, b, st
<1>5. st \in [1 .. 3 -> S]
  BY <1>1, <1>2
<1> QED BY <1>4, <1>5, OutputsIs DEF States, S, st

LEMMA RGBWGood ==
  ASSUME NEW cfg \in Settings
  PROVE  LET st == WithWhite(HsvState(cfg))
         IN  /\ st \in States("rgbw")
             /\ \A i \in 1 .. 3 : st[i] + st[4] = Channel(cfg, 7 - 2 * i)
             /\ \E i \in 1 .. 3 : st[i] = 0
<1> DEFINE rgb == HsvState(cfg)
           r == rgb[1]
           g == rgb[2]
           b == rgb[3]
           w == Lower(r, Lower(g, b))
           st == WithWhite(rgb)
           top == Full("rgb")
<1>1. /\ rgb \in [1 .. 3 -> 0 .. top]
      /\ \A i \in 1 .. 3 : rgb[i] = Channel(cfg, 7 - 2 * i)
  BY RGBGood, OutputsIs DEF States
<1>2. st = <<r - w, g - w, b - w, w>>
  BY DEF WithWhite
<1>3. top \in Nat
  BY FullNat DEF BulbTypes
<1>4. Full("rgbw") = top
  BY FullIs, SMT
<1> HIDE DEF rgb, top, st
<1>5. r \in 0 .. top /\ g \in 0 .. top /\ b \in 0 .. top
  BY <1>1
<1>6. /\ w \in 0 .. top /\ w <= r /\ w <= g /\ w <= b
      /\ w = r \/ w = g \/ w = b
  BY <1>3, <1>5 DEF Lower
<1> HIDE DEF r, g, b, w
<1>7. /\ r - w \in 0 .. top /\ g - w \in 0 .. top /\ b - w \in 0 .. top
  BY <1>3, <1>5, <1>6
<1>8. st \in [1 .. 4 -> 0 .. top]
  BY <1>2, <1>6, <1>7
<1>9. \A i \in 1 .. 3 : st[i] + st[4] = rgb[i]
  <2>1. st[1] + st[4] = r /\ st[2] + st[4] = g /\ st[3] + st[4] = b
    BY <1>2, <1>3, <1>5, <1>6
  <2> QED BY <2>1 DEF r, g, b
<1>10. \E i \in 1 .. 3 : st[i] = 0
  <2>1. st[1] = 0 \/ st[2] = 0 \/ st[3] = 0
    BY <1>2, <1>3, <1>5, <1>6
  <2> QED BY <2>1
<1> QED BY <1>1, <1>4, <1>8, <1>9, <1>10, OutputsIs DEF States, st, rgb

\* Whatever the light is set to, the outputs can show it and do.
LEMMA ConfigShows ==
  ASSUME NEW type \in BulbTypes, NEW cfg \in Settings
  PROVE  /\ ConfigToState(type, cfg) \in States(type)
         /\ Shows(type, cfg, ConfigToState(type, cfg))
<1> DEFINE st == ConfigToState(type, cfg)
<1>1. CASE ~cfg.on
  <2>1. st = Dark(type)
    BY <1>1 DEF ConfigToState
  <2> HIDE DEF st
  <2> QED BY <1>1, <2>1, DarkGood DEF Shows, st
<1>2. CASE cfg.on
  <2>1. CASE type = "white"
    <3>1. st = <<cfg.b>>
      BY <1>2, <2>1 DEF ConfigToState
    <3>2. cfg.b \in 0 .. 100
      BY DEF Settings
    <3> HIDE DEF st
    <3>3. st \in [1 .. 1 -> 0 .. 100] /\ st[1] = cfg.b
      BY <3>1, <3>2
    <3>4. st \in States(type)
      BY <2>1, <3>3, OutputsIs, FullIs, SMT DEF States
    <3> QED BY <1>2, <2>1, <3>3, <3>4 DEF Shows, st
  <2>2. CASE type = "cct"
    <3>1. st = CCTState(cfg)
      BY <1>2, <2>2 DEF ConfigToState
    <3> HIDE DEF st
    <3> QED BY <1>2, <2>2, <3>1, CCTGood DEF Shows, st
  <2>3. CASE type = "rgb"
    <3>1. st = HsvState(cfg)
      BY <1>2, <2>3 DEF ConfigToState
    <3> HIDE DEF st
    <3> QED BY <1>2, <2>3, <3>1, RGBGood DEF Shows, st
  <2>4. CASE type = "rgbw"
    <3>1. st = WithWhite(HsvState(cfg))
      BY <1>2, <2>4 DEF ConfigToState
    <3> HIDE DEF st
    <3> QED BY <1>2, <2>4, <3>1, RGBWGood DEF Shows, st
  <2> QED BY <2>1, <2>2, <2>3, <2>4 DEF BulbTypes
<1> QED BY <1>1, <1>2

-----------------------------------------------------------------------------
\* A controller: what it shows now and at the end is a state of its outputs,
\* and its timer runs as long as there is a fade in its queue.
Fades(type) == [end : States(type), time : Nat]

Controllers(type) == [start : States(type), queue : Seq(Fades(type)),
                      running : BOOLEAN, elapsed : Nat]

Runs(c) == c.running = TRUE <=> c.queue # <<>>

\* Where its fades lead to.
Goal(c) == IF c.queue = <<>> THEN c.start ELSE c.queue[Len(c.queue)].end

LEMMA AppendIs ==
  ASSUME NEW F, NEW q \in Seq(F), NEW x \in F
  PROVE  LET p == Append(q, x)
         IN  /\ p \in Seq(F) /\ p # <<>> /\ Len(p) = Len(q) + 1
             /\ p[Len(p)] = x
<1> DEFINE p == Append(q, x)
<1>1. p \in Seq(F) /\ Len(p) = Len(q) + 1 /\ Len(q) \in Nat
  OBVIOUS
<1>2. p[Len(q) + 1] = x
  OBVIOUS
<1>3. p # <<>>
  <2> HIDE DEF p
  <2> QED BY <1>1
<1> HIDE DEF p
<1>4. p[Len(p)] = x
  BY <1>1, <1>2
<1> QED BY <1>1, <1>3, <1>4 DEF p

LEMMA TailIs ==
  ASSUME NEW F, NEW q \in Seq(F), q # <<>>
  PROVE  LET t == Tail(q)
         IN  /\ t \in Seq(F) /\ Len(t) = Len(q) - 1 /\ Len(q) \in Nat
             /\ t # <<>> => t[Len(t)] = q[Len(q)]
             /\ t = <<>> => q[Len(q)] = Head(q)
<1> DEFINE t == Tail(q)
<1>1. t \in Seq(F) /\ Len(t) = Len(q) - 1 /\ Len(q) \in Nat /\ Len(q) > 0
  OBVIOUS
<1>2. ASSUME t # <<>> PROVE t[Len(t)] = q[Len(q)]
  <2>1. Len(t) \in 1 .. Len(q) - 1
    <3> HIDE DEF t
    <3> QED BY <1>1, <1>2
  <2>2. \A i \in 1 .. Len(q) - 1 : t[i] = q[i + 1]
    OBVIOUS
  <2> HIDE DEF t
  <2>3. t[Len(t)] = q[Len(t) + 1] /\ Len(t) + 1 = Len(q)
    BY <1>1, <2>1, <2>2
  <2> QED BY <2>3
<1>3. ASSUME t = <<>> PROVE q[Len(q)] = Head(q)
  <2>1. Len(q) = 1
    <3> HIDE DEF t
    <3>1. Len(t) = 0
      BY <1>3
    <3> QED BY <1>1, <3>1
  <2> QED BY <2>1
<1> QED BY <1>1, <1>2, <1>3

LEMMA NewControllerGood ==
  ASSUME NEW type \in BulbTypes
  PROVE  LET c == NewController(Dark(type))
         IN  c \in Controllers(type) /\ Runs(c) /\ Len(c.queue) = 0
<1> DEFINE s == Dark(type)
           c == NewController(s)
           T == States(type)
           F == Fades(type)
<1>1. s \in T
  BY DarkGood
<1> HIDE DEF s, T, F
<1>2. c \in [start : T, queue : Seq(F), running : BOOLEAN, elapsed : Nat]
  BY <1>1 DEF NewController
<1>3. Runs(c) /\ Len(c.queue) = 0
  BY DEF NewController, Runs
<1> QED BY <1>2, <1>3 DEF Controllers, T, F, s

LEMMA UpdateOutputGood ==
  ASSUME NEW type \in BulbTypes, NEW c \in Controllers(type), Runs(c),
         NEW end \in States(type), NEW time \in Nat, NEW cancel \in BOOLEAN
  PROVE  LET d == UpdateOutput(c, end, time, cancel)
         IN  /\ d \in Controllers(type) /\ Runs(d) /\ Goal(d) = end
             /\ Len(d.queue) = IF cancel THEN 1 ELSE Len(c.queue) + 1
<1> DEFINE F == Fades(type)
           T == States(type)
           q == IF cancel THEN <<>> ELSE c.queue
           fade == [end |-> end, time |-> time]
           p == Append(q, fade)
           e == [c EXCEPT !.queue = p]
           d == UpdateOutput(c, end, time, cancel)
<1>1. /\ c = [start |-> c.start, queue |-> c.queue,
              running |-> c.running, elapsed |-> c.elapsed]
      /\ c.start \in T /\ c.queue \in Seq(F) /\ c.running \in BOOLEAN
      /\ c.elapsed \in Nat
  BY DEF Controllers
<1>2. fade \in F
  BY DEF Fades
<1>3. q \in Seq(F) /\ Len(q) = IF cancel THEN 0 ELSE Len(c.queue)
  BY <1>1
<1>4. d = StartPendingTransitions(e)
  BY DEF UpdateOutput
<1>5. fade.end = end
  OBVIOUS
<1> HIDE DEF F, T, q, fade, d
<1>6. /\ p \in Seq(F) /\ p # <<>> /\ Len(p) = Len(q) + 1
      /\ p[Len(p)] = fade
  BY <1>2, <1>3, AppendIs
<1> HIDE DEF p
<1>7. /\ e.start = c.start /\ e.queue = p /\ e.running = c.running
      /\ e.elapsed = c.elapsed
      /\ e \in [start : T, queue : Seq(F), running : BOOLEAN, elapsed : Nat]
  BY <1>1, <1>6
<1> HIDE DEF e
<1>8. /\ d.start = c.start /\ d.queue = p /\ d.running = TRUE
      /\ d \in [start : T, queue : Seq(F), running : BOOLEAN, elapsed : Nat]
  <2>1. CASE e.running = TRUE
    <3>1. d = e
      BY <1>4, <2>1 DEF StartPendingTransitions
    <3> QED BY <1>7, <2>1, <3>1
  <2>2. CASE e.running = FALSE
    <3>1. d = [e EXCEPT !.elapsed = 0, !.running = TRUE]
      BY <1>4, <1>6, <1>7, <2>2 DEF StartPendingTransitions
    <3> QED BY <1>7, <3>1
  <2> QED BY <1>1, <1>7, <2>1, <2>2
<1>9. Runs(d) /\ Goal(d) = end
  BY <1>5, <1>6, <1>8 DEF Runs, Goal
<1>10. Len(q) \in Nat /\ Len(c.queue) \in Nat
  BY <1>1, <1>3
<1>11. Len(d.queue) = IF cancel THEN 1 ELSE Len(c.queue) + 1
  BY <1>3, <1>6, <1>8, <1>10
<1> QED BY <1>8, <1>9, <1>11 DEF Controllers, d, T, F

LEMMA TransitionTimerGood ==
  ASSUME NEW type \in BulbTypes, NEW c \in Controllers(type), Runs(c),
         c.running = TRUE
  PROVE  LET d == TransitionTimer(c)
         IN  /\ d \in Controllers(type) /\ Runs(d) /\ Goal(d) = Goal(c)
             /\ Len(d.queue) <= Len(c.queue)
<1> DEFINE F == Fades(type)
           T == States(type)
           q == c.queue
           to == Head(q).end
           e == [c EXCEPT !.start = to, !.queue = Tail(q), !.running = FALSE]
           f == [c EXCEPT !.elapsed = @ + 1]
           d == TransitionTimer(c)
           R == [start : T, queue : Seq(F), running : BOOLEAN, elapsed : Nat]
<1>1. /\ c \in R /\ c.start \in T /\ q \in Seq(F) /\ q # <<>>
      /\ c.elapsed \in Nat
  BY DEF Controllers, Runs
<1>2. Head(q).time \in Nat /\ to \in T
  <2>1. Head(q) \in F
    BY <1>1
  <2> QED BY <2>1 DEF Fades
<1>3. d = IF c.elapsed + 1 >= Head(q).time
          THEN StartPendingTransitions(e) ELSE f
  BY DEF TransitionTimer
<1>4. /\ Tail(q) \in Seq(F) /\ Len(Tail(q)) = Len(q) - 1 /\ Len(q) \in Nat
      /\ Tail(q) # <<>> => Tail(q)[Len(Tail(q))] = q[Len(q)]
      /\ Tail(q) = <<>> => q[Len(q)] = Head(q)
  <2> HIDE DEF q, F
  <2> QED BY <1>1, TailIs
<1> HIDE DEF F, T, d
<1>5. CASE c.elapsed + 1 >= Head(q).time
  <2>1. /\ e.start = to /\ e.queue = Tail(q) /\ e.running = FALSE
        /\ e \in R
    BY <1>1, <1>2, <1>4
  <2>2. d = StartPendingTransitions(e)
    BY <1>3, <1>5
  <2> HIDE DEF e
  <2>3. CASE Tail(q) = <<>>
    <3>1. d = e
      BY <2>1, <2>2, <2>3 DEF StartPendingTransitions
    <3>2. Runs(d) /\ Goal(d) = Goal(c)
      BY <1>1, <1>4, <2>1, <2>3, <3>1 DEF Runs, Goal
    <3> QED BY <1>4, <2>1, <3>1, <3>2 DEF Controllers, d, T, F
  <2>4. CASE Tail(q) # <<>>
    <3>1. d = [e EXCEPT !.elapsed = 0, !.running = TRUE]
      BY <2>1, <2>2, <2>4 DEF StartPendingTransitions
    <3>2. d \in R /\ d.queue = Tail(q) /\ d.running = TRUE
      BY <2>1, <3>1
    <3>3. Runs(d) /\ Goal(d) = Goal(c)
      BY <1>1, <1>4, <2>4, <3>2 DEF Runs, Goal
    <3> QED BY <1>4, <3>2, <3>3 DEF Controllers, d, T, F
  <2> QED BY <2>3, <2>4
<1>6. CASE ~(c.elapsed + 1 >= Head(q).time)
  <2>1. d = f
    BY <1>3, <1>6
  <2>2. /\ f \in R /\ f.queue = c.queue /\ f.start = c.start
        /\ f.running = c.running
    BY <1>1
  <2> HIDE DEF f
  <2>3. Runs(d) /\ Goal(d) = Goal(c)
    BY <2>1, <2>2 DEF Runs, Goal
  <2> QED BY <1>4, <2>1, <2>2, <2>3 DEF Controllers, d, T, F
<1> QED BY <1>5, <1>6

\* Between two values lies what is mixed of them.
LEMMA MixGood ==
  ASSUME NEW top \in Nat, NEW s \in 0 .. top, NEW t \in 0 .. top,
         NEW n \in Nat, NEW e \in 0 .. n, n > 0
  PROVE  (t * e + s * (n - e)) \div n \in 0 .. top
<1> DEFINE m == n - e
           p == t * e
           q == s * m
           x == p + q
<1>1. m \in Nat /\ e \in Nat /\ e + m = n
  OBVIOUS
<1> HIDE DEF m
<1>2. p \in Nat /\ p <= top * e
  BY <1>1, ProductBound
<1>3. q \in Nat /\ q <= top * m
  BY <1>1, ProductBound
<1>4. top * e + top * m = top * n
  <2>1. top * e + top * m = top * (e + m)
    BY <1>1
  <2> QED BY <1>1, <2>1
<1> HIDE DEF p, q
<1>5. top * e \in Nat /\ top * m \in Nat /\ top * n \in Nat
  BY <1>1
<1>6. x \in Nat /\ x <= top * n
  BY <1>2, <1>3, <1>4, <1>5
<1> HIDE DEF x
<1>7. x \div n \in 0 .. top
  <2> DEFINE y == x \div n
  <2>1. y \in Nat /\ y * n <= x
    BY <1>6
  <2> HIDE DEF y
  <2>2. y * n <= top * n
    BY <1>5, <1>6, <2>1
  <2>3. y <= top
    BY <2>1, <2>2
  <2> QED BY <2>1, <2>3 DEF y
<1> QED BY <1>7 DEF x, p, q, m

LEMMA StateNowGood ==
  ASSUME NEW type \in BulbTypes, NEW c \in Controllers(type), Runs(c)
  PROVE  /\ StateNow(c) \in States(type)
         /\ c.running = FALSE => StateNow(c) = Goal(c)
<1> DEFINE F == Fades(type)
           D == 1 .. Outputs(type)
           top == Full(type)
           q == c.queue
           cur == Head(q)
<1>1. /\ c.start \in [D -> 0 .. top] /\ q \in Seq(F) /\ c.elapsed \in Nat
      /\ c.running \in BOOLEAN /\ top \in Nat
  BY FullNat DEF Controllers, States
<1>2. CASE c.running = TRUE /\ c.elapsed > 0 /\ c.elapsed < cur.time
  <2>1. cur \in F
    BY <1>1, <1>2 DEF Runs
  <2>2. cur.end \in [D -> 0 .. top] /\ cur.time \in Nat
    BY <2>1 DEF Fades, States
  <2>3. StateNow(c) = Mix(c.start, cur.end, c.elapsed, cur.time)
    BY <1>2 DEF StateNow
  <2> DEFINE s == c.start
             t == cur.end
             e == c.elapsed
             n == cur.time
             x == StateNow(c)
  <2>4. n > 0 /\ e \in 0 .. n /\ n \in Nat
    BY <1>1, <1>2, <2>2
  <2>5. x = [i \in D |-> (t[i] * e + s[i] * (n - e)) \div n]
    BY <1>1, <2>3 DEF Mix
  <2>6. \A i \in D : s[i] \in 0 .. top /\ t[i] \in 0 .. top
    BY <1>1, <2>2
  <2> HIDE DEF s, t, e, n, x, top, D
  <2>7. \A i \in D : (t[i] * e + s[i] * (n - e)) \div n \in 0 .. top
    BY <1>1, <2>4, <2>6, MixGood
  <2>8. x \in [D -> 0 .. top]
    BY <2>5, <2>7
  <2> QED BY <1>2, <2>8 DEF States, x, D, top
<1>3. CASE ~(c.running = TRUE /\ c.elapsed > 0 /\ c.elapsed < cur.time)
  <2>1. StateNow(c) = c.start
    BY <1>1, <1>3 DEF StateNow
  <2> QED BY <1>1, <2>1 DEF States, Goal, Runs
<1> QED BY <1>2, <1>3

-----------------------------------------------------------------------------
\* The curve that was computed before is the curve, until after its end.
Lightings == [count : {0, 1}, table : Tables \union {<<>>}, offset : Nat,
              timer : BOOLEAN]

LEMMA CurveAtGood ==
  ASSUME NEW a \in Lightings, a.table \in Tables, NEW v \in 0 .. 100
  PROVE  /\ CurveAt(a, v) \in 50 .. 400
         /\ ~IsOver(a.table, a.offset) =>
              CurveAt(a, v) = Temperature(a.table, a.offset, v)
<1> DEFINE t == a.table
           last == LastTime(t)
           o == Lower(a.offset, last)
<1>1. t \in Tables /\ t \in TransitionCurves /\ a.offset \in Nat
  BY TablesAssumption DEF Lightings
<1>2. /\ EndOf(t, Len(t)) \in Nat /\ last = EndOf(t, Len(t)) + 1
  <2> HIDE DEF t
  <2>1. Len(t) \in 0 .. Len(t)
    BY <1>1, CurveShape
  <2> QED BY <1>1, <2>1, EndOfNat DEF LastTime
<1>3. o \in 0 .. last /\ o \in Nat
  <2> HIDE DEF last, t
  <2> QED BY <1>1, <1>2 DEF Lower
<1>4. ~IsOver(t, a.offset) => o = a.offset
  <2> HIDE DEF t, last
  <2> QED BY <1>1, <1>2 DEF IsOver, Lower
<1>5. CurveAt(a, v) = Curves[t][o][v]
  BY DEF CurveAt
<1> HIDE DEF t, o
<1>6. Curves[t][o][v] = Temperature(t, o, v)
  BY <1>1, <1>3 DEF Curves
<1>7. Temperature(t, o, v) \in 50 .. 400
  BY <1>1, <1>3, TemperatureGood
<1> QED BY <1>4, <1>5, <1>6, <1>7 DEF t

-----------------------------------------------------------------------------
(***************************************************************************)
(* The inductive invariant, of a bulb b: its members have their types; what *)
(* its fades lead to is what it is set to, if it was ever told anything;    *)
(* and adaptive lighting has a curve when it is active, is not active after *)
(* a manual change, after which the colour temperature is what was chosen,  *)
(* and otherwise the one of the curve.                                      *)
(***************************************************************************)
AnyController == UNION {Controllers(type) : type \in Types}

Chosen == {None} \union 50 .. 400

Bulbs == [type : Types, cfg : Settings, opt : BulbConfigs, dirty : BOOLEAN,
          armed : BOOLEAN, c : AnyController, a : Lightings,
          manual : Chosen, fresh : BOOLEAN, set : BOOLEAN,
          spared : BOOLEAN]

Typed(b) == /\ b \in Bulbs /\ b.c \in Controllers(b.type) /\ Runs(b.c)
            /\ Len(b.c.queue) <= MaxQueue

Showing(b) == b.set = TRUE => Shows(b.type, b.cfg, Goal(b.c))

Lit(b) ==
  /\ b.manual # None => b.a.count = 0 /\ b.cfg.ct = b.manual
  /\ b.a.count = 1 => b.a.table \in Tables
  /\ b.fresh = TRUE =>
       /\ b.a.table \in Tables
       /\ Plain(b.a.table) /\ ~IsOver(b.a.table, b.a.offset) =>
            b.cfg.ct = OnCurve(b.a.table, b.a.offset, b.cfg.b)
       /\ b.a.count = 1 => ~IsOver(b.a.table, b.a.offset)

GoodBulb(b) == Typed(b) /\ Showing(b) /\ Lit(b)

\* The fade to the setting.
LEMMA ShowGood ==
  ASSUME NEW b, Typed(b)
  PROVE  LET d == Show(b)
         IN  /\ Typed(d) /\ Showing(d) /\ (Lit(b) => Lit(d))
             /\ d.type = b.type /\ d.cfg = b.cfg /\ d.opt = b.opt
             /\ d.a = b.a /\ d.manual = b.manual /\ d.fresh = b.fresh
<1> DEFINE st == ConfigToState(b.type, b.cfg)
           n == b.opt.time
           c == UpdateOutput(b.c, st, n, TRUE)
           d == Show(b)
           K == Controllers(b.type)
<1>1. b \in Bulbs /\ b.type \in Types /\ b.cfg \in Settings
  BY DEF Typed, Bulbs
<1>2. b.type \in BulbTypes /\ n \in Nat
  BY <1>1, TypesAssumption, TimesAssumption DEF Bulbs, BulbConfigs
<1>3. st \in States(b.type) /\ Shows(b.type, b.cfg, st)
  BY <1>1, <1>2, ConfigShows
<1> HIDE DEF st, n
<1>4. c \in K /\ Runs(c) /\ Goal(c) = st /\ Len(c.queue) = 1
  BY <1>2, <1>3, UpdateOutputGood DEF Typed
<1>5. c \in AnyController
  BY <1>1, <1>4 DEF AnyController
<1>6. d = [b EXCEPT !.c = c, !.set = TRUE]
  BY DEF Show, st, n
<1> HIDE DEF c, d, K
<1>7. /\ d.type = b.type /\ d.cfg = b.cfg /\ d.opt = b.opt
      /\ d.a = b.a /\ d.manual = b.manual /\ d.fresh = b.fresh
      /\ d.c = c
  BY <1>1, <1>6 DEF Bulbs
<1>8. d \in Bulbs
  BY <1>1, <1>5, <1>6 DEF Bulbs
<1>9. Typed(d)
  <2>1. d.c \in Controllers(d.type) /\ Runs(d.c)
    BY <1>4, <1>7 DEF K
  <2>2. d.c.queue = c.queue
    BY <1>7
  <2>3. Len(c.queue) = 1 /\ MaxQueue = 6
    BY <1>4 DEF MaxQueue
  <2>4. Len(d.c.queue) <= MaxQueue
    BY <2>2, <2>3
  <2> QED BY <1>8, <2>1, <2>4 DEF Typed
<1>10. Showing(d)
  BY <1>3, <1>4, <1>7 DEF Showing
<1>11. Lit(b) => Lit(d)
  BY <1>7 DEF Lit
<1> QED BY <1>7, <1>9, <1>10, <1>11 DEF d

\* What the parts of the invariant depend on.
LEMMA SameTyped ==
  ASSUME NEW b, Typed(b), NEW t \in Bulbs, t.type = b.type, t.c = b.c
  PROVE  Typed(t)
BY DEF Typed

LEMMA SameShowing ==
  ASSUME NEW b, Showing(b), NEW t, t.type = b.type, t.cfg = b.cfg,
         t.c = b.c, t.set = b.set
  PROVE  Showing(t)
BY DEF Showing

LEMMA SameLit ==
  ASSUME NEW b, Lit(b), NEW t, t.a = b.a, t.manual = b.manual,
         t.fresh = b.fresh, t.cfg.b = b.cfg.b, t.cfg.ct = b.cfg.ct
  PROVE  Lit(t)
BY DEF Lit

LEMMA NoLongerFresh ==
  ASSUME NEW b, Lit(b), NEW t, t.a = b.a, t.manual = b.manual,
         t.fresh = FALSE, t.manual # None => t.cfg.ct = t.manual
  PROVE  Lit(t)
BY DEF Lit

\* The methods, in the order of the module.
LEMMA UpdateOnOffGood ==
  ASSUME NEW b, Typed(b), NEW on \in BOOLEAN, NEW force \in BOOLEAN
  PROVE  LET d == UpdateOnOff(b, on, force)
         IN  /\ Typed(d) /\ (Showing(b) => Showing(d)) /\ (Lit(b) => Lit(d))
             /\ d.type = b.type
<1> DEFINE cfg == [b.cfg EXCEPT !.on = on]
           t == [b EXCEPT !.cfg = cfg, !.dirty = TRUE, !.armed = on,
                          !.spared = FALSE]
           d == UpdateOnOff(b, on, force)
<1>1. b \in Bulbs /\ b.cfg \in Settings
  BY DEF Typed, Bulbs
<1>2. /\ cfg \in Settings /\ cfg.b = b.cfg.b /\ cfg.ct = b.cfg.ct
  BY <1>1 DEF Settings
<1>3. d = b \/ d = Show(t)
  BY DEF UpdateOnOff
<1> HIDE DEF cfg, d
<1>4. /\ t.type = b.type /\ t.c = b.c /\ t.a = b.a /\ t.manual = b.manual
      /\ t.fresh = b.fresh /\ t.cfg = cfg
  BY <1>1 DEF Bulbs
<1>5. t \in Bulbs
  BY <1>1, <1>2 DEF Bulbs
<1> HIDE DEF t
<1>6. Typed(t)
  BY <1>4, <1>5, SameTyped
<1>7. Lit(b) => Lit(t)
  BY <1>2, <1>4, SameLit
<1>8. CASE d = b
  BY <1>8 DEF d
<1>9. CASE d = Show(t)
  BY <1>4, <1>6, <1>7, <1>9, ShowGood DEF d
<1> QED BY <1>3, <1>8, <1>9

LEMMA SetHueGood ==
  ASSUME NEW b, GoodBulb(b), NEW h \in 0 .. 360
  PROVE  GoodBulb(SetHue(b, h))
<1> DEFINE cfg == [b.cfg EXCEPT !.h = h]
           t == [b EXCEPT !.cfg = cfg, !.dirty = TRUE]
           d == SetHue(b, h)
<1>1. b \in Bulbs /\ b.cfg \in Settings /\ Typed(b)
  BY DEF GoodBulb, Typed, Bulbs
<1>2. /\ cfg \in Settings /\ cfg.b = b.cfg.b /\ cfg.ct = b.cfg.ct
  BY <1>1 DEF Settings
<1>3. d = b \/ d = Show(t)
  BY DEF SetHue
<1> HIDE DEF cfg, d
<1>4. /\ t.type = b.type /\ t.c = b.c /\ t.a = b.a /\ t.manual = b.manual
      /\ t.fresh = b.fresh /\ t.cfg = cfg
  BY <1>1 DEF Bulbs
<1>5. t \in Bulbs
  BY <1>1, <1>2 DEF Bulbs
<1> HIDE DEF t
<1>6. Typed(t)
  BY <1>1, <1>4, <1>5, SameTyped
<1>7. Lit(t)
  BY <1>2, <1>4, SameLit DEF GoodBulb
<1>8. GoodBulb(Show(t))
  <2>1. /\ Typed(Show(t)) /\ Showing(Show(t))
        /\ Lit(t) => Lit(Show(t))
    BY <1>6, ShowGood
  <2> QED BY <1>7, <2>1 DEF GoodBulb
<1> QED BY <1>3, <1>8 DEF d

LEMMA SetSaturationGood ==
  ASSUME NEW b, GoodBulb(b), NEW s \in 0 .. 100
  PROVE  GoodBulb(SetSaturation(b, s))
<1> DEFINE cfg == [b.cfg EXCEPT !.s = s]
           t == [b EXCEPT !.cfg = cfg, !.dirty = TRUE]
           d == SetSaturation(b, s)
<1>1. b \in Bulbs /\ b.cfg \in Settings /\ Typed(b)
  BY DEF GoodBulb, Typed, Bulbs
<1>2. /\ cfg \in Settings /\ cfg.b = b.cfg.b /\ cfg.ct = b.cfg.ct
  BY <1>1 DEF Settings
<1>3. d = b \/ d = Show(t)
  BY DEF SetSaturation
<1> HIDE DEF cfg, d
<1>4. /\ t.type = b.type /\ t.c = b.c /\ t.a = b.a /\ t.manual = b.manual
      /\ t.fresh = b.fresh /\ t.cfg = cfg
  BY <1>1 DEF Bulbs
<1>5. t \in Bulbs
  BY <1>1, <1>2 DEF Bulbs
<1> HIDE DEF t
<1>6. Typed(t)
  BY <1>1, <1>4, <1>5, SameTyped
<1>7. Lit(t)
  BY <1>2, <1>4, SameLit DEF GoodBulb
<1>8. GoodBulb(Show(t))
  <2>1. /\ Typed(Show(t)) /\ Showing(Show(t))
        /\ Lit(t) => Lit(Show(t))
    BY <1>6, ShowGood
  <2> QED BY <1>7, <2>1 DEF GoodBulb
<1> QED BY <1>3, <1>8 DEF d

LEMMA DisableGood ==
  ASSUME NEW a \in Lightings
  PROVE  LET d == Disable(a)
         IN  /\ d \in Lightings /\ d.count = 0 /\ d.table = a.table
             /\ d.offset = a.offset
BY DEF Disable, Lightings

\* Home changes the temperature of bulbs that have one, and adaptive lighting
\* only while nothing else is chosen.
LEMMA SetColorTemperatureGood ==
  ASSUME NEW b, Typed(b), NEW ct \in 50 .. 400,
         NEW source \in {"HAP", "RPC", "AUTO"},
         source = "HAP" => HasTemperature(b),
         source = "AUTO" => b.manual = None
  PROVE  LET d == SetColorTemperature(b, ct, source)
         IN  /\ Typed(d) /\ (Showing(b) => Showing(d)) /\ (Lit(b) => Lit(d))
             /\ d.cfg.ct = ct /\ d.cfg.b = b.cfg.b
             /\ source = "AUTO" => d.a = b.a /\ d.manual = b.manual
<1> DEFINE cfg == [b.cfg EXCEPT !.ct = ct]
           t == [b EXCEPT !.cfg = cfg, !.dirty = TRUE, !.fresh = FALSE]
           a == Disable(b.a)
           u == [t EXCEPT !.a = a, !.manual = ct]
           w == [t EXCEPT !.manual = ct]
           d == SetColorTemperature(b, ct, source)
<1>1. /\ b \in Bulbs /\ b.cfg \in Settings /\ b.a \in Lightings
      /\ ct \in Chosen
  BY DEF Typed, Bulbs, Chosen
<1>2. /\ cfg \in Settings /\ cfg.b = b.cfg.b /\ cfg.ct = ct
  BY <1>1 DEF Settings
<1>3. /\ b.cfg.ct = ct => d = b
      /\ b.cfg.ct # ct /\ source = "HAP" => d = Show(u)
      /\ b.cfg.ct # ct /\ source = "RPC" /\ b.manual # None => d = Show(w)
      /\ b.cfg.ct # ct /\ source # "HAP" /\ b.manual = None => d = Show(t)
  BY DEF SetColorTemperature
<1>4. a \in Lightings /\ a.count = 0
  BY <1>1, DisableGood
<1> HIDE DEF cfg, d, a
<1>5. /\ t.type = b.type /\ t.c = b.c /\ t.a = b.a /\ t.manual = b.manual
      /\ t.fresh = FALSE /\ t.cfg = cfg
  BY <1>1 DEF Bulbs
<1>6. t \in Bulbs
  <2> DEFINE e == [b EXCEPT !.cfg = cfg, !.dirty = TRUE]
  <2>1. e \in Bulbs
    BY <1>1, <1>2 DEF Bulbs
  <2>2. t = [e EXCEPT !.fresh = FALSE]
    BY <1>1 DEF Bulbs
  <2> HIDE DEF e, t
  <2> QED BY <2>1, <2>2 DEF Bulbs
<1> HIDE DEF t
<1>7. /\ u.type = b.type /\ u.c = b.c /\ u.a = a /\ u.manual = ct
      /\ u.fresh = FALSE /\ u.cfg = cfg
      /\ w.type = b.type /\ w.c = b.c /\ w.a = b.a /\ w.manual = ct
      /\ w.fresh = FALSE /\ w.cfg = cfg
  BY <1>5, <1>6 DEF Bulbs
<1>8. u \in Bulbs /\ w \in Bulbs
  <2>1. w \in Bulbs
    BY <1>1, <1>6 DEF Bulbs
  <2>2. u = [w EXCEPT !.a = a]
    BY <1>6 DEF Bulbs
  <2> HIDE DEF u, w
  <2> QED BY <1>4, <2>1, <2>2 DEF Bulbs
<1> HIDE DEF u, w
<1>9. Typed(t) /\ Typed(u) /\ Typed(w)
  BY <1>5, <1>6, <1>7, <1>8, SameTyped
<1>10. /\ Lit(b) /\ b.manual = None => Lit(t)
       /\ Lit(b) /\ b.manual # None => Lit(w)
       /\ Lit(u)
  <2>1. Lit(b) /\ b.manual = None => Lit(t)
    BY <1>5, NoLongerFresh
  <2>2. Lit(u)
    BY <1>2, <1>4, <1>7 DEF Lit
  <2>3. ASSUME Lit(b), b.manual # None PROVE Lit(w)
    <3>1. w.a.count = 0
      BY <1>7, <2>3 DEF Lit
    <3> QED BY <1>2, <1>7, <3>1 DEF Lit
  <2> QED BY <2>1, <2>2, <2>3
<1>11. CASE b.cfg.ct = ct
  BY <1>3, <1>11 DEF d
<1>12. CASE b.cfg.ct # ct /\ source = "HAP"
  <2>1. d = Show(u)
    BY <1>3, <1>12
  <2> QED BY <1>2, <1>7, <1>9, <1>10, <1>12, <2>1, ShowGood DEF d
<1>13. CASE b.cfg.ct # ct /\ source = "RPC" /\ b.manual # None
  <2>1. d = Show(w)
    BY <1>3, <1>13
  <2> QED BY <1>2, <1>7, <1>9, <1>10, <1>13, <2>1, ShowGood DEF d
<1>14. CASE b.cfg.ct # ct /\ source # "HAP" /\ b.manual = None
  <2>1. d = Show(t)
    BY <1>3, <1>14
  <2> QED BY <1>2, <1>5, <1>9, <1>10, <1>14, <2>1, ShowGood DEF d
<1> QED BY <1>11, <1>12, <1>13, <1>14

LEMMA AdvanceGood ==
  ASSUME NEW a \in Lightings, a.count = 1, a.table \in Tables,
         NEW elapsed \in {0, 1}
  PROVE  LET d == Advance(a, elapsed)
         IN  /\ d \in Lightings /\ d.table = a.table
             /\ d.count = 1 => ~IsOver(d.table, d.offset)
<1> DEFINE t == [a EXCEPT !.offset = @ + elapsed]
           d == Advance(a, elapsed)
<1>1. t \in Lightings /\ t.table = a.table
  BY DEF Lightings
<1>2. d = IF IsOver(t.table, t.offset) THEN Disable(t) ELSE t
  BY DEF Advance
<1> HIDE DEF t, d
<1>3. /\ Disable(t) \in Lightings /\ Disable(t).count = 0
      /\ Disable(t).table = t.table
  BY <1>1, DisableGood
<1>4. CASE IsOver(t.table, t.offset)
  <2>1. d = Disable(t)
    BY <1>2, <1>4
  <2> QED BY <1>1, <1>3, <2>1 DEF d
<1>5. CASE ~IsOver(t.table, t.offset)
  <2>1. d = t
    BY <1>2, <1>5
  <2> QED BY <1>1, <1>5, <2>1 DEF d
<1> QED BY <1>4, <1>5

LEMMA AdjustColorTempGood ==
  ASSUME NEW b, Typed(b), Lit(b), NEW elapsed \in {0, 1}
  PROVE  LET d == AdjustColorTemp(b, elapsed)
         IN  /\ Typed(d) /\ (Showing(b) => Showing(d)) /\ Lit(d)
<1> DEFINE a == Advance(b.a, elapsed)
           t == [b EXCEPT !.a = a]
           v == b.cfg.b
           ct == CurveAt(a, v)
           s == SetColorTemperature(t, ct, "AUTO")
           f == [s EXCEPT !.fresh = TRUE]
           d == AdjustColorTemp(b, elapsed)
<1>1. b \in Bulbs /\ b.cfg \in Settings /\ b.a \in Lightings
  BY DEF Typed, Bulbs
<1>2. v \in 0 .. 100
  BY <1>1 DEF Settings
<1>3. CASE b.a.count # 1
  BY <1>3 DEF AdjustColorTemp
<1>4. CASE b.a.count = 1
  <2>1. b.a.table \in Tables /\ b.manual = None
    <3>1. b.a.table \in Tables
      BY <1>4 DEF Lit
    <3>2. b.manual # None => b.a.count = 0
      BY DEF Lit
    <3> QED BY <1>4, <3>1, <3>2
  <2>2. /\ a \in Lightings /\ a.table = b.a.table
        /\ a.count = 1 => ~IsOver(a.table, a.offset)
    BY <1>1, <1>4, <2>1, AdvanceGood
  <2> HIDE DEF a
  <2>3. /\ t \in Bulbs /\ t.type = b.type /\ t.c = b.c /\ t.cfg = b.cfg
        /\ t.a = a /\ t.manual = b.manual /\ t.set = b.set
    BY <1>1, <2>2 DEF Bulbs
  <2>4. d = f
    BY <1>4, <2>3 DEF AdjustColorTemp, a
  <2>5. /\ ct \in 50 .. 400
        /\ ~IsOver(a.table, a.offset) =>
             ct = Temperature(a.table, a.offset, v)
    BY <1>2, <2>1, <2>2, CurveAtGood
  <2> HIDE DEF t, ct, d
  <2>6. Typed(t) /\ (Showing(b) => Showing(t))
    BY <2>3, SameTyped, SameShowing
  <2>7. /\ Typed(s) /\ (Showing(t) => Showing(s))
        /\ s.cfg.ct = ct /\ s.cfg.b = v /\ s.a = a /\ s.manual = b.manual
    <3>1. /\ Typed(s) /\ (Showing(t) => Showing(s))
          /\ s.cfg.ct = ct /\ s.cfg.b = t.cfg.b
          /\ "AUTO" = "AUTO" => s.a = t.a /\ s.manual = t.manual
      <4>1. t.manual = None /\ "AUTO" # "HAP"
        BY <2>1, <2>3
      <4> QED BY <2>5, <2>6, <4>1, SetColorTemperatureGood
    <3> HIDE DEF s
    <3> QED BY <2>3, <3>1
  <2> HIDE DEF s
  <2>8. s \in Bulbs
    BY <2>7 DEF Typed
  <2>9. /\ f.type = s.type /\ f.c = s.c /\ f.cfg = s.cfg /\ f.a = s.a
        /\ f.manual = s.manual /\ f.set = s.set
    BY <2>8 DEF Bulbs
  <2>10. f \in Bulbs
    BY <2>8 DEF Bulbs
  <2> HIDE DEF f
  <2>11. Typed(f) /\ (Showing(s) => Showing(f))
    BY <2>7, <2>9, <2>10, SameTyped, SameShowing
  <2>12. /\ f.a = a /\ f.cfg.ct = ct /\ f.cfg.b = v
         /\ f.manual = None
    BY <2>1, <2>7, <2>9
  <2>13. ASSUME Plain(a.table), ~IsOver(a.table, a.offset)
         PROVE  ct = OnCurve(a.table, a.offset, v)
    <3>1. a.table \in TransitionCurves /\ a.offset \in Nat
      BY <2>1, <2>2, TablesAssumption DEF Lightings
    <3> QED BY <1>2, <2>5, <2>13, <3>1, OnCurveGood
  <2>14. Lit(f)
    BY <2>1, <2>2, <2>12, <2>13 DEF Lit
  <2> QED BY <2>4, <2>6, <2>7, <2>11, <2>14 DEF d
<1> QED BY <1>3, <1>4

LEMMA SetBrightnessGood ==
  ASSUME NEW b, GoodBulb(b), NEW v \in 0 .. 100, NEW source
  PROVE  GoodBulb(SetBrightness(b, v, source))
<1> DEFINE cfg == [b.cfg EXCEPT !.b = v]
           t == [b EXCEPT !.cfg = cfg, !.dirty = TRUE, !.fresh = FALSE]
           s == AdjustColorTemp(t, 0)
           d == SetBrightness(b, v, source)
<1>1. b \in Bulbs /\ b.cfg \in Settings /\ Typed(b) /\ Lit(b)
  BY DEF GoodBulb, Typed, Bulbs
<1>2. cfg \in Settings /\ cfg.ct = b.cfg.ct
  BY <1>1 DEF Settings
<1>3. d = b \/ d = Show(s) \/ d = Show(t)
  BY DEF SetBrightness
<1> HIDE DEF cfg, d, s
<1>4. /\ t.type = b.type /\ t.c = b.c /\ t.a = b.a /\ t.manual = b.manual
      /\ t.fresh = FALSE /\ t.cfg = cfg
  BY <1>1 DEF Bulbs
<1>5. t \in Bulbs
  <2> DEFINE e == [b EXCEPT !.cfg = cfg, !.dirty = TRUE]
  <2>1. e \in Bulbs
    BY <1>1, <1>2 DEF Bulbs
  <2>2. t = [e EXCEPT !.fresh = FALSE]
    BY <1>1 DEF Bulbs
  <2> HIDE DEF e, t
  <2> QED BY <2>1, <2>2 DEF Bulbs
<1> HIDE DEF t
<1>6. Typed(t) /\ Lit(t)
  <2>1. t.manual # None => t.cfg.ct = t.manual
    BY <1>1, <1>2, <1>4 DEF Lit
  <2> QED BY <1>1, <1>4, <1>5, <2>1, SameTyped, NoLongerFresh
<1>7. Typed(s) /\ Lit(s)
  BY <1>6, AdjustColorTempGood DEF s
<1>8. \A x \in {s, t} :
        Typed(Show(x)) /\ Showing(Show(x)) /\ Lit(Show(x))
  BY <1>6, <1>7, ShowGood
<1> QED BY <1>3, <1>8 DEF GoodBulb, d

LEMMA ApplyStateGood ==
  ASSUME NEW b, GoodBulb(b), NEW r \in StateRequests(b)
  PROVE  GoodBulb(ApplyState(b, r))
<1> DEFINE on == r.on = {TRUE}
           b1 == IF r.on = {} THEN b ELSE UpdateOnOff(b, on, FALSE)
           b2 == IF r.h = Keep THEN b1 ELSE SetHue(b1, r.h)
           b3 == IF r.s = Keep THEN b2 ELSE SetSaturation(b2, r.s)
           b4 == IF r.b = Keep THEN b3 ELSE SetBrightness(b3, r.b, "RPC")
           b5 == IF r.ct = Keep THEN b4
                 ELSE SetColorTemperature(b4, r.ct, "RPC")
<1>1. /\ r.h # Keep => r.h \in 0 .. 360
      /\ r.s # Keep => r.s \in 0 .. 100
      /\ r.b # Keep => r.b \in 0 .. 100
      /\ r.ct # Keep => r.ct \in 50 .. 400
  <2> DEFINE O == {{}, {TRUE}, {~b.cfg.on}}
  <2>1. r \in [on : O,
                h : {Keep} \union (IF HasColor(b) THEN Hues ELSE {}),
                s : {Keep} \union (IF HasColor(b) THEN Saturations ELSE {}),
                b : {Keep} \union Brightnesses,
                ct : {Keep} \union
                       (IF HasTemperature(b) THEN Temperatures ELSE {})]
    BY DEF StateRequests
  <2> HIDE DEF O
  <2>2. /\ r.h \in {Keep} \union Hues /\ r.s \in {Keep} \union Saturations
        /\ r.b \in {Keep} \union Brightnesses
        /\ r.ct \in {Keep} \union Temperatures
    BY <2>1
  <2> DEFINE H == 0 .. 360
             P == 0 .. 100
             T == 50 .. 400
  <2>3. /\ Hues \subseteq H /\ Saturations \subseteq P
        /\ Brightnesses \subseteq P /\ Temperatures \subseteq T
    BY SettingsAssumption
  <2> HIDE DEF H, P, T
  <2>4. /\ r.h # Keep => r.h \in H
        /\ r.s # Keep => r.s \in P
        /\ r.b # Keep => r.b \in P
        /\ r.ct # Keep => r.ct \in T
    BY <2>2, <2>3
  <2> QED BY <2>4 DEF H, P, T
<1>2. ApplyState(b, r) = b5
  BY DEF ApplyState
<1>3. on \in BOOLEAN
  OBVIOUS
<1> HIDE DEF on
<1>4. GoodBulb(b1)
  <2>1. GoodBulb(UpdateOnOff(b, on, FALSE))
    BY <1>3, UpdateOnOffGood DEF GoodBulb
  <2> QED BY <2>1
<1> HIDE DEF b1
<1>5. GoodBulb(b2)
  BY <1>1, <1>4, SetHueGood
<1> HIDE DEF b2
<1>6. GoodBulb(b3)
  BY <1>1, <1>5, SetSaturationGood
<1> HIDE DEF b3
<1>7. GoodBulb(b4)
  BY <1>1, <1>6, SetBrightnessGood
<1> HIDE DEF b4
<1>8. GoodBulb(b5)
  <2>1. CASE r.ct = Keep
    BY <1>7, <2>1
  <2>2. CASE r.ct # Keep
    <3>1. GoodBulb(SetColorTemperature(b4, r.ct, "RPC"))
      BY <1>1, <1>7, <2>2, SetColorTemperatureGood DEF GoodBulb
    <3> QED BY <2>2, <3>1
  <2> QED BY <2>1, <2>2
<1> QED BY <1>2, <1>8

LEMMA ControlGood ==
  ASSUME NEW a \in Lightings, NEW r \in Requests(Tables)
  PROVE  LET d == Control(a, r)
         IN  /\ d \in Lightings
             /\ (d.count = 1 => d.table \in Tables)
                  \/ (a.count = 1 /\ a.table \notin Tables)
             /\ a.table \in Tables => d.table \in Tables
             /\ a.count = 0 /\ d.count = 1 => Activates(r) /\ d.offset = 0
<1> DEFINE d == Control(a, r)
<1>1. a.count \in {0, 1}
  BY DEF Lightings
<1>2. CASE r = {}
  <2>1. d = [a EXCEPT !.count = 0]
    BY <1>2 DEF Control
  <2> HIDE DEF d
  <2>2. d \in Lightings /\ d.count = 0 /\ d.table = a.table
    BY <2>1 DEF Lightings
  <2> QED BY <2>2 DEF d
<1>3. ASSUME NEW t \in Transitions(Tables), r = {t}
      PROVE  /\ d \in Lightings
             /\ (d.count = 1 => d.table \in Tables)
                  \/ (a.count = 1 /\ a.table \notin Tables)
             /\ a.table \in Tables => d.table \in Tables
             /\ a.count = 0 /\ d.count = 1 => Activates(r) /\ d.offset = 0
  <2> DEFINE new == [a EXCEPT !.table = t.table]
             act == [new EXCEPT !.count = 1, !.offset = 0, !.timer = TRUE]
  <2>1. t.table \in Tables
    BY DEF Transitions
  <2>2. /\ new \in Lightings /\ new.table = t.table /\ new.count = a.count
    BY <2>1 DEF Lightings
  <2>3. (CHOOSE x \in r : TRUE) = t
    BY <1>3
  <2>4. ~t.curve => d = [a EXCEPT !.count = 0]
    BY <1>3 DEF Control
  <2>5. t.curve => d = IF ~t.ours THEN new
                       ELSE IF ~t.activate THEN Disable(new) ELSE act
    BY <1>3, <2>3 DEF Control
  <2> HIDE DEF d, new
  <2>6. CASE ~t.curve
    <3>1. d \in Lightings /\ d.count = 0 /\ d.table = a.table
      BY <2>4, <2>6 DEF Lightings
    <3> QED BY <3>1
  <2>7. CASE t.curve /\ ~t.ours
    <3>1. d = new
      BY <2>5, <2>7
    <3> QED BY <2>1, <2>2, <3>1
  <2>8. CASE t.curve /\ t.ours /\ ~t.activate
    <3>1. d = Disable(new)
      BY <2>5, <2>8
    <3>2. d \in Lightings /\ d.count = 0 /\ d.table = t.table
      BY <2>2, <3>1, DisableGood
    <3> QED BY <2>1, <3>2
  <2>9. CASE t.curve /\ t.ours /\ t.activate
    <3>1. d = act
      BY <2>5, <2>9
    <3>2. act \in Lightings /\ act.table = t.table /\ act.offset = 0
      BY <2>2 DEF Lightings
    <3>3. Activates(r)
      BY <1>3, <2>9 DEF Activates
    <3> QED BY <2>1, <3>1, <3>2, <3>3
  <2> QED BY <2>6, <2>7, <2>8, <2>9
<1>4. r = {} \/ \E t \in Transitions(Tables) : r = {t}
  BY DEF Requests
<1> HIDE DEF d
<1>5. CASE \E t \in Transitions(Tables) : r = {t}
  BY <1>3, <1>5 DEF d
<1> QED BY <1>2, <1>4, <1>5 DEF d

LEMMA DefaultsGood == Defaults \in Settings
BY DEF Defaults, Settings

LEMMA BlinkGood ==
  ASSUME NEW cfg \in Settings
  PROVE  /\ [cfg EXCEPT !.on = TRUE] \in Settings
         /\ [cfg EXCEPT !.on = TRUE, !.b = 0] \in Settings
<1> DEFINE P == 0 .. 100
           H == 0 .. 360
           T == 50 .. 400
           R == [on : BOOLEAN, b : P, h : H, s : P, ct : T]
           e == [cfg EXCEPT !.on = TRUE]
           f == [cfg EXCEPT !.on = TRUE, !.b = 0]
<1>1. cfg \in R /\ 0 \in P
  BY DEF Settings
<1> HIDE DEF P, H, T
<1>2. e \in R
  BY <1>1
<1>3. f = [e EXCEPT !.b = 0]
  BY <1>1
<1> HIDE DEF e, f
<1>4. f \in R
  BY <1>1, <1>2, <1>3
<1> QED BY <1>2, <1>4 DEF Settings, P, H, T, e, f

LEMMA QueueGood ==
  ASSUME NEW type \in BulbTypes, NEW c \in Controllers(type), Runs(c),
         NEW end \in States(type)
  PROVE  LET d == UpdateOutput(c, end, 1, FALSE)
         IN  /\ d \in Controllers(type) /\ Runs(d) /\ Goal(d) = end
             /\ Len(d.queue) = Len(c.queue) + 1
<1> DEFINE d == UpdateOutput(c, end, 1, FALSE)
<1>1. 1 \in Nat /\ FALSE \in BOOLEAN
  OBVIOUS
<1>2. /\ d \in Controllers(type) /\ Runs(d) /\ Goal(d) = end
      /\ Len(d.queue) = IF FALSE THEN 1 ELSE Len(c.queue) + 1
  BY <1>1, UpdateOutputGood
<1> HIDE DEF d
<1> QED BY <1>2 DEF d

LEMMA IdentifiedGood ==
  ASSUME NEW b, GoodBulb(b)
  PROVE  GoodBulb(Identified(b))
<1> DEFINE on == ConfigToState(b.type, [Defaults EXCEPT !.on = TRUE])
           off == ConfigToState(b.type,
                                [Defaults EXCEPT !.on = TRUE, !.b = 0])
           end == ConfigToState(b.type, b.cfg)
           c1 == UpdateOutput(b.c, on, 1, TRUE)
           c2 == UpdateOutput(c1, off, 1, FALSE)
           c3 == UpdateOutput(c2, on, 1, FALSE)
           c4 == UpdateOutput(c3, off, 1, FALSE)
           c5 == UpdateOutput(c4, on, 1, FALSE)
           c6 == UpdateOutput(c5, end, 1, FALSE)
           d == Identified(b)
           K == Controllers(b.type)
<1>1. b \in Bulbs /\ b.type \in Types /\ b.cfg \in Settings /\ Typed(b)
  BY DEF GoodBulb, Typed, Bulbs
<1>2. b.type \in BulbTypes
  BY <1>1, TypesAssumption
<1>4. /\ on \in States(b.type) /\ off \in States(b.type)
      /\ end \in States(b.type) /\ Shows(b.type, b.cfg, end)
  BY <1>1, <1>2, DefaultsGood, BlinkGood, ConfigShows
<1>5. d = [b EXCEPT !.c = c6, !.set = TRUE]
  BY DEF Identified
<1> HIDE DEF on, off, end, d
<1>6. b.c \in K /\ Runs(b.c)
  BY <1>1 DEF Typed
<1>7. c1 \in K /\ Runs(c1) /\ Len(c1.queue) = 1
  BY <1>2, <1>4, <1>6, UpdateOutputGood
<1> HIDE DEF c1
<1>8. c2 \in K /\ Runs(c2) /\ Len(c2.queue) = 2
  <2>1. /\ c2 \in K /\ Runs(c2) /\ Goal(c2) = off
        /\ Len(c2.queue) = Len(c1.queue) + 1
    BY <1>2, <1>4, <1>7, QueueGood
  <2> HIDE DEF c2
  <2> QED BY <1>7, <2>1
<1> HIDE DEF c2
<1>9. c3 \in K /\ Runs(c3) /\ Len(c3.queue) = 3
  <2>1. /\ c3 \in K /\ Runs(c3) /\ Goal(c3) = on
        /\ Len(c3.queue) = Len(c2.queue) + 1
    BY <1>2, <1>4, <1>8, QueueGood
  <2> HIDE DEF c3
  <2> QED BY <1>8, <2>1
<1> HIDE DEF c3
<1>10. c4 \in K /\ Runs(c4) /\ Len(c4.queue) = 4
  <2>1. /\ c4 \in K /\ Runs(c4) /\ Goal(c4) = off
        /\ Len(c4.queue) = Len(c3.queue) + 1
    BY <1>2, <1>4, <1>9, QueueGood
  <2> HIDE DEF c4
  <2> QED BY <1>9, <2>1
<1> HIDE DEF c4
<1>11. c5 \in K /\ Runs(c5) /\ Len(c5.queue) = 5
  <2>1. /\ c5 \in K /\ Runs(c5) /\ Goal(c5) = on
        /\ Len(c5.queue) = Len(c4.queue) + 1
    BY <1>2, <1>4, <1>10, QueueGood
  <2> HIDE DEF c5
  <2> QED BY <1>10, <2>1
<1> HIDE DEF c5
<1>12. c6 \in K /\ Runs(c6) /\ Len(c6.queue) = 6 /\ Goal(c6) = end
  <2>1. /\ c6 \in K /\ Runs(c6) /\ Goal(c6) = end
        /\ Len(c6.queue) = Len(c5.queue) + 1
    BY <1>2, <1>4, <1>11, QueueGood
  <2> HIDE DEF c6
  <2> QED BY <1>11, <2>1
<1>13. c6 \in AnyController
  BY <1>1, <1>12 DEF AnyController
<1> HIDE DEF c6, K
<1>14. /\ d.type = b.type /\ d.cfg = b.cfg /\ d.a = b.a
       /\ d.manual = b.manual /\ d.fresh = b.fresh /\ d.c = c6
  BY <1>1, <1>5 DEF Bulbs
<1>15. d \in Bulbs
  BY <1>1, <1>5, <1>13 DEF Bulbs
<1>16. Typed(d)
  <2>1. d.c \in Controllers(d.type) /\ Runs(d.c)
    BY <1>12, <1>14 DEF K
  <2>2. d.c.queue = c6.queue
    BY <1>14
  <2>3. Len(c6.queue) = 6 /\ MaxQueue = 6
    BY <1>12 DEF MaxQueue
  <2>4. Len(d.c.queue) <= MaxQueue
    BY <2>2, <2>3
  <2> QED BY <1>15, <2>1, <2>4 DEF Typed
<1>17. Showing(d)
  BY <1>4, <1>12, <1>14 DEF Showing
<1>18. Lit(d)
  BY <1>14, SameLit DEF GoodBulb
<1> QED BY <1>16, <1>17, <1>18 DEF GoodBulb, d

LEMMA NewBulbGood ==
  ASSUME NEW type \in Types, NEW cfg \in Settings, NEW opt \in BulbConfigs
  PROVE  GoodBulb(NewBulb(type, cfg, opt))
<1> DEFINE c == NewController(Dark(type))
           a == NewAdaptiveLighting
           b == NewBulb(type, cfg, opt)
<1>1. type \in BulbTypes
  BY TypesAssumption
<1>2. c \in Controllers(type) /\ Runs(c) /\ Len(c.queue) = 0
  BY <1>1, NewControllerGood
<1>3. c \in AnyController
  BY <1>2 DEF AnyController
<1>4. a \in Lightings /\ a.count = 0
  BY DEF NewAdaptiveLighting, Lightings
<1> DEFINE m == None
           x == cfg.on /\ opt.autoOff
<1>5. b = [type |-> type, cfg |-> cfg, opt |-> opt, dirty |-> FALSE,
           armed |-> FALSE, c |-> c, a |-> a, manual |-> m,
           fresh |-> FALSE, set |-> FALSE, spared |-> x]
  BY DEF NewBulb
<1>10. m \in Chosen /\ x \in BOOLEAN
  BY DEF Chosen
<1> HIDE DEF b, c, a, m, x
<1>6. /\ b.type = type /\ b.c = c /\ b.a = a
      /\ b.fresh = FALSE /\ b.set = FALSE /\ b.manual = None
  BY <1>5 DEF m
<1>7. b \in Bulbs
  BY <1>3, <1>4, <1>5, <1>10 DEF Bulbs
<1>8. Typed(b)
  <2>1. b.c \in Controllers(b.type) /\ Runs(b.c)
    BY <1>2, <1>6
  <2>2. Len(b.c.queue) = 0 /\ MaxQueue = 6
    BY <1>2, <1>6 DEF MaxQueue
  <2> QED BY <1>7, <2>1, <2>2 DEF Typed
<1>9. Showing(b) /\ Lit(b)
  BY <1>4, <1>6 DEF Showing, Lit
<1> QED BY <1>8, <1>9 DEF GoodBulb, b

LEMMA OnOffGood ==
  ASSUME NEW b, GoodBulb(b), NEW on \in BOOLEAN, NEW force \in BOOLEAN
  PROVE  GoodBulb(UpdateOnOff(b, on, force))
BY UpdateOnOffGood DEF GoodBulb

\* Fields no other part of the invariant depends on.
LEMMA ArmedGood ==
  ASSUME NEW b, GoodBulb(b), NEW x \in BOOLEAN, NEW y \in BOOLEAN
  PROVE  /\ GoodBulb([b EXCEPT !.armed = x])
         /\ GoodBulb([b EXCEPT !.dirty = y])
         /\ GoodBulb([b EXCEPT !.armed = x, !.spared = y])
<1>1. b \in Bulbs /\ Typed(b) /\ Showing(b) /\ Lit(b)
  BY DEF GoodBulb, Typed
<1> DEFINE s == [b EXCEPT !.armed = x]
           t == [b EXCEPT !.dirty = y]
           w == [b EXCEPT !.armed = x, !.spared = y]
<1>2. s \in Bulbs /\ t \in Bulbs /\ w \in Bulbs
  BY <1>1 DEF Bulbs
<1>3. \A u \in {s, t, w} :
        /\ u.type = b.type /\ u.c = b.c /\ u.cfg = b.cfg /\ u.set = b.set
        /\ u.a = b.a /\ u.manual = b.manual /\ u.fresh = b.fresh
  BY <1>1 DEF Bulbs
<1> HIDE DEF s, t, w
<1>4. \A u \in {s, t, w} : Typed(u) /\ Showing(u) /\ Lit(u)
  BY <1>1, <1>2, <1>3, SameTyped, SameShowing, SameLit
<1> QED BY <1>4 DEF GoodBulb, s, t, w

LEMMA CreateGood ==
  ASSUME NEW type \in Types, NEW cfg \in Settings, NEW opt \in BulbConfigs,
         NEW soft \in BOOLEAN, level \in BOOLEAN
  PROVE  GoodBulb(CreateComponents(type, cfg, opt, soft))
<1> DEFINE b == NewBulb(type, cfg, opt)
           on == b.cfg.on
           always == b.opt.initial = "On"
<1>1. GoodBulb(b)
  BY NewBulbGood
<1> HIDE DEF b
<1>2. on \in BOOLEAN
  BY <1>1 DEF GoodBulb, Typed, Bulbs, Settings
<1>3. always \in BOOLEAN
  OBVIOUS
<1>4. \/ Started(b, soft) = b \/ Started(b, soft) = UpdateOnOff(b, on, TRUE)
      \/ Started(b, soft) = UpdateOnOff(b, level, TRUE)
      \/ Started(b, soft) = UpdateOnOff(b, always, TRUE)
  BY DEF Started
<1> HIDE DEF on, always
<1>5. \A x \in {on, level, always} : GoodBulb(UpdateOnOff(b, x, TRUE))
  <2>1. TRUE \in BOOLEAN
    OBVIOUS
  <2> QED BY <1>1, <1>2, <1>3, <2>1, OnOffGood
<1>6. GoodBulb(Started(b, soft))
  BY <1>1, <1>4, <1>5
<1> QED BY <1>6 DEF CreateComponents, b

LEMMA InputEventGood ==
  ASSUME NEW b, GoodBulb(b), NEW state \in BOOLEAN
  PROVE  GoodBulb(InputEvent(b, state))
<1> DEFINE other == ~b.cfg.on
           d == InputEvent(b, state)
           e == [b EXCEPT !.armed = TRUE]
<1>1. other \in BOOLEAN
  OBVIOUS
<1>2. \/ d = b \/ d = UpdateOnOff(b, other, FALSE)
      \/ d = UpdateOnOff(b, state, FALSE) \/ d = UpdateOnOff(b, TRUE, FALSE)
      \/ d = e
  <2> DEFINE m == b.opt.inMode
             auto == b.cfg.on /\ b.opt.autoOff
  <2>1. CASE m = "Momentary"
    BY <2>1 DEF InputEvent
  <2>2. CASE m = "Toggle"
    BY <2>2 DEF InputEvent
  <2>3. CASE m = "Edge"
    BY <2>3 DEF InputEvent
  <2>4. CASE m = "Activation"
    <3>1. d = IF state THEN UpdateOnOff(b, TRUE, FALSE)
              ELSE IF auto THEN e ELSE b
      BY <2>4 DEF InputEvent
    <3> HIDE DEF d, auto, e
    <3> QED BY <3>1
  <2>5. CASE m \notin {"Momentary", "Toggle", "Edge", "Activation"}
    <3>1. d = b
      BY <2>5 DEF InputEvent
    <3> HIDE DEF d
    <3> QED BY <3>1
  <2> HIDE DEF d, e, m
  <2> QED BY <2>1, <2>2, <2>3, <2>4, <2>5
<1> HIDE DEF d, other
<1>3. TRUE \in BOOLEAN /\ FALSE \in BOOLEAN
  OBVIOUS
<1>4. \A x \in {other, state, TRUE} : GoodBulb(UpdateOnOff(b, x, FALSE))
  BY <1>1, <1>3, OnOffGood
<1>5. GoodBulb(e)
  BY <1>3, ArmedGood
<1> HIDE DEF e
<1> QED BY <1>2, <1>4, <1>5 DEF d

LEMMA AutoOffGood ==
  ASSUME NEW b, GoodBulb(b)
  PROVE  GoodBulb(AutoOff(b))
<1> DEFINE e == [b EXCEPT !.armed = FALSE]
           d == AutoOff(b)
<1>1. d = e \/ d = b \/ d = UpdateOnOff(e, FALSE, FALSE)
  BY DEF AutoOff
<1>2. FALSE \in BOOLEAN
  OBVIOUS
<1>3. GoodBulb(e)
  BY <1>2, ArmedGood
<1> HIDE DEF d, e
<1>4. GoodBulb(UpdateOnOff(e, FALSE, FALSE))
  BY <1>2, <1>3, OnOffGood
<1> QED BY <1>1, <1>3, <1>4 DEF d

\* TransitionTimerCB.
LEMMA FadeGood ==
  ASSUME NEW b, GoodBulb(b), b.c.running = TRUE
  PROVE  GoodBulb([b EXCEPT !.c = TransitionTimer(b.c)])
<1> DEFINE c == TransitionTimer(b.c)
           d == [b EXCEPT !.c = c]
<1>1. /\ b \in Bulbs /\ b.type \in Types /\ b.c \in Controllers(b.type)
      /\ Runs(b.c) /\ Len(b.c.queue) <= MaxQueue
  BY DEF GoodBulb, Typed, Bulbs
<1>2. b.type \in BulbTypes
  BY <1>1, TypesAssumption
<1>3. /\ c \in Controllers(b.type) /\ Runs(c) /\ Goal(c) = Goal(b.c)
      /\ Len(c.queue) <= Len(b.c.queue)
  BY <1>1, <1>2, TransitionTimerGood
<1>4. c \in AnyController
  BY <1>1, <1>3 DEF AnyController
<1>5. Len(c.queue) <= MaxQueue
  <2>1. Len(c.queue) \in Nat /\ Len(b.c.queue) \in Nat
    BY <1>1, <1>3 DEF Controllers
  <2> HIDE DEF c
  <2> QED BY <1>1, <1>3, <2>1 DEF MaxQueue
<1> HIDE DEF c
<1>6. /\ d.type = b.type /\ d.c = c /\ d.cfg = b.cfg /\ d.set = b.set
      /\ d.a = b.a /\ d.manual = b.manual /\ d.fresh = b.fresh
  BY <1>1 DEF Bulbs
<1>7. d \in Bulbs
  BY <1>1, <1>4 DEF Bulbs
<1> HIDE DEF d
<1>8. Typed(d)
  BY <1>3, <1>5, <1>6, <1>7 DEF Typed
<1>9. Showing(d)
  BY <1>3, <1>6 DEF GoodBulb, Showing
<1>10. Lit(d)
  BY <1>6, SameLit DEF GoodBulb
<1> QED BY <1>8, <1>9, <1>10 DEF GoodBulb, d, c

\* A write to the control point.
LEMMA ControlWriteGood ==
  ASSUME NEW b, GoodBulb(b), NEW r \in Requests(Tables),
         NEW m \in Chosen, NEW f \in BOOLEAN, NEW a, a = Control(b.a, r),
         m # None => b.manual = m /\ ~Activates(r),
         f = TRUE => /\ b.fresh = TRUE /\ a.table = b.a.table
                     /\ a.offset = b.a.offset
  PROVE  GoodBulb([b EXCEPT !.a = a, !.manual = m, !.fresh = f])
<1> DEFINE e == [b EXCEPT !.a = a]
           d == [b EXCEPT !.a = a, !.manual = m, !.fresh = f]
<1>1. /\ b \in Bulbs /\ b.a \in Lightings /\ Typed(b) /\ Showing(b) /\ Lit(b)
      /\ b.a.count \in {0, 1}
  BY DEF GoodBulb, Typed, Bulbs, Lightings
<1>2. /\ a \in Lightings
      /\ (a.count = 1 => a.table \in Tables)
           \/ (b.a.count = 1 /\ b.a.table \notin Tables)
      /\ b.a.table \in Tables => a.table \in Tables
      /\ b.a.count = 0 /\ a.count = 1 => Activates(r) /\ a.offset = 0
  BY <1>1, ControlGood
<1>3. a.count \in {0, 1} /\ a.offset \in Nat
  BY <1>2 DEF Lightings
<1>4. e \in Bulbs
  BY <1>1, <1>2 DEF Bulbs
<1>5. d = [e EXCEPT !.manual = m, !.fresh = f]
  BY <1>1 DEF Bulbs
<1>6. /\ d.type = b.type /\ d.c = b.c /\ d.cfg = b.cfg /\ d.set = b.set
      /\ d.a = a /\ d.manual = m /\ d.fresh = f
  BY <1>1 DEF Bulbs
<1> HIDE DEF e, d
<1>7. d \in Bulbs
  BY <1>4, <1>5 DEF Bulbs
<1>8. Typed(d) /\ Showing(d)
  BY <1>1, <1>6, <1>7, SameTyped, SameShowing
<1>9. d.manual # None => d.a.count = 0 /\ d.cfg.ct = d.manual
  <2>1. b.manual # None => b.a.count = 0 /\ b.cfg.ct = b.manual
    BY <1>1 DEF Lit
  <2> QED BY <1>2, <1>3, <1>6, <2>1
<1>10. d.a.count = 1 => d.a.table \in Tables
  <2>1. b.a.count = 1 => b.a.table \in Tables
    BY <1>1 DEF Lit
  <2> QED BY <1>2, <1>6, <2>1
<1>11. ASSUME d.fresh = TRUE
       PROVE  /\ d.a.table \in Tables
              /\ Plain(d.a.table) /\ ~IsOver(d.a.table, d.a.offset) =>
                   d.cfg.ct = OnCurve(d.a.table, d.a.offset, d.cfg.b)
              /\ d.a.count = 1 => ~IsOver(d.a.table, d.a.offset)
  <2>1. /\ b.fresh = TRUE /\ a.table = b.a.table /\ a.offset = b.a.offset
    BY <1>6, <1>11
  <2>2. /\ b.a.table \in Tables
        /\ Plain(b.a.table) /\ ~IsOver(b.a.table, b.a.offset) =>
             b.cfg.ct = OnCurve(b.a.table, b.a.offset, b.cfg.b)
        /\ b.a.count = 1 => ~IsOver(b.a.table, b.a.offset)
    BY <1>1, <2>1 DEF Lit
  <2>3. ASSUME a.count = 1 PROVE ~IsOver(a.table, a.offset)
    <3>1. CASE b.a.count = 1
      BY <2>1, <2>2, <3>1
    <3>2. CASE b.a.count = 0
      <4>1. a.offset = 0 /\ a.table \in TransitionCurves
        BY <1>2, <2>1, <2>2, <2>3, <3>2, TablesAssumption
      <4> DEFINE t == a.table
      <4>2. EndOf(t, Len(t)) \in Nat
        <5> HIDE DEF t
        <5>1. t \in TransitionCurves
          BY <4>1 DEF t
        <5>2. Len(t) \in 0 .. Len(t)
          BY <5>1, CurveShape
        <5> QED BY <5>1, <5>2, EndOfNat
      <4> QED BY <4>1, <4>2 DEF IsOver
    <3> QED BY <1>1, <3>1, <3>2
  <2> QED BY <1>6, <2>1, <2>2, <2>3
<1>12. Lit(d)
  BY <1>9, <1>10, <1>11 DEF Lit
<1> QED BY <1>8, <1>12 DEF GoodBulb, d

-----------------------------------------------------------------------------
IInv == /\ GoodBulb(l)
        /\ level \in BOOLEAN /\ calm \in BOOLEAN

LEMMA InitGood == Init => IInv
<1> SUFFICES ASSUME Init PROVE IInv
  OBVIOUS
<1>1. level \in BOOLEAN /\ calm \in BOOLEAN
  BY DEF Init
<1>2. PICK type \in Types, o \in Configs :
        l = CreateComponents(type, Defaults, o, FALSE)
  BY DEF Init
<1>3. o \in BulbConfigs /\ Defaults \in Settings /\ FALSE \in BOOLEAN
  BY ConfigsAssumption, DefaultsGood
<1>4. GoodBulb(CreateComponents(type, Defaults, o, FALSE))
  BY <1>1, <1>3, CreateGood
<1> QED BY <1>1, <1>2, <1>4 DEF IInv

LEMMA DeviceGood ==
  ASSUME IInv, Device
  PROVE  GoodBulb(l')
<1>1. GoodBulb(l)
  BY DEF IInv
<1>2. CASE AutoOffTimer
  BY <1>1, <1>2, AutoOffGood DEF AutoOffTimer
<1>3. CASE FadeTimer
  <2>1. l.c.running \in BOOLEAN
    <3>1. l.c \in Controllers(l.type)
      BY <1>1 DEF GoodBulb, Typed
    <3> QED BY <3>1 DEF Controllers
  <2>2. l.c.running = TRUE
    BY <1>3, <2>1 DEF FadeTimer
  <2>3. GoodBulb([l EXCEPT !.c = TransitionTimer(l.c)])
    BY <1>1, <2>2, FadeGood
  <2> QED BY <1>3, <2>3 DEF FadeTimer
<1>4. CASE UpdateTimer
  <2>1. GoodBulb(AdjustColorTemp(l, 1))
    BY <1>1, AdjustColorTempGood DEF GoodBulb
  <2> QED BY <1>4, <2>1 DEF UpdateTimer
<1>5. CASE SaveState
  <2>1. GoodBulb([l EXCEPT !.dirty = FALSE])
    BY <1>1, ArmedGood
  <2> QED BY <1>5, <2>1 DEF SaveState
<1> QED BY <1>2, <1>3, <1>4, <1>5 DEF Device

LEMMA HAPWriteGood ==
  ASSUME GoodBulb(l), HAPWrite
  PROVE  GoodBulb(l')
<1> DEFINE P == 0 .. 100
           H == 0 .. 360
           T == 50 .. 400
<1>1. /\ Hues \subseteq H /\ Saturations \subseteq P
      /\ Brightnesses \subseteq P /\ Temperatures \subseteq T
  BY SettingsAssumption
<1>2. /\ \A on \in BOOLEAN : GoodBulb(UpdateOnOff(l, on, FALSE))
      /\ \A v \in P : GoodBulb(SetBrightness(l, v, "HAP"))
      /\ \A h \in H : GoodBulb(SetHue(l, h))
      /\ \A s \in P : GoodBulb(SetSaturation(l, s))
      /\ \A ct \in T :
           HasTemperature(l) => GoodBulb(SetColorTemperature(l, ct, "HAP"))
  <2>1. \A on \in BOOLEAN : GoodBulb(UpdateOnOff(l, on, FALSE))
    BY OnOffGood
  <2>2. \A v \in P : GoodBulb(SetBrightness(l, v, "HAP"))
    BY SetBrightnessGood
  <2>3. \A h \in H : GoodBulb(SetHue(l, h))
    BY SetHueGood
  <2>4. \A s \in P : GoodBulb(SetSaturation(l, s))
    BY SetSaturationGood
  <2>5. \A ct \in T :
          HasTemperature(l) => GoodBulb(SetColorTemperature(l, ct, "HAP"))
    BY SetColorTemperatureGood DEF GoodBulb
  <2> QED BY <2>1, <2>2, <2>3, <2>4, <2>5
<1> HIDE DEF P, H, T
<1> QED BY <1>1, <1>2 DEF HAPWrite

LEMMA UserGood ==
  ASSUME IInv, User
  PROVE  GoodBulb(l') /\ level' \in BOOLEAN
<1>1. GoodBulb(l) /\ level \in BOOLEAN
  BY DEF IInv
<1>2. l.type \in Types /\ l.cfg \in Settings /\ l.opt \in BulbConfigs
  BY <1>1 DEF GoodBulb, Typed, Bulbs
<1>3. CASE InputChange
  <2> DEFINE x == ~level
  <2>1. x \in BOOLEAN
    BY <1>1
  <2>2. l' = InputEvent(l, x) /\ level' = x
    BY <1>3 DEF InputChange
  <2> HIDE DEF x
  <2> QED BY <1>1, <2>1, <2>2, InputEventGood
<1>4. CASE LongPress
  <2> DEFINE y == l.cfg.on /\ l.opt.autoOff
  <2>1. y \in BOOLEAN /\ FALSE \in BOOLEAN
    OBVIOUS
  <2>2. l' = [l EXCEPT !.armed = FALSE, !.spared = y] \/ l' = l
    BY <1>4 DEF LongPress
  <2> HIDE DEF y
  <2>3. GoodBulb([l EXCEPT !.armed = FALSE, !.spared = y])
    BY <1>1, <2>1, ArmedGood
  <2> QED BY <1>1, <1>4, <2>2, <2>3 DEF LongPress
<1>5. CASE HAPWrite /\ UNCHANGED level
  BY <1>1, <1>5, HAPWriteGood
<1>6. CASE RPCSetState /\ UNCHANGED level
  BY <1>1, <1>6, ApplyStateGood DEF RPCSetState
<1>7. CASE ControlWrite /\ UNCHANGED level
  <2>1. PICK r \in Requests(Tables) :
          LET a == Control(l.a, r)
          IN  l' = [l EXCEPT !.a = a,
                             !.manual = IF Activates(r) THEN None ELSE @,
                             !.fresh = @ /\ a.table = l.a.table
                                       /\ a.offset = l.a.offset]
    BY <1>7 DEF ControlWrite
  <2> DEFINE a == Control(l.a, r)
             m == IF Activates(r) THEN None ELSE l.manual
             f == l.fresh /\ a.table = l.a.table /\ a.offset = l.a.offset
  <2>2. l' = [l EXCEPT !.a = a, !.manual = m, !.fresh = f]
    BY <2>1
  <2>4. l.manual \in Chosen /\ l.fresh \in BOOLEAN
    BY <1>1 DEF GoodBulb, Typed, Bulbs
  <2>3. m \in Chosen /\ f \in BOOLEAN
    BY <2>4 DEF Chosen
  <2>5. m # None => l.manual = m /\ ~Activates(r)
    OBVIOUS
  <2>6. f = TRUE => /\ l.fresh = TRUE /\ a.table = l.a.table
                    /\ a.offset = l.a.offset
    BY <2>4
  <2>7. a = Control(l.a, r)
    OBVIOUS
  <2> HIDE DEF a, m, f
  <2>8. GoodBulb([l EXCEPT !.a = a, !.manual = m, !.fresh = f])
    BY <1>1, <2>3, <2>5, <2>6, <2>7, ControlWriteGood
  <2> QED BY <1>1, <1>7, <2>2, <2>8
<1>8. CASE Identify /\ UNCHANGED level
  BY <1>1, <1>8, IdentifiedGood DEF Identify
<1>9. CASE SetConfig /\ UNCHANGED level
  <2>1. PICK o \in Configs :
          l' = [l EXCEPT !.opt = o,
                         !.spared = /\ @ \/ ~l.opt.autoOff
                                    /\ o.autoOff /\ l.cfg.on /\ ~l.armed]
    BY <1>9 DEF SetConfig
  <2>2. l \in Bulbs /\ o \in BulbConfigs
    BY <1>1, ConfigsAssumption DEF GoodBulb, Typed
  <2> DEFINE x == /\ l.spared \/ ~l.opt.autoOff
                  /\ o.autoOff /\ l.cfg.on /\ ~l.armed
             d == [l EXCEPT !.opt = o, !.spared = x]
  <2>6. l' = d
    BY <2>1
  <2>7. x \in BOOLEAN
    OBVIOUS
  <2> HIDE DEF x
  <2>3. d \in Bulbs
    BY <2>2, <2>7 DEF Bulbs
  <2>4. /\ d.type = l.type /\ d.c = l.c /\ d.cfg = l.cfg /\ d.set = l.set
        /\ d.a = l.a /\ d.manual = l.manual /\ d.fresh = l.fresh
    BY <2>2 DEF Bulbs
  <2> HIDE DEF d
  <2>5. GoodBulb(d)
    BY <1>1, <2>3, <2>4, SameTyped, SameShowing, SameLit DEF GoodBulb
  <2> QED BY <1>1, <1>9, <2>5, <2>6
<1>10. CASE RestartService /\ UNCHANGED level
  <2>1. PICK o \in Configs, soft \in BOOLEAN :
          l' = CreateComponents(l.type, l.cfg, o, soft)
    BY <1>10 DEF RestartService
  <2>2. GoodBulb(CreateComponents(l.type, l.cfg, o, soft))
    BY <1>1, <1>2, ConfigsAssumption, CreateGood
  <2> QED BY <1>1, <1>10, <2>1, <2>2
<1>11. CASE PowerFail /\ UNCHANGED level
  <2>1. PICK cfg \in IF l.dirty THEN {l.cfg, [l.cfg EXCEPT !.on = ~@]}
                     ELSE {l.cfg} :
          l' = CreateComponents(l.type, cfg, l.opt, FALSE)
    BY <1>11 DEF PowerFail
  <2>2. cfg \in Settings
    <3> DEFINE x == ~l.cfg.on
    <3>1. x \in BOOLEAN
      OBVIOUS
    <3>2. cfg = l.cfg \/ cfg = [l.cfg EXCEPT !.on = x]
      OBVIOUS
    <3> HIDE DEF x
    <3>3. [l.cfg EXCEPT !.on = x] \in Settings
      BY <1>2, <3>1 DEF Settings
    <3> QED BY <1>2, <3>2, <3>3
  <2>3. GoodBulb(CreateComponents(l.type, cfg, l.opt, FALSE))
    BY <1>1, <1>2, <2>2, CreateGood
  <2> QED BY <1>1, <1>11, <2>1, <2>3
<1> QED BY <1>3, <1>4, <1>5, <1>6, <1>7, <1>8, <1>9, <1>10, <1>11 DEF User

LEMMA StepGood == IInv /\ [Next]_vars => IInv'
<1> SUFFICES ASSUME IInv, [Next]_vars PROVE IInv'
  OBVIOUS
<1>1. CASE Device
  <2>1. level' = level /\ calm' = calm
    BY <1>1 DEF Device, AutoOffTimer, FadeTimer, UpdateTimer, SaveState
  <2>2. GoodBulb(l')
    BY <1>1, DeviceGood
  <2> QED BY <2>1, <2>2 DEF IInv
<1>2. CASE User
  <2>1. calm' = calm
    BY <1>2 DEF User
  <2>2. GoodBulb(l') /\ level' \in BOOLEAN
    BY <1>2, UserGood
  <2> QED BY <2>1, <2>2 DEF IInv
<1>3. CASE CalmDown
  BY <1>3 DEF CalmDown, IInv
<1>4. CASE UNCHANGED vars
  BY <1>4 DEF vars, IInv
<1> QED BY <1>1, <1>2, <1>3, <1>4 DEF Next

\* The invariant holds: whatever Home, RPC clients, hands and timers do, in
\* whatever order.
THEOREM Invariant == Spec => []IInv
BY InitGood, StepGood, PTL DEF Spec

\* Types: every output is in range whatever is asked for, and the queue of
\* fades is not longer than the one of Identify.
THEOREM TypeCorrect == Spec => []TypeOK
<1>1. IInv => TypeOK
  <2> SUFFICES ASSUME IInv PROVE TypeOK
    OBVIOUS
  <2>1. /\ l \in Bulbs /\ l.c \in Controllers(l.type) /\ Runs(l.c)
        /\ Len(l.c.queue) <= MaxQueue
    BY DEF IInv, GoodBulb, Typed
  <2>2. l.type \in Types /\ l.cfg \in Settings /\ l.opt \in BulbConfigs
    BY <2>1 DEF Bulbs
  <2>3. l.a.count \in {0, 1} /\ l.a.offset \in Nat
    BY <2>1 DEF Bulbs, Lightings
  <2>4. {l.dirty, l.armed, l.fresh, l.set, l.spared, level, calm}
          \subseteq BOOLEAN
    BY <2>1 DEF Bulbs, IInv
  <2>6. l.manual \in {None} \union 50 .. 400
    <3>1. l.manual \in Chosen
      BY <2>1 DEF Bulbs
    <3> QED BY <3>1 DEF Chosen
  <2>5. \A i \in DOMAIN Dark(l.type) : StateNow(l.c)[i] \in 0 .. Full(l.type)
    <3> DEFINE top == Full(l.type)
               st == StateNow(l.c)
    <3>1. l.type \in BulbTypes
      BY <2>2, TypesAssumption
    <3>2. st \in [1 .. Outputs(l.type) -> 0 .. top]
      BY <2>1, <3>1, StateNowGood DEF States
    <3>3. DOMAIN Dark(l.type) = 1 .. Outputs(l.type)
      BY DEF Dark
    <3> HIDE DEF top, st
    <3>4. \A i \in DOMAIN Dark(l.type) : st[i] \in 0 .. top
      BY <3>2, <3>3
    <3> QED BY <3>4 DEF top, st
  <2> DEFINE C == {None} \union 50 .. 400
  <2>7. l.manual \in C
    BY <2>6
  <2> HIDE DEF C
  <2>8. TypeOK <=> /\ l.type \in Types /\ l.cfg \in Settings
                   /\ l.opt \in BulbConfigs
                   /\ {l.dirty, l.armed, l.fresh, l.set, l.spared, level, calm}
                        \subseteq BOOLEAN
                   /\ l.manual \in C
                   /\ \A i \in DOMAIN Dark(l.type) :
                        StateNow(l.c)[i] \in 0 .. Full(l.type)
                   /\ Len(l.c.queue) <= MaxQueue
                   /\ l.a.count \in {0, 1} /\ l.a.offset \in Nat
    BY DEF TypeOK, C
  <2> QED BY <2>1, <2>2, <2>3, <2>4, <2>5, <2>7, <2>8
<1> QED BY <1>1, Invariant, PTL

\* Fades get somewhere: what the outputs show, or what the last fade leads
\* to, is what the light is set to, for every colour and brightness.
THEOREM Shown == Spec => []ShowsSetting
<1>1. IInv /\ TypeOK => ShowsSetting
  <2> SUFFICES ASSUME IInv, TypeOK PROVE ShowsSetting
    OBVIOUS
  <2>1. /\ l.c \in Controllers(l.type) /\ Runs(l.c)
        /\ l.type \in BulbTypes
    BY TypesAssumption DEF IInv, GoodBulb, Typed, Bulbs
  <2>2. l.c.running \in BOOLEAN /\ l.set \in BOOLEAN
    BY <2>1 DEF Controllers, IInv, GoodBulb, Typed, Bulbs
  <2>3. l.c.running <=> l.c.queue # <<>>
    BY <2>1, <2>2 DEF Runs
  <2> DEFINE st == IF l.c.running THEN l.c.queue[Len(l.c.queue)].end
                   ELSE StateNow(l.c)
  <2>4. st = Goal(l.c)
    <3>1. CASE l.c.running = TRUE
      BY <2>3, <3>1 DEF Goal
    <3>2. CASE l.c.running = FALSE
      BY <2>1, <3>2, StateNowGood
    <3> QED BY <2>2, <3>1, <3>2
  <2> HIDE DEF st
  <2>5. l.set => Shows(l.type, l.cfg, st)
    BY <2>2, <2>4 DEF IInv, GoodBulb, Showing
  <2> QED BY <2>3, <2>5 DEF ShowsSetting, st
<1> QED BY <1>1, Invariant, TypeCorrect, PTL

\* A colour temperature chosen in Home stays what it is until adaptive
\* lighting is activated again or somebody chooses another, whatever timers
\* still run and whatever the brightness becomes.
THEOREM HomeWins == Spec => []ManualWins
<1>1. IInv => ManualWins
  BY DEF IInv, GoodBulb, Lit, ManualWins
<1> QED BY <1>1, Invariant, PTL

\* Adaptive lighting follows every curve whose entries have no duration.
\* (With a duration it does not, see the run of HoldTables.)
THEOREM CurveFollowed ==
  ASSUME \A t \in Tables : Plain(t)
  PROVE  Spec => []FollowsCurve
<1>1. IInv => FollowsCurve
  <2> SUFFICES ASSUME IInv, l.a.count = 1, l.fresh
               PROVE  l.cfg.ct = OnCurve(l.a.table, l.a.offset, l.cfg.b)
    BY DEF FollowsCurve
  <2>1. l.fresh = TRUE
    <3>1. l.fresh \in BOOLEAN
      BY DEF IInv, GoodBulb, Typed, Bulbs
    <3> QED BY <3>1
  <2>2. /\ l.a.table \in Tables
        /\ Plain(l.a.table) /\ ~IsOver(l.a.table, l.a.offset) =>
             l.cfg.ct = OnCurve(l.a.table, l.a.offset, l.cfg.b)
        /\ l.a.count = 1 => ~IsOver(l.a.table, l.a.offset)
    BY <2>1 DEF IInv, GoodBulb, Lit
  <2> QED BY <2>2
<1> QED BY <1>1, Invariant, PTL
=============================================================================
