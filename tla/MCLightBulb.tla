----------------------------- MODULE MCLightBulb -----------------------------
EXTENDS LightBulb

MCConfigs ==
  {[inMode |-> "Activation", autoOff |-> TRUE, initial |-> "Input", time |-> 2],
   [inMode |-> "Momentary", autoOff |-> TRUE, initial |-> "On", time |-> 2],
   [inMode |-> "Toggle", autoOff |-> FALSE, initial |-> "Input", time |-> 0]}

Entry(v, adj, o, d) == [value |-> v, adj |-> adj, offset |-> o, duration |-> d]

\* From 140 to 200 at full brightness, in two intervals.
Slope == <<Entry(240, -1, 0, 0), Entry(200, 0, 2, 0)>>

\* From 140 to 240 at full brightness, in three intervals, and back.
Peak == <<Entry(240, -1, 0, 0), Entry(340, -1, 2, 0), Entry(200, 0, 1, 0)>>
PeakTables == {Peak}

\* The value of the first entry holds for two intervals.
Hold == <<Entry(100, 0, 0, 0), Entry(300, 0, 1, 2)>>

MCTables == {Slope}
HoldTables == {Hold}

\* A value that holds for two intervals, and nothing else.
Still == <<Entry(100, 0, 0, 2)>>
StillTables == {Still}
=============================================================================
