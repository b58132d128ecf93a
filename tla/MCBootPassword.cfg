SPECIFICATION Spec
CONSTANTS
  Boots = 5
  Stable = 4
  Changes = 5
  Window = 9
  Gap = 2
INVARIANTS NeverLocksOut
