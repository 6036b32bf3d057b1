SPECIFICATION Spec
CONSTANTS
  One = 16
  Digits = {0, 1, 5, 9}
  MaxWhole = 1
  MaxFrac = 3
INVARIANT FractionAdded
CHECK_DEADLOCK FALSE
