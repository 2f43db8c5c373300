SPECIFICATION SpecWithRestore
CONSTANTS
  a1 = a1
  r1 = r1
  Author = {a1}
  Reader = {r1}
  MaxAttempts = 3
  MaxMade = 2
  MaxRestores = 1
INVARIANT SeqNeverReused
CHECK_DEADLOCK FALSE
