SPECIFICATION FairSpec
CONSTANTS
  a1 = a1
  r1 = r1
  Author = {a1}
  Reader = {r1}
  MaxAttempts = 3
  MaxMade = 4
  MaxRestores = 0
INVARIANTS StreamTypeOK SeqNeverReused
PROPERTIES ImplementsLog EveryOpArrives
CHECK_DEADLOCK FALSE
