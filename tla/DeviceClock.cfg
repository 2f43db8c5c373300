SPECIFICATION Spec
CONSTANTS
  MaxCounter = 2
  MaxDrift = 1
  Received <- MCReceived
  MaxWall = 4
  MaxTicks = 3
INVARIANTS TypeOK IssuedIncreases
PROPERTY EditsFollowWhatWasSeen
