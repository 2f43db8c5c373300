SPECIFICATION ConflictsSpec
CONSTANTS
  v1 = v1
  v2 = v2
  Row = {1, 2, 3}
  Value = {v1, v2}
  Null = Null
  NoFlag = NoFlag
  MaxClock = 2
SYMMETRY MCSymmetry
INVARIANTS ConflictsTypeOK FlagsMatchContent
PROPERTY LocalAddsNoDuplicate
