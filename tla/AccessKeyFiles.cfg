SPECIFICATION Spec
CONSTANTS
  a = a
  b = b
  c = c
  board = board
  guest = guest
  core = core
  Device = {a, b, c}
  Members <- MCMembers
  Role = {board, guest}
  AdminRole = board
  Scope = {core}
  Reads <- MCReads
  Root = Root
  Unlisted = Unlisted
  NoJob = NoJob
  Coordinated = FALSE
  MaxVersions = 3
  MaxFaults = 0
SYMMETRY MCSymmetry
INVARIANT KeysBeforeACL
CHECK_DEADLOCK FALSE
