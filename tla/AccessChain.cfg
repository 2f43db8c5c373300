SPECIFICATION Spec
CONSTANTS
  a = a
  b = b
  c = c
  board = board
  guest = guest
  core = core
  Device = {a, b, c}
  Members <- MCMembers
  Role = {board, guest}
  AdminRole = board
  Scope = {core}
  Reads <- MCReads
  Root = Root
  Unlisted = Unlisted
  NoJob = NoJob
  Coordinated = TRUE
  MaxVersions = 3
  MaxFaults = 1
SYMMETRY MCSymmetry
INVARIANTS KeysBeforeACL RevokedGetNoNewKeys SettledAgree
PROPERTY NeverReplaced
