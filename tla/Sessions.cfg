SPECIFICATION Spec
CONSTANTS
  u1 = u1
  u2 = u2
  x = x
  y = y
  boss = boss
  User = {u1, u2}
  Admin = Admin
  Email = {x, y, boss}
  AdminEmail = boss
  Role = {reader, editor}
  reader = reader
  editor = editor
  AdminRole = editor
  None = None
  Slot = {1, 2}
  Source = {here}
  here = here
  TokenTTL = 3
  AccessTTL = 1
  ResetTTL = 1
  ReuseGrace = 1
  AccountThreshold = 2
  SourceThreshold = 3
  BaseLockout = 1
  MaxLockout = 2
  FailureWindow = 2
  MaxTime = 4
  Budgets <- MCBudgets
SYMMETRY Symmetry
CHECK_DEADLOCK FALSE
INVARIANTS
  OneCurrentToken
  ChangeEndsLogins
  GuessRate
PROPERTY
  EndedStaysEnded
