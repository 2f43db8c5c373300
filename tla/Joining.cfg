SPECIFICATION Spec
CONSTANTS
  d1 = d1
  d2 = d2
  a1 = a1
  a2 = a2
  i1 = i1
  i2 = i2
  None = None
  Device = {d1, d2}
  Admin = {a1, a2}
  Invite = {i1, i2}
  OwnerOf <- MCOwner
  LocalData = {d1}
  MaxApproveAttempts = 2
  Budgets <- MCBudgets
CHECK_DEADLOCK FALSE
INVARIANTS
  OneDevicePerInvite
  RequestOrAnswer
PROPERTIES
  ImplementsAdmission
