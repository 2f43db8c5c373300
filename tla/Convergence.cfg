SPECIFICATION FairSpec
CONSTANTS
  p = p
  q = q
  c = c
  ref = ref
  txt = txt
  core = core
  extra = extra
  Null = Null
  Row <- MCRow
  Col <- MCCol
  Val = {"a"}
  Required <- MCRequired
  Refs <- MCRefs
  PkRefs <- MCPkRefs
  Scope = {core, extra}
  ScopeOf <- MCScopeOf
  BaseRows <- MCBaseWithChild
  Device = {1, 2}
  Founder = 1
  CreatedAt = 1
  MinWall = 2
  MaxWall = 3
  MaxDrift = 9
  MaxOps = 3
INVARIANTS HoldsNewest NoDanglingReference SameChangesSameState
PROPERTY EverythingSettles
CHECK_DEADLOCK FALSE
