SPECIFICATION Spec
CONSTANTS
  admin = admin
  reader = reader
  leaver = leaver
  Member = {admin, reader}
  Admin = admin
  Leaver = leaver
  Founder = admin
  Writers = {reader}
  None = None
  MaxAttempts = 2
  Restores = TRUE
  WritesInWindow = FALSE
  MaxSegments = 2
  MaxOwn = 1
INVARIANTS CutoffHolds UpToDateAgree RevocationUnblocks
