SPECIFICATION Spec
CONSTANTS
  TgIds = {g1, g2}
  MaxCodes = 2
  Requests = {r1, r2}
  MaxAttempts = 1
  MaxRequests = 2
  MaxEdits = 2
  MaxFailures = 1
  NoTg = NoTg
SYMMETRY Symmetry
INVARIANTS TypeOK OneAccount SpentOnce SessionsOwned WindowsHeld
CHECK_DEADLOCK FALSE
