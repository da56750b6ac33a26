SPECIFICATION MCSpec
CONSTANTS
  Words = {"tunnel", "down", "quit"}
  MaxText = 2
  MaxFetches = 3
  MaxChanges = 1
  MaxActions = 2
  Heights = {16, 17}
  Outputs = {4, 12}
  p = p
  q = q
  Processes = {p, q}
  Configs <- Asked
  Nobody = Nobody
  WildcardAlone = FALSE
  MaxEdits = 2
  fileA = fileA
  fileB = fileB
  Files = {fileA, fileB}
  Accounts = {"owner"}
  Owner <- OneOwner
  Callers = {"terminal", "panel"}
  expiringWindow = 1
  Lifetime = 1
  Horizon = 2
  MaxPoolEdits = 1
  Facts <- Amiss
  LogLines <- Says
  MaxLog = 3
INVARIANTS
  ChainsKept
  ScreenTrue
  ExitTold
  Undisturbed
  Released
  Evidenced
PROPERTIES
  AskedFor
  Settles
  Kept
  LastKept
CHECK_DEADLOCK FALSE
