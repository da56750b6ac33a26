\* Two processes on two hosts of a port, where no host has company by right.
SPECIFICATION SvcSpec
CONSTANTS
  p = p
  q = q
  Processes = {p, q}
  Configs <- TwoHosts
  Nobody = Nobody
  WildcardAlone = TRUE
  MaxEdits = 0
INVARIANTS
  FileHeld
CHECK_DEADLOCK FALSE
