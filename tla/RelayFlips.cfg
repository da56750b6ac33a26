\* One connection is enough.
SPECIFICATION Spec
CONSTANTS
  Conns = {c1}
  NoConn = NoConn
  ProbeTTL = 1
  HandshakeBackoff = 2
PROPERTIES
  FlipsSilenced
CHECK_DEADLOCK FALSE
