\* Two connections, a backoff longer than a probe's verdict lasts.
SPECIFICATION LiveSpec
CONSTANTS
  Conns = {c1, c2}
  NoConn = NoConn
  ProbeTTL = 1
  HandshakeBackoff = 2
INVARIANTS
  NoFlapping
  Told
  Justified
PROPERTIES
  Served
CHECK_DEADLOCK FALSE
