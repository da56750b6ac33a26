\* A window of three ticks, an upstream of up to five chunks and its error; three
\* requests for a connection, two attempts each.
SPECIFICATION MCSpec
CONSTANTS
  Idle = 3
  MaxChunks = 5
  r1 = r1
  r2 = r2
  r3 = r3
  Requests = {r1, r2, r3}
  NoRequest = NoRequest
  connectAttempts = 2
INVARIANTS
  Transparent
  SlowReaderSpared
  EndingNamed
  Shared
PROPERTIES
  StreamEnds
  Attended
