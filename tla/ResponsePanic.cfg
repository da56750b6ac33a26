SPECIFICATION MCSpec
CONSTANTS
  Pieces <- HandlersPieces
  Codes = {200, 204, 302, 401, 500, 502}
  maxEnvelopeBody = 2
  MaxWrites = 3
  AlertSteps = {1, 2}
  MaxStreak = 2
  Clients = {c1, c2}
  Kinds <- UsageRecords
  Window = 2
  Minute = 1
  RecentCap = 1
  Horizon = 3
  MaxBytes = 1
  Requests = {r1, r2}
  maxPendingRefusals = 1
  MaxAttempts = 2
PROPERTIES
  PanicAnswered
CHECK_DEADLOCK FALSE
