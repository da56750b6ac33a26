\* One request: up to 3 handler calls, up to 2 keep-alives.
SPECIFICATION Spec
CONSTANTS
  Codes <- MCCodes
  Failures <- MCFailures
  MaxOps = 3
  MaxBeats = 2
INVARIANTS
  SilenceCovered
  EndedAsRecorded
PROPERTIES
  ImplementsContract
  NoPreambleOverJSON
  NobodyHangs
