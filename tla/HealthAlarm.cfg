\* An alarm, another kind of failure, and a success.
SPECIFICATION Spec
CONSTANTS
  AlertSteps = {2, 4}
  MaxStreak = 4
INVARIANTS
  AlarmCleared
