\* The agent submits again while its first submission is being applied.
CONSTANTS
  Calls = {c1}
  Remote = TRUE
  MaxSubmissions = 2
  MaxRestarts = 0
SPECIFICATION Spec
INVARIANTS
  AcknowledgedIsApplied
CHECK_DEADLOCK FALSE
