\* A submission that is recorded after its agent has been recovered.
CONSTANTS
  Agents = {a1, a2}
  Heads = {h1}
  NoAgent = NoAgent
  NoHead = NoHead
  WorkerExitCodes = {"error"}
  MaxCommands = 1
SPECIFICATION Spec
INVARIANTS
  NoRecoveredSubmission
CHECK_DEADLOCK FALSE
