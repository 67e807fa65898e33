\* Liveness of recovery: two agents that submit nothing.
CONSTANTS
  Agents = {a1, a2}
  Heads = {}
  NoAgent = NoAgent
  NoHead = NoHead
  WorkerExitCodes = {"error"}
  MaxCommands = 1
SPECIFICATION FairSpec
PROPERTIES
  RestartGuardReleased
CHECK_DEADLOCK FALSE
