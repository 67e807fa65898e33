\* Three agents that submit nothing: two children of one agent.
CONSTANTS
  Agents = {a1, a2, a3}
  Heads = {}
  NoAgent = NoAgent
  NoHead = NoHead
  WorkerExitCodes = {"error"}
  MaxCommands = 1
SYMMETRY Symmetry
SPECIFICATION Spec
CONSTRAINT OneFamily
INVARIANTS
  OneRecoveryAtATime
CHECK_DEADLOCK FALSE
