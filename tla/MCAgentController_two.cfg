\* Two agents, one commit: recovery of one agent by another, shutdown of both.
CONSTANTS
  Agents = {a1, a2}
  Heads = {h1}
  NoAgent = NoAgent
  NoHead = NoHead
  WorkerExitCodes = {"error"}
  MaxCommands = 1
SYMMETRY Symmetry
SPECIFICATION Spec
INVARIANTS
  IndInv
CHECK_DEADLOCK FALSE
