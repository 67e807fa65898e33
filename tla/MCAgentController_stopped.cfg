\* A stop_agent call for an agent whose worker has ended before it.
CONSTANTS
  Agents = {a1}
  Heads = {h1}
  NoAgent = NoAgent
  NoHead = NoHead
  WorkerExitCodes = {"error"}
  MaxCommands = 1
SPECIFICATION Spec
INVARIANTS
  StoppedIsDecidable
CHECK_DEADLOCK FALSE
