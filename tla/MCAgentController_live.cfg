\* Liveness of one agent under fair scheduling.
CONSTANTS
  Agents = {a1}
  Heads = {h1}
  NoAgent = NoAgent
  NoHead = NoHead
  WorkerExitCodes = {"ok", "error"}
  MaxCommands = 2
SPECIFICATION FairSpec
PROPERTIES
  StopCompletes
  StopRequestKills
  FeedbackAnswered
CHECK_DEADLOCK FALSE
