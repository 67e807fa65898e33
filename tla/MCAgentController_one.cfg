\* One agent, two commits: resubmission, decisions about an older head, queueing.
CONSTANTS
  Agents = {a1}
  Heads = {h1, h2}
  NoAgent = NoAgent
  NoHead = NoHead
  WorkerExitCodes = {"ok", "error"}
  MaxCommands = 2
SYMMETRY Symmetry
SPECIFICATION Spec
INVARIANTS
  DecisionEndsWork
  LiveWorkerHasSnapshot
  LiveWorkerIsManaged
  TerminalMeansDead
  ExitedAgentSettled
  RunningIsManaged
  FeedbackNotLost
  IdleWorkerContinuable
  SubmissionIsExported
PROPERTIES
  UndecidedWorkPreserved
  ImplementsCustody
  TerminalStaysTerminal
CHECK_DEADLOCK FALSE
