\* Every component at the bounds of README.md, section 4.
CONSTANTS
  None = None
  Operator = operator
  Artifacts = {a1, a2}
  SeriesParts = {p1, p2}
  Replies = {r1, r2}
  MaxFaults = 1
  Mails = {mail1, mail2, mail3}
  ToAgent = {mail1, mail2}
  Waiters = {w1}
  RebaseEdits = {e1}
  PickEdits = {e1, e2, e3}
  MaxSessions = 2
  MaxRuns = 2
  MaxCalls = 2
  Budget = 2
  ChildBudget = 2
  Window = 2
  MaxFeedback = 1
  ViewBudget = 4
  ViewWindow = 4
  ViewFeedback = 2
  SummaryCalls = {c1, c2, c3}
  MaxVersions = 4
  MaxEntries = 6
  Snapshots = {s1, s2}
  Checkout = checkout
  MaxCommits = 2
  CloneCommits = 1
  ApplyCalls = {c1, c2}
  MaxSubmissions = 3
  MaxRestarts = 1
  Peers = {c1, c2}
  MaxRequests = 4
SPECIFICATION LocalSpec
INVARIANTS
  MailSafety
  TranscriptSafety
  IpcSafety
  ApplySafety
  SelectionSafety
PROPERTIES
  StoreSafety
  
  RecordSafety
  SnapshotSafety
CHECK_DEADLOCK FALSE
