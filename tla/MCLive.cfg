\* Every component at the bounds of README.md, section 4, under its fairness.
CONSTANTS
  None = None
  c1 = c1
  c2 = c2
  u1 = u1
  mail1 = mail1
  mail2 = mail2
  e1 = e1
SPECIFICATION FairSpec
PROPERTIES
  StartAnswered
  ProxyAnswers
  WaitEnds
  SessionAnswers
  FeedbackIsTakenUp
  IpcEnds
CHECK_DEADLOCK FALSE
