\* A long-lived process and a pid that ends and is reused, a payload of one
\* process, two endpoints, two tries, five seconds; young processes, which may have
\* no create time yet, are those of less than two.
SPECIFICATION FairSpec
CONSTANTS
  Pids = {p, q}
  Volatile = {p}
  Gone = Gone
  None = None
  Wobble = 1
  Young = 2
  Unknown <- MCUnknown
  Slack = 2
  MaxPerMessage = 1
  MaxTries = 2
  BaseTick = 1
  ProcInterval = 2
  RTInterval = 1
  Answers <- MCAnswers
  LastEndpoint = 2
  MaxTime = 5
INVARIANTS RateIsTrue OthersFollowPrimary ProcessesHold
PROPERTIES IdentityKept ShutdownEnds
CHECK_DEADLOCK FALSE
