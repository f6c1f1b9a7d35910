\* Two uploads, one of them over the cap, two profiling intakes.
SPECIFICATION FairSpec
CONSTANTS
  Requests = {r1, r2}
  TooBig = {r2}
  Targets = 2
  None = None
  Configurable = {"hostmeta", "dogstatsd", "proxy", "logs"}
INVARIANTS AnswerIsPrimarys ExitWaits FailureReported ConfigHolds
PROPERTIES AgentEnds
CHECK_DEADLOCK FALSE
