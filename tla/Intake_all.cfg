\* The client's own constants, a caller with 30 seconds, three additional
\* endpoints, the last with a bad URL; requests that last two seconds, longer
\* than an additional endpoint has, or until they time out.
SPECIFICATION Spec
CONSTANTS
  N = 4
  BadURL = {4}
  MaxTries = 4
  Backoff = 1
  BackoffMax = 30
  AdditionalTimeout = 5
  Timeout = 20
  Deadline = 30
  Durations = {2, 6, 21}
INVARIANTS OutcomeIsPrimarys LadderDisciplined TurnComes
