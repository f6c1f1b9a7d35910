\* Two journals, one read from its beginning and one from its end; journalctl
\* exits once, the agent is stopped, or crashes, and is started again.
SPECIFICATION JournalFairSpec
CONSTANTS
  a = a
  b = b
  Sources = {a, b}
  Config <- MCConfig
  NoPath = NoPath
  Entry <- MCEntry
  Absent = Absent
  ChanCap = 1
  MaxBatch = 1
  MaxEntries = 2
  MaxExits = 1
  MaxRestarts = 1
INVARIANTS NoGap
PROPERTIES AllSettled JournalDelivers
CHECK_DEADLOCK FALSE
