\* Two sources of the default journal, for different units; one exit of
\* journalctl, no restart.
SPECIFICATION JournalSpec
CONSTANTS
  a = a
  b = b
  Sources = {a, b}
  Config <- SharedConfig
  NoPath = NoPath
  Entry <- MCEntry
  Absent = Absent
  ChanCap = 1
  MaxBatch = 1
  MaxEntries = 2
  MaxExits = 1
  MaxRestarts = 0
INVARIANTS NoGap
CHECK_DEADLOCK FALSE
