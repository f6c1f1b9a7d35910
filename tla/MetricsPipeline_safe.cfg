\* Three samples of two contexts and a check in two packets, two listeners, one
\* context per payload.
SPECIFICATION FairSpec
CONSTANTS
  Samples = {"g1", "g2", "g3"}
  Checks = {"k1"}
  Events = {"e1"}
  Contexts = {"c1", "c2"}
  None = "none"
  ContextOf <- MCContextOf
  Packets <- MCPackets
  Listeners <- MCListeners
  Capacity <- MCCapacity
  MaxPerPayload = 1
INVARIANTS FlushedOnceInOrder FinalFlushCovers CollectorsHold SeriesHold
PROPERTIES ShutdownEnds Flushed
CHECK_DEADLOCK FALSE
