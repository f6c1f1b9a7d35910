\* One file of three lines, a channel of one slot, batches of two, no restart.
SPECIFICATION FairSpec
CONSTANTS
  Sources = {f}
  MaxLines = 3
  Bytes <- MixedBytes
  ChanCap = 1
  MaxSize = 2
  MaxBytes = 3
  MaxRestarts = 0
PROPERTIES ShutdownEnds CatchesUp
