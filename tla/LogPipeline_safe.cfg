\* Two files of two lines, a channel of one slot, batches of two, one restart.
SPECIFICATION Spec
CONSTANTS
  Sources = {f, g}
  MaxLines = 2
  Bytes <- MixedBytes
  ChanCap = 1
  MaxSize = 2
  MaxBytes = 3
  MaxRestarts = 1
INVARIANTS NeverAhead DrainedExit
PROPERTIES ExitPersisted DeliverySpec
SYMMETRY Symmetry
