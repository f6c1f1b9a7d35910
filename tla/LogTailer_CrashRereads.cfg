\* A rotation by renaming and a crash.
SPECIFICATION Spec
CONSTANTS
  MaxUnits = 4
  MaxGens = 2
  MaxTruncs = 0
  MaxRestarts = 1
  Ends = {1, 2, 3, 4}
  Blank = {}
  Starts = {}
  Excluded = {}
  Chunk = 2
  MaxLine = 2
  Cap = 1
PROPERTY CrashRereads
