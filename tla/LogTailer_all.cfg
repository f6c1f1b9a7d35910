\* Four units in at most two files, one rotation by renaming, one truncation,
\* one restart.
SPECIFICATION LiveSpec
CONSTANTS
  MaxUnits = 4
  MaxGens = 2
  MaxTruncs = 1
  MaxRestarts = 1
  Ends = {3, 4}
  Blank = {3}
  Starts = {1, 4}
  Excluded = {2}
  Chunk = 2
  MaxLine = 1
  Cap = 1
INVARIANTS OffsetMatchesContent EntryNeverAhead
PROPERTIES RotatedFileReadToEnd FollowsPath
