\* A literal path, two globs and a literal path they meet first; three changes
\* of the files, enough for a rotation seen half done by two scans in a row.
SPECIFICATION FairSpec
CONSTANTS
  x = x
  y = y
  Paths = {x, y}
  SourceList <- MCSourceList
  NoHandle = NoHandle
  MaxFlight = 1
  MaxChanges = 3
  MaxTailers = 2
INVARIANTS OneTailer NoSenderLeft LiteralStays
PROPERTIES RotationSurvives StaysTailed
CHECK_DEADLOCK FALSE
