SPECIFICATION ScreensSpec
CONSTANTS
  Views <- MCViews
  MaxMoves = 2
  MaxWrites = 2
  Absent = Absent
CHECK_DEADLOCK FALSE
INVARIANTS
  OwnWritesShown
