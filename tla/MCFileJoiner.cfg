SPECIFICATION Spec
CONSTANTS
  Names = {1, 2, 3}
  Sizes = {0, 2, 3}
  SIZE_OF_BUFFER = 2
  Space = 6
  MaxClicks = 1
  None = None
CHECK_DEADLOCK FALSE
INVARIANTS OutputIsJoin ReportedIsWritten
PROPERTY ClickEnds
