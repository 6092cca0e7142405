CONSTANTS
  MaxObject = 9
  DataSize = 9
  Objects = {1, 2}
  Offsets = {1, 2, 3}
  None = None
  Files <- StreamFiles
SPECIFICATION IndexSpec
CHECK_DEADLOCK FALSE
INVARIANTS EditsNeverRevert
