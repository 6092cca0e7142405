CONSTANTS
  Bases <- MadeBases
  Values = {"v1", "v2"}
  Texts = {"t1"}
  Permissions = {0, 2}
  Window = 4
  MaxParts = 3
  MaxEdits = 2
  MaxWrites = 2
SPECIFICATION Spec
CHECK_DEADLOCK FALSE
INVARIANTS EarlierUpdatesStay
