SPECIFICATION Spec
CONSTANTS
  Typed = {"t1", "t2"}
  Drawn = {}
  Foreign = {}
  Moves = {}
  Autosave = FALSE
  CanFail = FALSE
  NoOne = "nobody"
INVARIANTS
  ClosingLosesNothing
CHECK_DEADLOCK FALSE
