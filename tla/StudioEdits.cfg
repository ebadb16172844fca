SPECIFICATION MCSpec
CONSTANTS
  Typed = {"t1", "t2"}
  Drawn = {"d"}
  Foreign = {"f"}
  Moves = {"m"}
  Autosave = TRUE
  CanFail = TRUE
  NoOne = "nobody"
INVARIANTS
  TypeOK
  AgreeAtRest
PROPERTIES
  SourceKept
  LayoutKept
  TypedIsSaved
  GraphEditEnds
CHECK_DEADLOCK FALSE
