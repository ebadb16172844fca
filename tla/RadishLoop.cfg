SPECIFICATION Spec
CONSTANTS
  Nodes = {"loop", "side", "work", "stop", "note"}
  Node <- Broken
  MaxRuns = 0
  HasTimeout = FALSE
  Outputs = {}
INVARIANTS
  LoopWindow
  NeedsCompletedFirst
  CompletionsFit
PROPERTIES
  BreakEndsLoop
  ArrivalOrder
