SPECIFICATION Spec
CONSTANTS
  Nodes = {"outer", "inner", "work", "stop"}
  Node <- Nested
  MaxRuns = 0
  HasTimeout = FALSE
  Outputs = {}
PROPERTIES
  BreakStopsIterations
