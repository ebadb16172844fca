SPECIFICATION FairSpec
CONSTANTS
  Nodes = {"outer", "inner", "work", "stop", "poll", "quit"}
  Node <- Polling
  MaxRuns = 8
  HasTimeout = TRUE
  Outputs = {}
INVARIANTS
  PassIsComplete
PROPERTIES
  Terminates
