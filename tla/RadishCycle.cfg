SPECIFICATION Spec
CONSTANTS
  Nodes = {"draft", "giveup", "hint", "review", "ship"}
  Node <- Cycle
  MaxRuns = 7
  HasTimeout = TRUE
  Outputs = {"ship"}
INVARIANTS
  TypeOK
  CapacityRespected
  NoDuplicateActivation
  WorkConserving
  RunLimits
  RunsAccounted
PROPERTIES
  LatchCoalesces
  FatalRunHalts
