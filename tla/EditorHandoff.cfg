SPECIFICATION MCSpec
CONSTANTS
  Clients = {"commit", "rebase"}
  Terminals = {"t1", "t2"}
  Paths = {"p", "q"}
  TerminalOf <- OwnTerminal
  PathOf <- OwnPath
  Typed = {"x", "y"}
  HasWorkflow = TRUE
  MaxFailures = 1
  MaxStray = 1
INVARIANTS
  TypeOK
  RequestsTracked
PROPERTIES
  AnswersStand
  StrandedOnlyByOpening
  HandoffSaved
  GitReturns
CHECK_DEADLOCK FALSE
