SPECIFICATION MCSpec
CONSTANTS
  Clients = {"commit"}
  Terminals = {"t1", "t2"}
  Paths = {"p"}
  TerminalOf <- OwnTerminal
  PathOf <- OwnPath
  Typed = {}
  HasWorkflow = FALSE
  MaxFailures = 0
  MaxStray = 1
INVARIANTS
  RequestHasTab
CHECK_DEADLOCK FALSE
