SPECIFICATION StopSpec
CONSTANTS
  None = None
  c = c
  Runs = {"r2", "r3"}
  Runners = {"w"}
  Workers = {"w"}
  Callers = {c}
  RunnerOf <- OwnRunner
  Priority <- Urgent
  Suited <- Picky
  MaxCrashes = 1
PROPERTIES
  QueuedIsDispatched
  CancelReachesWorker
