SPECIFICATION Spec
CONSTANTS
  r1 = r1
  r2 = r2
  v = v
  w = w
  c = c
  None = None
  Runs = {r1, r2}
  Runners = {v, w}
  Workers = {v, w}
  Callers = {c}
  RunnerOf <- OwnRunner
  Priority <- Equal
  Suited <- All
  MaxCrashes = 0
INVARIANTS
  OneExecution
