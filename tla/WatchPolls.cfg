SPECIFICATION FairSpec
CONSTANTS
  N = 1
  Files = {1, 2}
  Existing = {}
  Configs <- EachOrBatch
  Started <- EachFirst
  NoWatch = NoWatch
  GlobalLimit = 2
  Requests = {"p"}
  Edits <- ReplaceOrDrop
  MaxChanges = 3
INVARIANTS
  TypeOK
  GlobalLimitHeld
  OwnLimitHeld
  OverflowDropsOldest
  InOrder
PROPERTIES
  ChangeIsNoticed
  QueueDrains
