SPECIFICATION FairSpec
CONSTANTS
  Task = {t1, t2}
  NoTask = NoTask
  Capacity = 2
  Result <- SomeResults
  Width = 4
  SubmitFails = TRUE
  OneThread = TRUE
  MaxOps = 2
INVARIANTS TypeOK NobodyForgotten OwnResult MemoryAlive
PROPERTIES ImplementsCalls Delivered
CHECK_DEADLOCK FALSE
