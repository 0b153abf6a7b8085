SPECIFICATION TimelySpec
CONSTANTS
  Task = {t1}
  NoTask = NoTask
  Capacity = 2
  Result <- SomeResults
  Width = 4
  SubmitFails = FALSE
  OneThread = FALSE
  MaxOps = 1
PROPERTIES Delivered
CHECK_DEADLOCK FALSE
