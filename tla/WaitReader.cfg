SPECIFICATION Spec
CONSTANTS
  l1 = l1
  r1 = r1
  Task = {l1, r1}
  Orphan = {}
  SideOf <- OneEach
  MaxHead = 1
  IoUring = FALSE
  WakesAll = FALSE
  Timeouts = TRUE
  WeakFails = FALSE
INVARIANT ReadersWoken
