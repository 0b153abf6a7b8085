SPECIFICATION Spec
CONSTANTS
  l1 = l1
  r1 = r1
  Task = {l1, r1}
  Orphan = {}
  SideOf <- OneEach
  MaxHead = 2
  IoUring = FALSE
  WakesAll = TRUE
  Timeouts = TRUE
  WeakFails = FALSE
INVARIANT LockersWoken
