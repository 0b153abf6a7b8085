SPECIFICATION Spec
CONSTANTS
  l1 = l1
  r1 = r1
  Task = {l1, r1}
  Orphan = {g1}
  SideOf <- OneEach
  MaxHead = 1
  IoUring = TRUE
  WakesAll = FALSE
  Timeouts = TRUE
  WeakFails = FALSE
INVARIANTS TypeOK LockAccounted ReadersWoken LockersWoken IndicatorSettles
