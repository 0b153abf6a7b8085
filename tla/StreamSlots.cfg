SPECIFICATION Spec
CONSTANTS
  Size = 4
  Count = 2
  Permits = 2
  MaxFrame = 1
  Flushing = FALSE
  MaxBytes = 4
  MaxFlushes = 0
INVARIANTS NoPanic
