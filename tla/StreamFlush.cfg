SPECIFICATION FairSpec
CONSTANTS
  Size = 2
  Count = 2
  Permits = 2
  MaxFrame = 2
  Flushing = TRUE
  MaxBytes = 5
  MaxFlushes = 3
INVARIANTS TypeOK NoPanic BytesIntact FlushHonest InboxBounded
PROPERTIES ImplementsStream EndArrives FlushCompletes
