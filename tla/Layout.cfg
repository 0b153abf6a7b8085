SPECIFICATION Spec
CONSTANTS
  Page = 4
  HeadSize = 2
  InfoSize = 2
  Align = 2
  RingHeadSize = 2
  Bits = 7
  Word = 128
  FileSizes <- SomeFiles
  Configs <- AtMostTwo
  Client = {c1, c2}
  Bases = {4, 8}
INVARIANTS TypeOK OpenedComplete JoinedInside JoinedApart ServedIsUsable AssertionsHold
CHECK_DEADLOCK FALSE
