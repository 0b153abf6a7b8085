SPECIFICATION Spec
CONSTANTS
  Count = 2
  Modulus = 7
  Msg = {m1, m2}
  NoMsg = NoMsg
  Producing <- OnlyLeft
  MaxMsgs = 6
INVARIANTS TypeOK UnreadIntact NoDataRace ReadInOrder
PROPERTIES ImplementsChannel
