SPECIFICATION Spec
CONSTANTS
  Count = 2
  Modulus = 4
  Msg = {m1, m2}
  NoMsg = NoMsg
  Producing <- OnlyLeft
  MaxMsgs = 6
INVARIANTS UnreadIntact
