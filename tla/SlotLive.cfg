SPECIFICATION FairSpec
CONSTANTS
  p1 = p1
  p2 = p2
  p3 = p3
  c1 = c1
  c2 = c2
  c3 = c3
  NRings = 1
  Configured <- AllSlots
  Proc = {p1, p2}
  Pid = {c1, c2}
  PidOf <- TwoPids
  Fd = {f1, f2}
  Open = Open
  Server = Server
  NoEntry = NoEntry
  WeakFails = FALSE
PROPERTIES TrackedEvicted CrashedEvicted LeftReadvertised
