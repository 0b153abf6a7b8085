SPECIFICATION Spec
CONSTANTS
  p1 = p1
  p2 = p2
  p3 = p3
  c1 = c1
  c2 = c2
  c3 = c3
  NRings = 2
  Configured <- AllButOne
  Proc = {p1, p2, p3}
  Pid = {c1, c2, c3}
  PidOf <- OwnPids
  Fd = {f1, f2}
  Open = Open
  Server = Server
  NoEntry = NoEntry
  WeakFails = TRUE
INVARIANTS TypeOK HeldIsOwned NotLiedTo
PROPERTIES ImplementsLease
SYMMETRY Symmetry
