SPECIFICATION Spec
CONSTANTS
  home = home
  other = other
  Ip = {home, other}
  Whitelist = {other}
  Cidr = {"wide", "narrow"}
  InRange <- MCInRange
  c1 = c1
  c2 = c2
  Conn = {c1, c2}
  MaxPending = 1
  MaxFailures = 2
  FailureWindow = 1
  BaseBan = 1
  MaxBan = 2
  MaxRanges = 1
  MaxOrders = 2
  MaxNow = 3
  Home = home
  Handle = {a}
  Value = {v, w}
  Mask = {m, n}
  Valid = {m}
  MaxFrames = 1
  MaxChanges = 3
INVARIANTS AuthHolds SharingHolds
CHECK_DEADLOCK FALSE
SYMMETRY Conns
