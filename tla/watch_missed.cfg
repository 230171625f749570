SPECIFICATION Spec
CONSTANTS
  m1 = m1
  m2 = m2
  cfg = cfg
  svc = svc
  Monitors = {m1, m2}
  Keys = {cfg, svc}
  Naming = {svc}
  KeysOf <- TwoTemplates
  ChanCap = 2
  ErrCap = 1
  MaxChanges = 1
  MaxFaults = 0
  MaxCount = 2
INVARIANT FreshIfCounted
CHECK_DEADLOCK FALSE
