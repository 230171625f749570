SPECIFICATION Spec
CONSTANTS
  m1 = m1
  m2 = m2
  cfg = cfg
  svc = svc
  Monitors = {m1}
  Keys = {cfg, svc}
  Naming = {svc}
  KeysOf <- OneTemplate
  ChanCap = 1
  ErrCap = 1
  MaxChanges = 1
  MaxFaults = 2
  MaxCount = 3
INVARIANTS TypeOK FreshWhenQuiet
PROPERTIES Converges Settles
CHECK_DEADLOCK FALSE
