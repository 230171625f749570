SPECIFICATION Spec
CONSTANTS
  Templates = {t1, t2}
  ErrCap = 1
  SigCap = 1
  MaxSignals = 2
INVARIANT NoPanic
CHECK_DEADLOCK FALSE
