SPECIFICATION Spec
CONSTANTS
  Templates = {t1, t2}
  ErrCap = 1
  SigCap = 1
  MaxSignals = 2
INVARIANTS TypeOK OneTimeIsHonest ClosesHaveCauses
PROPERTIES SignalEnds ReportsAreHeard
CHECK_DEADLOCK FALSE
