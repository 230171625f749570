SPECIFICATION Spec
CONSTANTS
  MaxDepth = 4
INVARIANTS TypeOK NoEmptyPop StopsAtEOF InStep OnlyKnownPanics
PROPERTY ComesToAnEnd
CHECK_DEADLOCK FALSE
