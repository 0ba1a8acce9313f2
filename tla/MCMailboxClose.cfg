SPECIFICATION Spec
CONSTANT MaxSeq = 1
CHECK_DEADLOCK FALSE
INVARIANT
  CloseIsNormal
