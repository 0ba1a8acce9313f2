SPECIFICATION FairSpec
CONSTANTS
  p1 = p1  p2 = p2  g1 = g1  g2 = g2
  Page = {p1, p2}
  Granule = {g1, g2}
  GranuleOf <- TwoPages
  File = {f1, f2}
  Area = {v1, v2}
  Free = Free
CHECK_DEADLOCK FALSE
INVARIANTS
  MappedIsPrepared
  ReferencedExists
  ObjectLifetime
PROPERTIES
  ReleaseReturns
