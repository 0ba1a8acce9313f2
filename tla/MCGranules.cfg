SPECIFICATION FairSpec
CONSTANTS
  c1 = c1  c2 = c2
  i1 = i1  i2 = i2
  g1 = g1  g2 = g2  g3 = g3
  NoGranule = NoGranule
  Grant <- TwoGrants
  Index <- TwoIndices
  Granule <- ThreeGranules
  Batch = 1
INVARIANTS
  OwnedStaysUsable
  UsersAccounted
  ExclusiveClaim
  PinnedStaysMapped
PROPERTIES
  PutReturns
