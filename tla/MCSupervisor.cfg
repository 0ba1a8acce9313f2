SPECIFICATION FairSpec
CONSTANTS
  MaxClients = 3
  Macs = {m1}
  None = None
  Unreadable = Unreadable
CHECK_DEADLOCK FALSE
INVARIANTS
  ChildrenAccounted
  StopsForCause
  SuccessIsHonest
  ServicesDistinct
PROPERTIES
  FailureStops
