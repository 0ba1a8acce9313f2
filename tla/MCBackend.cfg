SPECIFICATION FairSpec
CONSTANTS
  t1 = t1  t2 = t2
  Token <- TwoTokens
  Window = Window  None = None
  MaxFaults = 3
CHECK_DEADLOCK FALSE
INVARIANTS
  BorrowedMemory
  UseUnderAdmission
  AdmissionTracked
PROPERTIES
  AtomicOperations
  GrantReturned
