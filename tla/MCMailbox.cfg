SPECIFICATION FairSpec
CONSTANT MaxSeq = 3
CHECK_DEADLOCK FALSE
INVARIANTS
  NoAccessAfterRemove
  DeliveredOnce
PROPERTIES
  NoLostWakeup
  RemoveCompletes
