SPECIFICATION FairSpec
CONSTANTS
  Queue = {q1, q2}
  Token = {t1}
  MaxCalls = 2
CHECK_DEADLOCK FALSE
INVARIANTS
  NoUseAfterRelease
  NoCallStuck
  AllOrNothing
PROPERTIES
  NoSpuriousCall
  RemovalEnds
