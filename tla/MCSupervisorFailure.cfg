SPECIFICATION FairSpec
CONSTANTS
  MaxClients = 2
  Macs = {m1}
  None = None
  Unreadable = Unreadable
CHECK_DEADLOCK FALSE
PROPERTY
  FailureTerminates
