SPECIFICATION Spec
CONSTANTS
  Binding = {1, 2}
  Epoch = {1, 2}
  Transaction = {1, 2, 3}
  Primary = "disk"
  NoRecord = NoRecord
CHECK_DEADLOCK FALSE
INVARIANTS
  AtMostOnce
  ResourcesOwned
  RepeatRecognised
PROPERTIES
  SessionMonotone
