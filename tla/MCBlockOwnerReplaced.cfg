SPECIFICATION Spec
CONSTANTS
  Word = 3
  SectorSize = {1}
  MaxRead = 2
  Device = {d1, d2}
  Client = {c1, c2}
  ReadOnlyDisk = {d2}
  Bytes = 2
  Sector = 1
  MaxDisks = 2
  MaxSequence = 2
  MaxFaults = 2
SYMMETRY Symmetry
INVARIANT ReplacementNotSelected
CHECK_DEADLOCK FALSE
