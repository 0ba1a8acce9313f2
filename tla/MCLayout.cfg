SPECIFICATION LayoutSpec
CONSTANTS
  Word = 64
  SectorSize = {4}
  MaxRead = 16
  Page = 8
  Granule = 16
  MaxPages = 3
  Aperture <- MCAperture
  Mappings = {8, 16}
  MaxQueues = 3
  NetworkQueues = 2
  StorageQueues = 2
  StorageRequired = 1
  MaxSize = 2
  DiskBytes = 20
  DiskSector = 4
  Requests <- MCRequests
  Addresses <- MCAddresses
  Lengths <- MCLengths
INVARIANTS
  GrantSound
  ActivationSound
  ReadInBounds
