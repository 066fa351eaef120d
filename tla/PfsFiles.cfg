SPECIFICATION Spec
CONSTANTS
  A = A
  B = B
  Paths <- MCFlatPaths
  EntryCount = 2
  MaxExtents = 2
  DataStart = 1
  DiskSectors = 4
  SectorBytes = 2
  FileMax = 3
  FdCount = 1
  MaxWrite = 1
  MaxFaults = 0
  Cut <- MCCut
  Shared = FALSE
  Byte = 1
  Junk = 0
PROPERTIES
  FileStoreSpec
SYMMETRY Symmetry
