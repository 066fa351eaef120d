SPECIFICATION Spec
CONSTANTS
  A = A
  B = B
  Paths <- MCPaths
  EntryCount = 2
  MaxExtents = 2
  DataStart = 1
  DiskSectors = 5
  SectorBytes = 1
  FileMax = 3
  FdCount = 1
  MaxWrite = 1
  MaxFaults = 1
  Cut <- MCCut
  Shared = TRUE
  Byte = 0
  Junk = 0
INVARIANTS
  TypeOK
  FilesDisjoint
  InDataArea
  SizeCovered
  NamesUnique
  NoOrphanFile
