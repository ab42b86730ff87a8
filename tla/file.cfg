CONSTANTS
  m_lastCluster = 4
  EOC = 99
  BytesPerSector = 2
  MaxTransfer = 4
  Retries = FALSE
  SectorsPerCluster = 2
  Word = 10
  Followed = {3, 4, 8}
  IoFails = TRUE
  EarlySetPos = FALSE
  XSectorsPerCluster = 1
  XWord = 64
  XFollowed = {1, 2}
  XMaxTransfer = 3
  MaxOthers = 1
  Devices = {FALSE, TRUE}
SPECIFICATION Spec
INVARIANTS
  TypeOK
  RightCluster
  WrittenInPlace
  ContiguousHolds
  InsideFile
  EntryAgrees
  NothingStale
  NoClusterShared
  SearchReaches
