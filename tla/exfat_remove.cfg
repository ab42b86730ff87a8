CONSTANTS
  m_lastCluster = 4
  EOC = 99
  BytesPerSector = 2
  SectorsPerCluster = 1
  Word = 64
  Followed = {0}
  MaxTransfer = 3
  MaxOthers = 2
  Devices = {FALSE}
  Retries = TRUE
SPECIFICATION Spec
PROPERTY
  RemoveKeepsOthers
