CONSTANTS
  m_lastCluster = 4
  EOC = 99
  BytesPerSector = 2
  SectorsPerCluster = 2
  Word = 10
  Followed = {0, 1, 3, 4, 8}
  MaxTransfer = 4
  IoFails = TRUE
  Retries = TRUE
  EarlySetPos = FALSE
SPECIFICATION Spec
INVARIANT WritesOwnCluster
