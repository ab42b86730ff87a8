CONSTANTS
  m_lastCluster = 5
  EOC = 99
  f1 = f1
  f2 = f2
  File <- MCFile
  NoFile = NoFile
  MayFail = TRUE
SYMMETRY FileSymmetry
SPECIFICATION Spec
INVARIANTS
  TypeOK
  NoCrossLinks
  CountExact
  SearchReaches
PROPERTIES
  Isolation
