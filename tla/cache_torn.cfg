CONSTANTS
  Sector <- MCSector
  FatSector <- MCFatSector
  m_mirrorOffset = 2
  NoSector = 9
  Cell = {a}
  x = x
  y = y
  Val <- MCVal
SYMMETRY ValSymmetry
SPECIFICATION Spec
INVARIANT CachedMeansHeld
