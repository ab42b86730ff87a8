CONSTANTS
  Size = 4
  CountMod = 16
  MaxChunk = 3
  MaxBytes = 9
  FileFails = TRUE
  CallerCaps = FALSE
SPECIFICATION Spec
INVARIANTS
  ReadsWritten
