CONSTANTS
  Size = 5
  CountMod = 16
  MaxChunk = 3
  MaxBytes = 12
  FileFails = TRUE
  CallerCaps = TRUE
  BufSize = 3
  UngetSize = 1
  Uint8 = 16
  MaxSize = 4
  MaxCall = 4
  Careful = TRUE
  BufDim = 2
  MaxPrinted = 5
  MaxWritten = 9
SPECIFICATION BuffersSpec
INVARIANTS
  TypeOK
  CountAccounts
  BytesInPlace
  BuffersAgree
PROPERTIES
  FifoSpec
  AllReachFile
