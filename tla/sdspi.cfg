SPECIFICATION CardSpec
CONSTANTS
  Sectors = 3
  Data = {d1, d2}
  MaxSectors = 2
  Retries = FALSE
INVARIANTS
  TypeOK
  StreamAgrees
  BusReleased
  SdioAgrees
  ErrorsReported
PROPERTIES
  DeviceSpec
