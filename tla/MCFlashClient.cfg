SPECIFICATION Spec
CONSTANTS
  boot = boot
  user = user
  conf = conf
  x = x
  Zero = Zero
  Blank = Blank
  Magic = Magic
  NULL = NULL
  Name <- MCName
  Byte <- MCByte
  Request <- MCRequest
  Payload <- MCPayload
  SectorSize = 2
  LastSector = 3
  W = 8
  MaxOpens = 2
  MaxBytes = 5
INVARIANTS TypeOK RegionsDisjoint CursorInRegion BufferFits CloseDelivers
PROPERTY StoreSpec
