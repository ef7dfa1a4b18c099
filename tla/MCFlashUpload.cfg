SPECIFICATION Spec
CONSTANTS
  boot = boot
  user1 = user1
  user2 = user2
  D0 = D0
  D1 = D1
  Zero = Zero
  Blank = Blank
  Magic = Magic
  Delim = Delim
  Json = Json
  Junk = Junk
  NULL = NULL
  Name <- MCName
  Byte <- MCByte
  Table <- MCTable
  BinName <- MCBinName
  Digit <- MCDigit
  Upload <- MCUpload
  SectorSize = 2
  LastSector = 3
  W = 8
  MaxMeta = 3
  MaxBody = 16
  HeaderOnly = FALSE
  MaxUploads = 4
  MaxFaults = 1
INVARIANTS CommitIsWhole SuccessLeavesClosed DataHasRegion JsonSkipped 
PROPERTY RunningImageUntouched
