SPECIFICATION Spec
CONSTANT Devices = {"sensors"}
CONSTANTS
  PlugCycles = 2
  SwitchFilter = 5
  Gangs = {1, 2} GangFilter = 3 GangWord = 4
  BadgeColumns = 2 BadgeTest = 3 BadgeChains = 2
  LedSide = 2 LedMax = 2 LedText = 3 LedWord = 16
  SensorByte = 4 DhtFaultAt = 8 PingFaultAt = 6 SensorRefresh = {0, 1, 4} SensorEach = 2
  MaxTemp = 3 TempFactor = 2 TempEach = 1 TempThreshold = 1 TempCount = 4
  MeterHeld = 2 MeterWire = 4
  FingerSends = 2 FingerWire = 1
  LastAddress = 2 ScanAsks = 2
  Conns = {"c1", "c2"} Secure = {"c2"} MaxOwed = 2
  Requests <- MCRequest MaxPacket = 3 MaxRequests = 2 NoConn = "none"
  Sockets = {"s1", "s2"} MaxFrame = 3 MaxPart = 2
  StoredValues = {"a", "b"}
  Registers = {"a", "b"} MaxCount = 5 MaxPower = 3 PowerThreshold = 1 MaxWrites = 2
  MaxAdc = 7 EmptyAt = 2 FullAt = 6 Percent = 4 AdcShift = 1 BatteryCount = 1
  AdcThresholds = {0, 2} AdcEachs = {0, 2} GaugeBits = 2
  EchoPins = {0, 12} ClockBits = 3 EchoPeriod = 3 LeastEcho = 1
  RfidBuffer = 5 RfidTags <- MCTags RfidLeds = 2
  DebugBuffer = 5 SerialFifo = 3 SerialIn = 6
INVARIANT FaultIsTold
CHECK_DEADLOCK FALSE
