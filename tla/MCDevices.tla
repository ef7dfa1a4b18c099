----------------------------- MODULE MCDevices -----------------------------
(***************************************************************************)
(* Every module of the firmware that keeps to itself, side by side: device *)
(* says which of them a behaviour is of, and v1, v2 ... are its variables. *)
(* A property of the run is one that several of them promise, each in its  *)
(* own way.                                                                *)
(***************************************************************************)
EXTENDS Integers, Sequences

CONSTANTS
  Devices,                                   \* those to check
  PlugCycles,                                \* of PlugRelay
  SwitchFilter,                              \* of Switch1
  Gangs, GangFilter, GangWord,               \* of Switch2
  BadgeColumns, BadgeTest, BadgeChains,      \* of Badge
  LedSide, LedMax, LedText, LedWord,         \* of Led8x8
  SensorByte, DhtFaultAt, PingFaultAt, SensorRefresh, SensorEach,   \* of Sensors
  MaxTemp, TempFactor, TempEach, TempThreshold, TempCount,          \* of Thermo
  MeterHeld, MeterWire,                      \* of EmtrLink
  FingerSends, FingerWire,                   \* of FingerLink
  LastAddress, ScanAsks,                     \* of DeviceScan
  Conns, Secure, MaxOwed,                    \* of HttpReceive and HttpDispatch
  Requests, MaxPacket, MaxRequests, NoConn,
  Sockets, MaxFrame, MaxPart,                \* of WsReceive
  StoredValues,                                                     \* of ConfigStore
  Registers, MaxCount, MaxPower, PowerThreshold, MaxWrites,         \* of EmtrRegisters
  MaxAdc, EmptyAt, FullAt, Percent, AdcShift, BatteryCount, AdcThresholds, AdcEachs, GaugeBits,
                                             \* of Gauges
  EchoPins, ClockBits, EchoPeriod, LeastEcho, \* of PingEcho
  RfidBuffer, RfidTags, RfidLeds,            \* of RfidReader
  DebugBuffer, SerialFifo, SerialIn          \* of SerialPort

\* A blink cycle may be pending; a filter has a reading between its ends.
ASSUME PlugAssumption == PlugCycles \in Nat \ {0}
ASSUME SwitchAssumption == SwitchFilter \in Nat /\ SwitchFilter >= 2
ASSUME GangAssumption ==
  GangFilter \in Nat /\ GangFilter >= 2 /\ GangWord \in Nat /\ GangWord >= 2

\* The bytes that count readings count some.
ASSUME SensorAssumption == SensorByte \in Nat /\ SensorByte >= 2

\* A line holds what waits for it: the command a start begins with.
ASSUME LinesAssumption == MeterHeld \in Nat \ {0} /\ FingerSends \in Nat

\* A text has columns, and the test of the display more than one step.
ASSUME BadgeAssumption ==
  BadgeColumns \in Nat /\ BadgeTest \in Nat /\ BadgeTest >= 2 /\ BadgeChains \in Nat

\* A module has columns; the counter holds a text's columns and the display's.
ASSUME LedAssumption ==
  /\ LedSide \in Nat \ {0} /\ LedMax \in Nat \ {0} /\ LedText \in Nat /\ LedWord \in Nat
  /\ LedText + LedMax * LedSide < LedWord

\* A filter divides by something; thresholds are unsigned.
ASSUME ThermoAssumption ==
  /\ MaxTemp \in Nat /\ TempFactor \in Nat \ {0} /\ TempThreshold \in Nat
  /\ TempCount \in Nat \ {0}
ASSUME RegistersAssumption ==
  /\ MaxPower \in Nat /\ PowerThreshold \in Nat
  /\ MaxCount \in Nat /\ MaxCount >= 2

\* What can be set is not what stands for a sector or a request without settings.
ASSUME StoreAssumption ==
  StoredValues \cap {"defaults", "off", "zeros", "blank", "torn", "nothing", "none"} = {}

\* One request is the longest; what stands for no connection is none.
ASSUME ReceiveAssumption ==
  /\ MaxPacket \in Nat /\ MaxRequests \in Nat /\ NoConn \notin Conns
  /\ Requests \subseteq [size : Nat \ {0}, streams : BOOLEAN]
  /\ \E r \in Requests : \A q \in Requests : q.size <= r.size

\* A client sends some requests before it is answered, or none.
ASSUME DispatchAssumption == MaxOwed \in Nat

\* A frame has a length, and a packet something in it.
ASSUME FramesAssumption == MaxFrame \in Nat /\ MaxPart \in Nat \ {0}

\* There is an address to try.
ASSUME ScanAssumption == LastAddress \in Nat \ {0} /\ ScanAsks \in Nat

\* The counters of polls hold what they are compared with (uint8 adc_each, and
\* BATTERY_FILTER_COUNT of 10); and a power of two is a number.
ASSUME GaugeAssumption ==
  /\ MaxAdc \in Nat /\ 2^AdcShift \in Nat \ {0} /\ 2^GaugeBits \in Nat
  /\ BatteryCount \in Nat /\ BatteryCount + 1 < 2^GaugeBits
  /\ AdcEachs \subseteq 0..(2^GaugeBits - 1) /\ AdcThresholds \subseteq Nat
  /\ EmptyAt \in Nat /\ FullAt \in Nat /\ Percent \in Nat

\* The characters of a tag are none that begin or end a line; and none is "?",
\* which stands for a tag that is none.
ASSUME RfidAssumption ==
  /\ RfidBuffer \in Nat /\ RfidBuffer >= 3 /\ RfidLeds \in Nat
  /\ \A t \in RfidTags : t \in Seq(STRING \ {"-", "cr", "lf", "?"})

\* The buffer of debug messages takes a character and their end.
ASSUME SerialAssumption == DebugBuffer \in Nat /\ DebugBuffer >= 2 /\ SerialFifo \in Nat

\* The pins are numbers, and a measurement lasts less than the clock runs over in.
ASSUME PingAssumption ==
  /\ EchoPins \subseteq Nat /\ 2^ClockBits \in Nat
  /\ EchoPeriod \in Nat /\ EchoPeriod < 2^ClockBits

MCRequest == {[size |-> 1, streams |-> FALSE], [size |-> 2, streams |-> FALSE],
              [size |-> 2, streams |-> TRUE],
              [size |-> 3, streams |-> TRUE], [size |-> 3, streams |-> FALSE]}

MCTags == {<<"a">>, <<"b", "a", "b", "a">>}

VARIABLES device, v1, v2, v3, v4, v5, v6, v7, v8, v9, v10, v11, v12, v13, v14, v15

vars == <<device, v1, v2, v3, v4, v5, v6, v7, v8, v9, v10, v11, v12, v13, v14, v15>>

Plug == INSTANCE PlugRelay WITH
    MaxCycles <- PlugCycles,
    relay_state <- v1, relay_timer <- v2, blinking <- v3, phase <- v4, cycles <- v5, led <-
    v6, told <- v7
One == INSTANCE Switch1 WITH
    Filter <- SwitchFilter,
    relay <- v1, timer <- v2, switch <- v3, state_buf <- v4, level <- v5, event_timer <- v6,
    told <- v7
Two == INSTANCE Switch2 WITH
    Gang <- Gangs, Filter <- GangFilter, W <- GangWord,
    relay <- v1, switch <- v2, state_buf <- v3, level <- v4, event_timer <- v5, told <- v6
Keys == INSTANCE Buttons WITH
    pin <- v1, intr <- v2, status <- v3, key_level <- v4, is_long <- v5, key_press <- v6,
    key_5s <- v7, key_50ms <- v8, sampled <- v9, report <- v10, closing <- v11, restoring <-
    v12
Panel == INSTANCE Badge WITH
    Columns <- BadgeColumns, TestSteps <- BadgeTest, MaxChains <- BadgeChains,
    scroll <- v1, text <- v2, accepted <- v3, battery_update <- v4, anim <- v5, test <- v6,
    tail <- v7, screen <- v8
Led == INSTANCE Led8x8 WITH
    Side <- LedSide, Max <- LedMax, MaxText <- LedText, U <- LedWord,
    asked <- v1, dims <- v2, buffer <- v3, busy <- v4, x <- v5, i <- v6, size <- v7, answer <-
    v8, ended <- v9
Dio == INSTANCE DioPins WITH
    type <- v1, inverse <- v2, init <- v3, on <- v4, off <- v5, bound <- v6, trig <- v7, level
    <- v8, timer <- v9, timer_run <- v10, state <- v11, state_old <- v12, state_new <- v13,
    history <- v14
Sens == INSTANCE Sensors WITH
    W <- SensorByte, FaultAt <- DhtFaultAt, PingAt <- PingFaultAt, Refresh <- SensorRefresh,
    Each <- SensorEach,
    kind <- v1, refresh <- v2, limits <- v3, hum <- v4, timer <- v5, errCount <- v6, count <-
    v7, fault <- v8, val <- v9, old <- v10, notified <- v11, class <- v12, failing <- v13,
    stale <- v14, told <- v15
Temp == INSTANCE Thermo WITH
    MaxT <- MaxTemp, Factor <- TempFactor, Each <- TempEach, Threshold <- TempThreshold,
    CountTo <- TempCount,
    reading <- v1, first <- v2, raw <- v3, old <- v4, count <- v5, told <- v6, poll <- v7,
    fresh <- v8
Bus == INSTANCE I2cBus WITH
    W <- 3, InitClocks <- 13, Data <- {2, 5},
    sda <- v1, scl <- v2, ops <- v3, halves <- v4, slave <- v5, bits <- v6, pull <- v7, out <-
    v8, said <- v9, heard <- v10, sent <- v11, got <- v12, synced <- v13
Mods == INSTANCE I2cModules WITH
    kind <- v1, plugged <- v2, config <- v3, stored <- v4, real <- v5, answer <- v6, told <-
    v7, poll <- v8, missed <- v9
Scan == INSTANCE DeviceScan WITH
    Last <- LastAddress, MaxAsk <- ScanAsks,
    registered <- v1, uart <- v2, present <- v3, done <- v4, current <- v5, timers <- v6,
    found <- v7, waiting <- v8, report <- v9
Emtr == INSTANCE EmtrLink WITH
    MaxHeld <- MeterHeld, MaxWire <- MeterWire,
    state <- v1, packet <- v2, done <- v3, timeout <- v4, held <- v5, read <- v6, boot <- v7,
    uart <- v8, wire <- v9, late <- v10, stalled <- v11, mixed <- v12
Finger == INSTANCE FingerLink WITH
    MaxSends <- FingerSends, MaxWire <- FingerWire,
    packet <- v1, sends <- v2, done <- v3, timeout <- v4, read <- v5, chain <- v6, uart <- v7,
    mode <- v8, buff <- v9, search_enable <- v10, wire <- v11, late <- v12, mixed <- v13, lost
    <- v14
Store == INSTANCE ConfigStore WITH
    Values <- StoredValues,
    ram <- v1, flash <- v2, app_ram <- v3, app_valid <- v4, app_data <- v5, app_head <- v6,
    todo <- v7, asked <- v8, error <- v9, untold <- v10, answer <- v11
Wifi == INSTANCE WifiScan WITH
    scanning <- v1, cache <- v2, clean <- v3, detect <- v4, timers <- v5, auto <- v6, looking
    <- v7, network <- v8, station <- v9, waiting <- v10, failed <- v11, refused <- v12
Recv == INSTANCE HttpReceive WITH
    Conn <- Conns, None <- NoConn, Request <- Requests,
    line <- v1, asked <- v2, sent <- v3, requests <- v4, total <- v5, chunkID <- v6, request
    <- v7, footprint <- v8, chunk <- v9, fed <- v10, ended <- v11, fedSize <- v12, accepted <-
    v13, handled <- v14, broke <- v15
Http == INSTANCE HttpDispatch WITH
    config <- v1, state <- v2, half <- v3, first <- v4, polls <- v5, owed <- v6, http_status
    <- v7, posted <- v8, mixed <- v9, garbled <- v10
Ws == INSTANCE WsReceive WITH
    MaxLen <- MaxFrame, Packet <- MaxPart,
    live <- v1, sending <- v2, total <- v3, chunkID <- v4, footprint <- v5, header <- v6, m <-
    v7, taken <- v8, wrong <- v9, lost <- v10

Regs == INSTANCE EmtrRegisters WITH
    Fields <- Registers, Threshold <- PowerThreshold,
    follows <- v1, mode <- v2, meter <- v3, ram <- v4, known <- v5, asks <- v6,
    writes <- v7, asked <- v8, blank <- v9, output <- v10, last <- v11
Cal == INSTANCE EmtrCalibration WITH
    G <- 6, R <- 2, P <- 9, Least <- 24, Few <- 3, Gains <- {0, 13, 33, 48, 63},
    Expected <- {1, 2, 3, 5, 7, 12}, Measured <- {0, 1, 2, 3, 4, 5, 6, 7, 9, 13,
    14, 23}, FirstRanges <- {0, 22, 85, 228},
    gain <- v1, was <- v2, expected <- v3, measured <- v4, first <- v5,
    new_gain <- v6, range <- v7, shift <- v8, ranges <- v9, before <- v10,
    moved <- v11, turns <- v12, way <- v13, wrapped <- v14
Gauge == INSTANCE Gauges WITH
    MinAt <- EmptyAt, MaxAt <- FullAt, Steps <- Percent, Shift <- AdcShift,
    FilterCount <- BatteryCount, Thresholds <- AdcThresholds, Eachs <- AdcEachs,
    W <- GaugeBits,
    kind <- v1, reading <- v2, charging <- v3, adc <- v4, known <- v5, old <- v6,
    count <- v7, each <- v8, threshold <- v9, range <- v10, away <- v11
Ping == INSTANCE PingEcho WITH
    Pins <- EchoPins, W <- ClockBits, MaxPeriod <- EchoPeriod, Least <- LeastEcho,
    clock <- v1, pin <- v2, line <- v3, armed <- v4, current <- v5, started <- v6,
    ended <- v7, stamp0 <- v8, stamp1 <- v9, pc <- v10, timeOutAt <- v11,
    spent <- v12, rose <- v13, response <- v14
Rfid == INSTANCE RfidReader WITH
    BufferLen <- RfidBuffer, MaxLed <- RfidLeds, Tags <- RfidTags,
    follows <- v1, buff <- v2, mod <- v3, boot <- v4, wire <- v5, lost <- v6,
    set <- v7, timers <- v8, reader <- v9, posted <- v10, told <- v11,
    spoilt <- v12
Serial == INSTANCE SerialPort WITH
    BufferLen <- DebugBuffer, Fifo <- SerialFifo, MaxIn <- SerialIn,
    follows <- v1, written <- v2, sent <- v3, last <- v4, mixed <- v5, buff <- v6,
    timer <- v7, cut <- v8, fifo <- v9, came <- v10, taken <- v11, overrun <- v12,
    enabled <- v13, posted <- v14, listener <- v15

(* The variables from the n-th on, of which a device with fewer makes no use. *)
Idle15 == v15 = 0
Idle14 == v14 = 0 /\ Idle15
Idle13 == v13 = 0 /\ Idle14
Idle12 == v12 = 0 /\ Idle13
Idle11 == v11 = 0 /\ Idle12
Idle10 == v10 = 0 /\ Idle11
Idle9 == v9 = 0 /\ Idle10
Idle8 == v8 = 0 /\ Idle9
Idle7 == v7 = 0 /\ Idle8

Left15 == <<v15>>
Left14 == <<v14, Left15>>
Left13 == <<v13, Left14>>
Left12 == <<v12, Left13>>
Left11 == <<v11, Left12>>
Left10 == <<v10, Left11>>
Left9 == <<v9, Left10>>
Left8 == <<v8, Left9>>
Left7 == <<v7, Left8>>

Init ==
  /\ device \in Devices
  /\ \/ device = "plug" /\ Plug!Init /\ Idle8
     \/ device = "switch1" /\ One!Init /\ Idle8
     \/ device = "switch2" /\ Two!Init /\ Idle7
     \/ device = "keys" /\ Keys!Init /\ Idle13
     \/ device = "badge" /\ Panel!Init /\ Idle9
     \/ device = "led8x8" /\ Led!Init /\ Idle10
     \/ device = "dio" /\ Dio!Init /\ Idle15
     \/ device = "sensors" /\ Sens!Init
     \/ device = "thermo" /\ Temp!Init /\ Idle9
     \/ device = "i2c" /\ Bus!Init /\ Idle14
     \/ device = "modules" /\ Mods!Init /\ Idle10
     \/ device = "scan" /\ Scan!Init /\ Idle10
     \/ device = "emtr" /\ Emtr!Init /\ Idle13
     \/ device = "finger" /\ Finger!Init /\ Idle15
     \/ device = "config" /\ Store!Init /\ Idle12
     \/ device = "wifi" /\ Wifi!Init /\ Idle13
     \/ device = "receive" /\ Recv!Init
     \/ device = "dispatch" /\ Http!Init /\ Idle11
     \/ device = "frames" /\ Ws!Init /\ Idle11
     \/ device = "emtrregs" /\ Regs!Init /\ Idle12
     \/ device = "calibration" /\ Cal!Init /\ Idle15
     \/ device = "gauges" /\ Gauge!Init /\ Idle12
     \/ device = "ping" /\ Ping!Init /\ Idle15
     \/ device = "rfid" /\ Rfid!Init /\ Idle13
     \/ device = "serial" /\ Serial!Init

Next ==
  /\ UNCHANGED device
  /\ \/ device = "plug" /\ Plug!Next /\ UNCHANGED Left8
     \/ device = "switch1" /\ One!Next /\ UNCHANGED Left8
     \/ device = "switch2" /\ Two!Next /\ UNCHANGED Left7
     \/ device = "keys" /\ Keys!Next /\ UNCHANGED Left13
     \/ device = "badge" /\ Panel!Next /\ UNCHANGED Left9
     \/ device = "led8x8" /\ Led!Next /\ UNCHANGED Left10
     \/ device = "dio" /\ Dio!Next /\ UNCHANGED Left15
     \/ device = "sensors" /\ Sens!Next
     \/ device = "thermo" /\ Temp!Next /\ UNCHANGED Left9
     \/ device = "i2c" /\ Bus!Next /\ UNCHANGED Left14
     \/ device = "modules" /\ Mods!Next /\ UNCHANGED Left10
     \/ device = "scan" /\ Scan!Next /\ UNCHANGED Left10
     \/ device = "emtr" /\ Emtr!Next /\ UNCHANGED Left13
     \/ device = "finger" /\ Finger!Next /\ UNCHANGED Left15
     \/ device = "config" /\ Store!Next /\ UNCHANGED Left12
     \/ device = "wifi" /\ Wifi!Next /\ UNCHANGED Left13
     \/ device = "receive" /\ Recv!Next
     \/ device = "dispatch" /\ Http!Next /\ UNCHANGED Left11
     \/ device = "frames" /\ Ws!Next /\ UNCHANGED Left11
     \/ device = "emtrregs" /\ Regs!Next /\ UNCHANGED Left12
     \/ device = "calibration" /\ Cal!Next /\ UNCHANGED Left15
     \/ device = "gauges" /\ Gauge!Next /\ UNCHANGED Left12
     \/ device = "ping" /\ Ping!Next /\ UNCHANGED Left15
     \/ device = "rfid" /\ Rfid!Next /\ UNCHANGED Left13
     \/ device = "serial" /\ Serial!Next

Spec == Init /\ [][Next]_vars
-----------------------------------------------------------------------------
\* Each module's variables keep their types.
TypesOK ==
  /\ device = "plug" => Plug!TypeOK
  /\ device = "switch1" => One!TypeOK
  /\ device = "switch2" => Two!TypeOK
  /\ device = "keys" => Keys!TypeOK
  /\ device = "badge" => Panel!TypeOK
  /\ device = "led8x8" => Led!TypeOK
  /\ device = "dio" => Dio!TypeOK
  /\ device = "sensors" => Sens!TypeOK
  /\ device = "thermo" => Temp!TypeOK
  /\ device = "i2c" => Bus!TypeOK
  /\ device = "modules" => Mods!TypeOK
  /\ device = "scan" => Scan!TypeOK
  /\ device = "emtr" => Emtr!TypeOK
  /\ device = "finger" => Finger!TypeOK
  /\ device = "config" => Store!TypeOK
  /\ device = "wifi" => Wifi!TypeOK
  /\ device = "receive" => Recv!TypeOK
  /\ device = "dispatch" => Http!TypeOK
  /\ device = "frames" => Ws!TypeOK
  /\ device = "emtrregs" => Regs!TypeOK
  /\ device = "calibration" => Cal!TypeOK
  /\ device = "gauges" => Gauge!TypeOK
  /\ device = "ping" => Ping!TypeOK
  /\ device = "rfid" => Rfid!TypeOK
  /\ device = "serial" => Serial!TypeOK

\* What was set for a time is ended by a timer, and by nothing else: a timed
\* relay is on, a pulse that is on will go off, and the plug's LED shows its
\* relay again when it has blinked.
TimedIsOn ==
  /\ device = "plug" => Plug!TimedIsOn /\ Plug!LedShowsRelay
  /\ device = "switch1" => One!TimedIsOn
  /\ device = "dio" => Dio!PulseEnds

\* What the listeners were told last is what is: a change of a relay, a
\* switch, a dimmer, a sensor, a temperature, the battery or the analog input
\* is told or about to be, a reading of the meter is told when the power moved
\* by the threshold, and a tag reader is set to what its module was given.
ListenersKnow ==
  /\ device = "plug" => Plug!ListenersKnow
  /\ device = "switch1" => One!ListenersKnow
  /\ device = "switch2" => Two!ListenersKnow
  /\ device = "modules" => Mods!ListenersKnow
  /\ device = "sensors" => Sens!LimitsTold /\ Sens!NothingUntold
  /\ device = "thermo" => Temp!NoCreep
  /\ device = "emtrregs" => Regs!ReadingTold
  /\ device = "gauges" => Gauge!ToldInTime /\ Gauge!FilterAmong
  /\ device = "rfid" => Rfid!ReaderSet

\* A debounced input that has settled is what its pin is.
FilterAgrees ==
  /\ device = "switch1" => One!FilterAgrees
  /\ device = "switch2" => Two!FilterAgrees
  /\ device = "dio" => Dio!FilterAgrees

\* The polling of a meter or a reader goes on: it is timed, waits to be sent,
\* or waits for its answer or its time-out.
PollGoesOn ==
  /\ device = "emtr" => Emtr!PollGoesOn
  /\ device = "finger" => Finger!PollGoesOn

\* An answer is given to whom it belongs: a callback gets the answer to its
\* own command, a ping its own echo, a tag the line that was read.
Attributed ==
  /\ device = "emtr" => Emtr!Attributed
  /\ device = "finger" => Finger!Attributed
  /\ device = "ping" => Ping!EchoIsMine
  /\ device = "rfid" => Rfid!TagWhole

\* Whoever waits has something to wait for, and is answered once: a scan for
\* networks or devices that runs, an event of the list of long polls, a ping
\* whose echo is lost, a calibration that looks for its gain.
AnswerComes ==
  /\ device = "wifi" => Wifi!AnswerComes /\ Wifi!CacheAges /\ Wifi!LooksOn
  /\ device = "scan" => Scan!ScanAnswers /\ Scan!FoundOnce /\ Scan!ListedOnce
  /\ device = "dispatch" => Http!OneAnswer /\ Http!NoDeadPoll
  /\ device = "ping" => Ping!IdleIsFree /\ Ping!GivesUp
  /\ device = "calibration" => Cal!CalcEnds

\* A request, a frame or a line that comes in parts is handled whole and in
\* order, whatever other connections or writers send in between.
PartsMakeWhole ==
  /\ device = "receive" =>
       Recv!AcceptedIsHandled /\ Recv!DeliveredInOrder /\ Recv!BufferHasRoom
  /\ device = "dispatch" => Http!SplitUnderstood
  /\ device = "frames" => Ws!FrameWhole /\ Ws!LastIsLast
  /\ device = "serial" => Serial!LinesEnd /\ Serial!DebugKept /\ Serial!BytesTaken

\* The settings survive restarts, and torn ones are never taken; a register of
\* the meter is written with what it held or what was asked for, its counter
\* loses nothing, and its calibration moves the one gain it was asked to.
SettingsKept ==
  /\ device = "config" => Store!NeverTorn /\ Store!SurvivesRestart /\ Store!OkIsStored
  /\ device = "emtrregs" => Regs!NeverInvented /\ Regs!CounterKept
  /\ device = "calibration" => Cal!GainInBounds /\ Cal!RangeMatches /\ Cal!OthersLeft

\* The bytes on the I2C bus are those that were meant, and it is let go of.
BusHolds == device = "i2c" => Bus!NothingGarbled /\ Bus!BusIsFreed

\* A text that scrolls is shown whole, to its end, and by one timer.
TextScrolls ==
  /\ device = "badge" => Panel!OneScroll /\ Panel!BatteryComes /\ Panel!TextStays
  /\ device = "led8x8" => Led!LayoutHolds /\ Led!TextWhole /\ Led!EndComes

\* A sensor that cannot be read is told to be faulty before its last value is
\* too old to be served.
FaultIsTold == device = "sensors" => Sens!FaultIsTold

\* No step tells of a press out of turn, answers OK with what a module has
\* not, or moves a temperature past what was read.
StepsHold ==
  [][ /\ device = "keys" => Keys!InTurn
      /\ device = "modules" => Mods!TellsTrue
      /\ device = "thermo" => Temp!Approaches ]_vars
=============================================================================
