----------------------------- MODULE DeviceScan -----------------------------
(***************************************************************************)
(* The list of devices (user_devices.c) and the scan of the I2C bus that   *)
(* answers it (user_i2c_scan.c): one address a millisecond, the answer     *)
(* sent as an event when the last address was tried.                       *)
(***************************************************************************)
EXTENDS Integers, Sequences, FiniteSets

CONSTANTS
  Last,     \* the last address tried (0x80)
  MaxAsk    \* requests waiting for the answer

VARIABLES
  registered,  \* device_descriptions: the urls
  uart,        \* uart_device
  present,     \* addresses that would answer
  done,        \* i2c_scan_done is set
  current,     \* i2c_current
  timers,      \* i2c_scan is pending so many times
  found,       \* i2c_devices
  waiting,     \* requests left unanswered (status 0)
  report       \* the last answer raised: addresses, and the uart device

vars == <<registered, uart, present, done, current, timers, found, waiting, report>>

Urls == {"rgb", "finger", "emtr"}
UartUrls == {"finger", "emtr"}

Init ==
  /\ registered = <<>>
  /\ uart = "none"
  /\ present \in SUBSET (1..Last)
  /\ done = FALSE /\ current = 1 /\ timers = 0
  /\ found = <<>>
  /\ waiting = 0
  /\ report = <<>>

(* device_register: a url is registered once. *)
device_register(url) ==
  registered' = IF \E i \in 1..Len(registered) : registered[i] = url
                  THEN registered ELSE Append(registered, url)

Register ==
  /\ Len(registered) <= Cardinality(Urls)
  /\ \E url \in Urls : device_register(url)
  /\ UNCHANGED <<uart, present, done, current, timers, found, waiting, report>>

(* device_set_uart, by the driver that finds its module on the port. *)
device_set_uart ==
  /\ uart' \in UartUrls \cup {"none"}
  /\ UNCHANGED <<registered, present, done, current, timers, found, waiting, report>>

\* Mutant: a request during a scan starts another.
i2c_scan_restart == done' = TRUE /\ current' = 1 /\ timers' = timers + 1

(* i2c_scan_start: a scan that runs goes on, and answers everybody. *)
i2c_scan_start ==
  IF done THEN UNCHANGED <<done, current, timers>>
  ELSE done' = TRUE /\ current' = 1 /\ timers' = timers + 1

(* devices_handler leaves the request to the event. *)
devices_handler ==
  /\ waiting < MaxAsk
  /\ waiting' = waiting + 1
  /\ i2c_scan_start
  /\ UNCHANGED <<registered, uart, present, found, report>>

\* Whether devices_scan_result finds a registered device.
DeviceFound(url, i2c) == IF url \in UartUrls THEN uart = url ELSE i2c # <<>>

(* i2c_scan, from its timer; after the last address devices_i2c_done       *)
(* raises the list, and the devices found are freed.                       *)
i2c_scan ==
  /\ timers > 0
  /\ LET all == IF current \in present THEN Append(found, current) ELSE found
     IN  IF current = Last
           THEN /\ report' = <<all, {i \in 1..Len(registered) : DeviceFound(registered[i], all)}>>
                /\ done' = FALSE
                /\ waiting' = 0
                /\ found' = <<>>
                /\ timers' = timers - 1
                /\ current' = current + 1
           ELSE /\ found' = all
                /\ current' = current + 1
                /\ UNCHANGED <<report, done, waiting, timers>>
  /\ UNCHANGED <<registered, uart, present>>

\* A module is plugged in or pulled out.
Replug ==
  /\ \E a \in 1..Last : present' = IF a \in present THEN present \ {a} ELSE present \cup {a}
  /\ UNCHANGED <<registered, uart, done, current, timers, found, waiting, report>>

Next == Register \/ device_set_uart \/ devices_handler \/ i2c_scan \/ Replug

Spec == Init /\ [][Next]_vars
-----------------------------------------------------------------------------
TypeOK ==
  /\ done \in BOOLEAN /\ timers \in Nat /\ waiting \in 0..MaxAsk
  /\ current \in 1..(Last + 1)

\* Whoever waits for the list has a scan under way that has not passed the
\* last address, so its answer comes; and there is one scan, not two that
\* share the address and skip some.
ScanAnswers == waiting > 0 => done /\ timers = 1 /\ current <= Last

\* The addresses found lie behind the one being tried, each once.
FoundOnce == \A i \in 1..Len(found) : found[i] < current /\ \A j \in 1..(i - 1) : found[j] < found[i]

\* A device is listed once.
ListedOnce == \A i, j \in 1..Len(registered) : registered[i] = registered[j] => i = j
=============================================================================
