------------------------------ MODULE Sensors ------------------------------
(***************************************************************************)
(* The sensors read by a timer: temperature and humidity (mb_dht.c),       *)
(* distance (mb_ping.c) and the analog input (mb_ain.c).  They differ in   *)
(* little: a reading tells its listeners when it moved by more than a      *)
(* threshold, or by anything after so many readings; limits are notified   *)
(* once each time they are crossed; readings that fail are counted, and    *)
(* after so many the sensor is told to be at fault and its value dropped.  *)
(* Of the two values of the first sensor the temperature is followed, and  *)
(* of the humidity whether its limits are set.                             *)
(* refresh is in seconds, the analog input's in milliseconds.              *)
(***************************************************************************)
EXTENDS Integers

CONSTANTS
  W,          \* errCount and count are bytes: 0 .. W - 1
  FaultAt,    \* MB_DHT_ERROR_COUNT * 1000 (the same for MB_PING_ERROR_COUNT)
  PingAt,     \* MB_PING_ERROR_COUNT * MB_PING_ERROR_COUNT
  Refresh,    \* the intervals that may be set; 0 stops the timer
  Each

(* Low is 1 and Hi is 5, the threshold 1: 6 is high, 3 within and 2 near *)
Readings == {2, 3, 6}
NoValue == -1                 \* the value's string is empty
Unset == -9                   \* old_state = -999
Fault == -5                   \* what is told of a sensor at fault

VARIABLES
  kind,       \* "dht", "ping" or "ain"
  refresh, limits, hum,   \* settings: limits are evaluated; the humidity's are set
  timer,      \* the timer runs
  errCount, count,
  fault,      \* mb_dht_sensor_fault
  val, old,   \* the reading and old_state
  told,       \* the last event: a value, or the fault
  notified,   \* mb_limits_notified: "init", "hi", "low" or "in"
  class,      \* the limit crossed at the last reading
  failing,    \* readings that failed in a row, up to FaultAt
  stale       \* at the last one they had lasted too long, and no fault was told

vars == <<kind, refresh, limits, hum, timer, errCount, count, fault, val, old, told,
          notified, class, failing, stale>>

Init ==
  /\ kind \in {"dht", "ping", "ain"}
  /\ refresh \in Refresh /\ limits = FALSE /\ hum = FALSE
  /\ timer = FALSE
  /\ errCount = 0 /\ count = 0 /\ fault = FALSE
  /\ val = IF kind = "ain" THEN 0 ELSE NoValue
  /\ old = (IF kind = "dht" THEN Unset ELSE 0) /\ told = Unset
  /\ notified = "init" /\ class = "init"
  /\ failing = 0 /\ stale = FALSE

Distance(a, b) == IF a > b THEN a - b ELSE b - a

(* uhl_which_event *)
uhl_which_event(v) ==
  IF v > 5 THEN "hi" ELSE IF v < 1 THEN "low" ELSE IF v > 2 /\ v < 4 THEN "in" ELSE "init"

(* mb_dht_which_event: the humidity's events are masked with the            *)
(* temperature's instead of joined to them, which leaves neither, unless    *)
(* the humidity is near a limit                                            *)
mb_dht_which_event(v, near) == IF hum' /\ ~near THEN "init" ELSE uhl_which_event(v)

\* What LimitsTold compares with: the limits crossed, unless the humidity's are set.
Crossed == IF limits' /\ ~hum' THEN uhl_which_event(val') ELSE "init"

(* uhl_which_event, or mb_dht_which_event for the humidity's sake *)
Event == IF kind # "dht" THEN {uhl_which_event(val')}
         ELSE {mb_dht_which_event(val', near) : near \in BOOLEAN}

(* The limits, from timer_update; the humidity's variable goes with the    *)
(* temperature's, of whose bits it is made                                 *)
Notify(n) ==
  /\ class' = Crossed
  /\ IF ~limits' THEN notified' = n
     ELSE \E e \in Event : notified' = IF e # "init" THEN e ELSE n

(* mb_dht_set_response, mb_ping_set_response, mb_ain_set_response: what an *)
(* event says; the analog input has no faults.                             *)
mb_dht_set_response(fails) == IF fails THEN Fault ELSE val'
mb_ping_set_response(fails) == IF fails THEN Fault ELSE val'
mb_ain_set_response == val'

\* user_event_raise
Tell(fails) ==
  told' = CASE kind = "dht" -> mb_dht_set_response(fails)
            [] kind = "ping" -> mb_ping_set_response(fails)
            [] kind = "ain" -> mb_ain_set_response

(* A change is told, and a long silence ended *)
Change(c) ==
  IF \/ Distance(val', old) > 1
     \/ c >= Each /\ val' # old
     \/ c = W - 1
    THEN old' = val' /\ count' = 0 /\ Tell(FALSE)
    ELSE UNCHANGED <<old, told>> /\ count' = c

\* A value was read, or the one before goes on being used.
Use(v, c, n) ==
  /\ val' = v /\ fault' = FALSE
  /\ Notify(n) /\ Change(c)

(* dht_read_from_sensor, ping_read_from_sensor, mb_ain_read *)
dht_read_from_sensor == Readings
ping_read_from_sensor == Readings
mb_ain_read == Readings

ReadOk(readings, n) ==
  /\ \E r \in readings : Use(r, count + 1, n)
  /\ errCount' = 0 /\ failing' = 0

(* A reading failed.  The value before is used for a while, then the fault *)
(* is told, once and whenever errCount is about to wrap.                   *)
ReadFails(current, n) ==
  LET errors == (errCount + 1) % W
  IN  /\ failing' = IF failing < FaultAt THEN failing + 1 ELSE failing
      /\ IF ~fault /\ val # NoValue /\ refresh' * errors < current
           THEN Use(val, count, n) /\ errCount' = errors
         ELSE IF ~fault /\ refresh' * errors >= FaultAt
           THEN /\ fault' = TRUE /\ val' = NoValue /\ old' = Unset /\ Tell(TRUE)
                /\ UNCHANGED count /\ notified' = n /\ class' = "init"
                /\ errCount' = 0
         ELSE /\ IF fault /\ errors = W - 1 THEN errCount' = 0 /\ Tell(TRUE)
                 ELSE errCount' = errors /\ UNCHANGED told
              /\ notified' = n /\ class' = "init"
              /\ UNCHANGED <<fault, val, old, count>>

(* With the settings as they are now; n is mb_limits_notified *)
dht_timer_update(n) ==
  kind = "dht" /\ (ReadOk(dht_read_from_sensor, n) \/ ReadFails(FaultAt, n))
ping_timer_update(n) ==
  kind = "ping" /\ (ReadOk(ping_read_from_sensor, n) \/ ReadFails(PingAt, n))
mb_ain_update(n) == kind = "ain" /\ ReadOk(mb_ain_read, n)

Update(n) ==
  /\ dht_timer_update(n) \/ ping_timer_update(n) \/ mb_ain_update(n)
  /\ stale' = (~fault' /\ refresh' * failing' >= FaultAt)

Tick ==
  /\ timer
  /\ UNCHANGED <<kind, refresh, limits, hum, timer>>
  /\ Update(notified)

Quiet == UNCHANGED <<errCount, count, fault, val, old, told, failing, stale>>
Started(start) == start /\ refresh' # 0 /\ timer' = TRUE /\ Update("init")
Stopped(start) == ~(start /\ refresh' # 0) /\ timer' = FALSE /\ Quiet /\ class' = "init"

(* A start reads at once.  A stop keeps mb_limits_notified, which the      *)
(* analog input's and the distance's handlers reset with any command.      *)
mb_dht_timer_init(start) ==
  kind = "dht" /\ (Started(start) \/ (Stopped(start) /\ UNCHANGED notified))
mb_ping_timer_init(start) ==
  kind = "ping" /\ (Started(start) \/ (Stopped(start) /\ notified' = "init"))
mb_ain_timer_init(start) ==
  kind = "ain" /\ (Started(start) \/ (Stopped(start) /\ notified' = "init"))

(* The handlers: settings, and the command to start or stop *)
Settings == refresh' \in Refresh /\ limits' \in BOOLEAN /\ UNCHANGED kind
NoCommand == UNCHANGED <<timer, notified, class>> /\ Quiet
mb_dht_handler ==
  /\ kind = "dht" /\ Settings /\ hum' \in BOOLEAN
  /\ NoCommand \/ \E start \in BOOLEAN : mb_dht_timer_init(start)
mb_ping_handler ==
  /\ kind = "ping" /\ Settings /\ UNCHANGED hum
  /\ NoCommand \/ \E start \in BOOLEAN : mb_ping_timer_init(start)
mb_ain_handler ==
  /\ kind = "ain" /\ Settings /\ UNCHANGED hum
  /\ NoCommand \/ \E start \in BOOLEAN : mb_ain_timer_init(start)

(* mb_dht_init, mb_ping_init and mb_ain_init, with Auto *)
AtStart == ~timer /\ errCount = 0 /\ count = 0 /\ UNCHANGED <<kind, refresh, limits, hum>>
mb_dht_init == AtStart /\ mb_dht_timer_init(TRUE)
mb_ping_init == AtStart /\ mb_ping_timer_init(TRUE)
mb_ain_init == AtStart /\ mb_ain_timer_init(TRUE)

Next ==
  \/ Tick
  \/ mb_dht_handler \/ mb_ping_handler \/ mb_ain_handler
  \/ mb_dht_init \/ mb_ping_init \/ mb_ain_init

Spec == Init /\ [][Next]_vars
-----------------------------------------------------------------------------
TypeOK ==
  /\ refresh \in Refresh /\ {timer, fault, limits, hum, stale} \subseteq BOOLEAN
  /\ errCount \in 0..(W - 1) /\ count \in 0..(W - 1)
  /\ val \in Readings \cup {0, NoValue} /\ old \in Readings \cup {0, Unset}
  /\ told \in Readings \cup {Unset, Fault}

\* A limit that is crossed is notified: the one notified last is the one
\* crossed last.  Not followed when the humidity has limits too.
LimitsTold == class # "init" => notified = class

\* The listeners know: a running sensor's value is never further than the
\* threshold from the one told last, nor different from it for more than Each
\* readings; a fault was told, and stays so until there is a value again.
NothingUntold ==
  /\ timer /\ val # NoValue =>
       Distance(val, told) <= 1 /\ (count >= Each => val = told)
  /\ fault <=> told = Fault

\* A value is not served as current after it could not be read for so long
\* (mb_dht.c: "after some time we do not want to have too old value").
FaultIsTold == ~stale
=============================================================================
