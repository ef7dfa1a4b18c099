------------------------------ MODULE WifiScan ------------------------------
(***************************************************************************)
(* Looking for networks (user_wifi_scan.c) and joining one                 *)
(* (user_config_station_connect in user_config.c, the Wi-Fi events of      *)
(* user_events.c).  One scan runs at a time, for whoever asks: requests    *)
(* that wait for its result, and the device itself, when it has no network *)
(* configured and looks for an open one, again and again.  A result is     *)
(* kept for a while and answered from memory.                              *)
(* Timers started without keeping their handle are pending or not: two of  *)
(* a kind do what one does.                                                *)
(***************************************************************************)
EXTENDS Naturals

VARIABLES
  scanning,      \* wifi_scan_in_progress
  cache,         \* there is a wifi_scan_result
  clean,         \* wifi_clean_timeout's timer is pending
  detect,        \* wifi_detect_timeout's is
  timers,        \* others: connecting, detecting
  auto,          \* station_auto_connect
  looking,       \* wifi_auto_connect: it looks for an open network
  network,       \* a network is configured
  station,       \* wifi_station_get_connect_status: idle, connecting, got_ip
  waiting,       \* a request waits for the result
  failed,        \* the scan it waited for failed
  refused        \* the device's scan could not be started

vars == <<scanning, cache, clean, detect, timers, auto, looking, network, station, waiting,
          failed, refused>>

Init ==
  /\ scanning = FALSE /\ cache = FALSE /\ clean = FALSE /\ detect = FALSE
  /\ timers \in {{}, {"station"}}                   \* user_config_load
  /\ auto = ("station" \in timers)
  /\ looking = FALSE
  /\ network \in BOOLEAN
  /\ station = "idle"
  /\ waiting = FALSE /\ failed = FALSE /\ refused = FALSE

Wifi == <<auto, network, station>>

(* wifi_scan_start, when no scan runs: the SDK may refuse *)
ScanStart(started) ==
  /\ clean' = FALSE /\ cache' = FALSE
  /\ scanning' = started

(* wifi_auto_detect, from a timer or when the network goes *)
AutoDetect ==
  IF ~auto THEN UNCHANGED <<scanning, cache, clean, looking, refused>>
  ELSE IF network THEN UNCHANGED <<scanning, cache, clean, looking, refused>>
  ELSE /\ looking' = TRUE
       /\ IF scanning THEN UNCHANGED <<scanning, cache, clean, refused>>
          ELSE \E started \in BOOLEAN : ScanStart(started) /\ refused' = ~started

DetectTimer ==
  /\ \/ detect /\ UNCHANGED timers
     \/ "detect" \in timers /\ timers' = timers \ {"detect"}
  /\ AutoDetect
  /\ detect' = IF auto THEN FALSE ELSE detect /\ "detect" \in timers
  /\ UNCHANGED <<Wifi, waiting, failed>>

(* wifi_scan_handler with wifi_scan_get_result *)
Ask ==
  /\ IF scanning THEN waiting' = TRUE /\ UNCHANGED <<scanning, cache, clean, failed>>
     ELSE IF cache THEN UNCHANGED <<scanning, cache, clean, waiting, failed>>
     ELSE \E started \in BOOLEAN :
            /\ ScanStart(started)
            /\ waiting' = (waiting \/ started)
            /\ failed' = (failed /\ ~started)
  /\ UNCHANGED <<Wifi, detect, timers, looking, refused>>

(* wifi_scan_done: the result is kept, told to the listeners, and used to  *)
(* join an open network.  A scan that failed is told to nobody.            *)
Done ==
  /\ scanning /\ scanning' = FALSE
  /\ \/ /\ detect' = detect
        /\ timers' = IF looking THEN timers \cup {"detect"} ELSE timers
        /\ failed' = waiting
        /\ UNCHANGED <<cache, clean, looking, station, waiting>>
     \/ /\ cache' \in BOOLEAN        \* whether networks were found
        /\ clean' = cache'
        /\ \E open \in BOOLEAN :
             /\ open => cache'
             /\ looking' = (looking /\ ~open)
             /\ detect' = (detect \/ (looking /\ ~open))
             /\ station' = IF looking /\ open THEN "connecting" ELSE station
        /\ waiting' = FALSE /\ failed' = FALSE
        /\ UNCHANGED timers
  /\ UNCHANGED <<auto, network, refused>>

(* wifi_scan_clean, from its timer *)
Clean ==
  /\ clean /\ clean' = FALSE /\ cache' = FALSE
  /\ UNCHANGED <<Wifi, scanning, detect, timers, looking, waiting, failed, refused>>

(* user_config_load, after a change of the settings *)
ConfigLoad(a, n) ==
  /\ auto' = a /\ network' = n
  /\ timers' = timers \cup (IF a THEN {"station"} ELSE IF station # "idle" THEN {"disconnect"} ELSE {})
  /\ UNCHANGED <<scanning, cache, clean, detect, looking, station, waiting, failed, refused>>

(* user_config_station_connect *)
StationConnect ==
  /\ "station" \in timers
  /\ timers' = (timers \ {"station"})
               \cup (IF station = "got_ip" THEN {"disconnect"} ELSE {})
               \cup (IF station # "connecting" THEN {"connect", "detect"} ELSE {})
  /\ UNCHANGED <<Wifi, scanning, cache, clean, detect, looking, waiting, failed, refused>>

(* wifi_station_connect and wifi_station_disconnect, from timers: the SDK *)
(* answers with an event *)
Connect ==
  /\ "connect" \in timers /\ timers' = timers \ {"connect"}
  /\ station' = IF network /\ station = "idle" THEN "connecting" ELSE station
  /\ UNCHANGED <<auto, network, scanning, cache, clean, detect, looking, waiting, failed, refused>>
Disconnect ==
  /\ "disconnect" \in timers /\ timers' = timers \ {"disconnect"}
  /\ UNCHANGED <<Wifi, scanning, cache, clean, detect, looking, waiting, failed, refused>>

(* user_event_wifi: the network is joined, or lost *)
GotIp ==
  /\ station = "connecting" /\ station' = "got_ip"
  /\ UNCHANGED <<auto, network, scanning, cache, clean, detect, timers, looking, waiting, failed, refused>>
Disconnected ==
  /\ station # "idle" /\ station' = "idle"
  /\ AutoDetect
  /\ detect' = (detect /\ ~auto)
  /\ UNCHANGED <<auto, network, timers, waiting, failed>>

Next ==
  \/ DetectTimer \/ Ask \/ Done \/ Clean
  \/ \E a, n \in BOOLEAN : ConfigLoad(a, n)
  \/ StationConnect \/ Connect \/ Disconnect \/ GotIp \/ Disconnected

Spec == Init /\ [][Next]_vars
-----------------------------------------------------------------------------
TypeOK ==
  /\ {scanning, cache, clean, detect, auto, looking, network, waiting, failed, refused} \subseteq BOOLEAN
  /\ timers \subseteq {"station", "detect", "connect", "disconnect"}
  /\ station \in {"idle", "connecting", "got_ip"}

\* A request that waits has a scan to wait for, unless that scan failed: the
\* failure of a scan is told to nobody.
AnswerComes == waiting => scanning \/ failed

\* A result that is kept is going to be thrown away, and a scan that runs
\* finds none in its way, so that its own is kept.
CacheAges == (cache => clean /\ ~scanning) /\ (scanning => ~clean)

\* The device that is to find an open network, and joins none, goes on looking,
\* unless a scan was refused.
LooksOn ==
  looking /\ auto /\ ~network /\ station = "idle" =>
    scanning \/ detect \/ refused \/ timers \cap {"detect", "station"} # {}
=============================================================================
