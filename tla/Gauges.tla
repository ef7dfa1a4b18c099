------------------------------- MODULE Gauges -------------------------------
(***************************************************************************)
(* The two things measured with the converter of the chip: the battery     *)
(* (user_battery.c), filtered, as a percentage that is told when it has    *)
(* been another for long enough; and the bare converter (user_adc.c), told *)
(* when it moved far, or at all after some polls.  A build has one.        *)
(***************************************************************************)
EXTENDS Integers

CONSTANTS
  MaxAdc,        \* of a reading
  MinAt, MaxAt,  \* the readings of an empty and of a full battery
  Steps,         \* 100: what a full battery has
  Shift,         \* of the filter
  FilterCount,   \* polls a percentage must have been another for
  Thresholds, Eachs,   \* what a request may set
  W              \* bits of the poll counters (8)

VARIABLES
  kind,       \* "battery" or "adc"
  reading,    \* what system_adc_read gives
  charging,   \* what gpio16_input_get gives
  adc,        \* the filter, -1 at first
  known,      \* battery_state and battery_percent, or state of user_adc.c
  old,        \* old_state: what was told last of the bare converter
  count,      \* of polls
  each, threshold,
  range,      \* the least and the greatest reading the filter was given
  away        \* the polls in a row that saw what was not told

vars == <<kind, reading, charging, adc, known, old, count, each, threshold, range, away>>

Init ==
  /\ kind \in {"battery", "adc"}
  /\ reading \in 0..MaxAdc
  /\ charging = FALSE /\ adc = -1
  /\ known = IF kind = "battery" THEN [state |-> FALSE, percent |-> 0] ELSE 0
  /\ old = 0 /\ count = 0 /\ away = 0
  /\ each \in Eachs /\ threshold \in Thresholds
  /\ range = <<MaxAdc, 0>>

(* The voltage moves a little, or the charger is plugged in or out. *)
World ==
  /\ reading' \in {r \in 0..MaxAdc : r - reading \in {-2, -1, 0, 1, 2}}
  /\ charging' \in IF kind = "battery" THEN BOOLEAN ELSE {FALSE}
  /\ UNCHANGED <<kind, adc, known, old, count, each, threshold, range, away>>
-----------------------------------------------------------------------------
Shifted(n) == n \div 2^Shift

(* battery_adc_filter, after its first reading *)
Filter(was) == was - Shifted(was) + Shifted(reading)

(* battery_adc_filter; whoever asks moves it *)
battery_adc_filter ==
  /\ adc' = Filter(IF adc = -1 THEN reading ELSE adc)
  /\ range' = <<IF reading < range[1] THEN reading ELSE range[1],
                IF reading > range[2] THEN reading ELSE range[2]>>

(* battery_percent_get *)
battery_percent_get ==
  CASE adc' <= MinAt -> 0
    [] adc' >= MaxAt -> Steps
    [] OTHER -> (Steps * (adc' - MinAt)) \div (MaxAt - MinAt)

Counted(differs) == IF differs THEN (count + 1) % 2^W ELSE 0

(* battery_state_get, every second *)
battery_state_get ==
  /\ kind = "battery"
  /\ battery_adc_filter
  /\ LET percent == battery_percent_get
         differs == percent # known.percent
         tells == charging # known.state \/ (differs /\ Counted(differs) > FilterCount)
     IN  IF tells
         THEN known' = [state |-> charging, percent |-> percent] /\ count' = 0 /\ away' = 0
         ELSE /\ count' = Counted(differs)
              /\ away' = IF differs THEN away + 1 ELSE 0
              /\ UNCHANGED known
  /\ UNCHANGED <<kind, reading, charging, old, each, threshold>>

(* battery_handler: the answer is what is known from now on *)
battery_handler ==
  /\ kind = "battery"
  /\ battery_adc_filter
  /\ known' = [state |-> charging, percent |-> battery_percent_get]
  /\ away' = 0
  /\ UNCHANGED <<kind, reading, charging, old, count, each, threshold>>
-----------------------------------------------------------------------------
Apart(a, b) == IF a > b THEN a - b ELSE b - a

(* adc_update, every adc_refresh *)
adc_update ==
  /\ kind = "adc"
  /\ known' = reading
  /\ LET polls == (count + 1) % 2^W
         tells == \/ Apart(known', old) > threshold
                  \/ polls >= each /\ known' # old
     IN  /\ old' = IF tells THEN known' ELSE old
         /\ count' = IF tells THEN 0 ELSE polls
         /\ away' = IF tells \/ known' = old THEN 0 ELSE away + 1
  /\ UNCHANGED <<kind, reading, charging, adc, each, threshold, range>>

(* adc_handler, with adc_read and user_adc_timer_init: the polls counted   *)
(* so far are counted on.                                                  *)
adc_handler ==
  /\ kind = "adc"
  /\ known' = reading
  /\ threshold' \in Thresholds /\ each' \in Eachs
  /\ away' = IF <<threshold, each>>' = <<threshold, each>> THEN away ELSE 0
  /\ UNCHANGED <<kind, reading, charging, adc, old, count, range>>

Next == World \/ battery_state_get \/ battery_handler \/ adc_update \/ adc_handler

Spec == Init /\ [][Next]_vars
-----------------------------------------------------------------------------
TypeOK ==
  /\ reading \in 0..MaxAdc /\ charging \in BOOLEAN
  /\ adc \in -1..MaxAdc
  /\ count \in 0..2^W - 1 /\ old \in 0..MaxAdc
  /\ IF kind = "battery"
     THEN known \in [state : BOOLEAN, percent : 0..Steps]
     ELSE known \in 0..MaxAdc

\* The filtered battery is among what was read, but for the bits that the
\* shifts drop.
FilterAmong ==
  adc # -1 => adc > range[1] - 2^Shift /\ adc < range[2] + 2^Shift

\* A change is told, by an event or an answer, before more polls have missed
\* it in a row than are allowed to.
ToldInTime ==
  IF kind = "battery" THEN away <= FilterCount ELSE away <= each
=============================================================================
