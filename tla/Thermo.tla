------------------------------- MODULE Thermo -------------------------------
(***************************************************************************)
(* The thermocouple module MOD-TC-MK2 (modules/mod_tc_mk2.c and            *)
(* user_mod_tc_mk2.c): its readings pass a filter in whole numbers, and a  *)
(* poll raises the temperature when it has left the last one raised by     *)
(* more than a threshold, or has changed at all after some polls.          *)
(***************************************************************************)
EXTENDS Integers

CONSTANTS
  MaxT,       \* readings lie in -MaxT..MaxT
  Factor,     \* MOD_TC_MK2_FILTER_FACTOR
  Each,       \* tc_each
  Threshold,  \* tc_threshold
  CountTo     \* the polls' counter wraps here (2^8)

VARIABLES
  reading,  \* what the module would answer
  first,    \* config_data->first: nothing was read yet
  raw,      \* config_data->raw
  old,      \* old_temperature: the temperature of the last event
  count,    \* polls since then
  told,     \* that event's text: a temperature, or error
  poll,     \* the timer runs
  fresh     \* the last reading was a poll's

vars == <<reading, first, raw, old, count, told, poll, fresh>>

Init ==
  /\ reading \in -MaxT..MaxT
  /\ first = TRUE
  /\ raw = 0 /\ old = 0 /\ count = 0
  /\ told = <<>>
  /\ poll \in BOOLEAN
  /\ fresh = FALSE

\* Division as the code's, towards zero.
Quotient(a, b) == IF a < 0 THEN -((-a) \div b) ELSE a \div b
Distance(a, b) == IF a < b THEN b - a ELSE a - b

(* tc_read: the first reading is taken as it is, the next ones are         *)
(* approached.                                                             *)
Read ==
  /\ first' = FALSE
  /\ raw' = IF first THEN reading ELSE raw + Quotient(reading - raw, Factor)
ReadFails == UNCHANGED <<first, raw>>

(* mod_tc_mk2_event: a poll whose module is not found does nothing; one    *)
(* whose reading fails compares, and may raise, the error.                 *)
mod_tc_mk2_event ==
  /\ poll
  /\ \E ok \in BOOLEAN :
       /\ IF ok THEN Read /\ fresh' = TRUE ELSE ReadFails /\ UNCHANGED fresh
       /\ LET n == (count + 1) % CountTo
          IN  IF Distance(raw', old) > Threshold \/ (n > Each /\ raw' # old)
                THEN count' = 0 /\ old' = raw' /\ told' = (IF ok THEN <<raw'>> ELSE <<>>)
                ELSE count' = n /\ UNCHANGED <<old, told>>
  /\ UNCHANGED <<reading, poll>>

(* mod_tc_mk2_handler; a POST starts the timer, or stops it.               *)
Request ==
  /\ poll' \in BOOLEAN
  /\ \/ Read /\ fresh' = (fresh /\ raw' = raw)
     \/ ReadFails /\ UNCHANGED fresh
  /\ UNCHANGED <<reading, old, count, told>>

Warm ==
  /\ reading' \in -MaxT..MaxT
  /\ UNCHANGED <<first, raw, old, count, told, poll, fresh>>

Next == mod_tc_mk2_event \/ Request \/ Warm

Spec == Init /\ [][Next]_vars
-----------------------------------------------------------------------------
TypeOK ==
  /\ {reading, raw, old} \subseteq -MaxT..MaxT
  /\ count \in 0..(CountTo - 1)
  /\ {first, poll, fresh} \subseteq BOOLEAN

\* After a poll the temperature is no further from the last event's than the
\* threshold: it does not creep away below it.
NoCreep == fresh => Distance(raw, old) <= Threshold

\* The filter settles: what is read again and again is approached, never
\* passed.
Approaches ==
  ~first /\ raw' # raw =>
    Distance(reading, raw') < Distance(reading, raw) /\ (reading > raw <=> raw' > raw)
NoOvershoot == [][Approaches]_vars
=============================================================================
