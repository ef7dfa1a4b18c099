------------------------------ MODULE PlugRelay ------------------------------
(***************************************************************************)
(* The relay (user_relay.c) of a plug (user_plug.c), whose second LED      *)
(* shows the relay and blinks while there is no Wi-Fi.  A negative state   *)
(* switches the relay on for a time; until then other commands are         *)
(* ignored.  setTimeout is reduced to what is pending.                     *)
(***************************************************************************)
EXTENDS Integers

CONSTANTS
  MaxCycles   \* bound: blink cycles pending when another may be started

Timed == -1   \* stands for the negative states

VARIABLES
  relay_state,
  relay_timer,  \* user_relay_off is pending
  blinking,     \* plug_wifi_blink
  phase,        \* plug_wifi_blink_cycle's static state
  cycles,       \* plug_wifi_blink_cycle calls pending
  led,          \* the level of PLUG_LED2
  told          \* the last state that was answered or raised

vars == <<relay_state, relay_timer, blinking, phase, cycles, led, told>>

\* user_plug_init starts to blink, then user_relay_init reads the pin.
Init ==
  /\ relay_state \in {0, 1}
  /\ relay_timer = FALSE
  /\ blinking = TRUE
  /\ phase = TRUE
  /\ cycles = 1
  /\ led = 1
  /\ told = relay_state

Level(b) == IF b THEN 1 ELSE 0

\* Mutant: what is timed is switched all the same.
SetAnyway(state) ==
  IF state = relay_state THEN UNCHANGED <<relay_state, relay_timer, led>>
  ELSE /\ relay_timer' = (relay_timer \/ state < 0)
       /\ relay_state' = IF state < 0 THEN 1 ELSE IF state > 1 THEN 1 - relay_state ELSE state
       /\ led' = relay_state'

(* user_relay_set *)
Set(state) ==
  IF relay_timer \/ state = relay_state THEN UNCHANGED <<relay_state, relay_timer, led>>
  ELSE /\ relay_timer' = (state < 0)
       /\ relay_state' = IF state < 0 THEN 1 ELSE IF state > 1 THEN 1 - relay_state ELSE state
       /\ led' = relay_state'

(* relay_handler; a body without "Relay" leaves the state it has.  The    *)
(* server raises the answer of every POST as an event.                     *)
Post(state) ==
  /\ Set(state)
  /\ told' = relay_state'
  /\ UNCHANGED <<blinking, phase, cycles>>

(* user_relay_off: the timer is forgotten, then the relay is set to 0. *)
Off ==
  /\ relay_timer
  /\ relay_timer' = FALSE
  /\ relay_state' = 0
  /\ led' = IF relay_state = 0 THEN led ELSE 0
  /\ told' = relay_state'
  /\ UNCHANGED <<blinking, phase, cycles>>

(* plug_wifi_blink_cycle, from its timer *)
Cycle ==
  /\ cycles > 0
  /\ IF blinking THEN phase' = ~ phase /\ led' = Level(~ phase) /\ UNCHANGED cycles
                 ELSE cycles' = cycles - 1 /\ UNCHANGED <<phase, led>>
  /\ UNCHANGED <<relay_state, relay_timer, blinking, told>>

(* plug_wifi_blink_start, when the station is disconnected: a cycle that   *)
(* is still pending from before goes on beside the new one.                *)
BlinkStart ==
  /\ cycles < MaxCycles
  /\ ~ blinking
  /\ blinking' = TRUE
  /\ phase' = ~ phase
  /\ led' = Level(~ phase)
  /\ cycles' = cycles + 1
  /\ UNCHANGED <<relay_state, relay_timer, told>>

(* plug_wifi_blink_stop, when the station has its address *)
BlinkStop ==
  /\ blinking' = FALSE
  /\ led' = relay_state
  /\ UNCHANGED <<relay_state, relay_timer, phase, cycles, told>>

Next ==
  \/ \E state \in {Timed, 0, 1, 2} : Post(state)
  \/ Off
  \/ Cycle
  \/ BlinkStart
  \/ BlinkStop

Spec == Init /\ [][Next]_vars
-----------------------------------------------------------------------------
TypeOK ==
  /\ {relay_state, led, told} \subseteq {0, 1}
  /\ {relay_timer, blinking, phase} \subseteq BOOLEAN
  /\ cycles \in 0..MaxCycles

\* While the relay is timed it is on: no command and no other timer switches
\* it, so the end of the time is what the client that asked for it sees.
TimedIsOn == relay_timer => relay_state = 1

\* When the LED does not blink it shows the relay, whatever cycle is still
\* pending and whatever was switched while it blinked.
LedShowsRelay == ~ blinking => led = relay_state

\* What was answered or raised last is the state of the relay.
ListenersKnow == told = relay_state
=============================================================================
