------------------------------- MODULE Switch1 -------------------------------
(***************************************************************************)
(* The one-gang switch of user_switch1.c: a wall switch, read every 10 ms  *)
(* through a counter that filters its bouncing, toggles the relay, and     *)
(* commands set it, toggle it or switch it on for a time.                  *)
(***************************************************************************)
EXTENDS Integers

CONSTANT Filter   \* SWITCH_STATE_FILTER

Timed == -1       \* stands for the negative states

VARIABLES
  relay,        \* switch1_hardware[0].state
  timer,        \* ... .timer: user_switch1_off is pending
  switch,       \* switch1_hardware[1].state
  state_buf,    \* ... .state_buf
  level,        \* the level of the switch's pin
  event_timer,  \* user_switch1_event is pending
  told          \* what was answered or raised last: relay and switch

vars == <<relay, timer, switch, state_buf, level, event_timer, told>>

(* user_switch1_init reads both pins; the filter starts in the middle. *)
Init ==
  /\ relay \in {0, 1}
  /\ level \in {0, 1}
  /\ switch = level
  /\ state_buf = Filter \div 2
  /\ timer = FALSE
  /\ event_timer = FALSE
  /\ told = <<relay, switch>>

(* user_switch1_set(0, state) *)
Set(state) ==
  IF timer \/ state = relay THEN UNCHANGED <<relay, timer>>
  ELSE /\ timer' = (state < 0)
       /\ relay' = IF state < 0 THEN 1 ELSE IF state > 1 THEN 1 - relay ELSE state

(* switch1_handler; the server raises the answer of every POST. *)
Post(state) ==
  /\ Set(state)
  /\ told' = <<relay', switch>>
  /\ UNCHANGED <<switch, state_buf, level, event_timer>>

(* user_switch1_off, from its timer *)
Off ==
  /\ timer
  /\ timer' = FALSE
  /\ relay' = 0
  /\ told' = <<relay', switch>>
  /\ UNCHANGED <<switch, state_buf, level, event_timer>>

\* The filter after a reading of the pin.
Counted ==
  IF level = 1 THEN (IF state_buf < Filter THEN state_buf + 1 ELSE state_buf)
               ELSE (IF state_buf > 0 THEN state_buf - 1 ELSE state_buf)

\* Whether this reading brought the filter to one of its ends.
Reached(buf) == buf # state_buf /\ buf \in {0, Filter}

\* Mutant: the change is not told.
ToggleUntold ==
  LET new == IF state_buf' = Filter THEN 1 ELSE 0
  IN  /\ state_buf' = Counted
      /\ IF Reached(state_buf') /\ switch # new
           THEN switch' = new /\ Set(2) /\ UNCHANGED event_timer
           ELSE UNCHANGED <<relay, timer, switch, event_timer>>
      /\ UNCHANGED <<level, told>>

(* switch1_toggle, every 10 ms *)
Toggle ==
  LET new == IF state_buf' = Filter THEN 1 ELSE 0
  IN  /\ state_buf' = Counted
      /\ IF Reached(state_buf') /\ switch # new
           THEN switch' = new /\ Set(2) /\ event_timer' = TRUE
           ELSE UNCHANGED <<relay, timer, switch, event_timer>>
      /\ UNCHANGED <<level, told>>

(* user_switch1_event, from its timer *)
Event ==
  /\ event_timer
  /\ event_timer' = FALSE
  /\ told' = <<relay, switch>>
  /\ UNCHANGED <<relay, timer, switch, state_buf, level>>

\* Somebody moves the switch, or its contacts bounce.
Flip ==
  /\ level' = 1 - level
  /\ UNCHANGED <<relay, timer, switch, state_buf, event_timer, told>>

Next ==
  \/ \E state \in {Timed, 0, 1, 2} : Post(state)
  \/ Off
  \/ Toggle
  \/ Event
  \/ Flip

Spec == Init /\ [][Next]_vars
-----------------------------------------------------------------------------
TypeOK ==
  /\ {relay, switch, level} \subseteq {0, 1}
  /\ {timer, event_timer} \subseteq BOOLEAN
  /\ state_buf \in 0..Filter
  /\ told \in {0, 1} \X {0, 1}

\* While the relay is timed it is on, whatever the wall switch does.
TimedIsOn == timer => relay = 1

\* Whatever changed is known to the listeners or about to be told them: no
\* change slips between an event that was put off and the one it replaced.
ListenersKnow == event_timer \/ told = <<relay, switch>>

\* The filter at one of its ends agrees with the switch it filters.
FilterAgrees == (state_buf = Filter => switch = 1) /\ (state_buf = 0 => switch = 0)
=============================================================================
