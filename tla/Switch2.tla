------------------------------- MODULE Switch2 -------------------------------
(***************************************************************************)
(* The two-gang switch of user_switch2.c: two relays, two wall switches,   *)
(* one pending event for both.  Its handler keeps the state in a uint16,   *)
(* so a negative state arrives as a large one and toggles the relay: the   *)
(* timed branch of user_switch2_set, and user_switch2_off, are never       *)
(* reached, and are left out.                                              *)
(***************************************************************************)
EXTENDS Integers

CONSTANTS
  Gang,       \* the relays, each with the switch of the same index
  Filter,     \* SWITCH_STATE_FILTER
  W           \* 2^16: uint16

VARIABLES relay, switch, state_buf, level, event_timer, told

vars == <<relay, switch, state_buf, level, event_timer, told>>

(* user_switch2_init *)
Init ==
  /\ relay \in [Gang -> {0, 1}]
  /\ level \in [Gang -> {0, 1}]
  /\ switch = level
  /\ state_buf = [g \in Gang |-> Filter \div 2]
  /\ event_timer = FALSE
  /\ told = <<relay, switch>>

\* (uint16) of an int
Unsigned(state) == state % W

\* Mutant: a number that is neither 0 nor 1 is stored as it is.
RelayAfterRaw(old, state) == IF state = old THEN old ELSE Unsigned(state)

(* user_switch2_set, for a state that is not negative: what the relay is *)
RelayAfter(old, state) ==
  IF state = old THEN old ELSE IF state > 1 THEN 1 - old ELSE state

(* switch2_handler; a body may name any of the relays, Absent is the rest. *)
Absent == W
Post(wanted) ==
  /\ relay' = [g \in Gang |-> IF wanted[g] = Absent THEN relay[g]
                              ELSE RelayAfter(relay[g], Unsigned(wanted[g]))]
  /\ told' = <<relay', switch>>
  /\ UNCHANGED <<switch, state_buf, level, event_timer>>

Counted(g) ==
  IF level[g] = 1 THEN (IF state_buf[g] < Filter THEN state_buf[g] + 1 ELSE state_buf[g])
                  ELSE (IF state_buf[g] > 0 THEN state_buf[g] - 1 ELSE state_buf[g])

Reached(g, buf) == buf # state_buf[g] /\ buf \in {0, Filter}

(* switch2_toggle, every 10 ms for each switch *)
Toggle(g) ==
  LET buf == Counted(g)
      new == IF buf = Filter THEN 1 ELSE 0
  IN  /\ state_buf' = [state_buf EXCEPT ![g] = buf]
      /\ IF Reached(g, buf) /\ switch[g] # new
           THEN /\ switch' = [switch EXCEPT ![g] = new]
                /\ relay' = [relay EXCEPT ![g] = RelayAfter(@, 2)]
                /\ event_timer' = TRUE
           ELSE UNCHANGED <<relay, switch, event_timer>>
      /\ UNCHANGED <<level, told>>

(* user_switch2_event, from the timer that both switches set anew *)
Event ==
  /\ event_timer
  /\ event_timer' = FALSE
  /\ told' = <<relay, switch>>
  /\ UNCHANGED <<relay, switch, state_buf, level>>

Flip(g) ==
  /\ level' = [level EXCEPT ![g] = 1 - @]
  /\ UNCHANGED <<relay, switch, state_buf, event_timer, told>>

Next ==
  \/ \E wanted \in [Gang -> {-1, 0, 1, Absent}] : Post(wanted)
  \/ \E g \in Gang : Toggle(g)
  \/ Event
  \/ \E g \in Gang : Flip(g)

Spec == Init /\ [][Next]_vars
-----------------------------------------------------------------------------
TypeOK ==
  /\ {relay, switch, level} \subseteq [Gang -> {0, 1}]
  /\ state_buf \in [Gang -> 0..Filter]
  /\ event_timer \in BOOLEAN
  /\ told \in [Gang -> {0, 1}] \X [Gang -> {0, 1}]

\* What changed at either switch is known to the listeners or about to be.
ListenersKnow == event_timer \/ told = <<relay, switch>>

\* The filters at their ends agree with the switches they filter.
FilterAgrees ==
  \A g \in Gang : (state_buf[g] = Filter => switch[g] = 1) /\ (state_buf[g] = 0 => switch[g] = 0)
=============================================================================
