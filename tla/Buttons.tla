------------------------------- MODULE Buttons -------------------------------
(***************************************************************************)
(* A key of driver/key.c and what user_button.c does with it.  Keys share  *)
(* nothing but the handler's loop, so one is enough.  The pin is low while *)
(* the key is pressed.  The interrupt may come at any moment, also between *)
(* the two halves of the 50 ms callback: after it read the pin and before  *)
(* it chooses the edge to wait for; an edge nobody waits for is lost.      *)
(*                                                                         *)
(* Timers expire in the order of their times where that is fixed: the 5 ms *)
(* of key_press are over before the 50 ms of a timer armed later.          *)
(***************************************************************************)
EXTENDS Integers

VARIABLES
  pin,         \* the level of the key's GPIO
  intr,        \* the edge that interrupts: "NEG", "POS" or "OFF"
  status,      \* the interrupt is waiting for its handler
  key_level, is_long,
  key_press, key_5s, key_50ms,   \* armed
  sampled,     \* what key_50ms_cb read, or "none" when it does not run
  report,      \* the last event raised
  closing, restoring   \* the timers of button_long_press are pending

vars == <<pin, intr, status, key_level, is_long, key_press, key_5s, key_50ms, sampled,
          report, closing, restoring>>

(* key_init *)
Init ==
  /\ pin \in {0, 1}
  /\ intr = "NEG"
  /\ status = FALSE
  /\ key_level = 1
  /\ is_long = FALSE
  /\ key_press = FALSE /\ key_5s = FALSE /\ key_50ms = FALSE
  /\ sampled = "none"
  /\ report = "none"
  /\ closing = FALSE /\ restoring = FALSE

\* The key or its bouncing moves the pin.
Edge ==
  /\ pin' = 1 - pin
  /\ status' = (status \/ intr = IF pin = 1 THEN "NEG" ELSE "POS")
  /\ UNCHANGED <<intr, key_level, is_long, key_press, key_5s, key_50ms, sampled,
                 report, closing, restoring>>

\* Mutant: a second press is taken before the first was seen to end.
InterruptTwice ==
  /\ status
  /\ status' = FALSE
  /\ key_5s' = TRUE /\ key_level' = 0 /\ is_long' = FALSE /\ intr' = "POS" /\ key_press' = TRUE
  /\ UNCHANGED <<pin, key_50ms, sampled, report, closing, restoring>>

(* key_intr_handler *)
Interrupt ==
  /\ status
  /\ status' = FALSE
  /\ IF key_level = 1
       THEN /\ key_5s' = TRUE
            /\ key_level' = 0
            /\ is_long' = FALSE
            /\ intr' = "POS"
            /\ key_press' = TRUE
            /\ UNCHANGED key_50ms
       ELSE /\ intr' = "OFF"
            /\ key_50ms' = TRUE
            /\ UNCHANGED <<key_level, is_long, key_5s, key_press>>
  /\ UNCHANGED <<pin, sampled, report, closing, restoring>>

\* Callbacks of timers wait for the one that runs.
Idle == sampled = "none"

(* button_press, 5 ms after the interrupt *)
Press ==
  /\ Idle /\ key_press
  /\ key_press' = FALSE
  /\ report' = "Press"
  /\ UNCHANGED <<pin, intr, status, key_level, is_long, key_5s, key_50ms, sampled, closing, restoring>>

(* key_5s_cb and button_long_press; what the last long press set is over   *)
(* after 5 s.                                                              *)
Long ==
  /\ Idle /\ key_5s /\ ~ key_press
  /\ ~ closing /\ ~ restoring
  /\ key_5s' = FALSE
  /\ IF pin = 0 THEN /\ is_long' = TRUE
                     /\ report' = "Long Press"
                     /\ closing' = TRUE
                     /\ restoring' = TRUE
                ELSE UNCHANGED <<is_long, report, closing, restoring>>
  /\ UNCHANGED <<pin, intr, status, key_level, key_press, key_50ms, sampled>>

\* The first half of key_50ms_cb: the pin is read.
Sample ==
  /\ Idle /\ key_50ms /\ ~ key_press
  /\ key_50ms' = FALSE
  /\ sampled' = IF pin = 1 THEN "high" ELSE "low"
  /\ UNCHANGED <<pin, intr, status, key_level, is_long, key_press, key_5s, report, closing, restoring>>

(* The second half: button_short_release or button_long_release, or the   *)
(* edge is waited for again.                                               *)
Release ==
  /\ sampled # "none"
  /\ sampled' = "none"
  /\ IF sampled = "high"
       THEN /\ key_5s' = FALSE
            /\ key_level' = 1
            /\ intr' = "NEG"
            /\ report' = IF is_long THEN "Long Release" ELSE "Short Release"
       ELSE intr' = "POS" /\ UNCHANGED <<key_5s, key_level, report>>
  /\ UNCHANGED <<pin, status, is_long, key_press, key_50ms, closing, restoring>>

(* button_close_connections after 500 ms, button_restore_defaults after   *)
(* 1000 ms; they were set together, so the first runs first.               *)
CloseConnections ==
  /\ Idle /\ closing
  /\ closing' = FALSE
  /\ UNCHANGED <<pin, intr, status, key_level, is_long, key_press, key_5s, key_50ms, sampled,
                 report, restoring>>
RestoreDefaults ==
  /\ Idle /\ restoring /\ ~ closing
  /\ restoring' = FALSE
  /\ UNCHANGED <<pin, intr, status, key_level, is_long, key_press, key_5s, key_50ms, sampled,
                 report, closing>>

Next ==
  \/ Edge \/ Interrupt
  \/ Press \/ Long \/ Sample \/ Release
  \/ CloseConnections \/ RestoreDefaults

Spec == Init /\ [][Next]_vars
-----------------------------------------------------------------------------
TypeOK ==
  /\ {pin, key_level} \subseteq {0, 1}
  /\ intr \in {"NEG", "POS", "OFF"}
  /\ {status, is_long, key_press, key_5s, key_50ms, closing, restoring} \subseteq BOOLEAN
  /\ sampled \in {"none", "high", "low"}
  /\ report \in {"none", "Press", "Long Press", "Short Release", "Long Release"}

\* Whatever edges bounce, come late or are lost, the events tell of whole
\* presses: a press, then at most one long press, then the release that goes
\* with it, and only then another press.
InTurn ==
  report' # report =>
    CASE report' = "Press"         -> report \in {"none", "Short Release", "Long Release"}
      [] report' = "Long Press"    -> report = "Press"
      [] report' = "Short Release" -> report = "Press"
      [] OTHER                     -> report = "Long Press"
WholePresses == [][InTurn]_vars
=============================================================================
