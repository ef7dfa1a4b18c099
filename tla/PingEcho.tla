------------------------------ MODULE PingEcho ------------------------------
(***************************************************************************)
(* One measurement of the ultrasonic sensor (mb_driver/ping.c): the main   *)
(* program triggers it and waits, with a delay, until the interrupts of    *)
(* the echo pin have recorded both edges or the time is over.  The clock   *)
(* is a counter of W bits, in units of the delay.  A pin other than the    *)
(* one that echoes has its interrupts acknowledged and ignored.            *)
(***************************************************************************)
EXTENDS Integers

CONSTANTS
  Pins,        \* that the echo may be configured on
  W,           \* bits of system_get_time (32)
  MaxPeriod,   \* of a measurement
  Least        \* 50 us: a shorter echo is none

VARIABLES
  clock,
  pin,       \* pingData->echoPin
  line,      \* the echo pin is high
  armed,     \* per pin, the edge that interrupts, or "off"
  current,   \* ping_currentEchoPin, -1 if none
  started, ended,     \* ping_echoStarted, ping_echoEnded
  stamp0, stamp1,     \* ping_timeStamp0, ping_timeStamp1
  pc,        \* "idle", "low" or "echo": what ping_pingUs waits for
  timeOutAt,
  spent,     \* the delays of this measurement
  rose,      \* when the echo of this measurement rose, -1 if it did not
  response   \* what was returned: the time, -1 for none, with the true one

vars == <<clock, pin, line, armed, current, started, ended, stamp0, stamp1, pc,
          timeOutAt, spent, rose, response>>

Nothing == [told |-> -1, true |-> -1]

(* ping_init; the pin is configured anew between measurements *)
Init ==
  /\ clock \in 0..2^W - 1
  /\ pin \in Pins /\ line = FALSE
  /\ armed = [p \in Pins |-> "off"] /\ current = -1
  /\ started = FALSE /\ ended = FALSE /\ stamp0 = 0 /\ stamp1 = 0
  /\ pc = "idle" /\ timeOutAt = 0 /\ spent = 0 /\ rose = -1
  /\ response = Nothing

(* spent is counted until it is too much *)
Delay ==
  /\ clock' = (clock + 1) % 2^W
  /\ spent' = IF spent > MaxPeriod + 1 THEN spent ELSE spent + 1

Forget == started' = FALSE /\ ended' = FALSE

(* ping_pingUs, to its first loop *)
ping_pingUs ==
  /\ pc = "idle" /\ current = -1
  /\ Forget
  /\ timeOutAt' = (clock + MaxPeriod) % 2^W
  /\ stamp0' = clock
  /\ current' = pin
  /\ pc' = "low" /\ spent' = 0 /\ rose' = -1
  /\ response' = Nothing
  /\ UNCHANGED <<clock, pin, line, armed, stamp1>>

(* ping_disableInterrupt: not of pin 0 *)
ping_disableInterrupt(p) ==
  armed' = IF p > 0 THEN [armed EXCEPT ![p] = "off"] ELSE armed

(* A measurement that fails. *)
GiveUp ==
  /\ ping_disableInterrupt(current)
  /\ current' = -1 /\ pc' = "idle"
  /\ UNCHANGED <<clock, pin, line, started, ended, stamp0, stamp1, timeOutAt, spent, rose, response>>

(* The pin is to be low before the trigger. *)
WaitLow ==
  /\ pc = "low" /\ line
  /\ IF clock > timeOutAt
     THEN GiveUp
     ELSE /\ Delay
          /\ UNCHANGED <<pin, line, armed, current, started, ended, stamp0, stamp1, pc,
                         timeOutAt, rose, response>>

Trigger ==
  /\ pc = "low" /\ ~line
  /\ armed' = [armed EXCEPT ![pin] = "rise"]
  /\ pc' = "echo"
  /\ UNCHANGED <<clock, pin, line, current, started, ended, stamp0, stamp1, timeOutAt,
                 spent, rose, response>>

WaitEcho ==
  /\ pc = "echo" /\ ~ended
  /\ IF clock > timeOutAt
     THEN GiveUp
     ELSE /\ Delay
          /\ UNCHANGED <<pin, line, armed, current, started, ended, stamp0, stamp1, pc,
                         timeOutAt, rose, response>>

(* Both edges came; a clock that ran over gives no result. *)
Echoed ==
  /\ pc = "echo" /\ ended
  /\ pc' = "idle"
  /\ IF stamp1 < stamp0 \/ stamp1 - stamp0 < Least
     THEN ping_disableInterrupt(current) /\ current' = -1 /\ UNCHANGED response
     ELSE /\ response' = [response EXCEPT !.told = stamp1 - stamp0]
          /\ UNCHANGED <<armed, current>>
  /\ UNCHANGED <<clock, pin, line, started, ended, stamp0, stamp1, timeOutAt, spent, rose>>

(* ping_intr_handler *)
ping_intr_handler ==
  IF current # pin
  THEN UNCHANGED <<armed, current, started, ended, stamp0, stamp1>>
  ELSE IF ~started
  THEN /\ armed' = [armed EXCEPT ![pin] = "fall"]
       /\ stamp0' = clock /\ started' = TRUE
       /\ UNCHANGED <<current, ended, stamp1>>
  ELSE /\ stamp1' = clock /\ ended' = TRUE
       /\ ping_disableInterrupt(current)
       /\ current' = -1
       /\ UNCHANGED <<started, stamp0>>

(* The sensor raises the line and lets it fall, at any time: an echo of    *)
(* this trigger, or a late one.                                            *)
Edge ==
  /\ line' = ~line
  /\ rose' = IF line' /\ pc = "echo" /\ rose = -1 THEN clock ELSE rose
  /\ response' = IF ~line' /\ pc = "echo" /\ rose # -1 /\ response.true = -1
                 THEN [response EXCEPT !.true = clock - rose] ELSE response
  /\ IF armed[pin] = (IF line' THEN "rise" ELSE "fall")
     THEN ping_intr_handler
     ELSE UNCHANGED <<armed, current, started, ended, stamp0, stamp1>>
  /\ UNCHANGED <<clock, pin, pc, timeOutAt, spent>>

(* Between measurements: time goes by, or the sensor is configured anew. *)
Between ==
  /\ pc = "idle" /\ ~line
  /\ \/ clock' = (clock + 1) % 2^W /\ UNCHANGED <<pin, response>>
     \/ pin' \in Pins /\ response' = Nothing /\ UNCHANGED clock
  /\ UNCHANGED <<line, armed, current, started, ended, stamp0, stamp1, pc, timeOutAt,
                 spent, rose>>

Next ==
  \/ ping_pingUs \/ WaitLow \/ Trigger \/ WaitEcho \/ Echoed
  \/ Edge
  \/ Between

Spec == Init /\ [][Next]_vars
-----------------------------------------------------------------------------
TypeOK ==
  /\ clock \in 0..2^W - 1 /\ timeOutAt \in 0..2^W - 1
  /\ pin \in Pins /\ current \in Pins \cup {-1}
  /\ armed \in [Pins -> {"off", "rise", "fall"}]
  /\ pc \in {"idle", "low", "echo"}
  /\ {line, started, ended} \subseteq BOOLEAN

\* When no measurement runs none is under way for the interrupts either, and
\* but for pin 0, whose interrupts are never disabled, no edge interrupts.
IdleIsFree ==
  pc = "idle" => current = -1 /\ \A p \in Pins \ {0} : armed[p] = "off"

\* The distance returned is that of the echo that came after the trigger, but
\* on pin 0, whose interrupts of the last time are still on.
EchoIsMine ==
  response.told # -1 /\ pin # 0 => response.told = response.true

\* A measurement gives up after its period, unless the clock runs over in it.
GivesUp ==
  pc # "idle" /\ timeOutAt \in MaxPeriod..2^W - 2 => spent <= MaxPeriod + 1
=============================================================================
