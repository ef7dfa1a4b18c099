------------------------------ MODULE EmtrLink ------------------------------
(***************************************************************************)
(* The energy meter on the serial line (modules/mod_emtr.c and             *)
(* user_mod_emtr.c).  One command is on the line at a time: emtr_timeout   *)
(* holds the line until the answer or 500 ms later, and a command that     *)
(* finds it held tries again in 100 ms.  The answer is put together byte   *)
(* by byte in the receive interrupt and given to the callback of the       *)
(* command sent last.  The readings are polled: the answer to one, or any  *)
(* timeout, starts the next.                                               *)
(* A byte is <<c, i>>, the i-th of the answer to c.  A full answer is ACK, *)
(* length, data, checksum; a write is answered by ACK alone.  The meter's  *)
(* single wire mode is never turned on, and no byte of it comes.           *)
(***************************************************************************)
EXTENDS Integers, Sequences, FiniteSets

CONSTANTS
  MaxHeld,   \* bound: the timers that will send a command
  MaxWire    \* bound: the bytes on the line

(* "get" stands for the counters, the calibration and the event registers, *)
(* which are asked for alike and whose answers send nothing; "set" for     *)
(* setting any of them and clearing an event, answered by a lone ACK.      *)
Writes == {"set"}
Commands == {"address", "output", "get"} \cup Writes

VARIABLES
  state,    \* emtr_char_in's state
  packet,   \* of the bytes after ACK: whose they are ("none" if of no one
            \* answer, in order), how many, and how many there will be
  done,     \* emtr_command_done, by the command it came with; "none" is NULL
  timeout,  \* emtr_timeout is not 0, and its timer is pending
  held,     \* per command, the timers that will send it
  read,     \* emtr_read_timer is pending
  boot,     \* mod_emtr_init's timers are pending
  uart,     \* device_get_uart() = UART_EMTR
  wire,     \* the bytes on the line
  late,     \* the line was let go of with an answer on its way
  stalled,  \* nothing polls: a bad answer to a reading, or no meter at the start
  mixed     \* a callback was given another's answer, the line never let go of

vars == <<state, packet, done, timeout, held, read, boot, uart, wire, late, stalled, mixed>>

Answer(c) == IF c \in Writes THEN <<<<c, 1>>>> ELSE [i \in 1..4 |-> <<c, i>>]
Nak == <<"nak", 1>>
Empty == [of |-> "none", got |-> 0, len |-> 0]

Init ==
  /\ state = "IDLE" /\ packet = Empty
  /\ done = "none" /\ timeout = FALSE
  /\ held = [c \in Commands |-> IF c = "address" THEN 1 ELSE 0]   \* emtr_init
  /\ read = FALSE /\ boot = TRUE /\ uart = FALSE
  /\ wire = <<>> /\ late = FALSE /\ stalled = FALSE /\ mixed = FALSE

(* emtr_ask_only *)
ask_only == done \in Writes

\* What comes after line, once the meter answers c, refuses it or is deaf.
Meter(line, c) ==
  {l \in {line, line \o Answer(c), Append(line, Nak)} : Len(l) <= MaxWire}

Bounded == held["address"] + held["output"] + held["get"] + held["set"] <= MaxHeld

Wait(cs) ==
  /\ held' = [c \in Commands |-> held[c] + Cardinality({i \in DOMAIN cs : cs[i] = c})]
  /\ Bounded'

(* emtr_send of the commands cs, one after the other: the first goes out   *)
(* if the line is free, and the others wait, as do those meant for later.  *)
Send(cs, later, line) ==
  IF timeout \/ cs = <<>>
  THEN Wait(cs \o later) /\ wire' = line /\ UNCHANGED done
  ELSE Wait(Tail(cs) \o later) /\ done' = cs[1] /\ wire' \in Meter(line, cs[1])

(* emtr_send, from the timer of a command that waits *)
emtr_send(c) ==
  /\ held[c] > 0 /\ ~timeout
  /\ held' = [held EXCEPT ![c] = @ - 1]
  /\ done' = c
  /\ timeout' = TRUE
  /\ wire' \in Meter(wire, c)
  /\ UNCHANGED <<state, packet, read, boot, uart, late, stalled, mixed>>

(* emtr_start_read *)
emtr_start_read ==
  /\ read' = (read \/ uart')
  /\ stalled' = ~uart'

(* emtr_get_output, from emtr_read_timer; the other gets are sent alike *)
emtr_get_output ==
  /\ read /\ read' = FALSE
  /\ Send(<<"output">>, <<>>, wire)
  /\ timeout' = TRUE
  /\ UNCHANGED <<state, packet, boot, uart, late, stalled, mixed>>

(* emtr_calibration_read, emtr_events_read and emtr_start_read, from the   *)
(* timers of mod_emtr_init                                                 *)
Boot ==
  /\ boot /\ boot' = FALSE
  /\ Wait(IF uart THEN <<"get">> ELSE <<>>)
  /\ UNCHANGED <<state, packet, done, timeout, uart, wire, late, mixed>>
  /\ emtr_start_read

(* emtr_timeout: the listeners are told, and the polling goes on *)
emtr_timed_out ==
  /\ timeout /\ timeout' = FALSE
  /\ late' = (wire # <<>>)
  /\ UNCHANGED <<state, packet, done, held, boot, uart, wire, mixed>>
  /\ emtr_start_read

(* emtr_receive of an error or of a packet with a wrong checksum: the line *)
(* is let go of, and nobody is told.                                       *)
Reject(line) ==
  /\ timeout' = FALSE
  /\ late' = (line # <<>>)
  /\ stalled' = (stalled \/ (timeout /\ done = "output"))
  /\ wire' = line
  /\ UNCHANGED <<done, held, read, uart, mixed>>

\* What a callback sends: emtr_address_receive, and emtr_read_done with
\* emtr_counter_add and, if the meter has an event, emtr_clear_event.
Replies ==
  CASE done = "address" -> {<<"get">>}
    [] done = "output"  -> {<<"set">>, <<"set", "set">>}
    [] OTHER            -> {<<>>}

\* Mutant: a reading does not start the next one.
AcceptOnce(c, line) ==
  /\ uart' = TRUE
  /\ timeout' = FALSE
  /\ mixed' = (mixed \/ (done # c /\ ~late))
  /\ \E cs \in Replies : Send(cs, <<>>, line)
  /\ late' = (wire' # <<>>)
  /\ UNCHANGED <<read, stalled>>

(* emtr_receive of a packet, an answer to c: the meter is there, and the   *)
(* callback of the command sent last is called.  Whoever holds the line    *)
(* lets go of it afterwards, a command the callback itself could send too. *)
Accept(c, line) ==
  /\ uart' = TRUE
  /\ timeout' = FALSE
  /\ mixed' = (mixed \/ (done # c /\ ~late))
  /\ \E cs \in Replies : Send(cs, <<>>, line)
  /\ late' = (wire' # <<>>)
  /\ IF done = "output" THEN emtr_start_read ELSE UNCHANGED <<read, stalled>>

\* No packet ends with this byte.
Quiet(line) ==
  /\ wire' = line
  /\ late' = (late /\ line # <<>>)
  /\ UNCHANGED <<done, timeout, held, read, uart, stalled, mixed>>

(* emtr_char_in between packets: ACK, NAK or anything else *)
FirstChar(c, line) ==
  /\ state \in {"IDLE", "ERROR"}
  /\ packet' = Empty
  /\ CASE c = Nak  -> state' = "ERROR" /\ Reject(line)
       [] c # Nak /\ c[2] = 1 /\ ask_only -> state' = "IDLE" /\ Accept(c[1], line)
       [] c # Nak /\ c[2] = 1 /\ ~ask_only -> state' = "LEN" /\ Quiet(line)
       [] OTHER    -> state' = "ERROR" /\ Quiet(line)

(* ... and inside one.  A byte out of place taken for the length gives a   *)
(* longer packet, and its checksum is not right.                           *)
Longer(c) ==
  [of  |-> IF c[2] = packet.got + 2 /\ (packet.got = 0 \/ packet.of = c[1]) THEN c[1] ELSE "none",
   got |-> packet.got + 1,
   len |-> IF state = "DATA" THEN packet.len ELSE IF c[2] = 2 THEN 3 ELSE 4]

NextChar(c, line) ==
  LET p == Longer(c)
  IN  /\ state \in {"LEN", "DATA"}
      /\ IF p.got = p.len
         THEN /\ state' = "IDLE" /\ packet' = Empty
              /\ IF p.of # "none" THEN Accept(p.of, line) ELSE Reject(line)
         ELSE state' = "DATA" /\ packet' = p /\ Quiet(line)

emtr_char_in ==
  /\ wire # <<>>
  /\ FirstChar(Head(wire), Tail(wire)) \/ NextChar(Head(wire), Tail(wire))
  /\ UNCHANGED boot

\* A byte is lost on the line.
Lose ==
  /\ wire # <<>>
  /\ wire' = Tail(wire)
  /\ late' = (late /\ wire' # <<>>)
  /\ UNCHANGED <<state, packet, done, timeout, held, read, boot, uart, stalled, mixed>>

(* emtr_handler: what a POST sets goes to the meter, the registers of the  *)
(* mode are asked for a second later, and the polling starts anew.         *)
emtr_handler(sets, asks) ==
  /\ uart
  /\ Send(sets, IF asks THEN <<"get">> ELSE <<>>, wire)
  /\ timeout' = (timeout \/ sets # <<>>)
  /\ UNCHANGED <<state, packet, boot, uart, late, mixed>>
  /\ emtr_start_read

Next ==
  \/ \E c \in Commands : emtr_send(c)
  \/ emtr_get_output
  \/ Boot
  \/ emtr_timed_out
  \/ emtr_char_in
  \/ Lose
  \/ \E sets \in {<<>>, <<"set">>}, asks \in BOOLEAN : emtr_handler(sets, asks)

Spec == Init /\ [][Next]_vars
-----------------------------------------------------------------------------
TypeOK ==
  /\ state \in {"IDLE", "ERROR", "LEN", "DATA"}
  /\ packet \in [of : Commands \cup {"none"}, got : 0..3, len : {0, 3, 4}]
  /\ held \in [Commands -> 0..MaxHeld]
  /\ done \in Commands \cup {"none"}
  /\ {timeout, read, boot, uart, late, stalled, mixed} \subseteq BOOLEAN

\* A callback is given the answer to its own command, unless the line was
\* let go of while an answer was on its way and has not been quiet since.
Attributed == ~mixed

\* The readings go on: one is timed, waits for the line or is being answered,
\* unless a bad answer to one, or a meter found late, left them to the next
\* request or timeout.
PollGoesOn ==
  uart /\ ~boot /\ ~stalled =>
    read \/ held["output"] > 0 \/ (timeout /\ done = "output")
=============================================================================
