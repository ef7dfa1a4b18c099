----------------------------- MODULE SerialPort -----------------------------
(***************************************************************************)
(* The serial ports and the debug output.  Three parts, and a behaviour    *)
(* follows one:                                                            *)
(* "out": _uart_write_char_ of driver/uart.c makes of every end of a line  *)
(*   CR LF, with one static for both ports;                                *)
(* "debug": wifi_write_char of stdout.c collects a message for the         *)
(*   WebSocket, ended by 200 ms of silence, or cut at its last line when   *)
(*   the buffer is full;                                                   *)
(* "in": the receive interrupt of UART0 posts an event and is off until    *)
(*   uart_recv has emptied the FIFO.                                       *)
(***************************************************************************)
EXTENDS Integers, Sequences

CONSTANTS
  BufferLen,     \* WIFI_DEBUG_BUFFER_LEN
  Fifo,          \* 128: the bytes the receive FIFO holds
  MaxIn          \* bound: characters written, or received

Chars == {"a", "cr", "lf"}
Ports == {0, 1}

VARIABLES
  follows,
  written,   \* out: what each port was given; debug: what was written
  sent,      \* out: what each port sent; debug: the messages
  last,      \* the static of _uart_write_char_
  mixed,     \* the other port was written to since a port's CR
  buff,      \* of wifi_write_char, up to i
  timer,     \* its timer is pending
  cut,       \* the buffer was cut and nothing was written since
  fifo,      \* bytes received and not read
  came,      \* bytes received at all
  taken,     \* bytes given to uart_char_in
  overrun,   \* bytes lost as the FIFO was full
  enabled,   \* the receive interrupts
  posted,    \* events for uart_recv
  listener   \* uart_char_in is not NULL

vars == <<follows, written, sent, last, mixed, buff, timer, cut, fifo, came, taken,
          overrun, enabled, posted, listener>>
outVars == <<last, mixed>>
debugVars == <<buff, timer, cut>>
inVars == <<fifo, came, taken, overrun, enabled, posted, listener>>

Init ==
  /\ follows \in {"out", "debug", "in"}
  /\ written = [p \in Ports |-> <<>>] /\ sent = [p \in Ports |-> <<>>]
  /\ last = "none" /\ mixed = FALSE
  /\ buff = <<>> /\ timer = FALSE /\ cut = FALSE
  /\ fifo = 0 /\ came = 0 /\ taken = 0 /\ overrun = 0
  /\ enabled = TRUE /\ posted = 0 /\ listener = TRUE
-----------------------------------------------------------------------------
(* What a character makes the port send. *)
UartChar(c) ==
  CASE c = "lf" /\ last = "cr" -> <<>>
    [] c = "lf" /\ last # "cr" -> <<"cr", "lf">>
    [] c = "cr" -> <<"cr", "lf">>
    [] OTHER    -> <<c>>

(* uart_write_char and uart1_write_char: _uart_write_char_.  A line feed   *)
(* that is dropped leaves last as it was.                                  *)
uart_write_char(p, c) ==
  /\ follows = "out" /\ Len(written[0]) + Len(written[1]) < MaxIn
  /\ written' = [written EXCEPT ![p] = Append(@, c)]
  /\ sent' = [sent EXCEPT ![p] = @ \o UartChar(c)]
  /\ last' = IF c = "lf" /\ last = "cr" THEN last ELSE c
  /\ mixed' = (mixed \/ written[1 - p] # <<>>)
  /\ UNCHANGED <<follows, debugVars, inVars>>

(* The ends of lines in a text: CR, LF or both. *)
Breaks(t) ==
  [i \in 1..Len(t) |-> t[i] = "cr" \/ (t[i] = "lf" /\ (i = 1 \/ t[i - 1] # "cr"))]
-----------------------------------------------------------------------------
(* The last line feed of the buffer but for its first character, 0 if none *)
LastLine(b) ==
  LET at == {j \in 2..Len(b) : b[j] = "lf"}
  IN  IF at = {} THEN 0 ELSE CHOOSE j \in at : \A k \in at : k <= j

(* The full buffer is sent up to its last line feed, which ends the        *)
(* message, and the rest begins the next; without one it is sent whole.    *)
Cut(b) ==
  IF LastLine(b) = 0
  THEN sent' = [sent EXCEPT ![0] = @ \o b] /\ buff' = <<>>
  ELSE /\ sent' = [sent EXCEPT ![0] = @ \o SubSeq(b, 1, LastLine(b))]
       /\ buff' = SubSeq(b, LastLine(b) + 1, Len(b))

(* wifi_write_char of a character *)
wifi_write_char(c) ==
  /\ follows = "debug" /\ Len(written[0]) < MaxIn
  /\ written' = [written EXCEPT ![0] = Append(@, c)]
  /\ IF Len(buff) + 1 = BufferLen - 1
     THEN Cut(Append(buff, c)) /\ timer' = FALSE /\ cut' = TRUE
     ELSE buff' = Append(buff, c) /\ timer' = TRUE /\ cut' = FALSE /\ UNCHANGED sent
  /\ UNCHANGED <<follows, outVars, inVars>>

(* wifi_debug_flush, from the timer *)
wifi_debug_flush ==
  /\ timer /\ timer' = FALSE
  /\ sent' = [sent EXCEPT ![0] = @ \o buff] /\ buff' = <<>>
  /\ cut' = FALSE
  /\ UNCHANGED <<follows, written, outVars, inVars>>
-----------------------------------------------------------------------------
(* A byte comes in; a full FIFO loses it. *)
Receive ==
  /\ follows = "in" /\ came < MaxIn
  /\ came' = came + 1
  /\ IF fifo < Fifo THEN fifo' = fifo + 1 /\ UNCHANGED overrun
                    ELSE overrun' = overrun + 1 /\ UNCHANGED fifo
  /\ UNCHANGED <<follows, written, sent, outVars, debugVars, taken, enabled, posted, listener>>

(* uart_rx_intr_handler: when the FIFO fills, or has something and the     *)
(* line is quiet                                                           *)
uart_rx_intr_handler ==
  /\ follows = "in" /\ enabled /\ fifo > 0
  /\ enabled' = FALSE /\ posted' = posted + 1
  /\ UNCHANGED <<follows, written, sent, outVars, debugVars, fifo, came, taken, overrun, listener>>

(* uart_recv: as many bytes as there were when it looked; more may come    *)
(* meanwhile.  Without a listener they stay, and interrupt again.          *)
uart_recv ==
  /\ posted > 0 /\ posted' = posted - 1
  /\ \E new \in 0..(IF listener THEN Fifo - fifo ELSE 0) :
       /\ came + new <= MaxIn /\ came' = came + new
       /\ fifo' = IF listener THEN new ELSE fifo
       /\ taken' = IF listener THEN taken + fifo ELSE taken
  /\ enabled' = TRUE
  /\ UNCHANGED <<follows, written, sent, outVars, debugVars, overrun, listener>>

(* uart_char_in_set: a module takes the port, or stdout_disable *)
uart_char_in_set ==
  /\ follows = "in"
  /\ listener' = ~listener
  /\ UNCHANGED <<follows, written, sent, outVars, debugVars, fifo, came, taken, overrun,
                 enabled, posted>>

Next ==
  \/ \E p \in Ports, c \in Chars : uart_write_char(p, c)
  \/ \E c \in {"a", "lf"} : wifi_write_char(c)
  \/ wifi_debug_flush
  \/ Receive \/ uart_rx_intr_handler \/ uart_recv \/ uart_char_in_set

Spec == Init /\ [][Next]_vars
-----------------------------------------------------------------------------
TypeOK ==
  /\ last \in Chars \cup {"none"}
  /\ Len(buff) <= BufferLen - 2
  /\ fifo \in 0..Fifo /\ posted \in 0..1
  /\ {timer, cut, enabled, listener, mixed} \subseteq BOOLEAN

\* The number of those of a sequence that pass.
CountOf(t, Test(_)) == Len(SelectSeq(t, Test))

\* A port that is written to alone sends one CR LF for every end of a line,
\* whichever way it is written, and every other character once, but for a
\* line feed after CR LF, which is taken for its second half.
LinesEnd ==
  follows = "out" /\ ~mixed =>
    \A p \in Ports :
      LET t == written[p]
          twice == {i \in 3..Len(t) : t[i] = "lf" /\ t[i - 1] = "lf"}
      IN  twice = {} =>
            /\ CountOf(sent[p], LAMBDA c : c = "lf") = CountOf(Breaks(t), LAMBDA b : b)
            /\ CountOf(sent[p], LAMBDA c : c = "cr") = CountOf(Breaks(t), LAMBDA b : b)
            /\ CountOf(sent[p], LAMBDA c : c = "a") = CountOf(t, LAMBDA c : c = "a")

\* What is written for the WebSocket is sent once and in order, or waits in
\* the buffer, whose timer will send it unless it has just been cut.
DebugKept ==
  follows = "debug" =>
    /\ written[0] = sent[0] \o buff
    /\ buff # <<>> => timer \/ cut

\* Every byte is taken, waits in the FIFO or was lost when that was full, and
\* what waits interrupts or will be read.
BytesTaken ==
  follows = "in" =>
    /\ came = taken + fifo + overrun
    /\ fifo > 0 => enabled \/ posted > 0
=============================================================================
