------------------------------ MODULE WsChannel ------------------------------
(***************************************************************************)
(* The WebSockets of user_websocket.c: the frames each is sent, the        *)
(* closing handshake, and the keep-alive rounds.  A frame goes to the SDK  *)
(* if none is on its way and else into a queue, which the sent callback    *)
(* empties one frame at a time.  Whole frames arrive here: how they are    *)
(* put together (websocket_recv's static variables) is left out, and so is *)
(* what the messages say, but for the one that authorises the peer.        *)
(*                                                                         *)
(* The SDK delivers in order and calls back once for each send.  It can    *)
(* hold several sends; the program means to give it one.                   *)
(***************************************************************************)
EXTENDS Integers, Sequences

CONSTANTS
  Conn,
  Client,        \* those the device opened itself (websocket_client_upgrade)
  Authentication,\* user_config_authentication()
  Uploads,       \* whether a firmware upload may come in
  Silent,        \* those whose peer may fall silent
  MaxQueue,      \* bound: frames waiting when another request is taken up
  Modulus        \* frames are numbered modulo this

ASSUME ModulusAssumption == Modulus \in Nat /\ Modulus >= 4
ASSUME ClientAssumption  == Client \subseteq Conn
ASSUME AuthenticationAssumption == Authentication \in BOOLEAN

VARIABLES
  socket,        \* the entry of websockets for each connection, with its extra
  mute,          \* the peers that fell silent for good
  keep_alive,    \* the interval timer of websocket_init runs
  timeout_timer, \* websocket_timeout_timer runs
  chunk          \* webserver_chunk is registered

vars == <<socket, mute, keep_alive, timeout_timer, chunk>>

NoSocket ==
  [state |-> "NONE", authorized |-> FALSE, timeout |-> FALSE, sending |-> FALSE,
   queue |-> <<>>, flight |-> <<>>, next |-> 0, leaving |-> FALSE]

Init ==
  /\ socket = [c \in Conn |-> NoSocket]
  /\ mute = [c \in Conn |-> FALSE]
  /\ keep_alive = TRUE
  /\ timeout_timer = FALSE
  /\ chunk = FALSE

Open(c) == socket[c].state = "OPEN"

-----------------------------------------------------------------------------
(* What the functions do to one socket s: each is the socket afterwards. *)

\* The frame, and the number of the one after it.
Numbered(s, kind) == [kind |-> kind, no |-> s.next]
Advanced(s) == [s EXCEPT !.next = (@ + 1) % Modulus]

\* Mutant: what waits is overtaken.
SendFirst(s, kind) ==
  IF s.sending THEN [Advanced(s) EXCEPT !.queue = <<Numbered(s, kind)>> \o @]
  ELSE [Advanced(s) EXCEPT !.flight = Append(@, Numbered(s, kind)), !.sending = TRUE]

\* Mutant: nothing waits.
SendAlways(s, kind) ==
  [Advanced(s) EXCEPT !.flight = Append(@, Numbered(s, kind)), !.sending = TRUE]

(* websocket_send *)
Send(s, kind) ==
  IF s.sending THEN [Advanced(s) EXCEPT !.queue = Append(@, Numbered(s, kind))]
  ELSE [Advanced(s) EXCEPT !.flight = Append(@, Numbered(s, kind)), !.sending = TRUE]

\* Mutant: the flag is reset before the queue is looked at.
SentReset(s) ==
  IF s.queue = <<>> THEN [s EXCEPT !.flight = Tail(@), !.sending = FALSE]
  ELSE [s EXCEPT !.flight = Append(Tail(@), Head(s.queue)), !.queue = Tail(@), !.sending = FALSE]

(* websocket_sent, for the oldest frame on its way *)
Sent(s) ==
  IF s.queue = <<>> THEN [s EXCEPT !.flight = Tail(@), !.sending = FALSE]
  ELSE [s EXCEPT !.flight = Append(Tail(@), Head(s.queue)), !.queue = Tail(@)]

(* websocket_ping, websocket_pong, websocket_send_message *)
Ping(s) == IF s.state = "OPEN" THEN Send([s EXCEPT !.timeout = TRUE], "PING") ELSE s
Pong(s) == IF s.state = "OPEN" THEN Send(s, "PONG") ELSE s
MessageUnchecked(s) == IF s.state = "OPEN" THEN Send(s, "TEXT") ELSE s     \* mutant
Message(s) == IF s.state = "OPEN" /\ s.authorized THEN Send(s, "TEXT") ELSE s

\* Mutant: a socket that is closing starts over.
CloseAgain(s) ==
  CASE s.state = "OPEN"    -> Send([s EXCEPT !.state = "CLOSING", !.queue = <<>>], "CLOSE")
    [] s.state = "CLOSING" -> Send(s, "CLOSE")
    [] OTHER               -> s

(* websocket_close *)
Close(s) ==
  CASE s.state = "OPEN"    -> Send([s EXCEPT !.state = "CLOSING", !.queue = <<>>], "CLOSE")
    [] s.state = "CLOSING" -> [s EXCEPT !.state = "CLOSED", !.leaving = TRUE]
    [] OTHER               -> s

\* websocket_recv closes twice at once when the peer closes.
PeerClosed(s) == LET t == Close(s) IN IF t.state = "CLOSING" THEN Close(t) ELSE t

\* What arrives: a control frame, a message (one that authorises, one that is
\* answered, one that is not), a frame with a wrong mask, no data at all.
Input == {"PING", "PONG", "CLOSE", "LOGIN", "QUESTION", "NOTICE", "BAD", "NOTHING"}
Data  == {"LOGIN", "QUESTION", "NOTICE"}

\* websocket_handle_message, when it is no chunk
Handled(s, input) ==
  CASE ~ s.authorized /\ input = "LOGIN" -> Message([s EXCEPT !.authorized = TRUE])
    [] ~ s.authorized /\ input # "LOGIN" -> Close(s)
    [] s.authorized /\ input = "NOTICE"  -> s
    [] OTHER                             -> Message(s)

(* websocket_recv *)
Received(s, input) ==
  LET t == [s EXCEPT !.timeout = FALSE]
  IN  CASE input \in {"BAD", "NOTHING"}        -> Close(t)
        [] input = "CLOSE"                     -> PeerClosed(t)
        [] input = "PING"                      -> Pong(t)
        [] input \in Data /\ t.state = "OPEN"  -> Handled(t, input)
        [] OTHER                               -> t

-----------------------------------------------------------------------------
\* The 101 goes out before the entry is there, and websocket_sent hears of it.
ServerUpgrade(c) ==
  /\ c \notin Client /\ socket[c] = NoSocket
  /\ socket' = [socket EXCEPT ![c] =
       [NoSocket EXCEPT !.state = "OPEN", !.authorized = ~ Authentication, !.next = 1,
                        !.flight = <<[kind |-> "HANDSHAKE", no |-> 0]>>]]
  /\ chunk' = FALSE
  /\ UNCHANGED <<mute, keep_alive, timeout_timer>>

\* The request was sent before its answer came.
ClientUpgrade(c) ==
  /\ c \in Client /\ socket[c] = NoSocket
  /\ socket' = [socket EXCEPT ![c] = [NoSocket EXCEPT !.state = "OPEN", !.authorized = TRUE]]
  /\ UNCHANGED <<mute, keep_alive, timeout_timer, chunk>>

\* A frame's first packet unregisters the chunk callback.
Recv(c, input) ==
  /\ socket[c].state # "NONE" /\ ~ mute[c]
  /\ Len(socket[c].queue) < MaxQueue
  /\ socket' = [socket EXCEPT ![c] = Received(@, input)]
  /\ chunk' = (chunk /\ input = "NOTHING")
  /\ UNCHANGED <<mute, keep_alive, timeout_timer>>

SentCallback(c) ==
  /\ socket[c].flight # <<>>
  /\ socket' = [socket EXCEPT ![c] = Sent(@)]
  /\ UNCHANGED <<mute, keep_alive, timeout_timer, chunk>>

\* A message goes to those that listen: user_event_raise (by their URL), the
\* event the device posts (webclient_execute), websocket_debug_message (all).
Tell(sockets, listeners) ==
  [c \in Conn |-> IF c \in listeners THEN Message(sockets[c]) ELSE sockets[c]]

Raise(listeners) ==
  /\ \A c \in listeners : Len(socket[c].queue) < MaxQueue
  /\ socket' = Tell(socket, listeners)
  /\ socket' # socket
  /\ UNCHANGED <<mute, keep_alive, timeout_timer, chunk>>

\* A message that is a POST: its outcome is raised as an event, not answered.
Post(c, listeners) ==
  /\ Open(c) /\ socket[c].authorized /\ ~ mute[c]
  /\ \A d \in listeners \union {c} : Len(socket[d].queue) < MaxQueue
  /\ socket' = Tell([socket EXCEPT ![c].timeout = FALSE], listeners)
  /\ chunk' = FALSE
  /\ UNCHANGED <<mute, keep_alive, timeout_timer>>

\* Mutant: the interval stops when there is nobody to ping.
KeepAliveStops == /\ keep_alive' = \E c \in Conn : socket[c].state # "NONE"
KeepAliveGoesOn == UNCHANGED keep_alive

(* websocket_keep_alive.  The last round's timeout is over: it takes 5 of the 19 s. *)
KeepAlive ==
  /\ keep_alive /\ ~ timeout_timer
  /\ IF chunk THEN UNCHANGED <<socket, timeout_timer>>
     ELSE /\ socket' = [c \in Conn |-> Ping(socket[c])]
          /\ timeout_timer' = TRUE
  /\ KeepAliveGoesOn
  /\ UNCHANGED <<mute, chunk>>

\* Mutant: one that closes already is passed over.
Late(c) == Open(c) /\ socket[c].timeout
TimedOut(c) == socket[c].timeout

(* websocket_timeout *)
Timeout ==
  /\ timeout_timer
  /\ timeout_timer' = FALSE
  /\ socket' = [c \in Conn |-> IF TimedOut(c) THEN Close(socket[c]) ELSE socket[c]]
  /\ UNCHANGED <<mute, keep_alive, chunk>>

(* websocket_close_all(reason, NULL) *)
CloseAll ==
  /\ \A c \in Conn : Len(socket[c].queue) < MaxQueue
  /\ socket' = [c \in Conn |-> Close(socket[c])]
  /\ socket' # socket
  /\ UNCHANGED <<mute, keep_alive, timeout_timer, chunk>>

\* The connection ends, by the peer or the network: webserver_discon.
Gone(c) ==
  /\ socket[c].state # "NONE"
  /\ socket' = [socket EXCEPT ![c] = NoSocket]
  /\ mute' = [mute EXCEPT ![c] = FALSE]
  /\ UNCHANGED <<keep_alive, timeout_timer, chunk>>

\* The timer of websocket_close: espconn_disconnect.
Leave(c) == socket[c].leaving /\ Gone(c)

FallSilent(c) ==
  /\ c \in Silent /\ Open(c) /\ ~ mute[c]
  /\ mute' = [mute EXCEPT ![c] = TRUE]
  /\ UNCHANGED <<socket, keep_alive, timeout_timer, chunk>>

\* config_firmware_handler and config_stream_chunk: clearAllTimers.  The upload
\* fails or breaks off; one that succeeds restarts the device.
Upload ==
  /\ Uploads
  /\ chunk' = TRUE
  /\ keep_alive' = FALSE /\ timeout_timer' = FALSE
  /\ socket' = [c \in Conn |-> [socket[c] EXCEPT !.leaving = FALSE]]
  /\ UNCHANGED mute

Restart ==
  /\ Uploads /\ chunk
  /\ socket' = [c \in Conn |-> NoSocket]
  /\ mute' = [c \in Conn |-> FALSE]
  /\ keep_alive' = TRUE
  /\ timeout_timer' = FALSE
  /\ chunk' = FALSE

Next ==
  \/ \E c \in Conn :
       \/ ServerUpgrade(c) \/ ClientUpgrade(c)
       \/ \E input \in Input : Recv(c, input)
       \/ SentCallback(c)
       \/ \E listeners \in SUBSET Conn : Post(c, listeners)
       \/ Gone(c) \/ Leave(c) \/ FallSilent(c)
  \/ \E listeners \in SUBSET Conn : Raise(listeners)
  \/ KeepAlive
  \/ Timeout
  \/ CloseAll
  \/ Upload
  \/ Restart

Spec == Init /\ [][Next]_vars

\* Timers that are set expire; nothing is promised of peers, network and callers.
FairSpec ==
  /\ Spec
  /\ WF_vars(KeepAlive) /\ WF_vars(Timeout)
  /\ \A c \in Conn : WF_vars(Leave(c))

-----------------------------------------------------------------------------
Frame == [kind : {"HANDSHAKE", "TEXT", "PING", "PONG", "CLOSE"}, no : 0 .. Modulus - 1]

TypeOK ==
  /\ socket \in [Conn -> [state : {"NONE", "OPEN", "CLOSING", "CLOSED"},
                          authorized : BOOLEAN, timeout : BOOLEAN, sending : BOOLEAN,
                          queue : Seq(Frame), flight : Seq(Frame), next : 0 .. Modulus - 1,
                          leaving : BOOLEAN]]
  /\ mute \in [Conn -> BOOLEAN]
  /\ keep_alive \in BOOLEAN /\ timeout_timer \in BOOLEAN /\ chunk \in BOOLEAN

\* A frame that waits has one on its way before it, whose callback will send it:
\* the queue of websocket_send is never left to itself.
QueueIsServed ==
  \A c \in Conn : socket[c].queue # <<>> => socket[c].sending /\ socket[c].flight # <<>>

\* The SDK is never given more than two frames at once, and a client socket's
\* never more than one: the second is owed to the 101, whose callback resets
\* `sending` while a first frame may be on its way.
InFlightBounded ==
  \A c \in Conn : Len(socket[c].flight) <= IF c \in Client THEN 1 ELSE 2

\* On their way and waiting, frames are in the order they were sent in, none
\* missing and none twice; only a CLOSE makes those before it be forgotten.
FramesInOrder ==
  \A c \in Conn :
    LET line == socket[c].flight \o socket[c].queue
    IN  \A i \in 2 .. Len(line) :
          line[i].kind # "CLOSE" => line[i].no = (line[i - 1].no + 1) % Modulus

\* CLOSE is the last frame a socket sends, and it is sent once.
CloseIsLast ==
  \A c \in Conn :
    LET line == socket[c].flight \o socket[c].queue
    IN  \A i \in DOMAIN line :
          line[i].kind = "CLOSE" => i = Len(line) /\ ~ Open(c)

\* A peer that has not logged in is sent no message, queued or not.
StrangersGetNothing ==
  \A c \in Conn :
    LET line == socket[c].flight \o socket[c].queue
    IN  (\E i \in DOMAIN line : line[i].kind = "TEXT") => socket[c].authorized

\* A peer that does not answer a ping is disconnected: it is sent CLOSE when the
\* round times out and dropped after the next (websocket_timeout), even if another
\* part of the program begins to close it in between.
SilentPeerLeaves == \A c \in Conn : mute[c] /\ socket[c].timeout ~> ~ mute[c]

\* An open socket is pinged, whatever it does (websocket_keep_alive: "ping client
\* to keep connection alive").
OpenIsPinged == \A c \in Conn : Open(c) ~> (socket[c].timeout \/ ~ Open(c))
=============================================================================
