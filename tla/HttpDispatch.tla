---------------------------- MODULE HttpDispatch ----------------------------
(***************************************************************************)
(* What the web server does with a whole request (webserver_request), the  *)
(* requests it leaves unanswered until an event comes (user_long_poll.c),  *)
(* and the events (user_events.c).  Packets are put together by            *)
(* HttpReceive; sockets are WsChannel's, and the event server WebClient's. *)
(* A secure connection may deliver the first letter of a request alone.    *)
(***************************************************************************)
EXTENDS Integers

CONSTANTS
  Conns,    \* connections
  Secure,   \* those to the port of HTTPS
  MaxOwed   \* requests a connection sends before it is answered

VARIABLES
  config,   \* user_config_ssl, user_config_authentication
  state,    \* of a connection: none, open, socket, or closed and not yet told
  half,     \* the method whose first letter a connection has sent
  first,    \* the letter webserver_method keeps
  polls,    \* http_long_polls: how many of a connection wait for a url
  owed,     \* requests of a connection that have no answer
  http_status,  \* the status of the answer being made, or made last
  posted,   \* the last event was given to the web client
  mixed,    \* a request came while another connection's letter was kept
  garbled   \* a request was not understood

vars == <<config, state, half, first, polls, owed, http_status, posted, mixed, garbled>>

Methods == {"GET", "POST", "OPTIONS"}
Urls == {"plain", "later", "events", "missing"}
Waits == {"later", "events"}   \* whose requests wait for an event
None == "none"

Init ==
  /\ config \in [ssl : BOOLEAN, auth : BOOLEAN, special : BOOLEAN]
  /\ state = [c \in Conns |-> "none"]
  /\ half = [c \in Conns |-> None]
  /\ first = None
  /\ polls = [c \in Conns |-> [url \in Waits |-> 0]]
  /\ owed = [c \in Conns |-> 0]
  /\ http_status = 200
  /\ posted = FALSE
  /\ mixed = FALSE /\ garbled = FALSE

(* webserver_connect *)
Connect(c) ==
  /\ state[c] = "none"
  /\ state' = [state EXCEPT ![c] = "open"]
  /\ UNCHANGED <<config, half, first, polls, owed, http_status, posted, mixed, garbled>>

\* The peer goes, or the connection is broken: first its state changes.
Break(c) ==
  /\ state[c] \in {"open", "socket"}
  /\ state' = [state EXCEPT ![c] = "closed"]
  /\ UNCHANGED <<config, half, first, polls, owed, http_status, posted, mixed, garbled>>

(* webserver_connection_clear *)
Clear(c) == polls' = [polls EXCEPT ![c] = [url \in Waits |-> 0]]

(* webserver_discon; webserver_recon does the same with a connection whose *)
(* state is closed.                                                        *)
Discon(c) ==
  /\ state[c] = "closed"
  /\ Clear(c)
  /\ state' = [state EXCEPT ![c] = "none"]
  /\ half' = [half EXCEPT ![c] = None]
  /\ owed' = [owed EXCEPT ![c] = 0]
  /\ UNCHANGED <<config, first, http_status, posted, mixed, garbled>>

\* Whether an event of url is one that a poll waits for, how many of a
\* connection do, and how many wait at all.
Hears(wait, url) == wait \in {url, "events"}
Heard(c, url) == (IF Hears("later", url) THEN polls[c]["later"] ELSE 0) + polls[c]["events"]
Count(c) == polls[c]["later"] + polls[c]["events"]

(* user_event_raise: long_poll_response answers the polls of the url, then *)
(* those of all events, and takes them from the list; a closed connection  *)
(* is not sent anything.  A special server is not given events.            *)
Raise(url) ==
  /\ polls' = [c \in Conns |-> [w \in Waits |-> IF Hears(w, url) THEN 0 ELSE polls[c][w]]]
  /\ owed' = [c \in Conns |-> owed[c] - IF state[c] = "closed" THEN 0 ELSE Heard(c, url)]
  /\ http_status' = 200
  /\ posted' = ~config.special

(* A device, or the program itself (url NULL), raises an event. *)
Event ==
  /\ \E url \in {"plain", "later", None} : Raise(url)
  /\ UNCHANGED <<config, state, half, first, mixed, garbled>>

(* webserver_method: the first letter may have come alone. *)
Letter(c) ==
  /\ state[c] = "open" /\ c \in Secure /\ half[c] = None /\ owed[c] < MaxOwed
  /\ \E m \in Methods : half' = [half EXCEPT ![c] = m] /\ first' = m
  /\ mixed' = (mixed \/ first # None)
  /\ UNCHANGED <<config, state, polls, owed, http_status, posted, garbled>>

\* The method understood: whole requests contain the rest of their letter's.
Method(c, m) == IF first = m \/ (first = None /\ half[c] = None) THEN m ELSE "UNKNOWN"

(* webserver_send_response; long_poll_register *)
webserver_send_response(code) == http_status' = code /\ UNCHANGED <<polls, owed, posted>>
long_poll_register(c, url) ==
  /\ polls' = [polls EXCEPT ![c][url] = @ + 1]
  /\ owed' = [owed EXCEPT ![c] = @ + 1]
  /\ http_status' = 0
  /\ UNCHANGED posted

(* webserver_basic_authentication, webserver_find_handler; the handlers of *)
(* events and of what takes time set the status to 0                       *)
webserver_basic_authentication(creds) == creds
webserver_find_handler(url) == url # "missing"
events_handler(url) == url \in Waits

(* webserver_request, in the order of its checks; creds: the credentials   *)
(* fit; content: a POST has a length and a body; up: it asks for a socket  *)
Status(c, method, url, creds, content, up) ==
  IF config.ssl /\ c \notin Secure THEN 302
  ELSE IF method = "OPTIONS" THEN 200
  ELSE IF method = "UNKNOWN" THEN 501
  ELSE IF up THEN 101
  ELSE IF config.auth /\ ~webserver_basic_authentication(creds) THEN 401
  ELSE IF method = "POST" /\ ~content THEN 501
  ELSE IF ~webserver_find_handler(url) THEN 404
  ELSE IF events_handler(url) THEN 0
  ELSE 200

Dispatch(c, method, url, creds, content, up) ==
  LET code == Status(c, method, url, creds, content, up)
  IN  /\ state' = IF code = 101 THEN [state EXCEPT ![c] = "socket"] ELSE state
      /\ CASE code = 0 -> long_poll_register(c, url)
           [] code = 200 /\ method = "POST" -> Raise(url)
           [] OTHER -> webserver_send_response(code)

Request(c) ==
  /\ state[c] = "open" /\ owed[c] < MaxOwed
  /\ \E m \in Methods, url \in Urls, creds, content, up \in BOOLEAN :
       /\ half[c] \in {None, m}
       /\ up => m = "GET" /\ url = "plain"
       /\ creds \/ config.auth
       /\ content \/ m = "POST"
       /\ IF config.ssl /\ c \notin Secure
            THEN UNCHANGED <<first, garbled>>
            ELSE first' = None /\ garbled' = (garbled \/ Method(c, m) = "UNKNOWN")
       /\ Dispatch(c, Method(c, m), url, creds, content, up)
  /\ mixed' = (mixed \/ (first # None /\ half[c] = None) \/ (first = None /\ half[c] # None))
  /\ half' = [half EXCEPT ![c] = None]
  /\ UNCHANGED config

(* long_poll_close_all, before a restart or a change of network *)
CloseAll ==
  /\ \E c \in Conns : Count(c) > 0
  /\ state' = [c \in Conns |-> IF Count(c) > 0 THEN "closed" ELSE state[c]]
  /\ UNCHANGED <<config, half, first, polls, owed, http_status, posted, mixed, garbled>>

Next ==
  \/ \E c \in Conns : Connect(c) \/ Break(c) \/ Discon(c) \/ Letter(c) \/ Request(c)
  \/ Event
  \/ CloseAll

Spec == Init /\ [][Next]_vars
-----------------------------------------------------------------------------
TypeOK ==
  /\ \A c \in Conns : state[c] \in {"none", "open", "socket", "closed"} /\ owed[c] \in 0..MaxOwed
  /\ polls \in [Conns -> [Waits -> 0..MaxOwed]]

\* A request of an open connection that has no answer is in the list, once,
\* so the event it waits for answers it, once.
OneAnswer == \A c \in Conns : state[c] \in {"open", "socket"} => owed[c] = Count(c)

\* The list holds no connection that is gone: what it points to is freed.
NoDeadPoll == \A c \in Conns : Count(c) > 0 => state[c] # "none"

\* A request that came letter by letter is understood, unless another
\* connection's came in between.
SplitUnderstood == garbled => mixed
=============================================================================
