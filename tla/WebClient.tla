------------------------------ MODULE WebClient ------------------------------
(***************************************************************************)
(* The requests the device makes itself (user_webclient.c): HTTP posts of  *)
(* events, or a WebSocket to the same server when it is set up for one.    *)
(* A request has its connection and at most two timers, one that ends it   *)
(* when no answer comes and one that repeats it; a lost WebSocket is asked *)
(* for again by a third.  The timers are those of UserTimer, heap records. *)
(*                                                                         *)
(* A callback is a sequence of steps here, one for each function it calls: *)
(* `todo` holds those to come, and no other callback starts before they    *)
(* are done.  A request and its connection are allocated and freed         *)
(* together, and one block stands for both; NoDeadSocket says why          *)
(* webclient_renew_connection never parts them.                            *)
(*                                                                         *)
(* Not here: what a name lookup finds when its connection was freed, and   *)
(* freed timer records that the rest of the heap takes.                    *)
(***************************************************************************)
EXTENDS UserTimer, Sequences

CONSTANTS
  Req,       \* blocks that are requests with their connections
  W16,       \* 2^16: reconnect_timer is uint16
  MaxSets    \* bound: no callback begins after so many timers were set

ASSUME WidthAssumption == W16 \in Nat /\ W16 >= 2 /\ MaxSets \in Nat /\ MaxSets + 2 < W

VARIABLES
  requests,   \* webclient_requests
  req,        \* the fields of each request
  sock,       \* connection->state, and whether what was sent has arrived
  lookup,     \* the connections whose server name is being looked up
  upgraded,   \* the connections in the list of websockets
  wifi,       \* wifi_station_get_connect_status() == STATION_GOT_IP
  socketed,   \* user_config_events_websocket()
  reconnect_timer,
  job,        \* what each timer record calls, and with what
  todo        \* the calls left to make in this callback

netVars == <<lookup, upgraded, wifi, socketed>>
vars == <<timerVars, requests, req, sock, netVars, reconnect_timer, job, todo>>

Listed == {requests[i] : i \in DOMAIN requests}

NewFields(state) == [state |-> state, response |-> "INIT", resolved |-> FALSE,
                     retry_timer |-> 0, disconnect_timer |-> 0]

Call(f, x) == [call |-> f, arg |-> x]
NoCall == Call("none", NoBlock)

Init ==
  /\ NoTimers
  /\ requests = <<>>
  /\ req = [r \in Req |-> NewFields("FREE")]
  /\ sock = [r \in Req |-> "FREE"]
  /\ lookup = {} /\ upgraded = {}
  /\ wifi = TRUE /\ socketed \in BOOLEAN
  /\ reconnect_timer = 0
  /\ job = [b \in Block |-> NoCall]
  /\ todo = <<>>

-----------------------------------------------------------------------------
(* The calls: each is a step that begins with itself at the head of `todo`   *)
(* and puts the calls it makes in its place.                                 *)

Runs(f, x) == todo # <<>> /\ Head(todo) = Call(f, x)
Calls(fs)  == todo' = fs \o Tail(todo)

Cancel(handles) ==
  /\ Free({b \in listed : handle[b] \in handles})
  /\ UNCHANGED <<running, due, job>>

SetJob(j) ==
  /\ SetTimer(TRUE)
  /\ job' = [b \in Block |-> IF b \in listed' \ listed THEN j ELSE job[b]]

SameTimers == UNCHANGED <<timerVars, job>>

\* Mutant: the timer that ends the request is left alone.
OwnRetry(r) == {req[r].retry_timer}
\* The handles webclient_reset_timers cancels; 0 is none's.
Own(r) == {req[r].retry_timer, req[r].disconnect_timer}

ResetTimers(r) ==
  /\ Cancel(Own(r))
  /\ req' = [req EXCEPT ![r].retry_timer = 0, ![r].disconnect_timer = 0]

\* webclient_execute, up to the timer; an open WebSocket gets the content at once.
Execute(r) ==
  /\ Runs("execute", r)
  /\ ResetTimers(r)
  /\ Calls(IF r \in upgraded THEN <<>> ELSE <<Call("guard", r), Call("resolve", r)>>)
  /\ UNCHANGED <<requests, sock, netVars, reconnect_timer>>

Guard(r) ==
  /\ Runs("guard", r)
  /\ SetJob(Call("timeout", r))
  /\ req' = [req EXCEPT ![r].disconnect_timer = last_handle]
  /\ Calls(<<>>)
  /\ UNCHANGED <<requests, sock, netVars, reconnect_timer>>

\* An address is at hand at once, a name has to be looked up.
Resolve(r) ==
  /\ Runs("resolve", r)
  /\ \/ Calls(<<Call("connect", r)>>) /\ UNCHANGED lookup
     \/ Calls(<<>>) /\ lookup' = lookup \union {r}
  /\ SameTimers
  /\ UNCHANGED <<requests, req, sock, upgraded, wifi, socketed, reconnect_timer>>

(* webclient_dns, when the name was found; espconn_connect may fail, and does *)
(* for a connection in use.                                                   *)
Connect(r) ==
  /\ Runs("connect", r)
  /\ req' = [req EXCEPT ![r].resolved = TRUE]
  /\ \/ /\ sock[r] \in {"NONE", "CLOSE"}
        /\ sock' = [sock EXCEPT ![r] = "WAIT"]
        /\ Calls(<<>>)
     \/ Calls(<<Call("error", r)>>) /\ UNCHANGED sock
  /\ SameTimers
  /\ UNCHANGED <<requests, netVars, reconnect_timer>>

ErrorFrees(r) == <<Call("free", r)>>        \* mutant: a request that fails is dropped

\* Mutant: a lost WebSocket is repeated like a post.
ErrorRetries(r) ==
  IF wifi THEN <<Call("reset", r), Call("retry", r)>> ELSE <<Call("free", r)>>

\* webclient_error, with WEBCLIENT_RETRY_MAX 0: there is no last attempt
ErrorCalls(r) ==
  IF req[r].state # "HTTP" /\ sock[r] = "CLOSE"
  THEN <<Call("free", r), Call("forget", NoBlock), Call("reconnect", NoBlock)>>
  ELSE IF wifi THEN <<Call("reset", r), Call("retry", r)>>
  ELSE <<Call("free", r)>>

Error(r) ==
  /\ Runs("error", r)
  /\ Calls(ErrorCalls(r))
  /\ SameTimers
  /\ UNCHANGED <<requests, req, sock, netVars, reconnect_timer>>

Reset(r) ==
  /\ Runs("reset", r)
  /\ ResetTimers(r)
  /\ Calls(<<>>)
  /\ UNCHANGED <<requests, sock, netVars, reconnect_timer>>

Retry(r) ==
  /\ Runs("retry", r)
  /\ SetJob(Call("execute", r))
  /\ req' = [req EXCEPT ![r].retry_timer = last_handle]
  /\ Calls(<<>>)
  /\ UNCHANGED <<requests, sock, netVars, reconnect_timer>>

\* webclient_free_request and webclient_free_connection
FreeRequest(r) ==
  /\ Runs("free", r)
  /\ Cancel(Own(r))
  /\ \E i \in DOMAIN requests :
       /\ requests[i] = r
       /\ requests' = SubSeq(requests, 1, i - 1) \o SubSeq(requests, i + 1, Len(requests))
  /\ req' = [req EXCEPT ![r] = NewFields("FREE")]
  /\ sock' = [sock EXCEPT ![r] = "FREE"]
  /\ upgraded' = upgraded \ {r}
  /\ lookup' = lookup \ {r}
  /\ Calls(<<>>)
  /\ UNCHANGED <<wifi, socketed, reconnect_timer>>

Kept == {}                           \* mutant: the timer is not cancelled
Forgotten == {reconnect_timer}

\* clearTimeout(reconnect_timer), in webclient_error and webclient_socket
Forget ==
  /\ Runs("forget", NoBlock)
  /\ Cancel(Forgotten)
  /\ Calls(<<>>)
  /\ UNCHANGED <<requests, req, sock, netVars, reconnect_timer>>

Short(h) == h % W16

Reconnect ==
  /\ Runs("reconnect", NoBlock)
  /\ SetJob(Call("raise", NoBlock))
  /\ reconnect_timer' = Short(last_handle)
  /\ Calls(<<>>)
  /\ UNCHANGED <<requests, req, sock, netVars>>

\* The end of webclient_recv: a timer gets the connection's address.
Linger(r) ==
  /\ Runs("linger", r)
  /\ SetJob(Call("disconnect", r))
  /\ Calls(<<>>)
  /\ UNCHANGED <<requests, req, sock, netVars, reconnect_timer>>

(* user_event_raise, which webclient_raise_reconnect calls too; without a   *)
(* connection to the station nothing is sent.                               *)
Raise ==
  /\ Runs("raise", NoBlock)
  /\ Calls(IF ~ wifi THEN <<>>
           ELSE IF socketed THEN <<Call("forget", NoBlock), Call("socket", NoBlock)>>
           ELSE <<Call("post", NoBlock)>>)
  /\ SameTimers
  /\ UNCHANGED <<requests, req, sock, netVars, reconnect_timer>>

\* webclient_new_request and what webclient_post and webclient_socket do with it:
\* all requests are for one server and path, and the first is the one found.
Request(f, state) ==
  /\ Runs(f, NoBlock)
  /\ IF requests # <<>> /\ req[Head(requests)].state # "HTTP"
     THEN /\ Calls(IF req[Head(requests)].resolved
                   THEN <<Call("execute", Head(requests))>> ELSE <<>>)
          /\ UNCHANGED <<requests, req, sock>>
     ELSE \E r \in Req \ Listed :
            /\ requests' = Append(requests, r)
            /\ req' = [req EXCEPT ![r] = NewFields(state)]
            /\ sock' = [sock EXCEPT ![r] = "NONE"]
            /\ Calls(<<Call("execute", r)>>)
  /\ SameTimers
  /\ UNCHANGED <<netVars, reconnect_timer>>

\* webclient_timeout: espconn_disconnect refuses what is not connected.
Timeout(r) ==
  /\ Runs("timeout", r)
  /\ IF sock[r] \in {"CONNECT", "SENT"}
     THEN sock' = [sock EXCEPT ![r] = "CLOSING"] /\ Calls(<<>>)
     ELSE Calls(<<Call("error", r)>>) /\ UNCHANGED sock
  /\ SameTimers
  /\ UNCHANGED <<requests, req, netVars, reconnect_timer>>

\* espconn_disconnect of whatever has the block now
Disconnect(r) ==
  /\ Runs("disconnect", r)
  /\ sock' = IF sock[r] \in {"CONNECT", "SENT"} THEN [sock EXCEPT ![r] = "CLOSING"] ELSE sock
  /\ Calls(<<>>)
  /\ SameTimers
  /\ UNCHANGED <<requests, req, netVars, reconnect_timer>>

Work ==
  \/ \E r \in Req :
       \/ Execute(r) \/ Guard(r) \/ Resolve(r) \/ Connect(r)
       \/ Error(r) \/ Reset(r) \/ Retry(r) \/ FreeRequest(r)
       \/ Linger(r) \/ Timeout(r) \/ Disconnect(r)
  \/ Forget \/ Reconnect \/ Raise
  \/ Request("post", "HTTP") \/ Request("socket", "UPGRADE")

-----------------------------------------------------------------------------
(* What starts a callback *)

Idle == running = NoBlock /\ todo = <<>>

RaiseCalls == <<Call("raise", NoBlock)>>

\* Bounds: enough handles, records and requests are left for the callback.
Room(fs) ==
  /\ last_handle <= MaxSets
  /\ \E b1, b2 \in Block \ listed : b1 # b2
  /\ fs = RaiseCalls => Req \ Listed # {}

Starts(fs) == Idle /\ Room(fs) /\ todo' = fs

Expire(b) ==
  /\ Starts(<<job[b]>>)
  /\ Fire(b)
  /\ UNCHANGED <<requests, req, sock, netVars, reconnect_timer, job>>

Done ==
  /\ todo = <<>>
  /\ Finish
  /\ UNCHANGED <<requests, req, sock, netVars, reconnect_timer, job, todo>>

Event ==
  /\ Starts(RaiseCalls)
  /\ SameTimers
  /\ UNCHANGED <<requests, req, sock, netVars, reconnect_timer>>

\* The access point comes or goes, or the owner changes how events are sent.
Network ==
  /\ Idle
  /\ \/ wifi' = ~ wifi /\ UNCHANGED socketed
     \/ socketed' = ~ socketed /\ UNCHANGED wifi
  /\ SameTimers
  /\ UNCHANGED <<requests, req, sock, lookup, upgraded, reconnect_timer, todo>>

\* The name server answers, or nobody does.
Answered(r) ==
  /\ r \in lookup
  /\ Starts(<<Call("connect", r)>>) \/ Starts(<<Call("error", r)>>)
  /\ lookup' = lookup \ {r}
  /\ SameTimers
  /\ UNCHANGED <<requests, req, sock, upgraded, wifi, socketed, reconnect_timer>>

\* webclient_connect sends the request; webclient_sent learns that it arrived.
Connected(r) ==
  /\ sock[r] = "WAIT"
  /\ Starts(<<>>)
  /\ sock' = [sock EXCEPT ![r] = "CONNECT"]
  /\ SameTimers
  /\ UNCHANGED <<requests, req, netVars, reconnect_timer>>

Sent(r) ==
  /\ sock[r] = "CONNECT"
  /\ Starts(<<>>)
  /\ sock' = [sock EXCEPT ![r] = "SENT"]
  /\ req' = [req EXCEPT ![r].response = "WAIT"]
  /\ SameTimers
  /\ UNCHANGED <<requests, netVars, reconnect_timer>>

\* webclient_recv: the last part of an answer, or the first of one in chunks
Receive(r) ==
  /\ sock[r] = "SENT" /\ r \notin upgraded
  /\ \/ /\ req' = [req EXCEPT ![r].response = "OK"]
        /\ Starts(<<Call("linger", r)>>)
     \/ /\ req[r].response # "WAITCHUNK"
        /\ req' = [req EXCEPT ![r].response = "WAITCHUNK"]
        /\ Starts(<<>>)
  /\ SameTimers
  /\ UNCHANGED <<requests, sock, netVars, reconnect_timer>>

(* webclient_recv, when websocket_client_upgrade took the answer *)
Upgrade(r) ==
  /\ sock[r] = "SENT" /\ r \notin upgraded /\ req[r].state = "UPGRADE"
  /\ req' = [req EXCEPT ![r].state = "WEBSOCKET"]
  /\ upgraded' = upgraded \union {r}
  /\ Starts(<<Call("reset", r), Call("execute", r)>>)
  /\ SameTimers
  /\ UNCHANGED <<requests, sock, lookup, wifi, socketed, reconnect_timer>>

ClosedFrees(r) == req[r].state = "HTTP"     \* mutant: whether it was answered or not
\* webclient_disconnect: "after closing HTTP; and received data OK"
ClosedOK(r) == req[r].state = "HTTP" /\ req[r].response = "OK"

Close(r) == sock' = [sock EXCEPT ![r] = "CLOSE"]

Closed(r) ==
  /\ sock[r] \in {"CONNECT", "SENT", "CLOSING"}
  /\ Close(r)
  /\ Starts(<<IF ClosedOK(r) THEN Call("free", r) ELSE Call("error", r)>>)
  /\ SameTimers
  /\ UNCHANGED <<requests, req, netVars, reconnect_timer>>

\* webclient_reconnect: no connection was made, or it broke.
Broken(r) ==
  /\ sock[r] \in {"WAIT", "CONNECT", "SENT", "CLOSING"}
  /\ Close(r)
  /\ Starts(<<Call("error", r)>>)
  /\ SameTimers
  /\ UNCHANGED <<requests, req, netVars, reconnect_timer>>

Next ==
  \/ Work
  \/ \E b \in Block : Expire(b)
  \/ Done \/ Event \/ Network
  \/ \E r \in Req :
       \/ Answered(r) \/ Connected(r) \/ Sent(r)
       \/ Receive(r) \/ Upgrade(r) \/ Closed(r) \/ Broken(r)

Spec == Init /\ [][Next]_vars

-----------------------------------------------------------------------------
TypeOK ==
  /\ TimersTypeOK
  /\ requests \in Seq(Req)
  /\ req \in [Req -> [state : {"FREE", "HTTP", "UPGRADE", "WEBSOCKET"},
                      response : {"INIT", "WAIT", "WAITCHUNK", "OK"}, resolved : BOOLEAN,
                      retry_timer : Handle, disconnect_timer : Handle]]
  /\ sock \in [Req -> {"FREE", "NONE", "WAIT", "CONNECT", "SENT", "CLOSING", "CLOSE"}]
  /\ lookup \subseteq Req /\ upgraded \subseteq Req
  /\ {wifi, socketed} \subseteq BOOLEAN
  /\ reconnect_timer \in 0 .. W16 - 1
  /\ DOMAIN job = Block

Ends(r)    == {b \in armed : job[b] = Call("timeout", r)}
Repeats(r) == {b \in armed : job[b] = Call("execute", r)}

\* The timers that webclient_execute and webclient_error set die with their request:
\* none fires for a request, or a connection, that webclient_free_request freed.
NoTimerOfFreed == \A r \in Req : r \notin Listed => Ends(r) \union Repeats(r) = {}

\* A request has one timer at most, to end it or to repeat it, and it is the one
\* whose handle the request holds: "Prevent previous retry attempt to be fired"
\* (webclient_error).
OneTimerEach ==
  \A r \in Req : \A b, c \in Ends(r) \union Repeats(r) : b = c /\ handle[b] \in Own(r)

\* However a WebSocket is lost, and events and timers ask for it again, no two
\* timers are set to ask, as long as every handle but the newest fits the 16 bits of
\* reconnect_timer.
ReconnectOnce ==
  last_handle <= W16 + 1 =>
    \A b, c \in armed : job[b].call = "raise" /\ job[c].call = "raise" => b = c

\* No timer set to end an unanswered request ends the WebSocket it has become.
SocketKept == Idle => \A r \in upgraded : Ends(r) = {}

\* Between callbacks no request for a WebSocket sits on a closed connection:
\* webclient_renew_connection finds none to replace.
NoDeadSocket ==
  Idle => \A r \in Listed : req[r].state # "HTTP" => sock[r] # "CLOSE"

\* A post leaves the list when it was answered, or when the station is not
\* connected, and for no other reason.
PostsKept ==
  [][\A r \in Req : req[r].state = "HTTP" /\ req'[r].state = "FREE" =>
       req[r].response = "OK" \/ ~ wifi]_vars

\* "we want to be sure to clear request if timeout occurs" (webclient_execute): the
\* timer it set is armed until it expires or webclient_reset_timers cancels it.
Attended ==
  Idle => \A r \in Listed :
            req[r].disconnect_timer # 0 /\ sock[r] \notin {"CLOSING", "CLOSE"} => Ends(r) # {}
=============================================================================
