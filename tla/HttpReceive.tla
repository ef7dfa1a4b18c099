----------------------------- MODULE HttpReceive -----------------------------
(***************************************************************************)
(* How user_webserver.c puts requests together.  Every connection shares   *)
(* one receiver, the static variables of webserver_recv: a request of less *)
(* than WEBSERVER_MAX_PACKET_LEN bytes is collected and handled at once, a *)
(* longer one is handled with its first packet and its other packets go to *)
(* the callback its handler registered, if it did.  While a request is     *)
(* under way, what other connections send is dropped.                      *)
(*                                                                         *)
(* A request is a number of units, the first of them its header; packets   *)
(* split it between units.  Unit i of connection c is <<c, i>>.  A client  *)
(* sends what its Content-Length says, and its connection is not reused by *)
(* another (a footprint names one connection).  The build has SSL = 0.     *)
(***************************************************************************)
EXTENDS Integers, Sequences

CONSTANTS
  Conn,         \* connections, each with its footprint (addresses and ports)
  Request,      \* [size: units, streams: its handler registers a chunk callback]
  MaxPacket,    \* WEBSERVER_MAX_PACKET_LEN, in units
  MaxRequests,  \* bound: requests sent on one connection
  None

VARIABLES
  \* the clients
  line,         \* "new", "open" or "closed"
  asked,        \* the request each is sending
  sent,         \* units of it sent so far
  requests,     \* requests it began
  \* webserver_recv
  total,        \* requestTotalLen: units of the request still to come
  chunkID,
  request,      \* the buffer: how many units it was made for, 0 if NULL, and what is in it
  footprint,
  \* webserver_request
  chunk,        \* webserver_chunk is registered
  \* history
  fed,          \* the units given to the latest handler, and to its callback
  ended,        \* and whether it was told that they are all
  fedSize,      \* how many there are in that request
  accepted,     \* the header of the request on this line was taken up
  handled,      \* the units of it that were handled
  broke         \* a connection broke

clientVars  == <<line, asked, sent, requests>>
historyVars == <<fed, ended, fedSize, accepted, handled, broke>>
vars == <<clientVars, total, chunkID, request, footprint, chunk, historyVars>>

NoBuffer == [size |-> 0, units |-> <<>>]
Units(c, from, to) == [i \in 1 .. (to - from + 1) |-> <<c, from + i - 1>>]

Init ==
  /\ line = [c \in Conn |-> "new"]
  /\ asked \in [Conn -> Request]
  /\ sent = [c \in Conn |-> 0]
  /\ requests = [c \in Conn |-> 0]
  /\ total = 0 /\ chunkID = 0 /\ request = NoBuffer /\ footprint = None
  /\ chunk = FALSE
  /\ fed = <<>> /\ ended = FALSE /\ fedSize = 0
  /\ accepted = [c \in Conn |-> FALSE]
  /\ handled = [c \in Conn |-> 0]
  /\ broke = FALSE

-----------------------------------------------------------------------------
(* webserver_request: a chunk goes to the callback, if there is one; a first *)
(* packet that is no header is answered 501; a header goes to its handler.   *)
WebserverRequest(c, units, id, isLast) ==
  \/ /\ id # 0 /\ chunk
     /\ fed' = fed \o units
     /\ ended' = isLast
     /\ handled' = [handled EXCEPT ![c] = @ + Len(units)]
     /\ UNCHANGED <<chunk, fedSize>>
  \/ /\ id # 0 /\ ~ chunk
     /\ UNCHANGED <<chunk, fed, ended, fedSize, handled>>
  \/ /\ id = 0 /\ units[1][2] # 1
     /\ chunk' = FALSE
     /\ UNCHANGED <<fed, ended, fedSize, handled>>
  \/ /\ id = 0 /\ units[1][2] = 1
     /\ chunk' = asked[c].streams
     /\ fed' = units
     /\ ended' = isLast
     /\ fedSize' = asked[c].size
     /\ handled' = [handled EXCEPT ![c] = @ + Len(units)]

Match(c) == footprint = c

Left(n, units) == n - Len(units)

\* One packet, when this much of the request is to come, this much is in the
\* buffer and this is the packet's number.
Take(c, units, n, buffer, id) ==
  /\ total' = Left(n, units)
  /\ chunkID' = id + 1
  /\ IF buffer.size = 0
     THEN /\ WebserverRequest(c, units, id, Len(units) = n)
          /\ request' = NoBuffer
     ELSE LET all == buffer.units \o units
          IN  IF total' = 0
              THEN /\ WebserverRequest(c, all, 0, TRUE)
                   /\ request' = NoBuffer
              ELSE /\ request' = [buffer EXCEPT !.units = all]
                   /\ UNCHANGED <<chunk, fed, ended, fedSize, handled>>

\* webserver_request_total_len: without a header the packet is all there is.
TotalLen(c, units) == IF units[1][2] = 1 THEN asked[c].size ELSE Len(units)

Buffer(n, units) ==
  IF n # Len(units) /\ n < MaxPacket THEN [size |-> n, units |-> <<>>] ELSE NoBuffer

(* webserver_recv *)
First(c, units) ==
  /\ total = 0
  /\ footprint' = c
  /\ LET n == TotalLen(c, units) IN Take(c, units, n, Buffer(n, units), 0)
  /\ accepted' = [accepted EXCEPT ![c] = @ \/ units[1][2] = 1]
  /\ UNCHANGED broke

Later(c, units) ==
  /\ total # 0 /\ Match(c)
  /\ Take(c, units, total, request, chunkID)
  /\ UNCHANGED <<footprint, accepted, broke>>

Dropped(c) ==
  /\ total # 0 /\ ~ Match(c)
  /\ UNCHANGED <<total, chunkID, request, footprint, chunk, historyVars>>

-----------------------------------------------------------------------------
Connect(c) ==
  /\ line[c] = "new"
  /\ line' = [line EXCEPT ![c] = "open"]
  /\ UNCHANGED <<asked, sent, requests, total, chunkID, request, footprint, chunk, historyVars>>

\* A client begins a request when its last one is sent.
Ask(c, r) ==
  /\ line[c] = "open" /\ requests[c] < MaxRequests
  /\ requests[c] > 0 => sent[c] = asked[c].size
  /\ requests' = [requests EXCEPT ![c] = @ + 1]
  /\ asked' = [asked EXCEPT ![c] = r]
  /\ sent' = [sent EXCEPT ![c] = 0]
  /\ accepted' = [accepted EXCEPT ![c] = FALSE]
  /\ handled' = [handled EXCEPT ![c] = 0]
  /\ UNCHANGED <<line, total, chunkID, request, footprint, chunk, fed, ended, fedSize, broke>>

\* The next k units of its request arrive.
Receive(c, k) ==
  /\ line[c] = "open" /\ requests[c] > 0
  /\ sent[c] + k <= asked[c].size
  /\ LET units == Units(c, sent[c] + 1, sent[c] + k)
     IN  First(c, units) \/ Later(c, units) \/ Dropped(c)
  /\ sent' = [sent EXCEPT ![c] = @ + k]
  /\ UNCHANGED <<line, asked, requests>>

\* webserver_recon: webserver_recv without data gives up the request under way,
\* this connection's or another's.
Broken(c) ==
  /\ line[c] = "open"
  /\ line' = [line EXCEPT ![c] = "closed"]
  /\ total' = 0 /\ request' = NoBuffer
  /\ broke' = TRUE
  /\ UNCHANGED <<asked, sent, requests, chunkID, footprint, chunk,
                 fed, ended, fedSize, accepted, handled>>

\* webserver_discon: the queues forget the connection, webserver_recv is not told.
Disconnected(c) ==
  /\ line[c] = "open"
  /\ line' = [line EXCEPT ![c] = "closed"]
  /\ UNCHANGED <<asked, sent, requests, total, chunkID, request, footprint, chunk, historyVars>>

MaxSize == CHOOSE n \in {r.size : r \in Request} : \A r \in Request : r.size <= n

Next ==
  \E c \in Conn :
    \/ Connect(c)
    \/ \E r \in Request : Ask(c, r)
    \/ \E k \in 1 .. MaxSize : Receive(c, k)
    \/ Broken(c)
    \/ Disconnected(c)

Spec == Init /\ [][Next]_vars

-----------------------------------------------------------------------------
Unit == Conn \X (1 .. MaxSize)

TypeOK ==
  /\ line \in [Conn -> {"new", "open", "closed"}]
  /\ asked \in [Conn -> Request]
  /\ sent \in [Conn -> 0 .. MaxSize]
  /\ requests \in [Conn -> 0 .. MaxRequests]
  /\ total \in 0 .. MaxSize /\ chunkID \in Nat
  /\ request.size \in 0 .. MaxSize /\ request.units \in Seq(Unit)
  /\ footprint \in Conn \union {None}
  /\ chunk \in BOOLEAN /\ ended \in BOOLEAN
  /\ fed \in Seq(Unit) /\ fedSize \in 0 .. MaxSize
  /\ accepted \in [Conn -> BOOLEAN] /\ handled \in [Conn -> Nat] /\ broke \in BOOLEAN

\* A handler and the chunk callback it registered get the units of one request, in
\* order and with no gap, whatever other connections send, break or close meanwhile;
\* isLast comes with the last unit and no other.
InOrder(units) == \A i \in DOMAIN units : units[i] = <<units[1][1], i>>

DeliveredInOrder ==
  /\ InOrder(fed)
  /\ fed # <<>> /\ chunk => (ended <=> Len(fed) = fedSize)

\* The buffer was made for what it holds and what is still to come: the copy of a
\* packet does not run past its end.
BufferHasRoom ==
  request.size # 0 =>
    /\ Len(request.units) + total = request.size
    /\ InOrder(request.units)
    /\ request.units # <<>> /\ request.units[1][1] = footprint

\* As long as no connection breaks, a request whose header was taken is handled
\* whole once it is sent, if it is short or streams (webserver_recv).
Whole(c) == asked[c].streams \/ asked[c].size < MaxPacket

AcceptedIsHandled ==
  \A c \in Conn :
    ~ broke /\ accepted[c] /\ Whole(c) /\ sent[c] = asked[c].size => handled[c] = asked[c].size

\* A request under way belongs to a connection that is there to finish it
\* (webserver_recv: pData is "NULL when the connection has been closed!").
OwnerConnected == total # 0 => line[footprint] = "open"
=============================================================================
