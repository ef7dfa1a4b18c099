--------------------------- MODULE WebClientProofs ---------------------------
(***************************************************************************)
(* The requests of user_webclient.c and their timers, for any number of    *)
(* requests, records and handles, as long as the handles do not come round *)
(* (WidthAssumption).  The argument: a timer of a request is the one whose *)
(* handle the request's field for such a timer holds; so webclient_reset_  *)
(* timers cancels them all, and every path that sets one, or frees the     *)
(* request, has just called it.  The paths are the contents `todo` takes.  *)
(***************************************************************************)
EXTENDS WebClient, SequenceTheorems, TLAPS

USE HandleAssumption, BlockAssumption, WidthAssumption

Timers(r) == Ends(r) \union Repeats(r)
Asks == {b \in armed : job[b].call = "raise"}

-----------------------------------------------------------------------------
(* The invariant *)

\* Records and handles: each timer its own, and none used twice.
RecordsOK ==
  /\ last_handle \in 1 .. MaxSets + 2
  /\ armed \subseteq listed
  /\ \A b \in listed : handle[b] \in 1 .. last_handle - 1
  /\ \A b, c \in listed : handle[b] = handle[c] => b = c

\* The list, the fields and the connections tell the same requests.
RequestsOK ==
  /\ \A i, j \in DOMAIN requests : requests[i] = requests[j] => i = j
  /\ \A r \in Req : /\ r \in Listed <=> req[r].state # "FREE"
                    /\ r \in Listed <=> sock[r] # "FREE"
  /\ lookup \subseteq Listed /\ upgraded \subseteq Listed

\* What armed timers call.
JobsOK ==
  \A b \in armed :
    \/ job[b] = Call("raise", NoBlock)
    \/ \E r \in Req : job[b] \in {Call("timeout", r), Call("execute", r), Call("disconnect", r)}

One(f, r) == <<Call(f, r)>>
GuardCalls(r) == <<Call("guard", r), Call("resolve", r)>>
RetryCalls(r) == <<Call("reset", r), Call("retry", r)>>
AgainCalls(r) == <<Call("reset", r), Call("execute", r)>>
LostCalls(r)  == <<Call("free", r), Call("forget", NoBlock), Call("reconnect", NoBlock)>>
RenewCalls    == <<Call("forget", NoBlock), Call("reconnect", NoBlock)>>
SocketCalls   == <<Call("forget", NoBlock), Call("socket", NoBlock)>>

(* What a callback may have left to do, with handles enough left for it,    *)
(* about a request that is there.                                           *)
TodoTwice ==   \* two timers may be set before it ends
  \/ todo \in {One("raise", NoBlock), SocketCalls, One("socket", NoBlock), One("post", NoBlock)}
  \/ \E r \in Listed : todo \in {One("execute", r), GuardCalls(r), AgainCalls(r)}

TodoOnce ==    \* one
  \/ todo \in {RenewCalls, One("reconnect", NoBlock)}
  \/ \E r \in Listed :
       todo \in {One("resolve", r), One("connect", r), One("error", r), LostCalls(r),
                 RetryCalls(r), One("retry", r), One("linger", r), One("timeout", r)}

TodoNever ==   \* none
  \/ todo = <<>>
  \/ \E r \in Listed : todo = One("free", r)
  \/ \E r \in Req : todo = One("disconnect", r)

TodoOK ==
  \/ TodoTwice /\ last_handle <= MaxSets
  \/ TodoOnce /\ last_handle <= MaxSets + 1
  \/ TodoNever

\* A request's timers are those its fields name, of one kind; none is left when one
\* is set.
OwnedOK ==
  \A r \in Req :
    /\ \A b \in Ends(r) : handle[b] = req[r].disconnect_timer
    /\ \A b \in Repeats(r) : handle[b] = req[r].retry_timer
    /\ Ends(r) = {} \/ Repeats(r) = {}
    /\ r \notin Listed \/ todo \in {GuardCalls(r), One("retry", r)} => Timers(r) = {}

\* The timer that asks for a WebSocket is the one reconnect_timer names, and none is
\* left when one is set.
AsksOK ==
  /\ last_handle <= W16 + 1 => \A b \in Asks : reconnect_timer = Short(handle[b])
  /\ last_handle <= W16 /\ todo = One("reconnect", NoBlock) => Asks = {}

\* A WebSocket's request ends by no timer, but until the callback that made it one
\* resets it.
UpgradedOK ==
  \A r \in upgraded : todo # GuardCalls(r) /\ (todo # AgainCalls(r) => Ends(r) = {})

\* A closed connection of a WebSocket's request is being seen to, and so is the
\* request that ends.
ClosedOKInv ==
  \A r \in Listed :
    /\ req[r].state # "HTTP" /\ sock[r] = "CLOSE" =>
         todo \in {One("free", r), One("error", r), LostCalls(r)}
    /\ todo = LostCalls(r) => req[r].state # "HTTP"
    /\ todo = One("free", r) /\ req[r].state = "HTTP" => req[r].response = "OK" \/ ~ wifi

IInv ==
  /\ TypeOK /\ RecordsOK /\ RequestsOK /\ JobsOK /\ TodoOK
  /\ OwnedOK /\ AsksOK /\ UpgradedOK /\ ClosedOKInv

-----------------------------------------------------------------------------
(* What is left to do, by what is next *)

LEMMA ShapeOfRequest ==
  ASSUME TodoOK, NEW r \in Req
  PROVE  /\ Runs("execute", r) => todo = One("execute", r) /\ r \in Listed /\ last_handle <= MaxSets
         /\ Runs("guard", r) => todo = GuardCalls(r) /\ r \in Listed /\ last_handle <= MaxSets
         /\ Runs("resolve", r) => todo = One("resolve", r) /\ r \in Listed /\ last_handle <= MaxSets + 1
         /\ Runs("connect", r) => todo = One("connect", r) /\ r \in Listed /\ last_handle <= MaxSets + 1
         /\ Runs("error", r) => todo = One("error", r) /\ r \in Listed /\ last_handle <= MaxSets + 1
         /\ Runs("reset", r) =>
              /\ r \in Listed
              /\ \/ todo = RetryCalls(r) /\ last_handle <= MaxSets + 1
                 \/ todo = AgainCalls(r) /\ last_handle <= MaxSets
         /\ Runs("retry", r) => todo = One("retry", r) /\ r \in Listed /\ last_handle <= MaxSets + 1
         /\ Runs("free", r) =>
              /\ r \in Listed
              /\ \/ todo = One("free", r)
                 \/ todo = LostCalls(r) /\ last_handle <= MaxSets + 1
         /\ Runs("linger", r) => todo = One("linger", r) /\ r \in Listed /\ last_handle <= MaxSets + 1
         /\ Runs("timeout", r) => todo = One("timeout", r) /\ r \in Listed /\ last_handle <= MaxSets + 1
         /\ Runs("disconnect", r) => todo = One("disconnect", r)
  BY DEF Runs, TodoOK, TodoTwice, TodoOnce, TodoNever, One, GuardCalls, RetryCalls, AgainCalls,
         LostCalls, RenewCalls, SocketCalls, Call

LEMMA ShapeOfRest ==
  ASSUME TodoOK
  PROVE  /\ Runs("forget", NoBlock) =>
              \/ todo = RenewCalls /\ last_handle <= MaxSets + 1
              \/ todo = SocketCalls /\ last_handle <= MaxSets
         /\ Runs("reconnect", NoBlock) => todo = One("reconnect", NoBlock) /\ last_handle <= MaxSets + 1
         /\ Runs("raise", NoBlock) => todo = One("raise", NoBlock) /\ last_handle <= MaxSets
         /\ Runs("post", NoBlock) => todo = One("post", NoBlock) /\ last_handle <= MaxSets
         /\ Runs("socket", NoBlock) => todo = One("socket", NoBlock) /\ last_handle <= MaxSets
  BY DEF Runs, TodoOK, TodoTwice, TodoOnce, TodoNever, One, GuardCalls, RetryCalls, AgainCalls,
         LostCalls, RenewCalls, SocketCalls, Call

-----------------------------------------------------------------------------
(* The timers *)

\* Timers that end or are cancelled leave the others as they were.
LEMMA FewerTimers ==
  ASSUME RecordsOK, JobsOK, armed' \subseteq armed, listed' \subseteq listed,
         armed' \subseteq listed', UNCHANGED <<handle, job, last_handle>>
  PROVE  /\ RecordsOK' /\ JobsOK'
         /\ \A r \in Req : Ends(r)' \subseteq Ends(r) /\ Repeats(r)' \subseteq Repeats(r)
         /\ Asks' \subseteq Asks
  BY DEF RecordsOK, JobsOK, Ends, Repeats, Asks

LEMMA CancelTimers ==
  ASSUME TimersTypeOK, RecordsOK, JobsOK, NEW handles, Cancel(handles)
  PROVE  /\ TimersTypeOK' /\ RecordsOK' /\ JobsOK' /\ UNCHANGED <<handle, job, last_handle>>
         /\ \A r \in Req : Ends(r)' \subseteq Ends(r) /\ Repeats(r)' \subseteq Repeats(r)
         /\ Asks' \subseteq Asks
         /\ \A b \in armed' : handle[b] \notin handles
  <1>1. /\ listed' \subseteq listed /\ armed' \subseteq armed /\ armed' \subseteq listed'
        /\ UNCHANGED <<handle, job, last_handle, oneshot, running, due>>
        /\ \A b \in armed' : handle[b] \notin handles
    BY DEF Cancel, Free, RecordsOK
  <1>2. TimersTypeOK'
    BY <1>1 DEF TimersTypeOK
  <1> QED BY <1>1, <1>2, FewerTimers

\* A timer that is set has a handle of its own.
LEMMA SetOneTimer ==
  ASSUME TimersTypeOK, RecordsOK, JobsOK, DOMAIN job = Block, NEW j, SetJob(j),
         last_handle <= MaxSets + 1,
         \/ j = Call("raise", NoBlock)
         \/ \E r \in Req : j \in {Call("timeout", r), Call("execute", r), Call("disconnect", r)}
  PROVE  /\ TimersTypeOK' /\ RecordsOK' /\ JobsOK' /\ DOMAIN job' = Block
         /\ last_handle' = last_handle + 1
         /\ \E b \in Block \ listed :
              /\ armed' = armed \union {b} /\ b \notin armed
              /\ job'[b] = j /\ handle'[b] = last_handle
              /\ \A c \in armed : job'[c] = job[c] /\ handle'[c] = handle[c]
  <1>1. PICK b \in Block \ listed :
          /\ listed' = listed \union {b}
          /\ handle' = [handle EXCEPT ![b] = last_handle]
          /\ oneshot' = oneshot \union {b}
          /\ armed' = armed \union {b}
          /\ last_handle' = NextHandle(last_handle)
          /\ UNCHANGED <<running, due>>
    BY DEF SetJob, SetTimer
  <1>2. last_handle \in 1 .. MaxSets + 1 /\ MaxSets + 2 < W /\ MaxSets \in Int
    BY DEF RecordsOK
  <1>3. last_handle' = last_handle + 1
    <2>1. (last_handle + 1) % W = last_handle + 1
      BY <1>2
    <2> QED BY <1>1, <1>2, <2>1 DEF NextHandle
  <1>4. last_handle \in Handle /\ last_handle' \in Handle
    BY <1>2, <1>3 DEF Handle
  <1>5. handle'[b] = last_handle /\ \A c \in listed : handle'[c] = handle[c]
    BY <1>1 DEF TimersTypeOK
  <1>6. TimersTypeOK'
    BY <1>1, <1>4 DEF TimersTypeOK
  <1>7. RecordsOK'
    BY <1>1, <1>2, <1>3, <1>5 DEF RecordsOK
  <1>8. /\ job' = [c \in Block |-> IF c \in listed' \ listed THEN j ELSE job[c]]
        /\ b \notin armed /\ armed \subseteq listed /\ listed \subseteq Block
    BY <1>1 DEF SetJob, RecordsOK, TimersTypeOK
  <1>9. job'[b] = j /\ \A c \in armed : job'[c] = job[c]
    BY <1>1, <1>8
  <1>10. JobsOK'
    BY <1>1, <1>9 DEF JobsOK
  <1> QED BY <1>1, <1>3, <1>5, <1>6, <1>7, <1>8, <1>9, <1>10

-----------------------------------------------------------------------------
(* Steps that leave the timers alone *)

Fields == [state : {"FREE", "HTTP", "UPGRADE", "WEBSOCKET"},
           response : {"INIT", "WAIT", "WAITCHUNK", "OK"}, resolved : BOOLEAN,
           retry_timer : Handle, disconnect_timer : Handle]
Socks == {"FREE", "NONE", "WAIT", "CONNECT", "SENT", "CLOSING", "CLOSE"}

\* What TypeOK, RequestsOK and OwnedOK ask of the fields and the connections.
FieldsKept ==
  /\ req' \in [Req -> Fields] /\ sock' \in [Req -> Socks]
  /\ \A r \in Req : /\ req'[r].state = "FREE" <=> req[r].state = "FREE"
                    /\ sock'[r] = "FREE" <=> sock[r] = "FREE"
                    /\ req'[r].retry_timer = req[r].retry_timer
                    /\ req'[r].disconnect_timer = req[r].disconnect_timer
  /\ lookup' \subseteq Listed /\ upgraded' \subseteq Listed
  /\ {wifi', socketed'} \subseteq BOOLEAN

\* What is next sets no timer at once.
SetsNone ==
  /\ \A r \in Req : todo # GuardCalls(r) /\ todo # One("retry", r)
  /\ todo # One("reconnect", NoBlock)

USE DEF One, GuardCalls, RetryCalls, AgainCalls, LostCalls, RenewCalls, SocketCalls

\* Before the step nothing is under way that ends or upgrades a request; after it
\* none ends at once, and no connection was closed.
Calm ==
  /\ \A r \in Req : todo \notin {One("error", r), One("free", r), LostCalls(r), AgainCalls(r)}
  /\ \A r \in Req : todo' \notin {One("free", r), LostCalls(r)}
  /\ \A r \in Req : /\ req'[r].state = "HTTP" <=> req[r].state = "HTTP"
                    /\ sock'[r] = "CLOSE" => sock[r] = "CLOSE"
  /\ UNCHANGED upgraded

LEMMA CalmOK ==
  ASSUME IInv, UNCHANGED <<requests, armed, job>>, SetsNone', Calm
  PROVE  UpgradedOK' /\ ClosedOKInv'
  <1>1. Listed \subseteq Req /\ upgraded \subseteq Req /\ Listed' = Listed
    BY DEF Listed, IInv, TypeOK
  <1>2. UpgradedOK'
    <2>1. \A r \in upgraded : Ends(r) = {}
      BY <1>1 DEF IInv, UpgradedOK, Calm
    <2>2. \A r \in Req : Ends(r)' = Ends(r)
      BY DEF Ends
    <2> QED BY <1>1, <2>1, <2>2 DEF UpgradedOK, Calm, SetsNone
  <1>3. ClosedOKInv'
    <2>1. \A r \in Listed : req[r].state # "HTTP" => sock[r] # "CLOSE"
      BY <1>1 DEF IInv, ClosedOKInv, Calm
    <2>2. \A r \in Listed : req'[r].state # "HTTP" => sock'[r] # "CLOSE"
      BY <1>1, <2>1 DEF Calm
    <2> QED BY <1>1, <2>2 DEF ClosedOKInv, Calm
  <1> QED BY <1>2, <1>3

LEMMA QuietOK ==
  ASSUME IInv, SameTimers, UNCHANGED <<requests, reconnect_timer>>, FieldsKept,
         TodoOK', SetsNone', Calm \/ (UpgradedOK' /\ ClosedOKInv')
  PROVE  IInv'
  <1>1. UNCHANGED <<listed, handle, oneshot, armed, last_handle, running, due, job>>
    BY DEF SameTimers, timerVars
  <1>2. Listed' = Listed /\ Listed \subseteq Req
    BY DEF Listed, IInv, TypeOK
  <1>3. \A r \in Req : Ends(r)' = Ends(r) /\ Repeats(r)' = Repeats(r)
    BY <1>1 DEF Ends, Repeats
  <1>4. TypeOK'
    BY <1>1, <1>2 DEF IInv, TypeOK, TimersTypeOK, FieldsKept, Fields, Socks
  <1>5. RecordsOK' /\ JobsOK'
    BY <1>1 DEF IInv, RecordsOK, JobsOK
  <1>6. RequestsOK'
    BY <1>2 DEF IInv, RequestsOK, FieldsKept
  <1>7. OwnedOK'
    BY <1>1, <1>2, <1>3 DEF IInv, OwnedOK, FieldsKept, SetsNone, Timers
  <1>8. AsksOK'
    BY <1>1 DEF IInv, AsksOK, Asks, Short, SetsNone
  <1>9. UpgradedOK' /\ ClosedOKInv'
    BY <1>1, CalmOK
  <1> QED BY <1>4, <1>5, <1>6, <1>7, <1>8, <1>9 DEF IInv

\* Fields, connections and lists a step leaves as they were.
LEMMA TypesOfFields ==
  ASSUME IInv
  PROVE  /\ TypeOK /\ TodoOK /\ RequestsOK
         /\ req \in [Req -> Fields] /\ sock \in [Req -> Socks]
         /\ lookup \subseteq Listed /\ upgraded \subseteq Listed /\ Listed \subseteq Req
         /\ wifi \in BOOLEAN /\ socketed \in BOOLEAN
         /\ last_handle \in 1 .. MaxSets + 2
  BY DEF IInv, TypeOK, RequestsOK, RecordsOK, Fields, Socks, Listed

LEMMA ResolveOK == ASSUME IInv, NEW r \in Req, Resolve(r) PROVE IInv'
  <1>1. todo = One("resolve", r) /\ r \in Listed /\ last_handle <= MaxSets + 1
    BY ShapeOfRequest DEF IInv, Resolve
  <1>2. todo' = One("connect", r) \/ todo' = <<>>
    BY <1>1 DEF Resolve, Calls
  <1>3. /\ UNCHANGED <<requests, req, sock, upgraded, wifi, socketed, reconnect_timer>>
        /\ SameTimers /\ lookup' \subseteq Listed
    BY <1>1, TypesOfFields DEF Resolve
  <1>4. FieldsKept
    BY <1>3, TypesOfFields DEF FieldsKept
  <1>5. Listed' = Listed /\ last_handle' = last_handle
    BY <1>3 DEF Listed, SameTimers, timerVars
  <1>6. TodoOK' /\ SetsNone'
    BY <1>1, <1>2, <1>5 DEF TodoOK, TodoOnce, TodoNever, SetsNone, Call
  <1>7. Calm
    BY <1>1, <1>2, <1>3 DEF Calm, Call
  <1> QED BY <1>3, <1>4, <1>6, <1>7, QuietOK

LEMMA ConnectOK == ASSUME IInv, NEW r \in Req, Connect(r) PROVE IInv'
  <1>1. todo = One("connect", r) /\ r \in Listed /\ last_handle <= MaxSets + 1
    BY ShapeOfRequest DEF IInv, Connect
  <1>2. todo' = One("error", r) \/ todo' = <<>>
    BY <1>1 DEF Connect, Calls
  <1>3. /\ UNCHANGED <<requests, lookup, upgraded, wifi, socketed, reconnect_timer>>
        /\ SameTimers /\ req' = [req EXCEPT ![r].resolved = TRUE]
        /\ sock' = [sock EXCEPT ![r] = "WAIT"] \/ UNCHANGED sock
    BY DEF Connect, netVars
  <1>4. sock[r] # "FREE"
    BY <1>1, TypesOfFields DEF RequestsOK
  <1>5. \A q \in Req : /\ req'[q] \in Fields /\ req'[q].state = req[q].state
                       /\ req'[q].retry_timer = req[q].retry_timer
                       /\ req'[q].disconnect_timer = req[q].disconnect_timer
    BY <1>3, TypesOfFields DEF Fields
  <1>6. \A q \in Req : /\ sock'[q] \in Socks
                       /\ sock'[q] = "FREE" <=> sock[q] = "FREE"
                       /\ sock'[q] = "CLOSE" => sock[q] = "CLOSE"
    BY <1>3, <1>4, TypesOfFields DEF Socks
  <1>7. FieldsKept
    BY <1>3, <1>5, <1>6, TypesOfFields DEF FieldsKept
  <1>8. Listed' = Listed /\ last_handle' = last_handle
    BY <1>3 DEF Listed, SameTimers, timerVars
  <1>9. TodoOK' /\ SetsNone'
    BY <1>1, <1>2, <1>8 DEF TodoOK, TodoOnce, TodoNever, SetsNone, Call
  <1>10. Calm
    BY <1>1, <1>2, <1>3, <1>5, <1>6 DEF Calm, Call
  <1> QED BY <1>3, <1>7, <1>9, <1>10, QuietOK

\* webclient_error: only a WebSocket's request with a closed connection is lost.
LEMMA ErrorOK == ASSUME IInv, NEW r \in Req, Error(r) PROVE IInv'
  <1>1. todo = One("error", r) /\ r \in Listed /\ last_handle <= MaxSets + 1
    BY ShapeOfRequest DEF IInv, Error
  <1>2. \/ todo' = LostCalls(r) /\ req[r].state # "HTTP" /\ sock[r] = "CLOSE"
        \/ /\ todo' = RetryCalls(r) \/ (todo' = One("free", r) /\ ~ wifi)
           /\ ~ (req[r].state # "HTTP" /\ sock[r] = "CLOSE")
    BY <1>1 DEF Error, Calls, ErrorCalls
  <1>3. UNCHANGED <<requests, req, sock, lookup, upgraded, wifi, socketed, reconnect_timer>>
        /\ SameTimers
    BY DEF Error, netVars
  <1>4. FieldsKept
    BY <1>3, TypesOfFields DEF FieldsKept
  <1>5. Listed' = Listed /\ last_handle' = last_handle /\ armed' = armed /\ job' = job
    BY <1>3 DEF Listed, SameTimers, timerVars
  <1>6. TodoOK' /\ SetsNone'
    BY <1>1, <1>2, <1>5 DEF TodoOK, TodoOnce, TodoNever, SetsNone, Call
  <1>7. UpgradedOK'
    BY <1>1, <1>2, <1>3, <1>5 DEF IInv, UpgradedOK, Call, Ends
  <1>8. ClosedOKInv'
    <2>1. \A q \in Listed : q # r => ~ (req[q].state # "HTTP" /\ sock[q] = "CLOSE")
      BY <1>1 DEF IInv, ClosedOKInv, Call
    <2>2. \A q \in Listed :
            /\ todo' = LostCalls(q) => q = r /\ req[q].state # "HTTP"
            /\ todo' = One("free", q) => ~ wifi
      BY <1>2 DEF Call
    <2> QED BY <1>2, <1>3, <1>5, <2>1, <2>2 DEF ClosedOKInv
  <1> QED BY <1>3, <1>4, <1>6, <1>7, <1>8, QuietOK

LEMMA RaiseOK == ASSUME IInv, Raise PROVE IInv'
  <1>1. todo = One("raise", NoBlock) /\ last_handle <= MaxSets
    BY ShapeOfRest DEF IInv, Raise
  <1>2. todo' \in {<<>>, SocketCalls, One("post", NoBlock)}
    BY <1>1 DEF Raise, Calls
  <1>3. UNCHANGED <<requests, req, sock, lookup, upgraded, wifi, socketed, reconnect_timer>>
        /\ SameTimers
    BY DEF Raise, netVars
  <1>4. FieldsKept
    BY <1>3, TypesOfFields DEF FieldsKept
  <1>5. last_handle' = last_handle
    BY <1>3 DEF SameTimers, timerVars
  <1>6. TodoOK' /\ SetsNone'
    BY <1>1, <1>2, <1>5 DEF TodoOK, TodoTwice, TodoNever, SetsNone, Call
  <1>7. Calm
    BY <1>1, <1>2, <1>3 DEF Calm, Call
  <1> QED BY <1>3, <1>4, <1>6, <1>7, QuietOK

\* webclient_timeout and espconn_disconnect: the connection is closed, or being closed.
LEMMA TimeoutOK == ASSUME IInv, NEW r \in Req, Timeout(r) PROVE IInv'
  <1>1. todo = One("timeout", r) /\ r \in Listed /\ last_handle <= MaxSets + 1
    BY ShapeOfRequest DEF IInv, Timeout
  <1>2. todo' \in {<<>>, One("error", r)}
    BY <1>1 DEF Timeout, Calls
  <1>3. /\ UNCHANGED <<requests, req, lookup, upgraded, wifi, socketed, reconnect_timer>>
        /\ SameTimers
        /\ \/ sock[r] \in {"CONNECT", "SENT"} /\ sock' = [sock EXCEPT ![r] = "CLOSING"]
           \/ UNCHANGED sock
    BY DEF Timeout, netVars
  <1>4. \A q \in Req : /\ sock'[q] = "FREE" <=> sock[q] = "FREE"
                       /\ sock'[q] = "CLOSE" => sock[q] = "CLOSE"
    BY <1>3, TypesOfFields DEF Socks
  <1>5. FieldsKept
    BY <1>3, <1>4, TypesOfFields DEF FieldsKept, Socks
  <1>6. Listed' = Listed /\ last_handle' = last_handle
    BY <1>3 DEF Listed, SameTimers, timerVars
  <1>7. TodoOK' /\ SetsNone'
    BY <1>1, <1>2, <1>6 DEF TodoOK, TodoOnce, TodoNever, SetsNone, Call
  <1>8. Calm
    BY <1>1, <1>2, <1>3, <1>4 DEF Calm, Call
  <1> QED BY <1>3, <1>5, <1>7, <1>8, QuietOK

LEMMA DisconnectOK == ASSUME IInv, NEW r \in Req, Disconnect(r) PROVE IInv'
  <1>1. todo = One("disconnect", r)
    BY ShapeOfRequest DEF IInv, Disconnect
  <1>2. todo' = <<>>
    BY <1>1 DEF Disconnect, Calls
  <1>3. /\ UNCHANGED <<requests, req, lookup, upgraded, wifi, socketed, reconnect_timer>>
        /\ SameTimers
        /\ \/ sock[r] \in {"CONNECT", "SENT"} /\ sock' = [sock EXCEPT ![r] = "CLOSING"]
           \/ UNCHANGED sock
    BY DEF Disconnect, netVars
  <1>4. \A q \in Req : /\ sock'[q] = "FREE" <=> sock[q] = "FREE"
                       /\ sock'[q] = "CLOSE" => sock[q] = "CLOSE"
    BY <1>3, TypesOfFields DEF Socks
  <1>5. FieldsKept
    BY <1>3, <1>4, TypesOfFields DEF FieldsKept, Socks
  <1>6. TodoOK' /\ SetsNone'
    BY <1>2 DEF TodoOK, TodoNever, SetsNone
  <1>7. Calm
    BY <1>1, <1>2, <1>3, <1>4 DEF Calm, Call
  <1> QED BY <1>3, <1>5, <1>6, <1>7, QuietOK

-----------------------------------------------------------------------------
(* Steps that begin a callback without touching the timers *)

\* Nothing is under way before them.
LEMMA StartsOK ==
  ASSUME IInv, NEW fs, Starts(fs)
  PROVE  todo = <<>> /\ todo' = fs /\ last_handle <= MaxSets
  BY DEF Starts, Idle, Room

LEMMA EventOK == ASSUME IInv, Event PROVE IInv'
  <1>1. todo = <<>> /\ todo' = One("raise", NoBlock) /\ last_handle <= MaxSets
    BY StartsOK DEF Event, RaiseCalls
  <1>2. UNCHANGED <<requests, req, sock, lookup, upgraded, wifi, socketed, reconnect_timer>>
        /\ SameTimers
    BY DEF Event, netVars
  <1>3. FieldsKept
    BY <1>2, TypesOfFields DEF FieldsKept
  <1>4. last_handle' = last_handle
    BY <1>2 DEF SameTimers, timerVars
  <1>5. TodoOK' /\ SetsNone'
    BY <1>1, <1>4 DEF TodoOK, TodoTwice, SetsNone, Call
  <1>6. Calm
    BY <1>1, <1>2 DEF Calm, Call
  <1> QED BY <1>2, <1>3, <1>5, <1>6, QuietOK

LEMMA NetworkOK == ASSUME IInv, Network PROVE IInv'
  <1>1. todo = <<>> /\ todo' = <<>>
    BY DEF Network, Idle
  <1>2. /\ UNCHANGED <<requests, req, sock, lookup, upgraded, reconnect_timer>>
        /\ SameTimers /\ wifi' \in BOOLEAN /\ socketed' \in BOOLEAN
    BY TypesOfFields DEF Network
  <1>3. FieldsKept
    BY <1>2, TypesOfFields DEF FieldsKept
  <1>4. TodoOK' /\ SetsNone'
    BY <1>1 DEF TodoOK, TodoNever, SetsNone
  <1>5. Calm
    BY <1>1, <1>2 DEF Calm
  <1> QED BY <1>2, <1>3, <1>4, <1>5, QuietOK

LEMMA AnsweredOK == ASSUME IInv, NEW r \in Req, Answered(r) PROVE IInv'
  <1>1. /\ todo = <<>> /\ todo' \in {One("connect", r), One("error", r)}
        /\ last_handle <= MaxSets /\ r \in Listed
    BY StartsOK, TypesOfFields DEF Answered
  <1>2. /\ UNCHANGED <<requests, req, sock, upgraded, wifi, socketed, reconnect_timer>>
        /\ SameTimers /\ lookup' \subseteq lookup
    BY DEF Answered
  <1>3. FieldsKept
    BY <1>2, TypesOfFields DEF FieldsKept
  <1>4. Listed' = Listed /\ last_handle' = last_handle
    BY <1>2 DEF Listed, SameTimers, timerVars
  <1>5. TodoOK' /\ SetsNone'
    BY <1>1, <1>4, TypesOfFields DEF TodoOK, TodoOnce, SetsNone, Call
  <1>6. Calm
    BY <1>1, <1>2 DEF Calm, Call
  <1> QED BY <1>2, <1>3, <1>5, <1>6, QuietOK

LEMMA ConnectedOK == ASSUME IInv, NEW r \in Req, Connected(r) PROVE IInv'
  <1>1. todo = <<>> /\ todo' = <<>>
    BY StartsOK DEF Connected
  <1>2. /\ UNCHANGED <<requests, req, lookup, upgraded, wifi, socketed, reconnect_timer>>
        /\ SameTimers /\ sock[r] = "WAIT" /\ sock' = [sock EXCEPT ![r] = "CONNECT"]
    BY DEF Connected, netVars
  <1>3. \A q \in Req : /\ sock'[q] = "FREE" <=> sock[q] = "FREE"
                       /\ sock'[q] = "CLOSE" => sock[q] = "CLOSE"
    BY <1>2, TypesOfFields DEF Socks
  <1>4. FieldsKept
    BY <1>2, <1>3, TypesOfFields DEF FieldsKept, Socks
  <1>5. TodoOK' /\ SetsNone'
    BY <1>1 DEF TodoOK, TodoNever, SetsNone
  <1>6. Calm
    BY <1>1, <1>2, <1>3 DEF Calm
  <1> QED BY <1>2, <1>4, <1>5, <1>6, QuietOK

\* A field other than the state and the timers changes.
LEMMA OtherField ==
  ASSUME IInv, NEW r \in Req, NEW v \in {"INIT", "WAIT", "WAITCHUNK", "OK"},
         req' = [req EXCEPT ![r].response = v]
  PROVE  /\ req' \in [Req -> Fields]
         /\ \A q \in Req : /\ req'[q].state = req[q].state
                           /\ req'[q].retry_timer = req[q].retry_timer
                           /\ req'[q].disconnect_timer = req[q].disconnect_timer
  <1>1. \A q \in Req : /\ req'[q] \in Fields /\ req'[q].state = req[q].state
                       /\ req'[q].retry_timer = req[q].retry_timer
                       /\ req'[q].disconnect_timer = req[q].disconnect_timer
    BY TypesOfFields DEF Fields
  <1> QED BY <1>1, TypesOfFields

LEMMA SentOK == ASSUME IInv, NEW r \in Req, Sent(r) PROVE IInv'
  <1>1. todo = <<>> /\ todo' = <<>>
    BY StartsOK DEF Sent
  <1>2. /\ UNCHANGED <<requests, lookup, upgraded, wifi, socketed, reconnect_timer>>
        /\ SameTimers /\ sock[r] = "CONNECT" /\ sock' = [sock EXCEPT ![r] = "SENT"]
        /\ req' = [req EXCEPT ![r].response = "WAIT"]
    BY DEF Sent, netVars
  <1>3. \A q \in Req : /\ sock'[q] = "FREE" <=> sock[q] = "FREE"
                       /\ sock'[q] = "CLOSE" => sock[q] = "CLOSE"
    BY <1>2, TypesOfFields DEF Socks
  <1>4. sock' \in [Req -> Socks]
    BY <1>2, TypesOfFields DEF Socks
  <1>5. FieldsKept
    BY <1>2, <1>3, <1>4, OtherField, TypesOfFields DEF FieldsKept
  <1>6. TodoOK' /\ SetsNone'
    BY <1>1 DEF TodoOK, TodoNever, SetsNone
  <1>7. Calm
    BY <1>1, <1>2, <1>3, OtherField DEF Calm
  <1> QED BY <1>2, <1>5, <1>6, <1>7, QuietOK

LEMMA ReceiveOK == ASSUME IInv, NEW r \in Req, Receive(r) PROVE IInv'
  <1>1. /\ todo = <<>> /\ todo' \in {<<>>, One("linger", r)}
        /\ last_handle <= MaxSets /\ r \in Listed
    BY StartsOK, TypesOfFields DEF Receive, RequestsOK
  <1>2. /\ UNCHANGED <<requests, sock, lookup, upgraded, wifi, socketed, reconnect_timer>>
        /\ SameTimers
        /\ \E v \in {"OK", "WAITCHUNK"} : req' = [req EXCEPT ![r].response = v]
    BY DEF Receive, netVars
  <1>3. /\ req' \in [Req -> Fields]
        /\ \A q \in Req : /\ req'[q].state = req[q].state
                          /\ req'[q].retry_timer = req[q].retry_timer
                          /\ req'[q].disconnect_timer = req[q].disconnect_timer
    BY <1>2, OtherField
  <1>4. FieldsKept
    BY <1>2, <1>3, TypesOfFields DEF FieldsKept
  <1>5. Listed' = Listed /\ last_handle' = last_handle
    BY <1>2 DEF Listed, SameTimers, timerVars
  <1>6. TodoOK' /\ SetsNone' /\ Calm
    <2>1. CASE todo' = <<>>
      BY <1>1, <1>2, <1>3, <2>1 DEF TodoOK, TodoNever, SetsNone, Calm
    <2>2. CASE todo' = One("linger", r)
      <3>1. TodoOK' /\ SetsNone'
        BY <1>1, <1>5, <2>2, TypesOfFields DEF TodoOK, TodoOnce, SetsNone, Call
      <3> QED BY <1>1, <1>2, <1>3, <2>2, <3>1 DEF Calm, Call
    <2> QED BY <1>1, <2>1, <2>2
  <1> QED BY <1>2, <1>4, <1>6, QuietOK

\* The callback that makes a WebSocket of a request resets the request's timers next.
LEMMA UpgradeOK == ASSUME IInv, NEW r \in Req, Upgrade(r) PROVE IInv'
  <1>1. /\ todo = <<>> /\ todo' = AgainCalls(r)
        /\ last_handle <= MaxSets /\ r \in Listed
    BY StartsOK, TypesOfFields DEF Upgrade, RequestsOK
  <1>2. /\ UNCHANGED <<requests, sock, lookup, wifi, socketed, reconnect_timer>>
        /\ SameTimers /\ sock[r] = "SENT" /\ req[r].state = "UPGRADE"
        /\ req' = [req EXCEPT ![r].state = "WEBSOCKET"]
        /\ upgraded' = upgraded \union {r}
    BY DEF Upgrade
  <1>3. \A q \in Req : /\ req'[q] \in Fields
                       /\ req'[q].state = "FREE" <=> req[q].state = "FREE"
                       /\ req'[q].state = "HTTP" <=> req[q].state = "HTTP"
                       /\ req'[q].retry_timer = req[q].retry_timer
                       /\ req'[q].disconnect_timer = req[q].disconnect_timer
    BY <1>2, TypesOfFields DEF Fields
  <1>4. req' \in [Req -> Fields]
    BY <1>2, <1>3, TypesOfFields
  <1>5. FieldsKept
    BY <1>1, <1>2, <1>3, <1>4, TypesOfFields DEF FieldsKept
  <1>6. Listed' = Listed /\ last_handle' = last_handle /\ armed' = armed /\ job' = job
    BY <1>2 DEF Listed, SameTimers, timerVars
  <1>7. TodoOK' /\ SetsNone'
    BY <1>1, <1>6, TypesOfFields DEF TodoOK, TodoTwice, SetsNone, Call
  <1>8. UpgradedOK'
    <2>1. \A q \in upgraded : Ends(q) = {}
      BY <1>1, TypesOfFields DEF IInv, UpgradedOK
    <2>2. \A q \in Req : Ends(q)' = Ends(q)
      BY <1>6 DEF Ends
    <2> QED BY <1>1, <1>2, <2>1, <2>2, TypesOfFields DEF UpgradedOK, Call
  <1>9. ClosedOKInv'
    BY <1>1, <1>2, <1>3, <1>6, TypesOfFields DEF IInv, ClosedOKInv, Call
  <1> QED BY <1>2, <1>5, <1>7, <1>8, <1>9, QuietOK

\* A connection closes or breaks: its request is next.
LEMMA ClosingOK ==
  ASSUME IInv, NEW r \in Req, r \in Listed, Close(r), todo = <<>>, last_handle <= MaxSets,
         \/ todo' = One("error", r)
         \/ todo' = One("free", r) /\ req[r].state = "HTTP" /\ req[r].response = "OK",
         UNCHANGED <<requests, req, lookup, upgraded, wifi, socketed, reconnect_timer>>,
         SameTimers
  PROVE  IInv'
  <1>1. sock' = [sock EXCEPT ![r] = "CLOSE"] /\ sock[r] # "FREE"
    BY TypesOfFields DEF Close, RequestsOK
  <1>2. \A q \in Req : /\ sock'[q] = "FREE" <=> sock[q] = "FREE"
                       /\ q # r /\ sock'[q] = "CLOSE" => sock[q] = "CLOSE"
    BY <1>1, TypesOfFields DEF Socks
  <1>3. FieldsKept
    BY <1>1, <1>2, TypesOfFields DEF FieldsKept, Socks
  <1>4. Listed' = Listed /\ last_handle' = last_handle /\ armed' = armed /\ job' = job
    BY DEF Listed, SameTimers, timerVars
  <1>5. TodoOK' /\ SetsNone'
    BY <1>4, TypesOfFields DEF TodoOK, TodoOnce, TodoNever, SetsNone, Call
  <1>6. UpgradedOK'
    <2>1. \A q \in upgraded : Ends(q) = {}
      BY TypesOfFields DEF IInv, UpgradedOK
    <2>2. \A q \in Req : Ends(q)' = Ends(q)
      BY <1>4 DEF Ends
    <2> QED BY <2>1, <2>2, TypesOfFields DEF UpgradedOK, Call
  <1>7. ClosedOKInv'
    <2>1. \A q \in Listed : req[q].state # "HTTP" => sock[q] # "CLOSE"
      BY DEF IInv, ClosedOKInv
    <2>2. \A q \in Listed : /\ todo' # LostCalls(q)
                            /\ q # r => todo' \notin {One("free", q), One("error", q)}
      BY DEF Call
    <2>3. CASE todo' = One("error", r)
      BY <1>2, <1>4, <2>1, <2>2, <2>3, TypesOfFields DEF ClosedOKInv, Call
    <2>4. CASE todo' = One("free", r) /\ req[r].state = "HTTP" /\ req[r].response = "OK"
      BY <1>2, <1>4, <2>1, <2>2, <2>4, TypesOfFields DEF ClosedOKInv
    <2> QED BY <2>3, <2>4
  <1> QED BY <1>3, <1>5, <1>6, <1>7, QuietOK

LEMMA ClosedIsOK == ASSUME IInv, NEW r \in Req, Closed(r) PROVE IInv'
  <1>1. todo = <<>> /\ last_handle <= MaxSets /\ r \in Listed
    BY StartsOK, TypesOfFields DEF Closed, RequestsOK
  <1>2. \/ todo' = One("error", r)
        \/ todo' = One("free", r) /\ req[r].state = "HTTP" /\ req[r].response = "OK"
    BY StartsOK DEF Closed, ClosedOK
  <1> QED BY <1>1, <1>2, ClosingOK DEF Closed, netVars

LEMMA BrokenOK == ASSUME IInv, NEW r \in Req, Broken(r) PROVE IInv'
  <1>1. todo = <<>> /\ last_handle <= MaxSets /\ r \in Listed /\ todo' = One("error", r)
    BY StartsOK, TypesOfFields DEF Broken, RequestsOK
  <1> QED BY <1>1, ClosingOK DEF Broken, netVars

-----------------------------------------------------------------------------
(* Steps that cancel timers or let them end *)

\* Timers may go, and with them what a request's fields name.
FewerOf(r) ==
  /\ Ends(r)' \subseteq Ends(r) /\ Repeats(r)' \subseteq Repeats(r)
  /\ \/ Timers(r)' = {}
     \/ /\ req'[r].retry_timer = req[r].retry_timer
        /\ req'[r].disconnect_timer = req[r].disconnect_timer

LEMMA FewerOK ==
  ASSUME IInv, TimersTypeOK', RecordsOK', JobsOK', UNCHANGED <<handle, job, last_handle>>,
         \A r \in Req : FewerOf(r), Asks' \subseteq Asks,
         UNCHANGED <<requests, sock, lookup, upgraded, wifi, socketed, reconnect_timer>>,
         req' \in [Req -> Fields], \A r \in Req : req'[r].state = req[r].state,
         TodoOK', UpgradedOK', ClosedOKInv',
         \A r \in Req : todo' \in {GuardCalls(r), One("retry", r)} => Timers(r)' = {},
         last_handle <= W16 /\ todo' = One("reconnect", NoBlock) => Asks' = {}
  PROVE  IInv'
  <1>1. Listed' = Listed
    BY DEF Listed
  <1>2. TypeOK'
    BY TypesOfFields DEF TypeOK, Fields
  <1>3. RequestsOK'
    BY <1>1 DEF IInv, RequestsOK
  <1>4. OwnedOK'
    <2> SUFFICES ASSUME NEW r \in Req
                 PROVE  /\ \A b \in Ends(r)' : handle'[b] = req'[r].disconnect_timer
                        /\ \A b \in Repeats(r)' : handle'[b] = req'[r].retry_timer
                        /\ Ends(r)' = {} \/ Repeats(r)' = {}
                        /\ r \notin Listed => Timers(r)' = {}
      BY <1>1 DEF OwnedOK
    <2>1. FewerOf(r)
      OBVIOUS
    <2>2. /\ \A b \in Ends(r) : handle[b] = req[r].disconnect_timer
          /\ \A b \in Repeats(r) : handle[b] = req[r].retry_timer
          /\ Ends(r) = {} \/ Repeats(r) = {}
          /\ r \notin Listed => Timers(r) = {}
      BY DEF IInv, OwnedOK
    <2> QED BY <2>1, <2>2 DEF FewerOf, Timers
  <1>5. AsksOK'
    BY DEF IInv, AsksOK, Short
  <1> QED BY <1>2, <1>3, <1>4, <1>5 DEF IInv

\* A WebSocket's request still has no timer to end it, and no connection closes.
LEMMA FewerKept ==
  ASSUME IInv, \A r \in Req : Ends(r)' \subseteq Ends(r),
         UNCHANGED <<requests, sock, upgraded>>, \A r \in Req : req'[r].state = req[r].state,
         \A r \in Req : todo \notin {One("error", r), One("free", r), LostCalls(r)},
         \A r \in Req : todo' \notin {One("free", r), LostCalls(r)},
         \A r \in Req : todo = AgainCalls(r) => Ends(r)' = {},
         \A r \in upgraded : todo' # GuardCalls(r)
  PROVE  UpgradedOK' /\ ClosedOKInv'
  <1>1. Listed' = Listed /\ Listed \subseteq Req /\ upgraded \subseteq Req
    BY TypesOfFields DEF Listed
  <1>2. UpgradedOK'
    <2>1. \A r \in upgraded : todo # AgainCalls(r) => Ends(r) = {}
      BY DEF IInv, UpgradedOK
    <2>2. \A r \in upgraded : Ends(r)' = {}
      BY <1>1, <2>1
    <2> QED BY <2>2 DEF UpgradedOK
  <1>3. \A r \in Listed : req[r].state # "HTTP" => sock[r] # "CLOSE"
    BY <1>1 DEF IInv, ClosedOKInv
  <1>4. ClosedOKInv'
    BY <1>1, <1>3 DEF ClosedOKInv
  <1> QED BY <1>2, <1>4

\* webclient_reset_timers leaves the request without timers.
LEMMA ResetTimersOK ==
  ASSUME IInv, NEW r \in Req, ResetTimers(r)
  PROVE  /\ TimersTypeOK' /\ RecordsOK' /\ JobsOK' /\ UNCHANGED <<handle, job, last_handle>>
         /\ \A q \in Req : FewerOf(q) /\ Asks' \subseteq Asks
         /\ Timers(r)' = {}
         /\ req' \in [Req -> Fields] /\ \A q \in Req : req'[q].state = req[q].state
  <1>1. Cancel(Own(r)) /\ req' = [req EXCEPT ![r].retry_timer = 0, ![r].disconnect_timer = 0]
    BY DEF ResetTimers
  <1>2. /\ TimersTypeOK' /\ RecordsOK' /\ JobsOK' /\ UNCHANGED <<handle, job, last_handle>>
        /\ \A q \in Req : Ends(q)' \subseteq Ends(q) /\ Repeats(q)' \subseteq Repeats(q)
        /\ Asks' \subseteq Asks
        /\ \A b \in armed' : handle[b] \notin Own(r)
    <2>1. TimersTypeOK /\ RecordsOK /\ JobsOK
      BY DEF IInv, TypeOK
    <2> HIDE DEF IInv
    <2> QED BY <1>1, <2>1, CancelTimers
  <1>3. Timers(r)' = {}
    <2>1. \A b \in Ends(r)' \union Repeats(r)' : b \in armed'
      BY DEF Ends, Repeats
    <2>2. \A b \in Ends(r) \union Repeats(r) : handle[b] \in Own(r)
      BY DEF IInv, OwnedOK, Own
    <2> QED BY <1>2, <2>1, <2>2 DEF Timers
  <1>4. \A q \in Req :
          /\ req'[q] \in Fields /\ req'[q].state = req[q].state
          /\ q # r => /\ req'[q].retry_timer = req[q].retry_timer
                      /\ req'[q].disconnect_timer = req[q].disconnect_timer
    <2>1. 0 \in Handle
      BY DEF Handle
    <2> QED BY <1>1, <2>1, TypesOfFields DEF Fields
  <1>5. req' \in [Req -> Fields]
    BY <1>1, <1>4, TypesOfFields
  <1>6. \A q \in Req : FewerOf(q)
    BY <1>2, <1>3, <1>4 DEF FewerOf
  <1> QED BY <1>2, <1>3, <1>4, <1>5, <1>6

LEMMA ExecuteOK == ASSUME IInv, NEW r \in Req, Execute(r) PROVE IInv'
  <1>1. todo = One("execute", r) /\ r \in Listed /\ last_handle <= MaxSets
    BY ShapeOfRequest DEF IInv, Execute
  <1>2. todo' = <<>> \/ (todo' = GuardCalls(r) /\ r \notin upgraded)
    BY <1>1 DEF Execute, Calls
  <1>3. /\ UNCHANGED <<requests, sock, lookup, upgraded, wifi, socketed, reconnect_timer>>
        /\ ResetTimers(r)
    BY DEF Execute, netVars
  <1>4. /\ TimersTypeOK' /\ RecordsOK' /\ JobsOK' /\ UNCHANGED <<handle, job, last_handle>>
        /\ \A q \in Req : FewerOf(q) /\ Asks' \subseteq Asks
        /\ Timers(r)' = {}
        /\ req' \in [Req -> Fields] /\ \A q \in Req : req'[q].state = req[q].state
    BY <1>3, ResetTimersOK
  <1>5. Listed' = Listed
    BY <1>3 DEF Listed
  <1>6. TodoOK'
    BY <1>1, <1>2, <1>4, <1>5 DEF TodoOK, TodoTwice, TodoNever
  <1>7. UpgradedOK' /\ ClosedOKInv'
    <2>1. \A q \in Req : todo \notin {One("error", q), One("free", q), LostCalls(q), AgainCalls(q)}
      BY <1>1 DEF Call
    <2>2. \A q \in Req : todo' \notin {One("free", q), LostCalls(q)}
      BY <1>2 DEF Call
    <2>3. \A q \in upgraded : todo' # GuardCalls(q)
      BY <1>2 DEF Call
    <2>4. \A q \in Req : Ends(q)' \subseteq Ends(q)
      BY <1>4 DEF FewerOf
    <2> QED BY <1>3, <1>4, <2>1, <2>2, <2>3, <2>4, FewerKept
  <1>8. /\ \A q \in Req : todo' \in {GuardCalls(q), One("retry", q)} => Timers(q)' = {}
        /\ todo' # One("reconnect", NoBlock)
    <2>1. \A q \in Req : todo' # One("retry", q) /\ (todo' = GuardCalls(q) => q = r)
      BY <1>2 DEF Call
    <2>2. todo' # One("reconnect", NoBlock)
      BY <1>2 DEF Call
    <2> QED BY <1>4, <2>1, <2>2
  <1> QED BY <1>3, <1>4, <1>6, <1>7, <1>8, FewerOK

LEMMA ResetOK == ASSUME IInv, NEW r \in Req, Reset(r) PROVE IInv'
  <1>1. /\ r \in Listed
        /\ \/ /\ todo = RetryCalls(r) /\ last_handle <= MaxSets + 1
              /\ todo' = One("retry", r)
           \/ /\ todo = AgainCalls(r) /\ last_handle <= MaxSets
              /\ todo' = One("execute", r)
    <2>1. /\ r \in Listed
          /\ \/ todo = RetryCalls(r) /\ last_handle <= MaxSets + 1
             \/ todo = AgainCalls(r) /\ last_handle <= MaxSets
      BY ShapeOfRequest DEF IInv, Reset
    <2>2. CASE todo = RetryCalls(r)
      <3>1. todo' = One("retry", r)
        BY <2>2 DEF Reset, Calls
      <3> QED BY <2>1, <2>2, <3>1 DEF Call
    <2>3. CASE todo = AgainCalls(r)
      <3>1. todo' = One("execute", r)
        BY <2>3 DEF Reset, Calls
      <3> QED BY <2>1, <2>3, <3>1 DEF Call
    <2> QED BY <2>1, <2>2, <2>3
  <1>2. /\ UNCHANGED <<requests, sock, lookup, upgraded, wifi, socketed, reconnect_timer>>
        /\ ResetTimers(r)
    BY DEF Reset, netVars
  <1>3. /\ TimersTypeOK' /\ RecordsOK' /\ JobsOK' /\ UNCHANGED <<handle, job, last_handle>>
        /\ \A q \in Req : FewerOf(q) /\ Asks' \subseteq Asks
        /\ Timers(r)' = {}
        /\ req' \in [Req -> Fields] /\ \A q \in Req : req'[q].state = req[q].state
    BY <1>2, ResetTimersOK
  <1>4. Listed' = Listed
    BY <1>2 DEF Listed
  <1>5. TodoOK'
    BY <1>1, <1>3, <1>4 DEF TodoOK, TodoTwice, TodoOnce
  <1>6. UpgradedOK' /\ ClosedOKInv'
    <2>1. \A q \in Req : /\ todo \notin {One("error", q), One("free", q), LostCalls(q)}
                         /\ todo = AgainCalls(q) => q = r
      BY <1>1 DEF Call
    <2>2. \A q \in Req : todo' \notin {One("free", q), LostCalls(q), GuardCalls(q)}
      BY <1>1 DEF Call
    <2>3. \A q \in Req : Ends(q)' \subseteq Ends(q) /\ (q = r => Ends(q)' = {})
      BY <1>3 DEF FewerOf, Timers
    <2>4. /\ \A q \in Req : todo = AgainCalls(q) => Ends(q)' = {}
          /\ \A q \in upgraded : todo' # GuardCalls(q)
      BY <2>1, <2>2, <2>3, TypesOfFields
    <2> QED BY <1>2, <1>3, <2>1, <2>2, <2>3, <2>4, FewerKept
  <1>7. /\ \A q \in Req : todo' \in {GuardCalls(q), One("retry", q)} => Timers(q)' = {}
        /\ todo' # One("reconnect", NoBlock)
    <2>1. \A q \in Req : todo' # GuardCalls(q) /\ (todo' = One("retry", q) => q = r)
      BY <1>1 DEF Call
    <2>2. todo' # One("reconnect", NoBlock)
      BY <1>1 DEF Call
    <2> QED BY <1>3, <2>1, <2>2
  <1> QED BY <1>2, <1>3, <1>5, <1>6, <1>7, FewerOK

\* No timer asks for a WebSocket after clearTimeout(reconnect_timer), while the
\* handles fit.
LEMMA ForgetOK == ASSUME IInv, Forget PROVE IInv'
  <1>1. \/ todo = RenewCalls /\ last_handle <= MaxSets + 1 /\ todo' = One("reconnect", NoBlock)
        \/ todo = SocketCalls /\ last_handle <= MaxSets /\ todo' = One("socket", NoBlock)
    <2>1. \/ todo = RenewCalls /\ last_handle <= MaxSets + 1
          \/ todo = SocketCalls /\ last_handle <= MaxSets
      BY ShapeOfRest DEF IInv, Forget
    <2>2. CASE todo = RenewCalls
      <3>1. todo' = One("reconnect", NoBlock)
        BY <2>2 DEF Forget, Calls
      <3> QED BY <2>1, <2>2, <3>1 DEF Call
    <2>3. CASE todo = SocketCalls
      <3>1. todo' = One("socket", NoBlock)
        BY <2>3 DEF Forget, Calls
      <3> QED BY <2>1, <2>3, <3>1 DEF Call
    <2> QED BY <2>1, <2>2, <2>3
  <1>2. /\ UNCHANGED <<requests, req, sock, lookup, upgraded, wifi, socketed, reconnect_timer>>
        /\ Cancel({reconnect_timer})
    BY DEF Forget, netVars, Forgotten
  <1>3. /\ TimersTypeOK' /\ RecordsOK' /\ JobsOK' /\ UNCHANGED <<handle, job, last_handle>>
        /\ \A q \in Req : Ends(q)' \subseteq Ends(q) /\ Repeats(q)' \subseteq Repeats(q)
        /\ Asks' \subseteq Asks
        /\ \A b \in armed' : handle[b] # reconnect_timer
    <2>1. TimersTypeOK /\ RecordsOK /\ JobsOK
      BY DEF IInv, TypeOK
    <2> QED BY <1>2, <2>1, CancelTimers
  <1>4. \A q \in Req : FewerOf(q)
    BY <1>2, <1>3 DEF FewerOf
  <1>5. TodoOK'
    BY <1>1, <1>3 DEF TodoOK, TodoTwice, TodoOnce
  <1>6. UpgradedOK' /\ ClosedOKInv'
    <2>1. \A q \in Req :
            todo \notin {One("error", q), One("free", q), LostCalls(q), AgainCalls(q)}
      BY <1>1 DEF Call
    <2>2. \A q \in Req : todo' \notin {One("free", q), LostCalls(q), GuardCalls(q)}
      BY <1>1 DEF Call
    <2> QED BY <1>2, <1>3, <2>1, <2>2, TypesOfFields, FewerKept
  <1>7. \A q \in Req : todo' \notin {GuardCalls(q), One("retry", q)}
    BY <1>1 DEF Call
  <1>8. last_handle <= W16 => Asks' = {}
    <2> SUFFICES ASSUME last_handle <= W16, NEW b \in Asks'
                 PROVE  FALSE
      OBVIOUS
    <2>1. b \in Asks /\ b \in armed' /\ b \in listed
      BY <1>3 DEF Asks, IInv, RecordsOK
    <2>2. last_handle \in Nat /\ handle[b] \in 1 .. last_handle - 1
      BY <2>1 DEF IInv, RecordsOK
    <2>3. handle[b] % W16 = handle[b]
      BY <2>2
    <2>4. reconnect_timer = handle[b] % W16
      BY <2>1, <2>2 DEF IInv, AsksOK, Short
    <2> QED BY <1>3, <2>1, <2>3, <2>4
  <1> QED BY <1>2, <1>3, <1>4, <1>5, <1>6, <1>7, <1>8, TypesOfFields, FewerOK

-----------------------------------------------------------------------------
(* Steps that set a timer *)

\* The one timer set is counted where its call puts it.
LEMMA SetJobOK ==
  ASSUME IInv, NEW j, SetJob(j), last_handle <= MaxSets + 1,
         \/ j = Call("raise", NoBlock)
         \/ \E r \in Req : j \in {Call("timeout", r), Call("execute", r), Call("disconnect", r)}
  PROVE  /\ TimersTypeOK' /\ RecordsOK' /\ JobsOK' /\ DOMAIN job' = Block
         /\ last_handle' = last_handle + 1
         /\ \E b \in Block \ listed :
              /\ handle'[b] = last_handle
              /\ \A c \in armed : handle'[c] = handle[c]
              /\ \A q \in Req :
                   /\ Ends(q)' = IF j = Call("timeout", q) THEN Ends(q) \union {b} ELSE Ends(q)
                   /\ Repeats(q)' = IF j = Call("execute", q) THEN Repeats(q) \union {b}
                                    ELSE Repeats(q)
              /\ Asks' = IF j = Call("raise", NoBlock) THEN Asks \union {b} ELSE Asks
  <1>1. TimersTypeOK /\ RecordsOK /\ JobsOK /\ DOMAIN job = Block
    BY DEF IInv, TypeOK
  <1>2. /\ TimersTypeOK' /\ RecordsOK' /\ JobsOK' /\ DOMAIN job' = Block
        /\ last_handle' = last_handle + 1
        /\ \E b \in Block \ listed :
              /\ armed' = armed \union {b} /\ b \notin armed
              /\ job'[b] = j /\ handle'[b] = last_handle
              /\ \A c \in armed : job'[c] = job[c] /\ handle'[c] = handle[c]
    <2> HIDE DEF IInv
    <2> QED BY <1>1, SetOneTimer
  <1>3. PICK b \in Block \ listed :
              /\ armed' = armed \union {b} /\ b \notin armed
              /\ job'[b] = j /\ handle'[b] = last_handle
              /\ \A c \in armed : job'[c] = job[c] /\ handle'[c] = handle[c]
    BY <1>2
  <1>4. \A q \in Req :
          /\ Ends(q)' = IF j = Call("timeout", q) THEN Ends(q) \union {b} ELSE Ends(q)
          /\ Repeats(q)' = IF j = Call("execute", q) THEN Repeats(q) \union {b} ELSE Repeats(q)
    BY <1>3 DEF Ends, Repeats
  <1>5. Asks' = IF j = Call("raise", NoBlock) THEN Asks \union {b} ELSE Asks
    <2>1. j.call = "raise" <=> j = Call("raise", NoBlock)
      BY DEF Call
    <2> QED BY <1>3, <2>1 DEF Asks
  <1> QED BY <1>2, <1>3, <1>4, <1>5

\* What is left then: a set timer's handle is the one its owner holds.
LEMMA SettingOK ==
  ASSUME IInv, TimersTypeOK', RecordsOK', JobsOK', DOMAIN job' = Block,
         UNCHANGED <<requests, sock, lookup, upgraded, wifi, socketed>>,
         req' \in [Req -> Fields], \A r \in Req : req'[r].state = req[r].state,
         reconnect_timer' \in 0 .. W16 - 1,
         todo' = <<>> \/ \E r \in Listed : todo' = One("resolve", r),
         last_handle' <= MaxSets + 1 \/ todo' = <<>>,
         \A r \in Req : todo \notin {One("error", r), One("free", r), LostCalls(r), AgainCalls(r)},
         \A r \in upgraded : Ends(r)' = Ends(r),
         OwnedOK', AsksOK'
  PROVE  IInv'
  <1>1. Listed' = Listed /\ Listed \subseteq Req /\ upgraded \subseteq Req
    BY TypesOfFields DEF Listed
  <1>2. TypeOK'
    BY TypesOfFields DEF TypeOK, Fields
  <1>3. RequestsOK'
    BY <1>1 DEF IInv, RequestsOK
  <1>4. TodoOK'
    BY <1>1 DEF TodoOK, TodoOnce, TodoNever
  <1>5. \A r \in Req : todo' \notin {One("free", r), LostCalls(r), GuardCalls(r), AgainCalls(r)}
    <2>1. CASE todo' = <<>>
      BY <2>1
    <2>2. CASE \E q \in Listed : todo' = One("resolve", q)
      <3>1. PICK q \in Listed : todo' = One("resolve", q)
        BY <2>2
      <3> QED BY <3>1 DEF Call
    <2> QED BY <2>1, <2>2
  <1>6. UpgradedOK'
    BY <1>1, <1>5 DEF IInv, UpgradedOK
  <1>7. ClosedOKInv'
    <2>1. \A r \in Listed : req[r].state # "HTTP" => sock[r] # "CLOSE"
      BY <1>1 DEF IInv, ClosedOKInv
    <2> QED BY <1>1, <1>5, <2>1 DEF ClosedOKInv
  <1> QED BY <1>2, <1>3, <1>4, <1>6, <1>7 DEF IInv

LEMMA GuardOK == ASSUME IInv, NEW r \in Req, Guard(r) PROVE IInv'
  <1>1. todo = GuardCalls(r) /\ r \in Listed /\ last_handle <= MaxSets
    BY ShapeOfRequest DEF IInv, Guard
  <1>2. todo' = One("resolve", r)
    BY <1>1 DEF Guard, Calls
  <1>3. /\ UNCHANGED <<requests, sock, lookup, upgraded, wifi, socketed, reconnect_timer>>
        /\ SetJob(Call("timeout", r))
        /\ req' = [req EXCEPT ![r].disconnect_timer = last_handle]
    BY DEF Guard, netVars
  <1>4. last_handle \in Handle /\ last_handle <= MaxSets + 1
    BY <1>1, TypesOfFields DEF TypeOK, TimersTypeOK
  <1>5. /\ TimersTypeOK' /\ RecordsOK' /\ JobsOK' /\ DOMAIN job' = Block
        /\ last_handle' = last_handle + 1
    BY <1>3, <1>4, SetJobOK
  <1>6. PICK b \in Block \ listed :
              /\ handle'[b] = last_handle
              /\ \A c \in armed : handle'[c] = handle[c]
              /\ \A q \in Req :
                   /\ Ends(q)' = IF q = r THEN Ends(q) \union {b} ELSE Ends(q)
                   /\ Repeats(q)' = Repeats(q)
              /\ Asks' = Asks
    BY <1>3, <1>4, SetJobOK DEF Call
  <1>7. \A q \in Req : /\ req'[q] \in Fields /\ req'[q].state = req[q].state
                       /\ req'[q].retry_timer = req[q].retry_timer
                       /\ req'[q].disconnect_timer =
                            IF q = r THEN last_handle ELSE req[q].disconnect_timer
    BY <1>3, <1>4, TypesOfFields DEF Fields
  <1>8. req' \in [Req -> Fields]
    BY <1>3, <1>7, TypesOfFields
  <1>9. \A q \in Req : todo' \notin {GuardCalls(q), One("retry", q)}
    BY <1>2 DEF Call
  <1>10. Listed' = Listed /\ Timers(r) = {} /\ r \notin upgraded
    <2>1. Timers(r) = {}
      BY <1>1 DEF IInv, OwnedOK
    <2>2. r \notin upgraded
      BY <1>1 DEF IInv, UpgradedOK
    <2> QED BY <1>3, <2>1, <2>2 DEF Listed
  <1>11. OwnedOK'
    <2> SUFFICES ASSUME NEW q \in Req
                 PROVE  /\ \A c \in Ends(q)' : handle'[c] = req'[q].disconnect_timer
                        /\ \A c \in Repeats(q)' : handle'[c] = req'[q].retry_timer
                        /\ Ends(q)' = {} \/ Repeats(q)' = {}
                        /\ q \notin Listed => Timers(q)' = {}
      BY <1>9, <1>10 DEF OwnedOK
    <2>1. /\ \A c \in Ends(q) : c \in armed /\ handle[c] = req[q].disconnect_timer
          /\ \A c \in Repeats(q) : c \in armed /\ handle[c] = req[q].retry_timer
          /\ Ends(q) = {} \/ Repeats(q) = {}
          /\ q \notin Listed => Timers(q) = {}
      BY DEF IInv, OwnedOK, Ends, Repeats
    <2> QED BY <1>1, <1>6, <1>7, <1>10, <2>1 DEF Timers
  <1>12. AsksOK'
    <2>1. todo' # One("reconnect", NoBlock)
      BY <1>2 DEF Call
    <2>2. /\ last_handle <= W16 + 1 => \A b2 \in Asks : reconnect_timer = Short(handle[b2])
          /\ Asks \subseteq armed
      BY DEF IInv, AsksOK, Asks
    <2>3. last_handle' <= W16 + 1 => last_handle <= W16 + 1
      BY <1>5, TypesOfFields
    <2> QED BY <1>3, <1>6, <2>1, <2>2, <2>3 DEF AsksOK, Short
  <1>13. \A q \in Req : todo \notin {One("error", q), One("free", q), LostCalls(q), AgainCalls(q)}
    BY <1>1 DEF Call
  <1>14. \A q \in upgraded : Ends(q)' = Ends(q)
    BY <1>6, <1>10, TypesOfFields
  <1>15. last_handle' <= MaxSets + 1 /\ reconnect_timer' \in 0 .. W16 - 1
    BY <1>1, <1>3, <1>5, TypesOfFields DEF TypeOK
  <1> QED BY <1>1, <1>2, <1>3, <1>5, <1>7, <1>8, <1>11, <1>12, <1>13, <1>14, <1>15, SettingOK

LEMMA RetryOK == ASSUME IInv, NEW r \in Req, Retry(r) PROVE IInv'
  <1>1. todo = One("retry", r) /\ r \in Listed /\ last_handle <= MaxSets + 1
    BY ShapeOfRequest DEF IInv, Retry
  <1>2. todo' = <<>>
    BY <1>1 DEF Retry, Calls
  <1>3. /\ UNCHANGED <<requests, sock, lookup, upgraded, wifi, socketed, reconnect_timer>>
        /\ SetJob(Call("execute", r))
        /\ req' = [req EXCEPT ![r].retry_timer = last_handle]
    BY DEF Retry, netVars
  <1>4. last_handle \in Handle
    BY TypesOfFields DEF TypeOK, TimersTypeOK
  <1>5. /\ TimersTypeOK' /\ RecordsOK' /\ JobsOK' /\ DOMAIN job' = Block
        /\ last_handle' = last_handle + 1
    BY <1>1, <1>3, SetJobOK
  <1>6. PICK b \in Block \ listed :
              /\ handle'[b] = last_handle
              /\ \A c \in armed : handle'[c] = handle[c]
              /\ \A q \in Req :
                   /\ Ends(q)' = Ends(q)
                   /\ Repeats(q)' = IF q = r THEN Repeats(q) \union {b} ELSE Repeats(q)
              /\ Asks' = Asks
    BY <1>1, <1>3, SetJobOK DEF Call
  <1>7. \A q \in Req : /\ req'[q] \in Fields /\ req'[q].state = req[q].state
                       /\ req'[q].disconnect_timer = req[q].disconnect_timer
                       /\ req'[q].retry_timer =
                            IF q = r THEN last_handle ELSE req[q].retry_timer
    BY <1>3, <1>4, TypesOfFields DEF Fields
  <1>8. req' \in [Req -> Fields]
    BY <1>3, <1>7, TypesOfFields
  <1>9. Listed' = Listed /\ Timers(r) = {}
    <2>1. Timers(r) = {}
      BY <1>1 DEF IInv, OwnedOK
    <2> QED BY <1>3, <2>1 DEF Listed
  <1>10. OwnedOK'
    <2> SUFFICES ASSUME NEW q \in Req
                 PROVE  /\ \A c \in Ends(q)' : handle'[c] = req'[q].disconnect_timer
                        /\ \A c \in Repeats(q)' : handle'[c] = req'[q].retry_timer
                        /\ Ends(q)' = {} \/ Repeats(q)' = {}
                        /\ q \notin Listed => Timers(q)' = {}
      BY <1>2, <1>9 DEF OwnedOK
    <2>1. /\ \A c \in Ends(q) : c \in armed /\ handle[c] = req[q].disconnect_timer
          /\ \A c \in Repeats(q) : c \in armed /\ handle[c] = req[q].retry_timer
          /\ Ends(q) = {} \/ Repeats(q) = {}
          /\ q \notin Listed => Timers(q) = {}
      BY DEF IInv, OwnedOK, Ends, Repeats
    <2> QED BY <1>1, <1>6, <1>7, <1>9, <2>1 DEF Timers
  <1>11. AsksOK'
    <2>1. /\ last_handle <= W16 + 1 => \A b2 \in Asks : reconnect_timer = Short(handle[b2])
          /\ Asks \subseteq armed
      BY DEF IInv, AsksOK, Asks
    <2>2. last_handle' <= W16 + 1 => last_handle <= W16 + 1
      BY <1>5, TypesOfFields
    <2> QED BY <1>2, <1>3, <1>6, <2>1, <2>2 DEF AsksOK, Short
  <1>12. \A q \in Req : todo \notin {One("error", q), One("free", q), LostCalls(q), AgainCalls(q)}
    BY <1>1 DEF Call
  <1>13. \A q \in upgraded : Ends(q)' = Ends(q)
    BY <1>6, TypesOfFields
  <1>14. reconnect_timer' \in 0 .. W16 - 1
    BY <1>3, TypesOfFields DEF TypeOK
  <1> QED BY <1>2, <1>3, <1>5, <1>7, <1>8, <1>10, <1>11, <1>12, <1>13, <1>14, SettingOK

\* A timer that is neither a request's nor asks for a WebSocket, or the only one that does.
LEMMA NotOwnedOK ==
  ASSUME IInv, UNCHANGED <<requests, req>>, todo' = <<>>,
         \A r \in Req : Ends(r)' = Ends(r) /\ Repeats(r)' = Repeats(r),
         \A c \in armed : handle'[c] = handle[c]
  PROVE  OwnedOK'
  <1>1. \A q \in Req : \A c \in Ends(q) \union Repeats(q) : handle'[c] = handle[c]
    BY DEF Ends, Repeats
  <1>2. Listed' = Listed
    BY DEF Listed
  <1> QED BY <1>1, <1>2 DEF IInv, OwnedOK, Timers

LEMMA LingerOK == ASSUME IInv, NEW r \in Req, Linger(r) PROVE IInv'
  <1>1. todo = One("linger", r) /\ r \in Listed /\ last_handle <= MaxSets + 1
    BY ShapeOfRequest DEF IInv, Linger
  <1>2. todo' = <<>>
    BY <1>1 DEF Linger, Calls
  <1>3. /\ UNCHANGED <<requests, req, sock, lookup, upgraded, wifi, socketed, reconnect_timer>>
        /\ SetJob(Call("disconnect", r))
    BY DEF Linger, netVars
  <1>4. /\ TimersTypeOK' /\ RecordsOK' /\ JobsOK' /\ DOMAIN job' = Block
        /\ last_handle' = last_handle + 1
    BY <1>1, <1>3, SetJobOK
  <1>5. /\ \A c \in armed : handle'[c] = handle[c]
        /\ \A q \in Req : Ends(q)' = Ends(q) /\ Repeats(q)' = Repeats(q)
        /\ Asks' = Asks
    BY <1>1, <1>3, SetJobOK DEF Call
  <1>6. OwnedOK'
    BY <1>2, <1>3, <1>5, NotOwnedOK
  <1>7. AsksOK'
    <2>1. /\ last_handle <= W16 + 1 => \A b \in Asks : reconnect_timer = Short(handle[b])
          /\ Asks \subseteq armed
      BY DEF IInv, AsksOK, Asks
    <2>2. last_handle' <= W16 + 1 => last_handle <= W16 + 1
      BY <1>4, TypesOfFields
    <2> QED BY <1>2, <1>3, <1>5, <2>1, <2>2 DEF AsksOK, Short
  <1>8. \A q \in Req : todo \notin {One("error", q), One("free", q), LostCalls(q), AgainCalls(q)}
    BY <1>1 DEF Call
  <1>9. req' \in [Req -> Fields] /\ reconnect_timer' \in 0 .. W16 - 1
    BY <1>3, TypesOfFields DEF TypeOK
  <1> QED BY <1>2, <1>3, <1>4, <1>5, <1>6, <1>7, <1>8, <1>9, TypesOfFields, SettingOK

\* setTimeout's handle goes into reconnect_timer's 16 bits.
LEMMA ReconnectOK == ASSUME IInv, Reconnect PROVE IInv'
  <1>1. todo = One("reconnect", NoBlock) /\ last_handle <= MaxSets + 1
    BY ShapeOfRest DEF IInv, Reconnect
  <1>2. todo' = <<>>
    BY <1>1 DEF Reconnect, Calls
  <1>3. /\ UNCHANGED <<requests, req, sock, lookup, upgraded, wifi, socketed>>
        /\ SetJob(Call("raise", NoBlock)) /\ reconnect_timer' = Short(last_handle)
    BY DEF Reconnect, netVars
  <1>4. /\ TimersTypeOK' /\ RecordsOK' /\ JobsOK' /\ DOMAIN job' = Block
        /\ last_handle' = last_handle + 1
    BY <1>1, <1>3, SetJobOK
  <1>5. PICK b \in Block \ listed :
          /\ handle'[b] = last_handle
          /\ \A c \in armed : handle'[c] = handle[c]
          /\ \A q \in Req : Ends(q)' = Ends(q) /\ Repeats(q)' = Repeats(q)
          /\ Asks' = Asks \union {b}
    BY <1>1, <1>3, SetJobOK DEF Call
  <1>6. OwnedOK'
    BY <1>2, <1>3, <1>5, NotOwnedOK
  <1>7. AsksOK'
    <2>1. last_handle' <= W16 + 1 => last_handle <= W16
      BY <1>4, TypesOfFields
    <2>2. last_handle <= W16 => Asks = {}
      BY <1>1 DEF IInv, AsksOK
    <2> QED BY <1>2, <1>3, <1>5, <2>1, <2>2 DEF AsksOK, Short
  <1>8. \A q \in Req : todo \notin {One("error", q), One("free", q), LostCalls(q), AgainCalls(q)}
    BY <1>1 DEF Call
  <1>9. req' \in [Req -> Fields] /\ reconnect_timer' \in 0 .. W16 - 1
    BY <1>3, TypesOfFields DEF Short
  <1> QED BY <1>2, <1>3, <1>4, <1>5, <1>6, <1>7, <1>8, <1>9, TypesOfFields, SettingOK

-----------------------------------------------------------------------------
(* The list of requests *)

\* Taking one request out leaves the others, each once.
LEMMA RequestTaken ==
  ASSUME requests \in Seq(Req), NEW i \in DOMAIN requests,
         \A j, k \in DOMAIN requests : requests[j] = requests[k] => j = k,
         requests' = SubSeq(requests, 1, i - 1) \o SubSeq(requests, i + 1, Len(requests))
  PROVE  /\ requests' \in Seq(Req)
         /\ \A j, k \in DOMAIN requests' : requests'[j] = requests'[k] => j = k
         /\ Listed' = Listed \ {requests[i]}
  <1> DEFINE n == Len(requests)
             before == SubSeq(requests, 1, i - 1)
             after  == SubSeq(requests, i + 1, n)
             at(j)  == IF j < i THEN j ELSE j + 1
  <1>1. n \in Nat /\ i \in 1 .. n /\ DOMAIN requests = 1 .. n
    BY LenProperties
  <1>2. /\ before \in Seq(Req) /\ Len(before) = i - 1
        /\ \A j \in 1 .. i - 1 : before[j] = requests[j]
    BY <1>1, SubSeqProperties
  <1>3. /\ after \in Seq(Req) /\ Len(after) = n - i
        /\ \A j \in 1 .. n - i : after[j] = requests[i + j]
    <2>1. i + 1 \in Int /\ n \in Int /\ \A j \in i + 1 .. n : requests[j] \in Req
      BY <1>1
    <2>2. /\ SubSeq(requests, i + 1, n) \in Seq(Req)
          /\ Len(SubSeq(requests, i + 1, n)) = IF i + 1 <= n THEN n - (i + 1) + 1 ELSE 0
          /\ \A j \in 1 .. n - (i + 1) + 1 :
               SubSeq(requests, i + 1, n)[j] = requests[(i + 1) + j - 1]
      BY ONLY <2>1, SubSeqProperties
    <2>3. \A j \in 1 .. n - i : j \in 1 .. n - (i + 1) + 1 /\ (i + 1) + j - 1 = i + j
      BY <1>1
    <2>4. (IF i + 1 <= n THEN n - (i + 1) + 1 ELSE 0) = n - i
      BY <1>1
    <2> HIDE DEF n
    <2> QED BY <2>2, <2>3, <2>4
  <1>4. /\ requests' \in Seq(Req) /\ Len(requests') = n - 1
        /\ \A j \in 1 .. n - 1 : requests'[j] = requests[at(j)]
    <2> HIDE DEF before, after, n
    <2>1. requests' = before \o after
      BY DEF before, after, n
    <2>2. /\ before \o after \in Seq(Req) /\ Len(before \o after) = Len(before) + Len(after)
          /\ \A j \in 1 .. Len(before) + Len(after) :
               (before \o after)[j] = IF j <= Len(before) THEN before[j]
                                      ELSE after[j - Len(before)]
      <3>1. before \in Seq(Req) /\ after \in Seq(Req)
        BY <1>2, <1>3
      <3> QED BY ONLY <3>1, ConcatProperties
    <2>3. Len(before) + Len(after) = n - 1
      BY <1>1, <1>2, <1>3
    <2>4. ASSUME NEW j \in 1 .. n - 1
          PROVE  (before \o after)[j] = requests[at(j)]
      <3>1. CASE j < i
        BY <1>1, <1>2, <2>2, <2>3, <3>1
      <3>2. CASE j >= i
        <4> DEFINE k == j - (i - 1)
        <4>1. k \in 1 .. n - i /\ i + k = j + 1 /\ at(j) = j + 1
          BY <1>1, <3>2
        <4>2. (before \o after)[j] = after[k]
          BY <1>1, <1>2, <2>2, <2>3, <3>2
        <4> HIDE DEF k, at
        <4>3. after[k] = requests[i + k]
          BY ONLY <1>3, <4>1
        <4> QED BY ONLY <4>1, <4>2, <4>3
      <3>3. j < i \/ j >= i
        BY ONLY <1>1
      <3> HIDE DEF at
      <3> QED BY ONLY <3>1, <3>2, <3>3
    <2> HIDE DEF at
    <2> QED BY <2>1, <2>2, <2>3, <2>4
  <1>5. DOMAIN requests' = 1 .. n - 1
    <2> HIDE DEF n, at
    <2> QED BY <1>1, <1>4, LenProperties
  <1>6. /\ \A j \in 1 .. n - 1 : at(j) \in 1 .. n /\ at(j) # i
        /\ \A j, k \in 1 .. n - 1 : at(j) = at(k) => j = k
        /\ \A j \in 1 .. n : j # i => \E k \in 1 .. n - 1 : at(k) = j
    <2> HIDE DEF n
    <2>1. \A j \in 1 .. n : j # i => \E k \in 1 .. n - 1 : at(k) = j
      <3> TAKE j \in 1 .. n
      <3>1. CASE j < i
        <4>1. j \in 1 .. n - 1 /\ at(j) = j
          BY <1>1, <3>1
        <4> QED BY <4>1
      <3>2. CASE j > i
        <4>1. j - 1 \in 1 .. n - 1 /\ at(j - 1) = j
          BY <1>1, <3>2
        <4> QED BY <4>1
      <3> QED BY <1>1, <3>1, <3>2
    <2> QED BY <1>1, <2>1
  <1> HIDE DEF n, before, after, at
  <1>7. ASSUME NEW j \in DOMAIN requests', NEW k \in DOMAIN requests', requests'[j] = requests'[k]
        PROVE  j = k
    <2>1. j \in 1 .. n - 1 /\ k \in 1 .. n - 1
      BY ONLY <1>5, <1>7
    <2>2. requests[at(j)] = requests[at(k)] /\ at(j) \in 1 .. n /\ at(k) \in 1 .. n
      BY ONLY <1>4, <1>6, <1>7, <2>1
    <2>3. at(j) = at(k)
      BY <1>1, <2>2
    <2> QED BY ONLY <1>6, <2>1, <2>3
  <1>8. Listed' = Listed \ {requests[i]}
    <2>1. ASSUME NEW j \in DOMAIN requests'
          PROVE  requests'[j] \in Listed /\ requests'[j] # requests[i]
      <3>1. requests'[j] = requests[at(j)] /\ at(j) \in 1 .. n /\ at(j) # i
        BY ONLY <1>4, <1>5, <1>6, <2>1
      <3> QED BY <1>1, <3>1 DEF Listed
    <2>2. \A j \in DOMAIN requests : j # i => \E k \in DOMAIN requests' : requests'[k] = requests[j]
      BY <1>1, <1>4, <1>5, <1>6
    <2>3. Listed' = {requests'[j] : j \in DOMAIN requests'}
      BY DEF Listed
    <2>4. ASSUME NEW q \in Listed' PROVE q \in Listed \ {requests[i]}
      <3>1. PICK j \in DOMAIN requests' : q = requests'[j]
        BY ONLY <2>3, <2>4
      <3> QED BY ONLY <2>1, <3>1
    <2>5. ASSUME NEW q \in Listed, q # requests[i] PROVE q \in Listed'
      <3>1. PICK j \in DOMAIN requests : q = requests[j]
        BY ONLY <2>5 DEF Listed
      <3>2. PICK k \in DOMAIN requests' : requests'[k] = q
        BY ONLY <2>2, <2>5, <3>1
      <3> QED BY ONLY <2>3, <3>2
    <2> QED BY <2>4, <2>5
  <1> QED BY <1>4, <1>7, <1>8

\* webclient_free_request cancels the request's timers before the request goes.
LEMMA FreeRequestOK == ASSUME IInv, NEW r \in Req, FreeRequest(r) PROVE IInv'
  <1>1. /\ r \in Listed
        /\ \/ todo = One("free", r) /\ todo' = <<>>
           \/ /\ todo = LostCalls(r) /\ todo' = RenewCalls
              /\ last_handle <= MaxSets + 1
    <2>1. /\ r \in Listed
          /\ \/ todo = One("free", r)
             \/ todo = LostCalls(r) /\ last_handle <= MaxSets + 1
      BY ShapeOfRequest DEF IInv, FreeRequest
    <2>2. CASE todo = One("free", r)
      <3>1. todo' = <<>>
        BY <2>2 DEF FreeRequest, Calls
      <3> QED BY <2>1, <2>2, <3>1
    <2>3. CASE todo = LostCalls(r)
      <3>1. todo' = RenewCalls
        BY <2>3 DEF FreeRequest, Calls
      <3> QED BY <2>1, <2>3, <3>1 DEF Call
    <2> QED BY <2>1, <2>2, <2>3
  <1>2. /\ Cancel(Own(r)) /\ UNCHANGED <<wifi, socketed, reconnect_timer>>
        /\ req' = [req EXCEPT ![r] = NewFields("FREE")]
        /\ sock' = [sock EXCEPT ![r] = "FREE"]
        /\ upgraded' = upgraded \ {r} /\ lookup' = lookup \ {r}
    BY DEF FreeRequest
  <1>3. /\ requests' \in Seq(Req)
        /\ \A j, k \in DOMAIN requests' : requests'[j] = requests'[k] => j = k
        /\ Listed' = Listed \ {r}
    <2>1. PICK i \in DOMAIN requests :
            /\ requests[i] = r
            /\ requests' = SubSeq(requests, 1, i - 1) \o SubSeq(requests, i + 1, Len(requests))
      BY DEF FreeRequest
    <2>2. requests \in Seq(Req) /\ \A j, k \in DOMAIN requests : requests[j] = requests[k] => j = k
      BY DEF IInv, TypeOK, RequestsOK
    <2> HIDE DEF IInv
    <2> QED BY <2>1, <2>2, RequestTaken
  <1>4. /\ TimersTypeOK' /\ RecordsOK' /\ JobsOK' /\ UNCHANGED <<handle, job, last_handle>>
        /\ \A q \in Req : Ends(q)' \subseteq Ends(q) /\ Repeats(q)' \subseteq Repeats(q)
        /\ Asks' \subseteq Asks
        /\ \A b \in armed' : handle[b] \notin Own(r)
    <2>1. TimersTypeOK /\ RecordsOK /\ JobsOK
      BY DEF IInv, TypeOK
    <2> HIDE DEF IInv
    <2> QED BY <1>2, <2>1, CancelTimers
  <1>5. Timers(r)' = {}
    <2>1. \A b \in Ends(r)' \union Repeats(r)' : b \in armed'
      BY DEF Ends, Repeats
    <2>2. \A b \in Ends(r) \union Repeats(r) : handle[b] \in Own(r)
      BY DEF IInv, OwnedOK, Own
    <2> QED BY <1>4, <2>1, <2>2 DEF Timers
  <1>6. \A q \in Req :
          /\ req'[q] \in Fields /\ sock'[q] \in Socks
          /\ q # r => req'[q] = req[q] /\ sock'[q] = sock[q]
          /\ q = r => req'[q].state = "FREE" /\ sock'[q] = "FREE"
    <2>1. NewFields("FREE") \in Fields /\ NewFields("FREE").state = "FREE"
      BY DEF NewFields, Fields, Handle
    <2> QED BY <1>2, <2>1, TypesOfFields DEF Socks
  <1>7. TypeOK'
    <2>1. req' \in [Req -> Fields] /\ sock' \in [Req -> Socks]
      BY <1>2, <1>6, TypesOfFields
    <2> QED BY <1>2, <1>3, <1>4, <2>1, TypesOfFields DEF TypeOK, Fields, Socks
  <1>8. RequestsOK'
    BY <1>2, <1>3, <1>6, TypesOfFields DEF RequestsOK
  <1>9. TodoOK'
    BY <1>1, <1>4 DEF TodoOK, TodoOnce, TodoNever
  <1>10. \A q \in Req :
           /\ todo' \notin {GuardCalls(q), One("retry", q), One("free", q), LostCalls(q)}
           /\ todo' # AgainCalls(q) /\ todo # AgainCalls(q)
           /\ q # r => todo \notin {One("free", q), One("error", q), LostCalls(q)}
    BY <1>1 DEF Call
  <1>11. OwnedOK'
    <2> SUFFICES ASSUME NEW q \in Req
                 PROVE  /\ \A c \in Ends(q)' : handle'[c] = req'[q].disconnect_timer
                        /\ \A c \in Repeats(q)' : handle'[c] = req'[q].retry_timer
                        /\ Ends(q)' = {} \/ Repeats(q)' = {}
                        /\ q \notin Listed' => Timers(q)' = {}
      BY <1>10 DEF OwnedOK
    <2>1. CASE q = r
      BY <1>5, <2>1 DEF Timers
    <2>2. CASE q # r
      <3>1. /\ \A c \in Ends(q) : handle[c] = req[q].disconnect_timer
            /\ \A c \in Repeats(q) : handle[c] = req[q].retry_timer
            /\ Ends(q) = {} \/ Repeats(q) = {}
            /\ q \notin Listed => Timers(q) = {}
        BY DEF IInv, OwnedOK
      <3>2. req'[q] = req[q] /\ (q \notin Listed' => q \notin Listed)
        BY <1>3, <1>6, <2>2
      <3> QED BY <1>4, <3>1, <3>2 DEF Timers
    <2> QED BY <2>1, <2>2
  <1>12. AsksOK'
    <2>1. todo' # One("reconnect", NoBlock)
      BY <1>1 DEF Call
    <2> QED BY <1>2, <1>4, <2>1 DEF IInv, AsksOK, Short
  <1>13. UpgradedOK'
    <2>1. upgraded \subseteq Req /\ \A q \in upgraded : Ends(q) = {}
      BY <1>10, TypesOfFields DEF IInv, UpgradedOK
    <2> QED BY <1>2, <1>4, <1>10, <2>1 DEF UpgradedOK
  <1>14. ClosedOKInv'
    <2>1. \A q \in Listed \ {r} : req[q].state # "HTTP" => sock[q] # "CLOSE"
      BY <1>10, TypesOfFields DEF IInv, ClosedOKInv
    <2>2. Listed' = Listed \ {r} /\ Listed \subseteq Req
      BY <1>3, TypesOfFields
    <2> QED BY <1>6, <1>10, <2>1, <2>2 DEF ClosedOKInv
  <1> QED BY <1>4, <1>7, <1>8, <1>9, <1>11, <1>12, <1>13, <1>14 DEF IInv

\* A new request joins at the end of the list.
LEMMA RequestAdded ==
  ASSUME requests \in Seq(Req), NEW r \in Req \ Listed,
         \A j, k \in DOMAIN requests : requests[j] = requests[k] => j = k,
         requests' = Append(requests, r)
  PROVE  /\ requests' \in Seq(Req)
         /\ \A j, k \in DOMAIN requests' : requests'[j] = requests'[k] => j = k
         /\ Listed' = Listed \union {r}
  <1> DEFINE n == Len(requests)
  <1>1. n \in Nat /\ DOMAIN requests = 1 .. n
    BY LenProperties
  <1>2. /\ Append(requests, r) \in Seq(Req) /\ Len(Append(requests, r)) = n + 1
        /\ \A j \in 1 .. n : Append(requests, r)[j] = requests[j]
        /\ Append(requests, r)[n + 1] = r
    BY AppendProperties
  <1>3. requests' \in Seq(Req) /\ DOMAIN requests' = 1 .. n + 1
    BY <1>2, LenProperties
  <1>4. /\ \A j \in 1 .. n : requests'[j] = requests[j]
        /\ requests'[n + 1] = r /\ \A j \in 1 .. n : requests[j] # r
    BY <1>1, <1>2 DEF Listed
  <1> HIDE DEF n
  <1>5. ASSUME NEW j \in DOMAIN requests', NEW k \in DOMAIN requests', requests'[j] = requests'[k]
        PROVE  j = k
    <2>1. j \in 1 .. n \/ j = n + 1
      BY <1>1, <1>3
    <2>2. k \in 1 .. n \/ k = n + 1
      BY <1>1, <1>3
    <2> QED BY <1>1, <1>4, <1>5, <2>1, <2>2
  <1>6. Listed' = Listed \union {r}
    <2>1. Listed' = {requests'[j] : j \in 1 .. n + 1} /\ Listed = {requests[j] : j \in 1 .. n}
      BY <1>1, <1>3 DEF Listed
    <2>2. ASSUME NEW q \in Listed' PROVE q \in Listed \union {r}
      <3>1. PICK j \in 1 .. n + 1 : q = requests'[j]
        BY ONLY <2>1, <2>2
      <3>2. j \in 1 .. n \/ j = n + 1
        BY <1>1
      <3> QED BY ONLY <1>4, <2>1, <3>1, <3>2
    <2>3. ASSUME NEW q \in Listed PROVE q \in Listed'
      <3>1. PICK j \in 1 .. n : q = requests[j]
        BY ONLY <2>1, <2>3
      <3>2. j \in 1 .. n + 1
        BY <1>1
      <3> QED BY ONLY <1>4, <2>1, <3>1, <3>2
    <2>4. r \in Listed'
      <3>1. n + 1 \in 1 .. n + 1
        BY <1>1
      <3> QED BY ONLY <1>4, <2>1, <3>1
    <2> QED BY <2>2, <2>3, <2>4
  <1> QED BY <1>3, <1>5, <1>6

\* webclient_new_request: the request that is there, or a new one without timers.
LEMMA RequestOK ==
  ASSUME IInv, NEW f \in {"post", "socket"}, NEW state \in {"HTTP", "UPGRADE"}, Request(f, state)
  PROVE  IInv'
  <1>1. todo = One(f, NoBlock) /\ last_handle <= MaxSets
    BY ShapeOfRest DEF IInv, Request
  <1>2. \A q \in Req :
          todo \notin {One("error", q), One("free", q), LostCalls(q), AgainCalls(q)}
    BY <1>1 DEF Call
  <1>3. UNCHANGED <<lookup, upgraded, wifi, socketed, reconnect_timer>> /\ SameTimers
    BY DEF Request, netVars
  <1>4. UNCHANGED <<listed, handle, oneshot, armed, last_handle, running, due, job>>
    BY <1>3 DEF SameTimers, timerVars
  <1>5. CASE requests # <<>> /\ req[Head(requests)].state # "HTTP"
    <2>1. /\ UNCHANGED <<requests, req, sock>>
          /\ todo' \in {<<>>, One("execute", Head(requests))}
      BY <1>1, <1>5 DEF Request, Calls
    <2>2. Head(requests) \in Listed
      <3>1. requests \in Seq(Req) /\ requests # <<>>
        BY <1>5 DEF IInv, TypeOK
      <3>2. Head(requests) = requests[1] /\ 1 \in DOMAIN requests
        BY <3>1
      <3> QED BY <3>2 DEF Listed
    <2>3. FieldsKept
      BY <1>3, <2>1, TypesOfFields DEF FieldsKept
    <2>4. Listed' = Listed
      BY <2>1 DEF Listed
    <2>5. TodoOK' /\ SetsNone' /\ \A q \in Req : todo' \notin {One("free", q), LostCalls(q)}
      <3>1. CASE todo' = <<>>
        BY <3>1 DEF TodoOK, TodoNever, SetsNone
      <3>2. CASE todo' = One("execute", Head(requests))
        <4> DEFINE h == Head(requests)
        <4> HIDE DEF h
        <4>1. todo' = One("execute", h) /\ h \in Listed'
          BY <2>2, <2>4, <3>2 DEF h
        <4>2. SetsNone' /\ \A q \in Req : todo' \notin {One("free", q), LostCalls(q)}
          BY <4>1 DEF SetsNone, Call
        <4>3. TodoOK'
          BY <1>1, <1>4, <4>1 DEF TodoOK, TodoTwice
        <4> QED BY <4>2, <4>3
      <3> QED BY <2>1, <3>1, <3>2
    <2>6. Calm
      BY <1>2, <1>3, <2>1, <2>5 DEF Calm
    <2> QED BY <1>3, <2>1, <2>3, <2>5, <2>6, QuietOK
  <1>6. CASE ~ (requests # <<>> /\ req[Head(requests)].state # "HTTP")
    <2>0. PICK r \in Req \ Listed :
            /\ requests' = Append(requests, r)
            /\ req' = [req EXCEPT ![r] = NewFields(state)]
            /\ sock' = [sock EXCEPT ![r] = "NONE"]
            /\ Calls(<<Call("execute", r)>>)
      BY <1>6 DEF Request
    <2>1. /\ requests' = Append(requests, r)
          /\ req' = [req EXCEPT ![r] = NewFields(state)]
          /\ sock' = [sock EXCEPT ![r] = "NONE"]
          /\ todo' = One("execute", r)
      <3>1. todo' = One("execute", r)
        BY <1>1, <2>0 DEF Calls
      <3> QED BY <2>0, <3>1
    <2>2. /\ requests' \in Seq(Req)
          /\ \A j, k \in DOMAIN requests' : requests'[j] = requests'[k] => j = k
          /\ Listed' = Listed \union {r}
      <3>1. /\ requests \in Seq(Req)
            /\ \A j, k \in DOMAIN requests : requests[j] = requests[k] => j = k
        BY DEF IInv, TypeOK, RequestsOK
      <3> HIDE DEF IInv
      <3> QED BY <2>1, <3>1, RequestAdded
    <2>3. \A q \in Req : Ends(q)' = Ends(q) /\ Repeats(q)' = Repeats(q) /\ Asks' = Asks
      BY <1>4 DEF Ends, Repeats, Asks
    <2>4. \A q \in Req :
            /\ req'[q] \in Fields /\ sock'[q] \in Socks
            /\ q # r => req'[q] = req[q] /\ sock'[q] = sock[q]
            /\ q = r => req'[q].state # "FREE" /\ sock'[q] = "NONE"
      <3>1. NewFields(state) \in Fields /\ NewFields(state).state # "FREE"
        BY DEF NewFields, Fields, Handle
      <3> QED BY <2>1, <3>1, TypesOfFields DEF Socks
    <2>5. TypeOK'
      <3>1. req' \in [Req -> Fields] /\ sock' \in [Req -> Socks]
        BY <2>1, <2>4, TypesOfFields
      <3>2. TimersTypeOK'
        BY <1>4 DEF IInv, TypeOK, TimersTypeOK
      <3> QED BY <1>3, <1>4, <2>2, <3>1, <3>2, TypesOfFields DEF TypeOK, Fields, Socks
    <2>6. RecordsOK' /\ JobsOK'
      BY <1>4 DEF IInv, RecordsOK, JobsOK
    <2>7. RequestsOK'
      BY <1>3, <2>2, <2>4, TypesOfFields DEF RequestsOK
    <2>8. TodoOK'
      BY <1>1, <1>4, <2>1, <2>2 DEF TodoOK, TodoTwice
    <2>9. /\ \A q \in Req : todo' \notin {GuardCalls(q), One("retry", q), One("free", q),
                                          LostCalls(q), AgainCalls(q)}
          /\ todo' # One("reconnect", NoBlock)
      BY <2>1 DEF Call
    <2>10. OwnedOK'
      <3> SUFFICES ASSUME NEW q \in Req
                   PROVE  /\ \A c \in Ends(q)' : handle'[c] = req'[q].disconnect_timer
                          /\ \A c \in Repeats(q)' : handle'[c] = req'[q].retry_timer
                          /\ Ends(q)' = {} \/ Repeats(q)' = {}
                          /\ q \notin Listed' => Timers(q)' = {}
        BY <2>9 DEF OwnedOK
      <3>1. /\ \A c \in Ends(q) : handle[c] = req[q].disconnect_timer
            /\ \A c \in Repeats(q) : handle[c] = req[q].retry_timer
            /\ Ends(q) = {} \/ Repeats(q) = {}
            /\ q \notin Listed => Timers(q) = {}
        BY DEF IInv, OwnedOK
      <3>2. CASE q = r
        BY <2>3, <3>1, <3>2 DEF Timers
      <3>3. CASE q # r
        BY <1>4, <2>2, <2>3, <2>4, <3>1, <3>3 DEF Timers
      <3> QED BY <3>2, <3>3
    <2>11. AsksOK'
      BY <1>3, <1>4, <2>3, <2>9 DEF IInv, AsksOK, Short, Asks
    <2>12. UpgradedOK'
      <3>1. upgraded \subseteq Req /\ \A q \in upgraded : Ends(q) = {}
        BY <1>2, TypesOfFields DEF IInv, UpgradedOK
      <3> QED BY <1>3, <2>3, <2>9, <3>1 DEF UpgradedOK
    <2>13. ClosedOKInv'
      <3>1. \A q \in Listed : req[q].state # "HTTP" => sock[q] # "CLOSE"
        BY <1>2, TypesOfFields DEF IInv, ClosedOKInv
      <3> QED BY <2>2, <2>4, <2>9, <3>1, TypesOfFields DEF ClosedOKInv
    <2> QED BY <2>5, <2>6, <2>7, <2>8, <2>10, <2>11, <2>12, <2>13 DEF IInv
  <1> QED BY <1>5, <1>6

-----------------------------------------------------------------------------
(* A timer expires, and its record goes when the callback is over *)

LEMMA ExpireOK == ASSUME IInv, NEW b \in Block, Expire(b) PROVE IInv'
  <1>1. /\ todo = <<>> /\ todo' = <<job[b]>> /\ last_handle <= MaxSets
        /\ b \in armed /\ armed' = armed \ {b} /\ running' = b /\ due' = handle[b]
        /\ UNCHANGED <<listed, handle, oneshot, last_handle, job>>
        /\ UNCHANGED <<requests, req, sock, lookup, upgraded, wifi, socketed, reconnect_timer>>
    BY StartsOK DEF Expire, Fire, netVars
  <1>2. /\ RecordsOK' /\ JobsOK'
        /\ \A q \in Req : Ends(q)' \subseteq Ends(q) /\ Repeats(q)' \subseteq Repeats(q)
        /\ Asks' \subseteq Asks
    <2>1. RecordsOK /\ JobsOK /\ armed' \subseteq armed /\ listed' \subseteq listed
          /\ armed' \subseteq listed'
      BY <1>1 DEF IInv, RecordsOK
    <2> QED BY <1>1, <2>1, FewerTimers
  <1>3. TimersTypeOK'
    BY <1>1 DEF IInv, TypeOK, TimersTypeOK
  <1>4. \/ todo' = One("raise", NoBlock)
        \/ \E r \in Listed : todo' \in {One("timeout", r), One("execute", r)}
        \/ \E r \in Req : todo' = One("disconnect", r)
    <2>1. CASE job[b] = Call("raise", NoBlock)
      BY <1>1, <2>1
    <2>2. CASE \E r \in Req :
                 job[b] \in {Call("timeout", r), Call("execute", r), Call("disconnect", r)}
      <3>1. PICK r \in Req :
                   job[b] \in {Call("timeout", r), Call("execute", r), Call("disconnect", r)}
        BY <2>2
      <3>2. CASE job[b] = Call("disconnect", r)
        BY <1>1, <3>2
      <3>3. CASE job[b] \in {Call("timeout", r), Call("execute", r)}
        <4>1. b \in Timers(r)
          BY <1>1, <3>3 DEF Timers, Ends, Repeats
        <4>2. r \in Listed
          BY <4>1 DEF IInv, OwnedOK
        <4> QED BY <1>1, <3>3, <4>2
      <3> QED BY <3>1, <3>2, <3>3
    <2> QED BY <1>1, <2>1, <2>2 DEF IInv, JobsOK
  <1>5. Listed' = Listed
    BY <1>1 DEF Listed
  <1>6. /\ TodoOK'
        /\ \A q \in Req : todo' \notin {GuardCalls(q), One("retry", q), One("free", q), LostCalls(q)}
        /\ todo' # One("reconnect", NoBlock)
    <2>1. CASE todo' = One("raise", NoBlock)
      <3>1. TodoOK'
        BY <1>1, <2>1 DEF TodoOK, TodoTwice
      <3> QED BY <2>1, <3>1 DEF Call
    <2>2. ASSUME NEW r \in Listed, todo' \in {One("timeout", r), One("execute", r)}
          PROVE  <1>6!1 /\ <1>6!2 /\ <1>6!3
      <3>1. CASE todo' = One("timeout", r)
        <4>1. TodoOK'
          BY <1>1, <1>5, <3>1, TypesOfFields DEF TodoOK, TodoOnce
        <4> QED BY <3>1, <4>1 DEF Call
      <3>2. CASE todo' = One("execute", r)
        <4>1. TodoOK'
          BY <1>1, <1>5, <3>2 DEF TodoOK, TodoTwice
        <4> QED BY <3>2, <4>1 DEF Call
      <3> QED BY <2>2, <3>1, <3>2
    <2>3. ASSUME NEW r \in Req, todo' = One("disconnect", r)
          PROVE  <1>6!1 /\ <1>6!2 /\ <1>6!3
      <3>1. TodoOK'
        BY <2>3 DEF TodoOK, TodoNever
      <3> QED BY <2>3, <3>1 DEF Call
    <2> QED BY <1>4, <2>1, <2>2, <2>3
  <1>7. \A q \in Req : FewerOf(q)
    BY <1>1, <1>2 DEF FewerOf
  <1>8. UpgradedOK' /\ ClosedOKInv'
    <2>1. \A q \in Req : todo \notin {One("error", q), One("free", q), LostCalls(q), AgainCalls(q)}
      BY <1>1
    <2> QED BY <1>1, <1>2, <1>6, <2>1, TypesOfFields, FewerKept
  <1> QED BY <1>1, <1>2, <1>3, <1>6, <1>7, <1>8, TypesOfFields, FewerOK

LEMMA DoneOK == ASSUME IInv, Done PROVE IInv'
  <1>1. /\ todo = <<>> /\ todo' = <<>> /\ running' = NoBlock /\ due' = 0
        /\ UNCHANGED <<requests, req, sock, lookup, upgraded, wifi, socketed, reconnect_timer>>
        /\ UNCHANGED <<handle, oneshot, last_handle, job>>
        /\ \E gone : listed' = listed \ gone /\ armed' = armed \ gone
    BY DEF Done, Finish, Free, netVars
  <1>2. /\ RecordsOK' /\ JobsOK'
        /\ \A q \in Req : Ends(q)' \subseteq Ends(q) /\ Repeats(q)' \subseteq Repeats(q)
        /\ Asks' \subseteq Asks
    <2>1. RecordsOK /\ JobsOK /\ armed' \subseteq armed /\ listed' \subseteq listed
          /\ armed' \subseteq listed'
      BY <1>1 DEF IInv, RecordsOK
    <2> QED BY <1>1, <2>1, FewerTimers
  <1>3. TimersTypeOK'
    BY <1>1 DEF IInv, TypeOK, TimersTypeOK, Handle
  <1>4. \A q \in Req : FewerOf(q)
    BY <1>1, <1>2 DEF FewerOf
  <1>5. TodoOK'
    BY <1>1 DEF TodoOK, TodoNever
  <1>6. UpgradedOK' /\ ClosedOKInv'
    <2>1. \A q \in Req :
            todo' \notin {GuardCalls(q), One("error", q), One("free", q), LostCalls(q), AgainCalls(q)}
      BY <1>1
    <2> QED BY <1>1, <1>2, <2>1, TypesOfFields, FewerKept
  <1> QED BY <1>1, <1>2, <1>3, <1>4, <1>5, <1>6, TypesOfFields, FewerOK

-----------------------------------------------------------------------------
(* The theorems *)

LEMMA InitIInv == ASSUME Init PROVE IInv
  <1>1. /\ listed = {} /\ armed = {} /\ last_handle = 1 /\ running = NoBlock /\ due = 0
        /\ oneshot = {} /\ handle = [b \in Block |-> 0] /\ requests = <<>>
        /\ req = [r \in Req |-> NewFields("FREE")] /\ sock = [r \in Req |-> "FREE"]
        /\ lookup = {} /\ upgraded = {} /\ wifi = TRUE /\ socketed \in BOOLEAN
        /\ reconnect_timer = 0 /\ job = [b \in Block |-> NoCall] /\ todo = <<>>
    BY DEF Init, NoTimers
  <1>2. Listed = {}
    BY <1>1 DEF Listed
  <1>3. Asks = {} /\ \A r \in Req : Ends(r) = {} /\ Repeats(r) = {}
    BY <1>1 DEF Ends, Repeats, Asks
  <1>4. TypeOK
    <2>1. requests \in Seq(Req)
      BY <1>1, EmptySeq
    <2>2. 0 \in Handle /\ 1 \in Handle
      BY DEF Handle
    <2>3. TimersTypeOK
      BY <1>1, <2>2 DEF TimersTypeOK
    <2>4. NewFields("FREE") \in Fields
      BY <2>2 DEF NewFields, Fields
    <2>5. req \in [Req -> Fields]
      BY <1>1, <2>4
    <2> QED BY <1>1, <2>1, <2>3, <2>5 DEF TypeOK, Fields
  <1>5. RecordsOK /\ JobsOK /\ TodoOK
    BY <1>1 DEF RecordsOK, JobsOK, TodoOK, TodoNever
  <1>6. RequestsOK
    BY <1>1, <1>2 DEF RequestsOK, NewFields
  <1>7. OwnedOK /\ AsksOK
    BY <1>1, <1>3 DEF OwnedOK, AsksOK, Timers
  <1>8. UpgradedOK /\ ClosedOKInv
    BY <1>1, <1>2 DEF UpgradedOK, ClosedOKInv
  <1> QED BY <1>4, <1>5, <1>6, <1>7, <1>8 DEF IInv

LEMMA StutterIInv == ASSUME IInv, UNCHANGED vars PROVE IInv'
  <1>1. UNCHANGED <<listed, handle, oneshot, armed, last_handle, running, due, requests, req, sock,
                    lookup, upgraded, wifi, socketed, reconnect_timer, job, todo>>
    BY DEF vars, timerVars, netVars
  <1>2. Listed' = Listed /\ Asks' = Asks
        /\ \A r \in Req : Ends(r)' = Ends(r) /\ Repeats(r)' = Repeats(r)
    BY <1>1 DEF Listed, Asks, Ends, Repeats
  <1>3. TypeOK' /\ RecordsOK' /\ RequestsOK' /\ JobsOK'
    BY <1>1, <1>2 DEF IInv, TypeOK, TimersTypeOK, RecordsOK, RequestsOK, JobsOK
  <1>4. TodoOK'
    BY <1>1, <1>2 DEF IInv, TodoOK, TodoTwice, TodoOnce, TodoNever
  <1>5. OwnedOK'
    BY <1>1, <1>2 DEF IInv, OwnedOK, Timers
  <1>6. AsksOK' /\ UpgradedOK' /\ ClosedOKInv'
    BY <1>1, <1>2, TypesOfFields DEF IInv, AsksOK, UpgradedOK, ClosedOKInv, Short
  <1> QED BY <1>3, <1>4, <1>5, <1>6 DEF IInv

LEMMA NextIInv == ASSUME IInv, [Next]_vars PROVE IInv'
  <1> HIDE DEF IInv
  <1>1. CASE Work
    <2>1. ASSUME NEW r \in Req,
                 \/ Execute(r) \/ Guard(r) \/ Resolve(r) \/ Connect(r)
                 \/ Error(r) \/ Reset(r) \/ Retry(r) \/ FreeRequest(r)
                 \/ Linger(r) \/ Timeout(r) \/ Disconnect(r)
          PROVE  IInv'
      BY <2>1, ExecuteOK, GuardOK, ResolveOK, ConnectOK, ErrorOK, ResetOK, RetryOK,
         FreeRequestOK, LingerOK, TimeoutOK, DisconnectOK
    <2>2. ASSUME Request("post", "HTTP") \/ Request("socket", "UPGRADE")
          PROVE  IInv'
      BY <2>2, RequestOK
    <2> QED BY <1>1, <2>1, <2>2, ForgetOK, ReconnectOK, RaiseOK DEF Work
  <1>2. CASE (\E b \in Block : Expire(b)) \/ Done \/ Event \/ Network
    BY <1>2, ExpireOK, DoneOK, EventOK, NetworkOK
  <1>3. ASSUME NEW r \in Req,
               \/ Answered(r) \/ Connected(r) \/ Sent(r)
               \/ Receive(r) \/ Upgrade(r) \/ Closed(r) \/ Broken(r)
        PROVE  IInv'
    BY <1>3, AnsweredOK, ConnectedOK, SentOK, ReceiveOK, UpgradeOK, ClosedIsOK, BrokenOK
  <1> QED BY <1>1, <1>2, <1>3, StutterIInv DEF Next

\* The state of a request, its timers and the calls left agree in every state.
THEOREM ClientInvariance == Spec => []IInv
  <1>1. Init => IInv
    BY InitIInv
  <1>2. IInv /\ [Next]_vars => IInv'
    BY NextIInv
  <1> QED BY <1>1, <1>2, PTL DEF Spec

\* No timer that webclient_execute or webclient_error set outlives the request it is
\* about: webclient_free_request cancels them all.
THEOREM ClientNoTimerOfFreed == Spec => []NoTimerOfFreed
  <1>1. IInv => NoTimerOfFreed
    BY DEF IInv, OwnedOK, Timers, NoTimerOfFreed
  <1> QED BY <1>1, ClientInvariance, PTL

\* A request has at most one timer that ends or repeats it, and holds its handle.
THEOREM ClientOneTimerEach == Spec => []OneTimerEach
  <1>1. ASSUME IInv PROVE OneTimerEach
    <2> SUFFICES ASSUME NEW r \in Req, NEW b \in Timers(r), NEW c \in Timers(r)
                 PROVE  b = c /\ handle[b] \in Own(r)
      BY DEF OneTimerEach, Timers
    <2>1. b \in listed /\ c \in listed
      BY <1>1 DEF IInv, RecordsOK, Timers, Ends, Repeats
    <2>2. handle[b] = handle[c] /\ handle[b] \in Own(r)
      BY <1>1 DEF IInv, OwnedOK, Timers, Own
    <2> QED BY <1>1, <2>1, <2>2 DEF IInv, RecordsOK
  <1> QED BY <1>1, ClientInvariance, PTL

\* Two timers never ask for the WebSocket while handles fit reconnect_timer.
THEOREM ClientReconnectOnce == Spec => []ReconnectOnce
  <1>1. ASSUME IInv PROVE ReconnectOnce
    <2> SUFFICES ASSUME last_handle <= W16 + 1, NEW b \in Asks, NEW c \in Asks
                 PROVE  b = c
      BY DEF ReconnectOnce, Asks
    <2>1. b \in listed /\ c \in listed
      BY <1>1 DEF IInv, RecordsOK, Asks
    <2>2. handle[b] \in 1 .. W16 /\ handle[c] \in 1 .. W16
      BY <1>1, <2>1 DEF IInv, RecordsOK
    <2>3. handle[b] % W16 = handle[c] % W16
      BY <1>1 DEF IInv, AsksOK, Short
    <2>4. \A h \in 1 .. W16 : h % W16 = IF h = W16 THEN 0 ELSE h
      OBVIOUS
    <2>5. handle[b] = handle[c]
      BY <2>2, <2>3, <2>4
    <2> QED BY <1>1, <2>1, <2>5 DEF IInv, RecordsOK
  <1> QED BY <1>1, ClientInvariance, PTL

\* A request that has become a WebSocket is not ended by the timer of its post.
THEOREM ClientSocketKept == Spec => []SocketKept
  <1>1. IInv => SocketKept
    BY DEF IInv, UpgradedOK, SocketKept, Idle
  <1> QED BY <1>1, ClientInvariance, PTL

\* webclient_renew_connection finds no WebSocket's request with a closed connection.
THEOREM ClientNoDeadSocket == Spec => []NoDeadSocket
  <1>1. IInv => NoDeadSocket
    BY DEF IInv, ClosedOKInv, NoDeadSocket, Idle
  <1> QED BY <1>1, ClientInvariance, PTL

\* webclient_free_request alone takes a request away.
LEMMA OthersKeep ==
  ASSUME IInv, [Next]_vars, NEW r \in Req, ~ FreeRequest(r), req'[r].state = "FREE"
  PROVE  req[r].state = "FREE"
  <1> HIDE DEF IInv
  <1>1. req \in [Req -> Fields] /\ \A q \in Req : q \notin Listed <=> req[q].state = "FREE"
    BY TypesOfFields DEF RequestsOK
  <1>2. CASE UNCHANGED req
    BY <1>2
  <1>3. ASSUME NEW q \in Req,
               \/ Execute(q) \/ Guard(q) \/ Connect(q) \/ Reset(q) \/ Retry(q)
               \/ Sent(q) \/ Receive(q) \/ Upgrade(q)
        PROVE  req[r].state = "FREE"
    BY <1>1, <1>3 DEF Fields, Execute, Guard, Connect, Reset, Retry, Sent, Receive, Upgrade,
                      ResetTimers
  <1>4. ASSUME NEW q \in Req, FreeRequest(q)
        PROVE  req[r].state = "FREE"
    BY <1>1, <1>4 DEF FreeRequest
  <1>5. ASSUME Request("post", "HTTP") \/ Request("socket", "UPGRADE")
        PROVE  req[r].state = "FREE"
    BY <1>1, <1>5 DEF Request
  <1>6. ASSUME NEW q \in Req,
               \/ Resolve(q) \/ Error(q) \/ Linger(q) \/ Timeout(q) \/ Disconnect(q)
               \/ Answered(q) \/ Connected(q) \/ Closed(q) \/ Broken(q)
        PROVE  UNCHANGED req
    BY <1>6 DEF Resolve, Error, Linger, Timeout, Disconnect, Answered, Connected, Closed, Broken
  <1>7. ASSUME \/ Forget \/ Reconnect \/ Raise \/ Done \/ Event \/ Network
               \/ (\E b \in Block : Expire(b)) \/ UNCHANGED vars
        PROVE  UNCHANGED req
    BY <1>7 DEF Forget, Reconnect, Raise, Done, Event, Network, Expire, vars
  <1> QED BY <1>2, <1>3, <1>4, <1>5, <1>6, <1>7 DEF Next, Work

\* A post is dropped only once it was answered, or when the station is not connected.
THEOREM ClientPostsKept == Spec => PostsKept
  <1> DEFINE Kept1 == \A r \in Req : req[r].state = "HTTP" /\ req'[r].state = "FREE" =>
                                    req[r].response = "OK" \/ ~ wifi
  <1>1. ASSUME IInv, [Next]_vars PROVE Kept1
    <2> SUFFICES ASSUME NEW r \in Req, req[r].state = "HTTP", req'[r].state = "FREE"
                 PROVE  req[r].response = "OK" \/ ~ wifi
      OBVIOUS
    <2>1. FreeRequest(r)
      BY <1>1, OthersKeep
    <2>2. r \in Listed /\ todo \in {One("free", r), LostCalls(r)}
      <3>1. TodoOK
        BY <1>1 DEF IInv
      <3> QED BY <2>1, <3>1, ShapeOfRequest DEF FreeRequest
    <2> QED BY <1>1, <2>2 DEF IInv, ClosedOKInv
  <1>2. IInv /\ [Next]_vars => [Kept1]_vars
    BY <1>1
  <1> QED BY <1>2, ClientInvariance, PTL DEF Spec, PostsKept
=============================================================================
