--------------------------- MODULE WsChannelProofs ---------------------------
(***************************************************************************)
(* What a WebSocket sends, for any number of sockets, queues of any length *)
(* and frames numbered modulo any number from 4 on.  The argument is about *)
(* one socket at a time: its line, the frames on their way and then those  *)
(* that wait, grows at its end by websocket_send alone and shrinks at its  *)
(* front by websocket_sent alone; and `sending`, though the callback of    *)
(* the 101 resets it too early, is never reset while a frame waits.        *)
(***************************************************************************)
EXTENDS WsChannel, SequenceTheorems, TLAPS

USE ModulusAssumption, AuthenticationAssumption

SocketType ==
  [state : {"NONE", "OPEN", "CLOSING", "CLOSED"},
   authorized : BOOLEAN, timeout : BOOLEAN, sending : BOOLEAN,
   queue : Seq(Frame), flight : Seq(Frame), next : 0 .. Modulus - 1, leaving : BOOLEAN]

Line(s) == s.flight \o s.queue

(* What is on the line of a socket that will number its next frame `next`,  *)
(* has begun to close if `closing`, and has logged in if `known`.           *)
Ordered(line) ==
  \A i \in 2 .. Len(line) : line[i].kind # "CLOSE" => line[i].no = (line[i - 1].no + 1) % Modulus
EndsBefore(line, next) == line # <<>> => (line[Len(line)].no + 1) % Modulus = next
ClosesLast(line, closing) ==
  \A i \in 1 .. Len(line) : line[i].kind = "CLOSE" => i = Len(line) /\ closing
Meant(line, known) == \A i \in 1 .. Len(line) : line[i].kind = "TEXT" => known

LineOK(line, next, closing, known) ==
  Ordered(line) /\ EndsBefore(line, next) /\ ClosesLast(line, closing) /\ Meant(line, known)

\* How many frames the SDK may hold when the last send was acknowledged, the 101's
\* apart, and nothing waits.
Spare(c) == IF c \in Client THEN 0 ELSE 1

Served(s, c) ==
  /\ ~ s.sending => s.queue = <<>> /\ Len(s.flight) <= Spare(c)
  /\ s.sending => 1 <= Len(s.flight) /\ Len(s.flight) <= Spare(c) + 1

SocketOK(s, c) ==
  /\ s \in SocketType
  /\ Served(s, c)
  /\ LineOK(Line(s), s.next, s.state \in {"CLOSING", "CLOSED"}, s.authorized)

IInv == TypeOK /\ \A c \in Conn : SocketOK(socket[c], c)

-----------------------------------------------------------------------------
(* Lines *)

\* A frame that is no CLOSE goes to the end of a line that is not closed.
LEMMA AppendLine ==
  ASSUME NEW line \in Seq(Frame), NEW next \in 0 .. Modulus - 1, NEW known \in BOOLEAN,
         NEW f \in Frame, f.no = next, f.kind # "CLOSE", f.kind = "TEXT" => known,
         LineOK(line, next, FALSE, known)
  PROVE  LineOK(Append(line, f), (next + 1) % Modulus, FALSE, known)
  <1> DEFINE new == Append(line, f)
  <1>1. /\ Len(new) = Len(line) + 1 /\ Len(line) \in Nat /\ new # <<>>
        /\ new[Len(new)] = f
        /\ \A i \in 1 .. Len(line) : new[i] = line[i]
    BY AppendProperties, LenProperties
  <1> HIDE DEF new
  <1>2. Ordered(new)
    <2> SUFFICES ASSUME NEW i \in 2 .. Len(new), new[i].kind # "CLOSE"
                 PROVE  new[i].no = (new[i - 1].no + 1) % Modulus
      BY DEF Ordered
    <2>1. CASE i <= Len(line)
      BY <1>1, <2>1 DEF LineOK, Ordered
    <2>2. CASE i = Len(line) + 1
      <3>1. line # <<>> /\ new[i - 1] = line[Len(line)] /\ new[i] = f
        BY <1>1, <2>2
      <3> QED BY <3>1 DEF LineOK, EndsBefore
    <2> QED BY <1>1, <2>1, <2>2
  <1>3. EndsBefore(new, (next + 1) % Modulus)
    BY <1>1 DEF EndsBefore
  <1>4. ClosesLast(new, FALSE) /\ Meant(new, known)
    <2> SUFFICES ASSUME NEW i \in 1 .. Len(new)
                 PROVE  new[i].kind # "CLOSE" /\ (new[i].kind = "TEXT" => known)
      BY DEF ClosesLast, Meant
    <2>1. CASE i <= Len(line)
      BY <1>1, <2>1 DEF LineOK, ClosesLast, Meant
    <2>2. CASE i = Len(new)
      BY <1>1, <2>2
    <2> QED BY <1>1, <2>1, <2>2
  <1> QED BY <1>2, <1>3, <1>4 DEF LineOK, new

\* CLOSE goes to the end of what remains when those that wait are forgotten.
LEMMA CloseLine ==
  ASSUME NEW flight \in Seq(Frame), NEW queue \in Seq(Frame),
         NEW next \in 0 .. Modulus - 1, NEW known \in BOOLEAN,
         NEW f \in Frame, f.no = next, f.kind = "CLOSE",
         LineOK(flight \o queue, next, FALSE, known)
  PROVE  LineOK(Append(flight, f), (next + 1) % Modulus, TRUE, known)
  <1> DEFINE new == Append(flight, f)
             line == flight \o queue
  <1>1. /\ Len(new) = Len(flight) + 1 /\ Len(flight) \in Nat /\ new # <<>>
        /\ new[Len(new)] = f
        /\ \A i \in 1 .. Len(flight) : new[i] = flight[i]
    BY AppendProperties, LenProperties
  <1>2. /\ Len(line) \in Nat /\ Len(flight) <= Len(line)
        /\ \A i \in 1 .. Len(flight) : flight[i] = line[i]
    BY ConcatProperties, LenProperties
  <1> HIDE DEF new, line
  <1>3. Ordered(new)
    <2> SUFFICES ASSUME NEW i \in 2 .. Len(new), new[i].kind # "CLOSE"
                 PROVE  new[i].no = (new[i - 1].no + 1) % Modulus
      BY DEF Ordered
    <2>1. i \in 2 .. Len(flight)
      BY <1>1
    <2>2. new[i] = line[i] /\ new[i - 1] = line[i - 1] /\ i \in 2 .. Len(line)
      BY <1>1, <1>2, <2>1
    <2> QED BY <2>2 DEF LineOK, Ordered, line
  <1>4. EndsBefore(new, (next + 1) % Modulus)
    BY <1>1 DEF EndsBefore
  <1>5. ClosesLast(new, TRUE) /\ Meant(new, known)
    <2> SUFFICES ASSUME NEW i \in 1 .. Len(new)
                 PROVE  /\ new[i].kind = "CLOSE" => i = Len(new)
                        /\ new[i].kind = "TEXT" => known
      BY DEF ClosesLast, Meant
    <2>1. CASE i <= Len(flight)
      <3>1. new[i] = line[i] /\ i \in 1 .. Len(line)
        BY <1>1, <1>2, <2>1
      <3> QED BY <3>1 DEF LineOK, ClosesLast, Meant, line
    <2>2. CASE i = Len(new)
      BY <1>1, <2>2
    <2> QED BY <1>1, <2>1, <2>2
  <1> QED BY <1>3, <1>4, <1>5 DEF LineOK, new

\* The oldest frame leaves the line.
LEMMA TailLine ==
  ASSUME NEW line \in Seq(Frame), line # <<>>, NEW next, NEW closing, NEW known,
         LineOK(line, next, closing, known)
  PROVE  LineOK(Tail(line), next, closing, known)
  <1> DEFINE new == Tail(line)
  <1>1. /\ Len(new) \in Nat /\ Len(line) = Len(new) + 1
        /\ \A i \in 1 .. Len(new) : new[i] = line[i + 1]
    BY HeadTailProperties, LenProperties
  <1>2. new # <<>> => Len(new) >= 1
    BY HeadTailProperties, EmptySeq
  <1> HIDE DEF new
  <1>3. Ordered(new)
    <2> SUFFICES ASSUME NEW i \in 2 .. Len(new), new[i].kind # "CLOSE"
                 PROVE  new[i].no = (new[i - 1].no + 1) % Modulus
      BY DEF Ordered
    <2>1. new[i] = line[i + 1] /\ new[i - 1] = line[i] /\ i + 1 \in 2 .. Len(line)
      BY <1>1
    <2> QED BY <2>1 DEF LineOK, Ordered
  <1>4. EndsBefore(new, next)
    BY <1>1, <1>2 DEF LineOK, EndsBefore
  <1>5. ClosesLast(new, closing) /\ Meant(new, known)
    BY <1>1 DEF LineOK, ClosesLast, Meant
  <1> QED BY <1>3, <1>4, <1>5 DEF LineOK, new

\* Taking the first of two rows' elements leaves the first row without it.
LEMMA TailOfConcat ==
  ASSUME NEW S, NEW p \in Seq(S), NEW q \in Seq(S), p # <<>>
  PROVE  Tail(p \o q) = Tail(p) \o q
  <1> DEFINE l == Tail(p) \o q
             r == Tail(p \o q)
  <1>1. Len(p) \in Nat /\ Len(q) \in Nat /\ Len(p) >= 1
    BY EmptySeq, LenProperties
  <1>2. /\ p \o q \in Seq(S) /\ Len(p \o q) = Len(p) + Len(q) /\ p \o q # <<>>
        /\ \A i \in 1 .. Len(p) + Len(q) :
             (p \o q)[i] = IF i <= Len(p) THEN p[i] ELSE q[i - Len(p)]
    BY ConcatProperties, ConcatEqualIffEmpty
  <1>3. r \in Seq(S) /\ Len(r) = Len(p) + Len(q) - 1
    BY <1>2, HeadTailProperties
  <1>4. Tail(p) \in Seq(S) /\ Len(Tail(p)) = Len(p) - 1
    BY HeadTailProperties
  <1>5. /\ l \in Seq(S) /\ Len(l) = Len(p) - 1 + Len(q)
        /\ \A i \in 1 .. Len(p) - 1 + Len(q) :
             l[i] = IF i <= Len(p) - 1 THEN Tail(p)[i] ELSE q[i - (Len(p) - 1)]
    BY <1>4, ConcatProperties
  <1>6. /\ \A i \in 1 .. Len(p) - 1 : Tail(p)[i] = p[i + 1]
        /\ \A i \in 1 .. Len(p) + Len(q) - 1 : r[i] = (p \o q)[i + 1]
    BY <1>2
  <1> HIDE DEF l, r
  <1>7. \A i \in 1 .. Len(l) : l[i] = r[i]
    <2> TAKE i \in 1 .. Len(l)
    <2>1. i \in 1 .. Len(p) + Len(q) - 1 /\ i + 1 \in 1 .. Len(p) + Len(q)
      BY <1>1, <1>5
    <2>2. r[i] = IF i + 1 <= Len(p) THEN p[i + 1] ELSE q[i + 1 - Len(p)]
      BY <1>2, <1>6, <2>1
    <2>3. CASE i <= Len(p) - 1
      BY <1>1, <1>5, <1>6, <2>1, <2>2, <2>3
    <2>4. CASE i > Len(p) - 1
      <3>1. i - (Len(p) - 1) = i + 1 - Len(p) /\ ~ i + 1 <= Len(p) /\ ~ i <= Len(p) - 1
        BY <1>1, <2>1, <2>4
      <3> QED BY <1>1, <1>5, <2>1, <2>2, <3>1
    <2> QED BY <1>1, <2>1, <2>3, <2>4
  <1>8. l = r
    BY <1>1, <1>3, <1>5, <1>7, SeqEqual
  <1> QED BY <1>8 DEF l, r

\* An element put at the end of the second of two rows.
LEMMA ConcatAppend ==
  ASSUME NEW S, NEW p \in Seq(S), NEW q \in Seq(S), NEW e \in S
  PROVE  p \o Append(q, e) = Append(p \o q, e)
  <1>1. <<e>> \in Seq(S) /\ p \o q \in Seq(S)
    BY ConcatProperties
  <1>2. Append(q, e) = q \o <<e>> /\ Append(p \o q, e) = (p \o q) \o <<e>>
    BY <1>1, AppendIsConcat
  <1>3. (p \o q) \o <<e>> = p \o (q \o <<e>>)
    BY <1>1, ConcatAssociative
  <1> QED BY <1>2, <1>3

\* The next of those that wait takes the place behind those on their way.
LEMMA ShiftLine ==
  ASSUME NEW S, NEW p \in Seq(S), NEW q \in Seq(S), q # <<>>
  PROVE  Append(p, Head(q)) \o Tail(q) = p \o q
  <1>1. Head(q) \in S /\ Tail(q) \in Seq(S) /\ <<Head(q)>> \in Seq(S)
    BY HeadTailProperties
  <1>2. q = <<Head(q)>> \o Tail(q)
    <2>1. SubSeq(q, 1, Len(q)) = <<q[1]>> \o SubSeq(q, 2, Len(q))
      <3>1. Len(q) \in Nat /\ Len(q) >= 1
        BY EmptySeq, LenProperties
      <3> QED BY <3>1, SubSeqRecursiveFirst
    <2> QED BY <2>1, SubSeqFull, TailIsSubSeq
  <1>3. Append(p, Head(q)) = p \o <<Head(q)>>
    BY <1>1, AppendIsConcat
  <1>4. (p \o <<Head(q)>>) \o Tail(q) = p \o (<<Head(q)>> \o Tail(q))
    BY <1>1, ConcatAssociative
  <1> QED BY <1>2, <1>3, <1>4

-----------------------------------------------------------------------------
(* One socket *)

LEMMA LineType ==
  ASSUME NEW s \in SocketType
  PROVE  /\ Line(s) \in Seq(Frame)
         /\ s.queue = <<>> => Line(s) = s.flight
         /\ s.flight # <<>> => Line(s) # <<>>
  BY ConcatProperties, ConcatEmptySeq, ConcatEqualIffEmpty DEF Line, SocketType

\* websocket_send puts the frame at the end of the line.
LEMMA SendLine ==
  ASSUME NEW c \in Conn, NEW s \in SocketType, Served(s, c),
         NEW kind \in {"HANDSHAKE", "TEXT", "PING", "PONG", "CLOSE"}
  PROVE  /\ Send(s, kind) \in SocketType
         /\ Served(Send(s, kind), c)
         /\ Line(Send(s, kind)) = Append(Line(s), Numbered(s, kind))
         /\ Send(s, kind).next = (s.next + 1) % Modulus
         /\ Send(s, kind).state = s.state
         /\ Send(s, kind).authorized = s.authorized
  <1> DEFINE t == Send(s, kind)
             f == Numbered(s, kind)
             n == (s.next + 1) % Modulus
  <1>1. f \in Frame /\ n \in 0 .. Modulus - 1
    BY DEF Numbered, Frame, SocketType
  <1>2. CASE s.sending
    <2>1. t = [[s EXCEPT !.next = n] EXCEPT !.queue = Append(@, f)]
      BY <1>2 DEF Send, Advanced
    <2>2. Append(s.queue, f) \in Seq(Frame)
      BY <1>1, AppendProperties DEF SocketType
    <2>3. t \in SocketType /\ t.flight = s.flight /\ t.queue = Append(s.queue, f)
          /\ t.sending /\ t.next = n /\ t.state = s.state /\ t.authorized = s.authorized
      BY <1>1, <2>1, <2>2, <1>2 DEF SocketType
    <2> HIDE DEF t
    <2>4. Line(t) = Append(Line(s), f)
      <3>1. s.flight \in Seq(Frame) /\ s.queue \in Seq(Frame)
        BY DEF SocketType
      <3> HIDE DEF f
      <3>2. s.flight \o Append(s.queue, f) = Append(s.flight \o s.queue, f)
        <4>1. \A p, q \in Seq(Frame), e \in Frame : p \o Append(q, e) = Append(p \o q, e)
          BY ConcatAppend
        <4>2. f \in Frame
          BY <1>1
        <4> QED BY <3>1, <4>1, <4>2, Zenon
      <3> QED BY <2>3, <3>2 DEF Line
    <2> QED BY <1>2, <2>3, <2>4 DEF Served, t
  <1>3. CASE ~ s.sending
    <2>1. t = [[s EXCEPT !.next = n] EXCEPT !.flight = Append(@, f), !.sending = TRUE]
      BY <1>3 DEF Send, Advanced
    <2>2. /\ Append(s.flight, f) \in Seq(Frame)
          /\ Len(Append(s.flight, f)) = Len(s.flight) + 1 /\ Len(s.flight) \in Nat
      BY <1>1, AppendProperties, LenProperties DEF SocketType
    <2>3. t \in SocketType /\ t.flight = Append(s.flight, f) /\ t.queue = s.queue
          /\ t.sending /\ t.next = n /\ t.state = s.state /\ t.authorized = s.authorized
      BY <1>1, <2>1, <2>2 DEF SocketType
    <2> HIDE DEF t
    <2>4. s.queue = <<>>
      BY <1>3 DEF Served
    <2>5. Line(s) = s.flight /\ Line(t) = t.flight
      BY <2>3, <2>4, LineType
    <2>6. Served(t, c)
      BY <1>3, <2>2, <2>3 DEF Served, Spare
    <2> QED BY <2>3, <2>5, <2>6 DEF t
  <1> QED BY <1>2, <1>3

\* websocket_sent takes the oldest frame from the line.
LEMMA SentLine ==
  ASSUME NEW c \in Conn, NEW s \in SocketType, Served(s, c), s.flight # <<>>
  PROVE  /\ Sent(s) \in SocketType
         /\ Served(Sent(s), c)
         /\ Line(Sent(s)) = Tail(Line(s))
         /\ Sent(s).next = s.next
         /\ Sent(s).state = s.state
         /\ Sent(s).authorized = s.authorized
  <1> DEFINE t == Sent(s)
             fl == s.flight
             q == s.queue
  <1>1. fl \in Seq(Frame) /\ q \in Seq(Frame)
    BY DEF SocketType
  <1>2. Tail(fl) \in Seq(Frame) /\ Len(Tail(fl)) = Len(fl) - 1 /\ Len(fl) \in Nat
    BY <1>1, HeadTailProperties, LenProperties
  <1>3. CASE q = <<>>
    <2>1. t = [s EXCEPT !.flight = Tail(@), !.sending = FALSE]
      BY <1>3 DEF Sent
    <2>2. /\ t \in SocketType /\ t.flight = Tail(fl) /\ t.queue = <<>> /\ t.sending = FALSE
          /\ t.next = s.next /\ t.state = s.state /\ t.authorized = s.authorized
      BY <1>2, <1>3, <2>1 DEF SocketType
    <2> HIDE DEF t
    <2>3. Line(s) = fl /\ Line(t) = Tail(fl)
      BY <1>3, <2>2, LineType
    <2>4. Served(t, c)
      BY <1>2, <2>2 DEF Served, Spare
    <2> QED BY <2>2, <2>3, <2>4 DEF t
  <1>4. CASE q # <<>>
    <2>1. t = [s EXCEPT !.flight = Append(Tail(@), Head(q)), !.queue = Tail(@)]
      BY <1>4 DEF Sent
    <2>2. Head(q) \in Frame /\ Tail(q) \in Seq(Frame) /\ Len(Tail(q)) = Len(q) - 1 /\ Len(q) \in Nat
      BY <1>1, <1>4, HeadTailProperties, LenProperties
    <2>3. /\ Append(Tail(fl), Head(q)) \in Seq(Frame)
          /\ Len(Append(Tail(fl), Head(q))) = Len(fl)
      BY <1>2, <2>2, AppendProperties
    <2>4. /\ t \in SocketType /\ t.flight = Append(Tail(fl), Head(q)) /\ t.queue = Tail(q)
          /\ t.sending = s.sending
          /\ t.next = s.next /\ t.state = s.state /\ t.authorized = s.authorized
      BY <2>1, <2>2, <2>3 DEF SocketType
    <2>5. s.sending
      BY <1>4 DEF Served, SocketType
    <2> HIDE DEF t
    <2>6. Served(t, c)
      BY <2>3, <2>4, <2>5 DEF Served
    <2>7. Append(Tail(fl), Head(q)) \o Tail(q) = Tail(fl \o q)
      <3>1. Append(Tail(fl), Head(q)) \o Tail(q) = Tail(fl) \o q
        BY <1>1, <1>2, <1>4, ShiftLine
      <3>2. Tail(fl \o q) = Tail(fl) \o q
        BY <1>1, TailOfConcat
      <3> QED BY <3>1, <3>2
    <2> QED BY <2>4, <2>6, <2>7 DEF t, Line
  <1> QED BY <1>3, <1>4

\* What a socket that is not closing may send keeps it as it should be
\* (websocket_ping, websocket_pong, websocket_send_message).
LEMMA SendOK ==
  ASSUME NEW c \in Conn, NEW s, SocketOK(s, c), s.state = "OPEN",
         NEW kind \in {"TEXT", "PING", "PONG"}, kind = "TEXT" => s.authorized
  PROVE  SocketOK(Send(s, kind), c)
  <1> DEFINE t == Send(s, kind)
             f == Numbered(s, kind)
  <1>1. /\ s \in SocketType /\ Served(s, c) /\ Line(s) \in Seq(Frame)
        /\ LineOK(Line(s), s.next, FALSE, s.authorized)
    <2>1. (s.state \in {"CLOSING", "CLOSED"}) = FALSE
      OBVIOUS
    <2> QED BY <2>1, LineType DEF SocketOK
  <1>2. f \in Frame /\ f.no = s.next /\ f.kind = kind
    BY <1>1 DEF Numbered, Frame, SocketType
  <1>3. s.next \in 0 .. Modulus - 1 /\ s.authorized \in BOOLEAN
    BY <1>1 DEF SocketType
  <1>4. LineOK(Append(Line(s), f), (s.next + 1) % Modulus, FALSE, s.authorized)
    BY <1>1, <1>2, <1>3, AppendLine
  <1>5. /\ t \in SocketType /\ Served(t, c) /\ Line(t) = Append(Line(s), f)
        /\ t.next = (s.next + 1) % Modulus /\ t.state = s.state /\ t.authorized = s.authorized
    <2>1. kind \in {"HANDSHAKE", "TEXT", "PING", "PONG", "CLOSE"}
      OBVIOUS
    <2> QED BY <1>1, <2>1, SendLine, Zenon
  <1> HIDE DEF t, f
  <1>6. (t.state \in {"CLOSING", "CLOSED"}) = FALSE
    BY <1>5
  <1>7. SocketOK(t, c)
    BY <1>4, <1>5, <1>6 DEF SocketOK
  <1> QED BY <1>7 DEF t

LEMMA SentOK ==
  ASSUME NEW c \in Conn, NEW s, SocketOK(s, c), s.flight # <<>>
  PROVE  SocketOK(Sent(s), c)
  <1>1. s \in SocketType /\ Served(s, c) /\ Line(s) \in Seq(Frame) /\ Line(s) # <<>>
    BY LineType DEF SocketOK
  <1>2. LineOK(Tail(Line(s)), s.next, s.state \in {"CLOSING", "CLOSED"}, s.authorized)
    BY <1>1, TailLine DEF SocketOK
  <1> QED BY <1>1, <1>2, SentLine DEF SocketOK

\* websocket_close: the first of the handshake's two halves sends CLOSE.
LEMMA CloseOK ==
  ASSUME NEW c \in Conn, NEW s, SocketOK(s, c)
  PROVE  SocketOK(Close(s), c)
  <1>1. s \in SocketType
    BY DEF SocketOK
  <1>2. CASE s.state = "OPEN"
    <2> DEFINE u == [s EXCEPT !.state = "CLOSING", !.queue = <<>>]
               t == Send(u, "CLOSE")
               f == Numbered(u, "CLOSE")
    <2>1. Close(s) = t
      BY <1>2 DEF Close
    <2>2. /\ u \in SocketType /\ u.flight = s.flight /\ u.queue = <<>> /\ u.sending = s.sending
          /\ u.next = s.next /\ u.state = "CLOSING" /\ u.authorized = s.authorized
      BY <1>1, EmptySeq DEF SocketType
    <2> HIDE DEF u
    <2>3. Served(u, c)
      BY <2>2 DEF SocketOK, Served
    <2>4. Line(u) = s.flight
      BY <2>2, LineType
    <2>5. /\ t \in SocketType /\ Served(t, c) /\ Line(t) = Append(s.flight, f)
          /\ t.next = (s.next + 1) % Modulus /\ t.state = "CLOSING" /\ t.authorized = s.authorized
      BY <2>2, <2>3, <2>4, SendLine
    <2>6. f \in Frame /\ f.no = s.next /\ f.kind = "CLOSE"
      BY <2>2 DEF Numbered, Frame, SocketType
    <2>7. LineOK(s.flight \o s.queue, s.next, FALSE, s.authorized)
      <3>1. (s.state \in {"CLOSING", "CLOSED"}) = FALSE
        BY <1>2
      <3> QED BY <3>1 DEF SocketOK, Line
    <2>8. /\ s.flight \in Seq(Frame) /\ s.queue \in Seq(Frame)
          /\ s.next \in 0 .. Modulus - 1 /\ s.authorized \in BOOLEAN
      BY <1>1 DEF SocketType
    <2> HIDE DEF t, f
    <2>9. LineOK(Append(s.flight, f), (s.next + 1) % Modulus, TRUE, s.authorized)
      BY <2>6, <2>7, <2>8, CloseLine
    <2>10. (t.state \in {"CLOSING", "CLOSED"}) = TRUE
      BY <2>5
    <2> QED BY <2>1, <2>5, <2>9, <2>10 DEF SocketOK
  <1>3. CASE s.state = "CLOSING"
    <2> DEFINE t == [s EXCEPT !.state = "CLOSED", !.leaving = TRUE]
    <2>1. Close(s) = t
      BY <1>3 DEF Close
    <2>2. /\ t \in SocketType /\ t.flight = s.flight /\ t.queue = s.queue
          /\ t.sending = s.sending /\ t.next = s.next /\ t.state = "CLOSED"
          /\ t.authorized = s.authorized
      BY <1>1 DEF SocketType
    <2> HIDE DEF t
    <2>3. (t.state \in {"CLOSING", "CLOSED"}) = (s.state \in {"CLOSING", "CLOSED"})
      BY <1>3, <2>2
    <2> QED BY <2>1, <2>2, <2>3 DEF SocketOK, Served, Line
  <1>4. CASE s.state \notin {"OPEN", "CLOSING"}
    BY <1>4 DEF Close
  <1> QED BY <1>2, <1>3, <1>4

\* Fields that neither the line nor its sending looks at.
LEMMA RelabelOK ==
  ASSUME NEW c \in Conn, NEW s, SocketOK(s, c), NEW b \in BOOLEAN
  PROVE  /\ SocketOK([s EXCEPT !.timeout = b], c)
         /\ SocketOK([s EXCEPT !.leaving = b], c)
         /\ SocketOK([s EXCEPT !.authorized = TRUE], c)
  <1>1. s \in SocketType
    BY DEF SocketOK
  <1>2. ASSUME NEW t \in SocketType, t.flight = s.flight, t.queue = s.queue,
               t.sending = s.sending, t.next = s.next, t.state = s.state,
               t.authorized = s.authorized \/ t.authorized
        PROVE  SocketOK(t, c)
    <2>1. Served(t, c)
      BY <1>2 DEF SocketOK, Served
    <2>2. Meant(Line(t), t.authorized)
      BY <1>2 DEF SocketOK, LineOK, Meant, Line
    <2>3. Ordered(Line(t)) /\ EndsBefore(Line(t), t.next)
          /\ ClosesLast(Line(t), t.state \in {"CLOSING", "CLOSED"})
      BY <1>2 DEF SocketOK, LineOK, Line
    <2> QED BY <1>2, <2>1, <2>2, <2>3 DEF SocketOK, LineOK
  <1>3. SocketOK([s EXCEPT !.timeout = b], c)
    BY <1>1, <1>2 DEF SocketType
  <1>4. SocketOK([s EXCEPT !.leaving = b], c)
    BY <1>1, <1>2 DEF SocketType
  <1>5. SocketOK([s EXCEPT !.authorized = TRUE], c)
    BY <1>1, <1>2 DEF SocketType
  <1> QED BY <1>3, <1>4, <1>5

LEMMA MessageOK ==
  ASSUME NEW c \in Conn, NEW s, SocketOK(s, c)
  PROVE  SocketOK(Message(s), c) /\ SocketOK(Ping(s), c) /\ SocketOK(Pong(s), c)
  <1>1. SocketOK(Message(s), c)
    BY SendOK DEF Message
  <1>2. SocketOK(Pong(s), c)
    BY SendOK DEF Pong
  <1>3. SocketOK(Ping(s), c)
    <2> DEFINE t == [s EXCEPT !.timeout = TRUE]
    <2>1. SocketOK(t, c) /\ t.state = s.state
      BY RelabelOK DEF SocketOK, SocketType
    <2> HIDE DEF t
    <2>2. CASE s.state = "OPEN"
      <3>1. SocketOK(Send(t, "PING"), c)
        BY <2>1, <2>2, SendOK
      <3> QED BY <2>2, <3>1 DEF Ping, t
    <2> QED BY <2>2 DEF Ping
  <1> QED BY <1>1, <1>2, <1>3

\* Whatever arrives, the socket stays as it should be (websocket_recv).
LEMMA ReceivedOK ==
  ASSUME NEW c \in Conn, NEW s, SocketOK(s, c), NEW input \in Input
  PROVE  SocketOK(Received(s, input), c)
  <1> DEFINE t == [s EXCEPT !.timeout = FALSE]
  <1>1. SocketOK(t, c)
    BY RelabelOK
  <1> HIDE DEF t
  <1>2. SocketOK(Close(t), c) /\ SocketOK(PeerClosed(t), c)
    BY <1>1, CloseOK DEF PeerClosed
  <1>3. SocketOK(Pong(t), c)
    BY <1>1, MessageOK
  <1>4. SocketOK(Handled(t, input), c)
    <2>1. SocketOK([t EXCEPT !.authorized = TRUE], c)
      BY <1>1, RelabelOK
    <2>2. SocketOK(Message([t EXCEPT !.authorized = TRUE]), c) /\ SocketOK(Message(t), c)
      BY <1>1, <2>1, MessageOK
    <2>3. \/ Handled(t, input) = Message([t EXCEPT !.authorized = TRUE])
          \/ Handled(t, input) = Close(t)
          \/ Handled(t, input) = t
          \/ Handled(t, input) = Message(t)
      BY DEF Handled
    <2> QED BY <1>1, <1>2, <2>2, <2>3
  <1>5. \/ Received(s, input) = Close(t)
        \/ Received(s, input) = PeerClosed(t)
        \/ Received(s, input) = Pong(t)
        \/ Received(s, input) = Handled(t, input)
        \/ Received(s, input) = t
    BY DEF Received, t
  <1> QED BY <1>1, <1>2, <1>3, <1>4, <1>5

\* A line of one frame, which is neither a message nor a CLOSE.
LEMMA NewSocketOK ==
  ASSUME NEW c \in Conn
  PROVE  /\ SocketOK(NoSocket, c)
         /\ SocketOK([NoSocket EXCEPT !.state = "OPEN", !.authorized = TRUE], c)
         /\ c \notin Client =>
              SocketOK([NoSocket EXCEPT !.state = "OPEN", !.authorized = ~ Authentication, !.next = 1,
                                        !.flight = <<[kind |-> "HANDSHAKE", no |-> 0]>>], c)
  <1>1. \A n, a, b : LineOK(<<>>, n, a, b)
    BY DEF LineOK, Ordered, EndsBefore, ClosesLast, Meant
  <1>2. /\ NoSocket \in SocketType
        /\ NoSocket.queue = <<>> /\ NoSocket.flight = <<>> /\ NoSocket.sending = FALSE
    BY EmptySeq DEF NoSocket, SocketType
  <1>3. ASSUME NEW s \in SocketType, s.queue = <<>>, s.flight = <<>>, s.sending = FALSE
        PROVE  SocketOK(s, c)
    <2>1. Line(s) = <<>> /\ Served(s, c)
      BY <1>3, LineType DEF Served, Spare
    <2> QED BY <1>1, <1>3, <2>1 DEF SocketOK
  <1>4. SocketOK([NoSocket EXCEPT !.state = "OPEN", !.authorized = TRUE], c)
    <2> DEFINE s == [NoSocket EXCEPT !.state = "OPEN", !.authorized = TRUE]
    <2>1. s \in SocketType /\ s.queue = <<>> /\ s.flight = <<>> /\ s.sending = FALSE
      BY <1>2 DEF SocketType
    <2> QED BY <1>3, <2>1
  <1>5. ASSUME c \notin Client
        PROVE  SocketOK([NoSocket EXCEPT !.state = "OPEN", !.authorized = ~ Authentication, !.next = 1,
                                         !.flight = <<[kind |-> "HANDSHAKE", no |-> 0]>>], c)
    <2> DEFINE f == [kind |-> "HANDSHAKE", no |-> 0]
               known == ~ Authentication
               s == [NoSocket EXCEPT !.state = "OPEN", !.authorized = known, !.next = 1,
                                     !.flight = <<f>>]
    <2>1. f \in Frame /\ f.kind = "HANDSHAKE" /\ f.no = 0
      BY DEF Frame
    <2>2. known \in BOOLEAN
      BY AuthenticationAssumption, Zenon
    <2> HIDE DEF f, known
    <2>3. /\ s \in SocketType /\ s.queue = <<>> /\ s.flight = <<f>> /\ s.sending = FALSE
          /\ s.next = 1
      <3>1. <<f>> \in Seq(Frame) /\ 1 \in 0 .. Modulus - 1
        BY <2>1
      <3> QED BY <1>2, <2>2, <3>1 DEF SocketType
    <2> HIDE DEF s
    <2>4. Line(s) = <<f>>
      BY <2>3, LineType
    <2>5. Served(s, c)
      BY <1>5, <2>3 DEF Served, Spare
    <2>6. \A b : LineOK(<<f>>, 1, b, s.authorized)
      BY <2>1 DEF LineOK, Ordered, EndsBefore, ClosesLast, Meant
    <2>7. SocketOK(s, c)
      BY <2>3, <2>4, <2>5, <2>6 DEF SocketOK
    <2> QED BY <2>7 DEF s, f, known
  <1> QED BY <1>2, <1>3, <1>4, <1>5

-----------------------------------------------------------------------------
(* The sockets together *)

LEMMA InitIInv == Init => IInv
  <1> SUFFICES ASSUME Init PROVE IInv
    OBVIOUS
  <1>1. TypeOK
    <2>1. NoSocket \in SocketType
      BY EmptySeq DEF NoSocket, SocketType
    <2> QED BY <2>1 DEF Init, TypeOK, SocketType
  <1> QED BY <1>1, NewSocketOK DEF Init, IInv

\* A step that leaves every socket as it should be, and the flags flags.
LEMMA SocketsOK ==
  ASSUME NEW new, socket' = [c \in Conn |-> new[c]],
         \A c \in Conn : SocketOK(new[c], c),
         mute' \in [Conn -> BOOLEAN],
         keep_alive' \in BOOLEAN, timeout_timer' \in BOOLEAN, chunk' \in BOOLEAN
  PROVE  IInv'
  <1>1. \A c \in Conn : SocketOK(socket'[c], c)
    OBVIOUS
  <1>2. socket' \in [Conn -> SocketType]
    BY DEF SocketOK
  <1>3. TypeOK'
    BY <1>2 DEF TypeOK, SocketType
  <1> QED BY <1>1, <1>3 DEF IInv, SocketOK, Served, Line, LineOK

\* One socket changes.
LEMMA OneSocketOK ==
  ASSUME IInv, NEW c \in Conn, NEW t, SocketOK(t, c), socket' = [socket EXCEPT ![c] = t],
         mute' \in [Conn -> BOOLEAN],
         keep_alive' \in BOOLEAN, timeout_timer' \in BOOLEAN, chunk' \in BOOLEAN
  PROVE  IInv'
  <1> DEFINE new == [socket EXCEPT ![c] = t]
  <1>1. socket \in [Conn -> SocketType]
    BY DEF IInv, TypeOK, SocketType
  <1>2. new = [d \in Conn |-> new[d]] /\ \A d \in Conn : new[d] = IF d = c THEN t ELSE socket[d]
    BY <1>1
  <1>3. \A d \in Conn : SocketOK(new[d], d)
    BY <1>2 DEF IInv
  <1> HIDE DEF new
  <1>4. socket' = [d \in Conn |-> new[d]]
    BY <1>2 DEF new
  <1> QED BY <1>3, <1>4, SocketsOK

LEMMA TellOK ==
  ASSUME NEW sockets, NEW listeners, \A c \in Conn : SocketOK(sockets[c], c)
  PROVE  \A c \in Conn : SocketOK(Tell(sockets, listeners)[c], c)
  BY MessageOK DEF Tell

\* A step keeps every socket as it should be.
LEMMA NextIInv ==
  ASSUME IInv, [Next]_vars
  PROVE  IInv'
  <1> USE DEF IInv
  <1>1. /\ mute \in [Conn -> BOOLEAN]
        /\ keep_alive \in BOOLEAN /\ timeout_timer \in BOOLEAN /\ chunk \in BOOLEAN
        /\ \A c \in Conn : SocketOK(socket[c], c)
        /\ socket \in [Conn -> SocketType]
    BY DEF TypeOK, SocketType
  <1>2. ASSUME NEW c \in Conn, ServerUpgrade(c) PROVE IInv'
    BY <1>1, <1>2, NewSocketOK, OneSocketOK DEF ServerUpgrade
  <1>3. ASSUME NEW c \in Conn, ClientUpgrade(c) PROVE IInv'
    BY <1>1, <1>3, NewSocketOK, OneSocketOK DEF ClientUpgrade
  <1>4. ASSUME NEW c \in Conn, NEW input \in Input, Recv(c, input) PROVE IInv'
    <2>1. SocketOK(Received(socket[c], input), c)
      BY <1>1, ReceivedOK
    <2>2. socket' = [socket EXCEPT ![c] = Received(socket[c], input)]
      BY <1>4 DEF Recv
    <2>3. chunk' \in BOOLEAN /\ UNCHANGED <<mute, keep_alive, timeout_timer>>
      BY <1>1, <1>4 DEF Recv
    <2> QED BY <1>1, <2>1, <2>2, <2>3, OneSocketOK
  <1>5. ASSUME NEW c \in Conn, SentCallback(c) PROVE IInv'
    <2>1. SocketOK(Sent(socket[c]), c)
      BY <1>1, <1>5, SentOK DEF SentCallback
    <2>2. socket' = [socket EXCEPT ![c] = Sent(socket[c])]
      BY <1>5 DEF SentCallback
    <2> QED BY <1>1, <1>5, <2>1, <2>2, OneSocketOK DEF SentCallback
  <1>6. ASSUME NEW c \in Conn, NEW listeners \in SUBSET Conn, Post(c, listeners) PROVE IInv'
    <2> DEFINE heard == [socket EXCEPT ![c].timeout = FALSE]
               new == Tell(heard, listeners)
    <2>1. \A d \in Conn : SocketOK(heard[d], d)
      <3>1. SocketOK([socket[c] EXCEPT !.timeout = FALSE], c)
        BY <1>1, RelabelOK
      <3>2. \A d \in Conn :
              heard[d] = IF d = c THEN [socket[c] EXCEPT !.timeout = FALSE] ELSE socket[d]
        BY <1>1
      <3> QED BY <1>1, <3>1, <3>2
    <2>2. \A d \in Conn : SocketOK(new[d], d)
      BY <2>1, TellOK
    <2>3. socket' = [d \in Conn |-> new[d]]
      BY <1>6 DEF Post, Tell
    <2> HIDE DEF new
    <2> QED BY <1>1, <1>6, <2>2, <2>3, SocketsOK DEF Post
  <1>7. ASSUME NEW c \in Conn, Gone(c) PROVE IInv'
    <2>1. mute' \in [Conn -> BOOLEAN]
      BY <1>1, <1>7 DEF Gone
    <2> QED BY <1>1, <1>7, <2>1, NewSocketOK, OneSocketOK DEF Gone
  <1>8. ASSUME NEW c \in Conn, FallSilent(c) PROVE IInv'
    <2>1. mute' \in [Conn -> BOOLEAN]
      BY <1>1, <1>8 DEF FallSilent
    <2>2. socket' = [d \in Conn |-> socket[d]]
      BY <1>1, <1>8 DEF FallSilent
    <2> QED BY <1>1, <1>8, <2>1, <2>2, SocketsOK DEF FallSilent
  <1>9. ASSUME NEW listeners \in SUBSET Conn, Raise(listeners) PROVE IInv'
    <2> DEFINE new == Tell(socket, listeners)
    <2>1. \A d \in Conn : SocketOK(new[d], d)
      BY <1>1, TellOK
    <2>2. socket' = [d \in Conn |-> new[d]]
      BY <1>9 DEF Raise, Tell
    <2> HIDE DEF new
    <2> QED BY <1>1, <1>9, <2>1, <2>2, SocketsOK DEF Raise
  <1>10. CASE KeepAlive
    <2> DEFINE new == [c \in Conn |-> IF chunk THEN socket[c] ELSE Ping(socket[c])]
    <2>1. \A d \in Conn : SocketOK(new[d], d)
      BY <1>1, MessageOK
    <2>2. socket' = [d \in Conn |-> new[d]] /\ timeout_timer' \in BOOLEAN
      BY <1>1, <1>10 DEF KeepAlive
    <2> HIDE DEF new
    <2> QED BY <1>1, <1>10, <2>1, <2>2, SocketsOK DEF KeepAlive, KeepAliveGoesOn
  <1>11. CASE Timeout
    <2> DEFINE new == [c \in Conn |-> IF TimedOut(c) THEN Close(socket[c]) ELSE socket[c]]
    <2>1. \A d \in Conn : SocketOK(new[d], d)
      BY <1>1, CloseOK
    <2>2. socket' = [d \in Conn |-> new[d]]
      BY <1>11 DEF Timeout
    <2> HIDE DEF new
    <2> QED BY <1>1, <1>11, <2>1, <2>2, SocketsOK DEF Timeout
  <1>12. CASE CloseAll
    <2> DEFINE new == [c \in Conn |-> Close(socket[c])]
    <2>1. \A d \in Conn : SocketOK(new[d], d)
      BY <1>1, CloseOK
    <2>2. socket' = [d \in Conn |-> new[d]]
      BY <1>12 DEF CloseAll
    <2> HIDE DEF new
    <2> QED BY <1>1, <1>12, <2>1, <2>2, SocketsOK DEF CloseAll
  <1>13. CASE Upload
    <2> DEFINE new == [c \in Conn |-> [socket[c] EXCEPT !.leaving = FALSE]]
    <2>1. \A d \in Conn : SocketOK(new[d], d)
      BY <1>1, RelabelOK
    <2>2. socket' = [d \in Conn |-> new[d]]
      BY <1>13 DEF Upload
    <2> HIDE DEF new
    <2> QED BY <1>1, <1>13, <2>1, <2>2, SocketsOK DEF Upload
  <1>14. CASE Restart
    <2> DEFINE new == [c \in Conn |-> NoSocket]
    <2>1. \A d \in Conn : SocketOK(new[d], d)
      BY NewSocketOK
    <2>2. socket' = [d \in Conn |-> new[d]] /\ mute' \in [Conn -> BOOLEAN]
      BY <1>14 DEF Restart
    <2> HIDE DEF new
    <2> QED BY <1>14, <2>1, <2>2, SocketsOK DEF Restart
  <1>15. CASE UNCHANGED vars
    <2>1. socket' = [d \in Conn |-> socket[d]]
      BY <1>1, <1>15 DEF vars
    <2> QED BY <1>1, <1>15, <2>1, SocketsOK DEF vars
  <1> QED
    BY <1>2, <1>3, <1>4, <1>5, <1>6, <1>7, <1>8, <1>9, <1>10, <1>11, <1>12, <1>13, <1>14, <1>15
    DEF Next, Leave

-----------------------------------------------------------------------------
\* Every socket's line and its sending flag fit together at all times
\* (websocket_send, websocket_sent, websocket_close).
THEOREM ChannelInvariance == Spec => []IInv
  <1>1. Init => IInv
    BY InitIInv
  <1>2. IInv /\ [Next]_vars => IInv'
    BY NextIInv
  <1> QED BY <1>1, <1>2, PTL DEF Spec

\* The queue of websocket_send is never left to itself.
THEOREM ChannelQueueIsServed == Spec => []QueueIsServed
  <1>1. IInv => QueueIsServed
    <2> SUFFICES ASSUME IInv, NEW c \in Conn, socket[c].queue # <<>>
                 PROVE  socket[c].sending /\ socket[c].flight # <<>>
      BY DEF QueueIsServed
    <2>1. SocketOK(socket[c], c)
      BY DEF IInv
    <2>2. socket[c].sending /\ 1 <= Len(socket[c].flight)
      BY <2>1 DEF SocketOK, Served
    <2> QED BY <2>2, EmptySeq
  <1> QED BY <1>1, ChannelInvariance, PTL

\* The SDK holds one frame of a socket, or two of one that the 101 came before.
THEOREM ChannelInFlightBounded == Spec => []InFlightBounded
  <1>1. IInv => InFlightBounded
    <2> SUFFICES ASSUME IInv, NEW c \in Conn
                 PROVE  Len(socket[c].flight) <= IF c \in Client THEN 1 ELSE 2
      BY DEF InFlightBounded
    <2>1. SocketOK(socket[c], c) /\ Len(socket[c].flight) \in Nat
      BY LenProperties DEF IInv, SocketOK, SocketType
    <2> QED BY <2>1 DEF SocketOK, Served, Spare
  <1> QED BY <1>1, ChannelInvariance, PTL

\* Frames leave in the order they were sent in, and none is lost but before a CLOSE.
THEOREM ChannelFramesInOrder == Spec => []FramesInOrder
  <1>1. IInv => FramesInOrder
    BY DEF IInv, SocketOK, LineOK, Line, Ordered, FramesInOrder
  <1> QED BY <1>1, ChannelInvariance, PTL

\* CLOSE is a socket's last frame, and it is sent once (websocket_close).
THEOREM ChannelCloseIsLast == Spec => []CloseIsLast
  <1>1. IInv => CloseIsLast
    <2> SUFFICES ASSUME IInv, NEW c \in Conn, NEW i \in DOMAIN Line(socket[c]),
                        Line(socket[c])[i].kind = "CLOSE"
                 PROVE  i = Len(Line(socket[c])) /\ ~ Open(c)
      BY DEF CloseIsLast, Line
    <2>1. SocketOK(socket[c], c) /\ i \in 1 .. Len(Line(socket[c]))
      BY LineType, LenProperties DEF IInv, SocketOK
    <2> QED BY <2>1 DEF SocketOK, LineOK, ClosesLast, Open
  <1> QED BY <1>1, ChannelInvariance, PTL

\* A peer that has not logged in is sent no message (websocket_send_message).
THEOREM ChannelStrangersGetNothing == Spec => []StrangersGetNothing
  <1>1. IInv => StrangersGetNothing
    <2> SUFFICES ASSUME IInv, NEW c \in Conn, NEW i \in DOMAIN Line(socket[c]),
                        Line(socket[c])[i].kind = "TEXT"
                 PROVE  socket[c].authorized
      BY DEF StrangersGetNothing, Line
    <2>1. SocketOK(socket[c], c) /\ i \in 1 .. Len(Line(socket[c]))
      BY LineType, LenProperties DEF IInv, SocketOK
    <2> QED BY <2>1 DEF SocketOK, LineOK, Meant
  <1> QED BY <1>1, ChannelInvariance, PTL
=============================================================================
