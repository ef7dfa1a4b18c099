----------------------------- MODULE WsReceive -----------------------------
(***************************************************************************)
(* How the frames of WebSockets are taken from their packets               *)
(* (websocket_recv): a packet may end inside a frame or hold the end of    *)
(* one and the beginning of the next, and what is left of a frame is kept  *)
(* in one place for all sockets.  A frame is a header and len bytes; the   *)
(* header arrives whole.                                                   *)
(***************************************************************************)
EXTENDS Integers, Sequences

CONSTANTS
  Sockets,
  MaxLen,   \* bytes of the longest frame
  Packet    \* bytes of the longest packet, headers counted as one

VARIABLES
  live,       \* sockets connected
  sending,    \* the frame each is sending: its length, and how much is sent
  total,      \* requestTotalLen: what is missing of the frame being received
  chunkID,
  footprint,  \* whose frame it is
  header,     \* its length
  m,          \* bytes of it unmasked
  taken,      \* bytes of it handled, and whether the last was marked so
  wrong,      \* something else was handled as its bytes
  lost        \* a packet was ignored, or a frame's socket went

vars == <<live, sending, total, chunkID, footprint, header, m, taken, wrong, lost>>

Whole(len) == 1 + len

Init ==
  /\ live = Sockets
  /\ sending = [s \in Sockets |-> [len |-> 0, at |-> 1]]
  /\ total = 0 /\ chunkID = 0 /\ header = 0 /\ m = 0
  /\ footprint \in Sockets
  /\ taken = [n |-> 0, last |-> TRUE]
  /\ wrong = FALSE /\ lost = FALSE

\* One frame's part of a packet: the socket's frame of length len, its bytes
\* from at to at + n - 1, where byte 0 is the header.
Part(len, at, n) == [len |-> len, at |-> at, n |-> n]

\* Mutant: what is left of a frame is counted without its header.
RestShort(p, missing) == IF p.n > missing THEN 0 ELSE missing - (IF p.at = 0 THEN p.n - 1 ELSE p.n)

(* requestTotalLen after a part *)
Rest(p, missing) == IF p.n > missing THEN 0 ELSE missing - p.n

(* websocket_recv up to its label clear, for the first part of a packet or *)
(* what follows it.  A part is handled when its bytes are the header's     *)
(* frame's, next in order, and unmasked from the right place.              *)
Take(s, p) ==
  IF total = 0
    THEN IF p.at # 0
           THEN wrong' = TRUE /\ UNCHANGED <<total, chunkID, footprint, header, m, taken, lost>>
           ELSE /\ header' = p.len
                /\ total' = Rest(p, Whole(p.len))
                /\ chunkID' = 0
                /\ footprint' = s
                /\ m' = p.n - 1
                /\ taken' = [n |-> p.n - 1, last |-> total' = 0]
                /\ UNCHANGED <<wrong, lost>>
  ELSE IF footprint # s
    THEN lost' = TRUE /\ UNCHANGED <<total, chunkID, footprint, header, m, taken, wrong>>
    ELSE /\ total' = Rest(p, total)
         /\ chunkID' = chunkID + 1
         /\ wrong' = (wrong \/ p.len # header \/ p.at # m + 1)
         /\ m' = m + p.n
         /\ taken' = [n |-> taken.n + p.n, last |-> total' = 0]
         /\ UNCHANGED <<footprint, header, lost>>

\* The socket goes on with its frame, or begins one; each part is a packet
\* of its own, or two parts follow one another in a packet, which is taken
\* apart by going back to the label recursion.
Receive(s) ==
  /\ s \in live /\ ~wrong
  /\ LET f == sending[s]
         left == Whole(f.len) - f.at
     IN  \/ /\ left > 0
            /\ \E n \in 1..(IF left < Packet THEN left ELSE Packet) :
                 /\ sending' = [sending EXCEPT ![s].at = @ + n]
                 /\ Take(s, Part(f.len, f.at, n))
         \/ /\ left = 0
            /\ \E len \in 0..MaxLen, n \in 1..Packet :
                 /\ n <= Whole(len)
                 /\ sending' = [sending EXCEPT ![s] = [len |-> len, at |-> n]]
                 /\ Take(s, Part(len, 0, n))
  /\ UNCHANGED live

(* A socket goes and another connection takes its place: nothing of the    *)
(* frame being received is forgotten.                                      *)
Disconnect(s) ==
  /\ s \in live
  /\ live' = live \ {s}
  /\ sending' = [sending EXCEPT ![s] = [len |-> 0, at |-> 1]]
  /\ lost' = (lost \/ (total # 0 /\ footprint = s))
  /\ UNCHANGED <<total, chunkID, footprint, header, m, taken, wrong>>

Connect(s) ==
  /\ s \notin live
  /\ live' = live \cup {s}
  /\ UNCHANGED <<sending, total, chunkID, footprint, header, m, taken, wrong, lost>>

(* A callback without data closes the socket and forgets the frame.        *)
NoData(s) ==
  /\ s \in live
  /\ total' = 0
  /\ lost' = (lost \/ total # 0)
  /\ UNCHANGED <<live, sending, chunkID, footprint, header, m, taken, wrong>>

Next == \E s \in Sockets : Receive(s) \/ Disconnect(s) \/ Connect(s) \/ NoData(s)

Spec == Init /\ [][Next]_vars
-----------------------------------------------------------------------------
TypeOK ==
  /\ total \in 0..MaxLen /\ chunkID \in 0..MaxLen
  /\ footprint \in Sockets /\ header \in 0..MaxLen

\* The parts of a frame are handled in order, as that frame's, and unmasked
\* from where the last part ended, unless a packet of another socket came
\* in between, or the frame's socket went in the middle of it.
FrameWhole == wrong => lost

\* The part that ends a frame, and only that one, is marked as the last.
LastIsLast == ~lost /\ ~wrong => (taken.last <=> taken.n = header) /\ taken.n + total = header
=============================================================================
