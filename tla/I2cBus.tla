------------------------------- MODULE I2cBus -------------------------------
(***************************************************************************)
(* The two wires of driver/i2c_master.c, half a clock at a time, and the   *)
(* transfers the drivers of the modules on the bus make with it.  A slave  *)
(* listens as the bus's standard says: SDA falling while SCL is high is a  *)
(* start, rising a stop, and a bit is what SDA holds when SCL rises.  The  *)
(* program may restart while a slave is in the middle of a byte.           *)
(***************************************************************************)
EXTENDS Integers, Sequences, SequencesExt

CONSTANTS
  W,           \* bits of a byte (eight)
  InitClocks,  \* clocks of i2c_master_init (28)
  Data         \* bytes written and sent

VARIABLES
  sda, scl,    \* m_nLastSDA, m_nLastSCL: what the master drives
  ops,         \* operations the running transfer has left
  halves,      \* half clocks the running operation has left
  slave,       \* the slave's state
  bits,        \* bits of the byte on its way
  pull,        \* what the slave drives: 0, or 1 when it lets go
  out,         \* bits the slave has still to send
  said, heard, \* starts, stops and bytes: as meant, as the slave took them
  sent, got,   \* bits sent by the slave, and as the master took them
  synced       \* the slave was idle when the transfer began

vars == <<sda, scl, ops, halves, slave, bits, pull, out, said, heard, sent, got, synced>>

Bits(b) == [i \in 1..W |-> (b \div 2^(W - i)) % 2]
Address == 1
Wire(m) == IF m = 0 \/ pull = 0 THEN 0 ELSE 1

H(d, c) == <<d, c, "drive">>     \* i2c_master_setDC
R == <<1, 1, "read">>            \* ... and i2c_master_getDC
Clock(d) == <<H(d, 0), H(d, 1), H(d, 0)>>

(* i2c_master_start, i2c_master_stop *)
StartHalves == <<H(1, scl), H(1, 1), H(0, 1)>>
StopHalves  == <<H(0, scl), H(0, 1), H(1, 1)>>

(* i2c_master_writeByte *)
WriteHalves(b) == <<H(sda, 0)>> \o FlattenSeq([i \in 1..W |-> Clock(Bits(b)[i])])

(* i2c_master_readByte *)
ReadHalves == <<H(sda, 0)>> \o FlattenSeq([i \in 1..W |-> <<H(1, 0), R>>]) \o <<H(1, 0)>>

(* i2c_master_getAck: the slave's answer *)
GetAckHalves == <<H(sda, 0), H(1, 0), <<1, 1, "ack">>, H(1, 0)>>

(* i2c_master_setAck: the master's answer *)
SetAckHalves(level) == <<H(sda, 0)>> \o Clock(level) \o <<H(1, 0)>>

(* i2c_master_init, and the lines as i2c_master_gpio_init leaves them *)
InitHalves == <<H(1, 0), H(0, 0), H(1, 0)>>
              \o FlattenSeq([i \in 1..InitClocks |-> <<H(1, 0), H(1, 1)>>])
              \o <<H(0, 1), H(0, 1), H(1, 1)>>

Halves(op) ==
  CASE op[1] = "start"  -> StartHalves
    [] op[1] = "stop"   -> StopHalves
    [] op[1] = "write"  -> WriteHalves(op[2])
    [] op[1] = "read"   -> ReadHalves
    [] op[1] = "getack" -> GetAckHalves
    [] op[1] = "setack" -> SetAckHalves(op[2])
    [] op[1] = "init"   -> InitHalves
-----------------------------------------------------------------------------
(* The transfers.  Each byte written is followed by the slave's answer,    *)
(* and a refusal by a stop, after which the function returns.              *)
Start == <<"start">>
Stop == <<"stop">>
Write(b) == <<<<"write", b>>, <<"getack">>>>
Writes(n, b) == FlattenSeq([i \in 1..n |-> Write(b)])
Reads(n) == FlattenSeq([i \in 1..n |-> <<<<"read">>, <<"setack", IF i = n THEN 1 ELSE 0>>>>])

\* An address, a command and n bytes of data.
Put(n, d) == <<Start>> \o Write(2 * Address) \o Writes(n + 1, d) \o <<Stop>>

\* An address and a command, then n bytes read.
Get(n, d) == Put(0, d) \o <<Start>> \o Write(2 * Address + 1) \o Reads(n) \o <<Stop>>

i2c_check_device == <<Start>> \o Write(2 * Address + 1) \o Reads(1) \o <<Stop>>
i2c_read_id(d) == Get(1, d)
dimmer_set_byte(d) == {Put(0, d), Put(1, d)}
dimmer_get_byte(d) == Get(1, d)
dimmer_get_word(d) == Get(2, d)
dimmer_first_stop == <<Stop>>      \* dimmer_init, before it looks for its module
io2_set_execute(d) == Put(1, d)
io2_get_execute(d) == Get(1, d)
io2_acp_execute(d) == Get(2, d)
tc_read(d) == Get(4, d)
rgb_on(d) == Put(0, d)
rgb_set(d) == Put(3, d)
irda_set_mode(d) == Put(1, d)
irda_send_command(d) == Put(2, d)

Transfers ==
  {i2c_check_device, dimmer_first_stop} \cup UNION {dimmer_set_byte(d) : d \in Data}
  \cup UNION {{i2c_read_id(d), dimmer_get_byte(d), dimmer_get_word(d), io2_set_execute(d),
               io2_get_execute(d), io2_acp_execute(d), tc_read(d), rgb_on(d), rgb_set(d),
               irda_set_mode(d), irda_send_command(d)} : d \in Data}

\* Mutant: a refused transfer returns without its stop.
Forsaken == <<>>

(* What is left of a transfer when a byte is refused *)
Refused == <<Stop>>

START == <<2>>
STOP == <<3>>

\* What the slave should take an operation for.
Meant(op) ==
  CASE op[1] = "start" -> <<START>>
    [] op[1] = "stop" -> IF scl = 1 /\ sda = 1 THEN <<START, STOP>> ELSE <<STOP>>
    [] op[1] = "write" -> <<Bits(op[2])>>
    [] OTHER -> <<>>
-----------------------------------------------------------------------------
\* A restart finds a slave anywhere in a byte it receives or sends.
Init ==
  /\ sda = 1 /\ scl = 1
  /\ ops = <<<<"init">>>>
  /\ halves = <<>>
  /\ slave \in {"idle", "recv", "send", "ack"}
  /\ bits \in UNION {[1..n -> {1}] : n \in (IF slave \in {"recv"} THEN 1..W ELSE {0})}
  /\ out \in IF slave = "send" THEN UNION {[1..n -> {0}] : n \in 0..(W - 1)} ELSE {<<>>}
  /\ pull = IF slave \in {"send", "ack"} THEN 0 ELSE 1
  /\ said = <<>> /\ heard = <<>> /\ sent = <<>> /\ got = <<>>
  /\ synced = FALSE

Idle == ops = <<>> /\ halves = <<>>

(* A driver begins a transfer. *)
Call ==
  /\ Idle
  /\ \E t \in Transfers : ops' = t
  /\ said' = <<>> /\ heard' = <<>> /\ sent' = <<>> /\ got' = <<>>
  /\ synced' = (slave = "idle")
  /\ UNCHANGED <<sda, scl, halves, slave, bits, pull, out>>

(* The next operation of the transfer *)
Begin ==
  /\ halves = <<>>
  /\ ops # <<>>
  /\ halves' = Halves(Head(ops))
  /\ said' = said \o Meant(Head(ops))
  /\ ops' = Tail(ops)
  /\ UNCHANGED <<sda, scl, slave, bits, pull, out, heard, sent, got, synced>>

\* The slave sees SDA go from a to b while SCL is high.
SeeStart == slave' = "addr" /\ bits' = <<>> /\ pull' = 1 /\ out' = <<>>
            /\ heard' = Append(heard, START) /\ UNCHANGED sent
SeeStop == slave' = "idle" /\ bits' = <<>> /\ pull' = 1 /\ out' = <<>>
           /\ heard' = Append(heard, STOP) /\ UNCHANGED sent
SeeNothing == UNCHANGED <<slave, bits, pull, out, heard, sent>>

\* The slave sees SCL rise with b on SDA.
SeeRise(b) ==
  /\ CASE slave \in {"addr", "recv"} -> bits' = Append(bits, b) /\ UNCHANGED <<slave, sent>>
       [] slave = "send" -> sent' = Append(sent, b) /\ UNCHANGED <<slave, bits>>
       [] slave = "asked" -> slave' = (IF b = 0 THEN "more" ELSE "done") /\ UNCHANGED <<bits, sent>>
       [] OTHER -> UNCHANGED <<slave, bits, sent>>
  /\ UNCHANGED <<pull, out, heard>>

\* The slave sends another byte, its first bit at once.
Load(b) == slave' = "send" /\ pull' = b[1] /\ out' = Tail(b) /\ UNCHANGED <<bits, heard, sent>>

\* The slave sees SCL fall.
SeeFall ==
  \/ /\ slave \in {"addr", "recv"} /\ Len(bits) = W
     /\ \/ pull' = 0 /\ slave' = (IF slave = "addr" /\ bits[W] = 1 THEN "load" ELSE "ack")
        \/ pull' = 1 /\ slave' = "done"
     /\ heard' = Append(heard, bits)
     /\ bits' = <<>>
     /\ UNCHANGED <<out, sent>>
  \/ slave = "ack" /\ slave' = "recv" /\ pull' = 1 /\ UNCHANGED <<bits, out, heard, sent>>
  \/ slave \in {"load", "more"} /\ \E d \in Data : Load(Bits(d))
  \/ slave = "send" /\ out # <<>>
     /\ pull' = Head(out) /\ out' = Tail(out) /\ UNCHANGED <<slave, bits, heard, sent>>
  \/ slave = "send" /\ out = <<>>
     /\ pull' = 1 /\ slave' = "asked" /\ UNCHANGED <<bits, out, heard, sent>>
  \/ /\ slave \in {"idle", "done", "asked"} \/ (slave \in {"addr", "recv"} /\ Len(bits) < W)
     /\ SeeNothing

(* i2c_master_setDC and what follows on the wire *)
Half ==
  /\ halves # <<>>
  /\ LET h == Head(halves)
         b == Wire(h[1])
     IN  /\ sda' = h[1] /\ scl' = h[2]
         /\ CASE scl = 1 /\ h[2] = 1 /\ Wire(sda) = 1 /\ b = 0 -> SeeStart
              [] scl = 1 /\ h[2] = 1 /\ Wire(sda) = 0 /\ b = 1 -> SeeStop
              [] scl = 0 /\ h[2] = 1 -> SeeRise(b)
              [] scl = 1 /\ h[2] = 0 -> SeeFall
              [] OTHER -> SeeNothing
         /\ got' = IF h[3] = "read" THEN Append(got, b) ELSE got
         /\ ops' = IF h[3] = "ack" /\ b = 1 THEN Refused ELSE ops
  /\ halves' = Tail(halves)
  /\ UNCHANGED <<said, synced>>

Next == Call \/ Begin \/ Half

Spec == Init /\ [][Next]_vars
-----------------------------------------------------------------------------
TypeOK ==
  /\ {sda, scl, pull} \subseteq {0, 1}
  /\ slave \in {"idle", "addr", "recv", "ack", "load", "send", "asked", "more", "done"}
  /\ bits \in UNION {[1..n -> {0, 1}] : n \in 0..W}

\* A slave that was idle takes every start, stop and byte for what was
\* meant, and nothing that was not; the master reads the bits it was sent.
NothingGarbled ==
  synced => /\ IsPrefix(heard, said)
            /\ IsPrefix(got, sent) /\ IsPrefix(sent, got)
            /\ Idle => heard = said

\* Whatever a restart found the slave doing, one addressed transfer later
\* it is idle and nobody holds a line.
BusIsFreed == Idle /\ Len(said) > 2 => slave = "idle" /\ sda = 1 /\ scl = 1 /\ pull = 1
=============================================================================
