----------------------------- MODULE RfidReader -----------------------------
(***************************************************************************)
(* The card reader on the serial line (modules/mod_rfid.c,                 *)
(* user_mod_rfid.c): its lines are put together character by character in  *)
(* a buffer, a line that fills it taken as it is; and the settings a       *)
(* request makes are sent to it, the LED 10 ms after the frequency.  A     *)
(* line is a prompt, a tag after a dash, or the name of the reader.  The   *)
(* lines and the settings only share that the reader must be there: a      *)
(* behaviour follows one of them.                                          *)
(***************************************************************************)
EXTENDS Integers, Sequences

CONSTANTS
  BufferLen,   \* RFID_BUFFER_LEN
  Tags,        \* sequences of characters
  MaxLed       \* bound: the timers that will set the LED

Name == <<"M", "O">>
Lines == {<<">">>, Name} \cup {<<"-">> \o t : t \in Tags}
End == {"cr", "lf"}
Values == {0, 1}

VARIABLES
  follows,      \* "lines" or "settings"
  buff,         \* rfid_buff, up to rfid_buff_pos
  mod,          \* rfid_mod, and the serial line is the reader's
  boot,         \* the timer of rfid_info is pending
  wire,         \* the characters on the line
  lost,         \* one was lost or wrong since the line was last quiet
  set,          \* rfid_scan_freq and rfid_led_state
  timers,       \* the LED states rfid_set_led will send, in order
  reader,       \* frequency and LED of the reader
  posted,       \* a request has set them
  told,         \* the tag told last, <<"?">> for one that is none
  spoilt        \* ... of a line that lost characters

vars == <<follows, buff, mod, boot, wire, lost, set, timers, reader, posted, told, spoilt>>

(* rfid_init *)
Init ==
  /\ buff = <<>>
  /\ follows \in {"lines", "settings"}
  /\ mod = (follows = "settings") /\ boot = (follows = "lines")
  /\ wire = <<>> /\ lost = FALSE
  /\ set = [freq |-> 0, led |-> 1]
  /\ timers = <<>>
  /\ reader = [freq |-> 0, led |-> 0]
  /\ posted = FALSE /\ told = <<>> /\ spoilt = FALSE

(* The reader sends a line of its own accord. *)
ReaderSays ==
  /\ follows = "lines" /\ wire = <<>>
  /\ \E l \in Lines : wire' = l \o <<"cr", "lf">>
  /\ lost' = (lost /\ buff # <<>>)
  /\ UNCHANGED <<follows, buff, mod, boot, set, timers, reader, posted, told, spoilt>>

Lose ==
  /\ wire # <<>>
  /\ wire' = Tail(wire)
  /\ lost' = TRUE
  /\ UNCHANGED <<follows, buff, mod, boot, set, timers, reader, posted, told, spoilt>>

(* rfid_info asks the reader for its name *)
rfid_info ==
  /\ boot /\ boot' = FALSE
  /\ buff' = <<>> /\ mod' = FALSE
  /\ wire = <<>> /\ wire' = Name \o <<"cr", "lf">>
  /\ lost' = (lost \/ buff # <<>>)
  /\ UNCHANGED <<follows, set, timers, reader, posted, told, spoilt>>

Cut(t) == SubSeq(t, 1, IF Len(t) > BufferLen - 2 THEN BufferLen - 2 ELSE Len(t))

(* rfid_line; a tag that is none is told as it is *)
rfid_line(text) ==
  /\ told' = IF text = <<>> \/ text[1] # "-" THEN told
             ELSE IF Tail(text) \in {Cut(t) : t \in Tags} THEN Tail(text) ELSE <<"?">>
  /\ mod' = (mod \/ text = Name)

Put(c) ==
  LET text == IF c \in End THEN buff ELSE Append(buff, c)
  IN  IF c \in End \/ Len(text) = BufferLen - 1
      THEN buff' = <<>> /\ rfid_line(text)
      ELSE buff' = text /\ UNCHANGED <<told, mod>>

(* rfid_char_in; a character over 126 is none *)
rfid_char_in ==
  /\ wire # <<>> /\ wire' = Tail(wire)
  /\ \/ Put(Head(wire)) /\ UNCHANGED lost
     \/ lost' = TRUE /\ UNCHANGED <<buff, told, mod>>
  /\ UNCHANGED <<follows, boot, set, timers, reader, posted>>
  /\ spoilt' = (IF told' # told THEN lost ELSE spoilt)
-----------------------------------------------------------------------------
(* rfid_handler of a POST, with rfid_set: the frequency goes at once, and a *)
(* value out of range is left as it was.                                   *)
rfid_handler(freq, led) ==
  /\ follows = "settings" /\ mod
  /\ set' = [freq |-> IF freq \in Values THEN freq ELSE set.freq,
             led  |-> IF led \in Values THEN led ELSE set.led]
  /\ reader' = [reader EXCEPT !.freq = set'.freq]
  /\ Len(timers) < MaxLed /\ timers' = Append(timers, set'.led)
  /\ posted' = TRUE
  /\ UNCHANGED <<follows, buff, mod, boot, wire, lost, told, spoilt>>

(* rfid_set_led *)
rfid_set_led ==
  /\ timers # <<>> /\ timers' = Tail(timers)
  /\ reader' = [reader EXCEPT !.led = Head(timers)]
  /\ UNCHANGED <<follows, buff, mod, boot, wire, lost, set, posted, told, spoilt>>

Next ==
  \/ ReaderSays \/ Lose
  \/ rfid_info \/ rfid_char_in
  \/ \E freq, led \in Values \cup {10} : rfid_handler(freq, led)
  \/ rfid_set_led

Spec == Init /\ [][Next]_vars
-----------------------------------------------------------------------------
TypeOK ==
  /\ Len(buff) <= BufferLen - 2
  /\ {mod, boot, lost, posted} \subseteq BOOLEAN
  /\ set \in [freq : Values, led : Values] /\ reader \in [freq : Values, led : Values]
  /\ timers \in UNION {[1..n -> Values] : n \in 0..MaxLed}

\* A tag that is told was sent, or is as much of it as the buffer takes, but
\* for what was lost on the line: what a long tag left does not make another.
TagWhole == told = <<"?">> => spoilt

\* The reader is set to what the last request asked for once its timers have
\* come.
ReaderSet == posted /\ timers = <<>> => reader = set
=============================================================================
