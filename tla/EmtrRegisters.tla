---------------------------- MODULE EmtrRegisters ----------------------------
(***************************************************************************)
(* What the firmware keeps of the energy meter's registers, and what it    *)
(* writes back (modules/mod_emtr.c, user_mod_emtr.c): the event and the    *)
(* calibration registers, a block each, and the counter of the energy.     *)
(* They have nothing to do with each other: a behaviour follows one.       *)
(* Packets wait for the line (EmtrLink) and overtake each other there; an  *)
(* answer may have another length, and a packet may be lost.               *)
(***************************************************************************)
EXTENDS Integers, FiniteSets

CONSTANTS
  Fields,      \* of a block
  MaxCount,    \* bound of the counter
  MaxPower,    \* bound of a reading
  MaxWrites,   \* bound: the packets that wait to write the same registers
  Threshold    \* of a change that is told

(* Fields hold 1 when the meter is new, and requests set them to 1 or 2;   *)
(* memset and zalloc make them 0.                                          *)
Factory == [f \in Fields |-> 1]
Zero == [f \in Fields |-> 0]
FirstCount == 2
Blocks == {"event", "calibration"}

VARIABLES
  follows,   \* the registers this behaviour is about
  mode,      \* emtr_current_mode
  meter,     \* the registers in the meter
  ram,       \* emtr_registers.event or .calibration, or emtr_params
  known,     \* ram came from the meter, and not by a bad answer
  asks,      \* the commands that will ask the meter
  writes,    \* the contents that will be written to it
  asked,     \* the fields a request set to 2, and the counter if one set it
  blank,     \* registers not known were written
  output,    \* emtr_registers.output, -1 before the first reading
  last       \* last_event of emtr_read_event, -1 at first

vars == <<follows, mode, meter, ram, known, asks, writes, asked, blank, output, last>>

(* mod_emtr_init and emtr_init *)
Init ==
  /\ follows \in Blocks \cup {"count"}
  /\ mode = "log"
  /\ meter = IF follows = "count" THEN FirstCount ELSE Factory
  /\ ram = IF follows = "count" THEN 0 ELSE Zero
  /\ known = FALSE /\ blank = FALSE /\ asked = {}
  /\ asks = IF follows = "count" THEN {"address"} ELSE {"block"}
  /\ writes = {}
  /\ output = -1 /\ last = -1

(* The mode in which a request may set the block. *)
ModeOf == [event |-> "configure", calibration |-> "calibration"]
-----------------------------------------------------------------------------
(* Register by register, in the order they are laid out in the answer *)
emtr_parse_event(was) == [f \in Fields |-> was[f]]
emtr_parse_calibration(was) == [f \in Fields |-> was[f]]

(* The answer of the block: one of another length clears it. *)
Answered(new) ==
  /\ "block" \in asks /\ asks' = asks \ {"block"}
  /\ \/ ram' = new /\ known' = TRUE
     \/ ram' = Zero /\ known' = FALSE
     \/ UNCHANGED <<ram, known>>                          \* no answer came
  /\ UNCHANGED <<follows, mode, meter, writes, asked, blank, output, last>>

emtr_event_done == follows = "event" /\ Answered(emtr_parse_event(meter))

emtr_calibration_done ==
  follows = "calibration" /\ Answered(emtr_parse_calibration(meter))

(* What waits goes to the meter, or is lost. *)
Write ==
  \E w \in writes :
    /\ writes' = writes \ {w}
    /\ meter' \in {w, meter}
    /\ UNCHANGED <<follows, mode, ram, known, asks, asked, blank, output, last>>

emtr_set_event == follows = "event" /\ Write
emtr_set_calibration == follows = "calibration" /\ Write
emtr_set_counter == follows = "count" /\ Write

SetField(f, v) ==
  /\ ram' = [ram EXCEPT ![f] = v]
  /\ asked' = IF v = 2 THEN asked \cup {f} ELSE asked

(* The whole block goes to the meter, whether or not it ever came from it. *)
SendAll ==
  /\ writes' = writes \cup {ram'} /\ blank' = (blank \/ ~known)
  /\ Cardinality(writes') <= MaxWrites

(* emtr_handler: a field is set in its block's own mode only, the one      *)
(* before the request; "none" is a body without one.  In Configure the     *)
(* event block is written whatever the body says, ...                      *)
PostEvent(f, v) ==
  /\ follows = "event"
  /\ IF mode = "configure"
     THEN (IF f \in Fields THEN SetField(f, v) ELSE UNCHANGED <<ram, asked>>) /\ SendAll
     ELSE UNCHANGED <<ram, asked, writes, blank>>

(* ... the calibration block if a field was set. *)
PostCalibration(f, v) ==
  /\ follows = "calibration"
  /\ IF mode = "calibration" /\ f \in Fields
     THEN SetField(f, v) /\ SendAll
     ELSE UNCHANGED <<ram, asked, writes, blank>>

(* The block of the mode that is now on is asked for a second later. *)
AskLater ==
  asks' = IF mode' = ModeOf[follows] THEN asks \cup {"block"} ELSE asks

Post ==
  /\ mode' \in {"log", "configure", "calibration"}
  /\ \E f \in Fields \cup {"none"}, v \in {1, 2} : PostEvent(f, v) \/ PostCalibration(f, v)
  /\ AskLater
  /\ UNCHANGED <<follows, meter, known, output, last>>

Get ==
  /\ follows \in Blocks
  /\ UNCHANGED mode /\ AskLater
  /\ UNCHANGED <<follows, meter, ram, known, writes, asked, blank, output, last>>
-----------------------------------------------------------------------------
(* emtr_address_receive *)
emtr_address_receive ==
  /\ "address" \in asks
  /\ \E more \in {{"counter"}, {}} : asks' = (asks \ {"address"}) \cup more
  /\ UNCHANGED <<follows, mode, meter, ram, known, writes, asked, blank, output, last>>

(* emtr_counter_receive: an answer of another length starts from zero.     *)
emtr_counter_receive ==
  /\ "counter" \in asks /\ asks' = asks \ {"counter"}
  /\ \/ ram' = meter /\ known' = TRUE
     \/ ram' = 0 /\ known' = FALSE
     \/ UNCHANGED <<ram, known>>
  /\ UNCHANGED <<follows, mode, meter, writes, asked, blank, output, last>>

(* emtr_handler, of a request that sets the counters *)
PostCounter ==
  /\ follows = "count"
  /\ ram' \in 0..1
  /\ writes' = writes \cup {ram'}
  /\ Cardinality(writes') <= MaxWrites
  /\ asked' = {"counter"}
  /\ UNCHANGED <<follows, mode, meter, known, asks, blank, output, last>>

(* emtr_counter_add: the new count goes to the meter at once *)
emtr_counter_add(power) ==
  /\ ram' = ram + power
  /\ writes' = writes \cup {ram'}
  /\ blank' = (blank \/ ~known)

emtr_over_treshold(a, b) == a - b > Threshold \/ b - a > Threshold

(* emtr_read_event: compared with what was told last *)
emtr_read_event ==
  last' = IF last = -1 \/ emtr_over_treshold(output', last) THEN output' ELSE last

(* emtr_read_done; a bad answer reads as nothing *)
emtr_read_done ==
  /\ follows = "count"
  /\ output' \in 0..MaxPower
  /\ ram + output' <= MaxCount
  /\ emtr_counter_add(output')
  /\ Cardinality(writes') <= MaxWrites
  /\ emtr_read_event
  /\ UNCHANGED <<follows, mode, meter, known, asks, asked>>

Next ==
  \/ emtr_event_done
  \/ emtr_calibration_done
  \/ emtr_set_event
  \/ emtr_set_calibration
  \/ emtr_set_counter
  \/ Post
  \/ Get
  \/ emtr_address_receive
  \/ emtr_counter_receive
  \/ PostCounter
  \/ emtr_read_done

Spec == Init /\ [][Next]_vars
-----------------------------------------------------------------------------
TypeOK ==
  /\ mode \in {"log", "configure", "calibration"}
  /\ asks \subseteq {"block", "address", "counter"}
  /\ asked \subseteq Fields \cup {"counter"}
  /\ {known, blank} \subseteq BOOLEAN
  /\ output \in -1..MaxPower /\ last \in -1..MaxPower
  /\ follows = "count" => meter \in 0..MaxCount /\ ram \in 0..MaxCount

\* A register in the meter holds what it was made with or what a request set
\* it to, unless a block was written that had never been read or badly.
NeverInvented ==
  follows \in Blocks /\ ~blank =>
    \A f \in Fields : meter[f] = 1 \/ (meter[f] = 2 /\ f \in asked)

\* The energy counted before a restart is still counted, and the meter is
\* never ahead, if the counter was read before the first reading came and no
\* request set it.
CounterKept ==
  follows = "count" /\ known /\ ~blank /\ asked = {} =>
    meter >= FirstCount /\ ram >= meter

\* What was told last is within the threshold of what was read last.
ReadingTold ==
  output # -1 => last # -1 /\ ~emtr_over_treshold(output, last)
=============================================================================
