----------------------------- MODULE I2cModules -----------------------------
(***************************************************************************)
(* The modules on the I2C bus (i2c_extention.c, and the drivers and        *)
(* handlers of MOD-RGB, MOD-IO2, MOD-IRDA+ and the dimmer).  A request     *)
(* finds the module again, sets its configuration from the values posted   *)
(* and writes it to the module transfer by transfer; any transfer may      *)
(* fail, and what the configuration or the module got before stays.  The   *)
(* dimmer is also read on a timer, and a change raised as an event.        *)
(* A transfer stands for the fields it moves; a field is 0 or 1.           *)
(***************************************************************************)
EXTENDS Integers, Sequences

VARIABLES
  kind,      \* the module the driver is for
  plugged,   \* what answers at its address: nothing, it, another module
  config,    \* the address has a configuration
  stored,    \* its fields
  real,      \* the module's
  answer,    \* of the last request: none, an error, or the fields it tells
  told,      \* the fields the listeners were told last
  poll,      \* the dimmer's timer runs
  missed     \* a change was stored without being told

vars == <<kind, plugged, config, stored, real, answer, told, poll, missed>>

Kinds == {"rgb", "io2", "irda", "dimmer"}
Fields == {"a", "b", "c", "d"}
Zero == [f \in Fields |-> 0]
Values == [Fields -> {0, 1}]

\* The fields a module has: colour; analogue inputs, outputs, digital
\* inputs, relays and PWM; mode and code; relay, brightness and current.
FieldsOf == [rgb |-> {"a"}, io2 |-> Fields, irda |-> {"a", "b"}, dimmer |-> {"a", "b", "c"}]

\* The fields that change by themselves.
Own == [rgb |-> {}, io2 |-> {"a", "c"}, irda |-> {}, dimmer |-> {"a", "b", "c"}]

(* rgb_init, irda_init: nothing is read *)
rgb_reads == <<>>
irda_reads == <<>>
(* io2_init sets the pins' directions *)
io2_reads == <<>>
(* dimmer_init reads the relay, the brightness and the current *)
dimmer_reads == <<"a", "b", "c">>

(* rgb_set, irda_set, io2_set, dimmer_set, transfer by transfer *)
rgb_set == <<<<"write", "a">>>>
irda_set == <<<<"write", "a">>, <<"write", "b">>>>
io2_set == <<<<"read", "a">>, <<"write", "b">>, <<"read", "c">>, <<"write", "d">>>>
dimmer_set == <<<<"write", "a">>, <<"write", "b">>>>

Reads(k) == [rgb |-> rgb_reads, io2 |-> io2_reads, irda |-> irda_reads,
             dimmer |-> dimmer_reads][k]
Sets(k) == [rgb |-> rgb_set, io2 |-> io2_set, irda |-> irda_set, dimmer |-> dimmer_set][k]

(* mod_rgb_handler, mod_io2_handler, mod_irda_handler, dimmer_handler: the *)
(* fields a POST may set, whether a GET sends the configuration again, and *)
(* what may become of the poll                                             *)
mod_rgb_handler == [posts |-> {"a"}, again |-> TRUE, polls |-> {FALSE}]
mod_io2_handler == [posts |-> Fields, again |-> TRUE, polls |-> {FALSE}]
mod_irda_handler == [posts |-> {"a", "b"}, again |-> FALSE, polls |-> {FALSE}]
dimmer_handler == [posts |-> {"a", "b"}, again |-> FALSE, polls |-> BOOLEAN]
Handler == [rgb |-> mod_rgb_handler, io2 |-> mod_io2_handler, irda |-> mod_irda_handler,
            dimmer |-> dimmer_handler][kind]

Init ==
  /\ kind \in Kinds
  /\ plugged \in {"none", "it"}
  /\ config = FALSE
  /\ stored = Zero /\ real = Zero /\ told = Zero
  /\ answer = <<"none">>
  /\ poll = FALSE
  /\ missed = FALSE

\* The fields read, up to the n-th, from the module r into s.
ReadInto(s, r, n) == [f \in Fields |-> IF \E i \in 1..n : Reads(kind)[i] = f THEN r[f] ELSE s[f]]

(* i2c_read_id and i2c_check_device, then the driver's init: the module is *)
(* looked for and read; n reads succeed.  The configuration is added when  *)
(* the module first answers with its id.                                   *)
Found(n) ==
  /\ plugged = "it"
  /\ n \in 0..Len(Reads(kind))
  /\ config' = TRUE
  /\ stored' = ReadInto(stored, real, n)
NotFound == UNCHANGED <<config, stored>>

\* The dimmer's event loses what an init stores without raising it.
Missed == missed' = (missed \/ stored'["a"] # stored["a"] \/ stored'["b"] # stored["b"])

(* i2c_init_handler: any error of the driver's init is the answer. *)
Failed ==
  /\ \/ NotFound
     \/ \E n \in 0..Len(Reads(kind)) : n < Len(Reads(kind)) /\ Found(n)
  /\ Missed
  /\ answer' = <<"error">>
  /\ UNCHANGED <<real, told, poll>>

\* The n-th transfers of a set: fields read into s, fields written into r.
Moved(s, r, n, way) ==
  [f \in Fields |-> IF \E i \in 1..n : Sets(kind)[i] = <<way, f>>
                    THEN (IF way = "read" THEN r[f] ELSE s[f])
                    ELSE (IF way = "read" THEN s[f] ELSE r[f])]

(* The end of a handler: n transfers of the set succeed; the answer of a   *)
(* POST is raised for the listeners, errors too.                           *)
Finish(s, n, raise) ==
  /\ stored' = Moved(s, real, n, "read")
  /\ real' = Moved(s, real, n, "write")
  /\ IF n = Len(Sets(kind))
       THEN /\ answer' = <<"ok", stored'>>
            /\ told' = IF raise THEN stored' ELSE told
            /\ missed' = IF raise THEN FALSE
                         ELSE (missed \/ stored'["a"] # stored["a"] \/ stored'["b"] # stored["b"])
       ELSE answer' = <<"error">> /\ missed' = TRUE /\ UNCHANGED told

(* A POST: the module is found and read, the fields posted are set.        *)
Post ==
  /\ plugged = "it"
  /\ config' = TRUE
  /\ LET s == ReadInto(stored, real, Len(Reads(kind)))
     IN  \E v \in [Handler.posts -> {0, 1}], n \in 0..Len(Sets(kind)) :
           Finish([f \in Fields |-> IF f \in Handler.posts THEN v[f] ELSE s[f]], n, TRUE)
  /\ poll' \in Handler.polls
  /\ UNCHANGED <<kind, plugged>>

\* A GET sends MOD-RGB and MOD-IO2 their configuration again; that of the
\* dimmer was just read, and that of MOD-IRDA+ is answered as it is.
Get ==
  /\ plugged = "it"
  /\ config' = TRUE
  /\ IF Handler.again
       THEN \E n \in 0..Len(Sets(kind)) : Finish(stored, n, FALSE)
       ELSE /\ stored' = ReadInto(stored, real, Len(Reads(kind)))
            /\ answer' = <<"ok", stored'>>
            /\ Missed
            /\ UNCHANGED <<real, told>>
  /\ UNCHANGED <<kind, plugged, poll>>

Refuse == Failed /\ UNCHANGED <<kind, plugged>>

(* dimmer_event: a poll that is read to the end raises a change.           *)
dimmer_event ==
  /\ poll
  /\ \/ NotFound /\ UNCHANGED <<told, missed>>
     \/ \E n \in 0..Len(Reads(kind)) :
          /\ Found(n)
          /\ IF n = Len(Reads(kind)) /\ stored' # stored
               THEN told' = stored' /\ missed' = FALSE
               ELSE Missed /\ UNCHANGED told
  /\ UNCHANGED <<kind, plugged, real, answer, poll>>

(* user_dimmer_init at boot: the timer starts if the dimmer was read.      *)
user_dimmer_init ==
  /\ kind = "dimmer" /\ ~config /\ ~poll /\ answer = <<"none">>
  /\ Found(Len(Reads(kind)))
  /\ told' = stored'
  /\ poll' = TRUE
  /\ UNCHANGED <<kind, plugged, real, answer, missed>>

\* The module is pulled out, put back or replaced, and forgets.
Replug ==
  /\ plugged' \in {"none", "it", "other"} \ {plugged}
  /\ real' = Zero
  /\ UNCHANGED <<kind, config, stored, answer, told, poll, missed>>

\* An input, the dimmer's knob or its load changes.
Turn ==
  /\ \E f \in Own[kind] : real' = [real EXCEPT ![f] = 1 - @]
  /\ UNCHANGED <<kind, plugged, config, stored, answer, told, poll, missed>>

Next == Post \/ Get \/ Refuse \/ dimmer_event \/ user_dimmer_init \/ Replug \/ Turn

Spec == Init /\ [][Next]_vars
-----------------------------------------------------------------------------
TypeOK ==
  /\ config \in BOOLEAN /\ poll \in BOOLEAN /\ missed \in BOOLEAN
  /\ {stored, real, told} \subseteq Values
  /\ answer \in {<<"none">>, <<"error">>} \cup {<<"ok", v>> : v \in Values}

\* A request answered with the module's fields tells what the module has,
\* as far as the driver wrote it: a set that failed half-way is not an OK.
\* MOD-IRDA+ cannot be asked, and its GET tells what was last posted.
TellsTrue ==
  answer' # answer /\ answer'[1] = "ok" /\ kind # "irda"
    => \A f \in FieldsOf[kind] : (f = "c" /\ kind = "dimmer") \/ answer'[2][f] = real'[f]
AnswerIsTrue == [][TellsTrue]_vars

\* What the listeners know of the dimmer's relay and brightness is what is
\* stored, unless a request or a failed read stored a change between polls.
ListenersKnow ==
  kind = "dimmer" /\ config /\ ~missed => told["a"] = stored["a"] /\ told["b"] = stored["b"]
=============================================================================
