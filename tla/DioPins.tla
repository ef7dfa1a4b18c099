------------------------------ MODULE DioPins ------------------------------
(***************************************************************************)
(* A digital input or output (mb_dio.c, on easygpio.c).  An input is read  *)
(* by the interrupt of its edges and told when it has settled; an output   *)
(* is switched by requests, and when it is to pulse, by its timer.  One    *)
(* timer serves all of these; p_config points into the settings, so that a *)
(* change of them is seen at once, while the pin is set up again only by a *)
(* request that changes settings and switches nothing.                     *)
(***************************************************************************)
EXTENDS Naturals

(* DIO_NONE, DIO_IN_NOPULL and _PULLUP, the rising and the falling edges, and the outputs *)
Types == {"none", "any", "pos", "neg", "out"}
Inputs == {"any", "pos", "neg"}

VARIABLES
  type, inverse, init, on, off,   \* the settings; whether pls_on and pls_off are not 0
  bound,      \* p_config is not NULL
  trig,       \* the pin's interrupt: "none" or an input's type
  level,      \* of the pin
  timer,      \* p_work's timer: "none", "filter", "pulse" or "send"
  timer_run,
  state, state_old, state_new,
  history     \* what a property excuses: see below

vars == <<type, inverse, init, on, off, bound, trig, level, timer, timer_run,
          state, state_old, state_new, history>>

Settings == <<type, inverse, init, on, off>>

(* history: "unset", settings changed without setting up the pin; "stray",  *)
(* the pin was set up with a pulse under way; "driven", an input was        *)
(* switched as an output; "edge", the input changed since it was set up     *)
Init ==
  /\ type \in Types /\ inverse \in BOOLEAN /\ init \in BOOLEAN /\ on \in BOOLEAN /\ off \in BOOLEAN
  /\ bound = FALSE /\ trig = "none" /\ level = FALSE
  /\ timer = "none" /\ timer_run = FALSE
  /\ state = FALSE /\ state_old = FALSE /\ state_new = FALSE
  /\ history = {}

Xor(a, b) == a # b

(* mb_dio_set_output, the state set: the pin, and the timer of a pulse *)
set_output(t, run) ==
  /\ level' = Xor(state', inverse')
  /\ IF ~run /\ state_old' # state' /\ (IF state' THEN on' ELSE off')
       THEN timer' = "pulse" /\ timer_run' = TRUE
       ELSE timer' = t /\ timer_run' = run

(* mb_dio_output_timer; the end of a single pulse is told by another timer *)
output_timer ==
  /\ timer = "pulse"
  /\ UNCHANGED <<Settings, bound, trig, state_new>>
  /\ IF ~bound THEN timer' = "none" /\ UNCHANGED <<level, timer_run, state, state_old, history>>
     ELSE /\ state_old' = state /\ state' = ~state
          /\ history' = history \cup (IF type \in Inputs THEN {"driven"} ELSE {})
          /\ set_output(IF state /\ on /\ ~off THEN "send" ELSE "none", FALSE)

(* mb_dio_send_state, from its timer *)
Send ==
  /\ timer = "send" /\ timer' = "none"
  /\ UNCHANGED <<Settings, bound, trig, level, timer_run, state, state_old, state_new, history>>

(* The level of a pin that is not driven changes: mb_dio_intr_handler *)
Edge ==
  /\ type # "out" \/ ~bound
  /\ level' = ~level
  /\ IF bound /\ type \in Inputs /\ (trig = "any" \/ trig = IF level THEN "neg" ELSE "pos")
       THEN state_new' = level' /\ timer' = "filter" /\ history' = history \cup {"edge"}
       ELSE UNCHANGED <<state_new, timer, history>>
  /\ UNCHANGED <<Settings, bound, trig, timer_run, state, state_old>>

\* Mutant: the level is the one before the edge.
SettleOld ==
  CASE type = "any" -> state' = Xor(~state_new, inverse) /\ state_old' = ~state'
    [] (type = "pos" /\ level) \/ (type = "neg" /\ ~level) ->
         state' = Xor(level, inverse) /\ state_old' = ~state'
    [] OTHER -> UNCHANGED <<state, state_old>>

(* mb_dio_intr_timer: an input settled, the listeners are told *)
Settle ==
  CASE type = "any" -> state' = Xor(state_new, inverse) /\ state_old' = ~state'
    [] (type = "pos" /\ level) \/ (type = "neg" /\ ~level) ->
         state' = Xor(level, inverse) /\ state_old' = ~state'
    [] OTHER -> UNCHANGED <<state, state_old>>

intr_timer ==
  /\ timer = "filter" /\ timer' = "none"
  /\ Settle
  /\ UNCHANGED <<Settings, bound, trig, level, timer_run, state_new, history>>

(* mb_dio_hw_init.  The interrupt of a pin is set for inputs only, and     *)
(* timer_run reset before it is looked at: a timer under way runs on       *)
hw_init ==
  /\ bound' = (type' # "none")
  /\ trig' = IF type' \in Inputs THEN type' ELSE trig
  /\ history' = (IF timer = "pulse" THEN {"stray"} ELSE {}) \cup (history \cap {"stray"})
  /\ UNCHANGED state_new
  /\ CASE type' = "none"    -> UNCHANGED <<level, timer, timer_run, state, state_old>>
       [] type' = "out"     -> /\ state' = init' /\ state_old' = ~init'
                               /\ set_output(timer, FALSE)
       [] type' \in Inputs  -> /\ state' = inverse' /\ state_old' = ~inverse'
                               /\ UNCHANGED <<level, timer, timer_run>>

\* A setting of this pin is changed (bound: one in a request), or another pin's.
Change ==
  \/ type' \in Types /\ UNCHANGED <<inverse, init, on, off>>
  \/ inverse' = ~inverse /\ UNCHANGED <<type, init, on, off>>
  \/ init' = ~init /\ UNCHANGED <<type, inverse, on, off>>
  \/ on' = ~on /\ UNCHANGED <<type, inverse, init, off>>
  \/ off' = ~off /\ UNCHANGED <<type, inverse, init, on>>

(* mb_dio_handler: settings, and every pin is set up again *)
Configure ==
  /\ Change
  /\ hw_init

(* ... the command Output, whatever the pin's type *)
Output(v) ==
  /\ bound
  /\ UNCHANGED <<Settings, bound, trig, state_new>>
  /\ state_old' = state /\ state' = v
  /\ IF ~v /\ timer_run THEN set_output("none", FALSE) ELSE set_output(timer, timer_run)
  /\ history' = history \cup IF type \in Inputs THEN {"driven"} ELSE {}

(* ... both in one request: the settings are changed, the pin is not set up *)
Both(v) ==
  /\ bound
  /\ Change
  /\ state_old' = state /\ state' = v
  /\ IF ~v /\ timer_run THEN set_output("none", FALSE) ELSE set_output(timer, timer_run)
  /\ history' = history \cup {"unset"}
  /\ UNCHANGED <<bound, trig, state_new>>

Next ==
  \/ output_timer \/ Send \/ Edge \/ intr_timer
  \/ Configure
  \/ \E v \in BOOLEAN : Output(v) \/ Both(v)

Spec == Init /\ [][Next]_vars
-----------------------------------------------------------------------------
TypeOK ==
  /\ {inverse, init, on, off, bound, level, timer_run, state, state_old, state_new} \subseteq BOOLEAN
  /\ type \in Types /\ trig \in Inputs \cup {"none"}
  /\ timer \in {"none", "filter", "pulse", "send"}
  /\ history \subseteq {"unset", "stray", "driven", "edge"}

\* An output that is on, and is to be on for a while only, has the timer that
\* ends it; one that is off and not to come on again has none.
PulseEnds ==
  bound /\ type = "out" /\ "unset" \notin history =>
    /\ state /\ on => timer = "pulse"
    /\ ~state /\ ~off /\ timer = "pulse" => "stray" \in history

\* An input that has settled is what its pin is, if it changed at all since
\* it was set up.
FilterAgrees ==
  bound /\ type = "any" /\ timer # "filter" /\ history \subseteq {"edge"} /\ "edge" \in history =>
    state = Xor(level, inverse)
=============================================================================
