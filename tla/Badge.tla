-------------------------------- MODULE Badge --------------------------------
(***************************************************************************)
(* The badge's display (user_badge.c): one text scrolls at a time, the     *)
(* battery's text waits for its turn, and two animations and a test draw   *)
(* when nothing scrolls.  Every one of them is a chain of one-shot timers. *)
(* Pixels, fonts and the SPI are left out: screen is what was drawn last.  *)
(***************************************************************************)
EXTENDS Integers

CONSTANTS
  Columns,     \* steps a text takes to scroll by (scroll_size + scroll_x)
  TestSteps,   \* rows and columns of badge_test (16)
  MaxChains    \* bound: timers of one animation pending when it may start

VARIABLES
  scroll,         \* scroll_in_progress, scroll_c, scroll_i and the timers pending
  text,           \* the handler's static text
  accepted,       \* history: the text that the last accepted request asked for
  battery_update, \* badge_battery_update
  anim,           \* wifi_animation, server_animation and their timers
  test,           \* badge_test's i, and whether it is pending
  tail,           \* what badge_test has set at its end and is pending
  screen

vars == <<scroll, text, accepted, battery_update, anim, test, tail, screen>>

Animation == {"wifi", "server"}

\* badge_init: clear, and the first step of the test.
Init ==
  /\ scroll = [on |-> FALSE, of |-> "none", i |-> 0, timers |-> 0]
  /\ text = 0
  /\ accepted = 0
  /\ battery_update = TRUE
  /\ anim = [a \in Animation |-> [on |-> FALSE, timers |-> 0]]
  /\ test = [i |-> 1, on |-> TRUE]
  /\ tail = {}
  /\ screen = "test"

\* Mutant: a text is started over another.
ScrollOver(s, what) ==
  [on |-> TRUE, of |-> what, i |-> 0, timers |-> s.timers + 1]

(* badge_scroll: the scroll afterwards *)
Scroll(s, what) ==
  IF s.on THEN s ELSE [on |-> TRUE, of |-> what, i |-> 0, timers |-> s.timers + 1]

(* badge_handler: busy, or the text and its scrolling *)
Post(new) ==
  /\ IF scroll.on THEN UNCHANGED <<scroll, text, accepted, screen>>
     ELSE text' = new /\ accepted' = new /\ scroll' = Scroll(scroll, "text") /\ screen' = "blank"
  /\ UNCHANGED <<battery_update, anim, test, tail>>

(* badge_battery, every BADGE_BATTERY_UPDATE *)
Battery ==
  /\ battery_update' = ~ scroll.on
  /\ scroll' = Scroll(scroll, "battery")
  /\ screen' = IF scroll.on THEN screen ELSE "blank"
  /\ UNCHANGED <<text, accepted, anim, test, tail>>

\* The end of _badge_scroll_: "Done", then the battery that was put off.
ScrollEnd ==
  LET s == [scroll EXCEPT !.on = FALSE, !.of = "none", !.i = 0, !.timers = @ - 1]
  IN  /\ scroll' = IF battery_update THEN s ELSE Scroll(s, "battery")
      /\ screen' = IF battery_update THEN "text" ELSE "blank"
      /\ battery_update' = TRUE

(* _badge_scroll_, from its timer *)
ScrollStep ==
  /\ scroll.timers > 0
  /\ IF scroll.i + 1 >= Columns THEN ScrollEnd
     ELSE /\ scroll' = [scroll EXCEPT !.i = @ + 1]
          /\ screen' = "text"
          /\ UNCHANGED battery_update
  /\ UNCHANGED <<text, accepted, anim, test, tail>>

\* What a step of an animation draws; a text or the Wi-Fi's goes first.
Drawn(a) ==
  IF scroll.on \/ (a = "server" /\ anim["wifi"].on) THEN screen ELSE a

(* badge_wifi_animation_start, badge_server_animation_start: the flag, and *)
(* the first step at once, beside a step that is still pending.            *)
AnimationStart(a) ==
  /\ ~ anim[a].on
  /\ anim[a].timers < MaxChains
  /\ anim' = [anim EXCEPT ![a] = [on |-> TRUE, timers |-> @.timers + 1]]
  /\ screen' = Drawn(a)
  /\ UNCHANGED <<scroll, text, accepted, battery_update, test>>

(* badge_wifi_animation_stop, badge_server_animation_stop *)
AnimationStop(a) ==
  /\ anim[a].on
  /\ anim' = [anim EXCEPT ![a].on = FALSE]
  /\ UNCHANGED <<scroll, text, accepted, battery_update, test, tail, screen>>

(* badge_wifi_animation, badge_server_animation: after the stop the last   *)
(* step clears the display, even if a text is scrolling.                   *)
AnimationStep(a) ==
  /\ anim[a].timers > 0
  /\ IF anim[a].on THEN screen' = Drawn(a) /\ UNCHANGED anim
     ELSE screen' = "blank" /\ anim' = [anim EXCEPT ![a].timers = @ - 1]
  /\ UNCHANGED <<scroll, text, accepted, battery_update, test, tail>>

(* badge_test, which gives up for good when somebody else draws *)
TestStep ==
  /\ test.on
  /\ IF scroll.on \/ \E a \in Animation : anim[a].on
       THEN test' = [test EXCEPT !.on = FALSE] /\ UNCHANGED <<tail, screen>>
       ELSE /\ screen' = "test"
            /\ test' = [i |-> test.i + 1, on |-> test.i + 1 < TestSteps]
            /\ tail' = IF test.i + 1 < TestSteps THEN tail ELSE {"cls", "wifi"}
  /\ UNCHANGED <<scroll, text, accepted, battery_update, anim>>

\* The timers of badge_test's end: clear, and later the Wi-Fi animation.
TestClear ==
  /\ "cls" \in tail
  /\ tail' = tail \ {"cls"}
  /\ screen' = "blank"
  /\ UNCHANGED <<scroll, text, accepted, battery_update, anim, test>>
TestAnimation ==
  /\ tail = {"wifi"}
  /\ tail' = {}
  /\ IF anim["wifi"].on
       THEN UNCHANGED <<scroll, text, accepted, battery_update, anim, test, screen>>
       ELSE AnimationStart("wifi")

Next ==
  \/ \E new \in {0, 1} : Post(new)
  \/ Battery
  \/ ScrollStep
  \/ \E a \in Animation : (AnimationStart(a) /\ UNCHANGED tail) \/ AnimationStop(a) \/ AnimationStep(a)
  \/ TestStep \/ TestClear \/ TestAnimation

Spec == Init /\ [][Next]_vars
-----------------------------------------------------------------------------
TypeOK ==
  /\ scroll \in [on : BOOLEAN, of : {"none", "text", "battery"}, i : 0..Columns, timers : 0..2]
  /\ {text, accepted} \subseteq {0, 1}
  /\ battery_update \in BOOLEAN
  /\ anim \in [Animation -> [on : BOOLEAN, timers : 0..MaxChains]]
  /\ test \in [i : 0..TestSteps, on : BOOLEAN]
  /\ tail \subseteq {"cls", "wifi"}
  /\ screen \in {"blank", "text", "wifi", "server", "test"}

\* While a text scrolls one timer moves it, and else none does: a second one
\* would move it twice as fast and answer "Done" twice.
OneScroll == scroll.timers = (IF scroll.on THEN 1 ELSE 0)

\* A battery text that found the display busy is shown when it is free: it
\* waits only while something scrolls.
BatteryComes == ~ battery_update => scroll.on

\* The text of a request that was accepted does not change while it scrolls,
\* though the handler keeps it in one static buffer.
TextStays == scroll.of = "text" => text = accepted
=============================================================================
