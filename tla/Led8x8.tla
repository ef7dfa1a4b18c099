------------------------------- MODULE Led8x8 -------------------------------
(***************************************************************************)
(* The chain of 8x8 LED modules (modules/mod_led_8x8_rgb.c and             *)
(* user_mod_led_8x8_rgb.c): a POST lays out the modules and scrolls a text *)
(* through them, a column at a time; a column is shown by its number in    *)
(* the text, 0 when it is dark.  One row of modules is followed: the       *)
(* others have their own columns.                                          *)
(***************************************************************************)
EXTENDS Integers, Sequences

CONSTANTS
  Side,      \* columns of a module (8)
  Max,       \* LED_8x8_MAX_MODULES
  MaxText,   \* columns of the longest text
  U          \* scroll_x, scroll_i and scroll_size wrap here (2^16)

VARIABLES
  asked,    \* cols and rows of the handler
  dims,     \* led_8x8_rgb_cols, led_8x8_rgb_rows
  buffer,   \* led_8x8_rgb_buffer: the columns of each module, or NULL
  busy,     \* scroll_in_progress
  x, i,     \* scroll_x, scroll_i
  size,     \* scroll_size
  answer,   \* of the last POST
  ended     \* texts whose end was raised, less those accepted: 0 or -1

vars == <<asked, dims, buffer, busy, x, i, size, answer, ended>>

NULL == <<<<>>>>
Dark(n) == [m \in 1..n |-> [c \in 1..Side |-> 0]]

(* mod_led_8x8_rgb_init *)
Init ==
  /\ asked = <<1, 1>> /\ dims = <<1, 1>>
  /\ buffer = Dark(1)
  /\ busy = FALSE
  /\ x = 0 /\ i = 0 /\ size = 0
  /\ answer = "none"
  /\ ended = 0

(* led_8x8_rgb_set_dimensions; the allocation may fail, and one of nothing *)
(* is either refused or not.                                               *)
SetDimensions(d) ==
  IF buffer # NULL /\ d = dims THEN UNCHANGED <<dims, buffer>>
  ELSE IF d[1] * d[2] > Max THEN UNCHANGED <<dims, buffer>>
  ELSE dims' = d /\ buffer' \in {NULL, Dark(d[1])}

Settled(d) == (buffer # NULL /\ d = dims) \/ (d[1] * d[2] <= Max /\ buffer' # NULL)

(* mod_led_8x8_rgb_handler and led_8x8_rgb_scroll: cols and rows keep the  *)
(* values posted, also those that could not be set.                        *)
Post ==
  /\ ~busy
  /\ \E d \in (0..Max + 1) \X (1..2), n \in 0..MaxText :
       /\ asked' = d
       /\ SetDimensions(d)
       /\ IF Settled(d)
            THEN /\ answer' = "ok" /\ busy' = TRUE
                 /\ x' = (d[1] * Side - 1) % U /\ i' = 0 /\ size' = n
                 /\ ended' = ended - 1
            ELSE answer' = "error" /\ UNCHANGED <<busy, x, i, size, ended>>

PostBusy ==
  /\ busy
  /\ answer' = "busy"
  /\ UNCHANGED <<asked, dims, buffer, busy, x, i, size, ended>>

(* led_8x8_rgb_shift_left: the column that leaves a module on the left     *)
(* enters the one before it.                                               *)
ShiftLeft(b) == [m \in DOMAIN b |->
                   Append(Tail(b[m]), IF m = Len(b) THEN 0 ELSE b[m + 1][1])]

(* led_8x8_rgb_set, for the column at scroll_x *)
SetColumn(b, at, c) ==
  IF at \div Side >= Len(b) THEN b
  ELSE [b EXCEPT ![at \div Side + 1][(at % Side) + 1] = c]

(* _led_8x8_rgb_scroll_, from its timer *)
Scroll ==
  /\ busy
  /\ buffer' = SetColumn(ShiftLeft(buffer), x, IF i < size THEN i + 1 ELSE 0)
  /\ IF (i + 1) % U >= size + x
       THEN busy' = FALSE /\ x' = 0 /\ i' = 0 /\ size' = 0 /\ ended' = ended + 1
       ELSE i' = (i + 1) % U /\ UNCHANGED <<busy, x, size, ended>>
  /\ UNCHANGED <<asked, dims, answer>>

Next == Post \/ PostBusy \/ Scroll

Spec == Init /\ [][Next]_vars
-----------------------------------------------------------------------------
TypeOK ==
  /\ x \in 0..(U - 1) /\ i \in 0..(U - 1) /\ size \in 0..MaxText
  /\ ended \in {0, -1}

\* While a text scrolls the modules keep the layout it began with, the
\* buffer is as large as the layout says, and the end is still to be told.
LayoutHolds ==
  /\ buffer # NULL => Len(buffer) = dims[1]
  /\ busy => x = (dims[1] * Side - 1) % U /\ ended = -1

\* The columns shown are consecutive ones of a text, across modules too.
Shown == [p \in 1..(Side * Len(buffer)) |->
            buffer[(p - 1) \div Side + 1][((p - 1) % Side) + 1]]
TextWhole ==
  busy /\ i > 0 => \A p \in 1..(Side * Len(buffer)) :
                     /\ p < Side * Len(buffer) /\ Shown[p] # 0
                           => Shown[p + 1] \in {Shown[p] + 1, 0, 1}
                     /\ Shown[p] > 1 /\ p > 1 => Shown[p - 1] = Shown[p] - 1

\* A text ends when its last column was shown at every place: the counter
\* does not wrap before.  Without columns (cols 0) scroll_x is 2^16 - 1 and
\* the scroll never ends.
EndComes == busy /\ dims[1] > 0 => i < size + x \/ i = 0
=============================================================================
