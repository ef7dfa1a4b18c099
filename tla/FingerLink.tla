----------------------------- MODULE FingerLink -----------------------------
(***************************************************************************)
(* The fingerprint reader on the serial line (modules/mod_finger.c and     *)
(* user_mod_finger.c).  finger_timeout holds the line from a command to    *)
(* its answer or its timeout, as it does for the meter; but all commands   *)
(* are put together in one packet, and a command that waits for the line   *)
(* sends whatever the packet holds by then.  The sensor is polled for a    *)
(* finger; a finger is searched for or stored, command by command, and the *)
(* polling starts again.  Every request has the reader's parameters asked  *)
(* for in another row of commands.                                         *)
(* finger_char_in hands over whole answers: one with a wrong byte is       *)
(* dropped, and the timeout comes.                                         *)
(***************************************************************************)
EXTENDS Integers, Sequences

CONSTANTS
  MaxSends,   \* bound: finger_send's timers
  MaxWire     \* bound: answers on the line

(* "img_find" and "img_new" are finger_img_to_tz for a search and for a new *)
(* fingerprint; "params" the row finger_read_sys_params, _stored_count and *)
(* _get_first_free, "set" the address, the level and deletions.            *)
Polling == {"gen_img", "img_find", "img_new", "search", "reg_model", "store"}
Commands == Polling \cup {"password", "params", "set"}
Modes == {"READ", "NEW", "DELETE"}

VARIABLES
  packet,    \* the command in finger_send_packet
  sends,     \* timers of finger_send
  done,      \* finger_command_done, by the command it came with
  timeout,   \* finger_timeout is not 0
  read,      \* finger_read_timer is pending
  chain,     \* the timers of the next of the parameters and of the first polling
  uart,      \* device_get_uart() = UART_FINGER
  mode, buff, search_enable,   \* finger_current_mode, _buff, finger_search_enable
  wire,      \* the answers on the line: whose, and whether it is FINGER_OK
  late,      \* the line was let go of with an answer on its way
  mixed,     \* a callback was given another's answer, the line never let go of
  lost       \* the polling's command was written over, sent with nobody watching
             \* or dropped, and the polling has not been started since

vars == <<packet, sends, done, timeout, read, chain, uart, mode, buff, search_enable,
          wire, late, mixed, lost>>

Init ==
  /\ packet = "none" /\ sends = 0 /\ done = "none" /\ timeout = FALSE
  /\ read = FALSE
  /\ chain = {"password", "start"}        \* finger_init, mod_finger_init
  /\ uart = FALSE
  /\ mode = "READ" /\ buff = 0 /\ search_enable = TRUE
  /\ wire = <<>> /\ late = FALSE /\ mixed = FALSE /\ lost = FALSE

\* The reader answers c, or does not.
Reader(line, c) ==
  {l \in {line} \cup {Append(line, <<c, s>>) : s \in {"ok", "error"}} : Len(l) <= MaxWire}

\* Mutant: a command does not look whether the line is held.
ExecuteOver(c, line, free) ==
  /\ packet' = c
  /\ sends' = sends /\ done' = c /\ wire' \in Reader(line, c)
  /\ timeout' = ~free

(* finger_execute with finger_send, from a callback (free: the line is let *)
(* go of when it returns) or from a timer or a handler                     *)
finger_execute(c, line, free) ==
  /\ packet' = c
  /\ IF timeout
       THEN /\ sends < MaxSends /\ sends' = sends + 1
            /\ UNCHANGED done /\ wire' = line
       ELSE sends' = sends /\ done' = c /\ wire' \in Reader(line, c)
  /\ timeout' = ~free

NoCommand(line) == UNCHANGED <<packet, sends, done>> /\ wire' = line /\ timeout' = FALSE

\* What writing over the packet, or sending it unwatched, does to the polling.
Harm(free) ==
  (sends > 0 /\ packet \in Polling) \/ (free /\ ~timeout) \/ (~free /\ ~timeout /\ late)

(* finger_start_read *)
finger_start_read ==
  /\ read' = (read \/ uart')
  /\ buff' = IF uart' THEN 0 ELSE buff
  /\ lost' = ~uart'

(* finger_send, from its timer: the packet as it is now *)
finger_send ==
  /\ sends > 0 /\ ~timeout
  /\ sends' = sends - 1
  /\ done' = packet
  /\ timeout' = TRUE
  /\ wire' \in Reader(wire, packet)
  /\ UNCHANGED <<packet, read, chain, uart, mode, buff, search_enable, late, mixed, lost>>

(* finger_gen_img, from finger_read_timer *)
finger_gen_img ==
  /\ read /\ read' = FALSE
  /\ finger_execute("gen_img", wire, FALSE)
  /\ UNCHANGED <<chain, uart, mode, buff, search_enable, late, mixed, lost>>

(* finger_verify_password, finger_read_sys_params, finger_stored_count,    *)
(* finger_get_first_free and finger_find_first_free, from their timers     *)
Row(c) ==
  /\ c \in chain
  /\ chain' = chain \ {c}
  /\ finger_execute(c, wire, FALSE)
  /\ lost' = (lost \/ Harm(FALSE))
  /\ UNCHANGED <<read, uart, mode, buff, search_enable, late, mixed>>

\* The first finger_start_read, two seconds after the start.
Start ==
  /\ "start" \in chain /\ chain' = chain \ {"start"}
  /\ UNCHANGED <<packet, sends, done, timeout, uart, mode, search_enable, wire, late, mixed>>
  /\ finger_start_read

(* finger_timeout: the listeners are told, and the polling starts again *)
finger_timed_out ==
  /\ timeout /\ timeout' = FALSE
  /\ late' = (wire # <<>>)
  /\ UNCHANGED <<packet, sends, done, chain, uart, mode, search_enable, wire, mixed>>
  /\ finger_start_read

\* The answer ok to the polling's last command, by what that was: the next
\* command, or the polling again.
NextOf(b) ==
  CASE done = "gen_img" /\ mode = "READ" /\ search_enable -> "img_find"
    [] done = "gen_img" /\ mode = "NEW"    -> "img_new"
    [] done = "gen_img" /\ mode = "DELETE" -> "nothing"
    [] done = "img_find"                   -> "search"
    [] done = "img_new" /\ b = 1           -> "gen_img"
    [] done = "img_new" /\ b # 1           -> "reg_model"
    [] done = "reg_model"                  -> "store"
    [] OTHER                               -> "start"

(* finger_read, finger_find, finger_register, finger_find_done,            *)
(* finger_save and finger_save_done                                        *)
Polled(ok, line) ==
  LET b == IF done = "gen_img" /\ ok THEN (IF buff = 1 THEN 2 ELSE 1) ELSE buff
      c == IF ok THEN NextOf(b) ELSE "start"
  IN  /\ search_enable' = IF done # "gen_img" THEN search_enable
                          ELSE IF ~ok THEN TRUE ELSE search_enable /\ mode # "READ"
      /\ mode' = IF done = "store" THEN "READ" ELSE mode
      /\ chain' = IF done = "store" THEN chain \cup {"params"} ELSE chain
      /\ CASE c = "start"   -> NoCommand(line) /\ finger_start_read
           [] c = "nothing" -> NoCommand(line) /\ buff' = b /\ lost' = TRUE /\ UNCHANGED read
           [] OTHER         -> /\ finger_execute(c, line, TRUE)
                               /\ buff' = b /\ lost' = (lost \/ Harm(TRUE)) /\ UNCHANGED read

(* finger_password_response, finger_system_params_response,                *)
(* finger_stored_count_response and finger_read_index_response with        *)
(* finger_user_callback, which asks for the next of the row or tells the   *)
(* listeners; finger_default; or no callback                               *)
Told(ok, line) ==
  /\ NoCommand(line)
  /\ chain' \in CASE done = "password" /\ ok -> {chain \cup {"params"}}
                  [] done = "params"         -> {chain, chain \cup {"params"}}
                  [] OTHER                   -> {chain}
  /\ UNCHANGED <<read, buff, lost, mode, search_enable>>

(* finger_receive of an answer *)
finger_receive ==
  /\ wire # <<>>
  /\ LET a == Head(wire) line == Tail(wire)
     IN  /\ uart' = TRUE
         /\ mixed' = (mixed \/ (done # a[1] /\ ~late))
         /\ IF done \in Polling THEN Polled(a[2] = "ok", line) ELSE Told(a[2] = "ok", line)
         /\ late' = (wire' # <<>>)

(* ... of one with the wrong address: the packet is sent again, after the  *)
(* timeout, which was not cleared                                          *)
WrongAddress ==
  /\ wire # <<>> /\ wire[1][2] = "error" /\ sends < MaxSends
  /\ wire' = Tail(wire) /\ uart' = TRUE /\ sends' = sends + 1
  /\ late' = (late /\ wire' # <<>>)
  /\ UNCHANGED <<packet, done, timeout, read, chain, mode, buff, search_enable, mixed, lost>>

(* finger_handler; delete_len is read uninitialised without a DeleteID *)
finger_handler ==
  /\ uart
  /\ \E new \in Modes, sets \in BOOLEAN :
       /\ mode' \in IF new = "DELETE" /\ sets THEN {"READ"} ELSE {new}
       /\ IF sets THEN finger_execute("set", wire, FALSE)
                  ELSE UNCHANGED <<packet, sends, done, wire, timeout>>
  /\ chain' = chain \cup {"params"}
  /\ UNCHANGED <<uart, search_enable, late, mixed>>
  /\ finger_start_read

Next ==
  \/ finger_send
  \/ finger_gen_img
  \/ \E c \in {"password", "params"} : Row(c)
  \/ Start
  \/ finger_timed_out
  \/ finger_receive
  \/ WrongAddress
  \/ finger_handler

Spec == Init /\ [][Next]_vars
-----------------------------------------------------------------------------
TypeOK ==
  /\ {packet, done} \subseteq Commands \cup {"none"}
  /\ sends \in 0..MaxSends /\ buff \in 0..2 /\ mode \in Modes
  /\ {timeout, read, uart, search_enable, late, mixed, lost} \subseteq BOOLEAN

\* A callback is given the answer to its own command, unless the line was
\* let go of while an answer was on its way and has not been quiet since.
Attributed == ~mixed

\* The polling goes on: it is timed, or one of its commands waits in the
\* packet or is being answered; unless its command was written over, sent
\* with nobody watching or dropped, or the mode waits for an identifier.
PollGoesOn ==
  uart /\ "start" \notin chain /\ ~lost =>
    read \/ (sends > 0 /\ packet \in Polling) \/ (timeout /\ done \in Polling)
=============================================================================
