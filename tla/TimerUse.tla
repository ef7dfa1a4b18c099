------------------------------ MODULE TimerUse ------------------------------
(***************************************************************************)
(* The timers under the modules that use them.  An owner keeps the handle  *)
(* of its last timer in a variable, which is never reset and may be stale: *)
(* it sets timers over the one it has, cancels what its variable names,    *)
(* now or later, in an event or in a timer's function.  Everybody's timers *)
(* are cancelled when an upload comes in (config_stream_chunk).  What the  *)
(* owners here do not do is cancel the timer whose function is running:    *)
(* webclient_execute, run to retry, does (WebClient); so does              *)
(* wifi_auto_detect.                                                       *)
(***************************************************************************)
EXTENDS UserTimer

CONSTANTS
  Owner,    \* variables that hold a handle
  MaxSets   \* bound: timers set

VARIABLES
  held,     \* the handle each owner holds, 0 at first
  sets      \* timers set so far

vars == <<timerVars, held, sets>>

Init ==
  /\ NoTimers
  /\ held = [o \in Owner |-> 0]
  /\ sets = 0

Set(o, once) ==
  /\ sets < MaxSets
  /\ SetTimer(once)
  /\ held' = [held EXCEPT ![o] = last_handle]
  /\ sets' = sets + 1

\* The running function does not cancel its own timer.
Clear(o) ==
  /\ running # NoBlock => held[o] # due
  /\ ClearTimer(held[o])
  /\ UNCHANGED <<held, sets>>

ClearAll ==
  /\ running = NoBlock
  /\ ClearAllTimers
  /\ UNCHANGED <<held, sets>>

Expire(b) == Fire(b) /\ UNCHANGED <<held, sets>>
Return    == Finish /\ UNCHANGED <<held, sets>>

OtherUse(b, content) == Reuse(b, content) /\ UNCHANGED <<held, sets>>

Next ==
  \/ \E o \in Owner, once \in BOOLEAN : Set(o, once)
  \/ \E o \in Owner : Clear(o)
  \/ ClearAll
  \/ \E b \in Block : Expire(b)
  \/ Return
  \/ \E b \in Block, content \in Handle : OtherUse(b, content)

Spec == Init /\ [][Next]_vars

-----------------------------------------------------------------------------
TypeOK ==
  /\ TimersTypeOK
  /\ held \in [Owner -> Handle]
  /\ sets \in Nat

\* Until 2^32 - 1 timers have been set no two live timers share a handle, so
\* cancelling one does not cancel another (timer_last_handle comes round after that).
HandlesDistinct ==
  sets < W => \A a, b \in listed : a # b => handle[a] # handle[b]

\* When a timer's function returns, that timer's record is freed and no other
\* (timer_handler reads the handle from the record after the call).
EndsOnlyItself ==
  [][running # NoBlock /\ running' = NoBlock /\ sets < W => listed \ listed' = {running}]_vars

\* The inductive invariant of the proofs: handles count the timers set so far.
Counted ==
  /\ last_handle \in 1 .. W - 1
  /\ sets < W => /\ last_handle = IF sets = W - 1 THEN 1 ELSE sets + 1
                 /\ \A b \in listed : handle[b] \in 1 .. sets

RunsItself ==
  running # NoBlock => /\ running \in listed /\ running \notin armed
                       /\ handle[running] = due

IInv == TypeOK /\ ArmedAreListed /\ NoZeroHandle /\ HandlesDistinct /\ Counted /\ RunsItself
=============================================================================
