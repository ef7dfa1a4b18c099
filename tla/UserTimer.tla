------------------------------ MODULE UserTimer ------------------------------
(***************************************************************************)
(* The timers of user_timer.c: a list of records, each with the SDK timer  *)
(* it arms, and a 32-bit handle by which its owner cancels it.  A one-shot *)
(* record is freed when its callback returns, by the handle the record     *)
(* holds then.  The list's order decides nothing and is left out.          *)
(*                                                                         *)
(* A record is a block of the heap.  os_free leaves its content as it is   *)
(* until the block is allocated again, for a timer or for something else.  *)
(***************************************************************************)
EXTENDS Integers

CONSTANTS
  Block,    \* heap blocks the size of a timer record
  W,        \* 2^32: handles are uint32
  NoBlock

ASSUME HandleAssumption == W \in Nat /\ W >= 2
ASSUME BlockAssumption  == NoBlock \notin Block

VARIABLES
  listed,      \* timers: the blocks that are records
  handle,      \* t->handle of every block, stale or foreign if it is not listed
  oneshot,     \* the blocks last armed with timer_handler
  armed,       \* the blocks whose SDK timer is armed
  last_handle, \* timer_last_handle
  running,     \* the t of the timer_handler that called its function, or NoBlock
  due          \* history: the handle that timer had when it fired, 0 if none runs

timerVars == <<listed, handle, oneshot, armed, last_handle, running, due>>

Handle == 0 .. W - 1

TimersTypeOK ==
  /\ listed \subseteq Block /\ oneshot \subseteq Block /\ armed \subseteq Block
  /\ handle \in [Block -> Handle]
  /\ last_handle \in Handle
  /\ running \in Block \union {NoBlock}
  /\ due \in Handle

NoTimers ==
  /\ listed = {} /\ oneshot = {} /\ armed = {}
  /\ handle = [b \in Block |-> 0]
  /\ last_handle = 1
  /\ running = NoBlock
  /\ due = 0

NextHandleStuck(h) == h              \* mutant: the counter does not count
NextHandle(h) == IF (h + 1) % W = 0 THEN 1 ELSE h + 1

\* timer_init; the caller gets last_handle.
SetTimer(once) ==
  \E b \in Block \ listed :
    /\ listed' = listed \union {b}
    /\ handle' = [handle EXCEPT ![b] = last_handle]
    /\ oneshot' = IF once THEN oneshot \union {b} ELSE oneshot \ {b}
    /\ armed' = armed \union {b}
    /\ last_handle' = NextHandle(last_handle)
    /\ UNCHANGED <<running, due>>

\* Mutant: the list loses the record, the SDK keeps its timer.
FreeArmed(blocks) ==
  /\ listed' = listed \ blocks
  /\ UNCHANGED <<handle, oneshot, armed, last_handle>>

Free(blocks) ==
  /\ listed' = listed \ blocks
  /\ armed' = armed \ blocks
  /\ UNCHANGED <<handle, oneshot, last_handle>>

(* clearTimeout, clearInterval; clearAllTimers *)
ClearTimer(h) ==
  /\ Free({b \in listed : handle[b] = h})
  /\ UNCHANGED <<running, due>>

ClearAllTimers == Free(listed) /\ UNCHANGED <<running, due>>

\* A one-shot timer expires: timer_handler calls its function.
Fire(b) ==
  /\ running = NoBlock
  /\ b \in armed \intersect oneshot
  /\ armed' = armed \ {b}
  /\ running' = b
  /\ due' = handle[b]
  /\ UNCHANGED <<listed, handle, oneshot, last_handle>>

\* Mutant: the record is not freed when the function returns.
FinishKeeps ==
  /\ running # NoBlock
  /\ running' = NoBlock /\ due' = 0
  /\ UNCHANGED <<listed, handle, oneshot, armed, last_handle>>

\* The function returns; what the block holds now is cleared.
Finish ==
  /\ running # NoBlock
  /\ Free({b \in listed : handle[b] = handle[running]})
  /\ running' = NoBlock
  /\ due' = 0

\* A block that is no record serves another allocation, with any content.
Reuse(b, content) ==
  /\ b \notin listed
  /\ handle' = [handle EXCEPT ![b] = content]
  /\ UNCHANGED <<listed, oneshot, armed, last_handle, running, due>>

-----------------------------------------------------------------------------
\* The SDK never holds the timer of a freed record, and every record is armed but
\* the one whose function runs: no record is left behind that nothing will free.
ArmedAreListed == armed \subseteq listed /\ listed \ armed \subseteq {running}

\* 0 is no timer's handle: callers use it for "none" (webclient_reset_timers).
NoZeroHandle == \A b \in listed : handle[b] # 0
=============================================================================
