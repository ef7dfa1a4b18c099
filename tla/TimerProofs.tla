----------------------------- MODULE TimerProofs -----------------------------
(***************************************************************************)
(* For any number of records, owners and handles: no record is lost or     *)
(* left armed after it is freed, no timer has the handle 0, no two share   *)
(* one before the counter comes round, and the end of a timer's function   *)
(* frees that timer alone.  The last rests on the running record staying   *)
(* in the list, with the handle it fired with, until its function returns. *)
(***************************************************************************)
EXTENDS TimerUse, TLAPS

USE HandleAssumption, BlockAssumption

LEMMA NextHandleRange ==
  ASSUME NEW h \in 1 .. W - 1
  PROVE  NextHandle(h) = IF h = W - 1 THEN 1 ELSE h + 1
  <1>1. CASE h = W - 1
    <2>1. (h + 1) % W = 0
      BY <1>1
    <2> QED BY <1>1, <2>1 DEF NextHandle
  <1>2. CASE h # W - 1
    <2>1. h + 1 \in 1 .. W - 1
      BY <1>2
    <2>2. (h + 1) % W = h + 1
      BY <2>1
    <2> QED BY <1>2, <2>2 DEF NextHandle
  <1> QED BY <1>1, <1>2

LEMMA InitIInv == Init => IInv
  <1> SUFFICES ASSUME Init PROVE IInv
    OBVIOUS
  <1> USE DEF Init, NoTimers
  <1>1. TypeOK
    BY DEF TypeOK, TimersTypeOK, Handle
  <1>2. Counted
    BY DEF Counted
  <1> QED BY <1>1, <1>2 DEF IInv, ArmedAreListed, NoZeroHandle, HandlesDistinct, RunsItself

LEMMA SetPreserves ==
  ASSUME IInv, NEW o \in Owner, NEW once \in BOOLEAN, Set(o, once)
  PROVE  IInv'
  <1>1. PICK b \in Block \ listed :
          /\ listed' = listed \union {b}
          /\ handle' = [handle EXCEPT ![b] = last_handle]
          /\ oneshot' = IF once THEN oneshot \union {b} ELSE oneshot \ {b}
          /\ armed' = armed \union {b}
          /\ last_handle' = NextHandle(last_handle)
          /\ UNCHANGED <<running, due>>
    BY DEF Set, SetTimer
  <1>2. held' = [held EXCEPT ![o] = last_handle] /\ sets' = sets + 1
    BY DEF Set
  <1>3. /\ last_handle \in 1 .. W - 1 /\ last_handle' \in 1 .. W - 1
        /\ last_handle' = IF last_handle = W - 1 THEN 1 ELSE last_handle + 1
    BY <1>1, NextHandleRange DEF IInv, Counted
  <1>4. handle \in [Block -> Handle] /\ listed \subseteq Block /\ sets \in Nat
    BY DEF IInv, TypeOK, TimersTypeOK
  <1>5. handle'[b] = last_handle /\ \A c \in listed : handle'[c] = handle[c] /\ c # b
    BY <1>1, <1>4
  <1>6. TypeOK'
    <2>1. last_handle \in Handle /\ last_handle' \in Handle
      BY <1>3 DEF Handle
    <2>2. handle' \in [Block -> Handle] /\ held' \in [Owner -> Handle]
      BY <1>1, <1>2, <1>4, <2>1 DEF IInv, TypeOK
    <2>3. listed' \subseteq Block /\ oneshot' \subseteq Block /\ armed' \subseteq Block
      BY <1>1 DEF IInv, TypeOK, TimersTypeOK
    <2> QED BY <1>1, <1>2, <1>4, <2>1, <2>2, <2>3 DEF IInv, TypeOK, TimersTypeOK
  <1>7. ArmedAreListed'
    BY <1>1 DEF IInv, ArmedAreListed
  <1>8. NoZeroHandle'
    BY <1>1, <1>3, <1>5 DEF IInv, NoZeroHandle
  <1>9. sets' < W => /\ last_handle = sets + 1
                     /\ last_handle' = IF sets' = W - 1 THEN 1 ELSE sets' + 1
                     /\ \A c \in listed : handle[c] \in 1 .. sets
    BY <1>2, <1>3, <1>4 DEF IInv, Counted
  <1>10. HandlesDistinct'
    BY <1>1, <1>2, <1>4, <1>5, <1>9 DEF IInv, HandlesDistinct
  <1>11. Counted'
    BY <1>1, <1>2, <1>3, <1>4, <1>5, <1>9 DEF Counted
  <1>12. RunsItself'
    BY <1>1, <1>5 DEF IInv, RunsItself
  <1> QED BY <1>6, <1>7, <1>8, <1>10, <1>11, <1>12 DEF IInv

\* Freeing records keeps the invariant, once nothing runs or the running record stays.
LEMMA FreePreserves ==
  ASSUME IInv, NEW S \in SUBSET listed, Free(S), UNCHANGED <<held, sets>>,
         \/ running \notin S /\ UNCHANGED <<running, due>>
         \/ running \in S \union {NoBlock} /\ running' = NoBlock /\ due' = 0
  PROVE  IInv'
  <1> USE DEF Free
  <1>1. TypeOK'
    BY DEF IInv, TypeOK, TimersTypeOK, Handle
  <1>2. ArmedAreListed'
    BY DEF IInv, ArmedAreListed
  <1>3. NoZeroHandle' /\ HandlesDistinct'
    BY DEF IInv, NoZeroHandle, HandlesDistinct
  <1>4. Counted'
    BY DEF IInv, Counted
  <1>5. RunsItself'
    BY DEF IInv, RunsItself
  <1> QED BY <1>1, <1>2, <1>3, <1>4, <1>5 DEF IInv

LEMMA ClearPreserves ==
  ASSUME IInv, NEW o \in Owner, Clear(o)
  PROVE  IInv'
  <1>1. PICK S : S = {b \in listed : handle[b] = held[o]}
    OBVIOUS
  <1>2. S \in SUBSET listed /\ Free(S) /\ UNCHANGED <<held, sets, running, due>>
    BY <1>1 DEF Clear, ClearTimer
  <1>3. running \notin S
    <2>1. CASE running = NoBlock
      BY <2>1, <1>2 DEF IInv, TypeOK, TimersTypeOK
    <2>2. CASE running # NoBlock
      BY <2>2, <1>1 DEF Clear, IInv, RunsItself
    <2> QED BY <2>1, <2>2
  <1> QED BY <1>2, <1>3, FreePreserves

LEMMA ClearAllPreserves ==
  ASSUME IInv, ClearAll
  PROVE  IInv'
  <1>1. PICK S : S = listed
    OBVIOUS
  <1>2. S \in SUBSET listed /\ Free(S) /\ UNCHANGED <<held, sets, running, due>>
    BY <1>1 DEF ClearAll, ClearAllTimers
  <1>3. running \notin S
    BY <1>1 DEF ClearAll, IInv, TypeOK, TimersTypeOK
  <1> QED BY <1>2, <1>3, FreePreserves

LEMMA ExpirePreserves ==
  ASSUME IInv, NEW b \in Block, Expire(b)
  PROVE  IInv'
  <1> USE DEF Expire, Fire
  <1>1. b \in listed /\ handle[b] \in Handle
    BY DEF IInv, ArmedAreListed, TypeOK, TimersTypeOK
  <1>2. TypeOK'
    BY <1>1 DEF IInv, TypeOK, TimersTypeOK
  <1>3. ArmedAreListed'
    BY DEF IInv, ArmedAreListed, TypeOK, TimersTypeOK
  <1>4. NoZeroHandle' /\ HandlesDistinct' /\ Counted'
    BY DEF IInv, NoZeroHandle, HandlesDistinct, Counted
  <1>5. RunsItself'
    BY <1>1 DEF RunsItself
  <1> QED BY <1>2, <1>3, <1>4, <1>5 DEF IInv

\* What the function's end frees: its own record, and with it those that share its
\* handle, which none does before the counter comes round.
LEMMA ReturnFrees ==
  ASSUME IInv, Return
  PROVE  /\ running \in {b \in listed : handle[b] = handle[running]}
         /\ sets < W => {b \in listed : handle[b] = handle[running]} = {running}
  BY DEF Return, Finish, IInv, RunsItself, HandlesDistinct

LEMMA ReturnPreserves ==
  ASSUME IInv, Return
  PROVE  IInv'
  <1>1. PICK S : S = {b \in listed : handle[b] = handle[running]}
    OBVIOUS
  <1>2. S \in SUBSET listed /\ Free(S) /\ UNCHANGED <<held, sets>> /\ running' = NoBlock /\ due' = 0
    BY <1>1 DEF Return, Finish
  <1>3. running \in S
    BY <1>1, ReturnFrees
  <1> QED BY <1>2, <1>3, FreePreserves

\* No record's content changes, so only the type is at stake.
LEMMA OtherUsePreserves ==
  ASSUME IInv, NEW b \in Block, NEW content \in Handle, OtherUse(b, content)
  PROVE  IInv'
  <1> USE DEF OtherUse, Reuse
  <1>1. handle \in [Block -> Handle]
    BY DEF IInv, TypeOK, TimersTypeOK
  <1>2. \A c \in listed : handle'[c] = handle[c]
    BY <1>1
  <1>3. TypeOK'
    BY <1>1 DEF IInv, TypeOK, TimersTypeOK
  <1>4. ArmedAreListed'
    BY DEF IInv, ArmedAreListed
  <1>5. NoZeroHandle' /\ HandlesDistinct' /\ Counted'
    BY <1>2 DEF IInv, NoZeroHandle, HandlesDistinct, Counted
  <1>6. RunsItself'
    BY <1>2 DEF IInv, RunsItself
  <1> QED BY <1>3, <1>4, <1>5, <1>6 DEF IInv

LEMMA StutterPreserves ==
  ASSUME IInv, UNCHANGED vars
  PROVE  IInv'
  <1> USE DEF vars, timerVars
  <1>1. TypeOK'
    BY DEF IInv, TypeOK, TimersTypeOK
  <1>2. ArmedAreListed' /\ NoZeroHandle' /\ HandlesDistinct'
    BY DEF IInv, ArmedAreListed, NoZeroHandle, HandlesDistinct
  <1>3. Counted' /\ RunsItself'
    BY DEF IInv, Counted, RunsItself
  <1> QED BY <1>1, <1>2, <1>3 DEF IInv

THEOREM TimerInvariance == Spec => []IInv
  <1>1. Init => IInv
    BY InitIInv
  <1>2. IInv /\ [Next]_vars => IInv'
    BY SetPreserves, ClearPreserves, ClearAllPreserves, ExpirePreserves, ReturnPreserves,
       OtherUsePreserves, StutterPreserves DEF Next
  <1> QED BY <1>1, <1>2, PTL DEF Spec

\* No record is left behind that nothing frees, and none is armed once freed.
THEOREM RecordsAreArmed == Spec => []ArmedAreListed
  BY TimerInvariance, PTL DEF IInv

\* Handles are never 0 and name one timer each until 2^32 - 1 have been set.
THEOREM HandlesAreNames == Spec => [](NoZeroHandle /\ HandlesDistinct)
  <1>1. IInv => NoZeroHandle /\ HandlesDistinct
    BY DEF IInv
  <1> QED BY <1>1, TimerInvariance, PTL

\* The end of a timer's function frees that timer's record and no other.
THEOREM TimersEndThemselves == Spec => EndsOnlyItself
  <1>1. IInv /\ [Next]_vars =>
          [running # NoBlock /\ running' = NoBlock /\ sets < W => listed \ listed' = {running}]_vars
    <2> SUFFICES ASSUME IInv, Next, running # NoBlock, running' = NoBlock, sets < W
                 PROVE  listed \ listed' = {running}
      OBVIOUS
    <2>1. CASE Return
      <3>1. {b \in listed : handle[b] = handle[running]} = {running} /\ running \in listed
        BY <2>1, ReturnFrees
      <3>2. listed' = listed \ {running}
        BY <2>1, <3>1 DEF Return, Finish, Free
      <3> QED BY <3>1, <3>2
    <2>2. ~ Return => running' = running \/ running = NoBlock
      BY DEF Next, Set, SetTimer, Clear, ClearTimer, ClearAll, ClearAllTimers, Expire, Fire,
             OtherUse, Reuse
    <2> QED BY <2>1, <2>2
  <1> QED BY <1>1, TimerInvariance, PTL DEF Spec, EndsOnlyItself
=============================================================================
