------------------------------ MODULE FlashStore ------------------------------
(***************************************************************************)
(* What the region layer promises, whatever its callers do: the chip is    *)
(* divided into disjoint ranges of sectors, one range at a time is granted *)
(* for writing, a step changes at most one sector, and only a granted one. *)
(***************************************************************************)
CONSTANTS Sector, Content

VARIABLES
  ranges,   \* the disjoint ranges in use, each a set of sectors
  granted,  \* the range open for writing, or {}
  flash     \* the chip

vars == <<ranges, granted, flash>>

Init ==
  /\ ranges = {}
  /\ granted = {}
  /\ flash \in [Sector -> Content]

Divide(S) ==
  /\ \A R \in ranges : R \intersect S = {}
  /\ ranges' = ranges \union {S}
  /\ UNCHANGED <<granted, flash>>

Grant(S) ==
  /\ granted = {}
  /\ S \in ranges
  /\ granted' = S
  /\ UNCHANGED <<ranges, flash>>

\* The grant may end with the write that failed.
Change(s) ==
  /\ s \in granted
  /\ \E c \in Content : flash' = [flash EXCEPT ![s] = c]
  /\ granted' \in {granted, {}}
  /\ UNCHANGED ranges

Revoke ==
  /\ granted' = {}
  /\ UNCHANGED <<ranges, flash>>

\* Power lost, perhaps in the middle of a write.
Restart ==
  /\ \/ UNCHANGED flash
     \/ \E s \in granted, c \in Content : flash' = [flash EXCEPT ![s] = c]
  /\ granted' = {}
  /\ ranges' = {}

Next ==
  \/ \E S \in SUBSET Sector : Divide(S) \/ Grant(S)
  \/ \E s \in Sector : Change(s)
  \/ Revoke
  \/ Restart

Spec == Init /\ [][Next]_vars
=============================================================================
