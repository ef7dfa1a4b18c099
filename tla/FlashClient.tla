----------------------------- MODULE FlashClient -----------------------------
(***************************************************************************)
(* The region layer under a caller that keeps the rules the program's      *)
(* callers keep (user_config.c:326-328, flash_stream_data): a write that   *)
(* failed is not followed by another call for the same region but a close, *)
(* and no close follows a close.  Everything else is free: the order of    *)
(* registrations, which region is opened, what is written in which pieces, *)
(* when protection changes, when the chip fails and when the power goes.   *)
(***************************************************************************)
EXTENDS FlashRegion

CONSTANTS
  Request,   \* registrations asked for: [name, start, sectors]
  Payload,   \* what one call of flash_region_write may pass
  MaxOpens,  \* bound: regions opened in a behaviour
  MaxBytes   \* bound: bytes written through one open

ASSUME RequestAssumption ==
  \A q \in Request : /\ q.name \in Name
                     /\ q.start \in Nat
                     /\ q.sectors \in Nat \ {0}
                     /\ q.start + q.sectors - 1 <= LastSector
ASSUME PayloadAssumption == Payload \subseteq Seq(Byte)
ASSUME BoundAssumption   == MaxOpens \in Nat /\ MaxBytes \in Nat

VARIABLES
  accepted,  \* history: the bytes given to the open region by calls that succeeded or still run
  failed,    \* a write to the open region failed: its caller gives up
  opens      \* regions opened so far

vars == <<regionVars, accepted, failed, opens>>

Init ==
  /\ registry = <<>>
  /\ protected = {}
  /\ Reset
  /\ flash = [s \in Sector |-> BlankSector]
  /\ accepted = <<>>
  /\ failed = FALSE
  /\ opens = 0

CallRegister(q) ==
  /\ call.op = "none"
  /\ Register(q.name, q.start, q.sectors)
  /\ UNCHANGED <<accepted, failed, opens>>

CallProtect(name, state) ==
  /\ call.op = "none"
  /\ Protect(name, state)
  /\ UNCHANGED <<accepted, failed, opens>>

CallOpen(name) ==
  /\ call.op = "none"
  /\ opens < MaxOpens
  /\ Open(name) \/ OpenRefused(name)
  /\ opens' = opens + 1
  /\ accepted' = <<>>
  /\ failed' = FALSE

CallRead ==
  /\ call.op = "none"
  /\ \E ok \in BOOLEAN : Read(ok)
  /\ UNCHANGED <<accepted, failed, opens>>

CallWrite(data) ==
  /\ ~ failed
  /\ Len(accepted) + Len(data) <= MaxBytes
  /\ WriteBegin(data)
  /\ accepted' = accepted \o data
  /\ UNCHANGED <<failed, opens>>

CallClose ==
  /\ open_region # NULL \/ mode # "WRITE"
  /\ CloseBegin
  /\ UNCHANGED <<accepted, failed, opens>>

Return ==
  /\ \E ok \in BOOLEAN : WriteTurn(ok)
  /\ failed' = ~ call'.result
  /\ UNCHANGED <<accepted, opens>>

Closing ==
  /\ \E ok \in BOOLEAN : CloseTurn(ok) \/ TruncateTurn(ok)
  /\ UNCHANGED <<accepted, failed, opens>>

\* After a restart nothing is registered, open or protected.
Restart ==
  /\ PowerLoss
  /\ registry' = <<>>
  /\ protected' = {}
  /\ accepted' = <<>>
  /\ failed' = FALSE
  /\ UNCHANGED opens

Next ==
  \/ \E q \in Request : CallRegister(q)
  \/ \E name \in Name, state \in BOOLEAN : CallProtect(name, state)
  \/ \E name \in Name : CallOpen(name)
  \/ \E data \in Payload : CallWrite(data)
  \/ CallRead
  \/ CallClose
  \/ Return
  \/ Closing
  \/ Restart

Spec == Init /\ [][Next]_vars

-----------------------------------------------------------------------------
TypeOK ==
  /\ RegionTypeOK
  /\ accepted \in Seq(Byte)
  /\ failed \in BOOLEAN
  /\ opens \in 0 .. MaxOpens

\* No two registered regions share a sector, in whatever order and however often
\* registrations are asked for (flash_region_collision).
RegionsDisjoint ==
  \A r, q \in Registered :
    r # q => SectorsOf(registry[r]) \intersect SectorsOf(registry[q]) = {}

\* A caller told that its close succeeded has every byte it wrote on the chip, in
\* order and from the start of the region, whatever pieces it wrote them in
\* (flash_region_close; bytes 2 and 3 of sector 0 are the flash settings and stay).
Stored(name, bytes) ==
  \A i \in 1 .. Len(bytes) :
    LET s == registry[name].start + ((i - 1) \div SectorSize)
        b == ((i - 1) % SectorSize) + 1
    IN  \/ s \in SectorsOf(registry[name]) /\ flash[s][b] = bytes[i]
        \/ s = 0 /\ b = 2 /\ bytes[1] = Magic

CloseDelivers ==
  (call.op = "truncate" /\ call.result /\ ~ failed) => Stored(open_region, accepted)

\* The inductive invariant of the proofs.
IInv == TypeOK /\ RegionInv /\ RegionsDisjoint

\* The region layer keeps the promise of FlashStore.
Ranges  == {SectorsOf(registry[r]) : r \in Registered}
Granted == IF open_region = NULL THEN {} ELSE SectorsOf(registry[open_region])

Store == INSTANCE FlashStore WITH ranges <- Ranges, granted <- Granted

StoreSpec == Store!Spec
=============================================================================
