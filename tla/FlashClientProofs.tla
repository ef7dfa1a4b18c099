--------------------------- MODULE FlashClientProofs ---------------------------
(***************************************************************************)
(* The region layer under any caller that keeps its rules, for every       *)
(* table, chip, sector size and payload: its invariants, that a close that *)
(* succeeds has delivered every byte, and that it implements FlashStore.   *)
(***************************************************************************)
EXTENDS FlashClient, FlashRegionProofs

USE SizeAssumption, SectorAssumption, NullAssumption, ByteAssumption

LEMMA InitInvariant == Init => IInv
  <1> SUFFICES ASSUME Init PROVE IInv
    OBVIOUS
  <1>1. flash \in [Sector -> Content]
    BY DEF Init, BlankSector, Content
  <1>2. Registered = {} /\ registry \in [Registered -> Region] /\ RegistryOnChip /\ RegionsDisjoint
    BY DEF Init, Registered, RegistryOnChip, RegionsDisjoint
  <1>3. RegionInv
    <2>1. Reset /\ protected \subseteq Name
      BY DEF Init
    <2> QED BY <1>1, <1>2, <2>1, ResetRegion
  <1>4. accepted \in Seq(Byte) /\ opens \in 0 .. MaxOpens
    BY BoundAssumption DEF Init
  <1>5. failed \in BOOLEAN
    BY Zenon DEF Init
  <1> QED BY <1>2, <1>3, <1>4, <1>5 DEF IInv, TypeOK, RegionInv

-----------------------------------------------------------------------------
(* One lemma per action: it preserves the inductive invariant. *)

\* What is left to show of an action once RegionInv is known to be preserved.
LEMMA RegionToIInv ==
  ASSUME IInv, RegionInv', UNCHANGED registry, accepted' \in Seq(Byte), failed' \in BOOLEAN,
         opens' \in 0 .. MaxOpens
  PROVE  IInv'
  <1>1. RegionsDisjoint'
    BY DEF IInv, RegionsDisjoint, Registered
  <1>2. RegionTypeOK'
    BY DEF RegionInv
  <1> QED BY <1>1, <1>2 DEF IInv, TypeOK

LEMMA RegisterPreserves ==
  ASSUME IInv, NEW q \in Request, CallRegister(q)
  PROVE  IInv'
  <1> USE DEF Registered
  <1>1. /\ q.name \in Name /\ q.start \in Nat /\ q.sectors \in Nat \ {0}
        /\ q.start + q.sectors - 1 <= LastSector
    BY RequestAssumption
  <1>2. Register(q.name, q.start, q.sectors) /\ RegionInv
    BY DEF CallRegister, IInv
  <1>3. RegionInv'
    BY <1>1, <1>2, RegisterRegion
  <1> DEFINE new == [start |-> q.start, sectors |-> q.sectors]
  <1>4. /\ new \in Region
        /\ DOMAIN registry' = DOMAIN registry \union {q.name}
        /\ registry'[q.name] = new
        /\ \A r \in DOMAIN registry : registry'[r] = registry[r]
        /\ q.name \notin DOMAIN registry
    BY <1>1 DEF CallRegister, Register, CanRegister, Region
  <1>5. RegionsDisjoint'
    <2>1. ASSUME NEW r \in DOMAIN registry
          PROVE  SectorsOf(registry[r]) \intersect SectorsOf(new) = {}
      <3>1. registry[r] \in Region /\ registry[r].sectors >= 1
            /\ registry[r].start + registry[r].sectors - 1 <= LastSector
        BY DEF IInv, RegionInv, RegionTypeOK, RegistryOnChip
      <3>2. End(registry[r]) = registry[r].start + registry[r].sectors - 1
        BY <3>1, EndOfRegion
      <3>3. (q.start + q.sectors - 1) % W = q.start + q.sectors - 1
        BY <1>1
      <3>4. ~ Collides(q.start, q.sectors, r)
        BY DEF CallRegister, Register, CanRegister
      <3> QED BY <1>1, <3>1, <3>2, <3>3, <3>4 DEF Collides, SectorsOf, Region
    <2> QED BY <1>4, <2>1 DEF RegionsDisjoint, IInv
  <1>6. RegionTypeOK' /\ UNCHANGED <<accepted, failed, opens>>
    BY <1>3 DEF CallRegister, RegionInv
  <1> QED BY <1>3, <1>5, <1>6 DEF IInv, TypeOK

LEMMA ProtectPreserves ==
  ASSUME IInv, NEW name \in Name, NEW state \in BOOLEAN, CallProtect(name, state)
  PROVE  IInv'
  <1>1. /\ protected' \subseteq Name
        /\ UNCHANGED <<registry, open_region, sector, max_sector, mode, buffer, flash, call,
                       accepted, failed, opens>>
    BY DEF CallProtect, Protect, IInv, RegionInv, RegionTypeOK
  <1>2. RegionInv'
    BY <1>1, QuietRegion DEF IInv
  <1> QED BY <1>1, <1>2, RegionToIInv DEF IInv, TypeOK

LEMMA OpenPreserves ==
  ASSUME IInv, NEW name \in Name, CallOpen(name)
  PROVE  IInv'
  <1>1. /\ opens' \in 0 .. MaxOpens /\ accepted' \in Seq(Byte)
        /\ failed' \in BOOLEAN /\ call.op = "none" /\ RegionInv
    <2>1. opens' \in 0 .. MaxOpens /\ accepted' \in Seq(Byte)
      BY BoundAssumption DEF CallOpen, IInv, TypeOK
    <2>2. failed' \in BOOLEAN
      BY Zenon DEF CallOpen
    <2> QED BY <2>1, <2>2 DEF CallOpen, IInv
  <1>2. UNCHANGED registry
    BY DEF CallOpen, Open, OpenRefused
  <1>3. RegionInv'
    BY <1>1, OpenRegion, OpenRefusedRegion DEF CallOpen
  <1> QED BY <1>1, <1>2, <1>3, RegionToIInv

LEMMA ReadPreserves ==
  ASSUME IInv, CallRead
  PROVE  IInv'
  <1>1. UNCHANGED <<registry, accepted, failed, opens>>
    BY DEF CallRead, Read
  <1>2. RegionInv'
    BY ReadRegion DEF CallRead, IInv
  <1> QED BY <1>1, <1>2, RegionToIInv DEF IInv, TypeOK

LEMMA WritePreserves ==
  ASSUME IInv, NEW data \in Payload, CallWrite(data)
  PROVE  IInv'
  <1>1. UNCHANGED <<registry, failed, opens>> /\ accepted' = accepted \o data
    BY DEF CallWrite, WriteBegin
  <1>2. data \in Seq(Byte) /\ accepted' \in Seq(Byte)
    BY <1>1, PayloadAssumption DEF IInv, TypeOK
  <1>3. RegionInv'
    BY <1>2, WriteRegion DEF CallWrite, IInv
  <1> QED BY <1>1, <1>2, <1>3, RegionToIInv DEF IInv, TypeOK

LEMMA ClosePreserves ==
  ASSUME IInv, CallClose
  PROVE  IInv'
  <1>1. UNCHANGED <<registry, accepted, failed, opens>>
    BY DEF CallClose, CloseBegin
  <1>2. RegionInv'
    BY CloseRegion DEF CallClose, IInv
  <1> QED BY <1>1, <1>2, RegionToIInv DEF IInv, TypeOK

LEMMA TurnPreserves ==
  ASSUME IInv, Return \/ Closing
  PROVE  IInv'
  <1>1. PICK ok \in BOOLEAN : Turn(ok)
    BY DEF Return, Closing, Turn
  <1>2. UNCHANGED <<registry, accepted, opens>>
    BY DEF Return, Closing, WriteTurn, CloseTurn, TruncateTurn
  <1>3. failed' \in BOOLEAN
    <2>1. CASE Return
      BY <2>1, Zenon DEF Return
    <2>2. CASE Closing
      BY <2>2 DEF Closing, IInv, TypeOK
    <2> QED BY <2>1, <2>2
  <1>4. RegionInv'
    BY <1>1, TurnRegion DEF IInv
  <1> QED BY <1>2, <1>3, <1>4, RegionToIInv DEF IInv, TypeOK

LEMMA RestartPreserves ==
  ASSUME IInv, Restart
  PROVE  IInv'
  <1> USE DEF Registered
  <1>1. registry' = <<>> /\ protected' = {} /\ accepted' = <<>> /\ opens' = opens /\ PowerLoss
    BY DEF Restart
  <1>2. DOMAIN registry' = {} /\ registry' \in [DOMAIN registry' -> Region]
    BY <1>1
  <1>3. RegistryOnChip' /\ RegionsDisjoint'
    BY <1>2 DEF RegistryOnChip, RegionsDisjoint
  <1>4. RegionInv'
    BY <1>1, <1>2, <1>3, PowerLossRegion DEF IInv
  <1>5. failed' \in BOOLEAN
    BY Zenon DEF Restart
  <1>6. RegionTypeOK' /\ accepted' \in Seq(Byte) /\ opens' \in 0 .. MaxOpens
    BY <1>1, <1>4 DEF RegionInv, IInv, TypeOK
  <1> QED BY <1>3, <1>4, <1>5, <1>6 DEF IInv, TypeOK

LEMMA StutterPreserves ==
  ASSUME IInv, UNCHANGED vars
  PROVE  IInv'
  <1>1. RegionInv'
    BY QuietRegion DEF vars, regionVars, IInv, RegionInv, RegionTypeOK
  <1> QED BY <1>1, RegionToIInv DEF vars, regionVars, IInv, TypeOK

THEOREM Invariance == Spec => []IInv
  <1>1. Init => IInv
    BY InitInvariant
  <1>2. IInv /\ [Next]_vars => IInv'
    <2> SUFFICES ASSUME IInv, [Next]_vars PROVE IInv'
      OBVIOUS
    <2>1. CASE \E q \in Request : CallRegister(q)
      BY <2>1, RegisterPreserves
    <2>2. CASE \E name \in Name, state \in BOOLEAN : CallProtect(name, state)
      BY <2>2, ProtectPreserves
    <2>3. CASE \E name \in Name : CallOpen(name)
      BY <2>3, OpenPreserves
    <2>4. CASE \E data \in Payload : CallWrite(data)
      BY <2>4, WritePreserves
    <2>5. CASE CallRead
      BY <2>5, ReadPreserves
    <2>6. CASE CallClose
      BY <2>6, ClosePreserves
    <2>7. CASE Return \/ Closing
      BY <2>7, TurnPreserves
    <2>9. CASE Restart
      BY <2>9, RestartPreserves
    <2>10. CASE UNCHANGED vars
      BY <2>10, StutterPreserves
    <2> QED BY <2>1, <2>2, <2>3, <2>4, <2>5, <2>6, <2>7, <2>9, <2>10 DEF Next
  <1> QED BY <1>1, <1>2, PTL DEF Spec

\* Whatever is registered in whatever order, registered regions share no sector
\* (flash_region_collision, for every chip and every list of requests).
THEOREM RegionsStayDisjoint == Spec => []RegionsDisjoint
  <1>1. IInv => RegionsDisjoint
    BY DEF IInv
  <1> QED BY Invariance, <1>1, PTL

\* Every variable keeps its type, the cursor and the chip included.
THEOREM TypeCorrect == Spec => []TypeOK
  <1>1. IInv => TypeOK
    BY DEF IInv
  <1> QED BY Invariance, <1>1, PTL

\* The cursor of an open region never passes its end by more than one sector.
THEOREM CursorStaysInRegion == Spec => []CursorInRegion
  <1>1. IInv => CursorInRegion
    BY DEF IInv, RegionInv
  <1> QED BY Invariance, <1>1, PTL

\* The subtraction that sizes a copy into the buffer never underflows.
THEOREM BufferAlwaysFits == Spec => []BufferFits
  <1>1. IInv => BufferFits
    BY DEF IInv, RegionInv
  <1> QED BY Invariance, <1>1, PTL

-----------------------------------------------------------------------------
(* The region layer implements FlashStore. *)

LEMMA SameView ==
  ASSUME UNCHANGED <<registry, open_region>>
  PROVE  UNCHANGED <<Ranges, Granted>>
  BY DEF Ranges, Granted, Registered

LEMMA RegisterDivides ==
  ASSUME IInv, NEW q \in Request, CallRegister(q)
  PROVE  \E S \in SUBSET Sector : Store!Divide(S)
  <1> USE DEF Registered
  <1> DEFINE new == [start |-> q.start, sectors |-> q.sectors]
             S   == SectorsOf(new)
  <1>1. /\ q.start \in Nat /\ q.sectors \in Nat /\ q.sectors >= 1
        /\ q.start + q.sectors - 1 <= LastSector
    BY RequestAssumption
  <1>2. /\ DOMAIN registry' = DOMAIN registry \union {q.name}
        /\ registry'[q.name] = new
        /\ \A r \in DOMAIN registry : registry'[r] = registry[r]
        /\ q.name \notin DOMAIN registry
        /\ UNCHANGED <<open_region, flash>>
    BY DEF CallRegister, Register, CanRegister
  <1>3. S \in SUBSET Sector
    BY <1>1 DEF SectorsOf, Sector
  <1>4. Ranges' = Ranges \union {S}
    BY <1>2, Zenon DEF Ranges
  <1>5. \A R \in Ranges : R \intersect S = {}
    <2>1. IInv'
      BY RegisterPreserves
    <2>2. \A r \in DOMAIN registry : SectorsOf(registry'[r]) \intersect SectorsOf(registry'[q.name]) = {}
      BY <1>2, <2>1 DEF IInv, RegionsDisjoint
    <2> QED BY <1>2, <2>2 DEF Ranges
  <1>6. Granted' = Granted
    BY <1>2 DEF Granted, IInv, RegionInv, CursorInRegion
  <1> QED BY <1>2, <1>3, <1>4, <1>5, <1>6 DEF Store!Divide

LEMMA OpenGrants ==
  ASSUME IInv, NEW name \in Name, CallOpen(name)
  PROVE  Store!Next \/ UNCHANGED Store!vars
  <1>1. CASE Open(name)
    <2>1. name \in Registered /\ open_region = NULL /\ open_region' = name /\ name # NULL
          /\ UNCHANGED <<registry, flash>>
      BY <1>1 DEF Open, CanOpen
    <2>2. SectorsOf(registry[name]) \in SUBSET Sector
      BY <2>1 DEF IInv, RegionInv, RegionTypeOK, RegistryOnChip, SectorsOf, Sector, Region
    <2>3. Store!Grant(SectorsOf(registry[name]))
      BY <2>1 DEF Store!Grant, Ranges, Granted, Registered
    <2> QED BY <2>2, <2>3 DEF Store!Next
  <1>2. CASE OpenRefused(name)
    <2>1. UNCHANGED <<registry, flash>> /\ (open_region' = NULL \/ UNCHANGED open_region)
      BY <1>2 DEF OpenRefused, Cleared
    <2>2. CASE open_region' = NULL
      <3>1. Store!Revoke
        BY <2>1, <2>2 DEF Store!Revoke, Ranges, Granted, Registered
      <3> QED BY <3>1 DEF Store!Next
    <2>3. CASE UNCHANGED open_region
      BY <2>1, <2>3, SameView DEF Store!vars
    <2> QED BY <2>1, <2>2, <2>3
  <1> QED BY <1>1, <1>2 DEF CallOpen

\* A turn of a write or of a close changes one granted sector, or none, and may
\* end the grant.
LEMMA CallChanges ==
  ASSUME IInv, call.op # "none", UNCHANGED registry,
         open_region' \in {open_region, NULL},
         \/ UNCHANGED flash
         \/ \E b \in Seq(Byte), ok \in BOOLEAN : Flush(b, ok)
  PROVE  Store!Next \/ UNCHANGED Store!vars
  <1>1. open_region # NULL /\ open_region \in Registered
    BY DEF IInv, RegionInv, CallHasRegion, CursorInRegion
  <1>2. SectorsOf(registry[open_region]) \in SUBSET Sector
    BY <1>1 DEF IInv, RegionInv, RegionTypeOK, RegistryOnChip, SectorsOf, Sector, Region
  <1>3. UNCHANGED Ranges /\ Granted' \in {Granted, {}} /\ Granted = SectorsOf(registry[open_region])
    BY <1>1 DEF Ranges, Granted, Registered
  <1>4. CASE UNCHANGED flash
    <2>1. CASE UNCHANGED Granted
      BY <1>3, <1>4, <2>1 DEF Store!vars
    <2>2. CASE Granted' = {}
      BY <1>3, <1>4, <2>2 DEF Store!Next, Store!Revoke
    <2> QED BY <1>3, <2>1, <2>2
  <1>5. CASE \E s \in SectorsOf(registry[open_region]), c \in Content : flash' = [flash EXCEPT ![s] = c]
    <2>1. PICK s \in SectorsOf(registry[open_region]) : \E c \in Content : flash' = [flash EXCEPT ![s] = c]
      BY <1>5
    <2>2. Store!Change(s)
      BY <1>3, <2>1 DEF Store!Change
    <2> QED BY <1>2, <2>1, <2>2 DEF Store!Next
  <1> QED BY <1>4, <1>5, FlushInCall DEF IInv

LEMMA RestartRestarts ==
  ASSUME IInv, Restart
  PROVE  Store!Next
  <1>1. Ranges' = {} /\ Granted' = {}
    BY DEF Restart, PowerLoss, Cleared, Ranges, Granted, Registered
  <1>2. \/ UNCHANGED flash
        \/ \E s \in Granted, c \in Content : flash' = [flash EXCEPT ![s] = c]
    <2>1. CASE UNCHANGED flash
      BY <2>1
    <2>2. CASE \E ok \in BOOLEAN : Flush(FlushedNow, ok)
      <3>1. CASE FlushedNow = <<>>
        BY <2>2, <3>1 DEF Flush
      <3>2. CASE FlushedNow # <<>>
        <4>1. call.op # "none" /\ FlushedNow \in Seq(Byte)
          <5>1. call.op \in Op /\ buffer \in Seq(Byte)
            BY DEF IInv, RegionInv, RegionTypeOK
          <5>2. call.op = "write" => Filled \in Seq(Byte)
            BY FilledFits DEF IInv
          <5> QED BY <3>2, <5>1, <5>2 DEF FlushedNow, Op
        <4>2. PICK b \in Seq(Byte) : b = FlushedNow
          BY <4>1
        <4>3. UNCHANGED flash \/ \E s \in SectorsOf(registry[open_region]), c \in Content :
                                   flash' = [flash EXCEPT ![s] = c]
          BY <2>2, <4>1, <4>2, FlushInCall DEF IInv
        <4> QED BY <4>1, <4>3 DEF Granted, IInv, RegionInv, CallHasRegion
      <3> QED BY <3>1, <3>2
    <2> QED BY <2>1, <2>2 DEF Restart, PowerLoss
  <1> QED BY <1>1, <1>2 DEF Store!Next, Store!Restart

\* Every behaviour of the region layer is one of FlashStore: one range is granted
\* at a time, and a step changes at most one sector, a granted one.
THEOREM ImplementsStore == Spec => StoreSpec
  <1>1. Init => Store!Init
    <2> SUFFICES ASSUME Init PROVE Store!Init
      OBVIOUS
    <2>1. flash \in [Sector -> Content]
      BY InitInvariant DEF IInv, RegionInv, RegionTypeOK
    <2>2. Ranges = {} /\ Granted = {}
      BY DEF Init, Reset, Ranges, Granted, Registered
    <2> QED BY <2>1, <2>2 DEF Store!Init
  <1>2. IInv /\ [Next]_vars => [Store!Next]_(Store!vars)
    <2> SUFFICES ASSUME IInv, [Next]_vars PROVE Store!Next \/ UNCHANGED Store!vars
      OBVIOUS
    <2>1. CASE \E q \in Request : CallRegister(q)
      BY <2>1, RegisterDivides DEF Store!Next
    <2>2. CASE \E name \in Name : CallOpen(name)
      BY <2>2, OpenGrants
    <2>3. CASE /\ UNCHANGED <<registry, flash>>
               /\ open_region' = NULL \/ UNCHANGED open_region
      <3>1. UNCHANGED Ranges /\ (Granted' = {} \/ UNCHANGED Granted)
        BY <2>3 DEF Ranges, Granted, Registered
      <3> QED BY <2>3, <3>1 DEF Store!Next, Store!Revoke, Store!vars
    <2>4. CASE Return
      <3>1. call.op # "none" /\ UNCHANGED <<registry, open_region>>
        BY <2>4 DEF Return, WriteTurn
      <3>2. UNCHANGED flash \/ \E ok \in BOOLEAN : Flush(Filled, ok)
        BY <2>4 DEF Return, WriteTurn
      <3>3. Filled \in Seq(Byte)
        BY <2>4, FilledFits DEF IInv, Return, WriteTurn
      <3> QED BY <3>1, <3>2, <3>3, CallChanges
    <2>5. CASE Closing
      <3>1. /\ call.op # "none" /\ UNCHANGED registry
            /\ open_region' \in {open_region, NULL}
        BY <2>5 DEF Closing, CloseTurn, TruncateTurn, Cleared
      <3>2. UNCHANGED flash \/ \E ok \in BOOLEAN : Flush(buffer, ok)
        BY <2>5 DEF Closing, CloseTurn, TruncateTurn
      <3>3. buffer \in Seq(Byte)
        BY DEF IInv, RegionInv, RegionTypeOK
      <3> QED BY <3>1, <3>2, <3>3, CallChanges
    <2>6. CASE Restart
      BY <2>6, RestartRestarts
    <2>7. CASE \E name \in Name, state \in BOOLEAN : CallProtect(name, state)
      BY <2>7, <2>3 DEF CallProtect, Protect
    <2>8. CASE \E data \in Payload : CallWrite(data)
      BY <2>8, <2>3 DEF CallWrite, WriteBegin
    <2>9. CASE CallRead \/ CallClose
      BY <2>9, <2>3 DEF CallRead, Read, CallClose, CloseBegin, Cleared
    <2>10. CASE UNCHANGED vars
      BY <2>10, <2>3 DEF vars, regionVars
    <2> QED BY <2>1, <2>2, <2>4, <2>5, <2>6, <2>7, <2>8, <2>9, <2>10 DEF Next
  <1> QED BY <1>1, <1>2, Invariance, PTL DEF Spec, StoreSpec, Store!Spec


-----------------------------------------------------------------------------
(* A close that succeeds has delivered every byte.  What the caller gave is   *)
(* what Delivering says of accepted, as long as no write failed.              *)

Given == Len(accepted)

DelInv ==
  /\ call.op # "write" => call.data = <<>>
  /\ call.op = "write" => ~ failed
  /\ open_region # NULL /\ mode # "READ" /\ ~ failed =>
       /\ call.op # "truncate" => Delivering(accepted, Given)
       /\ call.op = "truncate" /\ call.result => Passed(accepted, Given)

\* No region open, or one opened for reading, and no call.
LEMMA DelTrivial ==
  ASSUME open_region' = NULL \/ mode' = "READ", call'.op = "none", call'.data = <<>>
  PROVE  DelInv'
  BY DEF DelInv

\* An action that leaves the region, its cursor and the bytes alone.
LEMMA DelKeeps ==
  ASSUME IInv, DelInv, UNCHANGED <<registry, open_region, sector, mode, buffer, flash, call,
                                   accepted, failed>>
  PROVE  DelInv'
  BY DEF DelInv, Delivering, Passed, Kept, At, Pos, Start, Flushed, Given

LEMMA DelRegister ==
  ASSUME IInv, DelInv, NEW q \in Request, CallRegister(q)
  PROVE  DelInv'
  <1>1. UNCHANGED <<open_region, sector, mode, buffer, flash, call, accepted, failed>> /\ call.op = "none"
    BY DEF CallRegister, Register
  <1>2. CASE open_region = NULL
    BY <1>1, <1>2 DEF DelInv
  <1>3. CASE open_region # NULL
    <2>1. open_region \in Registered
      BY <1>3 DEF IInv, RegionInv, CursorInRegion
    <2>2. registry'[open_region] = registry[open_region]
      BY <2>1 DEF CallRegister, Register, CanRegister, Registered
    <2>3. PICK F, n : F = accepted /\ n = Given
      OBVIOUS
    <2>4. Delivering(F, n) => Delivering(F, n)'
      BY <1>1, <1>3, <2>2, QuietDelivers DEF IInv
    <2>5. accepted' = F /\ Given' = n
      BY <1>1, <2>3 DEF Given
    <2> QED BY <1>1, <1>3, <2>3, <2>4, <2>5 DEF DelInv
  <1> QED BY <1>2, <1>3

LEMMA DelOpen ==
  ASSUME IInv, DelInv, NEW name \in Name, CallOpen(name)
  PROVE  DelInv'
  <1>1. call.op = "none" /\ call' = call /\ call.data = <<>> /\ accepted' = <<>>
    BY DEF CallOpen, Open, OpenRefused, DelInv
  <1>2. CASE Open(name)
    <2>1. PICK F : F = accepted'
      OBVIOUS
    <2>2. Delivering(F, 0)'
      BY <1>1, <1>2, OpenDelivers DEF IInv
    <2>3. accepted' = F /\ Given' = 0
      BY <1>1, <2>1 DEF Given
    <2> QED BY <1>1, <2>2, <2>3 DEF DelInv
  <1>3. CASE OpenRefused(name)
    <2>1. open_region' = NULL
      BY <1>3 DEF OpenRefused, Cleared
    <2> QED BY <1>1, <2>1, DelTrivial
  <1> QED BY <1>2, <1>3 DEF CallOpen

LEMMA DelWrite ==
  ASSUME IInv, DelInv, NEW data \in Payload, CallWrite(data)
  PROVE  DelInv'
  <1>1. /\ WriteBegin(data) /\ UNCHANGED open_region /\ failed' = failed
        /\ mode # "READ" /\ open_region # NULL /\ call.op = "none" /\ ~ failed
        /\ call'.op = "write" /\ accepted' = accepted \o data
    BY DEF CallWrite, WriteBegin, CanWrite
  <1>2. data \in Seq(Byte) /\ accepted \in Seq(Byte)
    BY <1>1, PayloadAssumption DEF IInv, TypeOK
  <1>3. call.data = <<>> /\ Delivering(accepted, Given)
    BY <1>1 DEF DelInv
  <1>4. PICK F, G, n : F = accepted /\ G = accepted' /\ n = Given
    OBVIOUS
  <1>5. /\ Given' = n + Len(data)
        /\ \A i \in 1 .. n : G[i] = F[i]
        /\ \A i \in 1 .. Len(data) : G[n + i] = data[i]
    BY <1>1, <1>2, <1>4 DEF Given
  <1>6. Delivering(G, n + Len(data))'
    BY <1>1, <1>2, <1>3, <1>4, <1>5, WriteDelivers DEF IInv
  <1>7. Delivering(accepted, Given)'
    BY <1>4, <1>5, <1>6
  <1> QED BY <1>1, <1>7 DEF DelInv

LEMMA DelClose ==
  ASSUME IInv, DelInv, CallClose
  PROVE  DelInv'
  <1>1. call.op = "none" /\ UNCHANGED <<mode, accepted>> /\ failed' = failed /\ CloseBegin /\ call.data = <<>>
        /\ UNCHANGED Given
    BY DEF CallClose, CloseBegin, DelInv, Given
  <1>2. CASE mode = "WRITE"
    <2>1. open_region # NULL /\ UNCHANGED open_region /\ call'.op = "close" /\ call'.data = <<>>
      BY <1>2 DEF CallClose, CloseBegin
    <2>2. PICK F, n : F = accepted /\ n = Given
      OBVIOUS
    <2>3. Delivering(F, n) => Delivering(F, n)'
      BY <1>1, <1>2, <2>1, CloseBeginDelivers DEF IInv
    <2> QED BY <1>1, <2>1, <2>2, <2>3 DEF DelInv
  <1>3. CASE mode # "WRITE"
    <2>1. open_region' = NULL /\ call'.op = "none" /\ call'.data = <<>>
      BY <1>1, <1>3 DEF CloseBegin, Cleared, Idle
    <2> QED BY <2>1, DelTrivial
  <1> QED BY <1>2, <1>3

LEMMA DelReturn ==
  ASSUME IInv, DelInv, Return
  PROVE  DelInv'
  <1>1. PICK ok \in BOOLEAN : WriteTurn(ok)
    BY DEF Return
  <1>2. /\ UNCHANGED <<open_region, accepted, mode>> /\ call.op = "write" /\ ~ failed
        /\ open_region # NULL /\ mode = "WRITE"
        /\ failed' = ~ call'.result /\ call'.op \in {"none", "write"}
        /\ (call'.op = "none" => call'.data = <<>>) /\ (call'.op = "write" => call'.result)
    BY <1>1 DEF Return, WriteTurn, Idle, IInv, RegionInv, CallHasRegion, DelInv
  <1>3. CASE ~ call'.result
    BY <1>2, <1>3 DEF DelInv
  <1>4. CASE call'.result
    <2>1. PICK F, n : F = accepted /\ n = Given
      OBVIOUS
    <2>2. n \in Nat /\ Delivering(F, n)
      BY <1>2, <2>1 DEF DelInv, IInv, TypeOK, Given
    <2>3. Delivering(F, n)'
      BY <1>1, <1>4, <2>2, WriteTurnDelivers DEF IInv
    <2>4. accepted' = F /\ Given' = n
      BY <1>2, <2>1 DEF Given
    <2>5. Delivering(accepted, Given)'
      BY <2>3, <2>4
    <2> QED BY <1>2, <1>4, <2>5 DEF DelInv
  <1> QED BY <1>3, <1>4

LEMMA DelClosing ==
  ASSUME IInv, DelInv, Closing
  PROVE  DelInv'
  <1>1. PICK ok \in BOOLEAN : CloseTurn(ok) \/ TruncateTurn(ok)
    BY DEF Closing
  <1>2. /\ UNCHANGED <<accepted, mode>> /\ failed' = failed /\ UNCHANGED Given
        /\ call.op # "write" /\ call.data = <<>> /\ open_region # NULL /\ mode = "WRITE" /\ Given \in Nat
    BY <1>1 DEF Closing, CloseTurn, TruncateTurn, DelInv, IInv, RegionInv, CallHasRegion, TypeOK, Given
  <1>3. PICK F, n : F = accepted /\ n = Given
    OBVIOUS
  <1>4. accepted' = F /\ Given' = n /\ n \in Nat
    BY <1>2, <1>3
  <1>5. CASE CloseTurn(ok)
    <2>1. call.op = "close" /\ call'.op = "truncate" /\ call'.data = <<>>
      BY <1>5 DEF CloseTurn
    <2>2. ~ failed => Delivering(F, n)
      BY <1>2, <1>3, <2>1 DEF DelInv
    <2>3. ~ failed /\ call'.result => Passed(F, n)'
      BY <1>2, <1>4, <1>5, <2>2, CloseTurnDelivers DEF IInv
    <2> QED BY <1>2, <1>4, <2>1, <2>3 DEF DelInv
  <1>6. CASE TruncateTurn(ok) /\ open_region' # NULL
    <2>1. UNCHANGED call /\ call.op = "truncate"
      BY <1>6 DEF TruncateTurn, Cleared
    <2>2. ~ failed /\ call.result => Passed(F, n)
      BY <1>2, <1>3, <2>1 DEF DelInv
    <2>3. ~ failed /\ call.result => Passed(F, n)'
      BY <1>4, <1>6, <2>2, TruncateTurnDelivers DEF IInv
    <2> QED BY <1>2, <1>4, <2>1, <2>3 DEF DelInv
  <1>7. CASE TruncateTurn(ok) /\ open_region' = NULL
    <2>1. call'.op = "none" /\ call'.data = <<>>
      BY <1>2, <1>7 DEF TruncateTurn
    <2> QED BY <1>7, <2>1, DelTrivial
  <1> QED BY <1>1, <1>5, <1>6, <1>7

LEMMA DelInvariance == Spec => []DelInv
  <1>1. Init => DelInv
    BY DEF Init, Reset, Idle, DelInv
  <1>2. IInv /\ DelInv /\ [Next]_vars => DelInv'
    <2> SUFFICES ASSUME IInv, DelInv, [Next]_vars PROVE DelInv'
      OBVIOUS
    <2>1. CASE \E q \in Request : CallRegister(q)
      BY <2>1, DelRegister
    <2>2. CASE \E name \in Name, state \in BOOLEAN : CallProtect(name, state)
      BY <2>2, DelKeeps DEF CallProtect, Protect
    <2>3. CASE \E name \in Name : CallOpen(name)
      BY <2>3, DelOpen
    <2>4. CASE \E data \in Payload : CallWrite(data)
      BY <2>4, DelWrite
    <2>5. CASE CallRead
      BY <2>5, DelTrivial DEF CallRead, Read, DelInv
    <2>6. CASE CallClose
      BY <2>6, DelClose
    <2>7. CASE Return
      BY <2>7, DelReturn
    <2>8. CASE Closing
      BY <2>8, DelClosing
    <2>9. CASE Restart
      BY <2>9, DelTrivial DEF Restart, PowerLoss, Cleared, Idle
    <2>10. CASE UNCHANGED vars
      BY <2>10, DelKeeps DEF vars, regionVars
    <2> QED BY <2>1, <2>2, <2>3, <2>4, <2>5, <2>6, <2>7, <2>8, <2>9, <2>10 DEF Next
  <1> QED BY <1>1, <1>2, Invariance, PTL DEF Spec

\* Whatever the payloads, the pieces, the size of a sector and the chip: a caller whose
\* close reports success has every byte on the chip, in order (flash_region_write,
\* flash_flush_buffer, flash_region_close), and the zeroing of the rest leaves them.
THEOREM CloseAlwaysDelivers == Spec => []CloseDelivers
  <1>1. IInv /\ DelInv => CloseDelivers
    <2> SUFFICES ASSUME IInv, DelInv, call.op = "truncate", call.result, ~ failed
                 PROVE  Stored(open_region, accepted)
      BY DEF CloseDelivers
    <2>1. Passed(accepted, Given)
      BY DEF DelInv, IInv, RegionInv, CallHasRegion
    <2> QED BY <2>1 DEF Passed, Given, Stored, Kept, At, Pos, Start
  <1> QED BY <1>1, Invariance, DelInvariance, PTL
=============================================================================
