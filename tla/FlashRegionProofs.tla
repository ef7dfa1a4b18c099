--------------------------- MODULE FlashRegionProofs ---------------------------
(***************************************************************************)
(* What the operations of the region layer keep, whoever calls them: that  *)
(* the open region's cursor, buffer and call fit together (RegionInv), and *)
(* that the bytes a caller has handed over are behind the cursor, in the   *)
(* buffer, or in what is left of the running write (Delivering).           *)
(***************************************************************************)
EXTENDS FlashRegion, TLAPS

USE SizeAssumption, SectorAssumption, NullAssumption, ByteAssumption

LEMMA IdleType == Idle \in [op : Op, data : Seq(Byte), result : BOOLEAN]
  BY DEF Idle, Op

LEMMA ZeroSectorType ==
  ZeroSector \in Content /\ ZeroSector \in Seq(Byte) /\ Len(ZeroSector) = SectorSize
  BY DEF ZeroSector, Content

LEMMA TornType ==
  ASSUME NEW c \in Content, NEW k \in Nat
  PROVE  Torn(c, k) \in Content
  BY DEF Torn, Content

LEMMA PatchedType ==
  ASSUME flash \in [Sector -> Content], NEW c \in Content
  PROVE  Patched(c) \in Content
  BY DEF Patched, Content, Sector

\* A flush changes nothing, or exactly the sector under the cursor, and that
\* only when the cursor is in the region.
LEMMA FlushEffect ==
  ASSUME sector \in Nat, max_sector \in Nat, max_sector <= LastSector,
         flash \in [Sector -> Content],
         NEW b \in Seq(Byte), NEW ok \in BOOLEAN, Flush(b, ok)
  PROVE  /\ flash' \in [Sector -> Content]
         /\ \/ UNCHANGED flash
            \/ /\ sector <= max_sector
               /\ \E c \in Content : flash' = [flash EXCEPT ![sector] = c]
         /\ b # <<>> /\ sector > max_sector => ~ ok
  <1>1. CASE UNCHANGED flash
    BY <1>1 DEF Flush
  <1>2. CASE b # <<>> /\ sector <= max_sector /\ ~ UNCHANGED flash
    <2>1. Padded(b) \in Content
      BY DEF Padded, Content
    <2>2. PICK d \in Content : d = Patched(Padded(b))
      BY <2>1, PatchedType
    <2>3. \A k \in 0 .. SectorSize - 1 : Torn(d, k) \in Content
      BY TornType
    <2>4. \/ flash' = [flash EXCEPT ![sector] = d]
          \/ \E k \in 0 .. SectorSize - 1 : flash' = [flash EXCEPT ![sector] = Torn(d, k)]
      BY <1>2, <2>2, Zenon DEF Flush
    <2>5. \E c \in Content : flash' = [flash EXCEPT ![sector] = c]
      BY <2>3, <2>4
    <2>6. flash' \in [Sector -> Content]
      BY <2>5
    <2>7. ~ (sector > max_sector)
      BY <1>2
    <2> QED BY <1>2, <2>5, <2>6, <2>7, Zenon
  <1> QED BY <1>1, <1>2 DEF Flush

\* What a region on the chip needs no wrap-around for.
LEMMA EndOfRegion ==
  ASSUME NEW r \in Region, r.sectors >= 1, r.start + r.sectors - 1 <= LastSector
  PROVE  End(r) = r.start + r.sectors - 1
  BY DEF End, Region

\* Facts about the cursor of an open region that every step below needs.
LEMMA CursorBounds ==
  ASSUME RegionInv, open_region # NULL
  PROVE  /\ sector \in Nat /\ max_sector \in Nat
         /\ max_sector <= LastSector
         /\ sector <= max_sector => sector \in SectorsOf(registry[open_region])
  <1>1. registry[open_region] \in Region
    BY DEF RegionInv, CursorInRegion, RegionTypeOK
  <1> QED BY <1>1 DEF RegionInv, CursorInRegion, RegionTypeOK, RegistryOnChip, SectorsOf, Region

-----------------------------------------------------------------------------
(* One lemma per operation: it preserves RegionInv. *)

LEMMA ResetRegion ==
  ASSUME Reset, registry \in [Registered -> Region], Registered \subseteq Name, RegistryOnChip,
         protected \subseteq Name, flash \in [Sector -> Content]
  PROVE  RegionInv
  <1>1. RegionTypeOK
    BY IdleType DEF Reset, RegionTypeOK, Mode
  <1> QED BY <1>1 DEF Reset, RegionInv, CursorInRegion, BufferFits, CallHasRegion, Idle

LEMMA RegisterRegion ==
  ASSUME RegionInv, NEW n \in Name, NEW s \in Nat, NEW c \in Nat \ {0}, s + c - 1 <= LastSector,
         Register(n, s, c)
  PROVE  RegionInv'
  <1> USE DEF RegionInv, Registered
  <1> DEFINE new == [start |-> s, sectors |-> c]
  <1>1. /\ new \in Region
        /\ DOMAIN registry' = DOMAIN registry \union {n}
        /\ registry'[n] = new
        /\ \A r \in DOMAIN registry : registry'[r] = registry[r]
        /\ n \notin DOMAIN registry
    BY DEF Register, CanRegister, Region
  <1>2. RegionTypeOK'
    <2>1. registry' \in [DOMAIN registry' -> Region]
      BY <1>1 DEF Register, RegionTypeOK
    <2> QED BY <1>1, <2>1 DEF Register, RegionTypeOK
  <1>3. RegistryOnChip'
    BY <1>1 DEF RegistryOnChip
  <1>4. CursorInRegion'
    BY <1>1 DEF Register, CursorInRegion
  <1>5. BufferFits' /\ CallHasRegion'
    BY DEF Register, BufferFits, CallHasRegion
  <1> QED BY <1>2, <1>3, <1>4, <1>5

\* A step that changes only what is protected, or nothing.
LEMMA QuietRegion ==
  ASSUME RegionInv, protected' \subseteq Name,
         UNCHANGED <<registry, open_region, sector, max_sector, mode, buffer, flash, call>>
  PROVE  RegionInv'
  <1>1. RegionTypeOK'
    BY DEF RegionInv, RegionTypeOK, Registered
  <1> QED BY <1>1 DEF RegionInv, RegistryOnChip, CursorInRegion, BufferFits, CallHasRegion, Registered

LEMMA OpenRegion ==
  ASSUME RegionInv, NEW n, Open(n), call.op = "none"
  PROVE  RegionInv'
  <1> USE DEF RegionInv, Registered
  <1>1. /\ n \in Name /\ n # NULL
        /\ registry[n] \in Region /\ registry[n].sectors >= 1
        /\ registry[n].start + registry[n].sectors - 1 <= LastSector
    BY DEF Open, CanOpen, RegionTypeOK, RegistryOnChip
  <1>2. max_sector' = registry[n].start + registry[n].sectors - 1
    BY <1>1, EndOfRegion DEF Open
  <1>3. sector' \in Nat /\ max_sector' \in Nat /\ sector' <= max_sector' + 1
    BY <1>1, <1>2 DEF Open, Region
  <1>4. RegionTypeOK'
    BY <1>1, <1>3 DEF Open, RegionTypeOK, Mode
  <1>5. CursorInRegion'
    BY <1>1, <1>2, <1>3 DEF Open, CanOpen, CursorInRegion, Region
  <1>6. RegistryOnChip'
    BY DEF Open, RegistryOnChip
  <1>7. BufferFits' /\ CallHasRegion'
    BY DEF Open, BufferFits, CallHasRegion
  <1> QED BY <1>4, <1>5, <1>6, <1>7

LEMMA OpenRefusedRegion ==
  ASSUME RegionInv, NEW n, OpenRefused(n), call.op = "none"
  PROVE  RegionInv'
  <1> USE DEF RegionInv, Registered
  <1>1. RegionTypeOK'
    BY DEF OpenRefused, Cleared, RegionTypeOK, Mode
  <1>2. CursorInRegion'
    BY DEF OpenRefused, Cleared, CursorInRegion
  <1>3. RegistryOnChip' /\ BufferFits' /\ CallHasRegion'
    BY DEF OpenRefused, Cleared, RegistryOnChip, BufferFits, CallHasRegion
  <1> QED BY <1>1, <1>2, <1>3

LEMMA ReadRegion ==
  ASSUME RegionInv, NEW ok \in BOOLEAN, Read(ok), call.op = "none"
  PROVE  RegionInv'
  <1> USE DEF RegionInv, Registered
  <1>1. /\ UNCHANGED <<registry, protected, open_region, max_sector, buffer, flash, call>>
        /\ mode' = "READ" /\ sector' \in {sector, sector + 1}
        /\ open_region # NULL /\ sector <= max_sector
    BY DEF Read, CanRead
  <1>2. RegionTypeOK'
    BY <1>1 DEF RegionTypeOK, Mode
  <1>3. RegistryOnChip'
    BY <1>1 DEF RegistryOnChip
  <1>4. CursorInRegion'
    BY <1>1 DEF CursorInRegion, RegionTypeOK, Region
  <1>5. BufferFits' /\ CallHasRegion'
    BY <1>1 DEF BufferFits, CallHasRegion
  <1> QED BY <1>2, <1>3, <1>4, <1>5

\* A caller finds the buffer with room: a full one is flushed before the write
\* that filled it returns, and an open empties it.
LEMMA WriteRegion ==
  ASSUME RegionInv, NEW data \in Seq(Byte), WriteBegin(data)
  PROVE  RegionInv'
  <1> USE DEF RegionInv, Registered
  <1>1. /\ UNCHANGED <<registry, protected, open_region, sector, max_sector, buffer, flash>>
        /\ mode' = "WRITE" /\ open_region # NULL /\ call.op = "none"
        /\ call' = [op |-> "write", data |-> data, result |-> TRUE]
    BY DEF WriteBegin, CanWrite
  <1>2. call' \in [op : Op, data : Seq(Byte), result : BOOLEAN]
    BY <1>1 DEF Op
  <1>3. RegionTypeOK'
    BY <1>1, <1>2 DEF RegionTypeOK, Mode
  <1>4. RegistryOnChip' /\ CursorInRegion'
    BY <1>1 DEF RegistryOnChip, CursorInRegion
  <1>5. BufferFits' /\ CallHasRegion'
    BY <1>1 DEF BufferFits, CallHasRegion
  <1> QED BY <1>3, <1>4, <1>5

LEMMA CloseRegion ==
  ASSUME RegionInv, CloseBegin, open_region # NULL \/ mode # "WRITE"
  PROVE  RegionInv'
  <1> USE DEF RegionInv, Registered
  <1>1. UNCHANGED <<registry, protected, mode, buffer, flash>>
    BY DEF CloseBegin
  <1>2. RegistryOnChip'
    BY <1>1 DEF RegistryOnChip
  <1>3. CASE mode = "WRITE"
    <2>1. /\ open_region # NULL
          /\ UNCHANGED <<open_region, sector, max_sector>>
          /\ call' = [op |-> "close", data |-> <<>>, result |-> TRUE]
      BY <1>3 DEF CloseBegin
    <2>2. call' \in [op : Op, data : Seq(Byte), result : BOOLEAN]
      BY <2>1 DEF Op
    <2>3. RegionTypeOK'
      BY <1>1, <2>1, <2>2 DEF RegionTypeOK
    <2>4. CursorInRegion' /\ BufferFits' /\ CallHasRegion'
      BY <1>1, <1>3, <2>1 DEF CursorInRegion, BufferFits, CallHasRegion
    <2> QED BY <1>2, <2>3, <2>4
  <1>4. CASE mode # "WRITE"
    <2>1. open_region' = NULL /\ sector' = 0 /\ max_sector' = 0 /\ call' = Idle
      BY <1>4 DEF CloseBegin, Cleared
    <2>2. RegionTypeOK'
      BY <1>1, <2>1, IdleType DEF RegionTypeOK
    <2>3. CursorInRegion' /\ BufferFits' /\ CallHasRegion'
      BY <1>1, <2>1 DEF CursorInRegion, BufferFits, CallHasRegion, Idle
    <2> QED BY <1>2, <2>2, <2>3
  <1> QED BY <1>3, <1>4

\* What one turn of a write copies fits in the buffer.
LEMMA FilledFits ==
  ASSUME RegionInv, call.op = "write"
  PROVE  /\ Filled \in Seq(Byte) /\ Rest \in Seq(Byte)
         /\ Len(Filled) <= SectorSize
  <1>1. /\ buffer \in Seq(Byte) /\ call.data \in Seq(Byte) /\ Len(buffer) < SectorSize
    BY DEF RegionInv, RegionTypeOK, BufferFits, CallHasRegion
  <1>2. /\ CopyLen \in 0 .. Len(call.data)
        /\ Len(buffer) + CopyLen <= SectorSize
    BY <1>1 DEF CopyLen, Available
  <1>3. /\ SubSeq(call.data, 1, CopyLen) \in Seq(Byte)
        /\ Len(SubSeq(call.data, 1, CopyLen)) = CopyLen
    BY <1>1, <1>2
  <1>4. Rest \in Seq(Byte)
    BY <1>1, <1>2 DEF Rest
  <1> QED BY <1>1, <1>2, <1>3, <1>4 DEF Filled

\* What a flush during a running call does to the chip and to the cursor.
LEMMA FlushInCall ==
  ASSUME RegionInv, call.op # "none", NEW b \in Seq(Byte), NEW ok \in BOOLEAN, Flush(b, ok)
  PROVE  /\ flash' \in [Sector -> Content]
         /\ After(b, ok) \in Nat /\ After(b, ok) >= sector
         /\ sector <= max_sector + 1 => After(b, ok) <= max_sector + 1
         /\ \/ UNCHANGED flash
            \/ \E s \in SectorsOf(registry[open_region]), c \in Content :
                 flash' = [flash EXCEPT ![s] = c]
  <1>1. /\ sector \in Nat /\ max_sector \in Nat /\ max_sector <= LastSector
        /\ sector <= max_sector => sector \in SectorsOf(registry[open_region])
    BY CursorBounds DEF RegionInv, CallHasRegion
  <1>2. flash \in [Sector -> Content]
    BY DEF RegionInv, RegionTypeOK
  <1>3. /\ flash' \in [Sector -> Content]
        /\ \/ UNCHANGED flash
           \/ /\ sector <= max_sector
              /\ \E c \in Content : flash' = [flash EXCEPT ![sector] = c]
        /\ b # <<>> /\ sector > max_sector => ~ ok
    BY <1>1, <1>2, FlushEffect
  <1>4. /\ After(b, ok) \in Nat /\ After(b, ok) >= sector
        /\ sector <= max_sector + 1 => After(b, ok) <= max_sector + 1
    BY <1>1, <1>3 DEF After
  <1>5. CASE UNCHANGED flash
    BY <1>3, <1>4, <1>5
  <1>6. CASE sector <= max_sector /\ \E c \in Content : flash' = [flash EXCEPT ![sector] = c]
    <2>1. \E s \in SectorsOf(registry[open_region]), c \in Content : flash' = [flash EXCEPT ![s] = c]
      BY <1>1, <1>6
    <2> QED BY <1>3, <1>4, <2>1
  <1> QED BY <1>3, <1>5, <1>6

LEMMA WriteTurnRegion ==
  ASSUME RegionInv, NEW ok1 \in BOOLEAN, WriteTurn(ok1)
  PROVE  RegionInv'
  <1> USE DEF RegionInv, Registered
  <1>1. /\ UNCHANGED <<registry, protected, open_region, max_sector, mode>>
        /\ call.op = "write" /\ open_region # NULL /\ mode = "WRITE"
    BY DEF WriteTurn, CallHasRegion
  <1>2. RegistryOnChip'
    BY <1>1 DEF RegistryOnChip
  <1>4. CASE Len(Filled) < SectorSize /\ buffer' = Filled /\ call' = Idle /\ UNCHANGED <<flash, sector>>
    <2>1. RegionTypeOK'
      BY <1>1, <1>4, FilledFits, IdleType DEF RegionTypeOK
    <2>2. CursorInRegion' /\ BufferFits' /\ CallHasRegion'
      BY <1>1, <1>4, FilledFits DEF CursorInRegion, BufferFits, CallHasRegion, Idle
    <2> QED BY <1>2, <2>1, <2>2
  <1>5. ASSUME buffer' = <<>>, Len(Filled) = SectorSize,
               NEW ok \in BOOLEAN, Flush(Filled, ok), sector' = After(Filled, ok),
               call' = IF ok /\ Rest # <<>>
                       THEN [op |-> "write", data |-> Rest, result |-> TRUE]
                       ELSE [op |-> "none", data |-> <<>>, result |-> ok]
        PROVE  RegionInv'
    <2>1. sector \in Nat /\ max_sector \in Nat /\ max_sector <= LastSector
      BY <1>1, CursorBounds
    <2>2. flash' \in [Sector -> Content] /\ (sector > max_sector => ~ ok)
      <3>1. flash \in [Sector -> Content] /\ Filled \in Seq(Byte) /\ Filled # <<>>
        BY <1>1, <1>5, FilledFits DEF RegionTypeOK
      <3>2. PICK b \in Seq(Byte) : b = Filled
        BY <3>1
      <3> QED BY <1>5, <2>1, <3>1, <3>2, FlushEffect
    <2>3. sector' \in Nat /\ sector' >= sector /\ (sector <= max_sector + 1 => sector' <= max_sector + 1)
      BY <1>5, <2>1, <2>2 DEF After
    <2>4. call' \in [op : Op, data : Seq(Byte), result : BOOLEAN] /\ call'.op \in {"none", "write"}
      BY <1>1, <1>5, FilledFits DEF Op
    <2>5. RegionTypeOK'
      BY <1>1, <1>5, <2>2, <2>3, <2>4 DEF RegionTypeOK
    <2>6. CursorInRegion'
      BY <1>1, <2>1, <2>3 DEF CursorInRegion, RegionTypeOK, Region
    <2>7. BufferFits' /\ CallHasRegion'
      BY <1>1, <1>5, <2>4 DEF BufferFits, CallHasRegion
    <2> QED BY <1>2, <2>5, <2>6, <2>7
  <1> QED BY <1>4, <1>5 DEF WriteTurn

LEMMA ClosingRegion ==
  ASSUME RegionInv, NEW ok0 \in BOOLEAN, CloseTurn(ok0) \/ TruncateTurn(ok0)
  PROVE  RegionInv'
  <1> USE DEF RegionInv, Registered
  <1>1. call.op \in {"close", "truncate"} /\ UNCHANGED <<registry, protected, mode>>
    BY DEF CloseTurn, TruncateTurn
  <1>2. RegistryOnChip'
    BY <1>1 DEF RegistryOnChip
  <1>3. /\ buffer \in Seq(Byte) /\ open_region # NULL /\ mode = "WRITE"
        /\ call.result \in BOOLEAN /\ flash \in [Sector -> Content]
        /\ sector \in Nat /\ max_sector \in Nat
        /\ Len(buffer) <= SectorSize
    BY <1>1 DEF RegionTypeOK, CallHasRegion, BufferFits
  <1>4. ASSUME NEW ok1 \in BOOLEAN, CloseTurn(ok1) PROVE RegionInv'
    <2>1. PICK ok \in BOOLEAN : /\ Flush(buffer, ok) /\ sector' = After(buffer, ok)
                                /\ call' = [op |-> "truncate", data |-> <<>>, result |-> ok]
      BY <1>4 DEF CloseTurn
    <2>2. PICK b \in Seq(Byte) : b = buffer
      BY <1>3
    <2>3. /\ flash' \in [Sector -> Content] /\ sector' \in Nat /\ sector' >= sector
          /\ sector <= max_sector + 1 => sector' <= max_sector + 1
      BY <1>1, <2>1, <2>2, FlushInCall
    <2>4. call' \in [op : Op, data : Seq(Byte), result : BOOLEAN]
      BY <2>1 DEF Op
    <2>5. UNCHANGED <<open_region, max_sector>> /\ buffer' = ZeroSector
      BY <1>4 DEF CloseTurn
    <2>6. RegionTypeOK'
      BY <1>1, <2>3, <2>4, <2>5, ZeroSectorType DEF RegionTypeOK
    <2>7. CursorInRegion'
      BY <1>1, <1>3, <2>3, <2>5 DEF CursorInRegion, RegionTypeOK, Region
    <2>8. BufferFits' /\ CallHasRegion'
      BY <1>1, <1>3, <2>1, <2>5, ZeroSectorType DEF BufferFits, CallHasRegion
    <2> QED BY <1>2, <2>6, <2>7, <2>8
  <1>5. ASSUME NEW ok1 \in BOOLEAN, TruncateTurn(ok1) PROVE RegionInv'
    <2>1. CASE /\ Flush(buffer, TRUE) /\ sector' = After(buffer, TRUE) /\ buffer' = ZeroSector
               /\ UNCHANGED <<open_region, max_sector, call>>
      <3>2. PICK b \in Seq(Byte) : b = buffer
        BY <1>3
      <3>3. /\ flash' \in [Sector -> Content] /\ sector' \in Nat /\ sector' >= sector
            /\ sector <= max_sector + 1 => sector' <= max_sector + 1
        BY <1>1, <2>1, <3>2, FlushInCall
      <3>4. RegionTypeOK'
        BY <1>1, <2>1, <3>3, ZeroSectorType DEF RegionTypeOK
      <3>5. CursorInRegion'
        <4>1. UNCHANGED <<open_region, max_sector>>
          BY <2>1
        <4> QED BY <1>1, <1>3, <3>3, <4>1 DEF CursorInRegion, RegionTypeOK, Region
      <3>6. BufferFits' /\ CallHasRegion'
        BY <1>1, <1>3, <2>1, ZeroSectorType DEF BufferFits, CallHasRegion
      <3> QED BY <1>2, <3>4, <3>5, <3>6
    <2>2. CASE /\ UNCHANGED flash \/ Flush(buffer, FALSE)
               /\ buffer' \in {buffer, ZeroSector} /\ Cleared
               /\ call' = [op |-> "none", data |-> <<>>, result |-> call.result]
      <3>1. flash' \in [Sector -> Content]
        <4>1. PICK b \in Seq(Byte) : b = buffer
          BY <1>3
        <4> QED BY <1>1, <1>3, <2>2, <4>1, FlushInCall
      <3>2. call' \in [op : Op, data : Seq(Byte), result : BOOLEAN]
        BY <1>3, <2>2 DEF Op
      <3>3. buffer' \in Seq(Byte) /\ Len(buffer') <= SectorSize
        BY <1>3, <2>2, ZeroSectorType
      <3>4. RegionTypeOK'
        BY <1>1, <2>2, <3>1, <3>2, <3>3 DEF RegionTypeOK, Cleared
      <3>5. CursorInRegion' /\ BufferFits' /\ CallHasRegion'
        BY <2>2, <3>3 DEF CursorInRegion, BufferFits, CallHasRegion, Cleared
      <3> QED BY <1>2, <3>4, <3>5
    <2> QED BY <1>5, <2>1, <2>2 DEF TruncateTurn
  <1> QED BY <1>4, <1>5

LEMMA TurnRegion ==
  ASSUME RegionInv, NEW ok \in BOOLEAN, Turn(ok)
  PROVE  RegionInv'
  BY WriteTurnRegion, ClosingRegion DEF Turn

LEMMA PowerLossRegion ==
  ASSUME RegionInv, PowerLoss, registry' \in [Registered' -> Region], Registered' \subseteq Name,
         RegistryOnChip', protected' \subseteq Name
  PROVE  RegionInv'
  <1> USE DEF RegionInv
  <1>1. /\ open_region' = NULL /\ sector' = 0 /\ max_sector' = 0 /\ mode' = "NONE"
        /\ buffer' = <<>> /\ call' = Idle
    BY DEF PowerLoss, Cleared
  <1>3. FlushedNow \in Seq(Byte) /\ (FlushedNow # <<>> => call.op # "none")
    <2>1. call.op \in Op /\ buffer \in Seq(Byte)
      BY DEF RegionTypeOK
    <2>2. CASE call.op = "write"
      BY <2>2, FilledFits DEF FlushedNow
    <2>3. CASE call.op \in {"close", "truncate"}
      BY <2>1, <2>3 DEF FlushedNow
    <2>4. CASE call.op = "none"
      BY <2>4 DEF FlushedNow
    <2> QED BY <2>1, <2>2, <2>3, <2>4 DEF Op
  <1>4. flash' \in [Sector -> Content]
    <2>1. flash \in [Sector -> Content]
      BY DEF RegionTypeOK
    <2>2. PICK b \in Seq(Byte) : b = FlushedNow
      BY <1>3
    <2>3. CASE UNCHANGED flash
      BY <2>1, <2>3
    <2>4. CASE \E ok \in BOOLEAN : Flush(FlushedNow, ok)
      <3>1. CASE FlushedNow = <<>>
        BY <2>1, <2>4, <3>1 DEF Flush
      <3>2. CASE FlushedNow # <<>>
        BY <1>3, <2>2, <2>4, <3>2, FlushInCall
      <3> QED BY <3>1, <3>2
    <2> QED BY <2>3, <2>4 DEF PowerLoss
  <1>5. RegionTypeOK'
    BY <1>1, <1>4, IdleType DEF RegionTypeOK, Mode
  <1> QED BY <1>1, <1>5 DEF CursorInRegion, BufferFits, CallHasRegion, Idle

-----------------------------------------------------------------------------
(* The first n bytes of F were handed over for the open region: they are, in  *)
(* this order, in the sectors behind the cursor, in the buffer, and in what   *)
(* is left of the running write.                                              *)

\* Where the i-th byte of the open region belongs, and that it is there.
Start == registry[open_region].start
At(i)  == Start + ((i - 1) \div SectorSize)
Pos(i) == ((i - 1) % SectorSize) + 1
Kept(F, i) == \/ At(i) \in SectorsOf(registry[open_region]) /\ flash[At(i)][Pos(i)] = F[i]
              \/ At(i) = 0 /\ Pos(i) = 2 /\ F[1] = Magic

\* The number of bytes behind the cursor.
Flushed == (sector - Start) * SectorSize

Passed(F, n) == \A i \in 1 .. n : Kept(F, i) /\ At(i) < sector

Delivering(F, n) ==
  /\ n = Flushed + Len(buffer) + Len(call.data)
  /\ Passed(F, Flushed)
  /\ \A j \in 1 .. Len(buffer) : buffer[j] = F[Flushed + j]
  /\ \A j \in 1 .. Len(call.data) : call.data[j] = F[Flushed + Len(buffer) + j]

\* Division by the size of a sector: the j-th byte of the k-th sector, and the sector
\* and the place of a byte.
LEMMA ByteOfSector ==
  ASSUME NEW k \in Nat, NEW j \in 1 .. SectorSize
  PROVE  /\ (k * SectorSize + j - 1) \div SectorSize = k
         /\ (k * SectorSize + j - 1) % SectorSize = j - 1
  OBVIOUS

LEMMA BytesOfSectors ==
  ASSUME NEW i \in Nat \ {0}
  PROVE  /\ (i - 1) \div SectorSize \in Nat
         /\ (i - 1) % SectorSize \in 0 .. SectorSize - 1
         /\ i - 1 = SectorSize * ((i - 1) \div SectorSize) + ((i - 1) % SectorSize)
  OBVIOUS

\* The cursor of an open region has passed whole sectors of it.
LEMMA FlushedBytes ==
  ASSUME RegionInv, open_region # NULL
  PROVE  /\ Start \in Nat /\ registry[open_region].sectors \in Nat
         /\ sector - Start \in Nat
         /\ Flushed \in Nat
         /\ sector = Start => Flushed = 0
  <1>1. /\ registry[open_region] \in Region /\ sector \in Nat
        /\ sector >= registry[open_region].start
    BY DEF RegionInv, CursorInRegion, RegionTypeOK
  <1>2. /\ Start \in Nat /\ registry[open_region].sectors \in Nat /\ sector - Start \in Nat
    BY <1>1 DEF Region, Start
  <1>3. \A k \in Nat : k * SectorSize \in Nat
    OBVIOUS
  <1> QED BY <1>2, <1>3 DEF Flushed

\* The j-th byte of the sector under the cursor.
LEMMA NextBytes ==
  ASSUME RegionInv, open_region # NULL, NEW j \in 1 .. SectorSize
  PROVE  At(Flushed + j) = sector /\ Pos(Flushed + j) = j
  <1> DEFINE k == sector - Start
  <1>1. k \in Nat /\ Start \in Nat /\ sector \in Nat
    BY FlushedBytes, CursorBounds
  <1>2. Flushed = k * SectorSize
    BY DEF Flushed
  <1>3. /\ (k * SectorSize + j - 1) \div SectorSize = k
        /\ (k * SectorSize + j - 1) % SectorSize = j - 1
    BY <1>1, ByteOfSector
  <1>4. Start + k = sector
    BY <1>1
  <1> QED BY <1>2, <1>3, <1>4 DEF At, Pos

\* A step that writes nothing, or the sector under the cursor.
FlashUnderCursor == UNCHANGED flash \/ \E c \in Content : flash' = [flash EXCEPT ![sector] = c]

\* A byte kept behind the cursor stays on the chip: what is written goes under the cursor.
LEMMA KeptOnChip ==
  ASSUME RegionInv, open_region # NULL, NEW F, NEW i \in Nat \ {0}, Kept(F, i), At(i) < sector,
         FlashUnderCursor
  PROVE  /\ \/ At(i) \in SectorsOf(registry[open_region]) /\ flash'[At(i)][Pos(i)] = F[i]
            \/ At(i) = 0 /\ Pos(i) = 2 /\ F[1] = Magic
         /\ At(i) \in Nat
  <1>1. At(i) # sector /\ At(i) \in Nat
    <2>1. sector \in Nat /\ Start \in Nat
      BY FlushedBytes, CursorBounds
    <2>2. (i - 1) \div SectorSize \in Nat
      BY BytesOfSectors
    <2> QED BY <2>1, <2>2 DEF At
  <1>2. CASE At(i) \in SectorsOf(registry[open_region]) /\ flash[At(i)][Pos(i)] = F[i]
    <2>1. flash'[At(i)] = flash[At(i)]
      <3>1. flash \in [Sector -> Content]
        BY DEF RegionInv, RegionTypeOK
      <3>2. At(i) \in Sector
        BY <1>2, FlushedBytes DEF RegionInv, CursorInRegion, RegistryOnChip, SectorsOf, Sector, Start
      <3> QED BY <1>1, <3>1, <3>2 DEF FlashUnderCursor
    <2> QED BY <1>1, <1>2, <2>1
  <1>3. CASE At(i) = 0 /\ Pos(i) = 2 /\ F[1] = Magic
    BY <1>1, <1>3
  <1> QED BY <1>2, <1>3 DEF Kept

\* All bytes behind the cursor stay there, whatever is added to them.
LEMMA PassedStays ==
  ASSUME RegionInv, open_region # NULL, NEW F, NEW G, NEW n \in Nat, Passed(F, n),
         registry'[open_region] = registry[open_region], open_region' = open_region,
         \A i \in 1 .. n : G[i] = F[i], FlashUnderCursor, sector' \in Nat, sector' >= sector
  PROVE  Passed(G, n)'
  <1> SUFFICES ASSUME NEW i \in 1 .. n PROVE Kept(G, i)' /\ At(i)' < sector'
    BY DEF Passed
  <1>1. Kept(F, i) /\ At(i) < sector /\ i \in Nat \ {0} /\ G[i] = F[i] /\ G[1] = F[1]
    BY DEF Passed
  <1>2. At(i)' = At(i) /\ Pos(i)' = Pos(i) /\ SectorsOf(registry[open_region])' = SectorsOf(registry[open_region])
    BY DEF At, Pos, Start, SectorsOf
  <1>3. /\ \/ At(i) \in SectorsOf(registry[open_region]) /\ flash'[At(i)][Pos(i)] = F[i]
           \/ At(i) = 0 /\ Pos(i) = 2 /\ F[1] = Magic
        /\ At(i) \in Nat /\ sector \in Nat
    BY <1>1, KeptOnChip, CursorBounds
  <1>4. Kept(G, i)'
    BY <1>1, <1>2, <1>3 DEF Kept
  <1> QED BY <1>1, <1>2, <1>3, <1>4

\* Every flush writes under the cursor or nothing.
LEMMA FlushUnderCursor ==
  ASSUME RegionInv, open_region # NULL, NEW b \in Seq(Byte), NEW ok \in BOOLEAN, Flush(b, ok)
  PROVE  FlashUnderCursor /\ (b # <<>> /\ sector > max_sector => ~ ok)
  <1>1. sector \in Nat /\ max_sector \in Nat /\ max_sector <= LastSector
    BY CursorBounds
  <1>2. flash \in [Sector -> Content]
    BY DEF RegionInv, RegionTypeOK
  <1> QED BY <1>1, <1>2, FlushEffect DEF FlashUnderCursor

LEMMA TurnUnderCursor ==
  ASSUME RegionInv, NEW ok \in BOOLEAN, Turn(ok)
  PROVE  FlashUnderCursor
  <1>1. open_region # NULL /\ call.op # "none" /\ buffer \in Seq(Byte)
    BY DEF Turn, WriteTurn, CloseTurn, TruncateTurn, RegionInv, CallHasRegion, RegionTypeOK
  <1>2. CASE UNCHANGED flash
    BY <1>2 DEF FlashUnderCursor
  <1>3. CASE Flush(buffer, ok)
    <2>1. PICK b \in Seq(Byte) : b = buffer
      BY <1>1
    <2> QED BY <1>1, <1>3, <2>1, FlushUnderCursor
  <1>4. CASE call.op = "write" /\ Flush(Filled, ok)
    <2>1. PICK b \in Seq(Byte) : b = Filled
      BY <1>4, FilledFits
    <2> QED BY <1>1, <1>4, <2>1, FlushUnderCursor
  <1> QED BY <1>2, <1>3, <1>4 DEF Turn, WriteTurn, CloseTurn, TruncateTurn

-----------------------------------------------------------------------------
(* One lemma per operation: what was handed over stays so. *)

LEMMA OpenDelivers ==
  ASSUME RegionInv, NEW n, Open(n), call.data = <<>>, NEW F
  PROVE  Delivering(F, 0)'
  <1>1. /\ open_region' = n /\ sector' = registry[n].start /\ buffer' = <<>>
        /\ registry' = registry /\ registry[n].start \in Nat /\ call'.data = <<>>
    BY DEF Open, CanOpen, RegionInv, RegionTypeOK, Region
  <1>2. Flushed' = 0
    BY <1>1 DEF Flushed, Start
  <1>3. Passed(F, 0)'
    BY DEF Passed
  <1>4. Len(buffer') = 0 /\ Len(call'.data) = 0
    BY <1>1
  <1> QED BY <1>1, <1>2, <1>3, <1>4 DEF Delivering

\* A step that leaves the open region alone.
LEMMA QuietDelivers ==
  ASSUME RegionInv, open_region # NULL, NEW F, NEW G, NEW n, Delivering(F, n),
         open_region' = open_region, registry'[open_region] = registry[open_region],
         UNCHANGED <<sector, buffer, flash>>, call'.data = call.data,
         \A i \in 1 .. n : G[i] = F[i]
  PROVE  Delivering(G, n)'
  <1>1. /\ Flushed \in Nat /\ buffer \in Seq(Byte) /\ call.data \in Seq(Byte) /\ sector \in Nat
    BY FlushedBytes, CursorBounds DEF RegionInv, RegionTypeOK
  <1>2. Flushed' = Flushed
    BY DEF Flushed, Start
  <1>3. /\ n = Flushed + Len(buffer) + Len(call.data)
        /\ \A j \in 1 .. Len(buffer) : buffer[j] = F[Flushed + j]
        /\ \A j \in 1 .. Len(call.data) : call.data[j] = F[Flushed + Len(buffer) + j]
        /\ Passed(F, Flushed)
    BY DEF Delivering
  <1>4. PICK m \in Nat : m = Flushed
    BY <1>1
  <1>5. Passed(G, m)'
    <2>1. \A i \in 1 .. m : G[i] = F[i]
      BY <1>1, <1>3, <1>4
    <2>2. FlashUnderCursor /\ sector' \in Nat /\ sector' >= sector
      BY <1>1 DEF FlashUnderCursor
    <2> QED BY <1>3, <1>4, <2>1, <2>2, PassedStays
  <1>6. \A j \in 1 .. Len(buffer) : buffer[j] = G[Flushed + j]
    BY <1>1, <1>3
  <1>7. ASSUME NEW j \in 1 .. Len(call.data) PROVE call.data[j] = G[Flushed + Len(buffer) + j]
    <2>1. Flushed + Len(buffer) + j \in 1 .. n
      BY <1>1, <1>3
    <2> QED BY <1>3, <2>1
  <1> QED BY <1>2, <1>3, <1>4, <1>5, <1>6, <1>7 DEF Delivering

LEMMA WriteDelivers ==
  ASSUME RegionInv, NEW F, NEW G, NEW n, Delivering(F, n), call.data = <<>>,
         NEW data \in Seq(Byte), WriteBegin(data),
         \A i \in 1 .. n : G[i] = F[i],
         \A i \in 1 .. Len(data) : G[n + i] = data[i]
  PROVE  Delivering(G, n + Len(data))'
  <1>1. /\ UNCHANGED <<registry, open_region, sector, buffer, flash>>
        /\ open_region # NULL /\ call.op = "none" /\ call'.data = data
    BY DEF WriteBegin, CanWrite
  <1>2. /\ Flushed \in Nat /\ buffer \in Seq(Byte) /\ sector \in Nat
    BY <1>1, FlushedBytes, CursorBounds DEF RegionInv, RegionTypeOK
  <1>3. Flushed' = Flushed
    BY <1>1 DEF Flushed, Start
  <1>4. /\ n = Flushed + Len(buffer)
        /\ \A j \in 1 .. Len(buffer) : buffer[j] = F[Flushed + j]
        /\ Passed(F, Flushed)
    BY <1>2 DEF Delivering
  <1>5. PICK m \in Nat : m = Flushed
    BY <1>2
  <1>6. Passed(G, m)'
    <2>1. \A i \in 1 .. m : G[i] = F[i]
      BY <1>2, <1>4, <1>5
    <2>2. FlashUnderCursor /\ sector' \in Nat /\ sector' >= sector
      BY <1>1, <1>2 DEF FlashUnderCursor
    <2> QED BY <1>1, <1>4, <1>5, <2>1, <2>2, PassedStays
  <1>7. \A j \in 1 .. Len(buffer) : buffer[j] = G[Flushed + j]
    BY <1>2, <1>4
  <1> QED BY <1>1, <1>2, <1>3, <1>4, <1>5, <1>6, <1>7 DEF Delivering

LEMMA CloseBeginDelivers ==
  ASSUME RegionInv, open_region # NULL, NEW F, NEW n, Delivering(F, n), call.data = <<>>,
         CloseBegin, mode = "WRITE"
  PROVE  Delivering(F, n)'
  <1>1. UNCHANGED <<registry, open_region, sector, buffer, flash>> /\ call'.data = call.data
    BY DEF CloseBegin
  <1> QED BY <1>1, QuietDelivers

\* The cursor moves over a sector that was filled.
LEMMA FlushedMoves ==
  ASSUME RegionInv, open_region # NULL, UNCHANGED <<registry, open_region>>, sector' = sector + 1
  PROVE  Flushed' = Flushed + SectorSize
  <1> DEFINE k == sector - Start
  <1>1. k \in Nat /\ sector \in Nat /\ Start \in Nat
    BY FlushedBytes, CursorBounds
  <1>2. (k + 1) * SectorSize = k * SectorSize + SectorSize
    BY <1>1
  <1>3. sector' - Start' = k + 1
    BY <1>1 DEF Start
  <1> QED BY <1>2, <1>3 DEF Flushed

\* A flush that succeeds keeps the bytes it was given.
LEMMA FlushKeeps ==
  ASSUME RegionInv, open_region # NULL, NEW b \in Seq(Byte), b # <<>>, Len(b) <= SectorSize,
         Flush(b, TRUE), UNCHANGED <<registry, open_region>>, NEW F,
         \A j \in 1 .. Len(b) : b[j] = F[Flushed + j],
         NEW j \in 1 .. Len(b), NEW i, i = Flushed + j
  PROVE  Kept(F, i)' /\ At(i)' = sector
  <1> DEFINE c == Padded(b)
  <1>1. Len(b) \in Nat /\ Len(b) >= 1 /\ j \in 1 .. SectorSize /\ 1 \in 1 .. Len(b)
    OBVIOUS
  <1>2. At(i) = sector /\ Pos(i) = j /\ Flushed \in Nat /\ i \in Nat \ {0}
    BY <1>1, NextBytes, FlushedBytes
  <1>3. At(i)' = sector /\ Pos(i)' = j
    BY <1>2 DEF At, Pos, Start
  <1>4. /\ sector \in Nat /\ sector <= max_sector
        /\ flash' = [flash EXCEPT ![sector] = Patched(c)]
        /\ sector \in SectorsOf(registry[open_region])
    BY CursorBounds DEF Flush
  <1>5. flash \in [Sector -> Content] /\ sector \in Sector
    <2>1. sector \in Sector
      BY <1>4, CursorBounds DEF Sector
    <2> QED BY <2>1 DEF RegionInv, RegionTypeOK
  <1>6. flash'[sector] = Patched(c)
    BY <1>4, <1>5
  <1>7. c \in Content /\ c[j] = b[j] /\ c[1] = b[1]
    BY <1>1 DEF Padded, Content
  <1>8. CASE Patched(c)[j] = c[j]
    <2>1. flash'[At(i)'][Pos(i)'] = F[i]
      BY <1>3, <1>6, <1>7, <1>8
    <2>2. At(i)' \in SectorsOf(registry[open_region])'
      BY <1>3, <1>4 DEF SectorsOf
    <2> QED BY <1>3, <2>1, <2>2 DEF Kept
  <1>9. CASE sector = 0 /\ c[1] = Magic /\ j = 2
    <2>1. Flushed = 0
      BY <1>4, <1>9, FlushedBytes DEF SectorsOf, Start
    <2>2. F[1] = Magic
      <3>1. b[1] = F[Flushed + 1]
        BY <1>1
      <3>2. Flushed + 1 = 1
        BY <2>1
      <3> QED BY <1>7, <1>9, <3>1, <3>2
    <2> QED BY <1>3, <1>9, <2>2 DEF Kept
  <1>10. Patched(c)[j] = c[j] \/ (sector = 0 /\ c[1] = Magic /\ j = 2)
    BY <1>1, <1>7 DEF Patched, Content
  <1> QED BY <1>8, <1>9, <1>10

\* After a flush that succeeds, what was behind the cursor and what was flushed is kept
\* behind it.
LEMMA FlushDelivers ==
  ASSUME RegionInv, open_region # NULL, NEW F, Passed(F, Flushed), NEW b \in Seq(Byte), b # <<>>,
         Len(b) <= SectorSize,
         Flush(b, TRUE), UNCHANGED <<registry, open_region>>, sector' = sector + 1,
         \A j \in 1 .. Len(b) : b[j] = F[Flushed + j],
         NEW m \in Nat, m = Flushed + Len(b)
  PROVE  Passed(F, m)'
  <1>1. Flushed \in Nat /\ sector \in Nat
    BY FlushedBytes, CursorBounds
  <1>2. PICK k \in Nat : k = Flushed
    BY <1>1
  <1>3. Passed(F, k)'
    <2>1. FlashUnderCursor
      BY FlushUnderCursor
    <2> QED BY <1>1, <1>2, <2>1, PassedStays
  <1> SUFFICES ASSUME NEW i \in 1 .. m PROVE Kept(F, i)' /\ At(i)' < sector'
    BY DEF Passed
  <1>4. CASE i <= k
    BY <1>3, <1>4 DEF Passed
  <1>5. CASE i > k
    <2>1. PICK j \in 1 .. Len(b) : i = Flushed + j
      <3>1. i - k \in 1 .. Len(b) /\ i = k + (i - k)
        BY <1>1, <1>2, <1>5
      <3> QED BY <1>2, <3>1
    <2>2. Kept(F, i)' /\ At(i)' = sector
      BY <2>1, FlushKeeps
    <2> QED BY <1>1, <2>2
  <1> QED BY <1>4, <1>5

\* What a turn of a write has copied and what is left of it.
LEMMA TurnBytes ==
  ASSUME RegionInv, call.op = "write", NEW F, NEW n, Delivering(F, n)
  PROVE  /\ n = Flushed + Len(Filled) + Len(Rest)
         /\ \A j \in 1 .. Len(Filled) : Filled[j] = F[Flushed + j]
         /\ \A j \in 1 .. Len(Rest) : Rest[j] = F[Flushed + Len(Filled) + j]
         /\ Len(Filled) < SectorSize => Rest = <<>>
  <1> DEFINE k == CopyLen
             b == buffer
             d == call.data
  <1>1. /\ b \in Seq(Byte) /\ d \in Seq(Byte) /\ Len(b) < SectorSize /\ Flushed \in Nat
    BY FlushedBytes DEF RegionInv, RegionTypeOK, BufferFits, CallHasRegion
  <1>2. /\ k \in 0 .. Len(d) /\ Len(b) + k <= SectorSize
        /\ Len(b) + k < SectorSize => k = Len(d)
    BY <1>1 DEF CopyLen, Available
  <1>3. /\ SubSeq(d, 1, k) \in Seq(Byte) /\ Len(SubSeq(d, 1, k)) = k
        /\ \A j \in 1 .. k : SubSeq(d, 1, k)[j] = d[j]
    BY <1>1, <1>2
  <1>4. /\ SubSeq(d, k + 1, Len(d)) \in Seq(Byte) /\ Len(SubSeq(d, k + 1, Len(d))) = Len(d) - k
        /\ \A j \in 1 .. Len(d) - k : SubSeq(d, k + 1, Len(d))[j] = d[k + j]
    BY <1>1, <1>2
  <1>5. /\ Len(Filled) = Len(b) + k
        /\ \A j \in 1 .. Len(b) : Filled[j] = b[j]
        /\ \A j \in 1 .. k : Filled[Len(b) + j] = d[j]
    BY <1>1, <1>2, <1>3 DEF Filled
  <1>6. Len(Rest) = Len(d) - k /\ \A j \in 1 .. Len(Rest) : Rest[j] = d[k + j]
    BY <1>4 DEF Rest
  <1>7. n = Flushed + Len(Filled) + Len(Rest)
    <2>1. n = Flushed + Len(b) + Len(d)
      BY DEF Delivering
    <2>2. /\ Len(Filled) = Len(b) + k /\ Len(Rest) = Len(d) - k
          /\ Len(b) \in Nat /\ Len(d) \in Nat /\ k \in Nat /\ Flushed \in Nat
      BY <1>1, <1>2, <1>5, <1>6
    <2> HIDE DEF k, b, d
    <2> QED BY ONLY <2>1, <2>2
  <1>8. ASSUME NEW j \in 1 .. Len(Filled) PROVE Filled[j] = F[Flushed + j]
    <2>1. CASE j \in 1 .. Len(b)
      BY <1>5, <2>1 DEF Delivering
    <2>2. CASE j \notin 1 .. Len(b)
      <3>1. PICK m \in 1 .. k : j = Len(b) + m
        <4>1. j - Len(b) \in 1 .. k /\ j = Len(b) + (j - Len(b))
          BY <1>1, <1>2, <1>5, <2>2
        <4> QED BY <4>1
      <3>2. Filled[j] = d[m] /\ m \in 1 .. Len(d)
        BY <1>2, <1>5, <3>1
      <3>3. d[m] = F[Flushed + Len(b) + m]
        BY <3>2 DEF Delivering
      <3>4. Flushed + Len(b) + m = Flushed + j
        BY <1>1, <3>1
      <3> QED BY <3>2, <3>3, <3>4
    <2> QED BY <2>1, <2>2
  <1>9. ASSUME NEW j \in 1 .. Len(Rest) PROVE Rest[j] = F[Flushed + Len(Filled) + j]
    <2>1. Rest[j] = d[k + j] /\ k + j \in 1 .. Len(d)
      BY <1>2, <1>6
    <2>2. d[k + j] = F[Flushed + Len(b) + (k + j)]
      BY <2>1 DEF Delivering
    <2>3. Flushed + Len(b) + (k + j) = Flushed + Len(Filled) + j
      BY <1>1, <1>2, <1>5, <1>6
    <2> QED BY <2>1, <2>2, <2>3
  <1>10. Len(Filled) < SectorSize => Rest = <<>>
    BY <1>1, <1>2, <1>4, <1>5 DEF Rest
  <1> QED BY <1>7, <1>8, <1>9, <1>10

LEMMA WriteTurnDelivers ==
  ASSUME RegionInv, NEW F, NEW n \in Nat, Delivering(F, n), NEW ok \in BOOLEAN, WriteTurn(ok), call'.result
  PROVE  Delivering(F, n)'
  <1>1. /\ UNCHANGED <<registry, open_region, mode>>
        /\ call.op = "write" /\ open_region # NULL
    BY DEF WriteTurn, RegionInv, CallHasRegion
  <1>2. /\ n = Flushed + Len(Filled) + Len(Rest)
        /\ \A j \in 1 .. Len(Filled) : Filled[j] = F[Flushed + j]
        /\ \A j \in 1 .. Len(Rest) : Rest[j] = F[Flushed + Len(Filled) + j]
        /\ Len(Filled) < SectorSize => Rest = <<>>
    BY <1>1, TurnBytes
  <1>3. /\ Filled \in Seq(Byte) /\ Rest \in Seq(Byte) /\ Len(Filled) <= SectorSize
        /\ Flushed \in Nat /\ sector \in Nat
    BY <1>1, FilledFits, FlushedBytes, CursorBounds
  <1>4. Passed(F, Flushed)
    BY DEF Delivering
  <1>5. CASE Len(Filled) < SectorSize
    <2>1. buffer' = Filled /\ call' = Idle /\ UNCHANGED <<flash, sector>>
      BY <1>3, <1>5 DEF WriteTurn
    <2>2. call'.data = <<>> /\ Rest = <<>>
      BY <1>2, <1>5, <2>1 DEF Idle
    <2>3. Flushed' = Flushed
      BY <1>1, <2>1 DEF Flushed, Start
    <2>4. PICK k \in Nat : k = Flushed
      BY <1>3
    <2>5. Passed(F, k)'
      <3>1. FlashUnderCursor
        BY <2>1 DEF FlashUnderCursor
      <3> QED BY <1>1, <1>3, <1>4, <2>1, <2>4, <3>1, PassedStays
    <2>6. n = Flushed' + Len(buffer') + Len(call'.data)
      BY <1>2, <1>3, <2>1, <2>2, <2>3
    <2>7. /\ \A j \in 1 .. Len(buffer') : buffer'[j] = F[Flushed' + j]
          /\ \A j \in 1 .. Len(call'.data) : call'.data[j] = F[Flushed' + Len(buffer') + j]
      BY <1>2, <2>1, <2>2, <2>3
    <2> QED BY <2>3, <2>4, <2>5, <2>6, <2>7 DEF Delivering
  <1>6. CASE Len(Filled) = SectorSize
    <2>1. /\ Flush(Filled, ok) /\ sector' = After(Filled, ok) /\ buffer' = <<>>
          /\ call' = IF ok /\ Rest # <<>> THEN [op |-> "write", data |-> Rest, result |-> TRUE]
                     ELSE [op |-> "none", data |-> <<>>, result |-> ok]
      <3>1. ~ (Len(Filled) < SectorSize)
        BY <1>3, <1>6
      <3> QED BY <3>1 DEF WriteTurn
    <2>2. ok = TRUE
      BY <2>1
    <2>3. Filled # <<>> /\ sector' = sector + 1 /\ call'.data = Rest
      BY <1>6, <2>1, <2>2 DEF After
    <2>4. Flushed' = Flushed + SectorSize /\ Flushed' \in Nat
      BY <1>1, <1>3, <2>3, FlushedMoves
    <2>5. PICK b \in Seq(Byte) : b = Filled
      BY <1>3
    <2>6. PICK m \in Nat : m = Flushed'
      BY <2>4
    <2>7. Passed(F, m)'
      <3>1. m = Flushed + Len(b) /\ b # <<>> /\ Len(b) <= SectorSize
        BY <1>6, <2>3, <2>4, <2>5, <2>6
      <3>3. Flush(b, TRUE)
        BY <2>1, <2>2, <2>5
      <3>2. \A j \in 1 .. Len(b) : b[j] = F[Flushed + j]
        BY <1>2, <2>5
      <3> QED BY <1>1, <1>4, <2>3, <3>1, <3>2, <3>3, FlushDelivers
    <2>8. Len(buffer') = 0 /\ Len(Rest) \in Nat
      BY <1>3, <2>1
    <2>9. n = Flushed' + Len(buffer') + Len(call'.data)
      BY <1>2, <1>3, <1>6, <2>3, <2>4, <2>8
    <2>10. \A j \in 1 .. Len(buffer') : buffer'[j] = F[Flushed' + j]
      BY <2>1
    <2>11. \A j \in 1 .. Len(call'.data) : call'.data[j] = F[Flushed' + Len(buffer') + j]
      <3>1. \A j \in 1 .. Len(Rest) : Rest[j] = F[Flushed' + j]
        BY <1>2, <1>6, <2>4
      <3>2. Flushed' + Len(buffer') = Flushed'
        BY <2>4, <2>8
      <3> QED BY <2>3, <3>1, <3>2
    <2> QED BY <2>6, <2>7, <2>9, <2>10, <2>11 DEF Delivering
  <1> QED BY <1>3, <1>5, <1>6

\* A close flushes what the buffer holds, and then every byte is behind the cursor.
LEMMA CloseTurnDelivers ==
  ASSUME RegionInv, NEW F, NEW n \in Nat, Delivering(F, n), call.data = <<>>,
         NEW ok \in BOOLEAN, CloseTurn(ok), call'.result
  PROVE  Passed(F, n)'
  <1>1. /\ UNCHANGED <<registry, open_region>> /\ open_region # NULL
        /\ Flush(buffer, TRUE) /\ sector' = After(buffer, TRUE)
    <2>1. Flush(buffer, ok) /\ sector' = After(buffer, ok) /\ call'.result = ok
      BY DEF CloseTurn
    <2>2. ok = TRUE
      BY <2>1
    <2> QED BY <2>1, <2>2 DEF CloseTurn, RegionInv, CallHasRegion
  <1>2. PICK b \in Seq(Byte) : b = buffer
    BY DEF RegionInv, RegionTypeOK
  <1>3. Flushed \in Nat /\ Len(b) \in Nat /\ Len(b) <= SectorSize /\ sector \in Nat
    BY <1>1, <1>2, FlushedBytes, CursorBounds DEF RegionInv, BufferFits
  <1>4. n = Flushed + Len(b) /\ Passed(F, Flushed) /\ \A j \in 1 .. Len(b) : b[j] = F[Flushed + j]
    BY <1>2, <1>3 DEF Delivering
  <1>5. CASE b = <<>>
    <2>1. n = Flushed /\ sector' = sector /\ flash' = flash
      BY <1>1, <1>2, <1>3, <1>4, <1>5 DEF Flush, After
    <2>2. Passed(F, n) /\ FlashUnderCursor
      BY <1>4, <2>1 DEF FlashUnderCursor
    <2>3. sector' \in Nat /\ sector' >= sector
      BY ONLY <1>3, <2>1
    <2>4. registry'[open_region] = registry[open_region]
      BY <1>1, Zenon
    <2> QED BY <1>1, <2>2, <2>3, <2>4, PassedStays
  <1>6. CASE b # <<>>
    <2>1. sector' = sector + 1 /\ Flush(b, TRUE)
      BY <1>1, <1>2, <1>6 DEF After
    <2> QED BY <1>1, <1>3, <1>4, <1>6, <2>1, FlushDelivers
  <1> QED BY <1>5, <1>6

\* Zeroing the rest of the region leaves what is behind the cursor.
LEMMA TruncateTurnDelivers ==
  ASSUME RegionInv, NEW F, NEW n \in Nat, Passed(F, n), NEW ok \in BOOLEAN, TruncateTurn(ok),
         open_region' # NULL
  PROVE  Passed(F, n)'
  <1>1. /\ UNCHANGED <<registry, open_region>>
        /\ sector' = After(buffer, TRUE) /\ open_region # NULL
    BY DEF TruncateTurn, Cleared, RegionInv, CallHasRegion
  <1>2. sector \in Nat /\ sector' \in Nat /\ sector' >= sector
    BY <1>1, CursorBounds DEF After
  <1>3. FlashUnderCursor
    BY TurnUnderCursor DEF Turn
  <1> QED BY <1>1, <1>2, <1>3, PassedStays
=============================================================================
