----------------------------- MODULE FlashRegion -----------------------------
(***************************************************************************)
(* The flash region layer of user_flash.c: a table of named, disjoint      *)
(* sector ranges, at most one of which is open; one sector buffer that is  *)
(* written out when it fills, when the region is closed, and once more per *)
(* remaining sector when the region is truncated.                          *)
(*                                                                         *)
(* A byte of the program is a member of Byte.  A sector holds SectorSize   *)
(* of them (4096 in the program).  flash_region_write recurses and         *)
(* flash_region_truncate loops, one sector per turn: each turn is a step   *)
(* here, because the power may go between two sectors.                     *)
(***************************************************************************)
EXTENDS Integers, Sequences

CONSTANTS
  Name,         \* names a region may be registered or opened under
  Byte,         \* abstract bytes, with the three that the code knows:
  Zero,         \*   what os_memset fills the buffer with
  Blank,        \*   what an erased cell of the chip reads as
  Magic,        \*   0xE9, the first byte of an image
  SectorSize,   \* SPI_FLASH_SEC_SIZE
  LastSector,   \* the last sector of the chip
  W,            \* 2^16: sector numbers are uint16
  NULL

ASSUME ByteAssumption   == {Zero, Blank, Magic} \subseteq Byte
ASSUME SizeAssumption   == SectorSize \in Nat /\ SectorSize >= 2
ASSUME SectorAssumption == LastSector \in Nat /\ W \in Nat /\ LastSector < W
ASSUME NullAssumption   == NULL \notin Name

VARIABLES
  registry,     \* flash_regions: the registered names, each with its sectors
  protected,    \* the names whose region->protect is set
  open_region,  \* flash_open_region
  sector,       \* flash_sector
  max_sector,   \* flash_max_sector
  mode,         \* flash_mode
  buffer,       \* the first flash_buf_pos bytes of flash_buffer
  flash,        \* the chip
  call          \* the write, close or truncate in progress, and its result

regionVars == <<registry, protected, open_region, sector, max_sector, mode, buffer, flash, call>>

Sector  == 0 .. LastSector
Content == [1 .. SectorSize -> Byte]
Region  == [start : Nat, sectors : Nat]
Mode    == {"NONE", "READ", "WRITE"}
Op      == {"none", "write", "close", "truncate"}

Registered   == DOMAIN registry
End(r)       == (r.start + r.sectors - 1) % W     \* uint16 arithmetic
SectorsOf(r) == r.start .. (r.start + r.sectors - 1)
Idle         == [op |-> "none", data |-> <<>>, result |-> TRUE]

ZeroSector  == [i \in 1 .. SectorSize |-> Zero]
BlankSector == [i \in 1 .. SectorSize |-> Blank]

RegionTypeOK ==
  /\ Registered \subseteq Name
  /\ registry \in [Registered -> Region]
  /\ protected \in SUBSET Name
  /\ open_region \in Name \union {NULL}
  /\ sector \in Nat
  /\ max_sector \in Nat
  /\ mode \in Mode
  /\ buffer \in Seq(Byte)
  /\ flash \in [Sector -> Content]
  /\ call \in [op : Op, data : Seq(Byte), result : BOOLEAN]

\* The memory of the device at power-up.
Reset ==
  /\ open_region = NULL
  /\ sector = 0
  /\ max_sector = 0
  /\ mode = "NONE"
  /\ buffer = <<>>
  /\ call = Idle

-----------------------------------------------------------------------------
(* flash_region_register, flash_region_protect *)

\* Mutant: two ranges that share their border sector pass.
CollidesBorder(start, n, name) ==
  LET last == (start + n - 1) % W
  IN  /\ ~ (start >= End(registry[name]))
      /\ ~ (last <= registry[name].start)

\* The name of a registered region the sectors start .. start+n-1 meet.
Collides(start, n, name) ==
  LET last == (start + n - 1) % W
  IN  /\ ~ (start > End(registry[name]))
      /\ ~ (last < registry[name].start)

CanRegister(name, start, n) ==
  /\ \A r \in Registered : ~ Collides(start, n, r)
  /\ name \notin Registered

Register(name, start, n) ==
  /\ CanRegister(name, start, n)
  /\ registry' = [r \in Registered \union {name} |->
                    IF r = name THEN [start |-> start, sectors |-> n] ELSE registry[r]]
  /\ protected' = protected \ {name}
  /\ UNCHANGED <<open_region, sector, max_sector, mode, buffer, flash, call>>

\* A name that is not registered is refused and changes nothing.
Protect(name, state) ==
  /\ name \in Registered
  /\ protected' = IF state THEN protected \union {name} ELSE protected \ {name}
  /\ UNCHANGED <<registry, open_region, sector, max_sector, mode, buffer, flash, call>>

-----------------------------------------------------------------------------
(* flash_flush_buffer *)

\* Mutant: a buffer is written as it is.
PaddedNot(b) == b

Padded(b) == [i \in 1 .. SectorSize |-> IF i <= Len(b) THEN b[i] ELSE Zero]

\* Bytes 2 and 3 of sector 0 hold the flash settings: an image written there keeps them.
Patched(c) == IF sector = 0 /\ c[1] = Magic THEN [c EXCEPT ![2] = flash[0][2]] ELSE c

\* A sector whose write stopped after k bytes.
Torn(c, k) == [i \in 1 .. SectorSize |-> IF i <= k THEN c[i] ELSE Blank]

\* Mutant: no check of the region's last sector.
FlushUnchecked(b, ok) ==
  \/ b = <<>> /\ ok /\ UNCHANGED flash
  \/ b # <<>> /\ ok /\ flash' = [flash EXCEPT ![sector] = Patched(Padded(b))]
  \/ b # <<>> /\ ~ ok /\ UNCHANGED flash

\* The flush of buffer b, what it does to the chip and whether it succeeds: an
\* empty buffer goes nowhere; a sector past the region is refused; the chip may
\* fail to erase the sector, or to write it once erased.
Flush(b, ok) ==
  \/ /\ b = <<>> /\ ok
     /\ UNCHANGED flash
  \/ /\ b # <<>> /\ sector > max_sector /\ ~ ok
     /\ UNCHANGED flash
  \/ /\ b # <<>> /\ sector <= max_sector /\ ok
     /\ flash' = [flash EXCEPT ![sector] = Patched(Padded(b))]
  \/ /\ b # <<>> /\ sector <= max_sector /\ ~ ok
     /\ UNCHANGED flash
  \/ /\ b # <<>> /\ sector <= max_sector /\ ~ ok
     /\ \E k \in 0 .. SectorSize - 1 :
          flash' = [flash EXCEPT ![sector] = Torn(Patched(Padded(b)), k)]

After(b, ok) == IF b # <<>> /\ ok THEN sector + 1 ELSE sector

-----------------------------------------------------------------------------
(* flash_region_open, flash_region_clear *)

Cleared ==
  /\ open_region' = NULL
  /\ sector' = 0
  /\ max_sector' = 0

CanOpen(name) == open_region = NULL /\ name \in Registered /\ name \notin protected

Open(name) ==
  /\ CanOpen(name)
  /\ open_region' = name
  /\ mode' = "NONE"
  /\ sector' = registry[name].start
  /\ max_sector' = End(registry[name])
  /\ buffer' = <<>>
  /\ UNCHANGED <<registry, protected, flash, call>>

\* A second open closes the first region without writing; an unknown or
\* protected name is refused.
OpenRefused(name) ==
  /\ ~ CanOpen(name)
  /\ IF open_region # NULL
     THEN mode' = "NONE" /\ Cleared
     ELSE UNCHANGED <<open_region, sector, max_sector, mode>>
  /\ UNCHANGED <<registry, protected, buffer, flash, call>>

(* flash_region_read: the buffer is the returned pointer, flash_buf_pos stays. *)
CanRead == open_region # NULL /\ mode # "WRITE" /\ sector <= max_sector

Read(ok) ==
  /\ CanRead
  /\ mode' = "READ"
  /\ sector' = IF ok THEN sector + 1 ELSE sector
  /\ UNCHANGED <<registry, protected, open_region, max_sector, buffer, flash, call>>

-----------------------------------------------------------------------------
(* flash_region_write *)

CanWrite == open_region # NULL /\ mode # "READ"

WriteBegin(data) ==
  /\ call.op = "none"
  /\ CanWrite
  /\ mode' = "WRITE"
  /\ call' = [op |-> "write", data |-> data, result |-> TRUE]
  /\ UNCHANGED <<registry, protected, open_region, sector, max_sector, buffer, flash>>

\* One turn of the recursion fills the buffer, flushes it when full, and goes on
\* with the rest.
Available == SectorSize - Len(buffer)
CopyLen   == IF Available >= Len(call.data) THEN Len(call.data) ELSE Available
Filled    == buffer \o SubSeq(call.data, 1, CopyLen)
RestOffByOne == SubSeq(call.data, CopyLen + 2, Len(call.data))   \* mutant: a byte lost
Rest      == SubSeq(call.data, CopyLen + 1, Len(call.data))

\* Mutant: the buffer's position is not reset when the write ends with a full buffer.
WriteTurnKeeps(ok) ==
  /\ call.op = "write"
  /\ \/ /\ Len(Filled) < SectorSize /\ ok
        /\ UNCHANGED <<flash, sector>>
     \/ /\ Len(Filled) = SectorSize
        /\ Flush(Filled, ok)
        /\ sector' = After(Filled, ok)
  /\ buffer' = Filled
  /\ call' = Idle
  /\ UNCHANGED <<registry, protected, open_region, max_sector, mode>>

WriteTurn(ok) ==
  /\ call.op = "write"
  /\ \/ /\ Len(Filled) < SectorSize /\ ok
        /\ buffer' = Filled
        /\ call' = Idle
        /\ UNCHANGED <<flash, sector>>
     \/ /\ Len(Filled) = SectorSize
        /\ buffer' = <<>>
        /\ Flush(Filled, ok)
        /\ sector' = After(Filled, ok)
        /\ call' = IF ok /\ Rest # <<>>
                   THEN [op |-> "write", data |-> Rest, result |-> TRUE]
                   ELSE [op |-> "none", data |-> <<>>, result |-> ok]
  /\ UNCHANGED <<registry, protected, open_region, max_sector, mode>>

-----------------------------------------------------------------------------
(* flash_region_close, flash_region_truncate *)

CloseBegin ==
  /\ call.op = "none"
  /\ IF mode = "WRITE"
     THEN /\ call' = [op |-> "close", data |-> <<>>, result |-> TRUE]
          /\ UNCHANGED <<open_region, sector, max_sector>>
     ELSE /\ Cleared
          /\ call' = Idle
  /\ UNCHANGED <<registry, protected, mode, buffer, flash>>

\* What is left in the buffer goes out; then flash_buf_pos = flash_buf_size.
CloseTurn(ok) ==
  /\ call.op = "close"
  /\ Flush(buffer, ok)
  /\ sector' = After(buffer, ok)
  /\ call' = [op |-> "truncate", data |-> <<>>, result |-> ok]
  /\ buffer' = ZeroSector
  /\ UNCHANGED <<registry, protected, open_region, max_sector, mode>>

\* One turn of the loop that zeroes the rest of the region; the first failure
\* ends it, and is not reported.
TruncateTurn(ok) ==
  /\ call.op = "truncate"
  /\ \/ /\ sector <= max_sector /\ ok
        /\ Flush(buffer, ok)
        /\ sector' = After(buffer, ok)
        /\ buffer' = ZeroSector
        /\ UNCHANGED <<open_region, max_sector, call>>
     \/ /\ sector <= max_sector /\ ~ ok
        /\ Flush(buffer, ok)
        /\ buffer' = ZeroSector
        /\ Cleared
        /\ call' = [op |-> "none", data |-> <<>>, result |-> call.result]
     \/ /\ sector > max_sector /\ ok
        /\ Cleared
        /\ call' = [op |-> "none", data |-> <<>>, result |-> call.result]
        /\ UNCHANGED <<flash, buffer>>
  /\ UNCHANGED <<registry, protected, mode>>

Turn(ok) == WriteTurn(ok) \/ CloseTurn(ok) \/ TruncateTurn(ok)

\* The power goes: memory is lost, and the sector being flushed may be torn.
FlushedNow ==
  CASE call.op = "write" -> IF Len(Filled) = SectorSize THEN Filled ELSE <<>>
    [] call.op \in {"close", "truncate"} -> buffer
    [] OTHER -> <<>>

PowerLoss ==
  /\ Cleared
  /\ mode' = "NONE"
  /\ buffer' = <<>>
  /\ call' = Idle
  /\ UNCHANGED flash \/ \E ok \in BOOLEAN : Flush(FlushedNow, ok)

-----------------------------------------------------------------------------
(* What the layer keeps for a caller that follows its rules *)

\* While a region is open its cursor stays in it or just past its end, so the
\* uint16 arithmetic of flash_flush_buffer never reaches a sector of another.
CursorInRegion ==
  open_region # NULL =>
    /\ open_region \in Registered
    /\ sector >= registry[open_region].start
    /\ sector <= max_sector + 1
    /\ max_sector = registry[open_region].start + registry[open_region].sectors - 1

\* The buffer never holds more than a sector, and whenever a write may start or
\* runs there is room in it: `available = flash_buf_size - flash_buf_pos` does not underflow.
BufferFits ==
  /\ Len(buffer) <= SectorSize
  /\ open_region # NULL /\ call.op \in {"none", "write"} => Len(buffer) < SectorSize

\* A running call has its region, opened for writing.
CallHasRegion == call.op # "none" => open_region # NULL /\ mode = "WRITE"

\* What is registered lies on the chip.
RegistryOnChip ==
  \A r \in Registered : /\ registry[r].sectors >= 1
                        /\ registry[r].start + registry[r].sectors - 1 <= LastSector

\* All of it: the invariant the proofs carry from step to step.
RegionInv == RegionTypeOK /\ RegistryOnChip /\ CursorInRegion /\ BufferFits /\ CallHasRegion
=============================================================================
