----------------------------- MODULE FlashUpload -----------------------------
(***************************************************************************)
(* The firmware upgrade: a client posts images, packet by packet; the      *)
(* handler of user_config.c feeds them to the stream parser of             *)
(* user_flash.c, which opens regions and writes them through FlashRegion;  *)
(* when the last packet was accepted a timer restarts the device into the  *)
(* other image.  The build is the Makefile's default, SSL = 0, where the   *)
(* firmware handler is the only user of the stream.                        *)
(*                                                                         *)
(* The body of a request is a sequence of bytes: Json (the JSON text and   *)
(* its terminating zero), then for each file its name, Delim, the digits   *)
(* of its size, Delim, its content (app/lib.js:684-694).  A name is one    *)
(* Byte here.  Packets split the body anywhere between two Bytes.          *)
(***************************************************************************)
EXTENDS FlashRegion

CONSTANTS
  Table,        \* the regions registered by user_config_init
  BinName,      \* BinName[1], BinName[2]: the regions of the two images
  Delim,        \* FLASH_STREAM_DELIMITER
  Json,         \* the text before the files
  Junk,         \* what a read past the end of a packet may find
  Digit,        \* the digit characters, with the number each stands for
  MaxMeta,      \* FLASH_STREAM_MAX_META
  Upload,       \* the lists of files a client may post: [name, size]
  MaxBody,      \* bound: bytes in the longest body
  HeaderOnly,   \* whether a first packet may carry the HTTP header alone
  MaxUploads,   \* bound: uploads in a behaviour
  MaxFaults     \* bound: sectors the chip fails to erase or write

TableRange(r) == SectorsOf(Table[r])

ASSUME TableAssumption ==
  /\ DOMAIN Table \subseteq Name /\ Table \in [DOMAIN Table -> Region]
  /\ \A r \in DOMAIN Table : /\ Table[r].sectors >= 1
                             /\ Table[r].start + Table[r].sectors - 1 <= LastSector
  /\ \A r, q \in DOMAIN Table : r # q => TableRange(r) \intersect TableRange(q) = {}
ASSUME BinAssumption ==
  BinName[1] \in DOMAIN Table /\ BinName[2] \in DOMAIN Table /\ BinName[1] # BinName[2]

VARIABLES
  \* flash_stream_data
  state,      \* flash_stream_state
  name,       \* flash_stream_name
  size_str,   \* flash_stream_size_str
  size,       \* flash_stream_size
  global_pos, \* flash_stream_global_pos
  input,      \* what is left of the packet being parsed
  pc,         \* where flash_stream_data is: "idle" when nothing runs
  \* config_stream_chunk
  first, success,
  last,       \* the packet being parsed is the last of its request
  \* the upgrade
  current,    \* the image that runs: system_upgrade_userbin_check() + 1
  flag,       \* the SDK's upgrade flag
  end_timer,  \* the pending config_stream_end and its argument, or "none"
  reboot_timer,
  \* the client
  sending,    \* a request is under way
  body,       \* what is left to send of it
  \* history
  upload,     \* the files of the latest request, and its number
  excused,    \* it may fail: too large, for the wrong image, in pieces, or the chip failed
  refused,    \* requests in a row that failed without an excuse
  faults

streamVars == <<state, name, size_str, size, global_pos>>
chunkVars  == <<first, success, last>>
bootVars   == <<current, flag, end_timer, reboot_timer>>
clientVars == <<sending, body>>
historyVars == <<upload, excused, refused, faults>>
vars == <<regionVars, streamVars, input, pc, chunkVars, bootVars, clientVars, historyVars>>

Current == BinName[current]
Other   == BinName[3 - current]      \* config_firmware_upgrade_bin

-----------------------------------------------------------------------------
(* The client's side of a request *)

\* The digits of n in base Base, without leading zeros.
Base == 2
Numeral(n) ==
  LET Char(v)  == CHOOSE d \in DOMAIN Digit : Digit[d] = v
      width    == CHOOSE w \in 1 .. 4 : Base ^ w > n /\ (w = 1 \/ Base ^ (w - 1) <= n)
  IN  [i \in 1 .. width |-> Char((n \div Base ^ (width - i)) % Base)]

\* Every image starts with Magic; the rest tells uploads and positions apart.
FileBytes(u, f) == [i \in 1 .. f.size |-> IF i = 1 THEN Magic ELSE <<u, i>>]

FileText(u, f) == <<f.name, Delim>> \o Numeral(f.size) \o <<Delim>> \o FileBytes(u, f)

\* The body up to the end of the i-th file.
Texts(u, files) ==
  LET text[i \in 0 .. Len(files)] == IF i = 0 THEN <<Json>> ELSE text[i - 1] \o FileText(u, files[i])
  IN  text

BodyOf(u, files) == Texts(u, files)[Len(files)]

Fits(f) == f.size <= SectorSize * Table[f.name].sectors

-----------------------------------------------------------------------------
Fresh ==
  /\ Reset
  /\ state = "DONE" /\ name = <<>> /\ size_str = <<>> /\ size = 0 /\ global_pos = 0
  /\ input = <<>> /\ pc = "idle"
  /\ first = TRUE /\ success = TRUE /\ last = FALSE
  /\ end_timer = "none" /\ reboot_timer = FALSE
  /\ sending = FALSE /\ body = <<>>

Init ==
  /\ registry = Table
  /\ protected = {}
  /\ flash = [s \in Sector |-> BlankSector]
  /\ Fresh
  /\ current = 1
  /\ flag = "IDLE"
  /\ upload = [files |-> <<>>, id |-> 0]
  /\ excused = FALSE
  /\ refused = 0
  /\ faults = 0

CanInitDone == state = "DONE"     \* mutant: a stream that failed is not taken up again

(* flash_stream_init *)
CanInit == state \in {"DONE", "ERROR"}

NewStream ==
  /\ state' = "NAME" /\ name' = <<>> /\ size_str' = <<>> /\ size' = 0 /\ global_pos' = 0

\* Mutant: the timer's argument is not the result.
ChunkEndUnread(result, isLast) ==
  /\ success' = result
  /\ pc' = "idle"
  /\ input' = <<>>
  /\ first' = isLast
  /\ end_timer' = IF isLast THEN "ok" ELSE "none"
  /\ UNCHANGED refused

(* The end of config_stream_chunk: what the parser returned, and, after the *)
(* last packet, the timer of config_stream_end.                             *)
ChunkEnd(result, isLast) ==
  /\ success' = result
  /\ pc' = "idle"
  /\ input' = <<>>
  /\ first' = isLast
  /\ end_timer' = IF isLast THEN (IF result THEN "ok" ELSE "failed") ELSE "none"
  /\ refused' = IF result \/ excused' THEN 0 ELSE refused + 1

\* config_stream_chunk with a packet's data: the first packet of a request skips
\* the JSON and starts a stream, and the parser runs unless the request failed.
\* No timer is left when it does, or when the handler called: clearAllTimers.
Chunk(data, starts, isLast) ==
  LET ok == IF starts THEN CanInit ELSE success
  IN  /\ last' = isLast
      /\ IF ~ starts THEN UNCHANGED streamVars
         ELSE IF CanInit THEN NewStream
         ELSE state' = "ERROR" /\ UNCHANGED <<name, size_str, size, global_pos>>
      /\ IF ok
         THEN /\ success' = TRUE
              /\ first' = FALSE
              /\ input' = IF starts THEN Tail(data) ELSE data
              /\ pc' = "parse"
              /\ end_timer' = "none"
              /\ UNCHANGED refused
         ELSE ChunkEnd(FALSE, isLast)

-----------------------------------------------------------------------------
StartsFirst(chunk) == first        \* mutant: chunk 0 does not start a stream
Starts(chunk) == first \/ chunk = 0

\* Mutant: the two names swapped.
GuardedSwapped == (protected \union {Other}) \ {Current}
Guarded == (protected \union {Current}) \ {Other}

(* config_firmware_handler, with the first packet of a request in hand: k    *)
(* bytes of its body, all of them when the request is short enough for the   *)
(* server to put together before it calls.                                   *)
Post(files, k) ==
  LET text == BodyOf(upload.id + 1, files)
  IN  /\ pc = "idle" /\ ~ sending /\ upload.id < MaxUploads
      /\ k <= Len(text)
      /\ HeaderOnly \/ k > 0
      /\ upload' = [files |-> files, id |-> upload.id + 1]
      /\ excused' = ~ /\ k = Len(text)
                      /\ \A i \in DOMAIN files : files[i].name \in DOMAIN Table \ {Current} /\ Fits(files[i])
      /\ protected' = Guarded
      /\ flag' = "START"
      /\ reboot_timer' = FALSE
      /\ IF k > 0
         THEN Chunk(SubSeq(text, 1, k), Starts(0), k = Len(text))
         ELSE /\ end_timer' = "none"
              /\ UNCHANGED <<streamVars, input, pc, chunkVars, refused>>
      /\ body' = SubSeq(text, k + 1, Len(text))
      /\ sending' = (k < Len(text))
      /\ UNCHANGED <<registry, open_region, sector, max_sector, mode, buffer, flash, call,
                     current, faults>>

\* A later packet: the server hands it to the chunk callback.
Packet(k) ==
  /\ pc = "idle" /\ sending /\ k \in 1 .. Len(body)
  /\ UNCHANGED <<regionVars, current, flag, reboot_timer, upload, excused, faults>>
  /\ Chunk(SubSeq(body, 1, k), Starts(1), k = Len(body))
  /\ body' = SubSeq(body, k + 1, Len(body))
  /\ sending' = (k < Len(body))

\* The connection breaks: the server forgets the request, nobody tells the stream.
Abort ==
  /\ pc = "idle" /\ sending
  /\ sending' = FALSE /\ body' = <<>>
  /\ UNCHANGED <<regionVars, streamVars, input, pc, chunkVars, bootVars, historyVars>>

-----------------------------------------------------------------------------
(* flash_stream_data, one part of a packet per step *)

Return(result) ==
  /\ UNCHANGED <<last, current, flag, reboot_timer, clientVars, upload, excused, faults>>
  /\ ChunkEnd(result, last)

Continue ==
  UNCHANGED <<chunkVars, bootVars, clientVars, historyVars>>

\* flash_stream_meta reads at least one byte, past the packet if that is empty.
Read1 == IF input = <<>> THEN {<<Junk>>, <<Delim>>} ELSE {input}

\* The bytes of in before the first delimiter, or all of them.
Field(in) == SubSeq(in, 1, CHOOSE n \in 0 .. Len(in) :
                             /\ \A i \in 1 .. n : in[i] # Delim
                             /\ n < Len(in) => in[n + 1] = Delim)

Found(in)   == Len(Field(in)) < Len(in)
Behind(in)  == SubSeq(in, Len(Field(in)) + 2, Len(in))
TooLong(meta, in) == Len(meta) + Len(Field(in)) >= MaxMeta

\* strtoul: the number the leading digits stand for.
Number(str) ==
  LET n == CHOOSE m \in 0 .. Len(str) : /\ \A i \in 1 .. m : str[i] \in DOMAIN Digit
                                        /\ m < Len(str) => str[m + 1] \notin DOMAIN Digit
      value[i \in 0 .. n] == IF i = 0 THEN 0 ELSE Base * value[i - 1] + Digit[str[i]]
  IN  value[n]

\* What the parser tells apart is apart; a client posts each image once, an image has
\* content, and strtoul reads a size as the browser writes it.
ASSUME TokenAssumption ==
  /\ Delim \notin DOMAIN Digit
  /\ Json \notin {Zero, Blank}
ASSUME BoundAssumption == MaxUploads \in Nat
ASSUME UploadAssumption ==
  \A files \in Upload :
    /\ files \in Seq([name : Byte \ {Delim}, size : Nat \ {0}]) /\ files # <<>>
    /\ \A i, j \in DOMAIN files : i # j => files[i].name # files[j].name
    /\ \A i \in DOMAIN files, u \in 1 .. MaxUploads : FileBytes(u, files[i]) \in Seq(Byte \ {Json})
ASSUME NumeralAssumption ==
  \A files \in Upload : \A i \in DOMAIN files :
    LET digits == Numeral(files[i].size)
    IN  digits \in Seq(DOMAIN Digit) /\ digits # <<>> /\ Number(digits) = files[i].size
\* A name, and the size of a file that fits, are shorter than FLASH_STREAM_MAX_META.
ASSUME MetaAssumption ==
  /\ MaxMeta \in Nat /\ MaxMeta >= 2
  /\ \A files \in Upload : \A i \in DOMAIN files :
       files[i].name \in DOMAIN Table /\ Fits(files[i]) => Len(Numeral(files[i].size)) < MaxMeta

\* The region a name stands for; names of more or fewer Bytes match none.
Named(str) == IF Len(str) = 1 THEN str[1] ELSE NULL

MetaTooLong ==
  /\ pc = "parse"
  /\ \/ state = "NAME" /\ \E in \in Read1 : TooLong(name, in)
     \/ state = "SIZE" /\ TooLong(size_str, input)
  /\ state' = "ERROR"
  /\ UNCHANGED <<regionVars, name, size_str, size, global_pos>>
  /\ Return(FALSE)

ParseName ==
  /\ pc = "parse" /\ state = "NAME"
  /\ \E in \in Read1 :
       /\ ~ TooLong(name, in)
       /\ name' = name \o Field(in)
       /\ state' = IF Found(in) THEN "SIZE" ELSE "NAME"
       /\ IF Behind(in) = <<>>
          THEN Return(TRUE)
          ELSE input' = Behind(in) /\ UNCHANGED pc /\ Continue
  /\ UNCHANGED <<regionVars, size_str, size, global_pos>>

SizeField ==
  /\ pc = "parse" /\ state = "SIZE"
  /\ ~ TooLong(size_str, input)
  /\ size_str' = size_str \o Field(input)
  /\ size' = IF Found(input) THEN Number(size_str') ELSE size
  /\ UNCHANGED <<name, global_pos>>

\* The region is opened after every piece of the size field, the complete one or not.
ParseSize ==
  /\ SizeField
  /\ Open(Named(name))
  /\ state' = IF Found(input) THEN "DATA" ELSE "SIZE"
  /\ IF Behind(input) = <<>>
     THEN Return(TRUE)
     ELSE input' = Behind(input) /\ UNCHANGED pc /\ Continue

\* Mutant: the result of flash_region_open is not looked at.
SizeRefusedIgnored ==
  /\ SizeField
  /\ OpenRefused(Named(name))
  /\ state' = IF Found(input) THEN "DATA" ELSE "SIZE"
  /\ Return(TRUE)

SizeRefused ==
  /\ SizeField
  /\ OpenRefused(Named(name))
  /\ state' = "ERROR"
  /\ Return(FALSE)

\* A packet after the end of a stream that no packet started anew.
InvalidState ==
  /\ pc = "parse" /\ state \in {"DONE", "ERROR"}
  /\ UNCHANGED <<regionVars, streamVars>>
  /\ Return(FALSE)

WriteLen == IF global_pos + Len(input) >= size THEN size - global_pos ELSE Len(input)

StartWrite ==
  /\ pc = "parse" /\ state = "DATA"
  /\ WriteBegin(SubSeq(input, 1, WriteLen))
  /\ pc' = "write"
  /\ UNCHANGED <<streamVars, input>>
  /\ Continue

\* Mutant: the file that ends with its packet is not seen to end.
AtEndLate == global_pos' > size
AtEnd == global_pos' >= size

EndWrite ==
  /\ pc = "write" /\ call.op = "none"
  /\ IF ~ call.result
     THEN /\ state' = "ERROR"
          /\ UNCHANGED <<regionVars, global_pos>>
          /\ Return(FALSE)
     ELSE /\ global_pos' = global_pos + WriteLen
          /\ UNCHANGED state
          /\ IF AtEnd
             THEN /\ CloseBegin
                  /\ pc' = "close"
                  /\ input' = SubSeq(input, WriteLen + 1, Len(input))
                  /\ Continue
             ELSE UNCHANGED regionVars /\ Return(TRUE)
  /\ UNCHANGED <<name, size_str, size>>

\* The file is stored; what is left of the packet begins another one.
EndClose ==
  /\ pc = "close" /\ call.op = "none"
  /\ \/ /\ ~ call.result
        /\ state' = "ERROR"
        /\ UNCHANGED <<name, size_str, size, global_pos>>
        /\ Return(FALSE)
     \/ /\ call.result /\ input = <<>>
        /\ state' = "DONE"
        /\ global_pos' = 0
        /\ UNCHANGED <<name, size_str, size>>
        /\ Return(TRUE)
     \/ /\ call.result /\ input # <<>>
        /\ NewStream
        /\ pc' = "parse"
        /\ UNCHANGED input
        /\ Continue
  /\ UNCHANGED <<regionVars>>

\* The region layer at work; the chip may fail a flush.
Chip(ok) ==
  /\ pc \in {"write", "close"}
  /\ Turn(ok)
  /\ LET fault == ~ ok /\ sector <= max_sector
     IN  /\ faults' = IF fault THEN faults + 1 ELSE faults
         /\ excused' = (excused \/ fault)
  /\ faults' <= MaxFaults
  /\ UNCHANGED <<streamVars, input, pc, chunkVars, bootVars, clientVars, upload, refused>>

-----------------------------------------------------------------------------
(* The timers, and the end of a run *)

\* config_stream_end_firmware; the event it raises is the web server's matter.
StreamEnd ==
  /\ pc = "idle" /\ end_timer # "none"
  /\ IF end_timer = "ok"
     THEN reboot_timer' = TRUE /\ UNCHANGED flag
     ELSE flag' = "IDLE" /\ UNCHANGED reboot_timer
  /\ end_timer' = "none"
  /\ UNCHANGED <<regionVars, streamVars, input, pc, chunkVars, current, clientVars, historyVars>>

\* What a start of the device resets: memory, and with it the registered regions.
Boot ==
  /\ registry' = Table /\ protected' = {}
  /\ Cleared /\ mode' = "NONE" /\ buffer' = <<>> /\ call' = Idle
  /\ state' = "DONE" /\ name' = <<>> /\ size_str' = <<>> /\ size' = 0 /\ global_pos' = 0
  /\ input' = <<>> /\ pc' = "idle"
  /\ first' = TRUE /\ success' = TRUE /\ last' = FALSE
  /\ end_timer' = "none" /\ reboot_timer' = FALSE
  /\ sending' = FALSE /\ body' = <<>>
  /\ UNCHANGED historyVars

\* config_upgrade_reboot: system_upgrade_reboot starts the other image.
Reboot ==
  /\ pc = "idle" /\ reboot_timer
  /\ current' = 3 - current
  /\ flag' = "FINISH"
  /\ UNCHANGED flash
  /\ Boot

\* The boot loader starts the image that ran before.
Outage ==
  /\ PowerLoss
  /\ flag' = "IDLE"
  /\ UNCHANGED current
  /\ Boot

Parse ==
  MetaTooLong \/ ParseName \/ ParseSize \/ SizeRefused \/ InvalidState \/ StartWrite \/ EndWrite \/ EndClose

Next ==
  \/ \E files \in Upload, k \in 0 .. MaxBody : Post(files, k)
  \/ \E k \in 1 .. MaxBody : Packet(k)
  \/ Abort
  \/ Parse
  \/ \E ok \in BOOLEAN : Chip(ok)
  \/ StreamEnd
  \/ Reboot
  \/ Outage

Spec == Init /\ [][Next]_vars

-----------------------------------------------------------------------------
TypeOK ==
  /\ RegionTypeOK
  /\ state \in {"ERROR", "NAME", "SIZE", "DATA", "DONE"}
  /\ name \in Seq(Byte) /\ Len(name) < MaxMeta
  /\ size_str \in Seq(Byte) /\ Len(size_str) < MaxMeta
  /\ size \in Nat /\ global_pos \in 0 .. size
  /\ input \in Seq(Byte)
  /\ pc \in {"idle", "parse", "write", "close"}
  /\ {first, success, last, reboot_timer, sending, excused} \subseteq BOOLEAN
  /\ current \in 1 .. 2
  /\ flag \in {"IDLE", "START", "FINISH"}
  /\ end_timer \in {"none", "ok", "failed"}
  /\ body \in Seq(Byte)
  /\ upload.files \in Upload \union {<<>>} /\ upload.id \in 0 .. MaxUploads
  /\ refused \in Nat /\ faults \in 0 .. MaxFaults

\* Whatever the client posts, aborts and retries, whatever the chip and the power
\* do, no step changes a sector of the image that runs (flash_region_protect in
\* config_firmware_handler comes before every open).
RunningImageUntouched ==
  [][\A s \in TableRange(Current) : flash'[s] = flash[s]]_vars

\* Before the device restarts into the other image, every file of the request is
\* on the chip from the first byte to the last.
FileStored(f) ==
  \A i \in 1 .. f.size :
    LET s == Table[f.name].start + ((i - 1) \div SectorSize)
        b == ((i - 1) % SectorSize) + 1
    IN  (s = 0 /\ b = 2) \/ flash[s][b] = FileBytes(upload.id, f)[i]

CommitIsWhole ==
  end_timer = "ok" \/ reboot_timer =>
    \A i \in DOMAIN upload.files :
      Fits(upload.files[i]) /\ FileStored(upload.files[i])

\* A request that succeeded leaves no region open and no stream unfinished.
SuccessLeavesClosed ==
  end_timer = "ok" \/ reboot_timer => open_region = NULL /\ state = "DONE"

\* While a file's data is read its region is open for writing: flash_region_write
\* refuses for want of a region in no state the stream can be in.
DataHasRegion ==
  state = "DATA" /\ pc # "close" => open_region # NULL /\ mode # "READ"

\* No byte of the JSON text in front of the files is taken for a file's content
\* (config_stream_chunk: "skip JSON and file meta data").
JsonSkipped ==
  /\ \A s \in Sector : Json \notin {flash[s][b] : b \in 1 .. SectorSize}
  /\ \A i \in DOMAIN buffer : buffer[i] # Json

\* A stream an aborted request left behind costs at most two later requests: the
\* first ends the stream, the second closes the region, the third goes through.
RecoversAfterTwo == refused <= 2
=============================================================================
