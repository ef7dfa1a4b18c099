# Verification of the ESP8266 Olimex IoT firmware

This directory models the core of the firmware under `src/olimex` in TLA+, model-checks it with
TLC on small instances, and proves its most important properties with TLAPS for every value of the
constants. All source paths below are relative to the repository.

The firmware is single-threaded: the SDK calls it back for packets, sent data, connection changes
and timers, and each callback runs to its end. What makes it hard is that a unit of work (a
request, an upload, a socket's conversation, a report) spans many callbacks, that callbacks of
several connections and timers interleave, and that much state is `static`: one receiver for all
connections, one open flash region, one upload stream, one timer list. The device may lose power
between any two flash operations.

## The system's parts

| part | state | operations | talks to | hard because |
|---|---|---|---|---|
| flash regions (`user_flash.c` 13-322) | region list, open region, cursor, mode, sector buffer | register, protect, open, read, write, close | SPI flash | sectors are written one by one and the power may go; uint16 arithmetic at borders; mode and buffer survive a close |
| upload stream (`user_flash.c` 324-478, `user_config.c` 920-1089) | parser state, meta fields, position, `first`, `success`, upgrade flag | handler, chunk, stream end, reboot | web server, regions, timers | packets split anything anywhere; what an aborted request leaves behind; commit long after the check |
| timers (`user_timer.c`) | list of records, handle counter | setTimeout, setInterval, clear, clear all | every module | records are freed while their callback runs; handles go stale and wrap |
| HTTP receiver (`user_webserver.c`) | static receive state, chunk callback, connection queues | recv, request, connect, disconnect, reconnect | every handler | one receiver for three connections |
| WebSockets (`user_websocket.c`) | socket entries with queue and flags, keep-alive timers | upgrade, send, sent, recv, ping, close, broadcast | web server, events, timers | closing from both sides, silent peers, events to sockets in any state |
| web client (`user_webclient.c`) | request list, retry and disconnect timers | get, post, socket, DNS/connect/recv/disconnect callbacks | timers, WebSockets, events | time-outs racing answers, retries, a timer that cancels itself |
| events, long polls (`user_events.c`, `user_long_poll.c`) | waiting requests | raise, response, close all | all of the above | entries removed while the list is walked, and added by the answers |
| configuration, Wi-Fi (`user_config.c`, `mb_app_config.c`, `user_wifi_scan.c`) | configuration sectors, scan state | restore, load, store, scan | flash, SDK | erase before write, scans that fail |
| switches, relay, plug (`user_switch1.c`, `user_switch2.c`, `user_relay.c`, `user_plug.c`) | state and timers per output | set, toggle, timed on | timers, events | debounce, timed-off racing commands, a state that passes narrow types |
| digital pins (`mb_dio.c`) | type, state and timer per pin | settings, output, pulse, interrupt | events | one timer for filter, pulse and report |
| buttons, badge (`driver/key.c`, `user_badge.c`) | key state, chains of timers | interrupt, timers, texts, animations | events, SPI | interrupt against timer; several drawers, one display |
| I2C bus and its modules (`i2c_master.c`, `i2c_extention.c`, `modules/*.c`) | the two wires, one configuration per address | init, set, read, poll | events | a transfer that fails half-way, a restart in the middle of a byte |
| serial line (`uart.c`, `stdout.c`) | a line buffer, the last character, a listener | write, receive, flush | UART modules | statics shared by two ports and every writer |
| fingerprint link, EMTR link, tag reader (`modules/mod_finger.c`, `mod_emtr.c`, `mod_rfid.c`) | one packet, reply parser, resend timer, registers | send, receive byte, time-out | serial line | a late reply racing a time-out, registers written as a block |
| sensors, gauges (`mb_dht.c`, `mb_ping.c`, `mb_ain.c`, `user_battery.c`, `user_adc.c`, `ping.c`) | last reported values, counters, the echo's clock | timer, handler, interrupt | events | thresholds and refresh interplay, counters and clocks that wrap |
| device list (`user_devices.c`, `user_i2c_scan.c`) | devices, scan address | register, scan | I2C bus | one scan, many who ask |

`PROJECT.json` lists every part with its status, and under `hazards` what in each is hard to test,
with the line where it bites and the properties that guard it.

## Modules

| module | models | composed of |
|---|---|---|
| `FlashRegion` | the region layer: registry, protection, open/read/write/close, one sector per step | |
| `FlashStore` | what that layer promises (abstract specification) | |
| `FlashClient` | the region layer under a caller that keeps the rules the code's callers keep | `FlashRegion`, refines `FlashStore` |
| `FlashUpload` | client, packets, chunk callback, stream parser, timers, upgrade flag, reboot | `FlashRegion` |
| `UserTimer` | the timer list over heap blocks that are reused | |
| `TimerUse` | owners that set and cancel timers by handles they keep | `UserTimer` |
| `WebClient` | the device's own requests and their timers | `UserTimer` |
| `HttpReceive` | the one receiver that all HTTP connections share | |
| `HttpDispatch` | what becomes of a request: method, redirection, log-in, handler, answer or long poll | |
| `WsChannel` | frames, closing handshake, keep-alive of every WebSocket | |
| `WsReceive` | the static state in which `websocket_recv` puts frames together | |
| `ConfigStore` | the two configuration sectors, their load, store and defaults under power loss | |
| `WifiScan` | scans for requests and for the device, cache, auto-detect, the station | |
| `PlugRelay`, `Switch1`, `Switch2` | the plug with its LED, the one- and two-gang switches | |
| `DioPins` | a digital pin | |
| `Buttons`, `Badge` | a key; the badge's display | |
| `Sensors` | the timers of DHT, ultrasonic and analog input sensor, by `kind` | |
| `PingEcho` | one ultrasonic measurement and its interrupt | |
| `Gauges` | battery and ADC, by `kind` | |
| `I2cBus` | the wires, half a clock at a time, and the transfers of all drivers | |
| `I2cModules` | MOD-RGB, MOD-IO2, MOD-IRDA+ and the dimmer, transfer by transfer, by `kind` | |
| `Thermo`, `Led8x8` | MOD-TC-MK2's filter and events; MOD-LED8x8-RGB's layout and scrolling | |
| `DeviceScan` | the list of devices and the scan of the bus | |
| `SerialPort` | `uart.c` and the line buffer of `stdout.c` | |
| `EmtrLink`, `EmtrRegisters`, `EmtrCalibration` | the meter's line; its registers and counter; the search for a gain | |
| `FingerLink`, `RfidReader` | the fingerprint reader's line and polling; the tag reader's | |
| `FlashRegionProofs`, `FlashClientProofs`, `FlashUploadProofs`, `TimerProofs`, `WsChannelProofs`, `WebClientProofs` | theorems about the module each extends | |
| `PartsProofs`, `DevicesProofs` | theorems about the modules of `MCDevices`, for all its constants | the second extends the first |
| `MCDevices` | the modules that keep to themselves, side by side; its constants are theirs | all from `HttpReceive`, `HttpDispatch` and `WsReceive` on but `WsChannel` |
| other `MC*` | instances for TLC | |

`PROJECT.json` maps every definition to the lines it models.

### Correspondence with the code

**FlashRegion** keeps the static variables of `user_flash.c` under their names without the prefix
`flash_` (`sector`, `max_sector`, `mode`, `open_region`); `buffer` is the part of `flash_buffer` up
to `flash_buf_pos`. `call` is the program counter of a write, close or truncation: `Turn` is one
level of `flash_region_write`'s recursion or one round of `flash_region_truncate`'s loop, with its
`Flush`. A flush erases, then writes; the chip may fail (`ok`), which may leave the sector torn, and
`PowerLoss` may tear the sector in work. Sector numbers are uint16 (`W`). A failed truncation is
not reported by `flash_region_close`, in the model as in the code.

**FlashClient** adds the callers' discipline, which the code relies on and does not check: after a
failed write comes a close, and no close follows a close (`user_config.c:326-328`,
`user_flash.c:441`). Without it a second close would flush an empty region's buffer at sector 0.

**FlashUpload** composes client, parser and region layer. A request's body is the JSON text (one
`Byte`, with its terminating zero, inside the first body packet), then name, delimiter, size digits,
delimiter and content of each file (`app/lib.js:684-694`). `Post` is `config_firmware_handler`;
`Packet` is a later packet on its way through `config_stream_chunk`; both call `Chunk`. `Parse`
is `flash_stream_data`, one part of a packet per step, so that the chip and the power can fail in
between: while `pc # "idle"` no other callback runs. `StreamEnd` and `Reboot` are the two timers.
`Abort` is a connection that ends: nobody tells the stream. The history variable `excused`
marks requests that may fail for a reason of their own (too large, aimed at the running image, cut
in pieces, chip failure), `refused` counts the others that failed in a row. The build is the
Makefile's default `SSL = 0`, where the firmware handler is the stream's only user.

**UserTimer** models records as blocks. `handle[b]` survives a free until the block is used again,
because `timer_handler` reads `t->handle` after the callback, when the record may be gone. `Fire`
and `Finish` are the two halves of `timer_handler`. `TimerUse` lets owners do what they do
everywhere but one thing, cancelling the timer whose function runs; `WebClient` does that too.

**WebClient** runs a callback as an agenda, `todo`: a step is one function, which puts the calls it
makes at the front. Callbacks begin only when the agenda is empty and no timer's function runs. One
block stands for a request and its connection. What the SDK reports (`Connected`, `Sent`,
`Receive`, `Closed`, `Broken`, `Answered`) comes in any order its connection state allows;
`Connect` may fail, and does when the connection is in use. `WEBCLIENT_RETRY_MAX` is 0: there is
always another attempt. All requests go to one server and path, so `webclient_request_find`
returns the first of the list.

**HttpReceive** has the static variables of `webserver_recv` (`total`, `chunkID`, `request`,
`footprint`) and `webserver_chunk`. A request is a number of units, the first its header; `First`,
`Later`, `Dropped` are the three ways of a packet, `Take` the common end of the function,
`WebserverRequest` the dispatch. Assumed: the header is whole in the first packet, a client sends
what its Content-Length says, bodies hold no method token, and a footprint names one connection.

**WsChannel** describes each function by the socket it leaves (`Send`, `Sent`, `Ping`, `Close`,
`Received`...), and actions apply them to one socket or to all. `flight` is what the SDK was given
and has not yet called back for; the 101 response counts, because its callback is `websocket_sent`
too. `Raise` is an event sent to the sockets that listen to its URL, `Post` a message whose outcome
is raised and not answered, `Upload` an upgrade that fails after `clearAllTimers`. Frames arrive
whole. `FallSilent` only affects open sockets: one that is closing and never pinged is left to the
SDK's idle time-out.

**The device modules** have one action per timer callback, handler or interrupt, named after it,
and keep the source's static variables under their names. Where several functions share a shape
(three sensors, four I2C modules, battery and ADC) a variable `kind`, chosen by `Init`, says which
one a behaviour is of. What is not code is one action: `Flip`, `Edge`, `Turn`, `Warm` move a pin or
a reading, `Lose` loses what is on a line, `Replug` changes a module, `PowerLoss` restarts.
History variables (`told`, `asked`, `mixed`, `lost`, `late`, `missed`, `untold`...) are said to be
so in the module; those like `mixed`, `lost`, `stalled` or `untold` note that what the property
excuses has happened, and each is set only by the code's own step that does the harm:

- `EmtrLink`, `FingerLink`: a command is one packet on its way, its answer characters or one packet
  on `wire`, which may come late, be lost or be damaged. `late` says that the line was let go of
  with an answer on its way: the next callback may then get it, as in the code.
- `EmtrRegisters`: a block is written back as it is in memory; `blank` says that it was written
  without having been read, which the handlers do not prevent. Two fields stand for a block.
- `EmtrCalibration` has the code's arithmetic with smaller words: products wrap at `2^P`, a range is
  a byte of `R` bits in a word of four. Doubling and halving are steps, so that an endless search
  would be a cycle: `turns` counts the changes of direction, of which there may be one.
- `ConfigStore`: `todo` is what is left of the handler, an erase, write or load a step, between any
  two of which the power may go. A load that fails restores the defaults and tells nobody
  (`untold`), as `user_config_load` does.
- `I2cBus`: a `Half` is `i2c_master_setDC`; the slave is the standard's, not the code's. `Init`
  finds the slave anywhere in a byte.
- `SerialPort`: `follows` says which of three things a behaviour follows: output, the debug lines,
  input. `mixed` says that two writers met, when `last` loses or doubles a line's end.
- `PingEcho`: a busy wait is a step per clock tick; an echo may rise and fall at any of them, also
  after the wait was given up.
- `WsReceive`: a packet that does not belong to the frame being put together vanishes (`lost`), as
  in `websocket_recv`; what is handled must be a whole frame of its socket.

## Runs

| run | instance | question | result |
|---|---|---|---|
| `flash_client` | 4 sectors of 2 bytes, 3 names of which one request collides with two others, payloads of 0, 1 and 3 bytes, 2 opens, 5 bytes an open | do regions stay apart, does cursor and buffer stay in bounds, is a successful close whole, is `FlashStore` implemented | holds |
| `flash_upload` | 4 sectors of 2 bytes, 4 uploads of 3 kinds (too large; a size with too many digits; two files, one of a sector and a half), every split, 1 chip failure, power losses | is the running image safe, is what is committed whole, what does a failed upload leave behind | holds |
| `flash_header_alone` | the same, and first packets may hold the header alone | is the JSON text ever taken for content | violated |
| `timer_use` | 3 blocks, 2 owners, handles modulo 4, 5 timers set | do timers end themselves only, until handles come round | holds |
| `web_client` | 2 requests, 4 blocks, callbacks begin until 4 timers were set, `reconnect_timer` modulo 4 | do timers live and die with their requests, is anything lost | holds |
| `web_unattended` | the same | is the guard timer of a request armed while it waits | violated |
| `http_close` | 2 connections, 2 requests each, of 1-3 units, collected, streamed or cut off | does a request under way belong to an open connection | violated |
| `ws_frames` | a browser's socket and a device's, a queue of 1 when another request is taken, frame numbers modulo 4, uploads and restarts | order, closing handshake, log-in | holds |
| `ws_silence` | 1 browser's socket whose peer may fall silent, no uploads, fair timers | does a silent peer go, is an open socket pinged | holds |
| `ws_upload` | the same with uploads | is an open socket pinged | violated |
| `devices` | the 25 parts of `MCDevices`, one by one | see below | holds |
| `sensor_fault` | the sensors of `MCDevices`, a counter of 2 bits and a limit of 8 | is a sensor that fails told of before its value is too old | violated |

`devices` gives each part the same fifteen variables `v1`...`v15`, and `device` says which part a
behaviour is of. A property of the run is one that several parts promise, each in its own way, and
its conjunct for a part is stated and explained in the part's module:

| property | promised by |
|---|---|
| `TimedIsOn` | plug, switch, digital pin: what was set for a time is ended by its timer only |
| `ListenersKnow` | plug, switches, I2C modules, sensors, thermocouple, meter readings, gauges, tag reader |
| `FilterAgrees` | switches, digital pin |
| `PollGoesOn` | meter, fingerprint reader |
| `Attributed` | meter, fingerprint reader, ultrasonic echo, tag reader |
| `AnswerComes` | Wi-Fi scan, device scan, long polls, ultrasonic measurement, calibration |
| `PartsMakeWhole` | HTTP receiver and dispatch, WebSocket frames, serial lines |
| `SettingsKept` | configuration, meter registers, calibration |
| `BusHolds` | I2C bus |
| `TextScrolls` | badge, LED matrix |
| `StepsHold` | keys, I2C modules, thermocouple (properties of a step) |

**Why the bounds are enough.** A sector of two bytes is the least with a border inside and a border
at its end; payloads of 1 and 3 bytes fill less than a sector, exactly one (1 and 1) and more than
one. An upload
needs at most a stream left behind, one that ends it, one that closes the region and one that
succeeds: four. `MaxMeta = 3` makes the digits of the largest file too long, and leaves the others.
Handles modulo 4 come round with the fourth of five timers. A request's longest path, guard,
failure, reconnect, guard, failure, reconnect, takes four timers; two requests are the least at
which the list's first decides. `MaxPacket = 3` units separates collected requests (1, 2) from
streamed ones. Frames modulo 4 tell apart what can be on its way and waiting at once (two and one,
plus what one call adds). In `devices` numbers are scaled so that every border is inside: a
sensor's readings lie below, on and above each limit; filters are long enough to be left half-way;
counters, clocks and products wrap (`CountTo`, `W`, `U`, `P`); `FilterCount`, `Each` and `MaxSends`
are the least that count; a bus byte has three bits, an address bit, and `InitClocks` covers a byte
and its answer as 28 clocks do for eight bits; two sockets, connections, fields or writers are the
least that can meet. `devices` and `http_close` do not check for deadlock: some parts really end (a
calibration that is found, connections that are used up).

**Symmetry** is used in `web_client` only (blocks, requests): its properties are safety properties
that name none of them.

**Fairness.** `FairSpec` of `WsChannel` makes the timers weakly fair that the SDK expires once they
are armed: the keep-alive interval, its time-out, the timer of `websocket_close`. Nothing is
promised of peers, of the network or of callers. The other specifications are checked for safety
and state no fairness; that something goes on (`PollGoesOn`, `AnswerComes`, `QueueIsServed`) is
stated there as an invariant: whoever waits has a timer, a callback or an answer to wait for.

**Violations.** Each is a disagreement between the code and what it says of itself, quoted in
`PROJECT.json` under `findings`:
- `first` in `config_stream_chunk` survives a broken upload; the next request's JSON is written
  into the image if its header comes alone.
- An orderly close in the middle of a request is not told to `webserver_recv`, which waits for it
  and drops what others send.
- A failed upload has cancelled the keep-alive interval for good.
- The failures of a DHT sensor are counted in eight bits, and with a short refresh time the count
  comes round before it reaches the limit: the last value is served for ever.
- A timer that `webclient_execute` sets while it runs from a timer can be cancelled on return.

## Proofs

All theorems hold for every value of the constants that the named assumptions allow. Beyond saying
that constants are what their comments call them, the assumptions are:

- flash: a sector has at least two bytes, sector numbers fit 16 bits, regions in `Table` are disjoint,
  on the chip and not empty, the two image regions differ;
- uploads: a client posts each image at most once in a request, no file is empty, the delimiter of a
  size is no digit and the size's text reads back as the size, no file holds the JSON text that precedes
  the files, and the name of a region and the size of a file that fits it are shorter than
  `FLASH_STREAM_MAX_META` (50 in the code);
- timers: there are at least two handles; in `WebClient` they do not come round within the bound `MaxSets`
  (32 bits of timers), while `W16`, where `reconnect_timer` is cut off, may be passed;
- `WsChannel`: frames are numbered modulo at least 4, and a device either asks for a log-in or does not;
- `MCDevices`: a bound is a number, and counters and buffers hold something (a byte at least two values, a
  line the command a start begins with, the debug buffer a character and its end); a filter has a reading
  between its ends, a counter holds what it is compared with, a measurement is shorter than its clock's turn, a tag has no character that begins or ends a line,
  settings are none of the words that stand for an erased or torn sector or for no request, one request
  is the longest and no connection has the name that stands for none, a packet has something in it, there
  is an address to scan, and an LED module has columns, of which the 16-bit counter holds a text's and the
  display's together.

### What is proved, and along which argument

- `FlashRegionProofs` has one lemma per operation of the region layer: each keeps `RegionInv`, which ties
  cursor, buffer and `call` to the open region. A write in progress is described by what it was given,
  what is flushed and what is buffered (`Delivering`), so that the turns of its recursion need no
  induction.
- `FlashClientProofs`: type correctness, `RegionsDisjoint`, `CursorInRegion`, `BufferFits`,
  `CloseDelivers`. None is inductive alone: that the cursor stays in the region depends on the open
  region being registered, on its end not wrapping, and on `mode` and `call` saying where in a write the
  layer is. `ImplementsStore` maps `ranges` to the registered regions, `granted` to the sectors of the
  open one; every step is a step of `FlashStore` or a stutter.
- `FlashUploadProofs`: `RunningImageSafe` needs that while the parser has input the running image is
  protected, and that what is open is another region with its cursor past its start; a flush touches
  the sector under the cursor. `UploadCommitIsWhole` says that the device restarts only into files that
  are on the chip byte for byte. Its invariant (`UInv`, `DInv`, `SInv`) keeps the parser in step with the
  body (`InStep`): how much of it was fed, in which file the parser is, what of that file is in the
  region, or that the upload is lost and will not commit. The text of a body is a concatenation of
  files of any number and size; where a file begins is a set of positions with a least element, which
  keeps the argument first-order. `UploadDataHasRegion`, `UploadLeavesClosed` and `UploadJsonSkipped` follow from
  the same invariant. `UploadRecovers` adds `RInv`: a request without an excuse of its own is in one packet,
  each of its files has a region and fits, and no call fails (`Whole`), so that only what was left
  behind refuses it; the first refusal ends the stream, the second closes the region. Refusals are
  counted in a row: a request that succeeds, or fails for a reason of its own such as a chip failure,
  sets the count to 0. The theorems but `RunningImageSafe` and `UploadDataHasRegion` are stated for headers
  that come with data (`~ HeaderOnly`): run `flash_header_alone` shows that the code breaks them otherwise.
- `TimerProofs`: handles count the timers set (`Counted`), and the running record stays listed with
  the handle it fired with (`RunsItself`); from these follow that no record is lost or left armed,
  that no live timer has handle 0 or shares another's, and that a timer's end frees its record only.
- `WsChannelProofs`: all five safety properties of the channel. The invariant says of each socket what its
  queue, the frames in flight and the wire hold of each other: that a CLOSE is in one of them once and
  last, that a callback is due while a frame waits, and that what is queued was sent to someone who
  had logged in.
- `WebClientProofs`: its safety properties and `PostsKept`; `ReconnectOnce` says itself that it holds while
  all handles but the newest fit 16 bits. They rest on an invariant that relates each
  request's and connection's handle to the timer that has it, and on which requests a step in the middle
  of a callback may have left without one.
- `PartsProofs` and `DevicesProofs`: an invariant for each of twenty-three modules (`IInv`: a behaviour follows
  one). They are kept step by step for these reasons:
  - switches: that the filter agrees with the state is kept because only a reading that moves it to an end
    may change the switch;
  - meter and fingerprint reader: every byte on the line answers the command sent last, and none is there
    when no answer is waited for, unless the line was let go of with an answer on its way (`late`);
  - keys: while a level is being sampled the interrupt is off (`KeyDeaf`), so that no edge comes between
    two samples;
  - battery: the filtered reading stays between the old and the new one (`FilterStays`), which is
    arithmetic on its weights; thermocouple likewise (`QuotientTowards`);
  - sensors: what was told is what the next reading is compared with, and a fault leaves nothing
    to compare with, so that the reading that ends it is told;
  - ultrasonic sensor: the pin of a measurement interrupts at the edge it waits for and at no other, and
    the clock went on by what the measurement spent;
  - tag reader: unless a character was lost, buffer and line together hold one tag's line, or no dash
    (`TagLine`, `PlainLine`); what a tag longer than the buffer leaves behind has none either;
  - I2C modules: a dimmer whose poll missed nothing has told what it has stored;
  - stored settings: `StoreInv` says for each list of flash operations a handler may have before it (`todo`)
    what of settings, sector and request agrees already; the load that ends a request makes what is in use
    what the next start finds, unless a failure goes untold;
  - meter registers: only a block that came from the meter goes back to it (`RegsGood`), and from the time the
    counter was read the firmware's is ahead of the meter's and of all that waits to be written
    (`RegsAhead`);
  - scan for networks: an end that answers is due while a request waits, and a result that is kept has the
    timer that throws it away; scan for devices: while it runs it has one timer and an address left, and
    what it found lies behind what it tries (`ScanRuns`, `FoundBehind`);
  - answers: a connection owes as many answers as it has requests and polls that wait, and a connection
    that is gone owes none (`HttpGone`); unless two secure connections mixed their letters, the one letter
    kept is that of the connection that sent one (`HttpLetters`);
  - requests: what is handed on is the units of one request in order, because the request under way is
    that of the connection whose packets count (`RecvUnderWay`), and what is buffered of it begins with
    its first unit (`RecvBuffered`). That a request that was taken up is handled whole holds unless
    another connection's packet broke it, which the module marks (`broke`);
  - frames: unless a frame was lost, the one being received is the one its socket is sending, as far as it
    was sent (`FrameOne`);
  - serial port: what was written is what was sent and what is buffered, and a flush is timed while
    anything is; the receiver's interrupt is enabled or an event is posted that will enable it;
  - badge: at most one timer moves the text, and it is set while a text is shown;
  - LED matrix: what stands at a place of the display depends only on how far the text was moved
    (`LedShown`), which every move keeps; that the counter does not come round is `LedFits`.

  Beside its invariant each module has what its variables are (`KeysFits`, `RecvFits` and so on), which
  `TypesHold` adds up. Most of it is no bookkeeping: that a frame takes no more packets than it has bytes
  needs `WsFits`; that a connection waits for no more answers than it sent requests needs `Http!OneAnswer`;
  that the units in the receiver's buffer are those of a request needs `RecvUnderWay`; that a filtered
  reading, a percentage and a temperature stay in their ranges is arithmetic on divisions (`FiltersFit`,
  `PartOfWhole`, `TempFitsOn`); and that what is stored of the measurements' settings was set by a request
  needs `StoreInv` (`AppWrites`).

Only model-checked:

- liveness under fairness (`WsChannel`'s), which is out of the prover's reach;
- of `devices` three claims about data: `BusHolds` and the types of the I2C wires, on the bits of a byte
  and on transfers that are flattened sequences; of the calibration its types, `SettingsKept` and
  `AnswerComes`, on products of words that wrap and on the digits of a gain; of the UART `LinesEnd`, on
  how many characters of a kind a sequence has (`SelectSeq`). `TypesHold`, `SettingsHold`, `AnswersCome`
  and `PartsMade` say in their statements what they leave out.

## Not modelled

- **FlashUpload**: uploads over a WebSocket; a request without files (`data_len` underflows);
  `boot.bin` alone, which restarts into whatever the other image is; files of size 0, which are not
  closed when they end a packet; the SSL handler.
- **Timers**: `os_zalloc` returning NULL; freed records taken by other allocations while
  `timer_handler` still reads them (in `WebClient`; `TimerUse` has them).
- **WebClient**: a name lookup that ends after its connection was freed; `clearAllTimers` by an
  upload, which also takes every guard and retry timer; other servers and paths.
- **HttpReceive**: pipelined requests; `webserver_connection_reconnect`, which loops for ever on a
  connection that is not closed; header parsing and authentication.
- **WsChannel**: the text of messages; the SDK's use of a connection after it was freed: the timer of
  `websocket_close` keeps a raw pointer for 100 ms.
- **HttpDispatch**: parsing of headers and of credentials; the texts of responses.
- **ConfigStore**, **WifiScan**: which settings there are; the soft access point.
- **EmtrLink**, **FingerLink**: the bytes of packets; a length below 3, which makes the driver allocate a
  negative size; the uninitialised `delete_len` when a request names no identifier; the meter's single
  wire mode, which needs `emtr_single_wire_read`, and nothing sets it.
- **DioPins**: more pins than one: they share a loop and no state.
- **Switches, sensors, I2C modules, gauges**: JSON and number formatting, which drops the sign of some
  fractions (`mod_tc_mk2.c:110`).
- `user_json.c`, `user_utf8.c`, `base64.c`, `user_misc.c` format and parse text; the PCD8544 display,
  SPI, PWM (nothing calls `pwm_init`), `hw_timer.c`, `gpio16.c` and the DHT's bits are register access
  and busy waits without state that outlives the call. The browser application and the SDK are not this firmware's code.

## What could follow

Proofs: `BusHolds`, with an invariant on which bit of which byte the wires hold. Models: `WsReceive`
delivering to `WsChannel`, uploads over a WebSocket.
