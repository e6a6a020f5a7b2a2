# A TLA+ model of the AVR-IoT Cellular library

The library drives a Sequans GM02S LTE modem from an AVR128DB48. It is a single
program with interrupts: everything the modem says comes in byte by byte in a
receive interrupt, is parsed there for unsolicited result codes (URCs), and what
is left goes through a ring to a main program that sends AT commands and waits.
What is hard about it is not the AT commands but the seams: main program against
interrupt, flow control that acts late, timeouts that race answers, and buffers
that are reused.

This directory holds the specifications, the TLC configurations that check them
on small instances, and proofs for TLAPS. `PROJECT.json` maps every definition to
the lines it models, and lists the runs, the hazards, the findings and the
theorems. Paths below are relative to `src/` in the repository.

## Inventory

| Component | State | Operations | Modelled |
|---|---|---|---|
| Receive path (`sequans_controller.cpp`) | `rx_buffer` with head, tail and count; RTS; critical section, power save, RING interrupt | receive interrupt, `readByte`, `clearReceiveBuffer`, `rtsUpdate`, `startCriticalSection`, `stopCriticalSection`, `setPowerSaveMode`, `RingInterrupt` | `RxPath`, `ByteQueue`, `RxPathProofs` |
| URC parser (in the receive interrupt) | parse state, identifier and data buffer, matched slot and callback | the `switch` on each byte | `UrcParser`, `UrcStream`, `UrcStreamProofs` |
| URC table and `waitForURC` | ten slots; the wait flag and buffer | `registerCallback`, `unregisterCallback`, `waitForURC`, look-up and call in the interrupt | `UrcTable`, `UrcMap`, `UrcTableProofs` (partly) |
| Transmit path | `tx_buffer` with head, tail and count; DREIE; the CTS pin and its flag | `appendDataToTransmitBuffer`, `ctsUpdate`, `CTSInterrupt`, data register empty interrupt | `TxPath`, `TransmitQueue`, `TxPathProofs` |
| AT commands | result buffer, retry count, last response | `writeCommand`, `readResponse`; `writeString`, `waitForByte` | `CommandResponse`, `ReadPayload`, `ReadPayloadProofs` (partly) |
| Value extraction | none | `extractValueFromCommandResponse` | `ExtractValue`, `ExtractValueProofs` |
| Controller life cycle | `initialized`, registers, pins | `begin`, `end`, wait for `+SYSSTART` | no: register and pin setup; its result is the `Init` of `RxPath` and `TxPath` |
| `Lte` (`lte.cpp`) | `is_connected` | `begin`, `end`, the `+CEREG` callback | `Connection`, `ConnectionProofs` (partly) |
| `MqttClient` (`mqtt_client.cpp`) | `connected_to_broker`, `urc_buffer`, callbacks | `begin`, `end`, `publish`, `subscribe`, `onReceive`, `readMessage`; `beginAWS`, `beginAzure` | `Connection`, `ReadPayload` (partly: not the last two) |
| `HttpClient` (`http_client.cpp`) | `got_shutdown_callback`, `shutdown_error_code` | requests (`sendData`, `queryData`, `waitForResponse`), `readBody`, `configure` | `Connection`, `ReadPayload` (partly: not `configure`) |
| `LowPower` (`low_power.cpp`) | `ring_line_activity`, `modem_is_in_power_save`, `retrieved_period`, `pit_triggered` | `configurePeriodicPowerSave`, `powerSave`, `powerDown`, the RING callback, the periodic interrupt | `LowPower`, `RxPathProofs` (partly: no pins, no encoding of periods) |
| `ECC608` (`ecc608.cpp`) | the provisioning slot of the secure element | `begin`, `readProvisionItem`, `writeProvisionData`, getters | `Provision`, `ProvisionProofs` (partly: the list) |
| `TimeoutTimer` | start and length | `hasTimedOut` | `TimeoutTimer`; elsewhere its expiry is an action |
| `SecurityProfile` | none | `profileExists` | no: one command and a search |
| `LedCtrl`, `Log` | pins, log level | output | no: output only |
| I2C driver, CryptoAuthLib | | | no: thin driver and vendored code |
| Examples, hardware test, scripts | | | no |

How they interact: everything above the controller calls `writeCommand`,
`waitForURC`, `registerCallback` and the byte functions; the controller calls
back from inside the receive interrupt. Such a callback may call the controller
again: `connectionStatus` of `Lte` calls `MqttClient.end()` (`src/lte.cpp:69`),
which unregisters URCs while the main program may be in the middle of
registering one. State shared between interrupt and main program is the two
rings, the URC table, the wait flag and buffer, DREIE, RTS and, one layer up,
the connected flags and `urc_buffer`.

What makes each part correct:

- receive path: bytes are read once and in order; RTS bounds how far the ring
  fills and never stays HIGH when nobody would set it LOW again; a suspended
  flow control is not undone by the wrong step;
- parser: a callback gets exactly the data of a URC of its own; a URC on a line
  of its own is never lost to what came before;
- table: identifiers are unique; the newest registration is the one found; a
  wait that returns true has its own URC, and one that was answered in time
  returns true;
- transmit path: bytes are sent once and in order; appending returns; the ring
  is emptied even though CTS edges get lost;
- commands: OK is made of bytes of this command's answer; each command returns;
  what is read into a caller's buffer is what the modem sent;
- connection: the connected flags agree with what the modem last said; a call
  that reports success was answered with success; `Lte.end()` leaves nothing
  behind; every call returns;
- power: the CPU never sleeps with nobody to wake it or with the modem free to
  send; nothing of power save is left afterwards; a power down lasts as long as
  asked for;
- provisioning: what `writeProvisionData` confirms is stored, and a reader gets
  the newest data, whole, or an error.

The full list of what can go wrong, line by line, is under `hazards` in
`PROJECT.json`.

## Modules

**`UrcParser`** is the `switch` of the receive interrupt as operators on a byte:
`Parse(b)` has one disjunct per case (and per outcome where a case has two),
`Rewind` says how many bytes the interrupt takes back from the ring and `Called`
which callback it calls. The C buffers with their length fields are sequences.
The table is a constant here. It has no specification of its own; two modules
use it.

**`UrcStream`** feeds the parser every stream of bytes and states what callbacks
are promised in terms of the *stream*, with no reference to the parser's state.
Of the stream it keeps the end from three bytes before the first byte on that a
URC not yet over may have started with (`Recent`): all that the properties can
depend on, and so a finite state for streams without an end.

**`RxPath`** puts the parser into the receive path. One step of an interrupt is
the whole interrupt, since interrupts do not nest. The main program is cut at
its tests of shared state, around its `cli()`/`sei()` blocks and before every
write to RTS, so `rtsUpdate()` is two steps: the decision, and a write that an
interrupt may have overtaken. The modem sends freely while RTS is LOW and at
most `Overshoot` bytes after it went HIGH. Behind a URC callback the interrupt
sets RTS LOW whatever the ring holds, and its `rtsUpdate()` may set it HIGH
again: the modem sees that pulse, and has its whole overshoot again. `late`
counts how often the modem was so let send, by this or another step, with the
ring almost full. The mask `& RX_BUFFER_MASK` is written as a wrap by comparison
(`Successor`, `Back`), because provers do linear arithmetic.

| In `RxPath` | In `sequans_controller.cpp` |
|---|---|
| `ReceiveByte` | `ISR(USART1_RXC_vect)` with its call of `rtsUpdate()` |
| `CheckRxReady`, `TakeByte`, `DecideRts`, `WriteRts`, `ReturnByte` | `readByte` in order |
| `ClearReceiveBuffer`, `DecideRts`, `WriteRts` | `clearReceiveBuffer` |
| `StartCriticalSection`, `StopCriticalSection`, `WriteRts` | the two functions |
| `ArmRing`, `EnterPowerSave`, `WriteRts`; `LeavePowerSave`, `WriteRts` | `setPowerSaveMode` |
| `RingInterrupt`, in it `LeaveByRing` | `RingInterrupt` with the callback of `low_power.cpp`, which calls `setPowerSaveMode(0)` once power save has been entered (`EnteringPowerSave`) |

**`ByteQueue`** is what the receive ring promises: a FIFO whose newest bytes the
URC handling may take out, and whose bytes have `Capacity` places. A byte that
comes when all are taken replaces the oldest, which is then read as the new one:
the number of bytes and the order of all others are kept. `RxPath!ReadsInOrder`
is the refinement, for every ring, overrun or not.

**`UrcTable`** writes a slot one field at a time as `registerCallback` does, the
two byte pointer in two writes with a `Torn` value between them, against the
interrupt's look-up (`MatchUrc`) and call (`CompleteUrc`), which are two steps
because the data arrives in between. The data of a URC is abstracted to the
identifier it came with, enough to tell the right from the wrong URC.
**`UrcMap`** is the abstract map the table implements: while an identifier is
being registered a look-up may find anything; otherwise it finds the last
registration, and nothing done to one identifier disturbs another.

**`TxPath`** has the loops of `appendDataToTransmitBuffer` as control points, the
two interrupts, and a modem that moves CTS as it likes. `CTSInterrupt` reads the
line first and clears the pin's flag last, so an edge in between is lost, which
is what `ctsUpdate()` is there for. **`TransmitQueue`** is its abstract FIFO.

**`CommandResponse`** is `writeCommand` with `readResponse`. Its bytes are cells: a
CR LF pair, OK, ERROR, other text, and NUL. Keeping NUL and what is behind it
matters: a buffer is searched by `strstr` and cut by a NUL, and a retry writes
over the front of what the former try left. A buffer without a NUL makes
`strstr` run on behind it; the outcome of that search is a free choice
(`overread` remembers it). The modem answers late, or not at all, and sends
other lines in between, line by line. The modem may not get a command at all,
since `vfprintf` and `writeCommand` drop the errors of
`appendDataToTransmitBuffer`. A caller's result buffer is empty at the call of a
command, as the library's own are.

**`ReadPayload`** extends it with the two functions that have the modem send what
it keeps: `HttpClient.readBody()` and `MqttClient.readMessage()`. They share the
receive ring, `readResponse` and the late answers with ordinary commands, which
may come before, between and after them, but hand the *caller's* buffer down:
what it holds beforehand (`Buffer`) is an input. `START` is the cell for the `<`
of which `readBody` waits for three. The modem sends its answer in pieces.

**`Connection`** is the layer above: the functions of `Lte`, `MqttClient` and
`HttpClient` as control points of one main program, the callbacks they register
as the interrupt calls them between any two points, and a modem with a radio, a
registration, a session with the broker (after a TLS handshake in which it asks
for a signature, when the secure element is used), and one publication, subscription and
HTTP request each that it has not yet answered. What the modem sends is a FIFO of
responses and URCs. A URC at its head is taken out at any time, by whoever is
registered for it at that moment, or nobody; commands get lost; waits end with
their URC or without it. `waitForURC` is here two steps, registration and end,
and `UrcTable` says what is inside them.

| In `Connection` | In the source |
|---|---|
| `ReceiveUrc`, `ConnectionStatus` | `connectionStatus` (`lte.cpp`), `internalDisconnectCallback`, `internalOnReceiveCallback` (`mqtt_client.cpp`), `httpShutdownCallback` (`http_client.cpp`), the callback of `waitForURC` |
| `LteBegin` to `LteConnect` | `LteClass::begin` |
| `LteEnd` to `LteClose`, with `MqttEnd` to `MqttEnded` in between | `LteClass::end`, `MqttClientClass::end` |
| `MqttBegin` to `MqttReturn`, with `MqttSign` for the secure element | `MqttClientClass::begin` |
| `OnReceive`; `Publish` to `PublishWait`; `Subscribe`, `SubscribeWait` | `onReceive`, `publish`, `subscribe` |
| `HttpRequest`, `HttpSend`; `HttpRegister`, `HttpWait` | `sendData` and `queryData`; `waitForResponse` |

**`LowPower`** extends `RxPath`: `powerSave()` calls the mode functions of the
receive path, whose steps must finish before `powerSave()` goes on, while bytes
and RING edges come between any two of them. Whether `RingInterrupt` calls its
callback is free, because the test of the pin uses a pin number as a mask. Its
times are those of **`TimeoutTimer`**, unsigned differences modulo the width of
`millis()`. `powerDown()` shares the module since it shares the sleep and its
wake-ups. It uses the receive path by the actions of `RxPath`, with one
difference that is not by construction: `RingInterrupt` of `RxPath` does not
happen while power save is being entered, whereas in `LowPower` RING may come at
any time and its callback decides by `modem_is_in_power_save`. That this comes to
the same takes the invariants `Belief` and `CallsReturn` (`PowerStepImplements`
of `RxPathProofs`); by it, what is proved of `RxPath` holds under `LowPower`.

**`ExtractValue`** is `extractValueFromCommandResponse` with one step per pass of
its loops, for any response, index, start character and buffer; the properties
define the value by counting delimiters, with no reference to its pointers.

**`Provision`** is the list of provisioning items in slot 8 of the secure
element: `writeProvisionData` clears all blocks, writes the payload block by
block and verifies each item with `readProvisionItem`, which follows the
offsets in the headers. Power loss and errors (`Abort`) come between any two
blocks, and the element may confirm a block that it has not written. Cells all
have the form of headers, as a reader led astray takes any data for one.

## Runs

| Run | What it asks | Result | Distinct states |
|---|---|---|---|
| `urc_stream` | any stream: right data to the right callback, no URC on its own line lost | holds | 324,586 |
| `rx_path` | with all mode changes: FIFO, how far the ring fills, RTS never left HIGH over an empty ring, head, tail and count agree, suspension is undone only by the named events | holds | 2,334,497 |
| `urc_table` | unique identifiers, waits notice their URC and no other, the table is a map | holds | 479,854 |
| `tx_path` | FIFO, appending returns, the ring drains | holds | 37,440 |
| `read_payload` | commands, `readBody` and `readMessage` in any order: OK and ERROR end what was read, the payload is what was sent, all calls return | holds | 594,049 |
| `low_power` | the CPU sleeps armed and with the modem held back, power save leaves nothing behind, the modem is not left held back, `powerSave` returns | holds | 246,566 |
| `connection` | flags against the modem, success against confirmations, nothing left after `end()`, all calls return | holds | 529,992 |
| `extract` | for an index the response has, a value found is the value asked for; not found only if it is not there or does not fit | holds | 205,266 |
| `provision` | success means stored, readers get the newest data, the list has an end | holds | 47,949 |
| `command_stale` | ERROR ends what was read, with a result buffer too | violated | |
| `body_full` | a body of the size asked for is read | violated | |
| `extract_beyond` | a value found is the value asked for, whatever the index | violated | |

Each property of a passing run has a mutant: a plausible bug in one mapped
definition that makes TLC find that property violated. The mutated forms stand
in the modules next to the originals.

### Bounds, and why they are enough

- `urc_stream`: six bytes, one per class the parser distinguishes (`+`, a
  letter, `:`, CR, LF, a digit); identifiers up to 2 bytes and data up to 1, so
  that both get too long; streams of any length, so every sequence of aborted
  and complete URCs is met. One identifier is a prefix of the other, and one
  slot is empty.
- `rx_path`: a ring of 5, almost full at 3, two below its size as in the code
  (510 of 512), with an overshoot of one byte, so that it is overrun and wraps,
  both URC cut-backs happen, and the count wraps behind the race of `readByte`.
  The count's modulus is 10, a multiple of the ring's size as 65536 is of 512.
  `+` and CR are enough to tell the order of bytes apart and to send two URCs,
  one whose bytes are cleared and one whose bytes stay in the ring, which so is
  almost full when its callback ends. By the constraint `FewLate` the modem is let
  send with the ring almost full at most once (`MaxLate`) until the ring has been
  emptied below that mark; each further time adds another overshoot in the same
  way, and with two of them (3,447,992 states) all properties hold as well.
- `urc_table`: three identifiers compete for two slots, so the table gets full
  and slots are reused; the one callback is the one that unregisters two of
  the three. What is registered is told apart by identifier, and `Wait` is a
  second callback.
- `tx_path`: a ring of 2 and five bytes appended (`MaxWrites`): it fills, wraps
  and is refilled, with two byte values to see the order.
- `read_payload`: two retries instead of five, one unanswered command and one
  request at a time, buffers of 5 and 6 cells, four cells in transit. The third
  try is the first that can meet what the second left behind what the first
  left; the proofs are for any number of them. Payloads
  are empty, hold a line end or a `<`, hold a line that reads OK, or fill the
  buffer; the caller's buffer holds zeros or the rest of an earlier answer at
  each place where it can meet the new one. `command_stale` has two retries and
  two unanswered commands.
- `low_power`: the ring of `rx_path`, with the cleared URC only; a clock of 4 that
  starts at its last value, so every comparison meets the wrap; the RING line has
  to be quiet for 1 of 2 rounds; 2 seconds of power down, so that a wake-up comes
  before, between and with the ticks.
- `connection`: at most two messages of the modem on their way (`MaxSent`), so
  that a late response and a URC overtake the program's waits in either order; at
  most one unconfirmed publication and subscription and one unanswered HTTP
  request, whose answers can come any number of calls later. HTTP requests are
  made while there is no MQTT client, and MQTT begins when they are answered
  (`NoMqttClient`). What this leaves out is a request during an MQTT session; the
  two use different URCs and share only the flag of `waitForURC`, which each
  wait clears, and the order of which is `UrcTable`'s subject.
- `extract`, `extract_beyond`: all responses of up to five characters over the
  four special ones and one other, indices up to 2, buffers up to 3: an identifier, two values and
  a missing third one.
- `provision`: a slot of three blocks of two cells, two faults, and lists that
  are empty, replace data, span blocks, end with a block, fill the slot, end
  with a header in its last cell, or do not fit.

Some runs use a `VIEW` that leaves out values that will be written before they
are read again: `MCConnection`, `MCProvision` and `MCReadPayload` name them one by
one. `MCLowPower` leaves out which bytes are in the ring and in which slots and how
often the modem was let send late, since no step of it asks, keeps times only as
differences, and the seconds of `powerDown()` only while it runs.

### Fairness

- `TxPath`: weak fairness of the two interrupts (a pending interrupt is served);
  strong fairness of the main program, because an AVR executes one instruction
  of it between two interrupts, however many come, while the model can disable
  the main program's step again and again by entering an interrupt; strong
  fairness of the timer, which counts on its own. Nothing is assumed of the
  modem: `RingDrains` takes CTS LOW for good as its hypothesis.
- `ReadPayload`: weak fairness of the program, and of `SendPiece`: what the modem
  has begun to send it sends to the end. It may be silent or talk for ever; that
  `readResponse` ends is due to its buffer and timer.
- `LowPower`: strong fairness of the main program for the reason above, weak
  fairness of the periodic interrupt, and of RING while the CPU sleeps: the
  modem rings at the end of its period. `PowerSaveReturns` takes a modem that is
  silent at last as its hypothesis, since draining has no timer.
- `Connection`: weak fairness of the main program; every wait has a timer. The
  modem need not do anything.
- `Provision`: weak fairness of the reader; writing may stop anywhere.
- `RxPath`, `UrcStream`, `UrcTable`, `ExtractValue` and `CommandResponse` by itself
  state safety only.

## Findings

1. **`command_stale`**: a retry of a command with a result buffer finds the ERROR
   of the try before after its first CR LF, so that each retry fails whatever
   the modem answers (`src/sequans_controller.cpp:761`), where the header says
   that ERROR means the result was terminated by ERROR.
2. **`body_full`**: `readBody` asks for as many bytes as its buffer holds, and a
   body of that size leaves no room for the OK behind it: 0 is returned with
   the body read and gone (`src/http_client.cpp:457`), where the header
   promises the number of bytes read.
3. **`extract_beyond`**: an index behind the last value gives the last value and
   true (`src/sequans_controller.cpp:956`), where the header promises the value
   at that index. `internalOnReceiveCallback` relies on a failure for a message
   without an id (`src/mqtt_client.cpp:169`): with QoS 0 the callback gets the QoS
   where `mqtt_client.h` promises -1.

Other behaviour that a reader of the code may not expect appears in the
properties that hold, as the exception they name:

- `FillBounded`: RTS is set HIGH two bytes before the ring is full
  (`src/sequans_controller.cpp:97`), and set LOW behind every callback (`:399`).
  The bound is below the size of the ring only for a modem that sends at most one
  byte after RTS went HIGH and is at no time let send with the ring almost full,
  or that sends none and is let so once. With any other, unread bytes are
  overwritten, as `rx_path` shows.
- `RxPath`, `miscounted`: `readByte` tests `isRxReady()` *before* `cli()`. If the
  interrupt takes a URC out of the ring in between, the count goes from 0 to
  65535 and a byte that was not received is returned
  (`src/sequans_controller.cpp:604`).
- `SuspensionHolds`, first case: after a URC callback the interrupt sets RTS LOW
  without asking for the critical section or power save (`:399`). Under
  `LowPower` the last bytes of a modem that is being held back can complete a
  URC, and the CPU then sleeps with RTS LOW (`called` in `SleepsWithModemHeld`).
- `UrcParser`: the terminating zero of URC data that just fits is written one
  byte behind the array (`:381`); the model's data is one longer.
- `WaitReturnsItsUrc`, `late`: a URC that began in time but ended after its
  `waitForURC` timed out makes the *next* `waitForURC`, for another URC, return
  true (`:441`).
- `SendsInOrder`, `overflowed`: when the timer runs out right after DREIE was
  enabled, the loop ends without -1 and the byte is stored over the oldest one
  (`:465`).
- `SleepsArmed`, `abrupted`: a RING between the last look at the line and
  `sleep_cpu()` detaches the interrupt, and the CPU sleeps with nothing in this
  file to wake it (`src/low_power.cpp:199`).
- `NetworkBelief`, `missed`: `Lte.begin()` waits for one `+CEREG` and registers its
  callback afterwards; a report in between is seen by nobody
  (`src/lte.cpp:116`).
- `BrokerBelief`, `unnoticed`: the same between the broker's answer and the
  registration for the disconnect (`src/mqtt_client.cpp:630`), after which
  `isConnected()` stays true without a session.
- `StatusOfThisConnect`, `overwritten`: a message that comes while `begin()` reads
  the status from `urc_buffer` overwrites it (`src/mqtt_client.cpp:125`).
- `PublishedIsConfirmed` and `ResponseIsOfRequest`, `owing`: a confirmation or an
  HTTP answer that comes after its call has given up is taken for the answer to
  the next call.
- `CallsReturn` of `ReadPayload`, `NoBody`: `readBody` waits for the first three
  bytes without a timer (`src/http_client.cpp:449`).
- `PayloadIsReturned`, `Used` and `HoldsOk`: with a buffer that was used before, a
  payload can be cut short, and a refusal can pass for a message
  (`src/mqtt_client.cpp:892`). If the buffer holds OK from an earlier call, it
  need not even be a beginning of the payload.
- `ResponseEndsCommand`, `late`: an answer to an earlier `readBody` or
  `readMessage` that is still on its way when a command with a result buffer is
  called can be taken for the command's. When it comes in two pieces, try 2
  can have read no more of it than CR LF and OK, behind which the buffer still
  holds a CR LF that try 1 has read (`src/sequans_controller.cpp:761`).
- `ReadIsNewest`, `padded`, `uncleared` and `torn`: the bytes behind the last item
  are whatever was on the stack and can look like an item; that a block was
  cleared is not verified; data cut short by a power loss reads as zeros with
  success (`src/ecc608.cpp:155`).

## Proofs

Each component has its proofs in a module of its own (`LowPower` shares that of
`RxPath`, which it uses), for TLAPS (`tlapm`). They
hold for every value of the constants that the named assumptions allow: every
size of ring, table and buffer, every set of identifiers, payloads and
responses, every number of retries and of messages on their way.

| Module | Theorem | What it says |
|---|---|---|
| `RxPathProofs` | `TypeCorrect`, `MatchedSlotCorrect` | with every mode change, overrun and wrap: indices stay in the ring, and no empty identifier is looked up, which every empty slot would match |
| | `FillBoundedTheorem` | RTS bounds how far the ring fills, whatever its size and the overshoot |
| | `NoStallTheorem` | under `UrcsFit`: RTS is not left HIGH over an empty ring |
| | `CountsAgreeTheorem` | under `CounterDivisible`: head, tail and count agree modulo the ring, even behind overruns and the race of `readByte` |
| | `SuspensionHoldsTheorem` | no step undoes a critical section or power save but the ones named |
| | `ReadsInOrderTheorem` | the ring implements `ByteQueue`, overrun or not |
| | `ReceivePathSafeInPowerSave`, `NoStallInPowerSave` | what is proved of the receive path holds under `LowPower`, whose callback of RING keeps to when `RxPath` lets it set RTS LOW |
| | `PowerTypeCorrect`, `SleepsArmedTheorem`, `SleepsWithModemHeldTheorem`, `LeavesPowerSaveTheorem`, `DownLongEnoughTheorem` | types and the four safety properties of `LowPower` |
| `UrcTableProofs` | `TableTypeCorrect`, `IdentifiersUniqueTheorem` | types; no identifier is in two slots |
| | `WaitNoticesTheorem`, `WaitReturnsTheorem` | under `PrefixFree`: a wait answered in time returns true, and one that returns true has its own URC |
| | `ImplementsMapTheorem` | under `PrefixFree`: the table implements `UrcMap` |
| `TxPathProofs` | `TransmitTypeCorrect`, `SendsInOrderTheorem` | types; the ring implements `TransmitQueue` |
| `UrcStreamProofs` | `StreamTypeCorrect`, `CallsAreUrcsTheorem` | types; a callback is called for its URC only, with that URC's data |
| | `LinesAreDeliveredTheorem` | for a `Receivable` table: a URC on a line of its own is delivered |
| `ReadPayloadProofs` | `ReadTypeCorrect` | types; `readResponse` reads no more than its buffer holds |
| | `OkHasArrivedTheorem`, `ResponseEndsTheorem`, `PayloadIsReturnedTheorem` | the three safety properties of `ReadPayload` |
| `ConnectionProofs` | `ConnectionTypeCorrect`, `EndLeavesNothingTheorem`, `NetworkBeliefTheorem`, `BrokerBeliefTheorem`, `StatusOfThisConnectTheorem`, `PublishedIsConfirmedTheorem`, `ResponseIsOfRequestTheorem` | types and the six safety properties of `Connection` |
| `ExtractValueProofs` | `ExtractTypeCorrect`, `InRangeIsValueTheorem`, `NotFoundOnlyIfAbsentTheorem` | types and the two properties of `ExtractValue` |
| `ProvisionProofs` | `ProvisionTypeCorrect`, `SuccessMeansStoredTheorem`, `ReadIsNewestTheorem`, `NotFoundIsAbsentTheorem` | types and the three safety properties of `Provision`, for every list of items, size of slot and blocks, and number of writes confirmed and not done |

### Assumptions

What the constants of a module must be like is assumed by name in the module
(`RingAssumption`, `TableAssumption`, `NullAssumption`, `FunctionAssumption`,
`MapAssumption`, `LineAssumption`, and so on) and evaluated by TLC in a run. Most
say no more than that sizes are natural numbers and that a null pointer or a
label of the model is none of the values it is told from. `CellAssumption` of
`Provision` says what a slot that was never written looks like: all ones, which
is no type of item and leads out of the slot. What a theorem needs
beyond that is a hypothesis of the theorem, because it is a fact about the
library's numbers and strings, and not always a true one:

- `UrcsFit`: identifiers of up to 28 bytes and data of up to 384 are shorter than
  510.
- `CounterDivisible`: 512 divides 65536.
- `PrefixFree`: no identifier begins another. It is needed because
  `unregisterCallback` compares only as many bytes as the identifier it is given
  has, so unregistering one would remove another that it begins.
- `Receivable`: an identifier with a callback has a byte at least and fits its
  buffer, does not start with a digit, has no `:` or CR in it, and is in one
  slot. The last is `IdentifiersUniqueTheorem`; the rest holds of the strings the
  library registers.

### Arguments

An invariant is seldom inductive by itself. What each proof adds, and why:

- `FillBounded`: that the ring is not full now says nothing of the bytes still to
  come. `FlowInvariant` bounds the count by how much the modem may still send in
  each situation (`LineBound`). The bad case is RTS set LOW over a ring that is
  almost full: behind a callback, by a main program that decided on LOW and was
  overtaken by interrupts that filled the ring, or at the end of a critical
  section. Each lets the modem send one more overshoot and a byte, which `Granted`
  counts by `late`; a ring no longer almost full starts anew.
- `NoStall`: a URC may be taken out of the ring between the decision to set RTS
  HIGH and the write. `StallInvariant` says that less of the ring belongs to the
  URC under way (`UnderWay`) than is in it; a URC that began later takes out only
  what it brought.
- `CountsAgree`: `Congruent` says the same of whole numbers, with a multiple of the
  ring's size between them, which every wrap preserves.
- `SuspensionHolds`: `ReadingInvariant`, since the write of `rtsUpdate()` comes a
  step after its decision.
- `ReadsInOrder` and `SendsInOrder`: a step of a ring is one of the abstract queue;
  `Unread` and `Unsent` are compared cell by cell. For `ReadsInOrder` a cell is
  that of every number congruent to its index, so that a byte stored by an
  overrun is found in both queues in the same places, which takes `Congruent` as
  long as nothing was miscounted (`Aligned`). `SendsInOrder` needs
  `RingInvariant`: the count is at most the size, and full with the program about
  to store only after its timer ran out.
- `LowPower`: `PowerIInv` says where in `powerSave()` the callback is attached, the
  mode set and RTS HIGH, or RING rang; and that a tick seen is counted or still
  pending in `pit_triggered`.
- `IdentifiersUnique` and the two properties of waits: `TableInvariant`. While a slot
  is written, nothing else in use has its identifier and no slot before it has,
  in use or left over (`Chosen`); of the slots with an identifier the first is
  the one in use (`FirstIsInUse`), which is what `unregisterCallback`, stopping at the
  first that matches, depends on; `Wait` is in one slot and only while a wait
  runs (`WaitSlot`).
- `ImplementsMap`: `MapInvariant` adds that only the slot being written is in use
  without a callback. When the map is full, the slots in use and the identifiers
  in the map are counted by a bijection between them.
- `CallsAreUrcs`: `StreamInvariant` says in each parser state which end of the
  stream the buffers hold, and `DataThere` that the URC begins behind all that an
  earlier call has used up. `LinesAreDelivered`: `LineInvariant` says for *every*
  position where a line starts and every slot that the parser is as far in it as
  the bytes that have come take it (`Followed`), which takes that a CR LF resets
  the parser from any state (`AfterCr`).
- `OkHasArrived`: while no OK has arrived none is in what is to come or left in the
  buffer (`NoneArrived`). `ResponseEnds`: `Written` (the buffer begins with what has
  been read, in which no end was overlooked), `LinesWhole` and `NoOldOk` (an OK left
  by an earlier try can only be in the first cell, which is overwritten first).
  `PayloadIsReturned`: `Awaited` says what is still to come for a call that nothing
  has disturbed, whatever pieces it is sent in, and `BufferKept` that the rest of
  the buffer is what the caller had in it.
- `EndLeavesNothing`: `LifeInvariant`, which relates who is registered to where the
  program is. `NetworkBelief`: `NetworkKnown`, the modem's present state is the last
  report on its way, or a report to come, or what the flag says.
  `BrokerBelief`: `BrokerInvariant`, a session that is believed in is up, or the
  message that says otherwise is on its way to a callback registered for it. It
  takes that a session is begun only on a network already reported (`SessionReported`).
  `StatusOfThisConnect`: `Separated`, the response to the disconnect that `begin()`
  starts with separates what is of an earlier session from what is of this one.
  `PublishedIsConfirmed`, `ResponseIsOfRequest`: `PublishOnce`, `SubscribeOnce`, and
  `RequestOnce` with `NoSession`: without an earlier request owing, all on its way is
  about this one.
- `SuccessMeansStored`: `Verified`, the items read back so far are in the list; what
  a reader reaches is in the list because it starts where the list does
  (`Walking`). `NotFoundIsAbsent`: what a reader has passed, with where it gives up,
  is closed under following the list, so it is all of the list (`ReachedWithin`).
  `ReadIsNewest`: `SlotKnown`, every cell of the slot is zero or a part of the newest
  items, or the list has been cleared at its beginning. In such a slot the list
  leads only to where items begin (`ReachedIsStart`), because none begins inside
  another (`NoneInside`), however much data looks like a header. `Start` is a
  recursive function: that it exists and grows is proved on the least list
  position at which it would not (`LeastOf`, from the well-foundedness of `<`).
- `InRangeIsValue`, `NotFoundOnlyIfAbsent`: `Searching` relates the two pointers to
  the number of delimiters passed.

Some of these proofs changed the models. `ResponseEndsCommand` was stated without
`late`: its proof failed where a late answer comes in two pieces, which one retry
could not show, and with two TLC shows it too. `ImplementsMap` took `PrefixFree`,
which was a remark before. For `NotFoundIsAbsent`, `Reached` of `Provision` is stated
as the least set closed under following the list, and no longer by recursion.

### What is left to TLC

- Liveness and `ENABLED`, which this prover cannot reason about: `AppendReturns`,
  `RingDrains`, `PowerSaveReturns`, `ReadReturns`, and `CallsReturn` of `Connection` and
  of `ReadPayload`.
- The three properties that are violated, under Findings.

No module has a `RECURSIVE` operator.

## Abstractions to know of

- Torn reads of 16-bit counters (`rx_num_elements` read in two bytes by the main
  program) are not modelled. A torn callback pointer is in the URC table
  (`UrcTable`); one of `ring_line_callback` (`:1226`), which the RING interrupt
  could read between its two bytes, is not: it is written at once.
- `should_clear` is the last field `registerCallback` writes and is left out of
  `UrcTable`, as are `waitForURC`'s action callback and the lengths of its
  buffers.
- `readByte` of an empty ring returns -1 and changes nothing, so it is no action.
- No URC identifier of the library begins another: `PrefixFree`, which
  `MCUrcTable` asserts of the identifiers of `urc_table`, and three theorems
  assume. Those of `urc_stream` do begin each other, which the interrupt's
  comparison of lengths and bytes can tell apart; `unregisterCallback` cannot.
- `readResponse` sees the receive path as a FIFO of cells; what URC handling
  takes out of a response is in `RxPath` only.
- In `Connection` a command is sent once (its retries are in `CommandResponse`),
  and the checks of the SIM card, of the time and of NTP in `Lte.begin()` are one
  choice between success and failure.
- The modem reports two URCs for each publication (`src/mqtt_client.cpp:740`).
  `Connection` sends one, the one that `publish()` waits for. The code does not
  say what the other is: without a callback it stays in the receive ring until
  `clearReceiveBuffer`. If it were a second `SQNSMQTTONPUBLISH` and came after
  the next `publish()` had registered for it, it would be taken for that one's
  confirmation, as the late one is that `Connection` has (`owing`).
- History variables, and the fields of `history` in `Connection`, are read by
  properties only and guard no action (`received`, in `CommandResponse`, stands for
  the number of bytes read as well).

## Not modelled, and why

- `begin()` and `end()` of the controller, pins, LEDs, logging: register writes and
  output, with nothing to interleave once interrupts are on.
- `SecurityProfile`, `ECC608.begin()`, the conversions of `generateSigningCommand`
  (signing succeeds or fails in `MqttSign`) and the critical section around it
  (what one does to RTS is in `RxPath`), `beginAWS` and `beginAzure`, which read
  provisioning items and call `begin`, and CryptoAuthLib: vendored code, of which
  only what a block write does to a slot is in `Provision`.
- `HttpClient.configure()`, `Lte.getOperator()`, the getters of
  `ECC608`: a command or a read that is modelled, and the formatting of its result.
- The encoding of power-save periods: a pure table look-up whose results
  are compared only with themselves.
- Example sketches, the hardware test and scripts. With CryptoAuthLib they are
  most of the lines of the repository; the library itself, `src/*.cpp` without
  them, is what these modules cover.

## Plan

Done: the models of all components above, their runs, and the safety of all of
them proved for every value of the constants, with the refinements
`ReadsInOrder`, `SendsInOrder` and `ImplementsMap`.
Left, in order of importance:

1. `Receivable` of the tables `UrcTable` can reach, so that `LinesAreDelivered` and
   `ImplementsMap` compose: a URC on a line of its own reaches the callback
   registered last.
2. Properties that say of the exceptions above (`miscounted`, `called`, `missed`,
   `unnoticed`, `overwritten`) how far their damage reaches and what ends it, as
   `late` does for the ring.
