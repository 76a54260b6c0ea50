# Verification of ArduinoDriver

ArduinoDriver puts an Arduino board's pins under the control of a host over
USB. A firmware library, `UsbIo` (`src/src`), answers vendor control transfers;
a C++20 library (`src/extras/driver`) sends them and has bindings for C, Python
and R. This directory holds TLA+ modules that model the parts of it where steps
of several actors interleave, TLC configurations that check them on small
instances, and proofs, checked by TLAPS, for every value of the constants.

## 1. Inventory

### Firmware (`src/src`)

| Part | State | Operations | Shared with |
|---|---|---|---|
| Interrupt handler, `handle_setup()` | intended modes `_mode`, `_epoch`, `_reset_requests`, `_last_error` | PIN_MODE, DIO/PWM/DAC_WRITE, RESET, GET_STATUS, the reads | `poll()`, without a lock |
| `poll()`, called from the sketch's `loop()` | `_reset_done`, `_ain_cursor`, shadows `_dio`, `_ain`, the pins themselves | apply a RESET, drain the queue, `execute()`, `refresh_shadow()` | the handler |
| Command ring | `_queue`, `_head` (handler), `_tail` (`poll()`) | `enqueue()`, drain | handler produces, `poll()` consumes |
| Pin events | `_event_watch`, `_event_n_watched`, `_event_arm_seq`, `_event_dropped` | EVENT_CONFIG, EVENT_POP, EVENT_COUNTS; `event_poll()`, `push_event()` | handler and `poll()` |
| Event ring | `_event_ring`, `_event_head` (`poll()`), `_event_tail` (handler) | push, pop, discard in place | `poll()` produces, handler consumes |
| Streaming | selection, `_stream_running`, period, START requests and the one done, ring of records, packet being filled, failures | STREAM_SELECT/START/STOP/STATUS, `stream_poll()`, `stream_sample()`, disconnection | handler, `poll()`, transport |
| Transports (`transport/`) | mbed: `_tx_in_progress`, `_tx_buffer` | hand SETUP packets to `handle_setup()`; `stream_write()` and the completion callback | USB interrupt and `poll()` |
| Board tables (`UsbIoBoard.h`) | none: macros and pin tables of the core | `begin()` derives pin count, capabilities and information from them | the replies to GET_INFO and GET_PIN_CAPS |
| Protocol (`usbio_protocol.h`) | none | constants and layouts | both sides of the wire |

The handler runs in interrupt context, to its end. `poll()` runs in `loop()`
and can be interrupted between any two memory accesses. Nothing is locked: each
shared variable has one writer, indices run freely and wrap at 256, RESET and
STREAM_START are request counters that `poll()` catches up with, and commands
carry the epoch in which they were accepted so that a RESET can invalidate them
without touching the consumer's index.

### Host (`src/extras/driver`)

| Part | State | Operations | Shared with |
|---|---|---|---|
| `Device` | transport mutex, stream mutex, `streaming`, `selected` | `send_out()` (STALL, then GET_STATUS), `read_in()` (retry on BUSY), `sync()`, `reset()`, `start_stream()`, `end_stream()`, `poll_events()`, `wait_event()` | any thread of the program, `Stream` and `EventWatcher` workers |
| `Stream` | worker thread, `ready` queue, statistics, callback, error, flags | worker loop, `read()`, `stop()`, `on_records()` | worker and caller |
| `EventWatcher` | worker thread, statistics, flags | constructor (arms pins, rolls back), worker loop, `stop()` | worker and caller |
| `LibusbTransport` | handle and claimed interface; `BulkRing`: eight transfers in flight, byte queue, fatal error | control transfers (repeated once after a signal); submit, complete, `read()`, destruction | libusb's event handling |
| `Protocol.h` | none | encoding, decoding, limits, unwrapping of 32-bit clocks | - |
| `Enumerator` | what each probe found | `list_devices()`, `open_first()`, `open_by_serial()` | every board on the bus |
| `arduino-io` (`tools/`) | command line, signal flag, destructors | one command per process; `monitor`, `stream` and `watch` loop until SIGINT | the board, which outlives the process |
| C API, Python, R | handles | conversion of arguments and errors | - |

### What is hard here

* **Interleaving.** A request lands between two accesses of `poll()`: between
  the release of a queue slot and the execution of its command, between the
  reading of a watch slot and the counting of its edge, inside a
  read-modify-write of a counter.
* **Ordering.** Intent is recorded when a command is accepted and applied
  later; RESET overtakes what is queued; two counters that say "requested" and
  "done" are compared from both sides.
* **Width.** Epochs, request counts, ring indices and arming stamps are 8 bits
  wide, clocks 32 bits.
* **Bounded buffers.** Command queue 32, event ring 32, stream ring 32, watch
  table 8: each has a policy for being full (refuse, drop and count, stop).
* **Progress.** BUSY must clear, a RESET must be applied, every analog pin must
  be sampled.
* **Partial failure and shutdown** on the host: a transfer that fails in the
  middle of a sequence, a worker that ends by itself, `stop()` against a
  blocked reader.

### What makes each part correct

* Command path: once nothing is pending, every configured pin is in the mode
  its host was told and drives the last value accepted; an analog read that
  answers OK is no older than the last mode change accepted for its pin, except
  while that PIN_MODE is the command in hand (section 4, known limits); a
  command from before a RESET does no lasting harm; a write never meets a pin
  in another mode.
* Rings: no entry lost, repeated, reordered or torn; refused only when full.
* Events: the first scan after an arming takes a baseline and counts from zero;
  numbers of one arming grow; drops are reported; OFF discards; the watch table
  agrees with its counter and with the modes.
* Streaming: a record is sent once or counted as an overrun; a new stream
  starts with empty ring and number zero; stopping a stream stops that stream.
* Host calls: a refusal always becomes an exception; a stream that started
  samples the pins that were asked for; a failed start takes its pins back;
  every call returns.
* Opening: the right board, and none asked for its capabilities before its
  sketch has reached `begin()`. (One that is inside `begin()` may be taken for
  ready: known limits.)
* Host events: as long as every transfer succeeds, each edge is queued,
  delivered, counted as dropped or discarded with its pin, save in three ways
  that `EventsConserved` names; each consumer's are in order; a watcher that
  failed or stopped leaves no pin armed, and `stop()` returns.
* Host streams: no buffer used while a transfer owns it; records received are
  read or counted; none of an earlier stream; the tail is read before a stream
  ends by itself; `stop()` and destruction return.
* Tool: whatever a process armed or started is undone on every way out, its
  exit code is true, and it ends.

`PROJECT.json` lists each hazard at its line.

## 2. Plan

In this order, and done:

1. `UsbIoProtocol`, `UsbIoCommands`: the command path; `UsbIoCommandsProofs`.
2. `BoundedFifo`, `SpscRing`, `SpscRingProofs`: why the other modules may use a
   sequence for a ring.
3. `UsbIoEvents`, `UsbIoEventsProofs`: pin events.
4. `UsbIoStream`, `UsbIoStreamProofs`: streaming, from the handler's requests to
   the packets given to the transport.
5. `BoardTables`: what a board says of itself. `HostProtocol`: the pure part of
   the driver, and the clocks.
6. `HostDevice`, `HostDeviceProofs`: threads calling one Device.
7. `HostOpen`, `HostEvents`, `HostEventsProofs`: finding and opening a board; the
   EventWatcher.
8. `HostBulk`, `HostStream`, `HostStreamProofs`: the way of a record from the
   endpoint to `read()`.
9. `HostTool`, `HostToolProofs`: the command line tool.

Which module composes which:

    UsbIoProtocol <- UsbIoCommands <- MCUsbIoCommands, UsbIoCommandsProofs
                  <- UsbIoEvents <- UsbIoEventsProofs
                  <- UsbIoStream <- UsbIoStreamProofs
                  <- BoardTables (with HostDevice in MCHostDevice)
                  <- HostProtocol <- HostDevice <- HostDeviceProofs
                                  <- HostOpen (with BoardTables) <- HostEvents
                                  <- HostBulk <- HostStream
    HostStream <- MCHostStream, HostStreamProofs
    HostEvents <- MCHostEvents, HostEventsProofs
    BoundedFifo <- SpscRing (refinement) <- SpscRingProofs
    HostTool <- MCHostTool, HostToolProofs

Each module of proofs stands alone: the few lemmas about numbers and sequences that
several need are stated in each.

## 3. Modules

### `UsbIoProtocol`

Pin modes with their wire numbers, capabilities, outcomes, and `mode_allowed()`,
`mode_is_input()`, `mode_is_digital()`.

### `UsbIoCommands` (with `MCUsbIoCommands`)

The handler's OUT requests are one action per outcome: `AcceptPinMode`,
`AcceptWrite`, `RejectCommand` (the checks are `Verdict`, in the order of the
code), `RejectRequest`, `HandleReset`, `HandleGetStatus`. The reads change
nothing; `DioReadReply` and `AiReadReply` are the answers, which properties
speak about. `poll()` is the sequence

    poll -> reset -> resetDone -> poll      (BeginReset, ApplyReset, FinishReset)
    poll -> drain -> dispatch -> execute    (TakeCommand, DispatchCommand, Apply*/Execute*)
    drain -> poll | refresh -> sample       (RepeatForReset, BeginRefresh, RefreshPin, SampleAnalog)

cut wherever a request served in between can make a difference: after the read
of `_reset_requests`, after `apply_reset()`, after the release of a slot, after
the test of the epoch, and between pins in `refresh_shadow()`. The inside of
`execute()` touches nothing the handler writes, so it is one step, and so is
`apply_reset()`.

`pad` and `drive` are what the hardware does: the mode a pad is really in and
what it drives. They are external and follow from how the code uses
`pinMode()`, `digitalWrite()`, `analogWrite()`, `analogRead()`: the last two
take the pad over, `digitalWrite()` drives it only if it is an output. `_ain`
is abstracted to `fresh`, the pins whose shadow was sampled since the host last
changed what it wants of them; `wanted` is a history variable.

`LastWriteApplied` and `WriteFindsItsMode` were sharpened against the code:
`refresh_shadow()` samples a pin for a PIN_MODE(ANALOG_IN) that is still
queued, so a write accepted before it can find the pad analog already.
That write is then superseded by the mode change and the property says so.

### `BoundedFifo`, `SpscRing`

`BoundedFifo` is what a ring promises. `SpscRing` is the ring: free-running
indices modulo `IndexMod`, slot = index modulo `Depth`, the fields of an entry
stored one after another, the index published last, the slot copied before it
is released. `Queued` maps the ring to the sequence of `BoundedFifo`, and
`ImplementsFifo` is its specification under that mapping. Both the command ring
(handler produces) and the event ring (`poll()` produces) are instances in
which one of the two sides is atomic; the module lets both be interrupted.
`RingAssumption` names what the code's constants must satisfy: the width of the
indices exceeds the depth, and the depth divides it.

### `UsbIoEvents`

Handler: `PinMode` (its effect on the watch table), `ConfigOff`, `ConfigArm`,
`Pop`, `Reset`. `event_poll()`: `BeginScan` stands for the part of `poll()`
before it and leaves any levels in the shadow; then per slot `SkipInactive` or
`LatchPin`, then `TakeBaseline`, `NoEdge` or `SeeEdge`, the two reads of the
edge mode (`NotAnyEdge`, `Matches`), `AbsorbEdge` or `CountEdge`, then
`Publish`, or `FindFull` and the load and the store of the drop counter
(`LoadDropped`, `StoreDropped`, `DroppedSaturated`). A discarded event stays in
the ring as a tombstone, as in the code, and occupies it.

Time is abstracted to whether a debounce window may still be open. `order`,
`lost`, `mayFind` and an entry's `arming` are history.

### `UsbIoStream`

Handler: `Select`, `Deselect`, `Start`, `Stop`, and what `PinMode`, `Reset` and
`Disconnect` do to a stream; requests that are refused change nothing here.
`stream_poll()` is the sequence

    idle -> sampling                 (NoticeStart empties everything | NoStart)
    sampling -> record | drain       (BeginRecord | NotDue)
    record -> record | drain         (SampleChannel | PushRecord, DropRecord)
    drain -> flush -> idle | write   (FillPacket; HoldBack | Flush)
    write -> idle                    (WriteSent, WriteBusy, WriteFailed, GiveUp)

cut where a request can matter: between the test of the START requests and that
of `_stream_running`, between the channels of a record, around the drain, and
during the transport's write, which blocks on SAMD. What the write returns is
free within `Results`. Whether a record is due or a packet has waited
`StreamFlushUs` is free as well. A record is its number, how many samples its
header promises and how many it holds; its length is abstracted, a packet holds
`PacketMax` of them. `sent` and `nextOnWire` are history. The samples,
the digital part of a record and `GET_STREAM_STATUS` are left out.

### `BoardTables`

`UsbIoBoard.h` is one operator per table, by architecture: from what an Arduino
core declares (macros, pin attributes) to the capabilities `begin()` keeps
(`BeginCaps`: at most 128 pins, and the first 32 analog ones), the reply to
GET_INFO (`BoardInfo`) and the checks of the driver (`InfoAccepted`,
`CapsAccepted`). The boards of `MCHostDevice` and `MCHostEvents` are built with
them, and the assumption `BoardsAccepted` of `MCHostDevice` is evaluated for
boards of all five architectures with no, 32 and 40 analog inputs and with named
pins past the headers: what a board derives is what the driver accepts.

### `HostProtocol`

The operators of `Protocol.h` and the checks of `Device.cpp` that compute
something: which exception a status becomes, which capability a mode needs,
full scales, packed words, record lengths, and the wrapping clocks and counters:
`ReconstructMicros`, `IsStale`, `SeqGap`, and of the firmware `IsDue` and
`NextDeadline`.

### `HostDevice` (with `MCHostDevice`)

A method of `Device` is a sequence of control transfers, and each transfer is
one step, because `send_out()` and `raw_in()` hold the transfer mutex around
exactly one. A thread goes

    idle -> out | in | sync                                  (Call: gate and local checks)
    out -> idle | forget -> idle                             (Out; reset() then clears its list)
    lock -> leftover -> halt -> drop -> select -> count      (start_stream())
         -> clear -> recount -> time -> start -> idle
    any of select .. start -> undo -> idle                   (Fail)

`Refused` is the first of the two transfers of a STALL, and the reason is read
by a second one, between which other threads' transfers fall. The worker of a
running Stream polls the status next to it (`Io(t)`), and `Join` is
`Stream::stop()` waiting for it. The device is what its handler shows of itself;
`DevicePoll` is its `poll()`. A transfer may be lost before or after the device
served it.

### `HostOpen`, `HostEvents` (with `MCHostEvents`)

`HostOpen` is `list_devices()`, `open_first()`/`open_by_serial()` and the
constructor of `Device`: `OpenHandle`, `ClaimInterface`, `ProbeAnswers` or
`ProbeFails`, `Pick`, then `LoadInfo`, `LoadCaps`, or `OpenFails`,
`Inconsistent`. Each board may enter `begin()` and return from it meanwhile
(`BeginStarts`, `BeginEnds`); a GET_INFO answered inside it is incomplete, and
may or may not pass the checks. When a Device is ready, `HostEvents` goes on: an
application that constructs watchers, stops them and calls `wait_event()`; the
watcher's worker; edges on the device; a Stream that closes the gate. The wait of
the worker is three steps (`TestFlag`, `FallAsleep`, `IntervalEnds`) because
`stop()` sets the flag and notifies without the mutex. Edges carry one running
number per pin, which is history: the device numbers within an arming
(`UsbIoEvents`).

A count of drops stays at its limit `DropMax`, 255 in the code, in the device
(`Edge`) and over the replies of one poll (`AddBatch`); both are `Saturated`. An
`ArduinoDriver::Error` that the callback throws, for instance DeviceBusy from a
Device it calls while a Stream runs, abandons the rest of the batch
(`CallbackThrows`), and a thread that cannot be started leaves a constructor
without its rollback (`NoThread`). `fate` is history: the edges that no statistic
counts, because `wait_event()` returned them or their pin was disarmed, and those
nobody is told of.

### `HostBulk`, `HostStream` (with `MCHostStream`)

`HostBulk` is the path of the bytes: `stream_write()` of the mbed core in four
steps with the completion interrupt between any two, the endpoint, and
`BulkRing` with its transfers in flight, completions whose callback is due,
cancellations and teardown. A record is two units, so that a read may end in
the middle of one. `HostStream` is the worker (read, decode, queue, poll the status,
end), threads in `read()`, and the thread that starts, stops and destroys. A
reader holds the mutex from its test of the predicate to its wait.

### `HostTool` (with `MCHostTool`)

One process of `arduino-io` after another on one board: a command line is a
command, arguments that are good, malformed or refused, and options; the steps
are those of `run()` and of the commands, each call on the Device may throw, and
unwinding runs the destructors of what the process holds. SIGINT kills a process
before `signal()` and sets a flag after it.

## 4. Runs

| Run | Checks | Bounds |
|---|---|---|
| `commands_mixed` | `TypeOK`, `IntentApplied`, `LastWriteApplied`, `AnalogReadIsFresh`, `StaleOnlyBeforeReset`, `WriteFindsItsMode` | two pins of different capabilities, queue of 2, tags modulo 3 |
| `commands_progress` | `ResetIsApplied`, `BusyClears`, `RoundRobin` | three pins, two of them analog, queue of 2, tags modulo 3 |
| `commands_survive` | refutes `CommandsAfterResetSurvive` | one pin, queue of 2, tags modulo 4, a host that does not wait for its RESET |
| `ring_wrap` | `ImplementsFifo` | depth 4, indices modulo 8, three entries |
| `events_races` | `TypeOK`, `BaselineTracks`, `SeqOrdered`, `DropsAreReported`, `OffDiscards` | two pins that share one slot, ring of 2, stamps modulo 3, two edges per arming |
| `events_slots` | `WatchTable`, `CountsInArmOrder` | two pins, two slots, stamps modulo 4, no edges |
| `stream_flow` | `TypeOK`, `Conserved`, `InOrder`, `TornIsLast`, `StoppedIsDrained` | two pins, a ring of one record, packets of two, failure limit 2, four records a stream, START requests modulo 2 |
| `host_device` | `TypeOK`, `RefusalIsReported`, `StartedAsAsked`, `FailedStartUndone`, `CallsReturn` | two threads with two calls and one, a board of two pins, queue of 1, two attempts on BUSY, one lost transfer, pins and sampling left behind by another process |
| `start_order` | refutes `ChannelsInOrder` | one thread, two starts |
| `host_events` | `OpensTheRightOne`, `EventsConserved`, `NothingLeftArmed`, `EventsInOrder`, `WatcherStops` | five USB devices, two readiness attempts; two pins, ring of 2, one event per reply, counts of drops up to 1, two edges per pin, two watchers, one Stream, one transfer gone wrong or thread not started |
| `host_stream` | `BuffersSafe`, `RecordsAccounted`, `OnlyThisStream`, `DrainedBeforeEnd`, `StopReturns` | two streams of three and one records, packets of one, two transfers, chunks of one record and a half, a queue of one, one reader, one fault |
| `host_tool` | `LeavesDeviceClean`, `ExitTellsTruth`, `ToolEnds` | two processes, over ninety command lines |

**Why the bounds are enough.** A queue of two is the smallest that holds a
PIN_MODE with a write behind it and can be full with a command in hand. Tags
modulo 3 let a second RESET arrive while the first is applied and still tell
three epochs apart. One slot for two pins is the tightest reuse of a watch
slot; two slots are the least that can be out of order. An index space of
twice the depth wraps at every second lap, as the code's does at every
fourth or eighth. Four records are one more than a ring of one and a packet of
two can hold, so that one is dropped; two failures are the least that
distinguish a failure from the last one.

On the host, two threads are what the Stream gate, the stream mutex and the
reason of a STALL need to be contended; a third call is what comes between two
of another thread. Pins left behind are none, one of those asked for, or both in the
wrong order, with the device sampling or not. One lost transfer hits every
transfer of every sequence in turn. Replies of one event make every poll of two
edges a sequence of batches, and a ring of two overflows with the third edge; the
fourth meets the limit of the device's count. The limit over the replies of one
poll would take a fifth edge, which is beyond this run: that half of `Saturated`
is covered by the theorem `EdgesConserved` only. A
chunk of one record and a half puts the end of a read in the middle of a record, at
either phase; two transfers are the least of which one completes while the
other is cancelled. The second stream is one record long because it is there for what the
first left in the endpoint and in the ring.

**Named bounds in guards.** `NoTagReuse` (`HandleReset`): the 8-bit tags do not
come round within one `poll()`. `RequestArrives`: at most one request is served
while `event_poll()` has hold of a slot. `SeqIsNew`: the stamps of armings do
not come round to one still in use. `NextRequest # startDone` (`Start`): the
8-bit START count does not come round within one `stream_poll()`. `MaxSeq`: no
more records of one stream. `MaxCount`: an input on which so many edges were
counted in one arming stays as it is. `ResetBarrier`: the host waits for a RESET
before it sends pin commands; `commands_survive` lifts it. `MaxCalls`,
`MaxFaults`, `MaxEdges`, `MaxStreams`, `MaxWatchers`, `MaxRuns`: calls of a
thread, transfers gone wrong (in `HostEvents` also threads that cannot be
started), edges of a pin, Streams, watchers, processes.
`ClockWrap`: the clock of `HostBulk`, wide enough that no record of an instance
is half a turn old, before or after a start (beyond that the code errs, see below).

`CHECK_DEADLOCK FALSE` stands in each cfg whose instance stops at such a bound
or with the end of a process.

Every property of a passing run has a mutant in the module of the code it is
about, `Bug...`, that breaks it: a dropped test, an index published too early,
a rollback left out, a drain that ends at the first empty read.

### What the refuting runs show

* **A command accepted right after a RESET can be lost** (`commands_survive`).
  `poll()` is draining; RESET arrives, then PIN_MODE; the loop takes the PIN_MODE,
  whose epoch is current, and executes it; then the outer loop applies the RESET
  and makes the pin an input. `_mode` still says what PIN_MODE asked for. The
  comment in `request_reset()` promises that such commands survive.
  `Device::reset()` does not wait, and GET_STATUS does not show a pending RESET.
  With a host that waits (`ResetBarrier`) the promise holds, is checked and is
  proved (`IntentIsApplied`).
* **A second stream with the same pins in another order is mislabelled**
  (`start_order`). `start_stream()` deselects only pins it does not ask for
  again; the others are selected already and the device leaves them where they
  were, so the samples arrive in the old order under the new labels.

### Known limits

Modelling showed these as well. No property claims the contrary, and where one
comes close its wording or a named bound excludes them.

Firmware:

* The slot of a command is released before the command is executed
  (UsbIo.cpp:622-624): a read in between answers OK with the value of before it.
  For an analog read this is the exception `ModeInHand` of `AnalogReadIsFresh`: the
  command in hand is the PIN_MODE of that pin. For any other pin, and with any other
  command in hand, the property holds.
* EVENT_COUNTS between an arming and the first scan reports the counter of the
  arming before (UsbIo.cpp:590). An arming stamp that comes round its 8 bits to
  the one the slot saw last goes unnoticed and takes no baseline (UsbIo.cpp:884).
  Armings 128 or more apart are misordered (UsbIo.cpp:572).
* `poll()` can stop a stream that was just started (UsbIo.cpp:1110, :1162): it
  decides to give up the one before, a STOP and a START are served, and it
  clears `_stream_running` all the same.
* A pin quiet for more than 2^31 ms has its next edge absorbed (UsbIo.cpp:907).
* `begin()` sets the number of pins before the rest (UsbIo.cpp:101): GET_INFO
  answered inside it is incomplete, and may be accepted.
* A disconnection clears the streaming state only (UsbIo.cpp:926); watches
  survive it, although usbio_protocol.h:513 says they do not survive a
  re-enumeration.

Host:

* Two threads that both pass `check_not_streaming()` (Device.cpp:369) both start
  a Stream; the second halts the first one's sampling and both take the same
  bytes. `reset()` clears the list of selected pins without the stream mutex.
* After a failed start the pins of an *earlier* stream may stay selected
  (Device.h:227 says none does), and if the answer to STREAM_START was lost
  the device samples on and refuses the rollback with BUSY.
* The reason of a STALL may be another thread's; what is certain is that there is
  an exception. A STALL because of BUSY becomes DeviceBusy, which Device.h:77
  lists under ProtocolError.
* `open_first()` picks a device that has the interface although its probe failed,
  before a healthy second one.
* `transfer()` repeats a request that a signal interrupted, also EVENT_POP,
  which is not idempotent (LibusbTransport.cpp:504); `poll_events()` loses
  earlier batches when a later one throws, and goes on while more is pending,
  without a look at the stop flag.
* Edges nobody is told of although no transfer fails: `wait_event()` discards the
  drop count; drops beyond 255 between two EVENT_POPs (UsbIo.cpp:859-861,
  documented at Device.h:257) and over the replies of one poll (Device.cpp:611),
  although EventWatcher.h:55 says that `dropped` is the device's counter "summed
  across every poll_events() call"; and the event at which the callback throws an
  `ArduinoDriver::Error`, with all behind it in the batch (EventWatcher.cpp:54-61),
  although EventWatcher.h:54 calls `events_delivered` "callback invocations so
  far". These are `Untold` in `EventsConserved`. An exception of another type ends
  the program.
* `stop()` of a watcher while a Stream runs leaves its pins armed, and so does
  a constructor whose EVENT_CONFIG was served but not answered, or whose
  `std::thread` throws (EventWatcher.cpp:101).
* A stream that lasts longer than half a turn of `micros()`, 36 minutes, receives
  nothing for the next half (Stream.cpp:162): it takes its own records for older than
  its start and counts them as `stale_records`, which Stream.h:90 says are "records
  sampled before this stream's STREAM_START". Conversely a record that has been in the
  endpoint for longer than that is taken for a new one. A fatal
  error of the ring is thrown before the bytes it still holds are given out.
* The comment at Stream.cpp:215 says more of `read()` than its predicate
  (261-264), which does not test whether the worker runs.
* A callback that calls `stop()` joins its own thread (documented).
* `arduino-io` opens its CSV file after it has started the stream, contrary to
  arduino-io.cpp:870; killed before `signal()` it leaves the board as it is; and
  the loop of `stream` may leave a record ready when it ends.

## 5. Fairness

`FairSpec` of `UsbIoCommands` states `WF_vars(PollStep)`. The
sketch calls `poll()` from `loop()` for ever, no handler runs for ever, and
every step of `poll()` is enabled whenever it is `poll()`'s turn. Nothing is
assumed of the host: `BusyClears` and `RoundRobin` are conditional on the host
becoming quiet (`HostSettles`), because a host that never stops sending keeps
the drain loop of `poll()` from ending. `ResetIsApplied` needs no such
condition because its host waits for a RESET (`ResetBarrier`): one that does
not could delay the RESET behind a drain loop it keeps busy.

`FairSpec` of `UsbIoStream` adds strong fairness of a write that does not find
a packet in flight. On SAMD a write never does (`pluggable_samd.cpp` blocks and
answers SENT or FAILED); on Mbed (`pluggable_mbed.cpp` answers SENT or BUSY) it
says that the host goes on reading the endpoint. `StoppedIsDrained` also needs
the host to become quiet and the stream to stay stopped.

`HostDevice`: a thread in the middle of a call goes on (weak), and one that
waits for the stream mutex gets it in the end (strong, as a mutex that is
released again and again); every transfer has a timeout, so it ends. Nothing is
assumed of the device. `HostEvents`: the worker runs and its waits have an
interval; the application is only assumed to go on with a `stop()` or a
constructor it has begun. `HostStream`: threads are scheduled, waits have
timeouts, whoever waits pumps libusb's events, and the kernel completes a
transfer that was cancelled; a device that is plugged in delivers a packet to a
waiting transfer. `HostTool`: a process runs; a loop without `--seconds` is
left only by SIGINT or an error, and `ToolEnds` says so.

## 6. Proofs

Each theorem holds for every value of the constants that the module's assumption
allows. The assumptions say no more than the code: sizes are not zero, the depth of
a ring divides the width of its indices (`RingAssumption`), a watcher has pins
(`EventsAssumption`: its constructor throws without), a bus is a list of devices
(`OpenAssumption`), and the calls and command lines are records of the right form
(`DeviceAssumption`, `ToolAssumption`). The bounds of section 4 are constants, so
that the theorems hold for every bound.

An invariant is proved by way of a stronger one, which TLC checked first. What each
one adds is the argument:

`UsbIoCommandsProofs`, the command path.

* `TypeCorrect`: `[]TypeOK`. The work is in `AcceptedIsWellFormed` (what
  passes `Verdict` is a well-formed command and there is room for it),
  `ScaledDac` and `DrivenType` (a DAC code in range is in range after scaling).
* `StaleCommandsAreUndone`: `[]StaleOnlyBeforeReset`, inductive together
  with `TypeOK`. The RESET that makes a command stale also makes a reset
  pending; `poll()` cannot finish a reset while it has a command in hand.
* `IntentIsApplied`: `ResetBarrier` gives `[]IntentApplied`.
  `IntentApplied` says nothing while work is pending, so it is not inductive.
  `IntentInv` strengthens it: the mode intended for a pin is that of the last
  current PIN_MODE for it in the queue, or else of the one in hand, or else
  what the pad already is; while a RESET is pending there is no current
  command, and the intent is what the RESET will make of the pins. The barrier
  is needed for exactly the last part, which is where `commands_survive` fails.
* `WritesReachThePins`, `AnalogReadsAreFresh`, `WritesFindTheirMode`:
  under the same `ResetBarrier`, `LastWriteApplied`, `AnalogReadIsFresh` and
  `WriteFindsItsMode`. `WriteInv` reads the queue as the history of each pin:
  the last live entry is what the host expects (`LastPart`), a pin meant to be
  analog is sampled or its PIN_MODE is yet to come, in the queue or in hand
  (`FreshPart`; the latter is the exception of `AnalogReadIsFresh`), and each live
  write agrees in mode with the entry of its pin before it, the first of them with
  the hardware, which may be analog early (`ChainPart`).

`UsbIoStreamProofs`, streaming in the firmware.

* `StreamTypeCorrect`, `RecordsAreConserved`, `RecordsAreInOrder`: `TypeOK`,
  `Conserved` and `InOrder` are invariants. They need each other: `seq` bounds
  `sent` and `overruns` only because records are conserved, and the number after
  the last one sent is in range only because they are in order. `StreamInv` adds
  that the record being filled has the number `seq` still holds, that a packet
  being written is not empty, and that the wire is behind `seq`. The requests
  touch none of this (`HostKeepsStream`); of the steps of `stream_poll()`, those
  that move records have a lemma each, over `OrderedAppend`, `OrderedSuffix` and
  `MoveKeepsWaiting`. The Boolean flags are handled apart (`FlagsNext`).
* `TornRecordIsLast`: `[]TornIsLast`. `TornInv`: as long as a START that was noticed
  is current, all that waits is whole, and the record being filled will be unless
  the stream is stopped first, since the selection changes only in a stopped stream.

`SpscRingProofs`, the lock-free ring.

* `RingImplementsFifo`: `Spec => ImplementsFifo`, that is, under the mapping
  `Queued` every step is one of `BoundedFifo` or a stutter. `RingInv`: the indices
  are never further apart than the ring is deep, a half-stored entry is in the slot
  behind the queue, every slot between the indices holds one whole entry, and
  the consumer's copy is the oldest. Publishing lengthens `Queued` by one
  entry, releasing takes the first off; the arithmetic of wrapping indices is where
  `RingAssumption` is needed.

`UsbIoEventsProofs`, pin events, a request between any two steps of a scan.

* `EventsTypes`, `WatchTableHolds`, `BaselinesTrack`: `TypeOK`, `WatchTable`,
  `BaselineTracks`. The slot that `event_poll()` holds may be disarmed under it but
  not given to another pin before it lets go (`HoldsSlot`), and
  `Baselines` is `BaselineTracks` for the slots the scan has passed.
* `EdgesNumberedInOrder`, `NoDropUnreported`, `OffLeavesAtMostOne`:
  `SeqOrdered`, `DropsAreReported`, `OffDiscards`. The entries of the arming a
  slot counts for are numbered up to its count (`NumberedUpTo`); an OFF leaves no
  slot and no event behind but the one the scan has in hand (`OffKept`).
* `CountsFollowArming`: `CountsInArmOrder`. `ArmOrder`: the history of armings names the
  watched pins, the ages of their stamps (armings since, modulo `SeqMod`) fall
  along it, and none has reached half a turn, which is the bound `SeqIsNew`. Then
  the signed difference of two stamps tells which is the later (`LaterIs`), each
  round of the insertion sort adds a slot to a sorted sequence (`InsertedIs`,
  `SortedOrders`), and there is only one such sequence of the same slots
  (`OneOrder`).

`HostDeviceProofs`, any number of threads on one `Device`.

* `MutexDiscipline`, `RefusalsAreReported`, `StreamSamplesWhatWasAsked`: `TypeOK`
  and the action properties `RefusalIsReported` and `StartedAsAsked`.
  `DeviceInv`: the holder of the stream mutex is the one thread in a locked stage,
  and what a thread in the middle of `start_stream()` knows of the selection
  (`Fits`). A RESET of another thread can empty the selection
  at any point, so what holds is "all of the asked, or only of the asked"; when the
  count is right the two are one.

`HostEventsProofs`, opening and watching.

* `RightBoardOpened`: `SerialAsked` gives `[]OpensTheRightOne`. `OpenInv`: a device
  that listing has passed kept silent or is in the list, and what is listed as
  identified runs UsbIo with its own serial or one that could not be read. The
  last is why the hypothesis excludes the empty serial: `open_by_serial("")`
  compares it with the serial that was not read, and opens that device
  (Enumerator.cpp:253).
* `NothingStaysArmed`: `[]NothingLeftArmed`. `ArmedPart`: while
  the constructor arms, only pins before the current one are armed; while
  `stop()` or the rollback disarms, only those still in its list. A failure that is
  swallowed, and a thread that cannot be started, are on record (`swallowed`).
* `EventsComeInOrder`: the action property `EventsInOrder`. `OrderPart`: the
  batch in the worker's hands comes before the ring, both are ordered
  for each pin, and nothing in either is as old as what a consumer was given.
* `EdgesConserved`: `[]EventsConserved`. `AccountInv`: the worker has events and drops
  in hand only between the first reply of a poll and its last event (`HandPart`), so
  that what a poll, a stop or an arming throws away is nothing. Then an edge adds one to
  what was accepted and one to the total of what is accounted for and what nobody is
  told of (`EdgeAccounted`), and every other step moves events and drops from one place
  to another, or is a fault (`Moved`). What a count at its limit does not take, what
  `wait_event()` takes and what a throwing callback abandons are moved to `Untold`,
  and nothing else is.

`HostToolProofs`, every sequence of processes with every command line.

* `ProcessLeavesDeviceClean`, `ProcessTellsTruth`: `LeavesDeviceClean`,
  `ExitTellsTruth`. `ToolInv`: what the process did to the board is held by an object
  whose destructor undoes it (`Owed`), each stage knows what the command line passed
  (`Passed`), and a failure on record is never overwritten (`Verdicts`).

`HostStreamProofs`, a stream on the host's side, from the packet to `read()`.

* `BuffersAreSafe`: `[]BuffersSafe`. `BulkInv`: what `stream_write()` is about to do
  with the flag and the buffer in each of its steps (`WritePart`), and that
  `_outstanding` is the transfers in flight and those whose callback is due
  (`RingPart`).
* `RecordsAreAccounted`, `OneStreamOnly`, `DrainsBeforeEnd`: `WideClock` gives
  `[]RecordsAccounted`, `[]OnlyThisStream`, `[]DrainedBeforeEnd`. The three need one
  invariant, `StreamInv`. Its heart is `FlowPart`: there is one sequence of
  records, all that is on its way, of which the worker's buffer and the ring's bytes
  spell the first ones, perhaps beginning in the middle of a record, and the
  completions, the armed packet and the packet being filled hold the others
  (`Lays`). Of this sequence, the records of this stream have growing numbers, later
  than the last one received and none of them dropped (`Ordered`); each
  number sampled was received, dropped, is in it, or was lost behind it with the
  cable (`Covered`); and each time stamp is that of a moment no longer ago than all
  streams last together (`Timed`). `CountPart` ties the counters to the last number
  received, `HandedPart` what was handed over, and `EndPart` says that what a stream
  that ended by itself has counted is all there was. Each step of the bus, of the
  transport and of the worker moves records along the sequence (`LaysMove`), adds one
  at its end (`LaysMore`) or takes one off its front (`LaysRecord`).
* `WideClock` is needed, and says what the code relies on: all records and
  starts, up to each stream's end, fit into half a turn of the clock. `LateIsStale`
  shows that otherwise records of the stream itself are discarded as stale.

In the same module, about operators, for every width of the clocks; no run could
try 2^32 of them:

* `ReconstructExact`: the 64-bit time built from `millis()` and `micros()` read
  together is exact.
* `StaleExact`, `GapExact`, `DueExact`: the three tests of a wrapping difference
  are right up to half a wrap, which is the distance the known limits name;
  `LateIsStale`: beyond it the first of them is wrong.
* `DeadlineNeverLags`: the next sampling deadline lies ahead, by one period at
  most, and on the grid of the period unless that point has passed.
* `ModesAgree`: the driver's table of modes and the firmware's `mode_allowed()`
  accept the same. `WordRoundTrip`, `RecordLenEven`: packed words come apart
  again, and records are whole 16-bit units.

**Only model-checked.**

* Liveness: `ResetIsApplied`, `BusyClears`, `RoundRobin`, `StoppedIsDrained`,
  `CallsReturn`, `WatcherStops`, `StopReturns`, `ToolEnds`. Fairness and ENABLED are
  out of the prover's reach.
* `FailedStartUndone` is true of the calls of the run, not of all: a pin that lost
  its input mode and is given one again while the rollback runs may be skipped
  by it and stay selected. An invariant would have to describe the calls.

The library's `SelectSeq`, `SortSeq` and folds take an operator, and the provers
cannot instantiate those. Where something proved needs one, the model has a
recursive function instead: `Kept` of `HostEvents` is what `SelectSeq` gives and
`Sorted` of `UsbIoEvents` the insertion sort of the code. `Induction`, which speaks of
sets of numbers and not of predicates, is enough to prove what they compute. For the
same reason `EventsConserved` counts the set of the accepted edges and does not sum
over the pins.

Where several guards of a `CASE` can be true, TLC takes the first and the logic
allows any; the modules use chains of `IF` there.

## 7. Not modelled

* `FakeTransport`, the double of the device in the driver's tests: the firmware
  itself is modelled.
* C API, Python and R packages: one wrapper per method, which turns arguments
  and exceptions; no state beyond handles and no order of their own.
* Example sketches: they are the assumption that `poll()` is called for ever.
* The transports of the SAMD, Renesas, RP2040 and ESP32 cores beyond the answers of
  their `stream_write()`: hooks into the core's USB stack.
* libusb, the kernel and the USB host controller: external, modelled by what the
  code relies on.
* Field-by-field layouts of replies, texts of messages, tables the tool prints,
  and the names of boards. The direction and the time stamp of an event are left out.
