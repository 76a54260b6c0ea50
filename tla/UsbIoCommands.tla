---------------------------- MODULE UsbIoCommands ----------------------------
(***************************************************************************)
(* The command path of the UsbIo firmware (UsbIo.cpp): the interrupt       *)
(* handler validates OUT requests, records the intended pin modes and      *)
(* queues commands; poll(), called from the sketch's loop(), applies       *)
(* pending RESETs, drains the queue, executes commands on the pins and     *)
(* refreshes the shadow state that IN requests are answered from.          *)
(*                                                                         *)
(* The two sides share memory without a lock.  An interrupt runs to its    *)
(* end, so every handler is one action; poll() can be interrupted between  *)
(* any two accesses to shared state, so it is a sequence of steps, with a  *)
(* program counter.  The queue is a sequence here: SpscRing shows that the *)
(* ring of wrapping 8-bit indices in the code implements a bounded FIFO.   *)
(***************************************************************************)
EXTENDS UsbIoProtocol, Integers, Sequences

CONSTANTS
    NPins,          \* number of pins of the board (_n_pins)
    Caps,           \* capabilities of each pin (_caps)
    HasPulldown,    \* UsbIoBoard::HasPulldown
    QueueDepth,     \* USBIO_QUEUE_DEPTH
    TagMod,         \* modulus of _epoch and _reset_requests: 256 in the code
    PwmMax,         \* full_scale(PwmBits)
    DacMax,         \* full_scale(DacBits)
    DacScale,       \* 2^(PwmBits - DacBits): a DAC code in analogWrite() units
    Levels,         \* the levels digitalRead() may return in this instance
    Requests,       \* the pin commands the host may send
    ResetBarrier    \* TRUE: the host sends no pin command while a RESET is
                    \* pending; FALSE: it does not wait

Pins == 0 .. NPins - 1

Commands == {"PIN_MODE", "DIO_WRITE", "PWM_WRITE", "DAC_WRITE"}

(* No value has been accepted for a pin since its mode was last set.       *)
NoValue == -1

ASSUME CommandsAssumption ==
    /\ NPins \in Nat \ {0}
    /\ Caps \in [Pins -> SUBSET Capabilities]
    /\ HasPulldown \in BOOLEAN
    /\ QueueDepth \in Nat \ {0}
    /\ TagMod \in Nat \ {0, 1}
    /\ PwmMax \in Nat /\ DacMax \in Nat /\ DacScale \in Nat \ {0}
    /\ PwmMax > 0
    /\ DacMax * DacScale <= PwmMax          \* DacBits <= PwmBits
    /\ Levels \subseteq {0, 1} /\ Levels # {}
    /\ Requests \subseteq [cmd : Commands, pin : Nat, value : Nat]
    /\ ResetBarrier \in BOOLEAN

VARIABLES
    mode,           \* _mode: intended mode, recorded when PIN_MODE is accepted
    queue,          \* _queue between _tail and _head
    epoch,          \* _epoch: the tag given to accepted commands
    resetRequests,  \* _reset_requests: bumped by the handler
    resetDone,      \* _reset_done: the last request poll() has honoured
    lastError,      \* _last_error
    pc,             \* where poll() is
    cur,            \* poll()'s copy `c` of the command it took
    seen,           \* poll()'s copy `seen` of _reset_requests
    idx,            \* poll()'s loop counter in refresh_shadow()
    cursor,         \* _ain_cursor
    pad,            \* the mode the hardware of a pin is really in
    drive,          \* the value a pin drives: level, PWM duty or DAC code
    dio,            \* _dio: the digital shadow
    fresh,          \* pins whose _ain shadow was sampled since the host last
                    \* asked for their mode: the part of _ain that matters
    wanted          \* history: the last output value accepted for a pin

isrVars  == <<mode, epoch, resetRequests, lastError>>
pollVars == <<pc, cur, seen, idx, cursor>>
pinVars  == <<pad, drive, dio>>
vars == <<isrVars, queue, resetDone, pollVars, pinVars, fresh, wanted>>

(* What poll()'s locals hold when they are dead: one value, so that states *)
(* that differ only in dead locals are one state.                          *)
NoCommand == [cmd |-> "NONE", pin |-> 0, value |-> 0, epoch |-> 0]

Wrap(i) == IF i = TagMod - 1 THEN 0 ELSE i + 1

ResetPending == resetDone # resetRequests

(* busy(): what the handler calls pending.                                 *)
Busy == queue # <<>> \/ ResetPending

(* poll() has taken a command out of the queue and not yet executed it.    *)
InFlight == pc \in {"dispatch", "execute"}

Init ==
    /\ mode = [p \in Pins |-> ModeNone]
    /\ queue = <<>>
    /\ epoch = 0 /\ resetRequests = 0 /\ resetDone = 0
    /\ lastError = "OK"
    /\ pc = "poll" /\ cur = NoCommand /\ seen = 0 /\ idx = 0 /\ cursor = 0
    /\ pad = [p \in Pins |-> ModeNone]
    /\ drive = [p \in Pins |-> 0]
    /\ dio = [p \in Pins |-> 0]
    /\ fresh = {}
    /\ wanted = [p \in Pins |-> NoValue]
-----------------------------------------------------------------------------
(***************************************************************************)
(* The interrupt side: handle_setup() and what it calls.                   *)
(***************************************************************************)

(* The mode a write command needs its pin to be in.                        *)
ModeFor(cmd) ==
    CASE cmd = "DIO_WRITE" -> OUTPUT
      [] cmd = "PWM_WRITE" -> PWM
      [] cmd = "DAC_WRITE" -> DAC

MaxValue(cmd) == IF cmd = "PWM_WRITE" THEN PwmMax ELSE DacMax

(* enqueue()'s test of (uint8_t)(head - _tail) >= USBIO_QUEUE_DEPTH.        *)
BugFullOneLate == Len(queue) > QueueDepth
QueueIsFull == Len(queue) >= QueueDepth

(* handle_out()'s checks of a pin command, in the order they are made: the *)
(* first that fails is the reason of the STALL, "OK" when none does.       *)
Verdict(r) ==
    IF r.pin >= NPins THEN "BAD_PIN"
    ELSE IF r.cmd = "PIN_MODE" /\ r.value >= MODE_COUNT THEN "BAD_VALUE"
    ELSE IF r.cmd = "PIN_MODE" /\ ~ModeAllowed(Caps[r.pin], HasPulldown, r.value)
         THEN "UNSUPPORTED"
    ELSE IF r.cmd # "PIN_MODE" /\ mode[r.pin] # ModeFor(r.cmd) THEN "BAD_MODE"
    ELSE IF r.cmd \in {"PWM_WRITE", "DAC_WRITE"} /\ r.value > MaxValue(r.cmd)
         THEN "BAD_VALUE"
    ELSE IF QueueIsFull THEN "QUEUE_FULL"
    ELSE "OK"

(* The value field of the queued command: DIO_WRITE stores a level.        *)
Stored(r) == IF r.cmd = "DIO_WRITE" /\ r.value # 0 THEN 1 ELSE r.value

(* The value an accepted write makes its pin drive.                        *)
Driven(cmd, value) == IF cmd = "DAC_WRITE" THEN value * DacScale ELSE value

(* enqueue(): the command is tagged with the epoch it was accepted in.     *)
Enqueue(r) ==
    queue' = Append(queue, [cmd |-> r.cmd, pin |-> r.pin,
                            value |-> Stored(r), epoch |-> epoch])

HostMayCommand == ~(ResetBarrier /\ ResetPending)

(* PIN_MODE passes its checks: queued first, the intent recorded after.    *)
(* PWM and DAC pins start out driving 0; other modes drive nothing known.  *)
AcceptPinMode(r) ==
    /\ HostMayCommand
    /\ r.cmd = "PIN_MODE" /\ Verdict(r) = "OK"
    /\ Enqueue(r)
    /\ mode' = [mode EXCEPT ![r.pin] = r.value]
    /\ fresh' = fresh \ {r.pin}
    /\ wanted' = [wanted EXCEPT ![r.pin] =
                    IF r.value \in {PWM, DAC} THEN 0 ELSE NoValue]
    /\ UNCHANGED <<epoch, resetRequests, lastError, resetDone, pollVars, pinVars>>

(* DIO_WRITE, PWM_WRITE or DAC_WRITE passes its checks.                    *)
AcceptWrite(r) ==
    /\ HostMayCommand
    /\ r.cmd # "PIN_MODE" /\ Verdict(r) = "OK"
    /\ Enqueue(r)
    /\ wanted' = [wanted EXCEPT ![r.pin] = Driven(r.cmd, Stored(r))]
    /\ UNCHANGED <<isrVars, resetDone, pollVars, pinVars, fresh>>

(* Bug: the intent is recorded before the queue is found full.             *)
BugRecordsBeforeQueueing(r) ==
    /\ HostMayCommand
    /\ Verdict(r) # "OK"
    /\ lastError' = Verdict(r)
    /\ mode' = IF r.cmd = "PIN_MODE" /\ Verdict(r) = "QUEUE_FULL"
               THEN [mode EXCEPT ![r.pin] = r.value] ELSE mode
    /\ UNCHANGED <<epoch, resetRequests, queue, resetDone, pollVars, pinVars,
                   fresh, wanted>>

(* A pin command fails a check: stall() keeps the reason, nothing else.    *)
RejectCommand(r) ==
    /\ HostMayCommand
    /\ Verdict(r) # "OK"
    /\ lastError' = Verdict(r)
    /\ UNCHANGED <<mode, epoch, resetRequests, queue, resetDone, pollVars,
                   pinVars, fresh, wanted>>

(* Anything else is refused before a pin is looked at: a request that is   *)
(* unknown or carries data, the interface form on a board without one.     *)
RejectRequest ==
    /\ lastError' \in {"BAD_CMD", "UNSUPPORTED"}
    /\ UNCHANGED <<mode, epoch, resetRequests, queue, resetDone, pollVars,
                   pinVars, fresh, wanted>>

(* RESET: request_reset() starts a new epoch, publishes the reset's modes  *)
(* and asks poll() to reconfigure the pins.                                *)
(* Bound: the code's tags have 8 bits and nothing stops them from coming   *)
(* round.  A RESET is left out when it would reuse the tag of a command    *)
(* not yet taken, or make the request count equal to the count honoured:   *)
(* both need 255 other RESETs while one poll() runs.                       *)
(* What RESET does to pin events is in UsbIoEvents; it stops a stream too. *)
NoTagReuse ==
    /\ \A i \in 1 .. Len(queue) : queue[i].epoch # Wrap(epoch)
    /\ InFlight => cur.epoch # Wrap(epoch)
    /\ Wrap(resetRequests) # resetDone

(* Bug: RESET does not start a new epoch.                                  *)
BugResetKeepsEpoch ==
    /\ NoTagReuse
    /\ mode' = [p \in Pins |-> ResetMode(Caps[p])]
    /\ resetRequests' = Wrap(resetRequests)
    /\ fresh' = {}
    /\ wanted' = [p \in Pins |-> NoValue]
    /\ UNCHANGED <<epoch, lastError, queue, resetDone, pollVars, pinVars>>

HandleReset ==
    /\ NoTagReuse
    /\ epoch' = Wrap(epoch)
    /\ mode' = [p \in Pins |-> ResetMode(Caps[p])]
    /\ resetRequests' = Wrap(resetRequests)
    /\ fresh' = {}
    /\ wanted' = [p \in Pins |-> NoValue]
    /\ UNCHANGED <<lastError, queue, resetDone, pollVars, pinVars>>

(* GET_STATUS reports the recorded reason and clears it.                   *)
HandleGetStatus ==
    /\ lastError' = "OK"
    /\ UNCHANGED <<mode, epoch, resetRequests, queue, resetDone, pollVars,
                   pinVars, fresh, wanted>>

(* The replies of the reads, which change nothing: handle_in().            *)
DioReadReply(p) ==
    IF p >= NPins THEN [status |-> "BAD_PIN", value |-> 0]
    ELSE IF ~ModeIsDigital(mode[p]) THEN [status |-> "BAD_MODE", value |-> 0]
    ELSE IF Busy THEN [status |-> "BUSY", value |-> 0]
    ELSE [status |-> "OK", value |-> dio[p]]

AiReadReply(p) ==
    IF p >= NPins THEN [status |-> "BAD_PIN", sampled |-> FALSE]
    ELSE IF mode[p] # ANALOG_IN THEN [status |-> "BAD_MODE", sampled |-> FALSE]
    ELSE IF Busy THEN [status |-> "BUSY", sampled |-> FALSE]
    ELSE [status |-> "OK", sampled |-> p \in fresh]
-----------------------------------------------------------------------------
(***************************************************************************)
(* The loop() side: poll().                                                *)
(***************************************************************************)

(* while (_reset_done != _reset_requests): poll() reads the request count  *)
(* before it applies the reset, so that a RESET that arrives meanwhile is  *)
(* seen as pending again.                                                  *)
BeginReset ==
    /\ pc = "poll" /\ ResetPending
    /\ seen' = resetRequests
    /\ pc' = "reset"
    /\ UNCHANGED <<isrVars, queue, resetDone, cur, idx, cursor, pinVars, fresh,
                   wanted>>

NoResetToApply ==
    /\ pc = "poll" /\ ~ResetPending
    /\ pc' = "drain"
    /\ UNCHANGED <<isrVars, queue, resetDone, cur, seen, idx, cursor, pinVars,
                   fresh, wanted>>

(* apply_reset(): every DIO pin becomes an input and is read, the others'  *)
(* shadows are zeroed, and the analog round-robin starts over.             *)
ApplyReset ==
    /\ pc = "reset"
    /\ LET hasDio(p) == "DIO" \in Caps[p]
       IN  /\ pad' = [p \in Pins |-> IF hasDio(p) THEN INPUT ELSE pad[p]]
           /\ drive' = [p \in Pins |-> IF hasDio(p) THEN 0 ELSE drive[p]]
           /\ \E read \in [Pins -> Levels] :
                dio' = [p \in Pins |-> IF hasDio(p) THEN read[p] ELSE 0]
    /\ fresh' = {}
    /\ cursor' = 0
    /\ pc' = "resetDone"
    /\ UNCHANGED <<isrVars, queue, resetDone, cur, seen, idx, wanted>>

(* Bug: the count honoured is read after the reset was applied.            *)
BugHonoursLatest ==
    /\ pc = "resetDone"
    /\ resetDone' = resetRequests
    /\ seen' = 0
    /\ pc' = "poll"
    /\ UNCHANGED <<isrVars, queue, cur, idx, cursor, pinVars, fresh, wanted>>

FinishReset ==
    /\ pc = "resetDone"
    /\ resetDone' = seen
    /\ seen' = 0
    /\ pc' = "poll"
    /\ UNCHANGED <<isrVars, queue, cur, idx, cursor, pinVars, fresh, wanted>>

(* while (_tail != _head): the command is copied and its slot released     *)
(* before it is executed.                                                  *)
TakeCommand ==
    /\ pc = "drain" /\ queue # <<>>
    /\ cur' = Head(queue)
    /\ queue' = Tail(queue)
    /\ pc' = "dispatch"
    /\ UNCHANGED <<isrVars, resetDone, seen, idx, cursor, pinVars, fresh, wanted>>

(* Bug: the epoch is not compared.                                         *)
BugDispatchesAny ==
    /\ pc = "dispatch"
    /\ pc' = "execute"
    /\ UNCHANGED <<isrVars, queue, resetDone, cur, seen, idx, cursor, pinVars,
                   fresh, wanted>>

(* if (c.epoch == _epoch): a command accepted before a RESET is skipped.   *)
DispatchCommand ==
    /\ pc = "dispatch" /\ cur.epoch = epoch
    /\ pc' = "execute"
    /\ UNCHANGED <<isrVars, queue, resetDone, cur, seen, idx, cursor, pinVars,
                   fresh, wanted>>

(* Bug: the slot of a stale command is not released.                       *)
BugKeepsStale ==
    /\ pc = "dispatch" /\ cur.epoch # epoch
    /\ queue' = <<cur>> \o queue
    /\ cur' = NoCommand
    /\ pc' = "drain"
    /\ UNCHANGED <<isrVars, resetDone, seen, idx, cursor, pinVars, fresh, wanted>>

SkipStaleCommand ==
    /\ pc = "dispatch" /\ cur.epoch # epoch
    /\ cur' = NoCommand
    /\ pc' = "drain"
    /\ UNCHANGED <<isrVars, queue, resetDone, seen, idx, cursor, pinVars, fresh,
                   wanted>>

(* execute() ends: back to the head of the drain loop.                     *)
Executed ==
    /\ cur' = NoCommand
    /\ pc' = "drain"
    /\ UNCHANGED <<isrVars, queue, resetDone, seen, idx, cursor, wanted>>

(* apply_mode(), digital modes: the pin is reconfigured and read back.  A  *)
(* pin that becomes an output drives the level its latch had.              *)
ApplyDigitalMode ==
    /\ pc = "execute" /\ cur.cmd = "PIN_MODE" /\ ModeIsDigital(cur.value)
    /\ pad' = [pad EXCEPT ![cur.pin] = cur.value]
    /\ \E level \in Levels :
        /\ dio' = [dio EXCEPT ![cur.pin] = level]
        /\ drive' = [drive EXCEPT ![cur.pin] =
                        IF cur.value = OUTPUT THEN level ELSE 0]
    /\ UNCHANGED fresh
    /\ Executed

(* Bug: the first sample is left to the round-robin.                       *)
BugNoFirstSample ==
    /\ pc = "execute" /\ cur.cmd = "PIN_MODE" /\ cur.value = ANALOG_IN
    /\ pad' = [pad EXCEPT ![cur.pin] = ANALOG_IN]
    /\ drive' = [drive EXCEPT ![cur.pin] = 0]
    /\ UNCHANGED <<dio, fresh>>
    /\ Executed

(* apply_mode(), ANALOG_IN: analogRead() configures the pad itself, and    *)
(* the first sample is taken at once.                                      *)
ApplyAnalogMode ==
    /\ pc = "execute" /\ cur.cmd = "PIN_MODE" /\ cur.value = ANALOG_IN
    /\ pad' = [pad EXCEPT ![cur.pin] = ANALOG_IN]
    /\ drive' = [drive EXCEPT ![cur.pin] = 0]
    /\ fresh' = fresh \cup {cur.pin}
    /\ UNCHANGED dio
    /\ Executed

(* apply_mode(), PWM and DAC: analogWrite(pin, 0) claims the channel.      *)
ApplyAnalogOutputMode ==
    /\ pc = "execute" /\ cur.cmd = "PIN_MODE" /\ cur.value \in {PWM, DAC}
    /\ pad' = [pad EXCEPT ![cur.pin] = cur.value]
    /\ drive' = [drive EXCEPT ![cur.pin] = 0]
    /\ UNCHANGED <<dio, fresh>>
    /\ Executed

(* digitalWrite() drives a pin only if the hardware has it as an output;   *)
(* the shadow takes the written level either way.                          *)
ExecuteDioWrite ==
    /\ pc = "execute" /\ cur.cmd = "DIO_WRITE"
    /\ drive' = [drive EXCEPT ![cur.pin] =
                    IF pad[cur.pin] = OUTPUT THEN cur.value ELSE @]
    /\ dio' = [dio EXCEPT ![cur.pin] = cur.value]
    /\ UNCHANGED <<pad, fresh>>
    /\ Executed

(* Bug: a DAC code is not scaled to analogWrite()'s resolution.            *)
BugUnscaledDac ==
    /\ pc = "execute" /\ cur.cmd \in {"PWM_WRITE", "DAC_WRITE"}
    /\ pad' = [pad EXCEPT ![cur.pin] = ModeFor(cur.cmd)]
    /\ drive' = [drive EXCEPT ![cur.pin] = cur.value]
    /\ UNCHANGED <<dio, fresh>>
    /\ Executed

(* analogWrite() claims the channel and sets the duty or code.             *)
ExecuteAnalogWrite ==
    /\ pc = "execute" /\ cur.cmd \in {"PWM_WRITE", "DAC_WRITE"}
    /\ pad' = [pad EXCEPT ![cur.pin] = ModeFor(cur.cmd)]
    /\ drive' = [drive EXCEPT ![cur.pin] = Driven(cur.cmd, cur.value)]
    /\ UNCHANGED <<dio, fresh>>
    /\ Executed

(* The outer do-while: a RESET that landed while draining is applied       *)
(* before poll() goes on to refresh the shadow.                            *)
RepeatForReset ==
    /\ pc = "drain" /\ queue = <<>> /\ ResetPending
    /\ pc' = "poll"
    /\ UNCHANGED <<isrVars, queue, resetDone, cur, seen, idx, cursor, pinVars,
                   fresh, wanted>>

BeginRefresh ==
    /\ pc = "drain" /\ queue = <<>> /\ ~ResetPending
    /\ pc' = "refresh"
    /\ UNCHANGED <<isrVars, queue, resetDone, cur, seen, idx, cursor, pinVars,
                   fresh, wanted>>

(* refresh_shadow(), first loop: every pin meant to be an input is read.   *)
RefreshPin ==
    /\ pc = "refresh"
    /\ \/ ModeIsInput(mode[idx]) /\ \E level \in Levels : dio' = [dio EXCEPT ![idx] = level]
       \/ ~ModeIsInput(mode[idx]) /\ UNCHANGED dio
    /\ \/ idx + 1 < NPins /\ idx' = idx + 1 /\ pc' = pc
       \/ idx + 1 = NPins /\ idx' = 0 /\ pc' = "sample"
    /\ UNCHANGED <<isrVars, queue, resetDone, cur, seen, cursor, pad, drive,
                   fresh, wanted>>

(* (_ain_cursor + 1) % _n_pins                                             *)
NextPin(p) == IF p = NPins - 1 THEN 0 ELSE p + 1

(* Bug: every poll() starts the round at pin 0.                            *)
BugRestartsRound(p) ==
    /\ pc = "sample" /\ cursor = p /\ mode[p] = ANALOG_IN
    /\ cursor' = 0
    /\ pad' = [pad EXCEPT ![p] = ANALOG_IN]
    /\ drive' = [drive EXCEPT ![p] = 0]
    /\ fresh' = fresh \cup {p}
    /\ idx' = 0 /\ pc' = "poll"
    /\ UNCHANGED <<isrVars, queue, resetDone, cur, seen, dio, wanted>>

(* refresh_shadow(), second loop: the cursor moves to the next pin meant   *)
(* to be analog, at most once round, and that pin is sampled.              *)
SampleAnalog(p) ==
    /\ pc = "sample" /\ cursor = p /\ mode[p] = ANALOG_IN
    /\ cursor' = NextPin(p)
    /\ pad' = [pad EXCEPT ![p] = ANALOG_IN]
    /\ drive' = [drive EXCEPT ![p] = 0]
    /\ fresh' = fresh \cup {p}
    /\ idx' = 0 /\ pc' = "poll"
    /\ UNCHANGED <<isrVars, queue, resetDone, cur, seen, dio, wanted>>

SkipNonAnalog ==
    /\ pc = "sample" /\ mode[cursor] # ANALOG_IN
    /\ cursor' = NextPin(cursor)
    /\ \/ idx + 1 < NPins /\ idx' = idx + 1 /\ pc' = pc
       \/ idx + 1 = NPins /\ idx' = 0 /\ pc' = "poll"
    /\ UNCHANGED <<isrVars, queue, resetDone, cur, seen, pinVars, fresh, wanted>>
-----------------------------------------------------------------------------
Execute ==
    \/ ApplyDigitalMode \/ ApplyAnalogMode \/ ApplyAnalogOutputMode
    \/ ExecuteDioWrite \/ ExecuteAnalogWrite

PollStep ==
    \/ BeginReset \/ NoResetToApply \/ ApplyReset \/ FinishReset
    \/ TakeCommand \/ DispatchCommand \/ SkipStaleCommand \/ Execute
    \/ RepeatForReset \/ BeginRefresh
    \/ RefreshPin \/ (\E p \in Pins : SampleAnalog(p)) \/ SkipNonAnalog

(* The OUT requests that change what the firmware will do.                 *)
HostStep ==
    \/ \E r \in Requests : AcceptPinMode(r) \/ AcceptWrite(r)
    \/ HandleReset

Next ==
    \/ PollStep
    \/ HostStep
    \/ \E r \in Requests : RejectCommand(r)
    \/ RejectRequest
    \/ HandleGetStatus

Spec == Init /\ [][Next]_vars

(* The sketch calls poll() from loop() for ever; no handler takes for ever *)
(* and the host need not send anything.                                    *)
FairSpec == Spec /\ WF_vars(PollStep)
-----------------------------------------------------------------------------
(***************************************************************************)
(* Properties.                                                             *)
(***************************************************************************)

(* What validation lets into the queue.                                    *)
ValuesOf(cmd) ==
    CASE cmd = "PIN_MODE"  -> Modes
      [] cmd = "DIO_WRITE" -> {0, 1}
      [] cmd = "PWM_WRITE" -> 0 .. PwmMax
      [] cmd = "DAC_WRITE" -> 0 .. DacMax

QueuedCommand ==
    {c \in [cmd : Commands, pin : Pins, value : Nat, epoch : 0 .. TagMod - 1] :
        c.value \in ValuesOf(c.cmd)}

(* Every variable has its type; the queue never exceeds its capacity, the  *)
(* indices never leave the pins, only validated values are in the queue,   *)
(* and no pin is driven beyond the range of analogWrite().                 *)
TypeOK ==
    /\ mode \in [Pins -> AnyMode]
    /\ queue \in Seq(QueuedCommand) /\ Len(queue) <= QueueDepth
    /\ epoch \in 0 .. TagMod - 1
    /\ resetRequests \in 0 .. TagMod - 1 /\ resetDone \in 0 .. TagMod - 1
    /\ lastError \in Statuses
    /\ pc \in {"poll", "reset", "resetDone", "drain", "dispatch", "execute",
               "refresh", "sample"}
    /\ cur \in QueuedCommand \cup {NoCommand}
    /\ InFlight => cur \in QueuedCommand
    /\ seen \in 0 .. TagMod - 1
    /\ idx \in Pins /\ cursor \in Pins
    /\ pad \in [Pins -> AnyMode]
    /\ drive \in [Pins -> 0 .. PwmMax]
    /\ dio \in [Pins -> {0, 1}]
    /\ fresh \subseteq Pins
    /\ wanted \in [Pins -> 0 .. PwmMax \cup {NoValue}]

(* Nothing that was accepted is still to be done: the state in which a     *)
(* read answers OK, short of the command that poll() has in its hands.     *)
Quiescent == ~Busy /\ ~InFlight

(* Every pin the host configured is in the mode the host was told it would *)
(* be in.  Requires the recording of the intent at acceptance, the order   *)
(* of the queue, the epochs and the order of RESET's steps to agree.       *)
IntentApplied ==
    Quiescent => \A p \in Pins : mode[p] # ModeNone => pad[p] = mode[p]

(* The last output value accepted for a pin is the one it drives, and an   *)
(* OK answer to DIO_READ of an output is that value (usbio_protocol.h:     *)
(* "OUTPUT pins report the last value written").                           *)
LastWriteApplied ==
    Quiescent =>
        \A p \in Pins : wanted[p] # NoValue =>
            /\ drive[p] = wanted[p]
            /\ mode[p] = OUTPUT => DioReadReply(p) = [status |-> "OK", value |-> wanted[p]]

(* AI_READ answers OK only with a sample taken since the PIN_MODE or RESET *)
(* that the host sent last (apply_mode(): "the shadow is not stale until   *)
(* the round-robin arrives"), with one exception: between the release of a *)
(* PIN_MODE's slot (UsbIo.cpp:622) and its execution (:624) nothing looks  *)
(* pending, and its pin, no other, is answered from the shadow of before.  *)
ModeInHand(p) == InFlight /\ cur.cmd = "PIN_MODE" /\ cur.pin = p
AnalogReadIsFresh ==
    \A p \in Pins :
        AiReadReply(p).status = "OK" /\ ~ModeInHand(p) => AiReadReply(p).sampled

(* A command accepted before a RESET is executed after it only while that  *)
(* RESET has not been applied, so the RESET still undoes it.               *)
StaleOnlyBeforeReset ==
    pc = "execute" /\ cur.epoch # epoch => ResetPending

(* No live write reaches a pin that the hardware has as a digital input,   *)
(* where digitalWrite() would switch its pull-up: the pin is in the mode   *)
(* of the write, or the round-robin has already sampled it for a later     *)
(* PIN_MODE(ANALOG_IN) that is still queued.                               *)
WriteFindsItsMode ==
    pc = "execute" /\ cur.epoch = epoch /\ cur.cmd # "PIN_MODE" =>
        pad[cur.pin] \in {ModeFor(cur.cmd), ANALOG_IN}

(* Every RESET is applied after it was requested (poll(): "must be applied *)
(* before we return"), also one that arrives while another is applied: it  *)
(* is not covered by the count that poll() read before.                    *)
ResetUncovered == ResetPending /\ ~(pc = "resetDone" /\ seen = resetRequests)
ResetIsApplied == ResetUncovered ~> pc = "reset"

(* Once the host stops sending commands, everything accepted is done and   *)
(* reads stop answering BUSY.                                              *)
HostSettles == <>[][~HostStep]_vars
BusyClears == HostSettles => <>[]Quiescent

(* Every pin that stays in ANALOG_IN is sampled again and again, however   *)
(* many analog pins there are (poll(): round-robin).                       *)
RoundRobin ==
    HostSettles =>
        \A p \in Pins : <>[](mode[p] = ANALOG_IN) => []<><<SampleAnalog(p)>>_vars

(* request_reset(), UsbIo.cpp:202: "Commands accepted after this point     *)
(* carry the new epoch and survive."  Said of a host that does not wait    *)
(* for its RESET to be applied: a pin configured after the RESET is, once  *)
(* all is done, in the mode it was configured to.                          *)
CommandsAfterResetSurvive == IntentApplied
=============================================================================
