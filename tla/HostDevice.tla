------------------------------ MODULE HostDevice ------------------------------
(***************************************************************************)
(* The host driver's Device: threads of one process call its methods on    *)
(* one device.  A method is a sequence of control transfers; each transfer *)
(* is one step, because send_out() and raw_in() hold the transfer mutex    *)
(* around exactly one of them.  Between the transfers of a method other    *)
(* threads' transfers, and the worker of a running Stream that polls the   *)
(* stream status, find their way in.  `lock' is StreamState::mutex.        *)
(*                                                                         *)
(* The device is what its request handler shows of it (UsbIoCommands and   *)
(* UsbIoStream have the rest): intended modes, selection, whether it       *)
(* samples, the recorded reason of a refusal, and the queue.  A transfer   *)
(* can time out, before or after the device has handled it.                *)
(***************************************************************************)
EXTENDS HostProtocol, FiniteSets, SequencesExt

CONSTANTS
    Threads,       \* threads that call the Device
    Calls,         \* the calls they make, as records
    MaxCalls,      \* bound: how many each of them makes
    MaxFaults,     \* bound: how many transfers time out
    Caps,          \* the capabilities of each pin, numbered from 0
    Info,          \* what GET_INFO said of the board
    QueueDepth, MaxChannels,
    BusyAttempts,  \* Options::busy_max_attempts
    Leftovers      \* selections an earlier process may have left behind

Pins == DOMAIN Caps
NoOne == <<"nobody", "app">>
Procs == Threads \X {"app", "io"}
App(t) == <<t, "app">>
Io(t)  == <<t, "io">>

Methods == {"PIN_MODE", "DIO_WRITE", "PWM_WRITE", "DAC_WRITE", "DIO_READ", "AI_READ",
            "RESET", "SYNC", "START"}

ASSUME DeviceAssumption ==
    /\ MaxCalls \in [Threads -> Nat] /\ MaxFaults \in Nat
    /\ QueueDepth \in Nat \ {0} /\ BusyAttempts \in Nat \ {0} /\ MaxChannels \in Nat
    /\ NoOne \notin Procs
    /\ IsFiniteSet(Pins) /\ Pins = 0 .. Cardinality(Pins) - 1
    /\ \A c \in Calls : /\ c.op \in Methods
                        /\ c.op = "START" => c.pins \in Seq(Nat)
                        /\ c.op = "PIN_MODE" => c.value \in Nat
    /\ \A s \in Leftovers : s \in Seq(Pins) /\ Len(s) <= MaxChannels /\ IsInjective(s)

VARIABLES
    dev,        \* the device
    th,         \* what each thread is doing
    lock,       \* holder of the stream mutex
    selected,   \* StreamState::selected
    streaming,  \* StreamState::streaming
    handle,     \* the Stream a thread owns: "none", "running", "stopping"
    calls,      \* calls made
    faults      \* transfers that timed out

vars == <<dev, th, lock, selected, streaming, handle, calls, faults>>

Idle == [stage |-> "idle", call |-> [op |-> "none"], todo |-> <<>>,
         added |-> <<>>, tries |-> 0, stall |-> FALSE, result |-> "none"]

-----------------------------------------------------------------------------
(* The device's request handler                                            *)

Full(d) == Len(d.queue) = QueueDepth

(* The three kinds of write differ in the mode, the capability and the     *)
(* range they ask for.                                                     *)
Writes == {"DIO_WRITE", "PWM_WRITE", "DAC_WRITE"}
WriteMode(op) == CASE op = "DIO_WRITE" -> OUTPUT [] op = "PWM_WRITE" -> PWM
                   [] op = "DAC_WRITE" -> DAC
FullScale(op) == IF op = "DIO_WRITE" THEN 1 ELSE MaxValue(Info.bits[op])

(* Why the handler refuses an OUT request; "OK" when it does not.          *)
Refusal(d, q) ==
    CASE q.op = "PIN_MODE" ->
            IF q.pin \notin Pins THEN "BAD_PIN"
            ELSE IF q.value >= MODE_COUNT THEN "BAD_VALUE"
            ELSE IF ~ModeAllowed(Caps[q.pin], Info.hasPulldown, q.value) THEN "UNSUPPORTED"
            ELSE IF Full(d) THEN "QUEUE_FULL" ELSE "OK"
      [] q.op \in Writes ->
            IF q.pin \notin Pins THEN "BAD_PIN"
            ELSE IF d.mode[q.pin] # WriteMode(q.op) THEN "BAD_MODE"
            ELSE IF q.value > FullScale(q.op) THEN "BAD_VALUE"
            ELSE IF Full(d) THEN "QUEUE_FULL" ELSE "OK"
      [] q.op = "STREAM_SELECT" ->
            IF d.running THEN "BUSY"
            ELSE IF q.pin \notin Pins THEN "BAD_PIN"
            ELSE IF d.mode[q.pin] # ANALOG_IN /\ ~ModeIsInput(d.mode[q.pin]) THEN "BAD_MODE"
            ELSE IF q.value = 1 /\ ~Contains(d.sel, q.pin) /\ Len(d.sel) >= MaxChannels
                 THEN "BAD_VALUE" ELSE "OK"
      [] q.op = "STREAM_START" ->
            IF d.running THEN "BUSY"
            ELSE IF d.sel = <<>> THEN "BAD_VALUE"
            ELSE IF q.value # 0 /\ q.value < Info.minPeriod THEN "BAD_VALUE" ELSE "OK"
      [] OTHER -> "OK"

(* What an accepted request changes.                                       *)
Effect(d, q) ==
    CASE q.op = "PIN_MODE" ->
            [d EXCEPT !.mode[q.pin] = q.value, !.queue = Append(@, q.by),
                      !.running = @ /\ ~Contains(d.sel, q.pin)]
      [] q.op \in Writes -> [d EXCEPT !.queue = Append(@, q.by)]
      [] q.op = "STREAM_SELECT" ->
            [d EXCEPT !.sel = IF q.value = 0 THEN RemoveFirst(@, q.pin)
                              ELSE IF Contains(@, q.pin) THEN @ ELSE Append(@, q.pin)]
      [] q.op = "STREAM_START" -> [d EXCEPT !.running = TRUE]
      [] q.op = "STREAM_STOP"  -> [d EXCEPT !.running = FALSE]
      [] q.op = "RESET" ->
            [d EXCEPT !.mode = [p \in Pins |-> ResetMode(Caps[p])], !.sel = <<>>,
                      !.running = FALSE, !.resetting = TRUE]

Handled(d, q) == IF Refusal(d, q) = "OK" THEN Effect(d, q)
                 ELSE [d EXCEPT !.err = Refusal(d, q)]

(* The status byte of a read; GET_STATUS answers and forgets the reason.   *)
ReadStatus(d, q) ==
    IF d.resetting \/ d.queue # <<>> THEN "BUSY"
    ELSE IF \/ q.op = "DIO_READ" /\ ~ModeIsDigital(d.mode[q.pin])
            \/ q.op = "AI_READ" /\ d.mode[q.pin] # ANALOG_IN THEN "BAD_MODE"
    ELSE "OK"
Told(d) == [d EXCEPT !.err = "OK"]

(* poll() executes a command, or applies a RESET and drops what it         *)
(* invalidated.                                                            *)
DevicePoll ==
    /\ \/ dev.resetting /\ dev' = [dev EXCEPT !.resetting = FALSE, !.queue = <<>>]
       \/ ~dev.resetting /\ dev.queue # <<>> /\ dev' = [dev EXCEPT !.queue = Tail(@)]
    /\ UNCHANGED <<th, lock, selected, streaming, handle, calls, faults>>

-----------------------------------------------------------------------------
(* One transfer                                                            *)

(* The request of a stage: the call's own, or one of streaming control.    *)
Request(p) ==
    LET r == th[p]
        Ask(op, pin, value) == [op |-> op, pin |-> pin, value |-> value, by |-> p]
    IN  CASE r.stage = "out" -> Ask(r.call.op, r.call.pin, r.call.value)
          [] r.stage \in {"drop", "clear", "undo"} -> Ask("STREAM_SELECT", Head(r.todo), 0)
          [] r.stage = "select" -> Ask("STREAM_SELECT", Head(r.todo), 1)
          [] r.stage = "start"  -> Ask("STREAM_START", 0, r.call.period)
          [] r.stage \in {"halt", "end"} -> Ask("STREAM_STOP", 0, 0)

OutStages == {"out", "drop", "clear", "undo", "select", "start", "halt", "end"}

(* How send_out() can end: its outcome, and the device after it.  A STALL  *)
(* takes a second transfer, GET_STATUS, and other threads' transfers may   *)
(* come between the two: the reason may have been replaced, or forgotten.  *)
BugReason(d) == IF d.err = "OK" THEN "Ok" ELSE StatusError(d.err)
Reason(d) == IF d.err = "OK" THEN "StallError" ELSE StatusError(d.err)

Result(o, d, lost) == [outcome |-> o, dev |-> d, lost |-> lost]
TimedOut(ds) == IF faults < MaxFaults THEN {Result("TimeoutError", d, 1) : d \in ds} ELSE {}

SendOut(p) ==
    IF th[p].stall
    THEN {Result(Reason(dev), Told(dev), 0)} \cup TimedOut({dev, Told(dev)})
    ELSE (IF Refusal(dev, Request(p)) = "OK"
          THEN {Result("Ok", Effect(dev, Request(p)), 0)} ELSE {})
         \cup TimedOut({dev, Handled(dev, Request(p))})

Refused(p) ==
    /\ th[p].stage \in OutStages /\ ~th[p].stall /\ Refusal(dev, Request(p)) # "OK"
    /\ dev' = Handled(dev, Request(p))
    /\ th' = [th EXCEPT ![p].stall = TRUE]
    /\ UNCHANGED <<lock, selected, streaming, handle, calls, faults>>

(* raw_in() of a request that changes nothing but, for GET_STATUS, the     *)
(* reason: the caller reads the reply off dev.                             *)
RawIn(op) ==
    LET after == IF op = "GET_STATUS" THEN Told(dev) ELSE dev
    IN  {Result("Ok", after, 0)} \cup TimedOut({dev, after})

Served(r) == dev' = r.dev /\ faults' = faults + r.lost

Outcomes == {"Ok", "StallError", "TimeoutError", "InvalidPin", "InvalidMode",
             "NotSupported", "InvalidValue", "QueueFull", "DeviceBusy", "ProtocolError"}

Goto(p, stage, todo) ==
    th' = [th EXCEPT ![p].stage = stage, ![p].todo = todo, ![p].stall = FALSE]
Finish(p, o) == th' = [th EXCEPT ![p] = [Idle EXCEPT !.result = o]]
Unlock == lock' = NoOne

-----------------------------------------------------------------------------
(* Calls: the gate, and the checks made before any transfer                *)

StartPins(c) == Range(c.pins)
Check(c) ==
    IF c.op \notin {"SYNC", "RESET", "START"} /\ c.pin \notin Pins THEN "InvalidPin"
    ELSE
    CASE c.op \in {"SYNC", "RESET"} -> "Ok"
      [] c.op = "START" ->
            IF ~Info.streaming THEN "NotSupported"
            ELSE IF c.pins = <<>> \/ Len(c.pins) > MaxChannels THEN "InvalidValue"
            ELSE IF \E pin \in StartPins(c) : pin \notin Pins THEN "InvalidPin"
            ELSE IF Cardinality(StartPins(c)) # Len(c.pins) THEN "InvalidValue"
            ELSE IF ~PeriodAccepted(Info, c.period) THEN "InvalidValue" ELSE "Ok"
      [] c.op = "PIN_MODE" ->
            IF c.value >= MODE_COUNT THEN "InvalidMode"
            ELSE IF ~ModeSupported(Caps[c.pin], Info.hasPulldown, c.value)
                 THEN "NotSupported" ELSE "Ok"
      [] c.op \in Writes ->
            IF RequiredCap(WriteMode(c.op)) \notin Caps[c.pin] THEN "NotSupported"
            ELSE IF c.op = "DAC_WRITE" /\ Info.bits[c.op] = 0 THEN "NotSupported"
            ELSE IF c.value > FullScale(c.op) THEN "InvalidValue" ELSE "Ok"
      [] c.op = "DIO_READ" -> IF "DIO" \in Caps[c.pin] THEN "Ok" ELSE "NotSupported"
      [] c.op = "AI_READ"  -> IF "AIN" \in Caps[c.pin] THEN "Ok" ELSE "NotSupported"

FirstStage(c) == CASE c.op = "START" -> "lock"
                   [] c.op = "SYNC"  -> "sync"
                   [] c.op \in {"DIO_READ", "AI_READ"} -> "in"
                   [] OTHER -> "out"

(* A call that has passed its gate is not looked at by the gate again, so  *)
(* a Stream may start under it.                                            *)
Call(t, c) ==
    LET refusal == IF streaming THEN "DeviceBusy" ELSE Check(c) IN
    /\ th[App(t)].stage = "idle" /\ calls[t] < MaxCalls[t]
    /\ calls' = [calls EXCEPT ![t] = @ + 1]
    /\ IF refusal # "Ok" THEN Finish(App(t), refusal)
       ELSE th' = [th EXCEPT ![App(t)] =
                     [Idle EXCEPT !.stage = FirstStage(c), !.call = c]]
    /\ UNCHANGED <<dev, lock, selected, streaming, handle, faults>>

(* pin_mode(), the writes, reset().                                        *)
Out(p) ==
    /\ th[p].stage = "out"
    /\ \E r \in SendOut(p) :
          /\ Served(r)
          /\ IF th[p].call.op = "RESET" /\ r.outcome = "Ok" THEN Goto(p, "forget", <<>>)
             ELSE Finish(p, r.outcome)
    /\ UNCHANGED <<lock, selected, streaming, handle, calls>>

(* reset() clears the list of selected pins without the stream mutex.      *)
Forget(p) ==
    /\ th[p].stage = "forget"
    /\ selected' = <<>> /\ Finish(p, "Ok")
    /\ UNCHANGED <<dev, lock, streaming, handle, calls, faults>>

(* read_in(): BUSY is asked again, up to the limit.                        *)
BugRetry(p) == th' = [th EXCEPT ![p].tries = 0]
Retry(p) == IF th[p].tries + 1 >= BusyAttempts THEN Finish(p, "DeviceBusy")
            ELSE th' = [th EXCEPT ![p].tries = @ + 1]

ReadIn(p) ==
    /\ th[p].stage = "in"
    /\ \E r \in RawIn(th[p].call.op) :
          /\ Served(r)
          /\ LET s == ReadStatus(dev, th[p].call) IN
             IF r.outcome = "Ok" /\ s = "BUSY" THEN Retry(p)
             ELSE Finish(p, IF r.outcome = "Ok" /\ s # "OK" THEN StatusError(s) ELSE r.outcome)
    /\ UNCHANGED <<lock, selected, streaming, handle, calls>>

(* sync(): status() until nothing is pending.  Every status() passes the   *)
(* gate again.                                                             *)
SyncDone(d) == d.queue = <<>>
Sync(p) ==
    /\ th[p].stage = "sync"
    /\ \/ /\ streaming /\ Finish(p, "DeviceBusy") /\ UNCHANGED <<dev, faults>>
       \/ /\ ~streaming
          /\ \E r \in RawIn("GET_STATUS") :
                /\ Served(r)
                /\ IF r.outcome = "Ok" /\ ~SyncDone(dev) THEN Retry(p) ELSE Finish(p, r.outcome)
    /\ UNCHANGED <<lock, selected, streaming, handle, calls>>

-----------------------------------------------------------------------------
(* start_stream()                                                          *)

(* A loop over pins skips those that are asked for: what is left of it.    *)
Others(s, c) ==
    LET i == SelectInSeq(s, LAMBDA pin : pin \notin StartPins(c)) IN
    IF i = 0 THEN <<>> ELSE SubSeq(s, i, Len(s))
AllPins == [i \in 1 .. Cardinality(Pins) |-> i - 1]

GotoDrop(p) ==
    LET stale == Others(selected, th[p].call) IN
    IF stale = <<>> THEN Goto(p, "select", th[p].call.pins) ELSE Goto(p, "drop", stale)

(* The last pin of such a loop leads to `next'.                            *)
Loop(p, next, todo) ==
    LET rest == Others(Tail(th[p].todo), th[p].call) IN
    IF rest = <<>> THEN Goto(p, next, todo) ELSE Goto(p, th[p].stage, rest)

(* A failure after the first STREAM_SELECT undoes what was added.          *)
BugFail(p, o, added) == Finish(p, o) /\ Unlock
Fail(p, o, added) ==
    IF added = <<>> THEN Finish(p, o) /\ Unlock
    ELSE /\ th' = [th EXCEPT ![p].stage = "undo", ![p].todo = Reverse(added),
                             ![p].stall = FALSE, ![p].result = o]
         /\ UNCHANGED lock

Lock(p) ==
    /\ lock = NoOne
    /\ \/ /\ th[p].stage = "lock" /\ lock' = p /\ Goto(p, "leftover", <<>>)
       \/ /\ th[p].stage = "lockPoll" /\ lock' = p /\ Goto(p, "poll", <<>>)
       \/ /\ th[p].stage = "lockEnd" /\ streaming /\ lock' = p /\ Goto(p, "end", <<>>)
    /\ UNCHANGED <<dev, selected, streaming, handle, calls, faults>>

(* A session that ended without STREAM_STOP has left the device sampling.  *)
Leftover(p) ==
    /\ th[p].stage = "leftover"
    /\ \E r \in RawIn("STREAM_STATUS") :
          /\ Served(r)
          /\ \/ r.outcome # "Ok" /\ Finish(p, r.outcome) /\ Unlock
             \/ r.outcome = "Ok" /\ dev.running /\ Goto(p, "halt", <<>>) /\ UNCHANGED lock
             \/ r.outcome = "Ok" /\ ~dev.running /\ GotoDrop(p) /\ UNCHANGED lock
    /\ UNCHANGED <<selected, streaming, handle, calls>>

Halt(p) ==
    /\ th[p].stage = "halt"
    /\ \E r \in SendOut(p) :
          /\ Served(r)
          /\ IF r.outcome = "Ok" THEN GotoDrop(p) /\ UNCHANGED lock
             ELSE Finish(p, r.outcome) /\ Unlock
    /\ UNCHANGED <<selected, streaming, handle, calls>>

(* Pins of an earlier stream of this Device; errors are swallowed.         *)
Drop(p) ==
    /\ th[p].stage = "drop"
    /\ \E r \in SendOut(p) : Served(r)
    /\ Loop(p, "select", th[p].call.pins)
    /\ UNCHANGED <<lock, selected, streaming, handle, calls>>

SelectPin(p) ==
    /\ th[p].stage = "select"
    /\ \E r \in SendOut(p) :
          /\ Served(r)
          /\ IF r.outcome # "Ok" THEN Fail(p, r.outcome, th[p].added)
             ELSE /\ th' = [th EXCEPT ![p].added = Append(@, Head(th[p].todo)),
                              ![p].todo = Tail(@), ![p].stall = FALSE,
                              ![p].stage = IF Len(th[p].todo) > 1 THEN "select" ELSE "count"]
                  /\ UNCHANGED lock
    /\ UNCHANGED <<selected, streaming, handle, calls>>

(* The device's own count decides whether a selection is left over from    *)
(* another session; if so every other pin is deselected and the count read *)
(* again.                                                                  *)
BugRightCount(p) == TRUE
RightCount(p) == Len(dev.sel) = Len(th[p].call.pins)

Count(p) ==
    /\ th[p].stage = "count"
    /\ \E r \in RawIn("STREAM_STATUS") :
          /\ Served(r)
          /\ IF r.outcome # "Ok" THEN Fail(p, r.outcome, th[p].added)
             ELSE /\ IF RightCount(p) THEN Goto(p, "time", <<>>)
                     ELSE LET rest == Others(AllPins, th[p].call) IN
                          Goto(p, IF rest = <<>> THEN "recount" ELSE "clear", rest)
                  /\ UNCHANGED lock
    /\ UNCHANGED <<selected, streaming, handle, calls>>

ClearPin(p) ==
    /\ th[p].stage = "clear"
    /\ \E r \in SendOut(p) : Served(r)
    /\ Loop(p, "recount", <<>>)
    /\ UNCHANGED <<lock, selected, streaming, handle, calls>>

Recount(p) ==
    /\ th[p].stage = "recount"
    /\ \E r \in RawIn("STREAM_STATUS") :
          /\ Served(r)
          /\ IF r.outcome = "Ok" /\ RightCount(p) THEN Goto(p, "time", <<>>) /\ UNCHANGED lock
             ELSE Fail(p, IF r.outcome = "Ok" THEN "ProtocolError" ELSE r.outcome, th[p].added)
    /\ UNCHANGED <<selected, streaming, handle, calls>>

ReadStartTime(p) ==
    /\ th[p].stage = "time"
    /\ \E r \in RawIn("GET_TIME") :
          /\ Served(r)
          /\ IF r.outcome = "Ok" THEN Goto(p, "start", <<>>) /\ UNCHANGED lock
             ELSE Fail(p, r.outcome, th[p].added)
    /\ UNCHANGED <<selected, streaming, handle, calls>>

Start(p) ==
    /\ th[p].stage = "start"
    /\ \E r \in SendOut(p) :
          /\ Served(r)
          /\ IF r.outcome = "Ok"
             THEN /\ selected' = th[p].call.pins /\ streaming' = TRUE
                  /\ handle' = [handle EXCEPT ![p[1]] = "running"]
                  /\ Finish(p, "Ok") /\ Unlock
             ELSE Fail(p, r.outcome, th[p].added) /\ UNCHANGED <<selected, streaming, handle>>
    /\ UNCHANGED calls

BugUndo(p) ==
    /\ th[p].stage = "undo"
    /\ \E r \in SendOut(p) : Served(r)
    /\ IF Len(th[p].todo) > 1 THEN Goto(p, "undo", Tail(th[p].todo)) ELSE Finish(p, th[p].result)
    /\ UNCHANGED <<lock, selected, streaming, handle, calls>>
Undo(p) ==
    /\ th[p].stage = "undo"
    /\ \E r \in SendOut(p) : Served(r)
    /\ IF Len(th[p].todo) > 1 THEN Goto(p, "undo", Tail(th[p].todo)) /\ UNCHANGED lock
       ELSE Finish(p, th[p].result) /\ Unlock
    /\ UNCHANGED <<selected, streaming, handle, calls>>

-----------------------------------------------------------------------------
(* A running Stream: its worker polls the status, stop() ends it           *)

(* Stream's worker: poll_stream_status(), which passes no gate.            *)
WorkerPoll(t) ==
    /\ th[Io(t)].stage = "idle" /\ handle[t] = "running"
    /\ Goto(Io(t), "lockPoll", <<>>)
    /\ UNCHANGED <<dev, lock, selected, streaming, handle, calls, faults>>

PollStatus(p) ==
    /\ th[p].stage = "poll"
    /\ \E r \in RawIn("STREAM_STATUS") : Served(r)
    /\ th' = [th EXCEPT ![p] = Idle] /\ Unlock
    /\ UNCHANGED <<selected, streaming, handle, calls>>

(* Stream::stop() asks the worker to stop, joins it, and ends the stream.  *)
StopStream(t) ==
    /\ th[App(t)].stage = "idle" /\ handle[t] = "running"
    /\ handle' = [handle EXCEPT ![t] = "stopping"]
    /\ th' = [th EXCEPT ![App(t)] = [Idle EXCEPT !.stage = "join", !.call = [op |-> "STOP"]]]
    /\ UNCHANGED <<dev, lock, selected, streaming, calls, faults>>

Join(t) ==
    /\ th[App(t)].stage = "join" /\ th[Io(t)].stage = "idle"
    /\ Goto(App(t), "lockEnd", <<>>)
    /\ UNCHANGED <<dev, lock, selected, streaming, handle, calls, faults>>

(* end_stream(): nothing to do when the flag is down already; an error of  *)
(* STREAM_STOP is swallowed.                                               *)
NothingToEnd(p) ==
    /\ th[p].stage = "lockEnd" /\ lock = NoOne /\ ~streaming
    /\ handle' = [handle EXCEPT ![p[1]] = "none"] /\ Finish(p, "Ok")
    /\ UNCHANGED <<dev, lock, selected, streaming, calls, faults>>

EndStream(p) ==
    /\ th[p].stage = "end"
    /\ \E r \in SendOut(p) : Served(r)
    /\ streaming' = FALSE /\ handle' = [handle EXCEPT ![p[1]] = "none"]
    /\ Finish(p, "Ok") /\ Unlock
    /\ UNCHANGED <<selected, calls>>

-----------------------------------------------------------------------------
(* Another session may have left pins selected, and the device sampling.   *)
Init ==
    /\ dev \in [mode : {[p \in Pins |-> IF "AIN" \in Caps[p] THEN ANALOG_IN
                                        ELSE ResetMode(Caps[p])]},
                sel : Leftovers, running : BOOLEAN, err : {"OK"},
                queue : {<<>>}, resetting : {FALSE}]
    /\ dev.running => dev.sel # <<>>
    /\ th = [p \in Procs |-> Idle]
    /\ lock = NoOne /\ selected = <<>> /\ streaming = FALSE
    /\ handle = [t \in Threads |-> "none"]
    /\ calls = [t \in Threads |-> 0] /\ faults = 0

(* A thread that is in the middle of a call goes on with it.               *)
Continue(p) ==
    \/ Refused(p) \/ Out(p) \/ Forget(p) \/ ReadIn(p) \/ Sync(p)
    \/ Leftover(p) \/ Halt(p) \/ Drop(p) \/ SelectPin(p) \/ Count(p)
    \/ ClearPin(p) \/ Recount(p) \/ ReadStartTime(p) \/ Start(p) \/ Undo(p)
    \/ PollStatus(p) \/ EndStream(p)

Acquire(p) == Lock(p) \/ NothingToEnd(p)

Next ==
    \/ DevicePoll
    \/ \E t \in Threads : \/ \E c \in Calls : Call(t, c)
                          \/ StopStream(t) \/ Join(t) \/ WorkerPoll(t)
    \/ \E p \in Procs : Acquire(p) \/ Continue(p)

(* Threads run; a thread that waits for the mutex gets it in the end, and  *)
(* a thread that owns a Stream destroys it.                                *)
Fairness ==
    /\ \A p \in Procs : WF_vars(Continue(p)) /\ SF_vars(Acquire(p))
    /\ \A t \in Threads : WF_vars(Join(t))

Spec == Init /\ [][Next]_vars /\ Fairness

-----------------------------------------------------------------------------
(* Properties                                                              *)

Stages == OutStages \cup
    {"idle", "in", "sync", "forget", "lock", "leftover", "count", "recount",
     "time", "join", "lockEnd", "lockPoll", "poll"}

(* Types; the mutex is held by a thread exactly while it is between the    *)
(* first and the last transfer of a method that takes it.                  *)
LockedStages == {"leftover", "halt", "drop", "select", "count", "clear",
                 "recount", "time", "start", "undo", "poll", "end"}
TypeOK ==
    /\ dev.mode \in [Pins -> AnyMode] /\ dev.err \in Statuses
    /\ Range(dev.sel) \subseteq Pins /\ Len(dev.sel) = Cardinality(Range(dev.sel))
    /\ Len(dev.sel) <= MaxChannels /\ Len(dev.queue) <= QueueDepth
    /\ \A p \in Procs : th[p].stage \in Stages /\ th[p].result \in Outcomes \cup {"none"}
    /\ \A p \in Procs : th[p].stage \in LockedStages <=> lock = p
    /\ streaming \in BOOLEAN /\ faults \in 0 .. MaxFaults
    /\ handle \in [Threads -> {"none", "running", "stopping"}]

(* The step that ends a call of p with outcome o.                          *)
Ends(p, o) == th[p].stage # "idle" /\ th'[p].stage = "idle" /\ th'[p].result = o

(* A method whose request the device refused never returns normally: not   *)
(* even when another thread's GET_STATUS has taken the recorded reason     *)
(* before send_out() asks for it (Device.cpp, send_out()).                 *)
RefusalIsReported ==
    [][\A p \in Procs :
          th[p].stage \in {"out", "start"} /\ th[p].stall
              => ~Ends(p, "Ok") /\ th'[p].stage # "forget"]_vars

(* When start_stream() succeeds the device samples exactly the pins it was *)
(* asked for, whatever an earlier process left selected or running, and    *)
(* whatever other threads sent in between.                                 *)
StartedAsAsked ==
    [][\A p \in Procs : Ends(p, "Ok") /\ th[p].stage = "start"
          => dev'.running /\ Range(dev'.sel) = StartPins(th[p].call)]_vars

(* A failed start_stream() takes back the pins it selected and leaves the  *)
(* device stopped (Device.h:227), as long as no transfer is lost.  A pin   *)
(* that has lost its input mode meanwhile cannot be deselected: the calls  *)
(* of the run never give it one again while it is being taken back.        *)
FailedStartUndone ==
    [][\A p \in Procs, o \in Outcomes \ {"Ok"} :
          Ends(p, o) /\ p = lock /\ faults' = 0 /\ th[p].added # <<>>
              => /\ ~dev'.running
                 /\ \A pin \in Range(th[p].added) \cap Range(dev'.sel) :
                       dev'.mode[pin] # ANALOG_IN /\ ~ModeIsInput(dev'.mode[pin])]_vars

(* Every method returns: retries are bounded, the stream mutex is released *)
(* on every path, and a thread that holds it never waits for one that      *)
(* wants it (Device.h's lock ordering; Stream::stop() joins outside it).   *)
CallsReturn ==
    \A p \in Procs : th[p].stage # "idle" ~> th[p].stage = "idle"

(* The samples of a record arrive in the order of the selection; Stream    *)
(* labels them in the order of StreamConfig::pins (Stream.h:58).           *)
ChannelsInOrder ==
    [][\A p \in Procs : Ends(p, "Ok") /\ th[p].stage = "start"
          => dev'.sel = th[p].call.pins]_vars
=============================================================================
