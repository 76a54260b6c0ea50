------------------------------ MODULE HostStream ------------------------------
(***************************************************************************)
(* Stream: a worker thread that reads the bytes of HostBulk, cuts them into*)
(* records and queues them; threads that read() them; and the thread that  *)
(* starts and stops the streams of a Device, one after another, and in the *)
(* end destroys the Device.                                                *)
(*                                                                         *)
(* The mutex is held by a reader from its test of the predicate until it   *)
(* waits ("testing"); other critical sections are one step.  stop() and    *)
(* the end of the worker notify without it.  Every stream samples the same *)
(* channels, so that only time tells its records from those before it.     *)
(***************************************************************************)
EXTENDS HostBulk, FiniteSets

CONSTANTS
    Readers,      \* threads that call read()
    Chunk,        \* ChunkSize, in units
    Capacity,     \* StreamConfig::queue_capacity
    Room          \* records that fit the span given to read()

ASSUME StreamAssumption ==
    /\ Readers # {} /\ {Chunk, Capacity, Room} \subseteq Nat \ {0}

VARIABLES
    owner,    \* the thread that starts and stops: its stage
    worker,   \* stage, buffer, hunting, device_stopped, last_seq, and whether
              \* the device had stopped when this read began
    startT,   \* start_t_us
    stopRequested, error, ready,
    stats,    \* StreamStats without device_overruns
    hand,     \* records decoded and not yet queued; one at most
    reader,   \* out, testing, waiting, woken
    taken     \* history: the records read() has returned, of this stream

streamVars == <<owner, worker, startT, stopRequested, error, ready, stats, hand, reader, taken>>
vars == <<bulkVars, streamVars>>

NoStats == [received |-> 0, gaps |-> 0, drops |-> 0, resyncs |-> 0, stale |-> 0]
NewWorker == [stage |-> "top", buffer |-> <<>>, hunting |-> FALSE, stopped |-> FALSE,
              last |-> -1, late |-> FALSE]

Goto(stage) == worker' = [worker EXCEPT !.stage = stage]
MutexFree   == \A r \in Readers : reader[r] # "testing"
Wake(rs)    == reader' = [r \in Readers |-> IF r \in rs /\ reader[r] = "waiting"
                                           THEN "woken" ELSE reader[r]]
Waiting     == {r \in Readers : reader[r] = "waiting"}

-----------------------------------------------------------------------------
(* The worker                                                              *)

(* The loop tests stop_requested, then calls bulk_in().                    *)
Top ==
    /\ worker.stage = "top"
    /\ IF stopRequested THEN Goto("ending") /\ UNCHANGED bulkVars
       ELSE /\ worker' = [worker EXCEPT !.stage = "read", !.late = ~dev.running]
            /\ IF ring = "none" THEN OpenRing ELSE UNCHANGED bulkVars
    /\ UNCHANGED <<owner, startT, stopRequested, error, ready, stats, hand, reader, taken>>

End(why) == error' = why /\ Goto("ending")

(* read() throws the ring's error, once.                                   *)
ReadThrows ==
    /\ worker.stage = "read" /\ fatal # "none" /\ MutexFree
    /\ fatal' = "none" /\ End(fatal)
    /\ UNCHANGED <<dev, tx, plugged, ring, inFlight, cancels, done, count, bytes, faults,
                   owner, startT, stopRequested, ready, stats, hand, reader, taken>>

ReadBytes ==
    /\ worker.stage = "read" /\ fatal = "none" /\ bytes # <<>>
    /\ LET n == IF Len(bytes) < Chunk THEN Len(bytes) ELSE Chunk IN
       /\ worker' = [worker EXCEPT !.stage = "decode", !.buffer = @ \o SubSeq(bytes, 1, n)]
       /\ bytes' = SubSeq(bytes, n + 1, Len(bytes))
    /\ UNCHANGED <<dev, tx, plugged, ring, inFlight, cancels, done, count, fatal, faults,
                   owner, startT, stopRequested, error, ready, stats, hand, reader, taken>>

(* IoTimeout is over.  It is long enough for what a stopped device still   *)
(* holds to arrive: no read that began after it stopped ends before that.  *)
Quiet == worker.stage = "read" /\ fatal = "none" /\ bytes = <<>> /\ (worker.late => ~InTransit)

(* Bug: the stream ends as soon as the device is seen to have stopped.     *)
BugEndsEarly ==
    /\ worker.stage = "read" /\ fatal = "none" /\ bytes = <<>>
    /\ IF worker.stopped THEN MutexFree /\ End("device stopped") ELSE Goto("decode") /\ UNCHANGED error
    /\ UNCHANGED <<bulkVars, owner, startT, stopRequested, ready, stats, hand, reader, taken>>

ReadTimeout ==
    /\ Quiet
    /\ IF worker.stopped THEN MutexFree /\ End("device stopped") ELSE Goto("decode") /\ UNCHANGED error
    /\ UNCHANGED <<bulkVars, owner, startT, stopRequested, ready, stats, hand, reader, taken>>

Buffer == worker.buffer
HasHeader == Buffer # <<>> /\ Head(Buffer).part = "head"
HasRecord == HasHeader /\ Len(Buffer) >= 2
Rec       == Head(Buffer).rec
Stale     == IsStale(ClockWrap, startT, Rec.t)

(* Not the start of a record: hunt for the next header.                    *)
Hunt ==
    /\ worker.stage = "decode" /\ Buffer # <<>> /\ ~HasHeader
    /\ worker' = [worker EXCEPT !.hunting = TRUE, !.buffer = Tail(@)]
    /\ UNCHANGED <<bulkVars, owner, startT, stopRequested, error, ready, stats, hand, reader, taken>>

(* A whole record is cut off the buffer; one of an earlier stream is left  *)
(* out, any other is numbered, counted and delivered.                      *)
SkipStale ==
    /\ worker.stage = "decode" /\ HasRecord /\ Stale /\ MutexFree
    /\ worker' = [worker EXCEPT !.buffer = SubSeq(@, 3, Len(@)), !.hunting = FALSE]
    /\ stats' = [stats EXCEPT !.stale = @ + 1, !.resyncs = @ + (IF worker.hunting THEN 1 ELSE 0)]
    /\ UNCHANGED <<bulkVars, owner, startT, stopRequested, error, ready, hand, reader, taken>>

Received(gap) ==
    /\ worker' = [worker EXCEPT !.buffer = SubSeq(@, 3, Len(@)), !.hunting = FALSE,
                                !.stage = "deliver", !.last = Rec.seq]
    /\ stats' = [stats EXCEPT !.received = @ + 1, !.gaps = @ + gap,
                              !.resyncs = @ + (IF worker.hunting THEN 1 ELSE 0)]
    /\ hand' = <<[head |-> Rec, body |-> Buffer[2].rec]>>
    /\ UNCHANGED <<bulkVars, owner, startT, stopRequested, error, ready, reader, taken>>

(* Bug: stale records are let in.                                          *)
BugDecodeAny ==
    /\ worker.stage = "decode" /\ HasRecord /\ MutexFree
    /\ Received(IF worker.last = -1 THEN 0 ELSE SeqGap(ClockWrap, worker.last, Rec.seq))

DecodeRecord ==
    /\ worker.stage = "decode" /\ HasRecord /\ ~Stale /\ MutexFree
    /\ Received(IF worker.last = -1 THEN 0 ELSE SeqGap(ClockWrap, worker.last, Rec.seq))

(* Bug: the oldest record makes room without being counted.                *)
BugQueueForgets ==
    /\ worker.stage = "deliver" /\ MutexFree /\ hand # <<>>
    /\ ready' = (IF Len(ready) >= Capacity THEN Tail(ready) ELSE ready) \o hand
    /\ hand' = <<>>
    /\ Goto("notify")
    /\ UNCHANGED <<bulkVars, owner, startT, stopRequested, error, stats, reader, taken>>

(* deliver(): the oldest record makes room; then one reader is notified.   *)
Queue ==
    /\ worker.stage = "deliver" /\ MutexFree
    /\ ready' = (IF Len(ready) >= Capacity THEN Tail(ready) ELSE ready) \o hand
    /\ stats' = [stats EXCEPT !.drops = @ + (IF Len(ready) >= Capacity THEN 1 ELSE 0)]
    /\ hand' = <<>> /\ Goto("notify")
    /\ UNCHANGED <<bulkVars, owner, startT, stopRequested, error, reader, taken>>

NotifyOne ==
    /\ worker.stage = "notify"
    /\ IF Waiting = {} THEN UNCHANGED reader ELSE \E r \in Waiting : Wake({r})
    /\ Goto("decode")
    /\ UNCHANGED <<bulkVars, owner, startT, stopRequested, error, ready, stats, hand, taken>>

(* The buffer holds no whole record: the status is asked for when it is    *)
(* due; an answer that does not come is asked for again.                   *)
PollStatus ==
    /\ worker.stage = "decode" /\ (Buffer = <<>> \/ (HasHeader /\ ~HasRecord))
    /\ worker' \in {[worker EXCEPT !.stage = "top"],
                    [worker EXCEPT !.stage = "top", !.stopped = @ \/ (plugged /\ ~dev.running)]}
    /\ UNCHANGED <<bulkVars, owner, startT, stopRequested, error, ready, stats, hand, reader, taken>>

WorkerEnds ==
    /\ worker.stage = "ending"
    /\ worker' = [NewWorker EXCEPT !.stage = "gone", !.last = worker.last] /\ Wake(Readers)
    /\ UNCHANGED <<bulkVars, owner, startT, stopRequested, error, ready, stats, hand, taken>>

WorkerStep ==
    \/ Top \/ ReadThrows \/ ReadBytes \/ ReadTimeout \/ Hunt \/ SkipStale
    \/ DecodeRecord \/ Queue \/ NotifyOne \/ PollStatus \/ WorkerEnds

-----------------------------------------------------------------------------
(* Readers                                                                 *)

(* read() takes whole records while they fit.                              *)
Take(r) ==
    LET n == IF Len(ready) < Room THEN Len(ready) ELSE Room IN
    /\ taken' = taken \o SubSeq(ready, 1, n)
    /\ ready' = SubSeq(ready, n + 1, Len(ready))
    /\ reader' = [reader EXCEPT ![r] = "out"]

(* A call of read(), or one that was woken: it takes what is there, gives  *)
(* up when the stream is being stopped, or is about to wait.               *)
Test(r) ==
    /\ MutexFree
    /\ reader[r] = "woken" \/ (reader[r] = "out" /\ owner = "streaming")
    /\ IF ready # <<>> \/ (reader[r] = "woken" /\ stopRequested) THEN Take(r)
       ELSE reader' = [reader EXCEPT ![r] = "testing"] /\ UNCHANGED <<ready, taken>>
    /\ UNCHANGED <<bulkVars, owner, worker, startT, stopRequested, error, stats, hand>>

Wait(r) ==
    /\ reader[r] = "testing"
    /\ reader' = [reader EXCEPT ![r] = "waiting"]
    /\ UNCHANGED <<bulkVars, owner, worker, startT, stopRequested, error, stats, ready, hand, taken>>

(* The timeout of read() is over, or it is woken up after that.            *)
ReadReturns(r) ==
    /\ reader[r] = "waiting" /\ MutexFree
    /\ Take(r)
    /\ UNCHANGED <<bulkVars, owner, worker, startT, stopRequested, error, stats, hand>>

ReaderStep(r) == Test(r) \/ Wait(r) \/ ReadReturns(r)

-----------------------------------------------------------------------------
(* The owner of the streams                                                *)

(* Nothing is left of the Stream before.                                   *)
Forget ==
    /\ stopRequested' = FALSE /\ error' = "" /\ ready' = <<>> /\ hand' = <<>>
    /\ stats' = NoStats /\ taken' = <<>>

(* read_stream_time(), STREAM_START, and the Stream; what the device holds *)
(* in its packet goes, what the endpoint or the host holds stays.          *)
StartStream ==
    /\ owner = "idle" /\ dev.stream < Len(MaxSeq) /\ plugged
    /\ ~dev.running /\ tx.stage = "idle"
    /\ \A r \in Readers : reader[r] = "out"
    /\ dev' = [dev EXCEPT !.running = TRUE, !.stream = @ + 1, !.clock = Tick, !.seq = 0,
                          !.packet = <<>>, !.dropped = {}]
    /\ startT' = Tick
    /\ Forget /\ worker' = NewWorker
    /\ owner' = "streaming"
    /\ UNCHANGED <<tx, plugged, ring, inFlight, cancels, done, count, bytes, fatal, faults, reader>>

(* stop(): the flag, the notification, the join, STREAM_STOP.              *)
SetStop ==
    /\ owner = "streaming"
    /\ stopRequested' = TRUE /\ owner' = "notify"
    /\ UNCHANGED <<bulkVars, worker, startT, error, ready, stats, hand, reader, taken>>

NotifyAll ==
    /\ owner = "notify"
    /\ Wake(Readers) /\ owner' = "join"
    /\ UNCHANGED <<bulkVars, worker, startT, stopRequested, error, ready, stats, hand, taken>>

Join ==
    /\ owner = "join" /\ worker.stage = "gone"
    /\ owner' = "idle"
    /\ dev' = [dev EXCEPT !.running = FALSE]
    /\ UNCHANGED <<tx, plugged, ring, inFlight, cancels, done, count, bytes, fatal, faults,
                   worker, startT, stopRequested, error, ready, stats, hand, reader, taken>>

(* The Streams go, then the Device, and the transport with it.             *)
Destroy ==
    /\ owner = "idle" /\ ring = "open" /\ CloseRing
    /\ \A r \in Readers : reader[r] = "out"
    /\ owner' = "destroyed" /\ Forget /\ worker' = [NewWorker EXCEPT !.stage = "gone"]
    /\ UNCHANGED <<startT, reader>>

-----------------------------------------------------------------------------
Init ==
    /\ BulkInit
    /\ owner = "idle" /\ worker = [NewWorker EXCEPT !.stage = "gone"] /\ startT = 0
    /\ stopRequested = FALSE /\ error = "" /\ ready = <<>> /\ stats = NoStats
    /\ hand = <<>> /\ reader = [r \in Readers |-> "out"] /\ taken = <<>>

Next ==
    \/ BulkNext /\ UNCHANGED streamVars
    \/ WorkerStep
    \/ \E r \in Readers : ReaderStep(r)
    \/ StartStream \/ SetStop \/ NotifyAll \/ Join \/ Destroy

Spec == Init /\ [][Next]_vars

(* Threads are scheduled and each wait has a timeout; a thread that waits  *)
(* for bytes or for the ring to empty pumps libusb's events, and the       *)
(* kernel ends a transfer that was cancelled.                              *)
FairSpec ==
    /\ Spec
    /\ WF_vars(WorkerStep)
    /\ WF_vars((HandleComplete \/ Cancelled \/ FreeRing) /\ UNCHANGED streamVars)
    /\ WF_vars((WriteStep \/ Deliver) /\ UNCHANGED streamVars)
    /\ \A r \in Readers : WF_vars(Wait(r))
    /\ WF_vars(NotifyAll \/ Join)

-----------------------------------------------------------------------------
Handed == taken \o ready \o hand

(* Every record that was counted as received is given to one read(), or    *)
(* waits to be, or was dropped by a full queue and counted; and a gap of   *)
(* the numbers is counted once per record the device had to drop.          *)
RecordsAccounted ==
    /\ stats.received = Len(Handed) + stats.drops
    /\ stats.gaps = Cardinality({s \in dev.dropped : s < worker.last})

(* read() returns records of this stream only, although a second stream    *)
(* begins with what the endpoint and the ring kept of the first, perhaps   *)
(* half a record; each is whole, in order, and returned once.              *)
OnlyThisStream ==
    \A i \in DOMAIN Handed :
        /\ Handed[i].head = Handed[i].body /\ Handed[i].head.stream = dev.stream
        /\ i > 1 => Handed[i - 1].head.seq < Handed[i].head.seq

(* A stream ends by itself for a device that another session stopped, but  *)
(* not before each record the device took before that was read: "The       *)
(* records the device produced before stopping have all been read"         *)
(* (Stream.cpp, worker_main()).  A ring whose transfers have all failed in *)
(* a stream before reads nothing (BulkRing::read() throws once).           *)
DrainedBeforeEnd ==
    error = "device stopped" /\ inFlight > 0 =>
        stats.received + stats.gaps + Cardinality({s \in dev.dropped : s > worker.last}) = dev.seq

(* stop() joins a worker that may be in any stage, also on a device that   *)
(* does not answer any more, and the Device's destructor waits for every   *)
(* transfer: both return.                                                  *)
StopReturns ==
    owner \in {"notify", "join"} \/ ring = "closing" ~> owner = "idle" \/ ring = "freed"
=============================================================================
