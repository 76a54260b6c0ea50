------------------------------- MODULE HostBulk -------------------------------
(***************************************************************************)
(* The way of a stream's bytes from the device to bulk_in(): poll() hands  *)
(* packets of whole records to the Mbed transport's stream_write(), whose  *)
(* endpoint is emptied by the ring of bulk transfers that LibusbTransport  *)
(* keeps in flight (BulkRing) and resubmits from their completion callback.*)
(*                                                                         *)
(* stream_write() is interrupted between any two of its steps by the USB   *)
(* interrupt.  A packet is shorter than the endpoint's (StreamEpSize - 1), *)
(* so that each completes one transfer.  A record is two units, its header *)
(* and its samples; what the device samples is UsbIoStream's matter, here  *)
(* a device that numbers, drops and times its records.                     *)
(***************************************************************************)
EXTENDS HostProtocol

CONSTANTS
    PacketMax,   \* records in a packet
    RingSize,    \* bulk transfers of the ring
    ClockWrap,   \* micros() and seq wrap here
    MaxSeq,      \* bound: records that each stream samples
    MaxFaults    \* bound: transfers that fail, unplugging, other sessions' STOPs

ASSUME BulkAssumption ==
    /\ {PacketMax, RingSize, ClockWrap} \subseteq Nat \ {0} /\ ClockWrap >= 2
    /\ MaxFaults \in Nat /\ MaxSeq \in Seq(Nat)

VARIABLES
    dev,      \* device: running, stream, clock, seq, the packet being filled,
              \* and (history) the numbers of the records it had to drop
    tx,       \* stream_write(): its stage, _tx_in_progress, _tx_buffer, and
              \* whether the endpoint is armed; armed is history: with what
    plugged,
    ring,     \* BulkRing: none, open, closing, freed
    inFlight, \* transfers submitted and not completed
    cancels,  \* transfers whose cancellation has been asked for
    done,     \* completions whose callback has not run: status and units
    count,    \* BulkRing::_outstanding
    bytes,    \* BulkRing::_queue, of units
    fatal,    \* BulkRing::_fatal_error
    faults

bulkVars == <<dev, tx, plugged, ring, inFlight, cancels, done, count, bytes, fatal, faults>>

(* Each record goes as its header and its samples, one after the other.    *)
OnTheWire(recs) ==
    [k \in 1 .. 2 * Len(recs) |->
        [part |-> IF k % 2 = 1 THEN "head" ELSE "body", rec |-> recs[(k + 1) \div 2]]]

-----------------------------------------------------------------------------
(* The device: loop() side                                                 *)

Tick == (dev.clock + 1) % ClockWrap

(* A record is sampled, numbered, and kept or (packet and ring full) lost. *)
Sample ==
    /\ dev.running /\ dev.seq < MaxSeq[dev.stream] /\ tx.stage = "idle"
    /\ LET rec == [stream |-> dev.stream, seq |-> dev.seq, t |-> dev.clock]
           d   == [dev EXCEPT !.seq = @ + 1, !.clock = Tick] IN
       dev' = IF Len(dev.packet) < PacketMax
              THEN [d EXCEPT !.packet = Append(@, rec)]
              ELSE [d EXCEPT !.dropped = @ \cup {dev.seq}]
    /\ UNCHANGED <<tx, plugged, ring, inFlight, cancels, done, count, bytes, fatal, faults>>

(* Stopped by another session, by RESET or by PIN_MODE: what is packed     *)
(* still goes out.                                                         *)
OtherStops ==
    /\ dev.running /\ dev' = [dev EXCEPT !.running = FALSE]
    /\ faults < MaxFaults /\ faults' = faults + 1
    /\ UNCHANGED <<tx, plugged, ring, inFlight, cancels, done, count, bytes, fatal>>

(* stream_write(): the packet is copied and the flag raised (an interrupt  *)
(* in between finds the flag low either way), the transfer armed; busy, or *)
(* refused by write_start(), it is tried again later.                      *)
WriteCopy ==
    /\ tx.stage = "idle" /\ ~tx.flag /\ dev.packet # <<>>
    /\ tx' = [tx EXCEPT !.stage = "arm", !.buffer = dev.packet, !.flag = TRUE]
    /\ UNCHANGED <<dev, plugged, ring, inFlight, cancels, done, count, bytes, fatal, faults>>

WriteArm ==
    /\ tx.stage = "arm"
    /\ IF plugged /\ tx.armed = <<>>
       THEN tx' = [tx EXCEPT !.stage = "sent", !.armed = tx.buffer]
       ELSE tx' = [tx EXCEPT !.stage = "idle", !.flag = FALSE, !.buffer = tx.armed]
    /\ UNCHANGED <<dev, plugged, ring, inFlight, cancels, done, count, bytes, fatal, faults>>

(* Bug: the flag is raised once the transfer is armed.                     *)
BugRaisesLate ==
    /\ tx.stage = "sent"
    /\ tx' = [tx EXCEPT !.stage = "idle", !.flag = TRUE]
    /\ dev' = [dev EXCEPT !.packet = <<>>]
    /\ UNCHANGED <<plugged, ring, inFlight, cancels, done, count, bytes, fatal, faults>>

(* SENT: stream_poll() starts another packet.                              *)
WriteSent ==
    /\ tx.stage = "sent"
    /\ tx' = [tx EXCEPT !.stage = "idle"]
    /\ dev' = [dev EXCEPT !.packet = <<>>]
    /\ UNCHANGED <<plugged, ring, inFlight, cancels, done, count, bytes, fatal, faults>>

WriteStep == WriteCopy \/ WriteArm \/ WriteSent

-----------------------------------------------------------------------------
(* The bus, and the interrupts it raises on the device                     *)

Completion(status, data) == done' = Append(done, [status |-> status, data |-> data])

EndOne == inFlight' = inFlight - 1 /\ cancels' = (IF cancels > 0 THEN cancels - 1 ELSE 0)

(* The host takes the packet, from the buffer as it is now (what it held   *)
(* no longer matters); _stream_send_done() lowers the flag.                *)
Deliver ==
    /\ tx.armed # <<>> /\ inFlight > 0
    /\ Completion("COMPLETED", tx.buffer) /\ EndOne
    /\ tx' = [tx EXCEPT !.armed = <<>>, !.buffer = <<>>, !.flag = FALSE]
    /\ UNCHANGED <<dev, plugged, ring, count, bytes, fatal, faults>>

FailTransfer ==
    /\ inFlight > 0 /\ plugged /\ faults < MaxFaults /\ faults' = faults + 1
    /\ Completion("STALL", <<>>) /\ EndOne
    /\ UNCHANGED <<dev, tx, plugged, ring, count, bytes, fatal>>

(* Unplugged: callback_state_change() drops the write in flight and        *)
(* handle_usb_disconnected() stops the stream; every transfer ends.        *)
Unplug ==
    /\ plugged /\ faults < MaxFaults /\ faults' = faults + 1
    /\ plugged' = FALSE
    /\ dev' = [dev EXCEPT !.running = FALSE]
    /\ tx' = [tx EXCEPT !.flag = FALSE, !.armed = <<>>,
                        !.buffer = IF tx.armed = <<>> THEN @ ELSE <<>>]
    /\ done' = done \o [i \in 1 .. inFlight |-> [status |-> "NO_DEVICE", data |-> <<>>]]
    /\ inFlight' = 0 /\ cancels' = 0
    /\ UNCHANGED <<ring, count, bytes, fatal>>

-----------------------------------------------------------------------------
(* The ring of transfers on the host                                       *)

(* submit() of n transfers that are not in flight, after another n were    *)
(* counted off; it is refused once the device is gone.                     *)
Submit(n, countedOff) ==
    IF plugged
    THEN /\ inFlight' = inFlight + n /\ count' = count + n - countedOff /\ UNCHANGED fatal
    ELSE /\ fatal' = (IF fatal = "none" THEN "NO_DEVICE" ELSE fatal)
         /\ count' = count - countedOff /\ UNCHANGED inFlight

(* bulk_in() builds the ring when it is called first.                      *)
OpenRing ==
    /\ ring = "none" /\ ring' = "open" /\ Submit(RingSize, 0)
    /\ UNCHANGED <<dev, tx, plugged, cancels, done, bytes, faults>>

(* Bug: a transfer that completes while the ring is torn down goes out     *)
(* again.                                                                  *)
BugResubmitsWhileClosing ==
    /\ done # <<>>
    /\ done' = Tail(done)
    /\ IF Head(done).status = "COMPLETED" /\ plugged
       THEN inFlight' = inFlight + 1 /\ bytes' = bytes /\ UNCHANGED <<count, fatal>>
       ELSE count' = count - 1 /\ UNCHANGED <<inFlight, bytes, fatal>>
    /\ UNCHANGED <<dev, tx, plugged, ring, cancels, faults>>

(* handle_complete(), whenever a thread pumps libusb's events.             *)
HandleComplete ==
    /\ done # <<>>
    /\ done' = Tail(done)
    /\ LET c == Head(done) IN
       IF c.status = "COMPLETED" /\ ring = "open"
       THEN /\ bytes' = bytes \o OnTheWire(c.data)
            /\ Submit(1, 1)
       ELSE /\ count' = count - 1
            /\ fatal' = IF ring = "open" /\ c.status # "CANCELLED" /\ fatal = "none"
                        THEN TransferCode(c.status) ELSE fatal
            /\ UNCHANGED <<bytes, inFlight>>
    /\ UNCHANGED <<dev, tx, plugged, ring, cancels, faults>>

(* ~BulkRing(): no more is submitted, each transfer is cancelled, and the  *)
(* buffers go once none is outstanding.                                    *)
CloseRing ==
    /\ ring = "open" /\ ring' = "closing" /\ cancels' = inFlight
    /\ UNCHANGED <<dev, tx, plugged, inFlight, done, count, bytes, fatal, faults>>

Cancelled ==
    /\ cancels > 0 /\ EndOne
    /\ Completion("CANCELLED", <<>>)
    /\ UNCHANGED <<dev, tx, plugged, ring, count, bytes, fatal, faults>>

FreeRing ==
    /\ ring = "closing" /\ count = 0
    /\ ring' = "freed" /\ bytes' = <<>>
    /\ UNCHANGED <<dev, tx, plugged, inFlight, cancels, done, count, fatal, faults>>

-----------------------------------------------------------------------------
BulkInit ==
    /\ dev = [running |-> FALSE, stream |-> 0, clock |-> ClockWrap - 2, seq |-> 0,
              packet |-> <<>>, dropped |-> {}]
    /\ tx = [stage |-> "idle", flag |-> FALSE, buffer |-> <<>>, armed |-> <<>>]
    /\ plugged = TRUE /\ ring = "none" /\ inFlight = 0 /\ cancels = 0 /\ done = <<>> /\ count = 0
    /\ bytes = <<>> /\ fatal = "none" /\ faults = 0

BulkNext ==
    \/ Sample \/ OtherStops \/ WriteStep \/ Deliver \/ FailTransfer \/ Unplug
    \/ HandleComplete \/ Cancelled \/ FreeRing

(* A record of the device, or the end of a transfer, is on its way.        *)
InTransit == bytes # <<>> \/ done # <<>> \/
             (inFlight > 0 /\ (tx.armed # <<>> \/ (plugged /\ dev.packet # <<>>)))

(* The in-flight flag is never left raised with no transfer to lower it,   *)
(* which would stall the stream for good, and a buffer that the endpoint   *)
(* sends from is never written (pluggable_mbed.cpp, stream_write(): "the   *)
(* flag is raised BEFORE the transfer is armed").  On the host a buffer is *)
(* freed only when libusb has given it back, although completions go on    *)
(* arriving while the ring is torn down (~BulkRing(): "wait for all of     *)
(* them before freeing their buffers").                                    *)
BuffersSafe ==
    /\ tx.flag /\ tx.stage = "idle" => tx.armed # <<>>
    /\ tx.armed # <<>> => tx.flag /\ tx.buffer = tx.armed
    /\ ring = "freed" => inFlight = 0 /\ done = <<>>
    /\ count = inFlight + Len(done)
=============================================================================
