----------------------------- MODULE UsbIoStream -----------------------------
(***************************************************************************)
(* Streaming in the UsbIo firmware (UsbIo.cpp, "streaming"): the host      *)
(* selects pins and starts or stops a stream with control requests, served *)
(* in the interrupt; stream_poll(), the last part of poll(), notices a     *)
(* START, samples a record, packs records of the ring into a packet and    *)
(* hands the packet to the transport.                                      *)
(*                                                                         *)
(* A handler is one action.  stream_poll() is cut where a request between  *)
(* two of its accesses can matter: only the selection and _stream_running  *)
(* are written by both sides.  Every pin is a DIO pin here.  The transport *)
(* is external: what its write returns is free.                            *)
(***************************************************************************)
EXTENDS Integers, Sequences, SequencesExt

CONSTANTS
    NPins,          \* number of pins
    MaxChannels,    \* USBIO_MAX_STREAM_CHANNELS
    RingDepth,      \* StreamRingDepth
    PacketMax,      \* how many records fit in a packet
    FailureLimit,   \* StreamTxFailureLimit
    ReqMod,         \* modulus of _stream_start_requests: 256 in the code
    MaxSeq,         \* bound on the records of one stream
    Results         \* what usbio_transport_stream_write() may return: SENT or
                    \* FAILED on SAMD, SENT or BUSY on Mbed

Pins == 0 .. NPins - 1

ASSUME StreamAssumption ==
    /\ NPins \in Nat \ {0} /\ MaxChannels \in Nat \ {0}
    /\ RingDepth \in Nat \ {0} /\ PacketMax \in Nat \ {0}
    /\ FailureLimit \in Nat \ {0}
    /\ ReqMod \in Nat \ {0, 1} /\ MaxSeq \in Nat
    /\ Results \subseteq {"SENT", "BUSY", "FAILED"}

VARIABLES
    readable,       \* pins whose intended mode is ANALOG_IN or INPUT*
    channels,       \* _stream_channels, up to _stream_n_channels
    running,        \* _stream_running
    stopOnOverrun,  \* USBIO_STREAM_FLAG_STOP_ON_OVERRUN in _stream_flags
    startRequests,  \* _stream_start_requests
    startDone,      \* _stream_start_done
    ring,           \* _stream_ring between _stream_tail and _stream_head
    packet,         \* the records in _stream_packet
    seq,            \* _stream_seq: the number of the next record
    overruns,       \* _stream_overruns
    failures,       \* _stream_tx_failures
    pc,             \* where stream_poll() is
    record,         \* the record that stream_sample() is filling
    sent,           \* history: records handed to the transport since the last
                    \* START that was noticed
    nextOnWire      \* history: no record below this number is to be sent

isrVars    == <<readable, channels, stopOnOverrun, startRequests>>
streamVars == <<startDone, ring, packet, seq, overruns, failures, sent, nextOnWire>>
scanVars   == <<pc, record>>
vars == <<isrVars, running, streamVars, scanVars>>

(* A record: its number, the samples its header promises, those it holds.  *)
NoRecord == [seq |-> 0, promised |-> 0, held |-> 0]

Init ==
    /\ readable = {} /\ channels = <<>>
    /\ running = FALSE /\ stopOnOverrun = FALSE
    /\ startRequests = 0 /\ startDone = 0
    /\ ring = <<>> /\ packet = <<>>
    /\ seq = 0 /\ overruns = 0 /\ failures = 0
    /\ pc = "idle" /\ record = NoRecord
    /\ sent = 0 /\ nextOnWire = 0
-----------------------------------------------------------------------------
(***************************************************************************)
(* The interrupt side.                                                     *)
(***************************************************************************)

(* stream_channel_index()                                                  *)
IsSelected(p) == \E i \in 1 .. Len(channels) : channels[i] = p

(* Bug: a pin may be selected while the stream runs.                       *)
BugSelectsWhileRunning(p) ==
    /\ p \in readable
    /\ ~IsSelected(p) /\ Len(channels) < MaxChannels
    /\ channels' = Append(channels, p)
    /\ UNCHANGED <<readable, stopOnOverrun, startRequests, running, streamVars,
                   scanVars>>

(* STREAM_SELECT, to add a pin that is not selected.                       *)
Select(p) ==
    /\ ~running /\ p \in readable
    /\ ~IsSelected(p) /\ Len(channels) < MaxChannels
    /\ channels' = Append(channels, p)
    /\ UNCHANGED <<readable, stopOnOverrun, startRequests, running, streamVars,
                   scanVars>>

(* STREAM_SELECT, to remove a selected pin: those behind it move up.       *)
Deselect(p) ==
    /\ ~running /\ p \in readable
    /\ \E i \in 1 .. Len(channels) :
        /\ channels[i] = p
        /\ channels' = RemoveAt(channels, i)
    /\ UNCHANGED <<readable, stopOnOverrun, startRequests, running, streamVars,
                   scanVars>>

NextRequest == IF startRequests = ReqMod - 1 THEN 0 ELSE startRequests + 1

(* STREAM_START.  What it resets is left to stream_poll().                 *)
(* Bound: the 8-bit request count does not come round to the count that    *)
(* stream_poll() has noticed.                                              *)
Start(stop) ==
    /\ ~running /\ channels # <<>>
    /\ NextRequest # startDone
    /\ stopOnOverrun' = stop
    /\ running' = TRUE
    /\ startRequests' = NextRequest
    /\ UNCHANGED <<readable, channels, streamVars, scanVars>>

(* STREAM_STOP keeps the selection and what is queued.                     *)
Stop ==
    /\ running' = FALSE
    /\ UNCHANGED <<isrVars, streamVars, scanVars>>

(* PIN_MODE, accepted: it stops a stream that samples the pin.             *)
PinMode(p, toReadable) ==
    /\ readable' = IF toReadable THEN readable \cup {p} ELSE readable \ {p}
    /\ running' = (running /\ ~IsSelected(p))
    /\ UNCHANGED <<channels, stopOnOverrun, startRequests, streamVars, scanVars>>

(* RESET: every pin is to be an input, nothing is selected or running.     *)
Reset ==
    /\ readable' = Pins
    /\ running' = FALSE
    /\ channels' = <<>>
    /\ UNCHANGED <<stopOnOverrun, startRequests, streamVars, scanVars>>

(* handle_usb_disconnected()                                               *)
Disconnect ==
    /\ running' = FALSE
    /\ channels' = <<>>
    /\ UNCHANGED <<readable, stopOnOverrun, startRequests, streamVars, scanVars>>
-----------------------------------------------------------------------------
(***************************************************************************)
(* The loop() side: stream_poll() and stream_sample().                     *)
(***************************************************************************)

Goto(label) == pc' = label

(* A START that was not noticed before: everything starts over.            *)
NoticeStart ==
    /\ pc = "idle" /\ startDone # startRequests
    /\ startDone' = startRequests
    /\ ring' = <<>> /\ packet' = <<>>
    /\ seq' = 0 /\ overruns' = 0 /\ failures' = 0
    /\ sent' = 0 /\ nextOnWire' = 0
    /\ Goto("sampling")
    /\ UNCHANGED <<isrVars, running, record>>

NoStart ==
    /\ pc = "idle" /\ startDone = startRequests
    /\ Goto("sampling")
    /\ UNCHANGED <<isrVars, running, streamVars, record>>

(* The period has elapsed, or the stream runs freely: stream_sample()      *)
(* writes the header.  Bound: no more than MaxSeq records of one stream.   *)
BeginRecord ==
    /\ pc = "sampling" /\ running /\ seq < MaxSeq
    /\ record' = [seq |-> seq, promised |-> Len(channels), held |-> 0]
    /\ Goto("record")
    /\ UNCHANGED <<isrVars, running, streamVars>>

(* Stopped, or the next record is not due.                                 *)
NotDue ==
    /\ pc = "sampling"
    /\ Goto("drain")
    /\ UNCHANGED <<isrVars, running, streamVars, record>>

(* The loop over the channels reads _stream_n_channels each time round.    *)
SampleChannel ==
    /\ pc = "record" /\ record.held < Len(channels)
    /\ record' = [record EXCEPT !.held = @ + 1]
    /\ UNCHANGED <<isrVars, running, streamVars, pc>>

RecordIsFilled == pc = "record" /\ record.held >= Len(channels)

(* Bug: the ring takes one record too many.                                *)
BugPushesIntoFull ==
    /\ RecordIsFilled /\ Len(ring) <= RingDepth
    /\ ring' = Append(ring, record)
    /\ seq' = seq + 1
    /\ record' = NoRecord
    /\ Goto("drain")
    /\ UNCHANGED <<isrVars, running, startDone, packet, overruns, failures, sent,
                   nextOnWire>>

(* The ring has room.                                                      *)
PushRecord ==
    /\ RecordIsFilled /\ Len(ring) < RingDepth
    /\ ring' = Append(ring, record)
    /\ seq' = seq + 1
    /\ record' = NoRecord
    /\ Goto("drain")
    /\ UNCHANGED <<isrVars, running, startDone, packet, overruns, failures, sent,
                   nextOnWire>>

(* The ring is full: the record is numbered all the same, then dropped.    *)
DropRecord ==
    /\ RecordIsFilled /\ Len(ring) >= RingDepth
    /\ seq' = seq + 1
    /\ overruns' = overruns + 1
    /\ running' = (running /\ ~stopOnOverrun)
    /\ record' = NoRecord
    /\ Goto("drain")
    /\ UNCHANGED <<isrVars, startDone, ring, packet, failures, sent, nextOnWire>>

Least(a, b) == IF a <= b THEN a ELSE b

(* How many records of the ring still fit in the packet.  Records of one   *)
(* stream have one length; a torn one is shorter and taken for as long.    *)
Fitting == Least(Len(ring), PacketMax - Len(packet))

(* Bug: only a running stream is drained.                                  *)
BugDrainsOnlyRunning ==
    /\ pc = "drain"
    /\ IF running
       THEN /\ packet' = packet \o SubSeq(ring, 1, Fitting)
            /\ ring' = SubSeq(ring, Fitting + 1, Len(ring))
       ELSE UNCHANGED <<packet, ring>>
    /\ Goto("flush")
    /\ UNCHANGED <<isrVars, running, startDone, seq, overruns, failures, sent,
                   nextOnWire, record>>

(* Records move from the ring to the packet while they fit.                *)
FillPacket ==
    /\ pc = "drain"
    /\ packet' = packet \o SubSeq(ring, 1, Fitting)
    /\ ring' = SubSeq(ring, Fitting + 1, Len(ring))
    /\ Goto("flush")
    /\ UNCHANGED <<isrVars, running, startDone, seq, overruns, failures, sent,
                   nextOnWire, record>>

(* Nothing to send, or a packet that still has room is held back.          *)
HoldBack ==
    /\ pc = "flush"
    /\ packet = <<>> \/ (Len(packet) < PacketMax /\ running)
    /\ Goto("idle")
    /\ UNCHANGED <<isrVars, running, streamVars, record>>

(* The packet is full, the stream has stopped, or StreamFlushUs is over.   *)
Flush ==
    /\ pc = "flush" /\ packet # <<>>
    /\ Goto("write")
    /\ UNCHANGED <<isrVars, running, streamVars, record>>

(* Bug: a packet that was sent stays where it is, and goes out again.      *)
BugSendsTwice ==
    /\ pc = "write" /\ "SENT" \in Results
    /\ sent' = sent + Len(packet)
    /\ nextOnWire' = packet[Len(packet)].seq + 1
    /\ failures' = 0
    /\ Goto("idle")
    /\ UNCHANGED <<isrVars, running, startDone, ring, packet, seq, overruns, record>>

WriteSent ==
    /\ pc = "write" /\ "SENT" \in Results
    /\ sent' = sent + Len(packet)
    /\ nextOnWire' = packet[Len(packet)].seq + 1
    /\ packet' = <<>>
    /\ failures' = 0
    /\ Goto("idle")
    /\ UNCHANGED <<isrVars, running, startDone, ring, seq, overruns, record>>

(* The packet before is still in flight: this one goes on filling up.      *)
WriteBusy ==
    /\ pc = "write" /\ "BUSY" \in Results
    /\ Goto("idle")
    /\ UNCHANGED <<isrVars, running, streamVars, record>>

WriteFailed ==
    /\ pc = "write" /\ "FAILED" \in Results
    /\ failures + 1 < FailureLimit
    /\ failures' = failures + 1
    /\ Goto("idle")
    /\ UNCHANGED <<isrVars, running, startDone, ring, packet, seq, overruns, sent,
                   nextOnWire, record>>

(* Bug: the records already packed are not counted.                        *)
BugForgetsPacket ==
    /\ pc = "write" /\ "FAILED" \in Results
    /\ failures + 1 >= FailureLimit
    /\ running' = FALSE
    /\ overruns' = overruns + Len(ring)
    /\ ring' = <<>> /\ packet' = <<>>
    /\ failures' = 0
    /\ Goto("idle")
    /\ UNCHANGED <<isrVars, startDone, seq, sent, nextOnWire, record>>

(* The host does not drain the endpoint: the stream is stopped, and what   *)
(* the packet and the ring hold is dropped and counted.                    *)
GiveUp ==
    /\ pc = "write" /\ "FAILED" \in Results
    /\ failures + 1 >= FailureLimit
    /\ running' = FALSE
    /\ overruns' = overruns + Len(packet) + Len(ring)
    /\ ring' = <<>> /\ packet' = <<>>
    /\ failures' = 0
    /\ Goto("idle")
    /\ UNCHANGED <<isrVars, startDone, seq, sent, nextOnWire, record>>
-----------------------------------------------------------------------------
Write == WriteSent \/ WriteBusy \/ WriteFailed \/ GiveUp

PollStep ==
    \/ NoticeStart \/ NoStart \/ BeginRecord \/ NotDue
    \/ SampleChannel \/ PushRecord \/ DropRecord
    \/ FillPacket \/ HoldBack \/ Flush \/ Write

HostStep ==
    \/ \E p \in Pins : Select(p) \/ Deselect(p)
    \/ \E stop \in BOOLEAN : Start(stop)
    \/ Stop
    \/ \E p \in Pins, to \in BOOLEAN : PinMode(p, to)
    \/ Reset \/ Disconnect

Next == PollStep \/ HostStep

Spec == Init /\ [][Next]_vars

(* The sketch calls poll() from loop() for ever.  A write that is tried    *)
(* again and again does not find a packet in flight each time: on SAMD it  *)
(* never does (pluggable_samd.cpp blocks, then answers SENT or FAILED), on *)
(* Mbed this assumes that the host goes on reading the endpoint.           *)
FairSpec ==
    /\ Spec
    /\ WF_vars(PollStep)
    /\ SF_vars(WriteSent \/ WriteFailed \/ GiveUp)
-----------------------------------------------------------------------------
(***************************************************************************)
(* Properties.                                                             *)
(***************************************************************************)

(* The records produced and not yet sent, in the order they will be sent.  *)
Waiting == packet \o ring

Records == [seq : 0 .. MaxSeq, promised : 0 .. MaxChannels, held : 0 .. MaxChannels]

FlagsOK == running \in BOOLEAN /\ stopOnOverrun \in BOOLEAN

DataOK ==
    /\ readable \subseteq Pins
    /\ channels \in Seq(Pins) /\ Len(channels) <= MaxChannels
    /\ startRequests \in 0 .. ReqMod - 1 /\ startDone \in 0 .. ReqMod - 1
    /\ ring \in Seq(Records) /\ Len(ring) <= RingDepth
    /\ packet \in Seq(Records) /\ Len(packet) <= PacketMax
    /\ seq \in 0 .. MaxSeq /\ overruns \in 0 .. MaxSeq
    /\ failures \in 0 .. FailureLimit - 1
    /\ pc \in {"idle", "sampling", "record", "drain", "flush", "write"}
    /\ record \in Records
    /\ sent \in 0 .. MaxSeq /\ nextOnWire \in 0 .. MaxSeq

(* Every variable has its type; neither ring nor packet is overfull.       *)
TypeOK == FlagsOK /\ DataOK

(* Each record of a stream is sent, counted as an overrun or still waiting:*)
(* none is lost silently, none is counted twice, whatever the transport    *)
(* answers and whenever the stream is stopped or started again             *)
(* (stream_poll(): "a host that comes back sees exactly what happened").   *)
Conserved == seq = sent + overruns + Len(Waiting)

(* Records reach the wire in the order of their numbers, none twice, so    *)
(* that a gap the host sees is a drop (usbio_stream_header_t: "gaps ==     *)
(* drops").                                                                *)
InOrder ==
    \A i \in 1 .. Len(Waiting) :
        /\ nextOnWire <= Waiting[i].seq /\ Waiting[i].seq < seq
        /\ \A j \in 1 .. i - 1 : Waiting[j].seq < Waiting[i].seq

(* A record that does not hold the samples its header promises was being   *)
(* filled when its stream was stopped and the selection changed under      *)
(* stream_sample(): nothing is sampled behind it before the stream is      *)
(* stopped for good, or a new START is about to empty ring and packet.     *)
TornIsLast ==
    \A i \in 1 .. Len(Waiting) :
        Waiting[i].promised # Waiting[i].held =>
            \/ i = Len(Waiting) /\ ~running
            \/ startDone # startRequests

(* A stopped stream is drained: "records already queued still reach the    *)
(* host" (usbio_protocol.h, STOP), unless the host never reads them and    *)
(* they are dropped.                                                       *)
HostSettles == <>[][~HostStep]_vars
StoppedIsDrained ==
    HostSettles /\ <>[]~running => <>[](Waiting = <<>>)
=============================================================================
