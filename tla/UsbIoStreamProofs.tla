-------------------------- MODULE UsbIoStreamProofs --------------------------
(***************************************************************************)
(* Theorems about UsbIoStream, for every ring depth, packet size, failure  *)
(* limit, number of pins and transport that satisfy StreamAssumption.      *)
(***************************************************************************)
EXTENDS UsbIoStream, SequenceTheorems, TLAPS

(***************************************************************************)
(* The inductive invariant.                                                *)
(***************************************************************************)

(* The record being filled has the number that seq still holds.            *)
RecordIsNext == pc = "record" => record.seq = seq /\ seq < MaxSeq

(* A packet is on its way only if there is one.                            *)
WriteHasPacket == pc = "write" => packet # <<>>

(* What is on the wire was numbered before seq.                            *)
WireIsBehind == nextOnWire <= seq

StreamInv ==
    DataOK /\ Conserved /\ InOrder /\ RecordIsNext /\ WriteHasPacket /\ WireIsBehind
-----------------------------------------------------------------------------
USE StreamAssumption DEF Pins

(***************************************************************************)
(* Lemmas on the sequences of the model.                                   *)
(***************************************************************************)

LEMMA Regroup ==
  ASSUME NEW S, NEW p \in Seq(S), NEW a \in Seq(S), NEW b \in Seq(S)
  PROVE  (p \o a) \o b = p \o (a \o b)
  BY ConcatAssociative

(* Moving the first n records of the ring to the packet leaves what waits  *)
(* as it is.                                                               *)
LEMMA MoveKeepsWaiting ==
  ASSUME NEW p \in Seq(Records), NEW r \in Seq(Records), NEW n \in 0 .. Len(r)
  PROVE  /\ SubSeq(r, 1, n) \in Seq(Records) /\ Len(SubSeq(r, 1, n)) = n
         /\ SubSeq(r, n + 1, Len(r)) \in Seq(Records)
         /\ Len(SubSeq(r, n + 1, Len(r))) = Len(r) - n
         /\ (p \o SubSeq(r, 1, n)) \o SubSeq(r, n + 1, Len(r)) = p \o r
  <1> DEFINE front == SubSeq(r, 1, n)
             back == SubSeq(r, n + 1, Len(r))
  <1>1. front \in Seq(Records) /\ Len(front) = n
    BY SubSeqProperties
  <1>2. back \in Seq(Records) /\ Len(back) = Len(r) - n
    BY SubSeqProperties
  <1>3. front \o back = r
    <2>1. 1 \in 1 .. Len(r) + 1 /\ n \in 1 - 1 .. Len(r) /\ Len(r) \in n .. Len(r)
      OBVIOUS
    <2>2. front \o back = SubSeq(r, 1, Len(r))
      BY <2>1, ConcatAdjacentSubSeq
    <2> QED
      BY <2>2, SubSeqFull
  <1> HIDE DEF front, back
  <1>4. \A a, b \in Seq(Records) : (p \o a) \o b = p \o (a \o b)
    BY Regroup, SMTT(30)
  <1>5. (p \o front) \o back = p \o r
    BY <1>1, <1>2, <1>3, <1>4
  <1> QED
    BY <1>1, <1>2, <1>5 DEF front, back

(* Appending to the ring appends to what waits.                            *)
LEMMA AppendAtEnd ==
  ASSUME NEW S, NEW p \in Seq(S), NEW r \in Seq(S), NEW e \in S
  PROVE  p \o Append(r, e) = Append(p \o r, e)
  <1>1. <<e>> \in Seq(S) /\ p \o r \in Seq(S)
    BY ConcatProperties
  <1>2. Append(r, e) = r \o <<e>> /\ Append(p \o r, e) = (p \o r) \o <<e>>
    BY <1>1, AppendIsConcat
  <1>3. \A b \in Seq(S) : (p \o r) \o b = p \o (r \o b)
    BY Regroup
  <1> QED
    BY <1>1, <1>2, <1>3

LEMMA EmptyType ==
  ASSUME NEW S
  PROVE  <<>> \in Seq(S) /\ Len(<<>>) = 0
  BY EmptySeq

(* Removing one element of a sequence.                                     *)
LEMMA RemoveAtType ==
  ASSUME NEW S, NEW s \in Seq(S), NEW i \in 1 .. Len(s)
  PROVE  RemoveAt(s, i) \in Seq(S) /\ Len(RemoveAt(s, i)) = Len(s) - 1
  <1> DEFINE front == SubSeq(s, 1, i - 1)
             back == SubSeq(s, i + 1, Len(s))
  <1>1. front \in Seq(S) /\ Len(front) = i - 1
    BY SubSeqProperties
  <1>2. back \in Seq(S) /\ Len(back) = Len(s) - i
    BY SubSeqProperties
  <1>3. RemoveAt(s, i) = front \o back
    BY DEF RemoveAt
  <1> HIDE DEF front, back
  <1>4. front \o back \in Seq(S) /\ Len(front \o back) = Len(front) + Len(back)
    BY <1>1, <1>2, ConcatProperties
  <1> QED
    BY <1>1, <1>2, <1>3, <1>4

(* What waits is as long as packet and ring together, packet first.        *)
LEMMA WaitingIsPacketThenRing ==
  ASSUME NEW p \in Seq(Records), NEW r \in Seq(Records)
  PROVE  /\ Len(p \o r) = Len(p) + Len(r)
         /\ \A i \in 1 .. Len(p) + Len(r) :
               (p \o r)[i] = IF i <= Len(p) THEN p[i] ELSE r[i - Len(p)]
  BY ConcatProperties

(* Numbers in w grow from lo, below hi.                                    *)
Ordered(w, lo, hi) ==
    \A i \in 1 .. Len(w) :
        /\ lo <= w[i].seq /\ w[i].seq < hi
        /\ \A j \in 1 .. i - 1 : w[j].seq < w[i].seq

LEMMA RecordFields ==
  ASSUME NEW e \in Records
  PROVE  e.seq \in 0 .. MaxSeq /\ e.promised \in 0 .. MaxChannels
         /\ e.held \in 0 .. MaxChannels
  BY DEF Records

LEMMA OrderedEmpty == ASSUME NEW lo, NEW hi PROVE Ordered(<<>>, lo, hi)
  BY DEF Ordered

(* A record with the next number goes to the end.                          *)
LEMMA OrderedAppend ==
  ASSUME NEW w \in Seq(Records), NEW lo \in Nat, NEW hi \in Nat,
         NEW e \in Records, Ordered(w, lo, hi), e.seq = hi, lo <= hi
  PROVE  Ordered(Append(w, e), lo, hi + 1)
  <1>1. /\ Len(Append(w, e)) = Len(w) + 1
        /\ \A i \in 1 .. Len(w) : Append(w, e)[i] = w[i]
        /\ Append(w, e)[Len(w) + 1] = e
    BY AppendProperties
  <1>2. \A i \in 1 .. Len(w) : w[i].seq \in Nat /\ w[i].seq < hi
    BY RecordFields, ElementOfSeq DEF Ordered
  <1>3. Len(w) \in Nat
    BY LenProperties
  <1> DEFINE v == Append(w, e)
  <1> HIDE DEF v
  <1>4. ASSUME NEW i \in 1 .. Len(w) + 1
        PROVE  /\ lo <= v[i].seq /\ v[i].seq < hi + 1
               /\ \A j \in 1 .. i - 1 : v[j].seq < v[i].seq
    <2>1. CASE i \in 1 .. Len(w)
      BY <1>1, <1>2, <1>3, <2>1 DEF Ordered, v
    <2>2. CASE i = Len(w) + 1
      BY <1>1, <1>2, <1>3, <2>2 DEF v
    <2> QED
      BY <1>3, <2>1, <2>2
  <1> QED
    BY <1>1, <1>4 DEF Ordered, v

(* What is left behind p begins above the last number in p.                *)
LEMMA OrderedSuffix ==
  ASSUME NEW p \in Seq(Records), NEW r \in Seq(Records),
         NEW lo \in Nat, NEW hi \in Nat, p # <<>>, Ordered(p \o r, lo, hi)
  PROVE  /\ p[Len(p)].seq + 1 \in 0 .. hi
         /\ Ordered(r, p[Len(p)].seq + 1, hi)
  <1>1. /\ Len(p \o r) = Len(p) + Len(r)
        /\ \A i \in 1 .. Len(p) + Len(r) :
               (p \o r)[i] = IF i <= Len(p) THEN p[i] ELSE r[i - Len(p)]
    BY WaitingIsPacketThenRing
  <1>2. Len(p) \in Nat \ {0} /\ Len(r) \in Nat
    BY EmptySeq, LenProperties
  <1>3. /\ \A i \in 1 .. Len(r) : r[i].seq \in Nat
        /\ p[Len(p)].seq \in Nat
    BY <1>2, RecordFields, ElementOfSeq
  <1>4. (p \o r)[Len(p)] = p[Len(p)]
    BY <1>1, <1>2
  <1>5. \A i \in 1 .. Len(r) :
          (p \o r)[i + Len(p)] = r[i] /\ i + Len(p) \in 1 .. Len(p) + Len(r)
    BY <1>1, <1>2
  <1>6. p[Len(p)].seq < hi
    BY <1>1, <1>2, <1>4 DEF Ordered
  <1>7. ASSUME NEW i \in 1 .. Len(r)
        PROVE  /\ p[Len(p)].seq < r[i].seq /\ r[i].seq < hi
               /\ \A j \in 1 .. i - 1 : r[j].seq < r[i].seq
    <2>1. /\ (p \o r)[i + Len(p)] = r[i]
          /\ i + Len(p) \in 1 .. Len(p \o r)
          /\ Len(p) \in 1 .. (i + Len(p)) - 1
      BY <1>1, <1>2, <1>5
    <2>2. /\ r[i].seq < hi
          /\ \A k \in 1 .. (i + Len(p)) - 1 : (p \o r)[k].seq < r[i].seq
      BY <2>1 DEF Ordered
    <2>3. p[Len(p)].seq < r[i].seq
      BY <1>4, <2>1, <2>2
    <2>4. ASSUME NEW j \in 1 .. i - 1
          PROVE  r[j].seq < r[i].seq
      <3>1. j + Len(p) \in 1 .. (i + Len(p)) - 1 /\ j \in 1 .. Len(r)
        BY <1>2
      <3> QED
        BY <1>5, <2>2, <3>1
    <2> QED
      BY <2>2, <2>3, <2>4
  <1> QED
    BY <1>3, <1>6, <1>7 DEF Ordered

LEMMA InOrderIsOrdered == InOrder <=> Ordered(Waiting, nextOnWire, seq)
  BY DEF InOrder, Ordered

LEMMA NextRequestType ==
  ASSUME startRequests \in 0 .. ReqMod - 1
  PROVE  NextRequest \in 0 .. ReqMod - 1
  BY DEF NextRequest
-----------------------------------------------------------------------------
(***************************************************************************)
(* The invariant holds initially and is preserved.                         *)
(***************************************************************************)

LEMMA StreamInit == Init => StreamInv
  <1> SUFFICES ASSUME Init PROVE StreamInv
    OBVIOUS
  <1>1. Waiting = <<>> /\ Len(Waiting) = 0
    BY DEF Init, Waiting
  <1>2. /\ channels \in Seq(Pins) /\ Len(channels) = 0
        /\ ring \in Seq(Records) /\ Len(ring) = 0
        /\ packet \in Seq(Records) /\ Len(packet) = 0
    BY EmptyType DEF Init
  <1>3. record \in Records
    BY DEF Init, Records, NoRecord
  <1>4. DataOK
    BY <1>2, <1>3 DEF Init, DataOK
  <1> QED
    BY <1>1, <1>4 DEF Init, StreamInv, Conserved, InOrder, RecordIsNext, WriteHasPacket,
       WireIsBehind

(* A request of the host leaves what stream_poll() has produced alone.     *)
LEMMA HostKeepsStream ==
  ASSUME StreamInv, HostStep
  PROVE  StreamInv'
  <1>1. UNCHANGED <<streamVars, scanVars>>
    BY DEF HostStep, Select, Deselect, Start, Stop, PinMode, Reset, Disconnect
  <1>2. DataOK'
    <2> USE DEF DataOK, StreamInv, streamVars, scanVars, isrVars
    <2>1. ASSUME NEW p \in Pins, Select(p) PROVE DataOK'
      <3>1. channels' \in Seq(Pins) /\ Len(channels') = Len(channels) + 1
        BY <2>1, AppendProperties DEF Select
      <3>2. UNCHANGED <<readable, startRequests>> /\ Len(channels') <= MaxChannels
        BY <2>1, <3>1 DEF Select
      <3> QED
        BY <1>1, <3>1, <3>2
    <2>2. ASSUME NEW p \in Pins, Deselect(p) PROVE DataOK'
      <3>1. channels' \in Seq(Pins) /\ Len(channels') <= MaxChannels
        BY <2>2, RemoveAtType DEF Deselect
      <3> QED
        BY <1>1, <2>2, <3>1 DEF Deselect
    <2>3. ASSUME NEW stop \in BOOLEAN, Start(stop) PROVE DataOK'
      BY <1>1, <2>3, NextRequestType DEF Start
    <2>4. CASE Stop
      BY <1>1, <2>4 DEF Stop
    <2>5. ASSUME NEW p \in Pins, NEW to \in BOOLEAN, PinMode(p, to) PROVE DataOK'
      BY <1>1, <2>5 DEF PinMode
    <2>6. CASE Reset \/ Disconnect
      <3>1. channels' \in Seq(Pins) /\ Len(channels') = 0
        BY <2>6, EmptyType DEF Reset, Disconnect
      <3>2. readable' \subseteq Pins /\ UNCHANGED startRequests
        BY <2>6 DEF Reset, Disconnect
      <3> QED
        BY <1>1, <3>1, <3>2
    <2> QED
      BY <2>1, <2>2, <2>3, <2>4, <2>5, <2>6 DEF HostStep
  <1> QED
    BY <1>1, <1>2 DEF StreamInv, Conserved, InOrder, RecordIsNext, WriteHasPacket,
       WireIsBehind, Waiting, streamVars, scanVars

(* So does a step of stream_poll() that moves no record.                   *)
LEMMA QuietPollStep ==
  ASSUME StreamInv, UNCHANGED <<readable, channels, startRequests, streamVars>>,
         record' \in Records,
         pc' \in {"idle", "sampling", "record", "drain", "flush", "write"},
         pc' = "record" => record'.seq = seq /\ seq < MaxSeq,
         pc' = "write" => packet # <<>>
  PROVE  StreamInv'
  <1>1. DataOK'
    BY DEF StreamInv, DataOK, streamVars
  <1> QED
    BY <1>1 DEF StreamInv, Conserved, InOrder, RecordIsNext, WriteHasPacket,
       WireIsBehind, Waiting, streamVars

LEMMA RecordTypes ==
  ASSUME DataOK
  PROVE  /\ NoRecord \in Records
         /\ [seq |-> seq, promised |-> Len(channels), held |-> 0] \in Records
         /\ record.held < Len(channels) =>
               /\ [record EXCEPT !.held = @ + 1] \in Records
               /\ [record EXCEPT !.held = @ + 1].seq = record.seq
  <1>1. Len(channels) \in 0 .. MaxChannels
    BY LenProperties DEF DataOK
  <1>2. record \in Records /\ seq \in 0 .. MaxSeq
    BY DEF DataOK
  <1>3. NoRecord \in Records
    BY DEF Records, NoRecord
  <1>4. [seq |-> seq, promised |-> Len(channels), held |-> 0] \in Records
    BY <1>1, <1>2 DEF Records
  <1>5. ASSUME record.held < Len(channels)
        PROVE  /\ [record EXCEPT !.held = @ + 1] \in Records
               /\ [record EXCEPT !.held = @ + 1].seq = record.seq
    BY <1>1, <1>2, <1>5, SMTT(30) DEF Records
  <1> QED
    BY <1>3, <1>4, <1>5

LEMMA QuietSteps ==
  ASSUME StreamInv,
         NoStart \/ BeginRecord \/ NotDue \/ SampleChannel \/ HoldBack \/ Flush \/ WriteBusy
  PROVE  StreamInv'
  <1> USE DEF StreamInv, isrVars
  <1>1. record \in Records
    BY DEF DataOK
  <1>2. CASE NoStart \/ NotDue \/ HoldBack \/ WriteBusy
    BY <1>1, <1>2, QuietPollStep DEF NoStart, NotDue, HoldBack, WriteBusy, Goto
  <1>3. CASE Flush
    BY <1>1, <1>3, QuietPollStep DEF Flush, Goto
  <1>4. CASE BeginRecord
    BY <1>4, QuietPollStep, RecordTypes DEF BeginRecord, Goto
  <1>5. CASE SampleChannel
    BY <1>5, QuietPollStep, RecordTypes DEF SampleChannel, RecordIsNext
  <1> QED
    BY <1>2, <1>3, <1>4, <1>5
-----------------------------------------------------------------------------
(***************************************************************************)
(* The steps that move records.                                            *)
(***************************************************************************)

(* What Waiting is made of, and how Conserved bounds it.                   *)
LEMMA WaitingType ==
  ASSUME StreamInv
  PROVE  /\ Waiting \in Seq(Records)
         /\ Len(Waiting) = Len(packet) + Len(ring)
         /\ Len(packet) \in Nat /\ Len(ring) \in Nat
         /\ seq = sent + overruns + Len(packet) + Len(ring)
         /\ Ordered(Waiting, nextOnWire, seq)
  <1>1. ring \in Seq(Records) /\ packet \in Seq(Records)
    BY DEF StreamInv, DataOK
  <1>2. /\ Waiting \in Seq(Records) /\ Len(Waiting) = Len(packet) + Len(ring)
        /\ Len(packet) \in Nat /\ Len(ring) \in Nat
    BY <1>1, ConcatProperties, LenProperties DEF Waiting
  <1>3. sent \in Nat /\ overruns \in Nat
    BY DEF StreamInv, DataOK
  <1> QED
    BY <1>2, <1>3, InOrderIsOrdered DEF StreamInv, Conserved

LEMMA CountersFit ==
  ASSUME ring' \in Seq(Records), packet' \in Seq(Records),
         seq' \in 0 .. MaxSeq, overruns' \in Nat, sent' \in Nat,
         seq' = sent' + overruns' + Len(packet') + Len(ring')
  PROVE  overruns' \in 0 .. MaxSeq /\ sent' \in 0 .. MaxSeq
  <1>1. Len(packet') \in Nat /\ Len(ring') \in Nat
    BY LenProperties
  <1> QED
    BY <1>1, SMTT(30)

(* The pieces of the invariant after a step that leaves the host's part of *)
(* the state alone.                                                        *)
LEMMA PollFinish ==
  ASSUME StreamInv, UNCHANGED <<readable, channels, startRequests>>,
         startDone' \in {startDone, startRequests},
         ring' \in Seq(Records), Len(ring') <= RingDepth,
         packet' \in Seq(Records), Len(packet') <= PacketMax,
         seq' \in 0 .. MaxSeq, overruns' \in Nat, sent' \in Nat,
         nextOnWire' \in Nat, nextOnWire' <= seq',
         failures' \in 0 .. FailureLimit - 1,
         record' \in Records,
         pc' \in {"idle", "sampling", "drain", "flush"},
         seq' = sent' + overruns' + Len(packet') + Len(ring'),
         Ordered(packet' \o ring', nextOnWire', seq')
  PROVE  StreamInv'
  <1>1. /\ Len(packet') \in Nat /\ Len(ring') \in Nat
        /\ Len(packet' \o ring') = Len(packet') + Len(ring')
    BY LenProperties, ConcatProperties
  <1>2. overruns' \in 0 .. MaxSeq /\ sent' \in 0 .. MaxSeq /\ nextOnWire' \in 0 .. MaxSeq
    <2>1. overruns' \in 0 .. MaxSeq /\ sent' \in 0 .. MaxSeq
      BY CountersFit
    <2>2. nextOnWire' \in 0 .. MaxSeq
      OBVIOUS
    <2> QED
      BY <2>1, <2>2
  <1>3. startDone' \in 0 .. ReqMod - 1
    BY DEF StreamInv, DataOK
  <1>4. DataOK'
    BY <1>2, <1>3 DEF StreamInv, DataOK
  <1>5. Conserved'
    BY <1>1, <1>2, SMTT(30) DEF Conserved, Waiting
  <1>6. InOrder'
    BY DEF InOrder, Ordered, Waiting
  <1> QED
    BY <1>4, <1>5, <1>6 DEF StreamInv, RecordIsNext, WriteHasPacket, WireIsBehind

(* A new START empties everything, and so do the steps that give up.       *)
LEMMA EmptySteps ==
  ASSUME StreamInv, NoticeStart \/ GiveUp
  PROVE  StreamInv'
  <1>1. /\ ring' = <<>> /\ packet' = <<>>
        /\ UNCHANGED <<readable, channels, startRequests, record>>
        /\ startDone' \in {startDone, startRequests}
        /\ pc' \in {"idle", "sampling"} /\ failures' = 0
    BY DEF NoticeStart, GiveUp, isrVars, Goto
  <1>2. /\ ring' \in Seq(Records) /\ Len(ring') = 0
        /\ packet' \in Seq(Records) /\ Len(packet') = 0
    BY <1>1, EmptyType
  <1>3. packet' \o ring' = <<>>
    BY <1>1, ConcatEmptySeq, EmptyType
  <1>4. Ordered(packet' \o ring', nextOnWire', seq')
    BY <1>3, OrderedEmpty
  <1>5. record \in Records /\ seq \in 0 .. MaxSeq /\ nextOnWire \in Nat
        /\ nextOnWire <= seq /\ overruns \in Nat /\ sent \in Nat
    BY DEF StreamInv, DataOK, WireIsBehind
  <1>6. /\ seq' \in 0 .. MaxSeq /\ overruns' \in Nat /\ sent' \in Nat
        /\ nextOnWire' \in Nat /\ nextOnWire' <= seq'
        /\ seq' = sent' + overruns'
    <2>1. CASE NoticeStart
      BY <2>1 DEF NoticeStart
    <2>2. CASE GiveUp
      BY <1>5, <2>2, WaitingType DEF GiveUp
    <2> QED
      BY <2>1, <2>2
  <1>7. seq' = sent' + overruns' + Len(packet') + Len(ring')
    BY <1>2, <1>6
  <1>8. /\ record' \in Records
        /\ Len(packet') <= PacketMax /\ Len(ring') <= RingDepth
        /\ failures' \in 0 .. FailureLimit - 1
    BY <1>1, <1>2, <1>5
  <1> QED
    BY <1>1, <1>2, <1>4, <1>6, <1>7, <1>8, PollFinish

(* The record that was filled joins the end of what waits.                 *)
LEMMA PushStep ==
  ASSUME StreamInv, PushRecord
  PROVE  StreamInv'
  <1>1. /\ ring \in Seq(Records) /\ packet \in Seq(Records) /\ record \in Records
        /\ Len(packet) <= PacketMax /\ failures \in 0 .. FailureLimit - 1
        /\ seq \in 0 .. MaxSeq /\ overruns \in Nat /\ sent \in Nat
        /\ nextOnWire \in Nat /\ nextOnWire <= seq
        /\ record.seq = seq /\ seq < MaxSeq
    BY DEF PushRecord, RecordIsFilled, StreamInv, DataOK, WireIsBehind, RecordIsNext
  <1>2. /\ ring' = Append(ring, record) /\ seq' = seq + 1 /\ record' = NoRecord
        /\ pc' = "drain" /\ Len(ring) < RingDepth
        /\ UNCHANGED <<readable, channels, startRequests, startDone, packet,
                       overruns, failures, sent, nextOnWire>>
    BY DEF PushRecord, Goto, isrVars
  <1>3. ring' \in Seq(Records) /\ Len(ring') = Len(ring) + 1
    BY <1>1, <1>2, AppendProperties
  <1>4. packet' \o ring' = Append(Waiting, record)
    BY <1>1, <1>2, AppendAtEnd DEF Waiting
  <1>5. Ordered(packet' \o ring', nextOnWire', seq')
    BY <1>1, <1>2, <1>4, WaitingType, OrderedAppend
  <1>6. seq' = sent' + overruns' + Len(packet') + Len(ring')
    BY <1>1, <1>2, <1>3, WaitingType
  <1>7. record' \in Records
    BY <1>2, RecordTypes DEF StreamInv
  <1>8. seq' \in 0 .. MaxSeq /\ nextOnWire' <= seq' /\ Len(ring') <= RingDepth
    BY <1>1, <1>2, <1>3, WaitingType
  <1> QED
    BY <1>1, <1>2, <1>3, <1>5, <1>6, <1>7, <1>8, PollFinish

(* A record that finds the ring full is counted.                           *)
LEMMA DropStep ==
  ASSUME StreamInv, DropRecord
  PROVE  StreamInv'
  <1>1. /\ ring \in Seq(Records) /\ packet \in Seq(Records)
        /\ Len(ring) <= RingDepth /\ Len(packet) <= PacketMax
        /\ failures \in 0 .. FailureLimit - 1
        /\ seq \in 0 .. MaxSeq /\ overruns \in Nat /\ sent \in Nat
        /\ nextOnWire \in Nat /\ nextOnWire <= seq /\ seq < MaxSeq
    BY DEF DropRecord, RecordIsFilled, StreamInv, DataOK, WireIsBehind, RecordIsNext
  <1>2. /\ seq' = seq + 1 /\ overruns' = overruns + 1 /\ record' = NoRecord
        /\ pc' = "drain"
        /\ UNCHANGED <<readable, channels, startRequests, startDone, ring, packet,
                       failures, sent, nextOnWire>>
    BY DEF DropRecord, Goto, isrVars
  <1>3. Ordered(Waiting, nextOnWire, seq + 1)
    <2>1. \A i \in 1 .. Len(Waiting) : Waiting[i].seq \in Nat
      BY WaitingType, ElementOfSeq, RecordFields
    <2>2. ASSUME NEW i \in 1 .. Len(Waiting)
          PROVE  /\ nextOnWire <= Waiting[i].seq /\ Waiting[i].seq < seq
                 /\ \A j \in 1 .. i - 1 : Waiting[j].seq < Waiting[i].seq
      BY WaitingType DEF Ordered
    <2>3. \A i \in 1 .. Len(Waiting) : Waiting[i].seq < seq + 1
      BY <1>1, <2>1, <2>2
    <2> QED
      BY <2>2, <2>3 DEF Ordered
  <1>4. Ordered(packet' \o ring', nextOnWire', seq')
    BY <1>2, <1>3 DEF Waiting
  <1>5. seq' = sent' + overruns' + Len(packet') + Len(ring')
    BY <1>1, <1>2, WaitingType
  <1>6. record' \in Records
    BY <1>2, RecordTypes DEF StreamInv
  <1>7. seq' \in 0 .. MaxSeq /\ nextOnWire' <= seq' /\ overruns' \in Nat
    BY <1>1, <1>2
  <1> QED
    BY <1>1, <1>2, <1>4, <1>5, <1>6, <1>7, PollFinish

LEMMA SumAssociates ==
  ASSUME NEW s \in Nat, NEW o \in Nat, NEW p \in Nat, NEW r \in Nat
  PROVE  s + o + (p + r) = s + o + p + r
  OBVIOUS

(* Records move from the ring to the packet.                               *)
LEMMA FillStep ==
  ASSUME StreamInv, FillPacket
  PROVE  StreamInv'
  <1>1. /\ ring \in Seq(Records) /\ packet \in Seq(Records) /\ record \in Records
        /\ Len(ring) <= RingDepth /\ Len(packet) <= PacketMax
        /\ failures \in 0 .. FailureLimit - 1
        /\ seq \in 0 .. MaxSeq /\ overruns \in Nat /\ sent \in Nat
        /\ nextOnWire \in Nat /\ nextOnWire <= seq
    BY DEF StreamInv, DataOK, WireIsBehind
  <1>2. /\ Len(ring) \in Nat /\ Len(packet) \in Nat
        /\ Fitting \in 0 .. Len(ring) /\ Len(packet) + Fitting <= PacketMax
    BY <1>1, LenProperties DEF Fitting, Least
  <1>3. /\ packet' = packet \o SubSeq(ring, 1, Fitting)
        /\ ring' = SubSeq(ring, Fitting + 1, Len(ring))
        /\ pc' = "flush"
        /\ UNCHANGED <<readable, channels, startRequests, startDone, seq, overruns,
                       failures, sent, nextOnWire, record>>
    BY DEF FillPacket, Goto, isrVars
  <1>4. /\ ring' \in Seq(Records) /\ Len(ring') = Len(ring) - Fitting
        /\ packet' \o ring' = Waiting
        /\ SubSeq(ring, 1, Fitting) \in Seq(Records)
        /\ Len(SubSeq(ring, 1, Fitting)) = Fitting
    <2>1. \A n \in 0 .. Len(ring) :
            /\ SubSeq(ring, 1, n) \in Seq(Records) /\ Len(SubSeq(ring, 1, n)) = n
            /\ SubSeq(ring, n + 1, Len(ring)) \in Seq(Records)
            /\ Len(SubSeq(ring, n + 1, Len(ring))) = Len(ring) - n
            /\ (packet \o SubSeq(ring, 1, n)) \o SubSeq(ring, n + 1, Len(ring))
                  = packet \o ring
      BY <1>1, MoveKeepsWaiting
    <2> QED
      BY <1>2, <1>3, <2>1 DEF Waiting
  <1>5. packet' \in Seq(Records) /\ Len(packet') = Len(packet) + Fitting
    BY <1>1, <1>3, <1>4, ConcatProperties
  <1>6. Ordered(packet' \o ring', nextOnWire', seq')
    BY <1>3, <1>4, WaitingType
  <1>7. seq' = sent' + overruns' + Len(packet') + Len(ring')
    <2>1. Len(packet') + Len(ring') = Len(packet) + Len(ring)
      BY <1>2, <1>4, <1>5
    <2>2. seq = sent + overruns + (Len(packet) + Len(ring))
      BY <1>1, <1>2, WaitingType
    <2>3. Len(packet') \in Nat /\ Len(ring') \in Nat
      BY <1>4, <1>5, LenProperties
    <2>4. seq' = sent' + overruns' + (Len(packet') + Len(ring'))
      BY <1>3, <2>1, <2>2
    <2>5. sent' \in Nat /\ overruns' \in Nat
      BY <1>1, <1>3
    <2> QED
      BY <2>3, <2>4, <2>5, SumAssociates
  <1>8. Len(ring') <= RingDepth /\ Len(packet') <= PacketMax
    BY <1>1, <1>2, <1>4, <1>5
  <1> QED
    BY <1>1, <1>3, <1>4, <1>5, <1>6, <1>7, <1>8, PollFinish

(* A packet that is sent leaves from the front of what waits.              *)
LEMMA SentStep ==
  ASSUME StreamInv, WriteSent
  PROVE  StreamInv'
  <1>1. /\ ring \in Seq(Records) /\ packet \in Seq(Records) /\ record \in Records
        /\ Len(ring) <= RingDepth /\ packet # <<>>
        /\ seq \in 0 .. MaxSeq /\ overruns \in Nat /\ sent \in Nat
        /\ nextOnWire \in Nat
    BY DEF WriteSent, StreamInv, DataOK, WriteHasPacket
  <1>2. /\ sent' = sent + Len(packet) /\ packet' = <<>> /\ failures' = 0
        /\ nextOnWire' = packet[Len(packet)].seq + 1 /\ pc' = "idle"
        /\ UNCHANGED <<readable, channels, startRequests, startDone, ring, seq,
                       overruns, record>>
    BY DEF WriteSent, Goto, isrVars
  <1>3. packet' \in Seq(Records) /\ Len(packet') = 0 /\ packet' \o ring' = ring
    BY <1>1, <1>2, EmptyType, ConcatEmptySeq
  <1>4. nextOnWire' \in 0 .. seq /\ Ordered(ring, nextOnWire', seq)
    BY <1>1, <1>2, WaitingType, OrderedSuffix DEF Waiting
  <1>5. Ordered(packet' \o ring', nextOnWire', seq')
    BY <1>2, <1>3, <1>4
  <1>6. sent' \in Nat /\ seq' = sent' + overruns' + Len(packet') + Len(ring')
    BY <1>1, <1>2, <1>3, WaitingType
  <1>7. failures' \in 0 .. FailureLimit - 1 /\ Len(packet') <= PacketMax
        /\ nextOnWire' \in Nat /\ nextOnWire' <= seq'
    BY <1>1, <1>2, <1>3, <1>4
  <1> QED
    BY <1>1, <1>2, <1>3, <1>5, <1>6, <1>7, PollFinish

(* A write that fails, but not for the last time, moves nothing.           *)
LEMMA FailedStep ==
  ASSUME StreamInv, WriteFailed
  PROVE  StreamInv'
  <1>1. /\ ring \in Seq(Records) /\ packet \in Seq(Records) /\ record \in Records
        /\ Len(ring) <= RingDepth /\ Len(packet) <= PacketMax
        /\ seq \in 0 .. MaxSeq /\ overruns \in Nat /\ sent \in Nat
        /\ nextOnWire \in Nat /\ nextOnWire <= seq
        /\ failures \in 0 .. FailureLimit - 1
    BY DEF StreamInv, DataOK, WireIsBehind
  <1>2. /\ failures' = failures + 1 /\ failures + 1 < FailureLimit /\ pc' = "idle"
        /\ UNCHANGED <<readable, channels, startRequests, startDone, ring, packet,
                       seq, overruns, sent, nextOnWire, record>>
    BY DEF WriteFailed, Goto, isrVars
  <1>3. Ordered(packet' \o ring', nextOnWire', seq')
    BY <1>2, WaitingType DEF Waiting
  <1>4. seq' = sent' + overruns' + Len(packet') + Len(ring')
    BY <1>2, WaitingType
  <1>5. failures' \in 0 .. FailureLimit - 1
    BY <1>1, <1>2
  <1> QED
    BY <1>1, <1>2, <1>3, <1>4, <1>5, PollFinish

(* Every step of stream_poll() preserves the invariant.                    *)
LEMMA PollKeepsStream ==
  ASSUME StreamInv, PollStep
  PROVE  StreamInv'
  BY QuietSteps, EmptySteps, PushStep, DropStep, FillStep, SentStep, FailedStep
     DEF PollStep, Write

LEMMA StreamStutter ==
  ASSUME StreamInv, UNCHANGED vars
  PROVE  StreamInv'
  BY DEF StreamInv, DataOK, Conserved, InOrder, RecordIsNext, WriteHasPacket,
     WireIsBehind, Waiting, vars, isrVars, streamVars, scanVars

LEMMA StreamIsInvariant == Spec => []StreamInv
  <1>1. StreamInv /\ [Next]_vars => StreamInv'
    BY HostKeepsStream, PollKeepsStream, StreamStutter DEF Next
  <1> QED
    BY <1>1, StreamInit, PTL DEF Spec
-----------------------------------------------------------------------------
(***************************************************************************)
(* The theorems.                                                           *)
(***************************************************************************)

(* The flags stay Boolean, whatever the host and poll() write to them.     *)
LEMMA FlagsNext ==
  ASSUME FlagsOK, [Next]_vars
  PROVE  FlagsOK'
  <1> USE DEF FlagsOK
  <1>1. CASE HostStep
    <2>1. ASSUME NEW p \in Pins, Select(p) \/ Deselect(p) PROVE FlagsOK'
      BY <2>1, Zenon DEF Select, Deselect
    <2>2. ASSUME NEW stop \in BOOLEAN, Start(stop) PROVE FlagsOK'
      BY <2>2, Zenon DEF Start
    <2>3. ASSUME NEW p \in Pins, NEW to \in BOOLEAN, PinMode(p, to) PROVE FlagsOK'
      BY <2>3, Zenon DEF PinMode
    <2>4. CASE Stop \/ Reset \/ Disconnect
      BY <2>4, Zenon DEF Stop, Reset, Disconnect, isrVars
    <2> QED
      BY <1>1, <2>1, <2>2, <2>3, <2>4, Zenon DEF HostStep
  <1>2. CASE PollStep
    BY <1>2, Zenon DEF PollStep, NoticeStart, NoStart, BeginRecord, NotDue, SampleChannel,
       PushRecord, DropRecord, FillPacket, HoldBack, Flush, Write, WriteSent,
       WriteBusy, WriteFailed, GiveUp, isrVars
  <1>3. CASE UNCHANGED vars
    BY <1>3, Zenon DEF vars, isrVars
  <1> QED
    BY <1>1, <1>2, <1>3 DEF Next

(* TypeOK is an invariant of every instance: in particular neither the     *)
(* ring nor the packet ever holds a record too many (stream_sample(),      *)
(* UsbIo.cpp:1157, and the fill loop of stream_poll(), 1064).              *)
THEOREM StreamTypeCorrect == Spec => []TypeOK
  <1>1. Init => FlagsOK
    BY Zenon DEF Init, FlagsOK
  <1>2. StreamInv /\ FlagsOK => TypeOK
    BY DEF StreamInv, TypeOK
  <1> QED
    BY <1>1, <1>2, FlagsNext, StreamIsInvariant, PTL DEF Spec

(* Every record of a stream is sent, counted as an overrun or waiting,     *)
(* whatever the transport answers and whenever requests arrive             *)
(* (stream_poll() and stream_sample(), UsbIo.cpp:1022-1169).               *)
THEOREM RecordsAreConserved == Spec => []Conserved
  <1>1. StreamInv => Conserved
    BY DEF StreamInv
  <1> QED
    BY <1>1, StreamIsInvariant, PTL

(* Records reach the wire in the order of their numbers, none twice: what  *)
(* the host sees as a gap is a drop (usbio_stream_header_t).               *)
THEOREM RecordsAreInOrder == Spec => []InOrder
  <1>1. StreamInv => InOrder
    BY DEF StreamInv
  <1> QED
    BY <1>1, StreamIsInvariant, PTL
-----------------------------------------------------------------------------
(***************************************************************************)
(* Torn records: the invariant behind TornIsLast.                          *)
(***************************************************************************)

Whole(e) == e.promised = e.held

(* While a record is filled for a START that was noticed, all that waits   *)
(* is whole; it will be whole itself unless the stream is stopped before   *)
(* it is complete, for the selection changes only in a stopped stream.     *)
TornInv ==
    /\ TornIsLast
    /\ pc = "record" /\ startDone = startRequests =>
        /\ \A i \in 1 .. Len(Waiting) : Whole(Waiting[i])
        /\ running => record.promised = Len(channels) /\ record.held <= Len(channels)

(* A step that moves no record and starts neither a record nor a stream    *)
(* preserves it, if it changes the selection in a stopped stream only.     *)
LEMMA TornCalm ==
  ASSUME TornInv, UNCHANGED <<Waiting, startDone, startRequests>>,
         running' => running /\ channels' = channels,
         pc' = "record" => pc = "record" /\ record' = record
  PROVE  TornInv'
  BY DEF TornInv, TornIsLast

(* What a request of the host does to selection and stream: a START that   *)
(* stream_poll() has not noticed, or nothing that starts a stream.         *)
LEMMA TornHost ==
  ASSUME StreamInv, FlagsOK, TornInv, HostStep
  PROVE  TornInv'
  <1>1. UNCHANGED <<streamVars, scanVars>>
    BY DEF HostStep, Select, Deselect, Start, Stop, PinMode, Reset, Disconnect
  <1>2. UNCHANGED <<Waiting, startDone, pc, record>>
    BY <1>1 DEF Waiting, streamVars, scanVars
  <1>3. ASSUME NEW stop \in BOOLEAN, Start(stop)
        PROVE  TornInv'
    <2>1. startDone' # startRequests'
      BY <1>2, <1>3 DEF Start
    <2> QED
      BY <2>1 DEF TornInv, TornIsLast
  <1>4. ASSUME NEW p \in Pins, Select(p) \/ Deselect(p)
        PROVE  TornInv'
    <2>1. ~running' /\ UNCHANGED startRequests
      BY <1>4 DEF Select, Deselect
    <2> QED
      BY <1>2, <2>1, TornCalm
  <1>5. ASSUME NEW p \in Pins, NEW to \in BOOLEAN, PinMode(p, to)
        PROVE  TornInv'
    <2>1. (running' => running) /\ UNCHANGED <<startRequests, channels>>
      BY <1>5, Zenon DEF PinMode
    <2> QED
      BY <1>2, <2>1, TornCalm
  <1>6. CASE Stop \/ Reset \/ Disconnect
    <2>1. ~running' /\ UNCHANGED startRequests
      BY <1>6 DEF Stop, Reset, Disconnect, isrVars
    <2> QED
      BY <1>2, <2>1, TornCalm
  <1> QED
    BY <1>3, <1>4, <1>5, <1>6 DEF HostStep

(* Filling the packet changes only where records wait.                     *)
LEMMA FillKeepsWaiting ==
  ASSUME StreamInv, FillPacket
  PROVE  UNCHANGED Waiting
  <1>1. ring \in Seq(Records) /\ packet \in Seq(Records) /\ Len(packet) <= PacketMax
    BY DEF StreamInv, DataOK
  <1>2. Fitting \in 0 .. Len(ring)
    BY <1>1, LenProperties DEF Fitting, Least
  <1>3. \A n \in 0 .. Len(ring) :
          (packet \o SubSeq(ring, 1, n)) \o SubSeq(ring, n + 1, Len(ring)) = packet \o ring
    BY <1>1, MoveKeepsWaiting
  <1> QED
    BY <1>2, <1>3 DEF FillPacket, Waiting

LEMMA TornQuiet ==
  ASSUME StreamInv, FlagsOK, TornInv,
         \/ NoStart \/ NotDue \/ HoldBack \/ Flush \/ WriteBusy \/ WriteFailed
         \/ DropRecord \/ FillPacket
  PROVE  TornInv'
  <1>1. /\ UNCHANGED <<startDone, startRequests, channels>> /\ pc' # "record"
        /\ FillPacket \/ UNCHANGED <<packet, ring>>
    BY DEF NoStart, NotDue, HoldBack, Flush, WriteBusy, WriteFailed, DropRecord,
       FillPacket, Goto, isrVars, streamVars
  <1>2. running' => running
    BY Zenon DEF NoStart, NotDue, HoldBack, Flush, WriteBusy, WriteFailed, DropRecord,
       FillPacket
  <1>3. UNCHANGED Waiting
    BY <1>1, FillKeepsWaiting DEF Waiting
  <1> QED
    BY <1>1, <1>2, <1>3, TornCalm

(* A record is begun only for a running stream, behind which all is whole. *)
LEMMA TornFilling ==
  ASSUME StreamInv, FlagsOK, TornInv, BeginRecord \/ SampleChannel
  PROVE  TornInv'
  <1>1. UNCHANGED <<startDone, startRequests, channels, running, Waiting>>
    BY DEF BeginRecord, SampleChannel, isrVars, streamVars, Waiting
  <1>2. Len(channels) \in Nat /\ record \in Records
    BY LenProperties DEF StreamInv, DataOK
  <1>3. TornIsLast'
    BY <1>1 DEF TornInv, TornIsLast
  <1>4. CASE BeginRecord
    <2>1. running /\ record'.promised = Len(channels) /\ record'.held = 0
      BY <1>4 DEF BeginRecord
    <2>2. startDone = startRequests => \A i \in 1 .. Len(Waiting) : Whole(Waiting[i])
      BY <2>1 DEF TornInv, TornIsLast, Whole
    <2> QED
      BY <1>1, <1>2, <1>3, <2>1, <2>2 DEF TornInv
  <1>5. CASE SampleChannel
    <2>1. /\ pc = "record" /\ pc' = pc /\ record.held < Len(channels)
          /\ record'.promised = record.promised /\ record'.held = record.held + 1
      BY <1>2, <1>5 DEF SampleChannel, Records
    <2>2. record.held + 1 <= Len(channels)
      BY <1>2, <2>1 DEF Records
    <2> QED
      BY <1>1, <1>3, <2>1, <2>2 DEF TornInv
  <1> QED
    BY <1>4, <1>5

(* Only the record that was being filled can be torn, and only if the      *)
(* stream has been stopped.                                                *)
LEMMA TornPush ==
  ASSUME StreamInv, FlagsOK, TornInv, PushRecord
  PROVE  TornInv'
  <1>1. /\ ring \in Seq(Records) /\ packet \in Seq(Records) /\ record \in Records
        /\ Len(channels) \in Nat
    BY LenProperties DEF StreamInv, DataOK
  <1>2. /\ pc = "record" /\ record.held >= Len(channels) /\ pc' = "drain"
        /\ ring' = Append(ring, record)
        /\ UNCHANGED <<startDone, startRequests, running, packet>>
    BY DEF PushRecord, RecordIsFilled, Goto, isrVars
  <1>3. Waiting' = Append(Waiting, record)
    BY <1>1, <1>2, AppendAtEnd DEF Waiting
  <1>4. /\ Len(Waiting') = Len(Waiting) + 1 /\ Len(Waiting) \in Nat
        /\ \A i \in 1 .. Len(Waiting) : Waiting'[i] = Waiting[i]
        /\ Waiting'[Len(Waiting) + 1] = record
    <2>1. \A w \in Seq(Records) :
            /\ Len(Append(w, record)) = Len(w) + 1 /\ Len(w) \in Nat
            /\ \A i \in 1 .. Len(w) : Append(w, record)[i] = w[i]
            /\ Append(w, record)[Len(w) + 1] = record
      BY <1>1, AppendProperties, LenProperties
    <2> QED
      BY <1>3, <2>1, WaitingType
  <1>5. CASE startDone # startRequests
    BY <1>2, <1>5 DEF TornInv, TornIsLast
  <1>6. CASE startDone = startRequests
    <2>1. /\ \A i \in 1 .. Len(Waiting) : Whole(Waiting[i])
          /\ running => Whole(record)
      <3>1. running => record.promised = Len(channels) /\ record.held <= Len(channels)
        BY <1>2, <1>6 DEF TornInv
      <3>2. running => Whole(record)
        BY <1>1, <1>2, <3>1 DEF Whole, Records
      <3> QED
        BY <1>2, <1>6, <3>2 DEF TornInv
    <2>2. ASSUME NEW i \in 1 .. Len(Waiting'), Waiting'[i].promised # Waiting'[i].held
          PROVE  i = Len(Waiting') /\ ~running'
      <3>1. i \in 1 .. Len(Waiting) \/ i = Len(Waiting) + 1
        BY <1>4
      <3> QED
        BY <1>2, <1>4, <2>1, <2>2, <3>1 DEF Whole
    <2> QED
      BY <1>2, <2>2 DEF TornInv, TornIsLast
  <1> QED
    BY <1>5, <1>6

(* What leaves the front of what waits leaves its end where it is.         *)
LEMMA TornSent ==
  ASSUME StreamInv, FlagsOK, TornInv, WriteSent \/ GiveUp \/ NoticeStart
  PROVE  TornInv'
  <1>1. /\ ring \in Seq(Records) /\ packet \in Seq(Records)
        /\ Len(ring) \in Nat /\ Len(packet) \in Nat
    BY LenProperties DEF StreamInv, DataOK
  <1>2. CASE GiveUp \/ NoticeStart
    <2>1. Waiting' = <<>> /\ pc' # "record"
      BY <1>2, ConcatEmptySeq, EmptyType DEF GiveUp, NoticeStart, Goto, Waiting
    <2>2. Len(Waiting') = 0
      BY <2>1
    <2> QED
      BY <2>1, <2>2 DEF TornInv, TornIsLast
  <1>3. CASE WriteSent
    <2>1. /\ UNCHANGED <<startDone, startRequests, running, ring>> /\ packet' = <<>>
          /\ pc' # "record"
      BY <1>3 DEF WriteSent, Goto, isrVars
    <2>2. Waiting' = ring
      BY <1>1, <2>1, ConcatEmptySeq DEF Waiting
    <2>3. ASSUME NEW i \in 1 .. Len(ring)
          PROVE  /\ i + Len(packet) \in 1 .. Len(Waiting)
                 /\ Waiting[i + Len(packet)] = ring[i]
                 /\ i + Len(packet) = Len(Waiting) => i = Len(ring)
      BY <1>1, WaitingIsPacketThenRing DEF Waiting
    <2>4. ASSUME NEW i \in 1 .. Len(Waiting'), Waiting'[i].promised # Waiting'[i].held
          PROVE  (i = Len(Waiting') /\ ~running') \/ startDone' # startRequests'
      BY <2>1, <2>2, <2>3, <2>4 DEF TornInv, TornIsLast
    <2> QED
      BY <2>1, <2>4 DEF TornInv, TornIsLast
  <1> QED
    BY <1>2, <1>3

(* A record that does not hold the samples its header promises is the last *)
(* of a stream that has been stopped, whenever the selection changes under *)
(* stream_sample() (UsbIo.cpp:1124-1169): a host that sees one sees none   *)
(* of that stream after it.                                                *)
THEOREM TornRecordIsLast == Spec => []TornIsLast
  <1>1. Init => TornInv
    <2>1. Init => Len(Waiting) = 0 /\ pc = "idle"
      BY DEF Init, Waiting
    <2> QED
      BY <2>1 DEF TornInv, TornIsLast
  <1>2. StreamInv /\ FlagsOK /\ TornInv /\ [Next]_vars => TornInv'
    <2>1. TornInv /\ UNCHANGED vars => TornInv'
      BY TornCalm DEF vars, isrVars, streamVars, scanVars, Waiting
    <2> QED
      BY <2>1, TornHost, TornQuiet, TornFilling, TornPush, TornSent
         DEF Next, PollStep, Write
  <1>3. Init => FlagsOK
    BY Zenon DEF Init, FlagsOK
  <1>4. TornInv => TornIsLast
    BY DEF TornInv
  <1> QED
    BY <1>1, <1>2, <1>3, <1>4, FlagsNext, StreamIsInvariant, PTL DEF Spec
=============================================================================
