---------------------------- MODULE HostStreamProofs ----------------------------
(***************************************************************************)
(* What holds of the host's side of a stream for any sizes of packets,     *)
(* rings, chunks and queues, any number of transfers and readers, and any  *)
(* streams one after another.                                              *)
(***************************************************************************)
EXTENDS HostStream, FiniteSetTheorems, SequenceTheorems, TLAPS

-----------------------------------------------------------------------------
(* Division and multiplication.                                            *)

LEMMA DivMod ==
    ASSUME NEW a \in Int, NEW w \in Nat \ {0}
    PROVE  /\ a \div w \in Int /\ a % w \in 0 .. w - 1
           /\ a = (a \div w) * w + (a % w)
  OBVIOUS

LEMMA Cancel ==
    ASSUME NEW a \in Int, NEW b \in Int, NEW w \in Nat \ {0}, a * w < b * w
    PROVE  a < b
  OBVIOUS

LEMMA Next1 ==
    ASSUME NEW a \in Int, NEW w \in Nat
    PROVE  /\ (a + 1) * w = a * w + w /\ (a + 2) * w = a * w + w + w
           /\ (a - 1) * w = a * w - w /\ a * w \in Int
  OBVIOUS

-----------------------------------------------------------------------------
(***************************************************************************)
(* reconstruct_micros64(): micros() wraps, millis() has lost up to 999 us, *)
(* both were read in one reply; the result is the exact time, also across  *)
(* a wrap of micros() between the two.                                     *)
(***************************************************************************)
LEMMA WhichWrap ==
    ASSUME NEW wrap \in Nat \ {0}, wrap >= 2000,
           NEW T \in Nat, NEW coarse \in Nat, coarse <= T, T < coarse + 1000
    PROVE  T \div wrap \in {coarse \div wrap, (coarse \div wrap) + 1}
  <1> DEFINE p == T \div wrap
             q == coarse \div wrap
             P == p * wrap
             Q == q * wrap
  <1>1. p \in Int /\ q \in Int /\ T % wrap \in 0 .. wrap - 1 /\ coarse % wrap \in 0 .. wrap - 1
        /\ T = P + (T % wrap) /\ coarse = Q + (coarse % wrap)
    <2>1. T \in Int /\ coarse \in Int
      OBVIOUS
    <2>2. p \in Int /\ T % wrap \in 0 .. wrap - 1 /\ T = P + (T % wrap)
      BY <2>1, DivMod
    <2>3. q \in Int /\ coarse % wrap \in 0 .. wrap - 1 /\ coarse = Q + (coarse % wrap)
      BY <2>1, DivMod
    <2> QED  BY <2>2, <2>3
  <1>2. /\ (p + 1) * wrap = P + wrap /\ (q + 2) * wrap = Q + wrap + wrap
        /\ P \in Int /\ Q \in Int
    BY <1>1, Next1
  <1> HIDE DEF P, Q, p, q
  <1>3. Q < P + wrap /\ P < Q + wrap + wrap
    BY <1>1, <1>2
  <1>4. q < p + 1 /\ p < q + 2
    <2>1. q * wrap < (p + 1) * wrap /\ p * wrap < (q + 2) * wrap
      BY <1>2, <1>3 DEF P, Q
    <2> QED  BY <2>1, <1>1, Cancel
  <1>5. p = q \/ p = q + 1
    BY <1>1, <1>4
  <1> QED  BY <1>5 DEF p, q

THEOREM ReconstructExact ==
    ASSUME NEW wrap \in Nat \ {0}, wrap >= 2000,
           NEW T \in Nat, NEW millis \in Nat, 1000 * millis <= T, T < 1000 * millis + 1000
    PROVE  ReconstructMicros(wrap, millis, T % wrap) = T
  <1> DEFINE coarse == 1000 * millis
             q == coarse \div wrap
             r == T % wrap
             Q == q * wrap
  <1>1. coarse \in Nat /\ coarse <= T /\ T < coarse + 1000
    OBVIOUS
  <1>2. q \in Int /\ r \in 0 .. wrap - 1 /\ (q + 1) * wrap = Q + wrap /\ Q \in Int
    BY <1>1, DivMod, Next1
  <1>3. T = Q + r \/ T = Q + wrap + r
    <2>1. T \div wrap \in {q, q + 1} /\ T = (T \div wrap) * wrap + r
      BY <1>1, WhichWrap, DivMod
    <2> QED  BY <2>1, <1>2
  <1>4. ReconstructMicros(wrap, millis, r) =
          IF 2 * (Q + r - coarse) > wrap THEN Q + r - wrap
          ELSE IF 2 * (coarse - (Q + r)) > wrap THEN Q + r + wrap
          ELSE Q + r
    BY DEF ReconstructMicros
  <1> HIDE DEF coarse, q, r, Q
  <1>5. ReconstructMicros(wrap, millis, r) = T
    BY <1>1, <1>2, <1>3, <1>4
  <1> QED  BY <1>5 DEF r

-----------------------------------------------------------------------------
(* Differences of wrapping counters.                                       *)

LEMMA Product ==
    ASSUME NEW a \in Int, NEW b \in Int, NEW w \in Nat
    PROVE  /\ (a - b) * w = a * w - b * w /\ (a + b) * w = a * w + b * w
           /\ a * w \in Int /\ 0 * w = 0 /\ 1 * w = w /\ (-1) * w = -w
  OBVIOUS

LEMMA ModIs ==
    ASSUME NEW a \in Int, NEW k \in Int, NEW w \in Nat \ {0}, NEW r \in 0 .. w - 1,
           a = k * w + r
    PROVE  a % w = r
  <1>1. a \div w \in Int /\ a % w \in 0 .. w - 1 /\ a = (a \div w) * w + (a % w)
    BY DivMod
  <1> DEFINE d == a \div w
  <1>2. d \in Int /\ d * w \in Int /\ k * w \in Int /\ a = d * w + (a % w)
    BY <1>1, Product
  <1>3. d * w < k * w + w /\ k * w < d * w + w
    BY <1>1, <1>2
  <1>4. (k + 1) * w = k * w + w /\ (d + 1) * w = d * w + w
    BY <1>2, Next1
  <1>5. d < k + 1 /\ k < d + 1
    <2>1. k + 1 \in Int /\ d + 1 \in Int
      BY <1>2
    <2>2. d * w < (k + 1) * w /\ k * w < (d + 1) * w
      BY <1>3, <1>4
    <2> HIDE DEF d
    <2>3. d \in Int
      BY <1>2
    <2> QED  BY <2>1, <2>2, <2>3, Cancel
  <1>6. d = k
    BY <1>2, <1>5
  <1> QED  BY <1>1, <1>2, <1>6

LEMMA ModDifference ==
    ASSUME NEW a \in Int, NEW b \in Int, NEW k \in Int, NEW w \in Nat \ {0}
    PROVE  ((a % w) - ((b % w) + k)) % w = (a - (b + k)) % w
  <1> DEFINE x == (a % w) - ((b % w) + k)
             p == a \div w
             q == b \div w
             n == x \div w
  <1>1. p \in Int /\ a % w \in 0 .. w - 1 /\ a = p * w + (a % w)
    BY DivMod
  <1>2. q \in Int /\ b % w \in 0 .. w - 1 /\ b = q * w + (b % w)
    BY DivMod
  <1>3. x \in Int
    BY <1>1, <1>2
  <1>4. n \in Int /\ x % w \in 0 .. w - 1 /\ x = n * w + (x % w)
    BY <1>3, DivMod
  <1>5. (p - q) * w = p * w - q * w /\ p * w \in Int /\ q * w \in Int
    BY <1>1, <1>2, Product
  <1>6. ((p - q) + n) * w = (p - q) * w + n * w /\ n * w \in Int /\ (p - q) \in Int
    BY <1>1, <1>2, <1>4, Product
  <1>7. a - (b + k) = (p * w - q * w) + x
    <2>1. a % w \in Int /\ b % w \in Int /\ p * w \in Int /\ q * w \in Int
      BY <1>1, <1>2, <1>5
    <2> QED  BY <1>1, <1>2, <2>1
  <1>8. a - (b + k) = ((p - q) + n) * w + (x % w)
    <2>1. x % w \in Int /\ p * w - q * w \in Int
      BY <1>4, <1>5
    <2> HIDE DEF x, p, q, n
    <2> QED  BY <1>3, <1>4, <1>5, <1>6, <1>7, <2>1
  <1>9. a - (b + k) \in Int /\ (p - q) + n \in Int
    BY <1>1, <1>2, <1>4
  <1> HIDE DEF x, p, q, n
  <1>10. (a - (b + k)) % w = x % w
    BY <1>4, <1>8, <1>9, ModIs
  <1> QED  BY <1>10 DEF x

LEMMA ModSmall ==
    ASSUME NEW w \in Nat \ {0}, NEW d \in Int, -w < d, d < w
    PROVE  d % w = IF d >= 0 THEN d ELSE d + w
  <1>1. CASE d >= 0
    <2>1. d \in 0 .. w - 1 /\ d = 0 * w + d
      BY <1>1
    <2> QED  BY <1>1, <2>1, ModIs
  <1>2. CASE d < 0
    <2>1. d + w \in 0 .. w - 1 /\ d = (-1) * w + (d + w) /\ -1 \in Int
      BY <1>2
    <2>2. d % w = d + w
      BY <2>1, ModIs
    <2> QED  BY <1>2, <2>2
  <1> QED  BY <1>1, <1>2

(***************************************************************************)
(* Stream.cpp's test of age: with the record and the START less than half a*)
(* turn of micros() apart (35 minutes), a record is stale just when it was *)
(* sampled before the START, wherever micros() wrapped.                    *)
(***************************************************************************)
THEOREM StaleExact ==
    ASSUME NEW w \in Nat \ {0}, NEW start \in Nat, NEW sampled \in Nat,
           2 * (start - sampled) < w, 2 * (sampled - start) < w
    PROVE  IsStale(w, start % w, sampled % w) <=> sampled < start
  <1> DEFINE d == start - sampled
  <1>1. d \in Int /\ -w < d /\ d < w /\ start \in Int /\ sampled \in Int
    OBVIOUS
  <1>2. ((start % w) - (sampled % w)) % w = IF d >= 0 THEN d ELSE d + w
    <2>1. ((start % w) - ((sampled % w) + 0)) % w = (start - (sampled + 0)) % w 
      <3>1. 0 \in Int
        OBVIOUS
      <3> QED  BY <1>1, <3>1, ModDifference, ZenonT(30)
    <2>2. start % w \in Int /\ sampled % w \in Int
      BY <1>1, DivMod
    <2>3. (start % w) - ((sampled % w) + 0) = (start % w) - (sampled % w)
          /\ start - (sampled + 0) = d
      BY <2>2
    <2>4. ((start % w) - (sampled % w)) % w = d % w
      BY <2>1, <2>3
    <2> QED  BY <2>4, <1>1, ModSmall
  <1>3. IsStale(w, start % w, sampled % w) <=>
            LET age == IF d >= 0 THEN d ELSE d + w IN age # 0 /\ 2 * age < w
    BY <1>2 DEF IsStale
  <1> QED  BY <1>3

(***************************************************************************)
(* Beyond that the test of age errs, for half a turn: a record sampled     *)
(* more than half a turn of micros() after the START (36 minutes, and up   *)
(* to 71) is taken for one from before it, although Stream.h:90 calls      *)
(* stale only what was sampled before STREAM_START.                        *)
(***************************************************************************)
THEOREM LateIsStale ==
    ASSUME NEW w \in Nat \ {0}, NEW start \in Nat, NEW sampled \in Nat,
           w < 2 * (sampled - start), sampled - start < w
    PROVE  IsStale(w, start % w, sampled % w)
  <1> DEFINE d == start - sampled
  <1>1. d \in Int /\ -w < d /\ d < w /\ d < 0 /\ 2 * (d + w) < w /\ start \in Int /\ sampled \in Int
    OBVIOUS
  <1>2. ((start % w) - (sampled % w)) % w = d + w
    <2>1. ((start % w) - ((sampled % w) + 0)) % w = (start - (sampled + 0)) % w
      <3>1. 0 \in Int
        OBVIOUS
      <3> QED  BY <1>1, <3>1, ModDifference, ZenonT(30)
    <2>2. start % w \in Int /\ sampled % w \in Int
      BY <1>1, DivMod
    <2>3. (start % w) - ((sampled % w) + 0) = (start % w) - (sampled % w)
          /\ start - (sampled + 0) = d
      BY <2>2
    <2>4. ((start % w) - (sampled % w)) % w = d % w
      BY <2>1, <2>3
    <2>5. d % w = IF d >= 0 THEN d ELSE d + w
      BY <1>1, ModSmall
    <2>6. ~ (d >= 0)
      BY <1>1
    <2> QED  BY <2>4, <2>5, <2>6
  <1>3. IsStale(w, start % w, sampled % w) <=> d + w # 0 /\ 2 * (d + w) < w
    BY <1>2 DEF IsStale
  <1> QED  BY <1>1, <1>3

(***************************************************************************)
(* Stream.cpp's test of seq: the records missing between two are counted   *)
(* exactly, however often seq wrapped, if they are less than half a turn;  *)
(* a number that went back counts nothing.                                 *)
(***************************************************************************)
THEOREM GapExact ==
    ASSUME NEW w \in Nat \ {0}, NEW last \in Nat, NEW seq \in Nat,
           2 * (seq - (last + 1)) < w, 2 * ((last + 1) - seq) < w
    PROVE  SeqGap(w, last % w, seq % w) = IF seq > last THEN seq - last - 1 ELSE 0
  <1> DEFINE d == seq - (last + 1)
             e == (seq % w) - ((last % w) + 1)
  <1>1. /\ d \in Int /\ -w < d /\ d < w /\ seq \in Int /\ last \in Int
        /\ seq - 1 \in Int /\ 2 * (-d) < w /\ 2 * d < w
    OBVIOUS
  <1>2. e % w = d % w
    <2>1. 1 \in Int /\ last \in Int /\ seq \in Int
      OBVIOUS
    <2>2. ((seq % w) - ((last % w) + 1)) % w = (seq - (last + 1)) % w
      BY <2>1, ModDifference, Zenon
    <2> QED  BY <2>2
  <1>3. e % w = IF d >= 0 THEN d ELSE d + w
    BY <1>1, <1>2, ModSmall
  <1>4. SeqGap(w, last % w, seq % w) = IF 2 * (e % w) < w THEN e % w ELSE 0
    BY DEF SeqGap
  <1>5. SeqGap(w, last % w, seq % w) = IF d >= 0 THEN d ELSE 0
    <2> HIDE DEF d, e
    <2> QED  BY <1>1, <1>3, <1>4
  <1> QED  BY <1>5

(***************************************************************************)
(* UsbIo.cpp's signed difference: a debounce window or a sampling deadline *)
(* less than half a turn away is due just when it has been reached.        *)
(***************************************************************************)
THEOREM DueExact ==
    ASSUME NEW w \in Nat \ {0}, NEW now \in Nat, NEW deadline \in Nat,
           2 * (now - deadline) < w, 2 * (deadline - now) < w
    PROVE  IsDue(w, now % w, deadline % w) <=> now >= deadline
  <1> DEFINE d == now - deadline
  <1>1. d \in Int /\ -w < d /\ d < w /\ now \in Int /\ deadline \in Int /\ 0 \in Int
    OBVIOUS
  <1>2. ((now % w) - ((deadline % w) + 0)) % w = (now - (deadline + 0)) % w
    BY <1>1, ModDifference, ZenonT(30)
  <1>3. now % w \in Int /\ deadline % w \in Int
    BY <1>1, DivMod
  <1>4. /\ (now % w) - ((deadline % w) + 0) = (now % w) - (deadline % w)
        /\ now - (deadline + 0) = d
    BY <1>3
  <1>5. ((now % w) - (deadline % w)) % w = IF d >= 0 THEN d ELSE d + w
    <2>1. ((now % w) - (deadline % w)) % w = d % w
      BY <1>2, <1>4
    <2> QED  BY <2>1, <1>1, ModSmall
  <1>6. IsDue(w, now % w, deadline % w) <=> 2 * (IF d >= 0 THEN d ELSE d + w) < w
    BY <1>5 DEF IsDue
  <1> QED  BY <1>6

LEMMA ModSum ==
    ASSUME NEW a \in Nat, NEW k \in Nat, NEW w \in Nat \ {0}
    PROVE  ((a % w) + k) % w = (a + k) % w
  <1>1. a \in Int /\ 0 \in Int /\ -k \in Int
    OBVIOUS
  <1>2. ((a % w) - ((0 % w) + (-k))) % w = (a - (0 + (-k))) % w
    BY <1>1, ModDifference, Zenon
  <1>3. 0 % w = 0
    <2>1. -w < 0 /\ 0 < w /\ 0 >= 0
      OBVIOUS
    <2> QED  BY <2>1, <1>1, ModSmall
  <1>4. a % w \in Int
    BY <1>1, DivMod
  <1>5. (a % w) - (0 + (-k)) = (a % w) + k /\ a - (0 + (-k)) = a + k
    BY <1>4
  <1> QED  BY <1>2, <1>3, <1>5

(***************************************************************************)
(* stream_poll()'s next deadline: it lies after now, one period away at    *)
(* most, and on the grid of the deadlines before unless a whole period was *)
(* missed; so a loop() that lags samples no burst of records to catch up.  *)
(***************************************************************************)
THEOREM DeadlineNeverLags ==
    ASSUME NEW w \in Nat \ {0}, NEW now \in Nat, NEW deadline \in Nat,
           NEW period \in Nat \ {0}, 2 * period < w,
           deadline <= now, 2 * (now - deadline) < w
    PROVE  \E next \in now + 1 .. now + period :
              /\ NextDeadline(w, now % w, deadline % w, period) = next % w
              /\ next = deadline + period \/ now >= deadline + period
  <1> DEFINE grid == deadline + period
  <1>1. grid \in Nat /\ 2 * (now - grid) < w /\ 2 * (grid - now) < w
    OBVIOUS
  <1>2. ((deadline % w) + period) % w = grid % w /\ ((now % w) + period) % w = (now + period) % w
    BY ModSum
  <1>3. IsDue(w, now % w, grid % w) <=> now >= grid
    BY <1>1, DueExact
  <1>4. NextDeadline(w, now % w, deadline % w, period) =
            IF IsDue(w, now % w, grid % w) THEN (now + period) % w ELSE grid % w
    BY <1>2 DEF NextDeadline
  <1>5. CASE now >= grid
    <2>1. NextDeadline(w, now % w, deadline % w, period) = (now + period) % w
      BY <1>3, <1>4, <1>5
    <2>2. now + period \in now + 1 .. now + period
      OBVIOUS
    <2> QED  BY <1>5, <2>1, <2>2
  <1>6. CASE ~(now >= grid)
    <2>1. NextDeadline(w, now % w, deadline % w, period) = grid % w
      BY <1>3, <1>4, <1>6
    <2>2. grid \in now + 1 .. now + period
      BY <1>6
    <2> QED  BY <2>1, <2>2
  <1> QED  BY <1>5, <1>6

-----------------------------------------------------------------------------
(***************************************************************************)
(* The driver refuses a mode before sending it (required_caps(),           *)
(* mode_supported()) exactly when the firmware would answer UNSUPPORTED    *)
(* (mode_allowed()): no mode the board has is refused by the driver.       *)
(***************************************************************************)
THEOREM ModesAgree ==
    ASSUME NEW caps \in SUBSET Capabilities, NEW hasPulldown \in BOOLEAN, NEW m \in Modes
    PROVE  ModeSupported(caps, hasPulldown, m) <=> ModeAllowed(caps, hasPulldown, m)
  <1>1. m \in {0, 1, 2, 3, 4, 5, 6}
    BY DEF Modes, MODE_COUNT
  <1> USE DEF ModeSupported, RequiredCap, ModeAllowed, INPUT, OUTPUT, INPUT_PULLUP,
              INPUT_PULLDOWN, ANALOG_IN, PWM, DAC
  <1>2. CASE m \in {0, 1, 2}
    <2>1. RequiredCap(m) = "DIO" /\ m # 3 /\ m # 4 /\ m # 5 /\ m # 6
      BY <1>2
    <2> QED  BY <1>2, <2>1
  <1>3. CASE m = 3
    BY <1>3
  <1>4. CASE m = 4
    BY <1>4
  <1>5. CASE m = 5
    BY <1>5
  <1>6. CASE m = 6
    BY <1>6
  <1> QED  BY <1>1, <1>2, <1>3, <1>4, <1>5, <1>6

(***************************************************************************)
(* encode_event_config_value() and interface_index() put two bytes in one  *)
(* word; handle_event_config() and handle_setup() take the same two out.   *)
(***************************************************************************)
THEOREM WordRoundTrip ==
    ASSUME NEW high \in 0 .. 255, NEW low \in 0 .. 255
    PROVE  HighByte(HighLow(high, low)) = high /\ LowByte(HighLow(high, low)) = low
  BY DEF HighByte, LowByte, HighLow

(***************************************************************************)
(* A stream record has an even length whatever it carries, so that the     *)
(* 16-bit fields of the records behind it stay aligned in the stream.      *)
(***************************************************************************)
THEOREM RecordLenEven ==
    ASSUME NEW nSamples \in Nat, NEW digital \in BOOLEAN, NEW nPins \in Nat
    PROVE  StreamRecordLen(nSamples, digital, nPins) % 2 = 0
  <1>1. StreamBitmapLen(nPins) \in Nat /\ StreamBitmapLen(nPins) % 2 = 0
    BY DEF StreamBitmapLen, DioBitmapLen
  <1> QED  BY <1>1 DEF StreamRecordLen, StreamHeaderLen

-----------------------------------------------------------------------------
(***************************************************************************)
(* The invariant.                                                          *)
(***************************************************************************)

Record   == [stream : Nat, seq : Nat, t : Nat]
Unit     == [part : {"head", "body"}, rec : Record]
EndStatuses == {"COMPLETED", "STALL", "NO_DEVICE", "CANCELLED"}
Packets  == Seq(Record)
UnitSeqs == Seq(Unit)
Numbers  == SUBSET Nat
Ending   == [status : EndStatuses, data : Packets]
Item     == [head : Record, body : Record]
Items    == Seq(Item)
Codes    == {"IO", "TIMEOUT", "INTERRUPTED", "PIPE", "NO_DEVICE", "OVERFLOW", "OTHER"}

(* The device and the transfers.                                           *)
BulkTypes ==
    /\ dev \in [running : BOOLEAN, stream : 0 .. Len(MaxSeq), clock : Nat, seq : Nat,
                packet : Packets, dropped : Numbers]
    /\ tx \in [stage : {"idle", "arm", "sent"}, flag : BOOLEAN,
               buffer : Packets, armed : Packets]
    /\ plugged \in BOOLEAN /\ ring \in {"none", "open", "closing", "freed"}
    /\ inFlight \in Nat /\ cancels \in Nat /\ count \in Nat
    /\ done \in Seq(Ending) /\ bytes \in Seq(Unit) /\ fatal \in Codes \cup {"none"}

(* stream_write() is about to arm the packet it has copied, or has armed   *)
(* it; what is armed is on a device that is plugged in.                    *)
WritePart ==
    /\ tx.stage = "arm" => tx.armed = <<>> /\ tx.buffer = dev.packet /\ (plugged => tx.flag)
    /\ tx.stage # "idle" => dev.packet # <<>>
    /\ tx.stage # "arm" /\ tx.flag => tx.armed # <<>>
    /\ tx.armed # <<>> => tx.flag /\ tx.buffer = tx.armed /\ plugged

(* Every transfer counted is in flight or waits for its callback; only one *)
(* that completed brings records.                                          *)
RingPart ==
    /\ count = inFlight + Len(done) /\ cancels <= inFlight
    /\ ring \in {"none", "freed"} => count = 0 /\ bytes = <<>>
    /\ ~plugged => inFlight = 0
    /\ \A i \in 1 .. Len(done) : done[i].status # "COMPLETED" => done[i].data = <<>>

BulkInv == BulkTypes /\ WritePart /\ RingPart

WorkerStages == {"top", "read", "decode", "deliver", "notify", "ending", "gone"}
StreamTypes ==
    /\ owner \in {"idle", "streaming", "notify", "join", "destroyed"}
    /\ worker \in [stage : WorkerStages, buffer : UnitSeqs, hunting : BOOLEAN,
                   stopped : BOOLEAN, last : Int, late : BOOLEAN]
    /\ startT \in Nat /\ error \in Codes \cup {"", "device stopped"}
    /\ ready \in Seq(Item) /\ hand \in Seq(Item) /\ taken \in Seq(Item)
    /\ stats \in [received : Nat, gaps : Nat, drops : Nat, resyncs : Nat, stale : Nat]

(* The threads: the worker lives only between the start of a stream and    *)
(* the join, the ring is torn down only after the last stream.             *)
ThreadPart ==
    /\ owner \in {"idle", "destroyed"} => worker.stage = "gone"
    /\ ring \in {"closing", "freed"} <=> owner = "destroyed"
    /\ worker.stage \in {"read", "decode", "deliver", "notify"} => ring = "open"
    /\ worker.stage \in {"top", "read", "ending"} =>
          worker.buffer = <<>> \/ (Len(worker.buffer) = 1 /\ worker.buffer[1].part = "head")
    /\ worker.stage # "gone" /\ worker.stopped => ~dev.running
    /\ worker.stage = "read" /\ worker.stopped => worker.late
    /\ worker.stage = "gone" => worker.buffer = <<>>

(* A record in hand is about to be delivered; all that was counted as      *)
(* received was handed over or dropped, is whole, of this stream, in order *)
(* and no later than the last one received.                                *)
InOrder(h, d, last) ==
    \A i \in 1 .. Len(h) :
        /\ h[i].head = h[i].body /\ h[i].head.stream = d /\ h[i].head.seq <= last
        /\ \A j \in 1 .. Len(h) : j < i => h[j].head.seq < h[i].head.seq
HandedPart ==
    /\ worker.stage = "deliver" <=> hand # <<>>
    /\ Len(hand) <= 1
    /\ stats.received = Len(Handed) + stats.drops
    /\ InOrder(Handed, dev.stream, worker.last)

(***************************************************************************)
(* The records on their way: f lists them, and st units of the one before  *)
(* them are in front.  The first ones are with the worker and in the       *)
(* host's buffer, as units; the others in segments: the completions, what  *)
(* is armed, and the packet.  off[i] of them come before the i-th segment. *)
(***************************************************************************)
Stream   == worker.buffer \o bytes
Pending  == IF plugged /\ tx.stage # "sent" THEN dev.packet ELSE <<>>
SegmentsOf(ends, armed, packet) ==
    [i \in 1 .. Len(ends) + 2 |->
        IF i <= Len(ends) THEN ends[i].data ELSE IF i = Len(ends) + 1 THEN armed ELSE packet]
Segments == SegmentsOf(done, tx.armed, Pending)

Leads(f, st, m, u) ==
    /\ Len(u) = st + 2 * m
    /\ \A i \in 1 .. st : u[i].part = "body"
    /\ \A k \in 1 .. m : /\ u[st + 2 * k - 1] = [part |-> "head", rec |-> f[k]]
                         /\ u[st + 2 * k] = [part |-> "body", rec |-> f[k]]
Holds(f, a, c, s) == c = a + Len(s) /\ \A j \in 1 .. Len(s) : s[j] = f[a + j]
Laid(f, st, off, n, u, segs) ==
    /\ Leads(f, st, off[1], u)
    /\ \A i \in 1 .. n : Holds(f, off[i], off[i + 1], segs[i])
    /\ \A i, j \in 1 .. n + 1 : i <= j => off[i] <= off[j]
    /\ off[n + 1] = Len(f)
Lays(f, st, n, u, segs) == \E off \in [1 .. n + 1 -> Nat] : Laid(f, st, off, n, u, segs)

(* Those of this stream are in order, after the last one received, and not *)
(* among the numbers that were dropped.                                    *)
Current(r) == r.stream = dev.stream
Ordered(f) ==
    \A k \in 1 .. Len(f) :
        /\ f[k].stream <= dev.stream
        /\ Current(f[k]) =>
              /\ worker.last < f[k].seq /\ f[k].seq < dev.seq /\ f[k].seq \notin dev.dropped
              /\ \A j \in 1 .. Len(f) : j < k /\ Current(f[j]) => f[j].seq < f[k].seq

(* Each number of this stream was received or dropped or is on its way, or *)
(* was lost behind all of these when the device was unplugged.             *)
Covered(f) ==
    worker.stage # "gone" =>
        \A s \in 0 .. dev.seq - 1 :
            \/ s <= worker.last \/ s \in dev.dropped
            \/ \E k \in 1 .. Len(f) : Current(f[k]) /\ f[k].seq = s
            \/ ~plugged /\ \A k \in 1 .. Len(f) : Current(f[k]) => f[k].seq < s

(* A bound on the records and starts up to each stream: the clock does not *)
(* turn half way while all the streams last.                               *)
Budget(b) ==
    /\ b \in [0 .. Len(MaxSeq) -> Nat]
    /\ \A n \in 1 .. Len(MaxSeq) : b[n] >= b[n - 1] + MaxSeq[n] + 1
    /\ \A n \in 0 .. Len(MaxSeq) : 2 * b[n] < ClockWrap

(* The clock, when this stream started at time start; an earlier record is *)
(* no older than all there was before.                                     *)
Timed(f, start, b) ==
    /\ dev.stream > 0 => startT = start % ClockWrap
    /\ dev.clock = (start + dev.seq) % ClockWrap
    /\ \A k \in 1 .. Len(f) :
          IF Current(f[k]) THEN f[k].t = (start + f[k].seq) % ClockWrap
          ELSE \E s \in 0 .. start - 1 : /\ start - s <= b[dev.stream - 1]
                                         /\ f[k].t = s % ClockWrap

FlowInv(b) ==
    \E f \in Packets, st \in Nat, start \in Nat :
        Lays(f, st, Len(done) + 2, Stream, Segments) /\ Ordered(f) /\ Covered(f) /\ Timed(f, start, b)

(* What the counters say; the first record of a stream finds room.         *)
CountPart ==
    /\ dev.seq = 0 => dev.packet = <<>>
    /\ dev.dropped \subseteq 1 .. dev.seq - 1
    /\ dev.stream = 0 => ~dev.running /\ dev.seq = 0
    /\ dev.stream > 0 => dev.seq <= MaxSeq[dev.stream]
    /\ worker.last \in -1 .. dev.seq - 1 /\ worker.last \notin dev.dropped
    /\ stats.gaps = Cardinality({s \in dev.dropped : s < worker.last})
    /\ stats.received + stats.gaps = worker.last + 1

(* A stream that ended by itself has no record left, or no transfer could  *)
(* have brought it.                                                        *)
All == stats.received + stats.gaps + Cardinality({s \in dev.dropped : s > worker.last}) = dev.seq
EndPart ==
    error = "device stopped" =>
        /\ worker.stage \in {"ending", "gone"} /\ ~dev.running
        /\ (ring # "none" /\ count = 0) \/ All

-----------------------------------------------------------------------------
(***************************************************************************)
(* Bytes and transfers.                                                    *)
(***************************************************************************)

(* Two units for each record, its header and its samples.                  *)
LEMMA WireUnits ==
    ASSUME NEW recs \in Packets
    PROVE  /\ OnTheWire(recs) \in Seq(Unit) /\ Len(OnTheWire(recs)) = 2 * Len(recs)
           /\ \A k \in 1 .. Len(recs) :
                 /\ OnTheWire(recs)[2 * k - 1] = [part |-> "head", rec |-> recs[k]]
                 /\ OnTheWire(recs)[2 * k] = [part |-> "body", rec |-> recs[k]]
  <1> DEFINE n == Len(recs)
             u(k) == [part |-> IF k % 2 = 1 THEN "head" ELSE "body", rec |-> recs[(k + 1) \div 2]]
  <1>1. n \in Nat /\ \A k \in 1 .. n : recs[k] \in Record
    BY LenProperties, ElementOfSeq DEF Packets
  <1>2. ASSUME NEW k \in 1 .. 2 * n
        PROVE  u(k) \in Unit
    <2>1. (k + 1) \div 2 \in 1 .. n
      BY <1>1
    <2> HIDE DEF n
    <2> QED  BY <1>1, <2>1 DEF Unit
  <1>3. OnTheWire(recs) = [k \in 1 .. 2 * n |-> u(k)]
    BY DEF OnTheWire
  <1>4. \A k \in 1 .. n : /\ 2 * k - 1 \in 1 .. 2 * n /\ 2 * k \in 1 .. 2 * n
                          /\ (2 * k - 1) % 2 = 1 /\ (2 * k - 1 + 1) \div 2 = k
                          /\ (2 * k) % 2 = 0 /\ (2 * k + 1) \div 2 = k
    BY <1>1
  <1> HIDE DEF n
  <1>5. 2 * n \in Nat
    BY <1>1
  <1>6. OnTheWire(recs) \in [1 .. 2 * n -> Unit]
    BY <1>2, <1>3
  <1>7. OnTheWire(recs) \in Seq(Unit) /\ Len(OnTheWire(recs)) = 2 * n
    BY <1>5, <1>6
  <1>8. ASSUME NEW k \in 1 .. n
        PROVE  /\ OnTheWire(recs)[2 * k - 1] = [part |-> "head", rec |-> recs[k]]
               /\ OnTheWire(recs)[2 * k] = [part |-> "body", rec |-> recs[k]]
    <2>1. OnTheWire(recs)[2 * k - 1] = u(2 * k - 1) /\ OnTheWire(recs)[2 * k] = u(2 * k)
      <3> HIDE DEF u
      <3> QED  BY <1>3, <1>4, <1>8
    <2>2. u(2 * k - 1) = [part |-> "head", rec |-> recs[k]]
      BY <1>4, <1>8
    <2>3. u(2 * k) = [part |-> "body", rec |-> recs[k]]
      <3>1. (2 * k) % 2 # 1 /\ (2 * k + 1) \div 2 = k
        BY <1>4, <1>8
      <3> QED  BY <3>1
    <2> QED  BY <2>1, <2>2, <2>3
  <1> QED  BY <1>7, <1>8 DEF n

LEMMA BulkStarts == Init => BulkInv
  <1> SUFFICES ASSUME Init PROVE BulkInv
    OBVIOUS
  <1> USE BulkAssumption
  <1>1. BulkTypes
    <2>1. Len(MaxSeq) \in Nat /\ ClockWrap - 2 \in Nat
      BY LenProperties
    <2>2. {} \in Numbers /\ <<>> \in Packets /\ <<>> \in Seq(Ending) /\ <<>> \in Seq(Unit)
      BY DEF Numbers, Packets
    <2>3. dev \in [running : BOOLEAN, stream : 0 .. Len(MaxSeq), clock : Nat, seq : Nat,
                   packet : Packets, dropped : Numbers]
      <3>1. PICK c \in Nat : dev = [running |-> FALSE, stream |-> 0, clock |-> c, seq |-> 0,
                                    packet |-> <<>>, dropped |-> {}]
        BY <2>1 DEF Init, BulkInit
      <3>2. PICK n \in Nat : n = Len(MaxSeq)
        BY <2>1
      <3>3. 0 \in 0 .. Len(MaxSeq) /\ 0 \in Nat /\ FALSE \in BOOLEAN
        BY <3>2
      <3> QED  BY <2>2, <3>1, <3>3
    <2>4. tx \in [stage : {"idle", "arm", "sent"}, flag : BOOLEAN,
                  buffer : Packets, armed : Packets]
      BY <2>2 DEF Init, BulkInit
    <2> QED  BY <2>2, <2>3, <2>4 DEF BulkTypes, Init, BulkInit
  <1>2. WritePart
    BY DEF WritePart, Init, BulkInit
  <1>3. RingPart
    <2>1. done = <<>> /\ Len(done) = 0
      BY DEF Init, BulkInit
    <2>2. ring = "none" /\ plugged = TRUE /\ count = 0 /\ inFlight = 0 /\ cancels = 0 /\ bytes = <<>>
      BY DEF Init, BulkInit
    <2> QED  BY <2>1, <2>2 DEF RingPart
  <1> QED  BY <1>1, <1>2, <1>3 DEF BulkInv

(* The device's own steps, up to an armed transfer.                        *)
DeviceSide == Sample \/ OtherStops \/ WriteCopy \/ WriteArm \/ WriteSent

LEMMA DeviceSideKeeps ==
    ASSUME BulkInv, DeviceSide
    PROVE  BulkInv'
  <1>1. /\ dev.seq + 1 \in Nat /\ Tick \in Nat /\ dev.packet \in Packets
        /\ dev.dropped \cup {dev.seq} \in Numbers
        /\ \A r \in Record : Append(dev.packet, r) \in Packets /\ Append(dev.packet, r) # <<>>
    <2>1. dev.seq \in Nat /\ dev.clock \in Nat /\ dev.packet \in Packets /\ dev.dropped \in Numbers
      BY DEF BulkInv, BulkTypes
    <2>2. \A r \in Record : Append(dev.packet, r) \in Packets /\ Append(dev.packet, r) # <<>>
      <3> SUFFICES ASSUME NEW r \in Record
                   PROVE  Append(dev.packet, r) \in Packets /\ Append(dev.packet, r) # <<>>
        OBVIOUS
      <3>1. /\ Append(dev.packet, r) \in Seq(Record)
            /\ Len(Append(dev.packet, r)) = Len(dev.packet) + 1 /\ Len(dev.packet) \in Nat
        BY <2>1, AppendProperties, LenProperties DEF Packets
      <3>2. Len(Append(dev.packet, r)) # 0
        BY <3>1
      <3> QED  BY <3>1, <3>2 DEF Packets
    <2>3. Tick \in Nat
      BY <2>1, BulkAssumption DEF Tick
    <2>4. dev.dropped \cup {dev.seq} \in Numbers
      BY <2>1 DEF Numbers
    <2> QED  BY <2>1, <2>2, <2>3, <2>4
  <1>2. ASSUME Sample
        PROVE  /\ dev' \in [running : BOOLEAN, stream : 0 .. Len(MaxSeq), clock : Nat, seq : Nat,
                            packet : Packets, dropped : Numbers]
               /\ tx.stage = "idle" /\ UNCHANGED <<tx, plugged, ring, inFlight, cancels, done,
                                                   count, bytes, fatal>>
    <2>1. PICK r : r = [stream |-> dev.stream, seq |-> dev.seq, t |-> dev.clock]
      OBVIOUS
    <2>2. r \in Record
      BY <2>1 DEF BulkInv, BulkTypes, Record
    <2>3. PICK x : x = Append(dev.packet, r)
      OBVIOUS
    <2>4. PICK y : y = dev.dropped \cup {dev.seq}
      OBVIOUS
    <2>5. x \in Packets /\ y \in Numbers
      BY <1>1, <2>2, <2>3, <2>4
    <2>6. \/ dev' = [dev EXCEPT !.seq = @ + 1, !.clock = Tick, !.packet = x]
          \/ dev' = [dev EXCEPT !.seq = @ + 1, !.clock = Tick, !.dropped = y]
      BY <1>2, <2>1, <2>3, <2>4 DEF Sample
    <2>7. dev' \in [running : BOOLEAN, stream : 0 .. Len(MaxSeq), clock : Nat, seq : Nat,
                    packet : Packets, dropped : Numbers]
      BY <1>1, <2>5, <2>6 DEF BulkInv, BulkTypes
    <2> QED  BY <1>2, <2>7 DEF Sample
  <1>3. CASE Sample
    BY <1>2, <1>3 DEF BulkInv, BulkTypes, WritePart, RingPart
  <1>4. CASE OtherStops
    BY <1>4 DEF OtherStops, BulkInv, BulkTypes, WritePart, RingPart
  <1>5. CASE WriteCopy
    BY <1>5 DEF WriteCopy, BulkInv, BulkTypes, WritePart, RingPart
  <1>6. CASE WriteArm
    <2>1. /\ tx.stage = "arm" /\ tx.armed = <<>> /\ tx.buffer = dev.packet /\ dev.packet # <<>>
          /\ plugged => tx.flag
          /\ tx \in [stage : {"idle", "arm", "sent"}, flag : BOOLEAN,
                     buffer : Packets, armed : Packets]
          /\ UNCHANGED <<dev, plugged, ring, inFlight, cancels, done, count, bytes, fatal>>
      BY <1>6 DEF WriteArm, BulkInv, BulkTypes, WritePart
    <2>2. \/ plugged /\ tx' = [tx EXCEPT !.stage = "sent", !.armed = tx.buffer]
          \/ tx' = [tx EXCEPT !.stage = "idle", !.flag = FALSE, !.buffer = tx.armed]
      BY <1>6, <2>1 DEF WriteArm
    <2>3. BulkTypes' /\ RingPart'
      BY <2>1, <2>2 DEF BulkInv, BulkTypes, RingPart
    <2>4. CASE plugged /\ tx' = [tx EXCEPT !.stage = "sent", !.armed = tx.buffer]
      <3>1. /\ tx'.stage = "sent" /\ tx'.armed = tx.buffer /\ tx'.buffer = tx.buffer
            /\ tx'.flag = tx.flag /\ tx.flag = TRUE /\ plugged' /\ dev'.packet # <<>>
            /\ tx.buffer # <<>>
        BY <2>1, <2>4
      <3>2. WritePart'
        BY <3>1 DEF WritePart
      <3> QED  BY <2>3, <3>2 DEF BulkInv
    <2>5. CASE tx' = [tx EXCEPT !.stage = "idle", !.flag = FALSE, !.buffer = tx.armed]
      <3>1. /\ tx'.stage = "idle" /\ tx'.armed = <<>> /\ tx'.flag = FALSE
        BY <2>1, <2>5
      <3>2. WritePart'
        BY <3>1 DEF WritePart
      <3> QED  BY <2>3, <3>2 DEF BulkInv
    <2> QED  BY <2>2, <2>4, <2>5
  <1>7. CASE WriteSent
    <2>1. <<>> \in Packets
      BY DEF Packets
    <2> QED  BY <1>7, <2>1 DEF WriteSent, BulkInv, BulkTypes, WritePart, RingPart
  <1> QED  BY <1>3, <1>4, <1>5, <1>6, <1>7 DEF DeviceSide

(* Another transfer has ended.                                             *)
LEMMA OneMoreEnding ==
    ASSUME BulkTypes, NEW status \in EndStatuses, NEW data \in Packets, Completion(status, data)
    PROVE  /\ done' \in Seq(Ending) /\ Len(done') = Len(done) + 1
           /\ \A i \in 1 .. Len(done) : done'[i] = done[i]
           /\ done'[Len(done) + 1] = [status |-> status, data |-> data]
  <1>1. PICK e : e = [status |-> status, data |-> data]
    OBVIOUS
  <1>2. e \in Ending /\ done' = Append(done, e) /\ done \in Seq(Ending)
    BY <1>1 DEF Ending, Completion, BulkTypes
  <1> QED  BY <1>1, <1>2, AppendProperties

LEMMA OneLess ==
    ASSUME BulkTypes, RingPart, inFlight > 0, EndOne
    PROVE  /\ inFlight' \in Nat /\ inFlight' = inFlight - 1
           /\ cancels' \in Nat /\ cancels' <= inFlight'
  BY DEF BulkTypes, RingPart, EndOne

(* The transfers that end on the bus.                                      *)
LEMMA EndingKeeps ==
    ASSUME BulkInv, Deliver \/ FailTransfer \/ Cancelled
    PROVE  BulkInv'
  <1>0. BulkTypes /\ WritePart /\ RingPart /\ <<>> \in Packets
    BY DEF BulkInv, Packets
  <1>1. inFlight > 0 /\ EndOne
    BY <1>0 DEF Deliver, FailTransfer, Cancelled, BulkTypes, RingPart
  <1>2. \E s \in EndStatuses, d \in Packets :
            Completion(s, d) /\ (s # "COMPLETED" => d = <<>>)
    <2>1. CASE Deliver
      <3>1. tx.buffer \in Packets /\ "COMPLETED" \in EndStatuses
        BY <1>0 DEF BulkTypes, EndStatuses
      <3> QED  BY <2>1, <3>1 DEF Deliver
    <2>2. CASE FailTransfer
      BY <1>0, <2>2 DEF FailTransfer, EndStatuses
    <2>3. CASE Cancelled
      BY <1>0, <2>3 DEF Cancelled, EndStatuses
    <2> QED  BY <2>1, <2>2, <2>3
  <1>3. PICK s \in EndStatuses, d \in Packets :
            Completion(s, d) /\ (s # "COMPLETED" => d = <<>>)
    BY <1>2
  <1>4. /\ done' \in Seq(Ending) /\ Len(done') = Len(done) + 1
        /\ \A i \in 1 .. Len(done) : done'[i] = done[i]
        /\ done'[Len(done) + 1] = [status |-> s, data |-> d]
    BY <1>0, <1>3, OneMoreEnding
  <1>5. /\ inFlight' \in Nat /\ inFlight' = inFlight - 1
        /\ cancels' \in Nat /\ cancels' <= inFlight'
    BY <1>0, <1>1, OneLess
  <1>6. UNCHANGED <<dev, plugged, ring, count, bytes, fatal>>
    BY DEF Deliver, FailTransfer, Cancelled
  <1>7. tx' = tx \/ (Deliver /\ tx' = [tx EXCEPT !.armed = <<>>, !.buffer = <<>>, !.flag = FALSE])
    BY DEF Deliver, FailTransfer, Cancelled
  <1>8. BulkTypes'
    <2>1. tx' \in [stage : {"idle", "arm", "sent"}, flag : BOOLEAN,
                   buffer : Packets, armed : Packets]
      BY <1>0, <1>7 DEF BulkTypes
    <2> QED  BY <1>0, <1>4, <1>5, <1>6, <2>1 DEF BulkTypes
  <1>9. WritePart'
    <2>1. CASE tx' = tx
      BY <1>0, <1>6, <2>1 DEF WritePart
    <2>2. CASE Deliver /\ tx' = [tx EXCEPT !.armed = <<>>, !.buffer = <<>>, !.flag = FALSE]
      <3>1. tx.armed # <<>>
        BY <2>2 DEF Deliver
      <3>2. tx'.armed = <<>> /\ tx'.flag = FALSE /\ tx'.stage = tx.stage /\ tx.stage # "arm"
        BY <1>0, <2>2, <3>1 DEF BulkTypes, WritePart
      <3> QED  BY <1>0, <1>6, <3>2 DEF WritePart
    <2> QED  BY <1>7, <2>1, <2>2
  <1>10. RingPart'
    <2>1. Len(done) \in Nat /\ inFlight \in Nat
      BY <1>0, LenProperties DEF BulkTypes
    <2>2. count' = inFlight' + Len(done') /\ cancels' <= inFlight'
      BY <1>0, <1>4, <1>5, <1>6, <2>1 DEF RingPart
    <2>3. count # 0 /\ plugged
      BY <1>0, <1>1, <2>1 DEF RingPart, BulkTypes
    <2>4. ASSUME NEW i \in 1 .. Len(done')
          PROVE  done'[i].status # "COMPLETED" => done'[i].data = <<>>
      <3>1. CASE i = Len(done) + 1
        BY <1>3, <1>4, <3>1
      <3>2. CASE i # Len(done) + 1
        <4>1. i \in 1 .. Len(done)
          BY <1>4, <2>1, <3>2
        <4> QED  BY <1>0, <1>4, <4>1 DEF RingPart
      <3> QED  BY <3>1, <3>2
    <2> QED  BY <1>0, <1>6, <2>2, <2>3, <2>4 DEF RingPart
  <1> QED  BY <1>8, <1>9, <1>10 DEF BulkInv

(* Unplugging ends them all.                                               *)
(* Every transfer in flight ends without data.                             *)
LEMMA AllEnd ==
    ASSUME BulkTypes, Unplug
    PROVE  /\ done' \in Seq(Ending) /\ Len(done') = Len(done) + inFlight
           /\ Len(done) \in Nat /\ inFlight \in Nat
           /\ \A i \in 1 .. Len(done) : done'[i] = done[i]
           /\ \A i \in Len(done) + 1 .. Len(done) + inFlight : done'[i].data = <<>>
  <1> DEFINE e == [status |-> "NO_DEVICE", data |-> <<>>]
             w == [i \in 1 .. inFlight |-> e]
  <1>1. e \in Ending
    BY DEF Ending, EndStatuses, Packets
  <1>2. e.data = <<>>
    OBVIOUS
  <1> HIDE DEF e
  <1>3. w \in Seq(Ending) /\ Len(w) = inFlight /\ \A i \in 1 .. inFlight : w[i] = e
    BY <1>1 DEF BulkTypes
  <1>4. done' = done \o w
    BY DEF Unplug, e
  <1> HIDE DEF w
  <1>5. done \in Seq(Ending) /\ Len(done) \in Nat /\ inFlight \in Nat
    BY LenProperties DEF BulkTypes
  <1>6. /\ done' \in Seq(Ending) /\ Len(done') = Len(done) + inFlight
        /\ \A i \in 1 .. Len(done) + inFlight :
              done'[i] = IF i <= Len(done) THEN done[i] ELSE w[i - Len(done)]
    <2>1. /\ done \o w \in Seq(Ending) /\ Len(done \o w) = Len(done) + Len(w)
          /\ \A i \in 1 .. Len(done) + Len(w) :
                (done \o w)[i] = IF i <= Len(done) THEN done[i] ELSE w[i - Len(done)]
      BY <1>3, <1>5, ConcatProperties
    <2> QED  BY <1>3, <1>4, <2>1
  <1>7. ASSUME NEW i \in 1 .. Len(done)
        PROVE  done'[i] = done[i]
    <2>1. i \in 1 .. Len(done) + inFlight /\ i <= Len(done)
      BY <1>5
    <2> QED  BY <1>6, <2>1
  <1>8. ASSUME NEW i \in Len(done) + 1 .. Len(done) + inFlight
        PROVE  done'[i].data = <<>>
    <2>1. i \in 1 .. Len(done) + inFlight /\ ~(i <= Len(done)) /\ i - Len(done) \in 1 .. inFlight
      BY <1>5
    <2> QED  BY <1>2, <1>3, <1>6, <2>1
  <1> QED  BY <1>5, <1>6, <1>7, <1>8

LEMMA UnplugKeeps ==
    ASSUME BulkInv, Unplug
    PROVE  BulkInv'
  <1>0. BulkTypes /\ WritePart /\ RingPart /\ <<>> \in Packets
    BY DEF BulkInv, Packets
  <1>1. /\ done' \in Seq(Ending) /\ Len(done') = Len(done) + inFlight
        /\ Len(done) \in Nat /\ inFlight \in Nat
        /\ \A i \in 1 .. Len(done) : done'[i] = done[i]
        /\ \A i \in Len(done) + 1 .. Len(done) + inFlight : done'[i].data = <<>>
    BY <1>0, AllEnd
  <1>2. BulkTypes'
    <2>1. dev' \in [running : BOOLEAN, stream : 0 .. Len(MaxSeq), clock : Nat, seq : Nat,
                    packet : Packets, dropped : Numbers]
      BY <1>0 DEF Unplug, BulkTypes
    <2>2. tx' \in [stage : {"idle", "arm", "sent"}, flag : BOOLEAN,
                   buffer : Packets, armed : Packets]
      BY <1>0 DEF Unplug, BulkTypes
    <2> QED  BY <1>0, <1>1, <2>1, <2>2 DEF Unplug, BulkTypes
  <1>3. WritePart'
    <2>1. /\ tx'.flag = FALSE /\ tx'.armed = <<>> /\ tx'.stage = tx.stage
          /\ tx'.buffer = IF tx.armed = <<>> THEN tx.buffer ELSE <<>>
          /\ dev'.packet = dev.packet /\ plugged' = FALSE
      BY <1>0 DEF Unplug, BulkTypes
    <2> QED  BY <1>0, <2>1 DEF WritePart
  <1>4. RingPart'
    <2>1. Len(done) \in Nat /\ inFlight \in Nat
      BY <1>1
    <2>2. /\ inFlight' = 0 /\ cancels' = 0 /\ plugged' = FALSE
          /\ UNCHANGED <<ring, count, bytes>>
      BY DEF Unplug
    <2>3. ASSUME NEW i \in 1 .. Len(done')
          PROVE  done'[i].status # "COMPLETED" => done'[i].data = <<>>
      <3>1. CASE i <= Len(done)
        <4>1. i \in 1 .. Len(done)
          BY <3>1
        <4> QED  BY <1>0, <1>1, <4>1 DEF RingPart
      <3>2. CASE ~(i <= Len(done))
        <4>1. i \in Len(done) + 1 .. Len(done) + inFlight
          BY <1>1, <3>2
        <4> QED  BY <1>1, <4>1
      <3> QED  BY <3>1, <3>2
    <2> QED  BY <1>0, <1>1, <2>1, <2>2, <2>3 DEF RingPart
  <1> QED  BY <1>2, <1>3, <1>4 DEF BulkInv

(* Submitting n transfers after as many were counted off, or none at first.*)
LEMMA Submitted ==
    ASSUME BulkInv, NEW n \in Nat, NEW off \in Nat, off <= n, off <= count, Submit(n, off)
    PROVE  /\ inFlight' \in Nat /\ count' \in Nat /\ fatal' \in Codes \cup {"none"}
           /\ inFlight <= inFlight' /\ count' + off = count + (inFlight' - inFlight)
           /\ ~plugged => inFlight' = 0
  <1>1. /\ inFlight \in Nat /\ count \in Nat /\ fatal \in Codes \cup {"none"}
        /\ plugged \in BOOLEAN /\ (~plugged => inFlight = 0) /\ "NO_DEVICE" \in Codes
    BY DEF BulkInv, BulkTypes, RingPart, Codes
  <1>2. CASE plugged
    BY <1>1, <1>2 DEF Submit
  <1>3. CASE ~plugged
    <2>1. fatal' \in Codes \cup {"none"}
      BY <1>1, <1>3 DEF Submit
    <2>2. count' = count - off /\ inFlight' = inFlight /\ inFlight = 0
      BY <1>1, <1>3 DEF Submit
    <2> QED  BY <1>1, <2>1, <2>2
  <1> QED  BY <1>2, <1>3

(* Opening and closing the ring of transfers, and freeing its buffers.     *)
LEMMA RingKeeps ==
    ASSUME BulkInv, OpenRing \/ CloseRing \/ FreeRing
    PROVE  BulkInv'
  <1>0. BulkTypes /\ WritePart /\ RingPart /\ Len(done) \in Nat
    BY LenProperties DEF BulkInv, BulkTypes
  <1>1. CASE OpenRing
    <2>1. RingSize \in Nat /\ 0 \in Nat /\ 0 <= RingSize /\ 0 <= count
      BY <1>0, BulkAssumption DEF BulkTypes
    <2>2. /\ inFlight' \in Nat /\ count' \in Nat /\ fatal' \in Codes \cup {"none"}
          /\ inFlight <= inFlight' /\ count' + 0 = count + (inFlight' - inFlight)
          /\ ~plugged => inFlight' = 0
      BY <1>1, <2>1, Submitted DEF OpenRing
    <2>3. ring' = "open" /\ UNCHANGED <<dev, tx, plugged, cancels, done, bytes, faults>>
      BY <1>1 DEF OpenRing
    <2>4. BulkTypes'
      BY <1>0, <2>2, <2>3 DEF BulkTypes
    <2>5. WritePart'
      BY <1>0, <2>3 DEF WritePart
    <2>6. count' = inFlight' + Len(done') /\ cancels' <= inFlight'
      BY <1>0, <2>2, <2>3, SMTT(30) DEF BulkTypes, RingPart
    <2>7. RingPart'
      BY <1>0, <2>2, <2>3, <2>6 DEF RingPart
    <2> QED  BY <2>4, <2>5, <2>7 DEF BulkInv
  <1>2. CASE CloseRing
    <2>1. /\ ring' = "closing" /\ cancels' = inFlight
          /\ UNCHANGED <<dev, tx, plugged, inFlight, done, count, bytes, fatal>>
      BY <1>2 DEF CloseRing
    <2>2. BulkTypes' /\ WritePart'
      BY <1>0, <2>1 DEF BulkTypes, WritePart
    <2>3. RingPart'
      BY <1>0, <2>1 DEF RingPart, BulkTypes
    <2> QED  BY <2>2, <2>3 DEF BulkInv
  <1>3. CASE FreeRing
    <2>1. /\ ring' = "freed" /\ count = 0 /\ bytes' = <<>>
          /\ UNCHANGED <<dev, tx, plugged, inFlight, done, cancels, count, fatal>>
      BY <1>3 DEF FreeRing
    <2>2. BulkTypes' /\ WritePart'
      BY <1>0, <2>1 DEF BulkTypes, WritePart
    <2>3. RingPart'
      BY <1>0, <2>1 DEF RingPart
    <2> QED  BY <2>2, <2>3 DEF BulkInv
  <1> QED  BY <1>1, <1>2, <1>3

(* A callback takes the first ending off.                                  *)
LEMMA FirstEnding ==
    ASSUME BulkTypes, done # <<>>, done' = Tail(done)
    PROVE  /\ Head(done) \in Ending /\ Head(done) = done[1] /\ Len(done) \in Nat \ {0}
           /\ done' \in Seq(Ending) /\ Len(done') = Len(done) - 1
           /\ \A i \in 1 .. Len(done') : done'[i] = done[i + 1]
  <1>1. done \in Seq(Ending)
    BY DEF BulkTypes
  <1>2. Len(done) \in Nat /\ Len(done) # 0
    BY <1>1, LenProperties, EmptySeq
  <1> QED  BY <1>1, <1>2, HeadTailProperties

LEMMA CompleteKeeps ==
    ASSUME BulkInv, HandleComplete
    PROVE  BulkInv'
  <1>0. BulkTypes /\ WritePart /\ RingPart
    BY DEF BulkInv
  <1>1. done # <<>> /\ done' = Tail(done) /\ UNCHANGED <<dev, tx, plugged, ring, cancels>>
    BY DEF HandleComplete
  <1>2. /\ Head(done) \in Ending /\ Head(done) = done[1] /\ Len(done) \in Nat \ {0}
        /\ done' \in Seq(Ending) /\ Len(done') = Len(done) - 1
        /\ \A i \in 1 .. Len(done') : done'[i] = done[i + 1]
    BY <1>0, <1>1, FirstEnding
  <1>3. count = inFlight + Len(done) /\ inFlight \in Nat /\ count \in Nat \ {0}
    BY <1>0, <1>2 DEF RingPart, BulkTypes
  <1>4. PICK data \in Packets : data = Head(done).data
    BY <1>2 DEF Ending
  <1>5. /\ inFlight' \in Nat /\ count' \in Nat /\ fatal' \in Codes \cup {"none"}
        /\ inFlight <= inFlight' /\ count' = inFlight' + Len(done')
        /\ ~plugged => inFlight' = 0
        /\ bytes' \in Seq(Unit)
    <2>1. CASE Head(done).status = "COMPLETED" /\ ring = "open"
      <3>1. Submit(1, 1) /\ bytes' = bytes \o OnTheWire(data)
        BY <1>4, <2>1 DEF HandleComplete
      <3>2. /\ inFlight' \in Nat /\ count' \in Nat /\ fatal' \in Codes \cup {"none"}
            /\ inFlight <= inFlight' /\ count' + 1 = count + (inFlight' - inFlight)
            /\ ~plugged => inFlight' = 0
        <4>1. 1 \in Nat /\ 1 <= 1 /\ 1 <= count
          BY <1>3
        <4> QED  BY <3>1, <4>1, Submitted
      <3>3. bytes' \in Seq(Unit)
        <4>1. bytes \in Seq(Unit) /\ OnTheWire(data) \in Seq(Unit)
          BY <1>0, WireUnits DEF BulkTypes
        <4>2. \A x, y \in Seq(Unit) : x \o y \in Seq(Unit)
          BY ConcatProperties
        <4> QED  BY <3>1, <4>1, <4>2
      <3>4. count' = inFlight' + Len(done')
        <4>1. PICK n \in Nat : n = Len(done)
          BY <1>2
        <4>2. PICK i \in Nat : i = inFlight
          BY <1>3
        <4>3. PICK j \in Nat : j = inFlight'
          BY <3>2
        <4>4. count = i + n /\ Len(done') = n - 1
          BY <1>2, <1>3, <4>1, <4>2
        <4>5. PICK c \in Nat : c = count'
          BY <3>2
        <4>6. c + 1 = (i + n) + (j - i)
          BY <3>2, <4>2, <4>3, <4>4, <4>5
        <4>7. c = j + (n - 1)
          BY <4>6
        <4> QED  BY <4>3, <4>4, <4>5, <4>7
      <3> QED  BY <3>2, <3>3, <3>4
    <2>2. CASE ~(Head(done).status = "COMPLETED" /\ ring = "open")
      <3>1. count' = count - 1 /\ UNCHANGED <<bytes, inFlight>>
        BY <2>2 DEF HandleComplete
      <3>2. fatal' \in {fatal, TransferCode(Head(done).status)}
        BY <2>2 DEF HandleComplete
      <3>3. TransferCode(Head(done).status) \in Codes
        BY DEF TransferCode, Codes
      <3>4. ~plugged => inFlight = 0
        BY <1>0 DEF RingPart
      <3>5. count' \in Nat /\ count' = inFlight' + Len(done')
        <4> DEFINE n == Len(done)
                   m == Len(done')
        <4>1. n \in Nat /\ m = n - 1 /\ count = inFlight + n /\ inFlight' = inFlight
          BY <1>2, <1>3, <3>1
        <4> HIDE DEF n, m
        <4>2. count' \in Nat /\ count' = inFlight' + m
          BY <1>3, <3>1, <4>1
        <4> QED  BY <4>2 DEF m
      <3>6. fatal' \in Codes \cup {"none"} /\ bytes' \in Seq(Unit)
        BY <1>0, <3>1, <3>2, <3>3 DEF BulkTypes
      <3> QED  BY <1>3, <3>1, <3>4, <3>5, <3>6
    <2> QED  BY <2>1, <2>2
  <1>6. BulkTypes' /\ WritePart'
    BY <1>0, <1>1, <1>2, <1>5 DEF BulkTypes, WritePart
  <1>7. RingPart'
    <2>1. cancels \in Nat /\ cancels <= inFlight
      BY <1>0 DEF BulkTypes, RingPart
    <2>2. cancels' <= inFlight'
      BY <1>1, <1>3, <1>5, <2>1
    <2>3. ring \notin {"none", "freed"}
      BY <1>0, <1>3 DEF RingPart
    <2>4. ASSUME NEW i \in 1 .. Len(done')
          PROVE  done'[i].status # "COMPLETED" => done'[i].data = <<>>
      <3>1. i + 1 \in 1 .. Len(done)
        BY <1>2
      <3> QED  BY <1>0, <1>2, <3>1 DEF RingPart
    <2> QED  BY <1>1, <1>5, <2>2, <2>3, <2>4 DEF RingPart
  <1> QED  BY <1>6, <1>7 DEF BulkInv

(* What the threads of the host do of it.                                  *)
Elsewhere == UNCHANGED <<dev, tx, plugged, ring, inFlight, cancels, done, count, bytes, fatal>>

LEMMA ElsewhereKeeps ==
    ASSUME BulkInv, Elsewhere
    PROVE  BulkInv'
  BY DEF Elsewhere, BulkInv, BulkTypes, WritePart, RingPart

LEMMA ReadKeeps ==
    ASSUME BulkInv, ReadThrows \/ ReadBytes
    PROVE  BulkInv'
  <1>0. BulkTypes /\ WritePart /\ RingPart
    BY DEF BulkInv
  <1>1. CASE ReadThrows
    BY <1>0, <1>1 DEF ReadThrows, BulkInv, BulkTypes, WritePart, RingPart
  <1>2. CASE ReadBytes
    <2> DEFINE n == IF Len(bytes) < Chunk THEN Len(bytes) ELSE Chunk
    <2>1. bytes \in Seq(Unit) /\ Len(bytes) \in Nat /\ n \in Nat /\ n <= Len(bytes)
      BY <1>0, LenProperties, StreamAssumption DEF BulkTypes
    <2>2. bytes # <<>> /\ bytes' = SubSeq(bytes, n + 1, Len(bytes))
          /\ UNCHANGED <<dev, tx, plugged, ring, inFlight, cancels, done, count, fatal>>
      BY <1>2 DEF ReadBytes
    <2> HIDE DEF n
    <2>3. bytes' \in Seq(Unit)
      BY <2>1, <2>2, SubSeqProperties
    <2>4. ring \notin {"none", "freed"}
      BY <1>0, <2>2 DEF RingPart
    <2> QED  BY <1>0, <2>2, <2>3, <2>4 DEF BulkInv, BulkTypes, WritePart, RingPart
  <1> QED  BY <1>1, <1>2

LEMMA StartKeeps ==
    ASSUME BulkInv, StartStream
    PROVE  BulkInv'
  <1>0. BulkTypes /\ WritePart /\ RingPart
    BY DEF BulkInv
  <1>1. Tick \in Nat /\ <<>> \in Packets /\ {} \in Numbers /\ 0 \in Nat
    BY <1>0, BulkAssumption DEF Tick, Packets, Numbers, BulkTypes
  <1>2. dev.stream + 1 \in 0 .. Len(MaxSeq)
    <2>1. PICK n \in Nat : n = Len(MaxSeq)
      BY BulkAssumption, LenProperties
    <2>2. PICK i : i = dev.stream
      OBVIOUS
    <2>3. i \in 0 .. n /\ i < n
      BY <1>0, <2>1, <2>2 DEF StartStream, BulkTypes
    <2>4. i + 1 \in 0 .. n
      BY <2>3
    <2> QED  BY <2>1, <2>2, <2>4
  <1>3. dev' = [dev EXCEPT !.running = TRUE, !.stream = @ + 1, !.clock = Tick, !.seq = 0,
                           !.packet = <<>>, !.dropped = {}]
        /\ UNCHANGED <<tx, plugged, ring, inFlight, cancels, done, count, bytes, fatal>>
        /\ tx.stage = "idle"
    BY DEF StartStream
  <1>4. dev' \in [running : BOOLEAN, stream : 0 .. Len(MaxSeq), clock : Nat, seq : Nat,
                  packet : Packets, dropped : Numbers]
    BY <1>0, <1>1, <1>2, <1>3 DEF BulkTypes
  <1> QED  BY <1>0, <1>3, <1>4 DEF BulkInv, BulkTypes, WritePart, RingPart

LEMMA JoinKeeps ==
    ASSUME BulkInv, Join
    PROVE  BulkInv'
  BY DEF Join, BulkInv, BulkTypes, WritePart, RingPart

LEMMA BulkStep ==
    ASSUME BulkInv, [Next]_vars
    PROVE  BulkInv'
  <1>1. CASE BulkNext
    BY <1>1, DeviceSideKeeps, EndingKeeps, UnplugKeeps, CompleteKeeps, RingKeeps
       DEF BulkNext, WriteStep, DeviceSide
  <1>2. CASE WorkerStep
    <2>1. CASE Top
      <3>1. OpenRing \/ UNCHANGED bulkVars
        BY <2>1 DEF Top
      <3> QED  BY <3>1, RingKeeps, ElsewhereKeeps DEF bulkVars, Elsewhere
    <2>2. CASE ReadThrows \/ ReadBytes
      BY <2>2, ReadKeeps
    <2>3. CASE \/ ReadTimeout \/ Hunt \/ SkipStale \/ DecodeRecord \/ Queue \/ NotifyOne
               \/ PollStatus \/ WorkerEnds
      <3>1. UNCHANGED bulkVars
        BY <2>3 DEF ReadTimeout, Hunt, SkipStale, DecodeRecord, Received, Queue, NotifyOne,
                    PollStatus, WorkerEnds
      <3> QED  BY <3>1, ElsewhereKeeps DEF bulkVars, Elsewhere
    <2> QED  BY <1>2, <2>1, <2>2, <2>3 DEF WorkerStep
  <1>3. CASE \E r \in Readers : ReaderStep(r)
    <2>1. UNCHANGED bulkVars
      BY <1>3 DEF ReaderStep, Test, Wait, ReadReturns
    <2> QED  BY <2>1, ElsewhereKeeps DEF bulkVars, Elsewhere
  <1>4. CASE SetStop \/ NotifyAll
    BY <1>4, ElsewhereKeeps DEF bulkVars, Elsewhere, SetStop, NotifyAll
  <1>5. CASE StartStream \/ Join \/ Destroy
    BY <1>5, StartKeeps, JoinKeeps, RingKeeps DEF Destroy
  <1>6. CASE UNCHANGED vars
    BY <1>6, ElsewhereKeeps DEF vars, bulkVars, Elsewhere
  <1> QED  BY <1>1, <1>2, <1>3, <1>4, <1>5, <1>6 DEF Next

(* stream_write() never leaves its flag raised with no transfer to lower   *)
(* it, and never writes the buffer an endpoint sends from; the ring frees  *)
(* no buffer that libusb still has, whatever completes while it is torn    *)
(* down.                                                                   *)
THEOREM BuffersAreSafe == Spec => []BuffersSafe
  <1>1. Init => BulkInv
    BY BulkStarts
  <1>2. BulkInv /\ [Next]_vars => BulkInv'
    BY BulkStep
  <1>3. BulkInv => BuffersSafe
    <2> SUFFICES ASSUME BulkInv PROVE BuffersSafe
      OBVIOUS
    <2>0. BulkTypes /\ WritePart /\ RingPart
      BY DEF BulkInv
    <2>1. count = inFlight + Len(done) /\ inFlight \in Nat /\ Len(done) \in Nat
          /\ (Len(done) = 0 => done = <<>>)
      BY <2>0, LenProperties, EmptySeq DEF RingPart, BulkTypes
    <2>2. ring = "freed" => inFlight = 0 /\ done = <<>>
      BY <2>0, <2>1 DEF RingPart
    <2> QED  BY <2>0, <2>1, <2>2 DEF BuffersSafe, WritePart
  <1> QED  BY <1>1, <1>2, <1>3, PTL DEF Spec

-----------------------------------------------------------------------------
(***************************************************************************)
(* Threads: types, and where the worker is.                                *)
(***************************************************************************)

LEMMA ThreadsStart == Init => StreamTypes /\ ThreadPart
  <1> SUFFICES ASSUME Init PROVE StreamTypes /\ ThreadPart
    OBVIOUS
  <1>1. /\ owner = "idle" /\ worker = [NewWorker EXCEPT !.stage = "gone"] /\ startT = 0
        /\ error = "" /\ ready = <<>> /\ stats = NoStats /\ hand = <<>> /\ taken = <<>>
        /\ ring = "none"
    BY DEF Init, BulkInit
  <1>2. <<>> \in UnitSeqs /\ <<>> \in Seq(Item)
    BY DEF UnitSeqs
  <1>3. worker = [stage |-> "gone", buffer |-> <<>>, hunting |-> FALSE, stopped |-> FALSE,
                  last |-> -1, late |-> FALSE]
    BY <1>1 DEF NewWorker
  <1>4. worker \in [stage : WorkerStages, buffer : UnitSeqs, hunting : BOOLEAN,
                    stopped : BOOLEAN, last : Int, late : BOOLEAN]
    BY <1>2, <1>3 DEF WorkerStages
  <1>5. StreamTypes
    BY <1>1, <1>2, <1>4 DEF StreamTypes, NoStats
  <1>6. ThreadPart
    <2>1. worker.stage = "gone" /\ worker.buffer = <<>>
      BY <1>3
    <2> QED  BY <1>1, <2>1 DEF ThreadPart
  <1> QED  BY <1>5, <1>6

(* What the worker does to its own state, besides its buffer.              *)
WorkerType == [stage : WorkerStages, buffer : UnitSeqs, hunting : BOOLEAN,
               stopped : BOOLEAN, last : Int, late : BOOLEAN]

(* The first unit of the worker's buffer.                                  *)
LEMMA FirstUnit ==
    ASSUME StreamTypes
    PROVE  /\ Len(worker.buffer) \in Nat /\ worker.buffer \in Seq(Unit)
           /\ worker.buffer # <<>> =>
                 /\ Head(worker.buffer) = worker.buffer[1] /\ Head(worker.buffer) \in Unit
                 /\ Rec \in Record /\ Len(worker.buffer) >= 1
                 /\ Tail(worker.buffer) \in UnitSeqs
                 /\ Len(Tail(worker.buffer)) = Len(worker.buffer) - 1
                 /\ \A i \in 1 .. Len(worker.buffer) - 1 :
                       Tail(worker.buffer)[i] = worker.buffer[i + 1]
           /\ Len(worker.buffer) >= 2 =>
                 /\ worker.buffer[2] \in Unit
                 /\ SubSeq(worker.buffer, 3, Len(worker.buffer)) \in UnitSeqs
                 /\ Len(SubSeq(worker.buffer, 3, Len(worker.buffer))) = Len(worker.buffer) - 2
                 /\ \A i \in 1 .. Len(worker.buffer) - 2 :
                       SubSeq(worker.buffer, 3, Len(worker.buffer))[i] = worker.buffer[i + 2]
  <1> DEFINE w == worker.buffer
  <1>1. w \in Seq(Unit)
    BY DEF StreamTypes, UnitSeqs
  <1> HIDE DEF w
  <1>2. Len(w) \in Nat /\ (w # <<>> => Len(w) >= 1) /\ \A i \in 1 .. Len(w) : w[i] \in Unit
    BY <1>1, LenProperties, EmptySeq, ElementOfSeq
  <1>3. ASSUME w # <<>>
        PROVE  /\ Head(w) = w[1] /\ Head(w) \in Unit /\ Head(w).rec \in Record
               /\ Tail(w) \in Seq(Unit) /\ Len(Tail(w)) = Len(w) - 1
               /\ \A i \in 1 .. Len(w) - 1 : Tail(w)[i] = w[i + 1]
    <2>1. Head(w) \in Unit /\ Tail(w) \in Seq(Unit) /\ Len(Tail(w)) = Len(w) - 1
          /\ \A i \in 1 .. Len(Tail(w)) : Tail(w)[i] = w[i + 1]
      BY <1>1, <1>3, HeadTailProperties
    <2>2. Head(w) = w[1]
      BY <1>1, <1>3
    <2> QED  BY <2>1, <2>2 DEF Unit
  <1>4. ASSUME Len(w) >= 2
        PROVE  /\ w[2] \in Unit /\ SubSeq(w, 3, Len(w)) \in Seq(Unit)
               /\ Len(SubSeq(w, 3, Len(w))) = Len(w) - 2
               /\ \A i \in 1 .. Len(w) - 2 : SubSeq(w, 3, Len(w))[i] = w[i + 2]
    <2> DEFINE x == SubSeq(w, 3, Len(w))
    <2>1. 3 \in Int /\ Len(w) \in Int /\ \A i \in 3 .. Len(w) : w[i] \in Unit
      BY <1>2
    <2>2. x \in Seq(Unit) /\ Len(x) = (IF 3 <= Len(w) THEN Len(w) - 3 + 1 ELSE 0)
          /\ \A i \in 1 .. Len(w) - 3 + 1 : x[i] = w[3 + i - 1]
      BY <2>1, SubSeqProperties
    <2> HIDE DEF x
    <2>3. Len(x) = Len(w) - 2
      <3>1. PICK n \in Nat : n = Len(w)
        BY <1>2
      <3>2. Len(x) = (IF 3 <= n THEN n - 3 + 1 ELSE 0) /\ n >= 2
        BY <1>4, <2>2, <3>1
      <3>3. Len(x) = n - 2
        BY <3>2
      <3> QED  BY <3>1, <3>3
    <2>4. ASSUME NEW i \in 1 .. Len(w) - 2
          PROVE  x[i] = w[i + 2]
      <3>1. i \in 1 .. Len(w) - 3 + 1 /\ 3 + i - 1 = i + 2
        BY <1>2
      <3> QED  BY <2>2, <3>1
    <2> QED  BY <1>2, <1>4, <2>2, <2>3, <2>4 DEF x
  <1> QED  BY <1>1, <1>2, <1>3, <1>4 DEF w, Rec, Buffer, UnitSeqs

LEMMA BusKeepsThreads ==
    ASSUME BulkInv, StreamTypes, ThreadPart, BulkNext, UNCHANGED streamVars
    PROVE  StreamTypes' /\ ThreadPart'
  <1>1. UNCHANGED <<owner, worker, startT, stopRequested, error, ready, stats, hand, taken>>
    BY DEF streamVars
  <1>2. StreamTypes'
    BY <1>1 DEF StreamTypes
  <1>3. ring' = ring \/ (ring = "closing" /\ ring' = "freed")
    BY DEF BulkNext, Sample, OtherStops, WriteStep, WriteCopy, WriteArm, WriteSent, Deliver,
           FailTransfer, Unplug, HandleComplete, Cancelled, FreeRing
  <1>4. ~dev.running => ~dev'.running
    <2>1. CASE Sample
      BY <2>1 DEF Sample
    <2>2. CASE OtherStops \/ Unplug \/ WriteSent
      BY <2>2 DEF OtherStops, Unplug, WriteSent, BulkInv, BulkTypes
    <2>3. CASE \/ WriteCopy \/ WriteArm \/ Deliver \/ FailTransfer \/ HandleComplete
               \/ Cancelled \/ FreeRing
      BY <2>3 DEF WriteCopy, WriteArm, Deliver, FailTransfer, HandleComplete, Cancelled, FreeRing
    <2> QED  BY <2>1, <2>2, <2>3 DEF BulkNext, WriteStep
  <1>5. ThreadPart'
    <2>1. ring \in {"none", "open", "closing", "freed"}
      BY DEF BulkInv, BulkTypes
    <2>2. ring' \in {"closing", "freed"} <=> ring \in {"closing", "freed"}
      BY <1>3
    <2>3. ring = "open" => ring' = "open"
      BY <1>3
    <2> QED  BY <1>1, <1>4, <2>2, <2>3 DEF ThreadPart
  <1> QED  BY <1>2, <1>5

LEMMA ReadersKeepThreads ==
    ASSUME BulkInv, StreamTypes, ThreadPart, NEW r \in Readers, ReaderStep(r)
    PROVE  StreamTypes' /\ ThreadPart'
  <1>1. UNCHANGED <<bulkVars, owner, worker, startT, error, stats, hand>>
    BY DEF ReaderStep, Test, Wait, ReadReturns
  <1>2. Take(r) \/ UNCHANGED <<ready, taken>>
    BY DEF ReaderStep, Test, Wait, ReadReturns
  <1>3. ready' \in Seq(Item) /\ taken' \in Seq(Item)
    <2>1. ready \in Seq(Item) /\ taken \in Seq(Item)
      BY DEF StreamTypes
    <2>2. CASE Take(r)
      <3> DEFINE n == IF Len(ready) < Room THEN Len(ready) ELSE Room
      <3>1. Len(ready) \in Nat /\ n \in Nat /\ n <= Len(ready)
        BY <2>1, LenProperties, StreamAssumption
      <3>2. taken' = taken \o SubSeq(ready, 1, n) /\ ready' = SubSeq(ready, n + 1, Len(ready))
        BY <2>2 DEF Take
      <3> HIDE DEF n
      <3>3. \A i \in 1 .. Len(ready) : ready[i] \in Item
        BY <2>1, ElementOfSeq
      <3>4. SubSeq(ready, 1, n) \in Seq(Item) /\ SubSeq(ready, n + 1, Len(ready)) \in Seq(Item)
        <4>1. \A i \in 1 .. n : ready[i] \in Item
          BY <3>1, <3>3
        <4>2. \A i \in n + 1 .. Len(ready) : ready[i] \in Item
          BY <3>1, <3>3
        <4>3. 1 \in Int /\ n \in Int /\ n + 1 \in Int /\ Len(ready) \in Int
          BY <3>1
        <4> QED  BY <4>1, <4>2, <4>3, SubSeqProperties
      <3>5. \A x, y \in Seq(Item) : x \o y \in Seq(Item)
        BY ConcatProperties
      <3> QED  BY <2>1, <3>2, <3>4, <3>5
    <2> QED  BY <1>2, <2>1, <2>2
  <1>4. StreamTypes'
    BY <1>1, <1>3 DEF StreamTypes
  <1>5. ThreadPart'
    BY <1>1 DEF ThreadPart, bulkVars
  <1> QED  BY <1>4, <1>5

LEMMA OwnerKeepsThreads ==
    ASSUME BulkInv, StreamTypes, ThreadPart,
           StartStream \/ SetStop \/ NotifyAll \/ Join \/ Destroy \/ UNCHANGED vars
    PROVE  StreamTypes' /\ ThreadPart'
  <1>0. <<>> \in Seq(Item) /\ <<>> \in UnitSeqs
    BY DEF UnitSeqs
  <1>1. CASE StartStream
    <2>1. worker' = NewWorker /\ owner' = "streaming" /\ owner = "idle" /\ ring' = ring
          /\ startT' = Tick /\ Forget
      BY <1>1 DEF StartStream
    <2>2. Tick \in Nat
      BY BulkAssumption DEF Tick, BulkInv, BulkTypes
    <2>3. /\ worker'.stage = "top" /\ worker'.buffer = <<>> /\ worker'.stopped = FALSE
          /\ worker' \in WorkerType
      BY <1>0, <2>1 DEF NewWorker, WorkerType, WorkerStages
    <2>4. StreamTypes'
      BY <1>0, <2>1, <2>2, <2>3 DEF StreamTypes, Forget, NoStats, WorkerType
    <2>5. ThreadPart'
      BY <2>1, <2>3 DEF ThreadPart
    <2> QED  BY <2>4, <2>5
  <1>2. CASE SetStop \/ NotifyAll
    <2>1. /\ owner \in {"streaming", "notify"} /\ owner' \in {"notify", "join"}
          /\ UNCHANGED <<bulkVars, worker, startT, error, ready, stats, hand, taken>>
      BY <1>2 DEF SetStop, NotifyAll
    <2> QED  BY <2>1 DEF StreamTypes, ThreadPart, bulkVars
  <1>3. CASE Join
    <2>1. /\ owner = "join" /\ owner' = "idle" /\ worker.stage = "gone" /\ ring' = ring
          /\ UNCHANGED <<worker, startT, error, ready, stats, hand, taken>>
      BY <1>3 DEF Join
    <2>2. StreamTypes' /\ ThreadPart'
      BY <2>1 DEF StreamTypes, ThreadPart
    <2> QED  BY <2>2
  <1>4. CASE Destroy
    <2>1. worker' = [NewWorker EXCEPT !.stage = "gone"] /\ owner' = "destroyed"
          /\ ring' = "closing" /\ startT' = startT /\ Forget
      BY <1>4 DEF Destroy, CloseRing
    <2>2. /\ worker'.stage = "gone" /\ worker'.buffer = <<>> /\ worker' \in WorkerType
      <3>1. worker' = [stage |-> "gone", buffer |-> <<>>, hunting |-> FALSE, stopped |-> FALSE,
                       last |-> -1, late |-> FALSE]
        BY <2>1 DEF NewWorker
      <3> QED  BY <1>0, <3>1 DEF WorkerType, WorkerStages
    <2>3. StreamTypes'
      BY <1>0, <2>1, <2>2 DEF StreamTypes, Forget, NoStats, WorkerType
    <2>4. ThreadPart'
      BY <2>1, <2>2 DEF ThreadPart
    <2> QED  BY <2>3, <2>4
  <1>5. CASE UNCHANGED vars
    BY <1>5, ZenonT(30) DEF vars, streamVars, bulkVars, StreamTypes, ThreadPart
  <1> QED  BY <1>1, <1>2, <1>3, <1>4, <1>5

LEMMA WorkerKeepsThreads ==
    ASSUME BulkInv, StreamTypes, ThreadPart, WorkerStep
    PROVE  StreamTypes' /\ ThreadPart'
  <1>0. /\ Len(worker.buffer) \in Nat /\ worker \in WorkerType
        /\ worker.buffer # <<>> =>
              Len(worker.buffer) >= 1 /\ Rec \in Record /\ Tail(worker.buffer) \in UnitSeqs
              /\ Head(worker.buffer) = worker.buffer[1]
        /\ Len(worker.buffer) >= 2 =>
              worker.buffer[2] \in Unit /\ SubSeq(worker.buffer, 3, Len(worker.buffer)) \in UnitSeqs
    BY FirstUnit DEF StreamTypes, WorkerType
  <1>a. /\ owner \in {"idle", "streaming", "notify", "join", "destroyed"} /\ startT \in Nat
        /\ ring \in {"none", "open", "closing", "freed"}
        /\ error \in Codes \cup {"", "device stopped"}
        /\ fatal \in Codes \cup {"none"}
        /\ ready \in Seq(Item) /\ hand \in Seq(Item) /\ taken \in Seq(Item)
        /\ stats \in [received : Nat, gaps : Nat, drops : Nat, resyncs : Nat, stale : Nat]
    BY DEF StreamTypes, BulkInv, BulkTypes
  <1>b. /\ stats.received \in Nat /\ stats.gaps \in Nat /\ stats.drops \in Nat
        /\ stats.resyncs \in Nat /\ stats.stale \in Nat
    BY <1>a
  <1>1. CASE Top
    <2>1. /\ worker.stage = "top" /\ UNCHANGED <<owner, startT, error, ready, stats, hand, taken>>
          /\ \/ Goto("ending") /\ UNCHANGED bulkVars
             \/ /\ worker' = [worker EXCEPT !.stage = "read", !.late = ~dev.running]
                /\ OpenRing \/ (ring # "none" /\ UNCHANGED bulkVars)
      BY <1>1 DEF Top
    <2>2. owner \notin {"idle", "destroyed"} /\ ring \notin {"closing", "freed"}
      BY <2>1 DEF ThreadPart
    <2>3. CASE Goto("ending") /\ UNCHANGED bulkVars
      <3>1. worker' = [worker EXCEPT !.stage = "ending"] /\ UNCHANGED <<dev, ring>>
        BY <2>3 DEF Goto, bulkVars
      <3>2. /\ worker' \in WorkerType /\ worker'.stage = "ending"
            /\ worker'.buffer = worker.buffer /\ worker'.stopped = worker.stopped
        BY <1>0, <3>1 DEF WorkerType, WorkerStages
      <3>3. StreamTypes'
        BY <1>a, <2>1, <3>2 DEF StreamTypes, WorkerType
      <3> QED  BY <2>1, <3>1, <3>2, <3>3 DEF ThreadPart
    <2>4. CASE /\ worker' = [worker EXCEPT !.stage = "read", !.late = ~dev.running]
               /\ OpenRing \/ (ring # "none" /\ UNCHANGED bulkVars)
      <3>1. dev' = dev /\ ring' = "open"
        BY <1>a, <2>2, <2>4 DEF OpenRing, bulkVars
      <3>2. (~dev.running) \in BOOLEAN
        BY DEF BulkInv, BulkTypes
      <3>3. /\ worker' \in WorkerType /\ worker'.stage = "read" /\ worker'.late = ~dev.running
            /\ worker'.buffer = worker.buffer /\ worker'.stopped = worker.stopped
        BY <1>0, <2>4, <3>2 DEF WorkerType, WorkerStages
      <3>4. StreamTypes'
        BY <1>a, <2>1, <3>3 DEF StreamTypes, WorkerType
      <3>5. ThreadPart'
        BY <2>1, <2>2, <3>1, <3>3 DEF ThreadPart
      <3> QED  BY <3>4, <3>5
    <2> QED  BY <2>1, <2>3, <2>4
  <1>2. CASE ReadThrows
    <2>1. /\ worker.stage = "read" /\ error' = fatal /\ fatal # "none"
          /\ worker' = [worker EXCEPT !.stage = "ending"]
          /\ UNCHANGED <<dev, ring, owner, startT, ready, stats, hand, taken>>
      BY <1>2 DEF ReadThrows, End, Goto
    <2>2. /\ worker' \in WorkerType /\ worker'.stage = "ending"
          /\ worker'.buffer = worker.buffer /\ worker'.stopped = worker.stopped
      BY <1>0, <2>1 DEF WorkerType, WorkerStages
    <2>3. StreamTypes'
      BY <1>a, <2>1, <2>2 DEF StreamTypes, WorkerType
    <2> QED  BY <2>1, <2>2, <2>3 DEF ThreadPart
  <1>3. CASE ReadBytes
    <2> DEFINE n == IF Len(bytes) < Chunk THEN Len(bytes) ELSE Chunk
               x == worker.buffer \o SubSeq(bytes, 1, n)
    <2>1. /\ worker.stage = "read" /\ worker' = [worker EXCEPT !.stage = "decode", !.buffer = x]
          /\ UNCHANGED <<dev, ring, owner, startT, error, ready, stats, hand, taken>>
      BY <1>3 DEF ReadBytes
    <2>2. x \in UnitSeqs
      <3>1. bytes \in Seq(Unit) /\ Len(bytes) \in Nat /\ n \in Nat /\ n <= Len(bytes)
        BY LenProperties, StreamAssumption DEF BulkInv, BulkTypes
      <3> HIDE DEF n
      <3>2. \A i \in 1 .. n : bytes[i] \in Unit
        BY <3>1, ElementOfSeq
      <3>3. SubSeq(bytes, 1, n) \in Seq(Unit)
        <4>1. 1 \in Int /\ n \in Int
          BY <3>1
        <4> QED  BY <3>2, <4>1, SubSeqProperties
      <3>4. \A u, v \in Seq(Unit) : u \o v \in Seq(Unit)
        BY ConcatProperties
      <3>5. worker.buffer \in Seq(Unit)
        BY FirstUnit
      <3> QED  BY <3>3, <3>4, <3>5 DEF UnitSeqs
    <2> HIDE DEF x
    <2>3. /\ worker' \in WorkerType /\ worker'.stage = "decode" /\ worker'.stopped = worker.stopped
      BY <1>0, <2>1, <2>2 DEF WorkerType, WorkerStages
    <2>4. StreamTypes'
      BY <1>a, <2>1, <2>3 DEF StreamTypes, WorkerType
    <2> QED  BY <2>1, <2>3, <2>4 DEF ThreadPart
  <1>4. CASE ReadTimeout
    <2>1. /\ worker.stage = "read" /\ UNCHANGED <<owner, startT, ready, stats, hand, taken>>
          /\ UNCHANGED <<dev, ring>>
          /\ \/ error' = "device stopped" /\ worker' = [worker EXCEPT !.stage = "ending"]
             \/ error' = error /\ worker' = [worker EXCEPT !.stage = "decode"]
      BY <1>4 DEF ReadTimeout, Quiet, End, Goto, bulkVars
    <2>2. /\ worker' \in WorkerType /\ worker'.stage \in {"ending", "decode"}
          /\ worker'.buffer = worker.buffer /\ worker'.stopped = worker.stopped
      BY <1>0, <2>1 DEF WorkerType, WorkerStages
    <2>3. StreamTypes'
      BY <1>a, <2>1, <2>2 DEF StreamTypes, WorkerType
    <2> QED  BY <2>1, <2>2, <2>3 DEF ThreadPart
  <1>5. CASE Hunt
    <2>1. /\ worker.stage = "decode" /\ UNCHANGED <<owner, startT, error, ready, stats, hand, taken>>
          /\ UNCHANGED <<dev, ring>> /\ worker.buffer # <<>>
          /\ worker' = [worker EXCEPT !.hunting = TRUE, !.buffer = Tail(@)]
      BY <1>5 DEF Hunt, bulkVars, Buffer
    <2>2. /\ worker' \in WorkerType /\ worker'.stage = "decode" /\ worker'.stopped = worker.stopped
      BY <1>0, <2>1 DEF WorkerType, WorkerStages
    <2>3. StreamTypes'
      BY <1>a, <2>1, <2>2 DEF StreamTypes, WorkerType
    <2> QED  BY <2>1, <2>2, <2>3 DEF ThreadPart
  <1>6. CASE SkipStale \/ DecodeRecord
    <2> DEFINE x == SubSeq(worker.buffer, 3, Len(worker.buffer))
               h == stats.resyncs + (IF worker.hunting THEN 1 ELSE 0)
    <2>1. /\ worker.stage = "decode" /\ HasRecord
          /\ UNCHANGED <<dev, ring, owner, startT, error, ready, taken>>
      BY <1>6 DEF SkipStale, DecodeRecord, Received, bulkVars
    <2>2. /\ Len(worker.buffer) >= 2 /\ worker.buffer # <<>> /\ x \in UnitSeqs /\ Rec \in Record
          /\ Buffer[2] \in Unit
      BY <1>0, <2>1 DEF HasRecord, HasHeader, Buffer
    <2>a. /\ h \in Nat /\ stats.stale + 1 \in Nat /\ stats.received + 1 \in Nat
          /\ \A gap \in Nat : stats.gaps + gap \in Nat
      BY <1>b
    <2> HIDE DEF x
    <2>3. \E gap \in Nat :
             \/ /\ worker' = [worker EXCEPT !.buffer = x, !.hunting = FALSE]
                /\ stats' = [stats EXCEPT !.stale = stats.stale + 1, !.resyncs = h]
                /\ hand' = hand
             \/ /\ worker' = [worker EXCEPT !.buffer = x, !.hunting = FALSE, !.stage = "deliver",
                                            !.last = Rec.seq]
                /\ stats' = [stats EXCEPT !.received = stats.received + 1,
                                          !.gaps = stats.gaps + gap, !.resyncs = h]
                /\ hand' = <<[head |-> Rec, body |-> Buffer[2].rec]>>
      <3>1. CASE SkipStale
        <4>1. 0 \in Nat
          OBVIOUS
        <4> QED  BY <3>1, <4>1 DEF SkipStale, x, Buffer
      <3>2. CASE DecodeRecord
        <4>1. PICK gap : gap = IF worker.last = -1 THEN 0
                               ELSE SeqGap(ClockWrap, worker.last, Rec.seq)
          OBVIOUS
        <4>2. worker.last \in Int /\ Rec.seq \in Nat /\ ClockWrap \in Nat \ {0}
          BY <1>0, <2>2, BulkAssumption DEF WorkerType, Record
        <4>3. gap \in Nat
          <5>1. Rec.seq - (worker.last + 1) \in Int
            BY <4>2
          <5>2. (Rec.seq - (worker.last + 1)) % ClockWrap \in Nat
            BY <4>2, <5>1
          <5>3. SeqGap(ClockWrap, worker.last, Rec.seq) \in Nat
            BY <5>2 DEF SeqGap
          <5> QED  BY <4>1, <5>3
        <4> QED  BY <3>2, <4>1, <4>3 DEF DecodeRecord, Received, x, Buffer
      <3> QED  BY <1>6, <3>1, <3>2
    <2>4. PICK item : item = [head |-> Rec, body |-> Buffer[2].rec]
      OBVIOUS
    <2>5. item \in Item
      BY <2>2, <2>4 DEF Item, Unit
    <2>6. <<item>> \in Seq(Item)
      BY <2>5
    <2>7. worker'.stage \in {"decode", "deliver"} /\ worker'.stopped = worker.stopped
          /\ worker' \in WorkerType
      <3>1. Rec.seq \in Int
        BY <2>2 DEF Record
      <3> QED  BY <1>0, <2>1, <2>2, <2>3, <3>1 DEF WorkerType, WorkerStages
    <2>8. stats' \in [received : Nat, gaps : Nat, drops : Nat, resyncs : Nat, stale : Nat]
      <3> HIDE DEF h
      <3>1. PICK gap \in Nat :
               \/ stats' = [stats EXCEPT !.stale = stats.stale + 1, !.resyncs = h]
               \/ stats' = [stats EXCEPT !.received = stats.received + 1,
                                         !.gaps = stats.gaps + gap, !.resyncs = h]
        BY <2>3
      <3>2. PICK g \in Nat : g = stats.gaps + gap
        BY <2>a
      <3> QED  BY <1>a, <2>a, <3>1, <3>2
    <2>9. StreamTypes'
      BY <1>a, <2>1, <2>3, <2>4, <2>6, <2>7, <2>8 DEF StreamTypes, WorkerType
    <2> QED  BY <2>1, <2>7, <2>9 DEF ThreadPart
  <1>7. CASE Queue
    <2>1. /\ worker.stage = "deliver" /\ worker' = [worker EXCEPT !.stage = "notify"]
          /\ ready' = (IF Len(ready) >= Capacity THEN Tail(ready) ELSE ready) \o hand
          /\ stats' = [stats EXCEPT !.drops = @ + (IF Len(ready) >= Capacity THEN 1 ELSE 0)]
          /\ hand' = <<>> /\ UNCHANGED <<dev, ring, owner, startT, error, taken>>
      BY <1>7 DEF Queue, Goto, bulkVars
    <2>2. Len(ready) >= Capacity => ready # <<>>
      <3>1. Capacity \in Nat /\ Capacity > 0 /\ Len(<<>>) = 0
        BY StreamAssumption
      <3> QED  BY <3>1
    <2>3. ready' \in Seq(Item)
      <3>1. \A u, v \in Seq(Item) : u \o v \in Seq(Item)
        BY ConcatProperties
      <3>2. ready # <<>> => Tail(ready) \in Seq(Item)
        BY <1>a, HeadTailProperties
      <3> QED  BY <1>a, <2>1, <2>2, <3>1, <3>2
    <2>4. /\ worker' \in WorkerType /\ worker'.stage = "notify" /\ worker'.stopped = worker.stopped
      BY <1>0, <2>1 DEF WorkerType, WorkerStages
    <2>5. stats' \in [received : Nat, gaps : Nat, drops : Nat, resyncs : Nat, stale : Nat]
      <3> DEFINE d == stats.drops + (IF Len(ready) >= Capacity THEN 1 ELSE 0)
      <3>1. stats' = [stats EXCEPT !.drops = d]
        BY <2>1
      <3>2. d \in Nat
        BY <1>b
      <3> HIDE DEF d
      <3> QED  BY <1>a, <3>1, <3>2
    <2>6. StreamTypes'
      <3>1. <<>> \in Seq(Item)
        OBVIOUS
      <3> QED  BY <1>a, <2>1, <2>3, <2>4, <2>5, <3>1 DEF StreamTypes, WorkerType
    <2> QED  BY <2>1, <2>4, <2>6 DEF ThreadPart
  <1>8. CASE NotifyOne
    <2>1. /\ worker.stage = "notify" /\ worker' = [worker EXCEPT !.stage = "decode"]
          /\ UNCHANGED <<dev, ring, owner, startT, error, ready, stats, hand, taken>>
      BY <1>8 DEF NotifyOne, Goto, bulkVars
    <2>2. /\ worker' \in WorkerType /\ worker'.stage = "decode" /\ worker'.stopped = worker.stopped
      BY <1>0, <2>1 DEF WorkerType, WorkerStages
    <2>3. StreamTypes'
      BY <1>a, <2>1, <2>2 DEF StreamTypes, WorkerType
    <2> QED  BY <2>1, <2>2, <2>3 DEF ThreadPart
  <1>9. CASE PollStatus
    <2>1. /\ worker.stage = "decode" /\ (Buffer = <<>> \/ (HasHeader /\ ~HasRecord))
          /\ UNCHANGED <<dev, ring, owner, startT, error, ready, stats, hand, taken>>
      BY <1>9 DEF PollStatus, bulkVars
    <2>2. PICK stopped \in BOOLEAN : /\ worker' = [worker EXCEPT !.stage = "top", !.stopped = stopped]
                                     /\ stopped => worker.stopped \/ ~dev.running
      <3>1. worker.stopped \in BOOLEAN /\ worker = [worker EXCEPT !.stopped = worker.stopped]
        BY <1>0 DEF WorkerType
      <3>2. (worker.stopped \/ (plugged /\ ~dev.running)) \in BOOLEAN
        OBVIOUS
      <3>3. CASE worker' = [worker EXCEPT !.stage = "top"]
        <4>1. worker' = [worker EXCEPT !.stage = "top", !.stopped = worker.stopped]
          BY <1>0, <3>3 DEF WorkerType
        <4> QED  BY <3>1, <4>1
      <3>4. CASE worker' = [worker EXCEPT !.stage = "top",
                                          !.stopped = @ \/ (plugged /\ ~dev.running)]
        BY <3>2, <3>4
      <3> QED  BY <1>9, <3>3, <3>4 DEF PollStatus
    <2>3. worker.buffer = <<>> \/ (Len(worker.buffer) = 1 /\ worker.buffer[1].part = "head")
      <3>1. CASE worker.buffer # <<>>
        <4>1. HasHeader /\ ~(Len(worker.buffer) >= 2) /\ Len(worker.buffer) >= 1
          BY <1>0, <2>1, <3>1 DEF HasRecord, Buffer
        <4>2. PICK n \in Nat : n = Len(worker.buffer)
          BY <1>0
        <4>3. n >= 1 /\ ~(n >= 2)
          BY <4>1, <4>2
        <4>4. n = 1
          BY <4>3
        <4> QED  BY <1>0, <3>1, <4>1, <4>2, <4>4 DEF HasHeader, Buffer
      <3> QED  BY <3>1
    <2>4. /\ worker' \in WorkerType /\ worker'.stage = "top" /\ worker'.stopped = stopped
          /\ worker'.buffer = worker.buffer
      BY <1>0, <2>2 DEF WorkerType, WorkerStages
    <2>5. StreamTypes'
      BY <1>a, <2>1, <2>4 DEF StreamTypes, WorkerType
    <2>6. stopped => ~dev.running
      <3>1. worker.stage # "gone"
        BY <2>1
      <3>2. worker.stopped => ~dev.running
        BY <3>1, Zenon DEF ThreadPart
      <3> QED  BY <2>2, <3>2, Zenon
    <2>7. ThreadPart'
      BY <2>1, <2>3, <2>4, <2>6 DEF ThreadPart
    <2> QED  BY <2>5, <2>7
  <1>10. CASE WorkerEnds
    <2>1. /\ worker.stage = "ending" /\ worker' = [NewWorker EXCEPT !.stage = "gone", !.last = worker.last]
          /\ UNCHANGED <<dev, ring, owner, startT, error, ready, stats, hand, taken>>
      BY <1>10 DEF WorkerEnds, bulkVars
    <2>2. /\ worker' \in WorkerType /\ worker'.stage = "gone" /\ worker'.buffer = <<>>
      <3>1. worker' = [stage |-> "gone", buffer |-> <<>>, hunting |-> FALSE, stopped |-> FALSE,
                       last |-> worker.last, late |-> FALSE]
        BY <2>1 DEF NewWorker
      <3>2. <<>> \in UnitSeqs /\ worker.last \in Int
        BY <1>0 DEF UnitSeqs, WorkerType
      <3> QED  BY <3>1, <3>2 DEF WorkerType, WorkerStages
    <2>3. StreamTypes'
      BY <1>a, <2>1, <2>2 DEF StreamTypes, WorkerType
    <2> QED  BY <2>1, <2>2, <2>3 DEF ThreadPart
  <1> QED  BY <1>1, <1>2, <1>3, <1>4, <1>5, <1>6, <1>7, <1>8, <1>9, <1>10 DEF WorkerStep

LEMMA ThreadStep ==
    ASSUME BulkInv, StreamTypes, ThreadPart, [Next]_vars
    PROVE  StreamTypes' /\ ThreadPart'
  BY BusKeepsThreads, ReadersKeepThreads, OwnerKeepsThreads, WorkerKeepsThreads DEF Next

-----------------------------------------------------------------------------
(***************************************************************************)
(* Records in segments.                                                    *)
(***************************************************************************)

(* What is laid out stays so if segments are emptied, joined or moved: the *)
(* i-th one now begins where the q[i]-th did; g is f without its first a   *)
(* records, up to where the last segment ends.                             *)
Remapped(f, n, off, a, q, g, st, n2, u, segs) ==
    /\ n \in Nat /\ n2 \in Nat /\ a \in Nat
    /\ off \in [1 .. n + 1 -> Nat] /\ \A i, j \in 1 .. n + 1 : i <= j => off[i] <= off[j]
    /\ q \in [1 .. n2 + 1 -> 1 .. n + 1] /\ \A i, j \in 1 .. n2 + 1 : i <= j => q[i] <= q[j]
    /\ \A i \in 1 .. n2 : Holds(f, off[q[i]], off[q[i + 1]], segs[i]) /\ Len(segs[i]) \in Nat
    /\ off[q[n2 + 1]] = a + Len(g) /\ \A k \in 1 .. Len(g) : g[k] = f[a + k]
    /\ a <= off[q[1]] /\ Leads(g, st, off[q[1]] - a, u)

LEMMA Relaid ==
    ASSUME NEW f, NEW n, NEW off, NEW a, NEW q, NEW g, NEW st, NEW n2, NEW u, NEW segs,
           Len(g) \in Nat, Remapped(f, n, off, a, q, g, st, n2, u, segs)
    PROVE  Lays(g, st, n2, u, segs)
  <1>0. /\ n \in Nat /\ n2 \in Nat /\ a \in Nat /\ Len(g) \in Nat
        /\ off \in [1 .. n + 1 -> Nat] /\ \A i, j \in 1 .. n + 1 : i <= j => off[i] <= off[j]
        /\ q \in [1 .. n2 + 1 -> 1 .. n + 1] /\ \A i, j \in 1 .. n2 + 1 : i <= j => q[i] <= q[j]
        /\ \A i \in 1 .. n2 : Holds(f, off[q[i]], off[q[i + 1]], segs[i]) /\ Len(segs[i]) \in Nat
        /\ off[q[n2 + 1]] = a + Len(g) /\ \A k \in 1 .. Len(g) : g[k] = f[a + k]
        /\ a <= off[q[1]] /\ Leads(g, st, off[q[1]] - a, u)
    BY DEF Remapped
  <1> DEFINE p == [i \in 1 .. n2 + 1 |-> off[q[i]] - a]
  <1>1. ASSUME NEW i \in 1 .. n2 + 1
        PROVE  /\ q[i] \in 1 .. n + 1 /\ off[q[i]] \in Nat /\ a <= off[q[i]]
               /\ off[q[i]] - a \in Nat /\ p[i] = off[q[i]] - a
    <2>1. 1 \in 1 .. n2 + 1 /\ 1 <= i
      BY <1>0
    <2>2. q[1] \in 1 .. n + 1 /\ q[i] \in 1 .. n + 1 /\ q[1] <= q[i]
      BY <1>0, <2>1
    <2>3. off[q[1]] <= off[q[i]] /\ off[q[i]] \in Nat /\ off[q[1]] \in Nat
      BY <1>0, <2>2
    <2>4. a <= off[q[i]]
      BY <1>0, <2>3, SMTT(30)
    <2>5. \A x \in Nat : a <= x => x - a \in Nat
      BY <1>0
    <2> QED  BY <2>2, <2>3, <2>4, <2>5
  <1>2. p \in [1 .. n2 + 1 -> Nat]
    BY <1>1
  <1> HIDE DEF p
  <1>3. 1 \in 1 .. n2 + 1 /\ n2 + 1 \in 1 .. n2 + 1
    BY <1>0
  <1>4. Leads(g, st, p[1], u) /\ p[n2 + 1] = Len(g)
    <2>1. \A x \in Nat : (a + x) - a = x
      BY <1>0
    <2> QED  BY <1>0, <1>1, <1>3, <2>1
  <1>5. ASSUME NEW i \in 1 .. n2 + 1, NEW j \in 1 .. n2 + 1, i <= j
        PROVE  p[i] <= p[j]
    <2>1. q[i] <= q[j] /\ q[i] \in 1 .. n + 1 /\ q[j] \in 1 .. n + 1
      BY <1>0, <1>5
    <2>2. off[q[i]] <= off[q[j]]
      BY <1>0, <2>1
    <2>3. /\ off[q[i]] \in Nat /\ p[i] = off[q[i]] - a
          /\ off[q[j]] \in Nat /\ p[j] = off[q[j]] - a
      BY <1>1
    <2>4. \A x, y \in Nat : x <= y => x - a <= y - a
      BY <1>0
    <2> QED  BY <2>2, <2>3, <2>4
  <1>6. ASSUME NEW i \in 1 .. n2
        PROVE  Holds(g, p[i], p[i + 1], segs[i])
    <2> DEFINE l == Len(segs[i])
               c == off[q[i]]
               d == off[q[i + 1]]
    <2>1. i \in 1 .. n2 + 1 /\ i + 1 \in 1 .. n2 + 1 /\ i + 1 <= n2 + 1
      BY <1>0
    <2>2. l \in Nat /\ d = c + l /\ \A j \in 1 .. l : segs[i][j] = f[c + j]
      BY <1>0 DEF Holds
    <2>3. /\ c \in Nat /\ d \in Nat /\ a <= c /\ p[i] = c - a /\ p[i + 1] = d - a
          /\ p[i] \in Nat
      BY <1>1, <2>1
    <2>4. p[i + 1] <= Len(g) /\ Len(g) \in Nat
      BY <1>2, <1>3, <1>4, <1>5, <2>1
    <2> HIDE DEF l, c, d
    <2>5. p[i + 1] = p[i] + l
      BY <1>0, <2>2, <2>3
    <2>6. ASSUME NEW j \in 1 .. l
          PROVE  segs[i][j] = g[p[i] + j]
      <3>1. p[i] + j \in 1 .. Len(g) /\ a + (p[i] + j) = c + j
        <4>1. PICK x \in Nat : x = p[i]
          BY <2>3
        <4>2. PICK y \in Nat : y = Len(g)
          BY <2>4
        <4>3. /\ x + l <= y /\ x = c - a /\ l \in Nat /\ c \in Nat /\ a \in Nat
          BY <1>0, <2>2, <2>3, <2>4, <2>5, <4>1, <4>2
        <4>4. x + j \in 1 .. y /\ a + (x + j) = c + j
          BY <4>3
        <4> QED  BY <4>1, <4>2, <4>4
      <3>2. g[p[i] + j] = f[a + (p[i] + j)]
        BY <1>0, <3>1
      <3> QED  BY <2>2, <3>1, <3>2
    <2> QED  BY <2>5, <2>6 DEF Holds, l
  <1> QED  BY <1>2, <1>4, <1>5, <1>6 DEF Lays, Laid

(* A record is added at the end of the last segment.                       *)
LEMMA LaysMore ==
    ASSUME NEW f \in Packets, NEW st, NEW n \in Nat \ {0}, NEW u, NEW segs, NEW segs2,
           Lays(f, st, n, u, segs), NEW r \in Record, segs[n] \in Packets,
           \A i \in 1 .. n : Len(segs[i]) \in Nat,
           segs2[n] = Append(segs[n], r), \A i \in 1 .. n - 1 : segs2[i] = segs[i]
    PROVE  Lays(Append(f, r), st, n, u, segs2)
  <1>1. PICK off \in [1 .. n + 1 -> Nat] : Laid(f, st, off, n, u, segs)
    BY DEF Lays
  <1> DEFINE g == Append(f, r)
             p == [off EXCEPT ![n + 1] = Len(f) + 1]
             s == segs[n]
  <1>2. /\ Len(f) \in Nat /\ Len(g) = Len(f) + 1 /\ g[Len(f) + 1] = r
        /\ \A k \in 1 .. Len(f) : g[k] = f[k]
    BY AppendProperties, LenProperties DEF Packets
  <1>3. /\ Len(s) \in Nat /\ Len(segs2[n]) = Len(s) + 1 /\ segs2[n][Len(s) + 1] = r
        /\ \A k \in 1 .. Len(s) : segs2[n][k] = s[k]
    BY AppendProperties, LenProperties DEF Packets
  <1>4. /\ p \in [1 .. n + 1 -> Nat] /\ p[n + 1] = Len(f) + 1
        /\ \A i \in 1 .. n : p[i] = off[i]
    BY <1>2
  <1>5. \A i \in 1 .. n + 1 : off[i] \in Nat /\ off[i] <= Len(f)
    <2>1. off[n + 1] = Len(f) /\ \A i, j \in 1 .. n + 1 : i <= j => off[i] <= off[j]
      BY <1>1 DEF Laid
    <2>2. n + 1 \in 1 .. n + 1 /\ \A i \in 1 .. n + 1 : i <= n + 1
      OBVIOUS
    <2> QED  BY <2>1, <2>2
  <1> HIDE DEF g, p, s
  <1>6. Leads(g, st, p[1], u)
    <2>1. 1 \in 1 .. n /\ 1 \in 1 .. n + 1
      OBVIOUS
    <2>2. p[1] = off[1] /\ off[1] \in Nat /\ off[1] <= Len(f)
      BY <1>4, <1>5, <2>1
    <2>3. Leads(f, st, off[1], u)
      BY <1>1 DEF Laid
    <2>4. \A k \in 1 .. off[1] : g[k] = f[k]
      BY <1>2, <2>2, SMTT(30)
    <2> QED  BY <2>2, <2>3, <2>4 DEF Leads
  <1>7. ASSUME NEW i \in 1 .. n
        PROVE  Holds(g, p[i], p[i + 1], segs2[i])
    <2>1. i \in 1 .. n + 1 /\ i + 1 \in 1 .. n + 1
      OBVIOUS
    <2> DEFINE l == Len(segs[i])
               c == off[i]
    <2>2. off[i + 1] = c + l /\ l \in Nat /\ \A j \in 1 .. l : segs[i][j] = f[c + j]
      BY <1>1 DEF Laid, Holds
    <2>3. c \in Nat /\ p[i] = c /\ c + l <= Len(f)
      BY <1>4, <1>5, <2>1, <2>2
    <2> HIDE DEF l, c
    <2>4. \A j \in 1 .. l : segs[i][j] = g[c + j]
      <3> TAKE j \in 1 .. l
      <3>1. c + j \in 1 .. Len(f)
        BY <1>2, <2>2, <2>3
      <3> QED  BY <1>2, <2>2, <3>1
    <2>5. CASE i = n
      <3>1. l = Len(s) /\ c + l = Len(f) /\ p[i + 1] = Len(f) + 1
        <4>1. off[i + 1] = Len(f)
          BY <1>1, <2>5 DEF Laid
        <4> QED  BY <1>4, <2>2, <2>5, <4>1 DEF l, s
      <3>2. p[i + 1] = p[i] + Len(segs2[i])
        BY <1>2, <1>3, <2>2, <2>3, <2>5, <3>1
      <3>3. ASSUME NEW j \in 1 .. Len(segs2[i])
            PROVE  segs2[i][j] = g[p[i] + j]
        <4>1. CASE j = l + 1
          <5>1. p[i] + j = c + (l + 1) /\ c + (l + 1) = (c + l) + 1
            BY <2>2, <2>3, <4>1
          <5>2. p[i] + j = Len(f) + 1
            BY <3>1, <5>1
          <5> QED  BY <1>2, <1>3, <2>5, <3>1, <4>1, <5>2
        <4>2. CASE j # l + 1
          <5>1. j \in 1 .. l
            BY <1>3, <2>2, <2>5, <3>1, <4>2
          <5> QED  BY <1>3, <2>3, <2>4, <2>5, <3>1, <5>1 DEF s
        <4> QED  BY <4>1, <4>2
      <3> QED  BY <3>2, <3>3 DEF Holds
    <2>6. CASE i # n
      <3>1. i \in 1 .. n - 1 /\ i + 1 \in 1 .. n
        BY <2>6
      <3>2. segs2[i] = segs[i] /\ p[i + 1] = c + l
        BY <1>4, <2>2, <3>1
      <3> QED  BY <2>2, <2>3, <2>4, <3>2 DEF Holds, l
    <2> QED  BY <2>5, <2>6
  <1>8. ASSUME NEW i \in 1 .. n + 1, NEW j \in 1 .. n + 1, i <= j
        PROVE  p[i] <= p[j]
    <2>1. off[i] <= off[j]
      BY <1>1, <1>8 DEF Laid
    <2>2. CASE j = n + 1
      <3>1. p[i] = off[i] \/ i = n + 1
        BY <1>4
      <3> QED  BY <1>2, <1>4, <1>5, <2>2, <3>1
    <2>3. CASE j # n + 1
      <3>1. i \in 1 .. n /\ j \in 1 .. n
        BY <1>8, <2>3
      <3> QED  BY <1>4, <2>1, <3>1
    <2> QED  BY <2>2, <2>3
  <1>9. p[n + 1] = Len(g)
    BY <1>2, <1>4
  <1> QED  BY <1>4, <1>6, <1>7, <1>8, <1>9 DEF Lays, Laid, g

LEMMA LaidFacts ==
    ASSUME NEW f \in Packets, NEW st, NEW n \in Nat, NEW u, NEW segs,
           NEW off \in [1 .. n + 1 -> Nat], Laid(f, st, off, n, u, segs)
    PROVE  /\ Len(f) \in Nat /\ off[n + 1] = Len(f) /\ Leads(f, st, off[1], u)
           /\ \A i \in 1 .. n + 1 : off[i] \in Nat /\ off[i] <= Len(f)
           /\ \A i, j \in 1 .. n + 1 : i <= j => off[i] <= off[j]
           /\ \A i \in 1 .. n : Holds(f, off[i], off[i + 1], segs[i])
  <1>1. Len(f) \in Nat
    BY LenProperties DEF Packets
  <1>2. /\ off[n + 1] = Len(f) /\ Leads(f, st, off[1], u)
        /\ \A i, j \in 1 .. n + 1 : i <= j => off[i] <= off[j]
        /\ \A i \in 1 .. n : Holds(f, off[i], off[i + 1], segs[i])
    BY DEF Laid
  <1>3. n + 1 \in 1 .. n + 1 /\ \A i \in 1 .. n + 1 : i <= n + 1
    OBVIOUS
  <1> QED  BY <1>1, <1>2, <1>3

LEMMA HoldsNone ==
    ASSUME NEW f, NEW x \in Nat
    PROVE  Holds(f, x, x, <<>>)
  <1>1. Len(<<>>) = 0 /\ x = x + 0 /\ \A j \in 1 .. 0 : FALSE
    OBVIOUS
  <1> QED  BY <1>1 DEF Holds

(* An empty segment comes in front of the p-th.                            *)
LEMMA LaysInsert ==
    ASSUME NEW f \in Packets, NEW st, NEW n \in Nat, NEW u, NEW segs, NEW segs2,
           Lays(f, st, n, u, segs), NEW p \in 1 .. n + 1,
           \A i \in 1 .. n : Len(segs[i]) \in Nat,
           \A i \in 1 .. n + 1 : segs2[i] = IF i < p THEN segs[i] ELSE IF i = p THEN <<>>
                                            ELSE segs[i - 1]
    PROVE  Lays(f, st, n + 1, u, segs2)
  <1>1. PICK off \in [1 .. n + 1 -> Nat] : Laid(f, st, off, n, u, segs)
    BY DEF Lays
  <1>2. /\ Len(f) \in Nat /\ off[n + 1] = Len(f) /\ Leads(f, st, off[1], u)
        /\ \A i \in 1 .. n + 1 : off[i] \in Nat
        /\ \A i, j \in 1 .. n + 1 : i <= j => off[i] <= off[j]
        /\ \A i \in 1 .. n : Holds(f, off[i], off[i + 1], segs[i])
    BY <1>1, LaidFacts
  <1> DEFINE q == [i \in 1 .. (n + 1) + 1 |-> IF i <= p THEN i ELSE i - 1]
  <1>3. /\ q \in [1 .. (n + 1) + 1 -> 1 .. n + 1] /\ q[1] = 1 /\ q[(n + 1) + 1] = n + 1
        /\ \A i \in 1 .. (n + 1) + 1 : q[i] = IF i <= p THEN i ELSE i - 1
    OBVIOUS
  <1> HIDE DEF q
  <1>4. ASSUME NEW i \in 1 .. (n + 1) + 1, NEW j \in 1 .. (n + 1) + 1, i <= j
        PROVE  q[i] <= q[j]
    <2>1. q[i] = (IF i <= p THEN i ELSE i - 1) /\ q[j] = (IF j <= p THEN j ELSE j - 1)
      BY <1>3
    <2> QED  BY <1>4, <2>1
  <1>5. ASSUME NEW i \in 1 .. n + 1
        PROVE  /\ Holds(f, off[q[i]], off[q[i + 1]], segs2[i])
               /\ Len(segs2[i]) \in Nat
    <2>1. CASE i < p
      <3>1. /\ i \in 1 .. n /\ i \in 1 .. (n + 1) + 1 /\ i + 1 \in 1 .. (n + 1) + 1
            /\ i <= p /\ i + 1 <= p
        BY <2>1
      <3>2. q[i] = i /\ q[i + 1] = i + 1
        BY <1>3, <3>1
      <3>3. segs2[i] = segs[i]
        BY <2>1
      <3> QED  BY <1>2, <3>1, <3>2, <3>3
    <2>2. CASE i = p
      <3>1. q[i] = i /\ q[i + 1] = i /\ segs2[i] = <<>> /\ Len(<<>>) = 0
        BY <1>3, <2>2
      <3> QED  BY <1>2, <3>1, HoldsNone
    <2>3. CASE i > p
      <3>1. /\ i - 1 \in 1 .. n /\ i \in 1 .. (n + 1) + 1 /\ i + 1 \in 1 .. (n + 1) + 1
            /\ ~(i <= p) /\ ~(i + 1 <= p) /\ (i + 1) - 1 = i /\ (i - 1) + 1 = i
        BY <2>3
      <3>2. q[i] = i - 1 /\ q[i + 1] = i
        BY <1>3, <3>1
      <3>3. segs2[i] = segs[i - 1]
        BY <2>3
      <3>4. Holds(f, off[i - 1], off[(i - 1) + 1], segs[i - 1])
        BY <1>2, <3>1
      <3> QED  BY <3>1, <3>2, <3>3, <3>4
    <2> QED  BY <2>1, <2>2, <2>3
  <1>6. /\ 0 <= off[q[1]] /\ off[q[(n + 1) + 1]] = 0 + Len(f) /\ Leads(f, st, off[q[1]] - 0, u)
        /\ 0 \in Nat /\ \A k \in 1 .. Len(f) : f[k] = f[0 + k]
    <2>1. off[1] \in Nat /\ 0 <= off[1] /\ off[1] - 0 = off[1] /\ 0 + Len(f) = Len(f)
      BY <1>2
    <2>2. \A k \in 1 .. Len(f) : 0 + k = k
      BY <1>2
    <2> QED  BY <1>2, <1>3, <2>1, <2>2
  <1>7. Remapped(f, n, off, 0, q, f, st, n + 1, u, segs2)
    BY <1>2, <1>3, <1>4, <1>5, <1>6 DEF Remapped
  <1> QED  BY <1>2, <1>7, Relaid

(* The segments from the p-th on are emptied, what they held is lost.      *)
Emptied(segs, segs2, n2, p) == \A i \in 1 .. n2 : segs2[i] = IF i < p THEN segs[i] ELSE <<>>

LEMMA LaysCut ==
    ASSUME NEW f \in Packets, NEW st, NEW n \in Nat, NEW n2 \in Nat, NEW u, NEW segs, NEW segs2,
           Lays(f, st, n, u, segs), NEW p \in 1 .. n + 1, p <= n2 + 1,
           \A i \in 1 .. n : Len(segs[i]) \in Nat,
           Emptied(segs, segs2, n2, p)
    PROVE  \E g \in Packets : /\ Lays(g, st, n2, u, segs2) /\ Len(g) <= Len(f)
                              /\ \A k \in 1 .. Len(g) : g[k] = f[k]
  <1>1. PICK off \in [1 .. n + 1 -> Nat] : Laid(f, st, off, n, u, segs)
    BY DEF Lays
  <1>2. /\ Len(f) \in Nat /\ Leads(f, st, off[1], u)
        /\ \A i \in 1 .. n + 1 : off[i] \in Nat /\ off[i] <= Len(f)
        /\ \A i, j \in 1 .. n + 1 : i <= j => off[i] <= off[j]
        /\ \A i \in 1 .. n : Holds(f, off[i], off[i + 1], segs[i])
    BY <1>1, LaidFacts
  <1>0. \A i \in 1 .. n2 : segs2[i] = IF i < p THEN segs[i] ELSE <<>>
    BY DEF Emptied
  <1> DEFINE q == [i \in 1 .. n2 + 1 |-> IF i <= p THEN i ELSE p]
             c == off[p]
             g == SubSeq(f, 1, c)
  <1>3. /\ q \in [1 .. n2 + 1 -> 1 .. n + 1] /\ q[1] = 1 /\ q[n2 + 1] = p
        /\ \A i \in 1 .. n2 + 1 : q[i] = IF i <= p THEN i ELSE p
    OBVIOUS
  <1> HIDE DEF q
  <1>4. ASSUME NEW i \in 1 .. n2 + 1, NEW j \in 1 .. n2 + 1, i <= j
        PROVE  q[i] <= q[j]
    <2>1. q[i] = (IF i <= p THEN i ELSE p) /\ q[j] = (IF j <= p THEN j ELSE p)
      BY <1>3
    <2> QED  BY <1>4, <2>1
  <1>5. ASSUME NEW i \in 1 .. n2
        PROVE  /\ Holds(f, off[q[i]], off[q[i + 1]], segs2[i])
               /\ Len(segs2[i]) \in Nat
    <2>1. CASE i < p
      <3>1. i \in 1 .. n /\ q[i] = i /\ q[i + 1] = i + 1 /\ segs2[i] = segs[i]
        BY <1>0, <1>3, <2>1
      <3> QED  BY <1>2, <3>1
    <2>2. CASE ~(i < p)
      <3>1. q[i] = p /\ q[i + 1] = p /\ segs2[i] = <<>> /\ Len(<<>>) = 0
        BY <1>0, <1>3, <2>2
      <3> QED  BY <1>2, <3>1, HoldsNone
    <2> QED  BY <2>1, <2>2
  <1>6. c \in Nat /\ c <= Len(f)
    BY <1>2
  <1>7. g \in Packets /\ Len(g) = c /\ \A k \in 1 .. c : g[k] = f[k]
    <2>1. \A k \in 1 .. c : f[k] \in Record
      BY <1>2, <1>6, ElementOfSeq DEF Packets
    <2> HIDE DEF c
    <2>2. 1 \in Int /\ c \in Int
      BY <1>6
    <2>3. /\ g \in Seq(Record) /\ Len(g) = (IF 1 <= c THEN c - 1 + 1 ELSE 0)
          /\ \A k \in 1 .. c - 1 + 1 : g[k] = f[1 + k - 1]
      BY <2>1, <2>2, SubSeqProperties
    <2> HIDE DEF g
    <2>4. Len(g) = c /\ \A k \in 1 .. c : g[k] = f[k]
      BY <1>6, <2>3
    <2> QED  BY <2>3, <2>4 DEF Packets
  <1> HIDE DEF g
  <1>8. /\ 0 <= off[q[1]] /\ off[q[n2 + 1]] = 0 + Len(g) /\ Leads(g, st, off[q[1]] - 0, u)
        /\ 0 \in Nat /\ \A k \in 1 .. Len(g) : g[k] = f[0 + k]
    <2>1. 1 \in 1 .. n + 1 /\ 1 <= p
      OBVIOUS
    <2>2. off[1] \in Nat /\ off[1] <= c
      BY <1>2, <2>1
    <2>3. Leads(g, st, off[1], u)
      <3>1. \A k \in 1 .. off[1] : g[k] = f[k]
        BY <1>6, <1>7, <2>2
      <3> QED  BY <1>2, <3>1 DEF Leads
    <2>4. off[1] - 0 = off[1] /\ 0 + c = c /\ 0 <= off[1] /\ \A k \in 1 .. c : 0 + k = k
      BY <1>6, <2>2
    <2> HIDE DEF c
    <2> QED  BY <1>3, <1>7, <2>2, <2>3, <2>4 DEF c
  <1>9. Lays(g, st, n2, u, segs2)
    <2>1. Remapped(f, n, off, 0, q, g, st, n2, u, segs2)
      BY <1>2, <1>3, <1>4, <1>5, <1>8 DEF Remapped
    <2> QED  BY <1>6, <1>7, <2>1, Relaid
  <1> QED  BY <1>6, <1>7, <1>9

(* What the last segment held goes to the empty one before it.             *)
LEMMA LaysMove ==
    ASSUME NEW f \in Packets, NEW st, NEW n \in Nat, n >= 2, NEW u, NEW segs, NEW segs2,
           Lays(f, st, n, u, segs), segs[n - 1] = <<>>,
           \A i \in 1 .. n : Len(segs[i]) \in Nat,
           \A i \in 1 .. n : segs2[i] = IF i < n - 1 THEN segs[i]
                                        ELSE IF i = n - 1 THEN segs[n] ELSE <<>>
    PROVE  Lays(f, st, n, u, segs2)
  <1>1. PICK off \in [1 .. n + 1 -> Nat] : Laid(f, st, off, n, u, segs)
    BY DEF Lays
  <1>2. /\ Len(f) \in Nat /\ off[n + 1] = Len(f) /\ Leads(f, st, off[1], u)
        /\ \A i \in 1 .. n + 1 : off[i] \in Nat
        /\ \A i, j \in 1 .. n + 1 : i <= j => off[i] <= off[j]
        /\ \A i \in 1 .. n : Holds(f, off[i], off[i + 1], segs[i])
    BY <1>1, LaidFacts
  <1> DEFINE q == [i \in 1 .. n + 1 |-> IF i = n THEN n + 1 ELSE i]
  <1>3. /\ q \in [1 .. n + 1 -> 1 .. n + 1] /\ q[1] = 1 /\ q[n + 1] = n + 1
        /\ \A i \in 1 .. n + 1 : q[i] = IF i = n THEN n + 1 ELSE i
    OBVIOUS
  <1> HIDE DEF q
  <1>4. ASSUME NEW i \in 1 .. n + 1, NEW j \in 1 .. n + 1, i <= j
        PROVE  q[i] <= q[j]
    <2>1. q[i] = (IF i = n THEN n + 1 ELSE i) /\ q[j] = (IF j = n THEN n + 1 ELSE j)
      BY <1>3
    <2> QED  BY <1>4, <2>1
  <1>5. ASSUME NEW i \in 1 .. n
        PROVE  /\ Holds(f, off[q[i]], off[q[i + 1]], segs2[i])
               /\ Len(segs2[i]) \in Nat
    <2>1. CASE i < n - 1
      <3>1. i \in 1 .. n /\ q[i] = i /\ q[i + 1] = i + 1 /\ segs2[i] = segs[i]
        BY <1>3, <2>1
      <3> QED  BY <1>2, <3>1
    <2>2. CASE i = n - 1
      <3>1. q[i] = n - 1 /\ q[i + 1] = n + 1 /\ segs2[i] = segs[n]
            /\ n \in 1 .. n /\ n - 1 \in 1 .. n /\ (n - 1) + 1 = n
        BY <1>3, <2>2
      <3>2. off[n] = off[n - 1]
        <4>1. Holds(f, off[n - 1], off[n], <<>>) /\ off[n - 1] \in Nat
          BY <1>2, <3>1, SMTT(30)
        <4>2. Len(<<>>) = 0
          OBVIOUS
        <4> QED  BY <4>1, <4>2 DEF Holds
      <3>3. Holds(f, off[n], off[n + 1], segs[n])
        BY <1>2, <3>1
      <3> QED  BY <3>1, <3>2, <3>3
    <2>3. CASE i = n
      <3>1. q[i] = n + 1 /\ q[i + 1] = n + 1 /\ segs2[i] = <<>> /\ Len(<<>>) = 0
        BY <1>3, <2>3
      <3> QED  BY <1>2, <3>1, HoldsNone
    <2>4. i < n - 1 \/ i = n - 1 \/ i = n
      OBVIOUS
    <2> QED  BY <2>1, <2>2, <2>3, <2>4
  <1>6. /\ 0 <= off[q[1]] /\ off[q[n + 1]] = 0 + Len(f) /\ Leads(f, st, off[q[1]] - 0, u)
        /\ 0 \in Nat /\ \A k \in 1 .. Len(f) : f[k] = f[0 + k]
    <2>1. off[1] \in Nat /\ 0 <= off[1] /\ off[1] - 0 = off[1] /\ 0 + Len(f) = Len(f)
      BY <1>2
    <2>2. \A k \in 1 .. Len(f) : 0 + k = k
      BY <1>2
    <2> QED  BY <1>2, <1>3, <2>1, <2>2
  <1>7. Remapped(f, n, off, 0, q, f, st, n, u, segs2)
    BY <1>2, <1>3, <1>4, <1>5, <1>6 DEF Remapped
  <1> QED  BY <1>2, <1>7, Relaid

(* The first segment is empty and goes, or goes into the host's buffer.    *)
LEMMA LaysFirst ==
    ASSUME NEW f \in Packets, NEW st \in Nat, NEW n \in Nat \ {0}, NEW u \in Seq(Unit), NEW segs,
           NEW u2, NEW segs2, Lays(f, st, n, u, segs), segs[1] \in Packets,
           \A i \in 1 .. n : Len(segs[i]) \in Nat,
           \A i \in 1 .. n - 1 : segs2[i] = segs[i + 1],
           u2 = u \o OnTheWire(segs[1]) \/ (segs[1] = <<>> /\ u2 = u)
    PROVE  Lays(f, st, n - 1, u2, segs2)
  <1>1. PICK off \in [1 .. n + 1 -> Nat] : Laid(f, st, off, n, u, segs)
    BY DEF Lays
  <1>2. /\ Len(f) \in Nat /\ off[n + 1] = Len(f) /\ Leads(f, st, off[1], u)
        /\ \A i \in 1 .. n + 1 : off[i] \in Nat
        /\ \A i, j \in 1 .. n + 1 : i <= j => off[i] <= off[j]
        /\ \A i \in 1 .. n : Holds(f, off[i], off[i + 1], segs[i])
    BY <1>1, LaidFacts
  <1> DEFINE q == [i \in 1 .. (n - 1) + 1 |-> i + 1]
  <1>3. /\ q \in [1 .. (n - 1) + 1 -> 1 .. n + 1] /\ q[1] = 2 /\ q[(n - 1) + 1] = n + 1
        /\ \A i \in 1 .. (n - 1) + 1 : q[i] = i + 1
    OBVIOUS
  <1> HIDE DEF q
  <1>4. \A i, j \in 1 .. (n - 1) + 1 : i <= j => q[i] <= q[j]
    BY <1>3
  <1>5. ASSUME NEW i \in 1 .. n - 1
        PROVE  /\ Holds(f, off[q[i]], off[q[i + 1]], segs2[i])
               /\ Len(segs2[i]) \in Nat
    <2>1. /\ i + 1 \in 1 .. n /\ i \in 1 .. (n - 1) + 1 /\ i + 1 \in 1 .. (n - 1) + 1
      OBVIOUS
    <2>2. q[i] = i + 1 /\ q[i + 1] = (i + 1) + 1 /\ segs2[i] = segs[i + 1]
      BY <1>3, <2>1
    <2> QED  BY <1>2, <2>1, <2>2
  <1>6. Leads(f, st, off[2], u2)
    <2> DEFINE s == segs[1]
               w == OnTheWire(s)
    <2>1. PICK l \in Nat : l = Len(s)
      BY LenProperties DEF Packets
    <2>2. PICK m \in Nat : m = off[1]
      <3>1. 1 \in 1 .. n + 1
        OBVIOUS
      <3> QED  BY <1>2, <3>1
    <2>3. off[2] = m + l /\ \A j \in 1 .. l : s[j] = f[m + j]
      <3>1. 1 \in 1 .. n /\ 1 + 1 = 2
        OBVIOUS
      <3>2. Holds(f, off[1], off[2], s)
        BY <1>2, <3>1
      <3> QED  BY <2>1, <2>2, <3>2 DEF Holds
    <2>4. /\ Len(u) = st + 2 * m /\ \A i \in 1 .. st : u[i].part = "body"
          /\ \A k \in 1 .. m : /\ u[st + 2 * k - 1] = [part |-> "head", rec |-> f[k]]
                               /\ u[st + 2 * k] = [part |-> "body", rec |-> f[k]]
      BY <1>2, <2>2 DEF Leads
    <2>5. CASE segs[1] = <<>> /\ u2 = u
      <3>1. l = 0 /\ m + 0 = m
        BY <2>1, <2>5
      <3> QED  BY <1>2, <2>2, <2>3, <2>5, <3>1
    <2>6. CASE u2 = u \o w
      <3>1. /\ w \in Seq(Unit) /\ Len(w) = 2 * l
            /\ \A k \in 1 .. l : /\ w[2 * k - 1] = [part |-> "head", rec |-> s[k]]
                                 /\ w[2 * k] = [part |-> "body", rec |-> s[k]]
        BY <2>1, WireUnits
      <3> HIDE DEF w, s
      <3>2. /\ Len(u2) = Len(u) + Len(w)
            /\ \A i \in 1 .. Len(u) + Len(w) : u2[i] = IF i <= Len(u) THEN u[i] ELSE w[i - Len(u)]
        BY <2>6, <3>1, ConcatProperties, ZenonT(30)
      <3>3. /\ Len(u2) = st + 2 * (m + l)
            /\ \A i \in 1 .. st + 2 * m : u2[i] = u[i]
            /\ \A i \in 1 .. 2 * l : u2[st + 2 * m + i] = w[i]
        <4>1. PICK x \in Nat : x = st + 2 * m
          OBVIOUS
        <4>2. PICK y \in Nat : y = 2 * l
          OBVIOUS
        <4>3. Len(u2) = x + y /\ \A i \in 1 .. x + y : u2[i] = IF i <= x THEN u[i] ELSE w[i - x]
          BY <2>4, <3>1, <3>2, <4>1, <4>2
        <4>4. x + y = st + 2 * (m + l)
          BY <4>1, <4>2
        <4>5. ASSUME NEW i \in 1 .. x
              PROVE  u2[i] = u[i]
          <5>1. i \in 1 .. x + y /\ i <= x
            OBVIOUS
          <5> QED  BY <4>3, <5>1
        <4>6. ASSUME NEW i \in 1 .. y
              PROVE  u2[x + i] = w[i]
          <5>1. x + i \in 1 .. x + y /\ ~(x + i <= x) /\ (x + i) - x = i
            OBVIOUS
          <5> QED  BY <4>3, <5>1
        <4> QED  BY <4>1, <4>2, <4>3, <4>4, <4>5, <4>6
      <3>4. \A i \in 1 .. st : u2[i].part = "body"
        <4>1. \A i \in 1 .. st : i \in 1 .. st + 2 * m
          OBVIOUS
        <4> QED  BY <2>4, <3>3, <4>1
      <3>5. ASSUME NEW k \in 1 .. m + l
            PROVE  /\ u2[st + 2 * k - 1] = [part |-> "head", rec |-> f[k]]
                   /\ u2[st + 2 * k] = [part |-> "body", rec |-> f[k]]
        <4>1. CASE k <= m
          <5>1. k \in 1 .. m /\ st + 2 * k - 1 \in 1 .. st + 2 * m /\ st + 2 * k \in 1 .. st + 2 * m
            BY <4>1
          <5> QED  BY <2>4, <3>3, <5>1
        <4>2. CASE ~(k <= m)
          <5>1. PICK j \in 1 .. l : k = m + j
            <6>1. k - m \in 1 .. l /\ k = m + (k - m)
              BY <4>2
            <6> QED  BY <6>1
          <5>2. /\ 2 * j - 1 \in 1 .. 2 * l /\ 2 * j \in 1 .. 2 * l
                /\ st + 2 * k - 1 = st + 2 * m + (2 * j - 1) /\ st + 2 * k = st + 2 * m + 2 * j
            BY <5>1
          <5>3. s[j] = f[k]
            BY <2>3, <5>1
          <5>4. /\ u2[st + 2 * m + (2 * j - 1)] = w[2 * j - 1]
                /\ u2[st + 2 * m + 2 * j] = w[2 * j]
            BY <3>3, <5>2
          <5>5. /\ w[2 * j - 1] = [part |-> "head", rec |-> f[k]]
                /\ w[2 * j] = [part |-> "body", rec |-> f[k]]
            BY <3>1, <5>3
          <5> QED  BY <5>2, <5>4, <5>5
        <4> QED  BY <4>1, <4>2
      <3> QED  BY <2>3, <3>3, <3>4, <3>5 DEF Leads
    <2> QED  BY <2>5, <2>6
  <1>7. /\ 0 <= off[q[1]] /\ off[q[(n - 1) + 1]] = 0 + Len(f) /\ Leads(f, st, off[q[1]] - 0, u2)
        /\ 0 \in Nat /\ \A k \in 1 .. Len(f) : f[k] = f[0 + k]
    <2>1. 2 \in 1 .. n + 1
      OBVIOUS
    <2>2. off[2] \in Nat /\ 0 <= off[2] /\ off[2] - 0 = off[2] /\ 0 + Len(f) = Len(f)
      BY <1>2, <2>1
    <2>3. \A k \in 1 .. Len(f) : 0 + k = k
      BY <1>2
    <2> QED  BY <1>2, <1>3, <1>6, <2>2, <2>3
  <1>8. n - 1 \in Nat
    OBVIOUS
  <1>9. Remapped(f, n, off, 0, q, f, st, n - 1, u2, segs2)
    BY <1>2, <1>3, <1>4, <1>5, <1>7, <1>8 DEF Remapped
  <1> QED  BY <1>2, <1>9, Relaid

(* What is in front: half a record, a whole one, or nothing.               *)
LEMMA FrontUnit ==
    ASSUME NEW f \in Packets, NEW st \in Nat, NEW n \in Nat, NEW u, NEW segs,
           Lays(f, st, n, u, segs), Len(u) >= 1
    PROVE  /\ u[1].part = "head" => /\ st = 0 /\ Len(u) >= 2 /\ Len(f) >= 1
                                    /\ u[1] = [part |-> "head", rec |-> f[1]]
                                    /\ u[2] = [part |-> "body", rec |-> f[1]]
           /\ u[1].part # "head" => st >= 1
  <1>1. PICK off \in [1 .. n + 1 -> Nat] : Laid(f, st, off, n, u, segs)
    BY DEF Lays
  <1>2. Len(f) \in Nat /\ Leads(f, st, off[1], u) /\ off[1] \in Nat /\ off[1] <= Len(f)
    <2>1. 1 \in 1 .. n + 1
      OBVIOUS
    <2> QED  BY <1>1, <2>1, LaidFacts
  <1>3. PICK m \in Nat : m = off[1]
    BY <1>2
  <1>4. /\ Len(u) = st + 2 * m /\ \A i \in 1 .. st : u[i].part = "body"
        /\ \A k \in 1 .. m : /\ u[st + 2 * k - 1] = [part |-> "head", rec |-> f[k]]
                             /\ u[st + 2 * k] = [part |-> "body", rec |-> f[k]]
    BY <1>2, <1>3 DEF Leads
  <1>5. CASE st = 0
    <2>1. m >= 1 /\ 1 \in 1 .. m /\ st + 2 * 1 - 1 = 1 /\ st + 2 * 1 = 2 /\ st + 2 * m >= 2
      <3>1. 0 + 2 * m >= 1
        BY <1>4, <1>5
      <3>2. m >= 1
        BY <3>1
      <3> QED  BY <1>5, <3>2
    <2>2. u[1] = [part |-> "head", rec |-> f[1]] /\ u[2] = [part |-> "body", rec |-> f[1]]
      BY <1>4, <2>1
    <2>3. Len(u) >= 2 /\ Len(f) >= 1
      BY <1>2, <1>3, <1>4, <2>1
    <2> QED  BY <1>5, <2>2, <2>3
  <1>6. CASE st # 0
    <2>1. st >= 1 /\ 1 \in 1 .. st
      BY <1>6
    <2>2. u[1].part = "body"
      BY <1>4, <2>1
    <2> QED  BY <2>1, <2>2
  <1> QED  BY <1>5, <1>6

LEMMA NoneLeft ==
    ASSUME NEW f \in Packets, NEW st \in Nat, NEW u, NEW segs,
           Lays(f, st, 2, u, segs), Len(u) = 0, segs[1] = <<>>, segs[2] = <<>>
    PROVE  Len(f) = 0
  <1>1. PICK off \in [1 .. 2 + 1 -> Nat] : Laid(f, st, off, 2, u, segs)
    BY DEF Lays
  <1>2. /\ off[1] \in Nat /\ off[3] = Len(f) /\ Leads(f, st, off[1], u)
        /\ Holds(f, off[1], off[2], <<>>) /\ Holds(f, off[2], off[3], <<>>)
    <2>1. /\ 1 \in 1 .. 2 /\ 2 \in 1 .. 2 /\ 1 \in 1 .. 2 + 1 /\ 1 + 1 = 2 /\ 2 + 1 = 3 /\ 2 \in Nat
      OBVIOUS
    <2> QED  BY <1>1, <2>1 DEF Laid
  <1>3. off[1] = 0
    <2>1. 0 = st + 2 * off[1]
      BY <1>2 DEF Leads
    <2> QED  BY <1>2, <2>1
  <1>4. Len(<<>>) = 0
    OBVIOUS
  <1>5. off[2] = 0 + 0 /\ off[3] = off[2] + 0
    BY <1>2, <1>3, <1>4 DEF Holds
  <1> QED  BY <1>2, <1>5

(* The worker drops half a record it cannot use.                           *)
LEMMA LaysBody ==
    ASSUME NEW f \in Packets, NEW st \in Nat, NEW n \in Nat, NEW u, NEW segs, NEW u2,
           Lays(f, st, n, u, segs), st >= 1,
           Len(u2) = Len(u) - 1, \A i \in 1 .. Len(u) - 1 : u2[i] = u[i + 1]
    PROVE  Lays(f, st - 1, n, u2, segs)
  <1>1. PICK off \in [1 .. n + 1 -> Nat] : Laid(f, st, off, n, u, segs)
    BY DEF Lays
  <1>2. PICK m \in Nat : m = off[1] /\ Leads(f, st, m, u)
    <2>1. 1 \in 1 .. n + 1
      OBVIOUS
    <2> QED  BY <1>1, <2>1 DEF Laid
  <1>3. /\ Len(u) = st + 2 * m /\ \A i \in 1 .. st : u[i].part = "body"
        /\ \A k \in 1 .. m : /\ u[st + 2 * k - 1] = [part |-> "head", rec |-> f[k]]
                             /\ u[st + 2 * k] = [part |-> "body", rec |-> f[k]]
    BY <1>2 DEF Leads
  <1>4. Len(u2) = (st - 1) + 2 * m /\ \A i \in 1 .. (st - 1) + 2 * m : u2[i] = u[i + 1]
    <2>1. Len(u) - 1 = (st - 1) + 2 * m
      BY <1>3
    <2> QED  BY <2>1
  <1>5. \A i \in 1 .. st - 1 : u2[i].part = "body"
    <2>1. \A i \in 1 .. st - 1 : i \in 1 .. (st - 1) + 2 * m /\ i + 1 \in 1 .. st
      OBVIOUS
    <2> QED  BY <1>3, <1>4, <2>1
  <1>6. ASSUME NEW k \in 1 .. m
        PROVE  /\ u2[(st - 1) + 2 * k - 1] = [part |-> "head", rec |-> f[k]]
               /\ u2[(st - 1) + 2 * k] = [part |-> "body", rec |-> f[k]]
    <2>1. /\ (st - 1) + 2 * k - 1 \in 1 .. (st - 1) + 2 * m
          /\ (st - 1) + 2 * k \in 1 .. (st - 1) + 2 * m
          /\ ((st - 1) + 2 * k - 1) + 1 = st + 2 * k - 1 /\ ((st - 1) + 2 * k) + 1 = st + 2 * k
      OBVIOUS
    <2> QED  BY <1>3, <1>4, <2>1
  <1>7. Leads(f, st - 1, off[1], u2)
    BY <1>2, <1>4, <1>5, <1>6 DEF Leads
  <1>8. Laid(f, st - 1, off, n, u2, segs)
    BY <1>1, <1>7 DEF Laid
  <1> QED  BY <1>8 DEF Lays

(* u2 is u without its first c units.                                      *)
Shifted(u, u2, c) == Len(u2) = Len(u) - c /\ \A i \in 1 .. Len(u2) : u2[i] = u[i + c]

(* The worker takes the first record, or drops its header.                 *)
LEMMA LaysRecord ==
    ASSUME NEW f \in Packets, NEW n \in Nat, NEW u, NEW segs, NEW u2, NEW rest \in {0, 1},
           NEW c, c = 2 - rest, Shifted(u, u2, c),
           Lays(f, 0, n, u, segs), Len(u) \in Nat, Len(u) >= 1,
           \A i \in 1 .. n : Len(segs[i]) \in Nat
    PROVE  \E g \in Packets : /\ Lays(g, rest, n, u2, segs) /\ Len(g) = Len(f) - 1
                              /\ \A k \in 1 .. Len(g) : g[k] = f[1 + k]
  <1>0. Len(u2) = Len(u) - 2 + rest /\ \A i \in 1 .. Len(u2) : u2[i] = u[i + 2 - rest]
    <2>1. \A x \in Nat : x - c = x - 2 + rest
      OBVIOUS
    <2>2. \A i \in Int : i + c = i + 2 - rest
      OBVIOUS
    <2>3. Len(u2) = Len(u) - 2 + rest
      BY <2>1 DEF Shifted
    <2>4. \A i \in 1 .. Len(u2) : i \in Int
      OBVIOUS
    <2> QED  BY <2>2, <2>3, <2>4 DEF Shifted
  <1>1. PICK off \in [1 .. n + 1 -> Nat] : Laid(f, 0, off, n, u, segs)
    BY DEF Lays
  <1>2. /\ Len(f) \in Nat /\ off[n + 1] = Len(f) /\ Leads(f, 0, off[1], u)
        /\ \A i \in 1 .. n + 1 : off[i] \in Nat /\ off[i] <= Len(f)
        /\ \A i, j \in 1 .. n + 1 : i <= j => off[i] <= off[j]
        /\ \A i \in 1 .. n : Holds(f, off[i], off[i + 1], segs[i])
    BY <1>1, LaidFacts
  <1>3. PICK m \in Nat : m = off[1] /\ m <= Len(f)
    <2>1. 1 \in 1 .. n + 1
      OBVIOUS
    <2> QED  BY <1>2, <2>1
  <1>4. /\ Len(u) = 0 + 2 * m
        /\ \A k \in 1 .. m : /\ u[0 + 2 * k - 1] = [part |-> "head", rec |-> f[k]]
                             /\ u[0 + 2 * k] = [part |-> "body", rec |-> f[k]]
    BY <1>2, <1>3 DEF Leads
  <1>5. m >= 1 /\ Len(f) >= 1
    <2>1. 2 * m >= 1
      BY <1>4
    <2>2. m >= 1
      BY <2>1
    <2> QED  BY <1>2, <1>3, <2>2
  <1> DEFINE g == Tail(f)
             q == [i \in 1 .. n + 1 |-> i]
  <1>6. g \in Packets /\ Len(g) = Len(f) - 1 /\ \A k \in 1 .. Len(g) : g[k] = f[1 + k]
    <2>1. f \in Seq(Record) /\ f # <<>>
      <3>1. Len(<<>>) = 0
        OBVIOUS
      <3>2. f # <<>>
        BY <1>5, <3>1
      <3> QED  BY <3>2 DEF Packets
    <2>2. /\ g \in Seq(Record) /\ Len(g) = Len(f) - 1 /\ \A k \in 1 .. Len(g) : g[k] = f[k + 1]
      BY <2>1, HeadTailProperties
    <2>3. \A k \in 1 .. Len(g) : k + 1 = 1 + k
      OBVIOUS
    <2> HIDE DEF g
    <2> QED  BY <2>2, <2>3 DEF Packets
  <1> HIDE DEF g
  <1>7. /\ q \in [1 .. n + 1 -> 1 .. n + 1] /\ q[1] = 1 /\ q[n + 1] = n + 1
        /\ \A i \in 1 .. n + 1 : q[i] = i
    OBVIOUS
  <1> HIDE DEF q
  <1>8. \A i, j \in 1 .. n + 1 : i <= j => q[i] <= q[j]
    BY <1>7
  <1>9. \A i \in 1 .. n : Holds(f, off[q[i]], off[q[i + 1]], segs[i])
    <2>1. \A i \in 1 .. n : i \in 1 .. n + 1 /\ i + 1 \in 1 .. n + 1
      OBVIOUS
    <2> QED  BY <1>2, <1>7, <2>1
  <1>10. Leads(g, rest, m - 1, u2)
    <2>1. PICK x \in Nat : x = m - 1
      BY <1>5
    <2>2. Len(u2) = rest + 2 * x
      <3>1. Len(u2) = 0 + 2 * m - 2 + rest
        BY <1>0, <1>4
      <3>2. 0 + 2 * m - 2 + rest = rest + 2 * x
        BY <2>1
      <3> QED  BY <3>1, <3>2
    <2>3. \A i \in 1 .. rest : u2[i].part = "body"
      <3>1. CASE rest = 1
        <4>1. /\ 1 \in 1 .. Len(u2) /\ 1 + 2 - rest = 2 /\ 1 \in 1 .. m /\ 0 + 2 * 1 = 2
              /\ \A i \in 1 .. rest : i = 1
          BY <1>5, <2>2, <3>1
        <4>2. u2[1] = u[2] /\ u[2] = [part |-> "body", rec |-> f[1]]
          BY <1>0, <1>4, <4>1
        <4> QED  BY <4>1, <4>2
      <3>2. CASE rest = 0
        BY <3>2
      <3> QED  BY <3>1, <3>2
    <2>4. ASSUME NEW k \in 1 .. x
          PROVE  /\ u2[rest + 2 * k - 1] = [part |-> "head", rec |-> g[k]]
                 /\ u2[rest + 2 * k] = [part |-> "body", rec |-> g[k]]
      <3>1. /\ rest + 2 * k - 1 \in 1 .. rest + 2 * x /\ rest + 2 * k \in 1 .. rest + 2 * x
            /\ (rest + 2 * k - 1) + 2 - rest = 0 + 2 * (1 + k) - 1
            /\ (rest + 2 * k) + 2 - rest = 0 + 2 * (1 + k)
            /\ 1 + k \in 1 .. m
        BY <2>1
      <3>2. g[k] = f[1 + k]
        <4>1. k \in 1 .. Len(g)
          BY <1>2, <1>3, <1>6, <2>1
        <4> QED  BY <1>6, <4>1
      <3>3. u2[rest + 2 * k - 1] = u[0 + 2 * (1 + k) - 1] /\ u2[rest + 2 * k] = u[0 + 2 * (1 + k)]
        BY <1>0, <2>2, <3>1
      <3> QED  BY <1>4, <3>1, <3>2, <3>3
    <2> QED  BY <2>1, <2>2, <2>3, <2>4 DEF Leads
  <1>11. 1 <= off[q[1]] /\ Leads(g, rest, off[q[1]] - 1, u2) /\ off[q[n + 1]] = 1 + Len(g)
    <2>1. 1 + (Len(f) - 1) = Len(f)
      BY <1>2
    <2> QED  BY <1>2, <1>3, <1>5, <1>6, <1>7, <1>10, <2>1
  <1>12. Remapped(f, n, off, 1, q, g, rest, n, u2, segs) /\ Len(g) \in Nat
    BY <1>2, <1>5, <1>6, <1>7, <1>8, <1>9, <1>11, SMTT(30) DEF Remapped
  <1> QED  BY <1>6, <1>12, Relaid

-----------------------------------------------------------------------------
(***************************************************************************)
(* What is on its way, step by step.                                       *)
(***************************************************************************)

LEMMA SegmentValues ==
    ASSUME NEW ends \in Seq(Ending), NEW armed \in Packets, NEW packet \in Packets,
           NEW segs, segs = SegmentsOf(ends, armed, packet)
    PROVE  /\ Len(ends) \in Nat
           /\ \A i \in 1 .. Len(ends) : segs[i] = ends[i].data
           /\ segs[Len(ends) + 1] = armed /\ segs[Len(ends) + 2] = packet
           /\ \A i \in 1 .. Len(ends) + 2 : segs[i] \in Packets /\ Len(segs[i]) \in Nat
  <1>1. Len(ends) \in Nat /\ \A i \in 1 .. Len(ends) : ends[i].data \in Packets
    <2>1. \A i \in 1 .. Len(ends) : ends[i] \in Ending
      BY ElementOfSeq
    <2> QED  BY <2>1, LenProperties DEF Ending
  <1>2. PICK n \in Nat : n = Len(ends)
    BY <1>1
  <1>3. \A i \in 1 .. n + 2 : segs[i] = IF i <= n THEN ends[i].data
                                        ELSE IF i = n + 1 THEN armed ELSE packet
    BY <1>2 DEF SegmentsOf
  <1>4. \A i \in 1 .. n : segs[i] = ends[i].data
    <2>1. \A i \in 1 .. n : i \in 1 .. n + 2 /\ i <= n
      OBVIOUS
    <2> QED  BY <1>3, <2>1
  <1>5. segs[n + 1] = armed /\ segs[n + 2] = packet
    <2>1. /\ n + 1 \in 1 .. n + 2 /\ ~(n + 1 <= n)
          /\ n + 2 \in 1 .. n + 2 /\ ~(n + 2 <= n) /\ n + 2 # n + 1
      OBVIOUS
    <2> QED  BY <1>3, <2>1
  <1>6. ASSUME NEW i \in 1 .. n + 2
        PROVE  segs[i] \in Packets /\ Len(segs[i]) \in Nat
    <2>1. i \in 1 .. n \/ i = n + 1 \/ i = n + 2
      OBVIOUS
    <2>2. segs[i] \in Packets
      BY <1>1, <1>2, <1>4, <1>5, <2>1
    <2> QED  BY <2>2, LenProperties DEF Packets
  <1> QED  BY <1>2, <1>4, <1>5, <1>6

LEMMA WireTypes ==
    ASSUME BulkTypes, StreamTypes
    PROVE  /\ Stream \in Seq(Unit) /\ worker.buffer \in Seq(Unit) /\ bytes \in Seq(Unit)
           /\ done \in Seq(Ending) /\ tx.armed \in Packets /\ Pending \in Packets
           /\ Len(done) \in Nat /\ Len(Stream) \in Nat
           /\ dev.stream \in Nat /\ dev.seq \in Nat /\ dev.clock \in Nat
  <1>1. worker.buffer \in Seq(Unit) /\ bytes \in Seq(Unit)
    BY DEF BulkTypes, StreamTypes, UnitSeqs
  <1>2. Stream \in Seq(Unit)
    BY <1>1, ConcatProperties DEF Stream
  <1>3. <<>> \in Packets
    BY DEF Packets
  <1>4. done \in Seq(Ending) /\ tx.armed \in Packets /\ Pending \in Packets
    BY <1>3 DEF BulkTypes, Pending
  <1>5. dev.stream \in Nat /\ dev.seq \in Nat /\ dev.clock \in Nat
    BY DEF BulkTypes
  <1> QED  BY <1>1, <1>2, <1>4, <1>5, LenProperties

(* A part of what was on its way, with the device and the start unchanged. *)
Window(f, g, a) ==
    /\ a \in Nat /\ Len(f) \in Nat /\ Len(g) \in Nat /\ a + Len(g) <= Len(f)
    /\ \A k \in 1 .. Len(g) : g[k] = f[a + k]
SameClock == /\ dev'.stream = dev.stream /\ dev'.seq = dev.seq /\ dev'.dropped = dev.dropped
             /\ dev'.clock = dev.clock /\ startT' = startT

LEMMA WindowWhole ==
    ASSUME NEW f \in Packets
    PROVE  Window(f, f, 0)
  <1>1. Len(f) \in Nat /\ 0 \in Nat
    BY LenProperties DEF Packets
  <1>2. 0 + Len(f) <= Len(f) /\ \A k \in 1 .. Len(f) : 0 + k = k
    BY <1>1
  <1> QED  BY <1>1, <1>2 DEF Window

LEMMA FlowFrom ==
    ASSUME NEW b, NEW f \in Packets, NEW g \in Packets, NEW a, NEW st \in Nat, NEW start \in Nat,
           Window(f, g, a), Ordered(f), Timed(f, start, b), SameClock,
           \A k \in 1 .. Len(g) : Current(g[k]) => worker'.last < g[k].seq,
           Lays(g, st, Len(done') + 2, Stream', Segments'), Covered(g)'
    PROVE  FlowInv(b)'
  <1>1. \A k \in 1 .. Len(g) : a + k \in 1 .. Len(f) /\ g[k] = f[a + k]
    BY DEF Window
  <1>2. \A j, k \in 1 .. Len(g) : j < k => a + j < a + k
    BY DEF Window
  <1>3. Ordered(g)'
    <2> SUFFICES ASSUME NEW k \in 1 .. Len(g)
                 PROVE  /\ g[k].stream <= dev'.stream
                        /\ g[k].stream = dev'.stream =>
                              /\ worker'.last < g[k].seq /\ g[k].seq < dev'.seq
                              /\ g[k].seq \notin dev'.dropped
                              /\ \A j \in 1 .. Len(g) :
                                    j < k /\ g[j].stream = dev'.stream => g[j].seq < g[k].seq
      BY DEF Ordered, Current
    <2>1. a + k \in 1 .. Len(f) /\ g[k] = f[a + k]
      BY <1>1
    <2>2. /\ g[k].stream <= dev.stream
          /\ g[k].stream = dev.stream =>
                /\ g[k].seq < dev.seq /\ g[k].seq \notin dev.dropped
                /\ \A j \in 1 .. Len(f) :
                      j < a + k /\ f[j].stream = dev.stream => f[j].seq < g[k].seq
      BY <2>1 DEF Ordered, Current
    <2>3. \A j \in 1 .. Len(g) :
             j < k => a + j \in 1 .. Len(f) /\ a + j < a + k /\ g[j] = f[a + j]
      BY <1>1, <1>2
    <2> QED  BY <2>2, <2>3 DEF SameClock, Current
  <1>4. Timed(g, start, b)'
    <2>1. ASSUME NEW k \in 1 .. Len(g)
          PROVE  IF g[k].stream = dev.stream THEN g[k].t = (start + g[k].seq) % ClockWrap
                 ELSE \E s \in 0 .. start - 1 : /\ start - s <= b[dev.stream - 1]
                                                /\ g[k].t = s % ClockWrap
      <3>1. a + k \in 1 .. Len(f) /\ g[k] = f[a + k]
        BY <1>1
      <3> QED  BY <3>1 DEF Timed, Current
    <2> QED  BY <2>1 DEF Timed, Current, SameClock
  <1> QED  BY <1>3, <1>4 DEF FlowInv

(* Nothing moves.                                                          *)
LEMMA FlowStays ==
    ASSUME NEW b, FlowInv(b), SameClock, Stream' = Stream, Segments' = Segments,
           Len(done') = Len(done), plugged' = plugged, worker'.last = worker.last,
           worker'.stage # "gone" => worker.stage # "gone"
    PROVE  FlowInv(b)'
  <1>1. PICK f \in Packets, st \in Nat, start \in Nat :
            Lays(f, st, Len(done) + 2, Stream, Segments) /\ Ordered(f) /\ Covered(f) /\ Timed(f, start, b)
    BY DEF FlowInv
  <1>2. Covered(f)'
    BY <1>1 DEF Covered, SameClock, Current
  <1>3. \A k \in 1 .. Len(f) : Current(f[k]) => worker'.last < f[k].seq
    BY <1>1 DEF Ordered
  <1>4. Lays(f, st, Len(done') + 2, Stream', Segments')
    BY <1>1
  <1> QED  BY <1>1, <1>2, <1>3, <1>4, WindowWhole, FlowFrom

(* A sequence in two halves.                                               *)
LEMMA Halves ==
    ASSUME NEW S, NEW s \in Seq(S), NEW n \in 0 .. Len(s)
    PROVE  /\ SubSeq(s, 1, n) \in Seq(S) /\ SubSeq(s, n + 1, Len(s)) \in Seq(S)
           /\ SubSeq(s, 1, n) \o SubSeq(s, n + 1, Len(s)) = s
  <1> DEFINE x == SubSeq(s, 1, n)
             y == SubSeq(s, n + 1, Len(s))
  <1>0. Len(s) \in Nat
    BY LenProperties
  <1>1. \A i \in 1 .. Len(s) : s[i] \in S
    BY ElementOfSeq
  <1>2. (\A i \in 1 .. n : s[i] \in S) /\ \A i \in n + 1 .. Len(s) : s[i] \in S
    BY <1>0, <1>1
  <1>3. 1 \in Int /\ n \in Int /\ n + 1 \in Int /\ Len(s) \in Int
    BY <1>0
  <1>4. /\ x \in Seq(S) /\ Len(x) = (IF 1 <= n THEN n - 1 + 1 ELSE 0)
        /\ \A i \in 1 .. n - 1 + 1 : x[i] = s[1 + i - 1]
    BY <1>2, <1>3, SubSeqProperties
  <1>5. /\ y \in Seq(S)
        /\ Len(y) = (IF n + 1 <= Len(s) THEN Len(s) - (n + 1) + 1 ELSE 0)
        /\ \A i \in 1 .. Len(s) - (n + 1) + 1 : y[i] = s[(n + 1) + i - 1]
    BY <1>2, <1>3, SubSeqProperties
  <1> HIDE DEF x, y
  <1>6. PICK l \in Nat : l = Len(s)
    BY LenProperties
  <1>7. /\ Len(x) = n /\ \A i \in 1 .. n : x[i] = s[i]
        /\ Len(y) = l - n /\ \A i \in 1 .. l - n : y[i] = s[n + i]
    <2>1. n \in Nat /\ n <= l
      BY <1>6
    <2>2. Len(x) = n /\ Len(y) = l - n
      BY <1>4, <1>5, <1>6, <2>1
    <2>3. \A i \in 1 .. n : i \in 1 .. n - 1 + 1 /\ 1 + i - 1 = i
      BY <2>1
    <2>4. \A i \in 1 .. l - n : i \in 1 .. l - (n + 1) + 1 /\ (n + 1) + i - 1 = n + i
      BY <2>1
    <2> QED  BY <1>4, <1>5, <1>6, <2>2, <2>3, <2>4
  <1>8. /\ x \o y \in Seq(S) /\ Len(x \o y) = Len(x) + Len(y)
        /\ \A i \in 1 .. Len(x) + Len(y) : (x \o y)[i] = IF i <= Len(x) THEN x[i] ELSE y[i - Len(x)]
    BY <1>4, <1>5, ConcatProperties
  <1>9. n \in Nat /\ n <= l /\ n + (l - n) = l
    BY <1>6
  <1>10. Len(x \o y) = l
    BY <1>7, <1>8, <1>9
  <1>11. ASSUME NEW i \in 1 .. l
         PROVE  (x \o y)[i] = s[i]
    <2>1. (x \o y)[i] = IF i <= n THEN x[i] ELSE y[i - n]
      BY <1>7, <1>8, <1>9
    <2>2. CASE i <= n
      <3>1. i \in 1 .. n
        BY <1>9, <2>2
      <3> QED  BY <1>7, <2>1, <2>2, <3>1
    <2>3. CASE ~(i <= n)
      <3>1. i - n \in 1 .. l - n /\ n + (i - n) = i
        BY <1>9, <2>3
      <3> QED  BY <1>7, <2>1, <2>3, <3>1
    <2> QED  BY <2>2, <2>3
  <1>12. x \o y = s
    <2>1. s \in Seq(S) /\ Len(x \o y) = Len(s) /\ \A i \in 1 .. Len(x \o y) : (x \o y)[i] = s[i]
      BY <1>6, <1>10, <1>11
    <2> QED  BY <1>8, <2>1, SeqEqual
  <1> QED  BY <1>4, <1>5, <1>12 DEF x, y

(* Steps that move no record: of the device,                               *)
LEMMA DeviceStays ==
    ASSUME BulkInv, NEW b, FlowInv(b), UNCHANGED streamVars,
           OtherStops \/ WriteCopy \/ WriteSent \/ (WriteArm /\ ~(plugged /\ tx.armed = <<>>))
    PROVE  FlowInv(b)'
  <1>1. UNCHANGED <<worker, startT, bytes, done, plugged>>
    BY DEF streamVars, OtherStops, WriteCopy, WriteSent, WriteArm
  <1>2. /\ dev \in [running : BOOLEAN, stream : 0 .. Len(MaxSeq), clock : Nat, seq : Nat,
                    packet : Packets, dropped : Numbers]
        /\ tx \in [stage : {"idle", "arm", "sent"}, flag : BOOLEAN,
                   buffer : Packets, armed : Packets]
    BY DEF BulkInv, BulkTypes
  <1>3. SameClock
    BY <1>1, <1>2 DEF SameClock, OtherStops, WriteCopy, WriteSent, WriteArm
  <1>4. Pending' = Pending /\ tx'.armed = tx.armed
    <2>1. CASE OtherStops
      BY <1>1, <1>2, <2>1 DEF OtherStops, Pending
    <2>2. CASE WriteCopy
      BY <1>1, <1>2, <2>2 DEF WriteCopy, Pending
    <2>3. CASE WriteSent
      BY <1>1, <1>2, <2>3 DEF WriteSent, Pending
    <2>4. CASE WriteArm /\ ~(plugged /\ tx.armed = <<>>)
      <3>1. /\ tx' = [tx EXCEPT !.stage = "idle", !.flag = FALSE, !.buffer = tx.armed]
            /\ tx.stage = "arm" /\ dev' = dev
        BY <2>4 DEF WriteArm
      <3>2. tx'.stage = "idle" /\ tx'.armed = tx.armed
        BY <1>2, <3>1
      <3> QED  BY <1>1, <3>1, <3>2 DEF Pending
    <2> QED  BY <2>1, <2>2, <2>3, <2>4
  <1>5. Stream' = Stream /\ Segments' = Segments
    BY <1>1, <1>4 DEF Stream, Segments
  <1> QED  BY <1>1, <1>3, <1>5, FlowStays

(* of the worker, the bytes that it reads included,                        *)
LEMMA WorkerStays ==
    ASSUME BulkInv, StreamTypes, NEW b, FlowInv(b),
           Top \/ ReadThrows \/ ReadBytes \/ ReadTimeout \/ Queue \/ NotifyOne \/ PollStatus
    PROVE  FlowInv(b)'
  <1>1. worker \in WorkerType
    BY DEF StreamTypes, WorkerType
  <1>2. UNCHANGED <<dev, tx, done, plugged, startT>>
    BY DEF Top, OpenRing, ReadThrows, ReadBytes, ReadTimeout, Queue, NotifyOne, PollStatus, bulkVars
  <1>3. worker.stage # "gone" /\ worker'.last = worker.last
    BY <1>1 DEF WorkerType, Top, Goto, End, ReadThrows, ReadBytes, ReadTimeout, Quiet, Queue,
                NotifyOne, PollStatus
  <1>4. Stream' = Stream
    <2>1. CASE ReadBytes
      <3> DEFINE n == IF Len(bytes) < Chunk THEN Len(bytes) ELSE Chunk
                 w == worker.buffer
                 x == SubSeq(bytes, 1, n)
                 y == SubSeq(bytes, n + 1, Len(bytes))
      <3>1. worker'.buffer = w \o x /\ bytes' = y
        BY <1>1, <2>1 DEF ReadBytes, WorkerType
      <3>2. bytes \in Seq(Unit) /\ w \in Seq(Unit) /\ Len(bytes) \in Nat
        BY WireTypes DEF BulkInv
      <3>3. n \in 0 .. Len(bytes)
        BY <3>2, StreamAssumption
      <3> HIDE DEF n
      <3>4. x \in Seq(Unit) /\ y \in Seq(Unit) /\ x \o y = bytes
        BY <3>2, <3>3, Halves
      <3> HIDE DEF x, y
      <3>5. (w \o x) \o y = w \o (x \o y)
        <4>1. \A p, q, r \in Seq(Unit) : (p \o q) \o r = p \o (q \o r)
          BY ConcatAssociative
        <4> QED  BY <3>2, <3>4, <4>1
      <3> QED  BY <3>1, <3>4, <3>5 DEF Stream
    <2>2. CASE Top \/ ReadThrows \/ ReadTimeout \/ Queue \/ NotifyOne \/ PollStatus
      <3>1. worker'.buffer = worker.buffer /\ bytes' = bytes
        BY <1>1, <2>2 DEF WorkerType, Top, OpenRing, Goto, End, ReadThrows, ReadTimeout, Quiet, Queue,
                          NotifyOne, PollStatus, bulkVars
      <3> QED  BY <3>1 DEF Stream
    <2> QED  BY <2>1, <2>2
  <1>5. SameClock /\ Segments' = Segments
    BY <1>2 DEF SameClock, Segments, Pending
  <1> QED  BY <1>2, <1>3, <1>4, <1>5, FlowStays

(* of the readers and of the owner.                                        *)
LEMMA OthersStay ==
    ASSUME BulkInv, NEW b, FlowInv(b),
           (\E r \in Readers : ReaderStep(r)) \/ SetStop \/ NotifyAll \/ Join \/ UNCHANGED vars
    PROVE  FlowInv(b)'
  <1>1. UNCHANGED <<tx, done, bytes, plugged, worker, startT>>
    BY DEF ReaderStep, Test, Wait, ReadReturns, SetStop, NotifyAll, Join, bulkVars, vars, streamVars
  <1>2. dev' = dev \/ dev' = [dev EXCEPT !.running = FALSE]
    BY DEF ReaderStep, Test, Wait, ReadReturns, SetStop, NotifyAll, Join, bulkVars, vars
  <1>3. dev \in [running : BOOLEAN, stream : 0 .. Len(MaxSeq), clock : Nat, seq : Nat,
                 packet : Packets, dropped : Numbers]
    BY DEF BulkInv, BulkTypes
  <1>4. SameClock /\ dev'.packet = dev.packet
    BY <1>1, <1>2, <1>3 DEF SameClock
  <1>5. Stream' = Stream /\ Segments' = Segments
    BY <1>1, <1>4 DEF Stream, Segments, Pending
  <1> QED  BY <1>1, <1>4, <1>5, FlowStays

LEMMA SegmentsNow ==
    ASSUME BulkTypes
    PROVE  /\ Len(done) \in Nat /\ \A i \in 1 .. Len(done) : Segments[i] = done[i].data
           /\ Segments[Len(done) + 1] = tx.armed /\ Segments[Len(done) + 2] = Pending
           /\ \A i \in 1 .. Len(done) + 2 : Segments[i] \in Packets /\ Len(Segments[i]) \in Nat
  <1>1. done \in Seq(Ending) /\ tx.armed \in Packets /\ Pending \in Packets
    BY DEF BulkTypes, Pending, Packets
  <1>2. PICK e \in Seq(Ending), a \in Packets, p \in Packets :
            e = done /\ a = tx.armed /\ p = Pending
    BY <1>1
  <1>3. PICK x : x = SegmentsOf(e, a, p)
    OBVIOUS
  <1>4. Len(e) \in Nat
    BY <1>3, SegmentValues
  <1>5. \A i \in 1 .. Len(e) : x[i] = e[i].data
    BY <1>3, SegmentValues
  <1>6. x[Len(e) + 1] = a /\ x[Len(e) + 2] = p
    BY <1>3, SegmentValues
  <1>7. \A i \in 1 .. Len(e) + 2 : x[i] \in Packets /\ Len(x[i]) \in Nat
    BY <1>3, SegmentValues
  <1>8. Segments = x
    BY <1>2, <1>3 DEF Segments
  <1> QED  BY <1>2, <1>4, <1>5, <1>6, <1>7, <1>8

LEMMA SegmentsNext ==
    ASSUME BulkTypes'
    PROVE  /\ Len(done') \in Nat /\ \A i \in 1 .. Len(done') : Segments'[i] = done'[i].data
           /\ Segments'[Len(done') + 1] = tx'.armed /\ Segments'[Len(done') + 2] = Pending'
           /\ \A i \in 1 .. Len(done') + 2 : Segments'[i] \in Packets /\ Len(Segments'[i]) \in Nat
  <1>1. done' \in Seq(Ending) /\ tx'.armed \in Packets /\ Pending' \in Packets
    BY DEF BulkTypes, Pending, Packets
  <1>2. PICK e \in Seq(Ending), a \in Packets, p \in Packets :
            e = done' /\ a = tx'.armed /\ p = Pending'
    BY <1>1
  <1>3. PICK x : x = SegmentsOf(e, a, p)
    OBVIOUS
  <1>4. Len(e) \in Nat
    BY <1>3, SegmentValues
  <1>5. \A i \in 1 .. Len(e) : x[i] = e[i].data
    BY <1>3, SegmentValues
  <1>6. x[Len(e) + 1] = a /\ x[Len(e) + 2] = p
    BY <1>3, SegmentValues
  <1>7. \A i \in 1 .. Len(e) + 2 : x[i] \in Packets /\ Len(x[i]) \in Nat
    BY <1>3, SegmentValues
  <1>8. Segments' = x
    BY <1>2, <1>3 DEF Segments
  <1> QED  BY <1>2, <1>4, <1>5, <1>6, <1>7, <1>8

(* All the records go on, where they were or elsewhere.                    *)
LEMMA FlowMoves ==
    ASSUME NEW b, FlowInv(b), SameClock, plugged' = plugged, worker' = worker,
           \A f \in Packets, st \in Nat :
               Lays(f, st, Len(done) + 2, Stream, Segments) => Lays(f, st, Len(done') + 2, Stream', Segments')
    PROVE  FlowInv(b)'
  <1>1. PICK f \in Packets, st \in Nat, start \in Nat :
            Lays(f, st, Len(done) + 2, Stream, Segments) /\ Ordered(f) /\ Covered(f) /\ Timed(f, start, b)
    BY DEF FlowInv
  <1>2. Covered(f)'
    BY <1>1 DEF Covered, SameClock, Current
  <1>3. \A k \in 1 .. Len(f) : Current(f[k]) => worker'.last < f[k].seq
    BY <1>1 DEF Ordered
  <1>4. Lays(f, st, Len(done') + 2, Stream', Segments')
    BY <1>1
  <1> QED  BY <1>1, <1>2, <1>3, <1>4, WindowWhole, FlowFrom

(* A transfer that ends takes what is armed, or brings nothing.            *)
LEMMA EndingMoves ==
    ASSUME BulkInv, BulkTypes', NEW b, FlowInv(b), UNCHANGED streamVars,
           Deliver \/ FailTransfer \/ Cancelled
    PROVE  FlowInv(b)'
  <1>1. UNCHANGED <<dev, plugged, bytes, worker, startT>> /\ BulkTypes /\ WritePart
    BY DEF streamVars, BulkInv, Deliver, FailTransfer, Cancelled
  <1>2. SameClock /\ Stream' = Stream
    BY <1>1 DEF SameClock, Stream
  <1>3. PICK l \in Nat : l = Len(done)
    BY SegmentsNow DEF BulkInv
  <1>4. \E e \in Ending :
            /\ done' = Append(done, e)
            /\ \/ e.data = <<>> /\ tx' = tx
               \/ /\ tx.armed = tx.buffer /\ e.data = tx.buffer
                  /\ tx'.armed = <<>> /\ tx'.stage = tx.stage
    <2>1. <<>> \in Packets /\ tx.buffer \in Packets
      BY <1>1 DEF BulkTypes, Packets
    <2>2. CASE Deliver
      <3>1. PICK e : e = [status |-> "COMPLETED", data |-> tx.buffer]
        OBVIOUS
      <3>2. e \in Ending /\ e.data = tx.buffer
        BY <2>1, <3>1 DEF Ending, EndStatuses
      <3>3. tx.armed = tx.buffer
        BY <1>1, <2>2 DEF Deliver, WritePart
      <3>4. tx'.armed = <<>> /\ tx'.stage = tx.stage
        BY <1>1, <2>2 DEF Deliver, BulkTypes
      <3>5. done' = Append(done, e)
        BY <2>2, <3>1 DEF Deliver, Completion
      <3> QED  BY <3>2, <3>3, <3>4, <3>5
    <2>3. CASE FailTransfer \/ Cancelled
      <3>1. PICK s \in EndStatuses : tx' = tx /\ done' = Append(done, [status |-> s, data |-> <<>>])
        BY <2>3 DEF FailTransfer, Cancelled, Completion, EndStatuses
      <3>2. PICK e : e = [status |-> s, data |-> <<>>]
        OBVIOUS
      <3>3. e \in Ending /\ e.data = <<>>
        BY <2>1, <3>2 DEF Ending
      <3> QED  BY <3>1, <3>2, <3>3
    <2> QED  BY <2>2, <2>3
  <1>5. PICK e \in Ending :
            /\ done' = Append(done, e)
            /\ \/ e.data = <<>> /\ tx' = tx
               \/ /\ tx.armed = tx.buffer /\ e.data = tx.buffer
                  /\ tx'.armed = <<>> /\ tx'.stage = tx.stage
    BY <1>4
  <1>6. Len(done') = l + 1 /\ done'[l + 1] = e /\ \A i \in 1 .. l : done'[i] = done[i]
    <2>1. done \in Seq(Ending)
      BY <1>1 DEF BulkTypes
    <2> QED  BY <1>3, <1>5, <2>1, AppendProperties
  <1>7. Pending' = Pending
    BY <1>1, <1>5 DEF Pending
  <1> DEFINE segs  == Segments
             segs2 == Segments'
  <1>8. /\ \A i \in 1 .. l : segs[i] = done[i].data
        /\ segs[l + 1] = tx.armed /\ segs[l + 2] = Pending
        /\ \A i \in 1 .. l + 2 : Len(segs[i]) \in Nat
    BY <1>1, <1>3, SegmentsNow
  <1>9. /\ \A i \in 1 .. l : segs2[i] = done[i].data
        /\ segs2[l + 1] = e.data /\ segs2[l + 2] = tx'.armed /\ segs2[l + 3] = Pending
    <2>1. /\ \A i \in 1 .. l + 1 : segs2[i] = done'[i].data
          /\ segs2[(l + 1) + 1] = tx'.armed /\ segs2[(l + 1) + 2] = Pending'
      BY <1>6, SegmentsNext
    <2>2. (l + 1) + 1 = l + 2 /\ (l + 1) + 2 = l + 3 /\ \A i \in 1 .. l : i \in 1 .. l + 1
      OBVIOUS
    <2>3. l + 1 \in 1 .. l + 1
      OBVIOUS
    <2> QED  BY <1>6, <1>7, <2>1, <2>2, <2>3
  <1> HIDE DEF segs, segs2
  <1>10. \E p \in 1 .. (l + 2) + 1 :
            \A i \in 1 .. (l + 2) + 1 :
                segs2[i] = IF i < p THEN segs[i] ELSE IF i = p THEN <<>> ELSE segs[i - 1]
    <2>1. CASE e.data = <<>> /\ tx' = tx
      <3> DEFINE There(i) == IF i < l + 1 THEN segs[i] ELSE IF i = l + 1 THEN <<>> ELSE segs[i - 1]
      <3>0. l + 1 \in 1 .. (l + 2) + 1
        OBVIOUS
      <3> SUFFICES ASSUME NEW i \in 1 .. (l + 2) + 1
                   PROVE  segs2[i] = There(i)
        BY <3>0
      <3>1. CASE i < l + 1
        <4>1. i \in 1 .. l
          BY <3>1
        <4> QED  BY <1>8, <1>9, <3>1, <4>1
      <3>2. CASE i = l + 1
        BY <1>9, <2>1, <3>2
      <3>3. CASE i = l + 2
        <4>1. i - 1 = l + 1 /\ ~(i < l + 1) /\ i # l + 1
          BY <3>3
        <4> QED  BY <1>8, <1>9, <2>1, <3>3, <4>1
      <3>4. CASE i = l + 3
        <4>1. i - 1 = l + 2 /\ ~(i < l + 1) /\ i # l + 1
          BY <3>4
        <4> QED  BY <1>8, <1>9, <3>4, <4>1
      <3>5. i < l + 1 \/ i = l + 1 \/ i = l + 2 \/ i = l + 3
        OBVIOUS
      <3> QED  BY <3>1, <3>2, <3>3, <3>4, <3>5
    <2>2. CASE tx.armed = tx.buffer /\ e.data = tx.buffer /\ tx'.armed = <<>>
      <3> DEFINE There(i) == IF i < l + 2 THEN segs[i] ELSE IF i = l + 2 THEN <<>> ELSE segs[i - 1]
      <3>0. l + 2 \in 1 .. (l + 2) + 1
        OBVIOUS
      <3> SUFFICES ASSUME NEW i \in 1 .. (l + 2) + 1
                   PROVE  segs2[i] = There(i)
        BY <3>0
      <3>1. CASE i \in 1 .. l
        <4>1. i < l + 2
          BY <3>1
        <4> QED  BY <1>8, <1>9, <3>1, <4>1
      <3>2. CASE i = l + 1
        <4>1. i < l + 2
          BY <3>2
        <4> QED  BY <1>8, <1>9, <2>2, <3>2, <4>1
      <3>3. CASE i = l + 2
        <4>1. ~(i < l + 2)
          BY <3>3
        <4> QED  BY <1>9, <2>2, <3>3, <4>1
      <3>4. CASE i = l + 3
        <4>1. i - 1 = l + 2 /\ ~(i < l + 2) /\ i # l + 2
          BY <3>4
        <4> QED  BY <1>8, <1>9, <3>4, <4>1
      <3>5. i \in 1 .. l \/ i = l + 1 \/ i = l + 2 \/ i = l + 3
        OBVIOUS
      <3> QED  BY <3>1, <3>2, <3>3, <3>4, <3>5
    <2> QED  BY <1>5, <2>1, <2>2
  <1>11. ASSUME NEW f \in Packets, NEW st \in Nat, Lays(f, st, l + 2, Stream, segs)
         PROVE  Lays(f, st, (l + 2) + 1, Stream, segs2)
    <2>1. PICK p \in 1 .. (l + 2) + 1 :
              \A i \in 1 .. (l + 2) + 1 :
                  segs2[i] = IF i < p THEN segs[i] ELSE IF i = p THEN <<>> ELSE segs[i - 1]
      BY <1>10
    <2>2. l + 2 \in Nat
      OBVIOUS
    <2> QED  BY <1>8, <1>11, <2>1, <2>2, LaysInsert
  <1>12. (l + 2) + 1 = Len(done') + 2
    BY <1>6
  <1> QED  BY <1>1, <1>2, <1>3, <1>11, <1>12, FlowMoves DEF segs, segs2

(* The packet is armed.                                                    *)
LEMMA ArmMoves ==
    ASSUME BulkInv, BulkTypes', NEW b, FlowInv(b), UNCHANGED streamVars,
           WriteArm, plugged, tx.armed = <<>>
    PROVE  FlowInv(b)'
  <1>1. /\ UNCHANGED <<dev, plugged, bytes, done, worker, startT>> /\ BulkTypes
        /\ tx.stage = "arm" /\ tx.buffer = dev.packet
        /\ tx' = [tx EXCEPT !.stage = "sent", !.armed = tx.buffer]
    BY DEF streamVars, BulkInv, WriteArm, WritePart
  <1>2. SameClock /\ Stream' = Stream
    BY <1>1 DEF SameClock, Stream
  <1>3. tx'.stage = "sent" /\ tx'.armed = dev.packet /\ Pending = dev.packet /\ Pending' = <<>>
    BY <1>1 DEF BulkTypes, Pending
  <1>4. PICK l \in Nat : l = Len(done)
    BY <1>1, SegmentsNow
  <1> DEFINE segs  == Segments
             segs2 == Segments'
  <1>5. /\ \A i \in 1 .. l : segs[i] = done[i].data
        /\ segs[l + 1] = <<>> /\ segs[l + 2] = dev.packet
        /\ \A i \in 1 .. l + 2 : Len(segs[i]) \in Nat
    BY <1>1, <1>3, <1>4, SegmentsNow
  <1>6. /\ \A i \in 1 .. l : segs2[i] = done[i].data
        /\ segs2[l + 1] = dev.packet /\ segs2[l + 2] = <<>>
    BY <1>1, <1>3, <1>4, SegmentsNext
  <1> HIDE DEF segs, segs2
  <1>7. ASSUME NEW i \in 1 .. l + 2
        PROVE  segs2[i] = IF i < (l + 2) - 1 THEN segs[i]
                          ELSE IF i = (l + 2) - 1 THEN segs[l + 2] ELSE <<>>
    <2>1. (l + 2) - 1 = l + 1
      OBVIOUS
    <2>2. CASE i \in 1 .. l
      <3>1. i < l + 1
        BY <2>2
      <3> QED  BY <1>5, <1>6, <2>1, <2>2, <3>1
    <2>3. CASE i = l + 1
      <3>1. ~(i < l + 1)
        BY <2>3
      <3> QED  BY <1>5, <1>6, <2>1, <2>3, <3>1
    <2>4. CASE i = l + 2
      <3>1. ~(i < l + 1) /\ i # l + 1
        BY <2>4
      <3> QED  BY <1>5, <1>6, <2>1, <2>4, <3>1
    <2>5. i \in 1 .. l \/ i = l + 1 \/ i = l + 2
      OBVIOUS
    <2> QED  BY <2>2, <2>3, <2>4, <2>5
  <1>8. ASSUME NEW f \in Packets, NEW st \in Nat, Lays(f, st, l + 2, Stream, segs)
        PROVE  Lays(f, st, l + 2, Stream, segs2)
    <2>1. (l + 2) - 1 = l + 1 /\ l + 2 >= 2 /\ l + 2 \in Nat
      OBVIOUS
    <2>2. segs[(l + 2) - 1] = <<>>
      BY <1>5, <2>1
    <2> QED  BY <1>5, <1>7, <1>8, <2>1, <2>2, LaysMove
  <1> QED  BY <1>1, <1>2, <1>4, <1>8, FlowMoves DEF segs, segs2

(* The first completion goes, what it brought is in the host's buffer.     *)
LEMMA CompleteMoves ==
    ASSUME BulkInv, BulkTypes', StreamTypes, ThreadPart, owner # "destroyed", NEW b, FlowInv(b),
           HandleComplete, UNCHANGED streamVars
    PROVE  FlowInv(b)'
  <1>1. /\ UNCHANGED <<dev, tx, plugged, worker, startT>> /\ done # <<>> /\ done' = Tail(done)
        /\ BulkTypes /\ RingPart
    BY DEF streamVars, BulkInv, HandleComplete
  <1>2. SameClock /\ Pending' = Pending
    BY <1>1 DEF SameClock, Pending
  <1>3. /\ Head(done) \in Ending /\ Head(done) = done[1] /\ Len(done) \in Nat \ {0}
        /\ Len(done') = Len(done) - 1 /\ \A i \in 1 .. Len(done') : done'[i] = done[i + 1]
    BY <1>1, FirstEnding
  <1>4. PICK l \in Nat \ {0} : l = Len(done)
    BY <1>3
  <1>5. ring = "open"
    <2>1. count # 0
      <3>1. count = inFlight + l /\ inFlight \in Nat
        BY <1>1, <1>4 DEF BulkTypes, RingPart
      <3> QED  BY <3>1
    <2> QED  BY <1>1, <2>1 DEF BulkTypes, RingPart, ThreadPart
  <1>6. PICK data \in Packets : data = done[1].data
    BY <1>3 DEF Ending
  <1>7. Stream' = Stream \o OnTheWire(data) \/ (data = <<>> /\ Stream' = Stream)
    <2>1. CASE Head(done).status = "COMPLETED"
      <3>1. bytes' = bytes \o OnTheWire(data)
        BY <1>3, <1>5, <1>6, <2>1 DEF HandleComplete
      <3>2. PICK w \in Seq(Unit) : w = OnTheWire(data)
        BY WireUnits
      <3>3. \A p, q, r \in Seq(Unit) : (p \o q) \o r = p \o (q \o r)
        BY ConcatAssociative, SMTT(30)
      <3>4. worker.buffer \in Seq(Unit) /\ bytes \in Seq(Unit)
        BY <1>1, WireTypes
      <3> QED  BY <1>1, <3>1, <3>2, <3>3, <3>4 DEF Stream
    <2>2. CASE Head(done).status # "COMPLETED"
      <3>1. bytes' = bytes
        BY <2>2 DEF HandleComplete
      <3>2. data = <<>>
        <4>1. 1 \in 1 .. Len(done)
          BY <1>3
        <4> QED  BY <1>1, <1>3, <1>6, <2>2, <4>1 DEF RingPart
      <3> QED  BY <1>1, <3>1, <3>2 DEF Stream
    <2> QED  BY <2>1, <2>2
  <1> DEFINE segs  == Segments
             segs2 == Segments'
  <1>8. /\ \A i \in 1 .. l : segs[i] = done[i].data
        /\ segs[l + 1] = tx.armed /\ segs[l + 2] = Pending
        /\ \A i \in 1 .. l + 2 : Len(segs[i]) \in Nat
    BY <1>1, <1>4, SegmentsNow
  <1>9. Len(done') = l - 1
    BY <1>3, <1>4
  <1>10. /\ \A i \in 1 .. l - 1 : segs2[i] = done[i + 1].data
         /\ segs2[l] = tx.armed /\ segs2[l + 1] = Pending
    <2>1. /\ \A i \in 1 .. l - 1 : segs2[i] = done'[i].data
          /\ segs2[(l - 1) + 1] = tx'.armed /\ segs2[(l - 1) + 2] = Pending'
      BY <1>9, SegmentsNext
    <2>2. (l - 1) + 1 = l /\ (l - 1) + 2 = l + 1
      OBVIOUS
    <2> QED  BY <1>1, <1>2, <1>3, <1>9, <2>1, <2>2
  <1> HIDE DEF segs, segs2
  <1>11. ASSUME NEW i \in 1 .. (l + 2) - 1
         PROVE  segs2[i] = segs[i + 1]
    <2>1. CASE i \in 1 .. l - 1
      <3>1. i + 1 \in 1 .. l
        BY <2>1
      <3> QED  BY <1>8, <1>10, <2>1, <3>1
    <2>2. CASE i = l
      BY <1>8, <1>10, <2>2
    <2>3. CASE i = l + 1
      <3>1. i + 1 = l + 2
        BY <2>3
      <3> QED  BY <1>8, <1>10, <2>3, <3>1
    <2>4. i \in 1 .. l - 1 \/ i = l \/ i = l + 1
      OBVIOUS
    <2> QED  BY <2>1, <2>2, <2>3, <2>4
  <1>12. segs[1] = data
    <2>1. 1 \in 1 .. l
      OBVIOUS
    <2> QED  BY <1>6, <1>8, <2>1
  <1>13. ASSUME NEW f \in Packets, NEW st \in Nat, Lays(f, st, l + 2, Stream, segs)
         PROVE  Lays(f, st, (l + 2) - 1, Stream', segs2)
    <2>1. PICK u \in Seq(Unit) : u = Stream
      BY <1>1, WireTypes
    <2>2. PICK u2 : u2 = Stream'
      OBVIOUS
    <2>3. u2 = u \o OnTheWire(segs[1]) \/ (segs[1] = <<>> /\ u2 = u)
      BY <1>7, <1>12, <2>1, <2>2
    <2>4. Lays(f, st, l + 2, u, segs)
      BY <1>13, <2>1
    <2>5. segs[1] \in Packets /\ l + 2 \in Nat \ {0}
      BY <1>12
    <2>6. Lays(f, st, (l + 2) - 1, u2, segs2)
      BY <1>8, <1>11, <2>1, <2>3, <2>4, <2>5, LaysFirst
    <2> QED  BY <2>2, <2>6
  <1>14. (l + 2) - 1 = Len(done') + 2
    BY <1>9
  <1> QED  BY <1>1, <1>2, <1>4, <1>13, <1>14, FlowMoves DEF segs, segs2

(* What is on the device or armed is lost.                                 *)
LEMMA UnplugCuts ==
    ASSUME BulkInv, BulkTypes', NEW b, FlowInv(b), Unplug, UNCHANGED streamVars
    PROVE  FlowInv(b)'
  <1>1. /\ UNCHANGED <<bytes, worker, startT>> /\ plugged /\ ~plugged' /\ BulkTypes
        /\ dev' = [dev EXCEPT !.running = FALSE]
        /\ tx' = [tx EXCEPT !.flag = FALSE, !.armed = <<>>,
                            !.buffer = IF tx.armed = <<>> THEN @ ELSE <<>>]
    BY DEF streamVars, BulkInv, Unplug
  <1>2. SameClock /\ Stream' = Stream
    BY <1>1 DEF SameClock, Stream, BulkTypes
  <1>3. tx'.armed = <<>> /\ Pending' = <<>>
    BY <1>1 DEF BulkTypes, Pending
  <1>4. /\ Len(done') = Len(done) + inFlight /\ Len(done) \in Nat /\ inFlight \in Nat
        /\ \A i \in 1 .. Len(done) : done'[i] = done[i]
        /\ \A i \in Len(done) + 1 .. Len(done) + inFlight : done'[i].data = <<>>
    BY <1>1, AllEnd
  <1>5. PICK l \in Nat, m \in Nat : l = Len(done) /\ m = inFlight
    BY <1>4
  <1>a. Len(done') = l + m
    BY <1>4, <1>5
  <1> DEFINE segs  == Segments
             segs2 == Segments'
  <1>6. /\ \A i \in 1 .. l : segs[i] = done[i].data
        /\ \A i \in 1 .. l + 2 : Len(segs[i]) \in Nat
    BY <1>1, <1>5, SegmentsNow
  <1>7. /\ \A i \in 1 .. l : segs2[i] = done[i].data
        /\ \A i \in l + 1 .. l + m : segs2[i] = <<>>
        /\ segs2[(l + m) + 1] = <<>> /\ segs2[(l + m) + 2] = <<>>
    <2>1. /\ \A i \in 1 .. l + m : segs2[i] = done'[i].data
          /\ segs2[(l + m) + 1] = tx'.armed /\ segs2[(l + m) + 2] = Pending'
      BY <1>a, SegmentsNext
    <2>2. (\A i \in 1 .. l : i \in 1 .. l + m) /\ (\A i \in l + 1 .. l + m : i \in 1 .. l + m)
      OBVIOUS
    <2> QED  BY <1>3, <1>4, <1>5, <2>1, <2>2
  <1> HIDE DEF segs, segs2
  <1>8. ASSUME NEW i \in 1 .. (l + m) + 2
        PROVE  segs2[i] = IF i < l + 1 THEN segs[i] ELSE <<>>
    <2>1. CASE i \in 1 .. l
      <3>1. i < l + 1
        BY <2>1
      <3> QED  BY <1>6, <1>7, <2>1, <3>1
    <2>2. CASE i \in l + 1 .. l + m \/ i = (l + m) + 1 \/ i = (l + m) + 2
      <3>1. ~(i < l + 1)
        BY <2>2
      <3> QED  BY <1>7, <2>2, <3>1
    <2>3. i \in 1 .. l \/ i \in l + 1 .. l + m \/ i = (l + m) + 1 \/ i = (l + m) + 2
      OBVIOUS
    <2> QED  BY <2>1, <2>2, <2>3
  <1>9. PICK f \in Packets, st \in Nat, start \in Nat :
            Lays(f, st, l + 2, Stream, segs) /\ Ordered(f) /\ Covered(f) /\ Timed(f, start, b)
    BY <1>5 DEF FlowInv, segs
  <1>10. PICK g \in Packets : /\ Lays(g, st, (l + m) + 2, Stream, segs2) /\ Len(g) <= Len(f)
                              /\ \A k \in 1 .. Len(g) : g[k] = f[k]
    <2>1. PICK n \in Nat, n2 \in Nat, p \in Nat :
              n = l + 2 /\ n2 = (l + m) + 2 /\ p = l + 1 /\ p \in 1 .. n + 1 /\ p <= n2 + 1
      <3>1. /\ l + 2 \in Nat /\ (l + m) + 2 \in Nat /\ l + 1 \in 1 .. (l + 2) + 1
            /\ l + 1 <= ((l + m) + 2) + 1
        OBVIOUS
      <3> QED  BY <3>1
    <2>2. Lays(f, st, n, Stream, segs) /\ \A i \in 1 .. n : Len(segs[i]) \in Nat
      BY <1>6, <1>9, <2>1
    <2>3. Emptied(segs, segs2, n2, p)
      BY <1>8, <2>1 DEF Emptied
    <2>4. \E g \in Packets : /\ Lays(g, st, n2, Stream, segs2) /\ Len(g) <= Len(f)
                             /\ \A k \in 1 .. Len(g) : g[k] = f[k]
      <3>1. p \in 1 .. n + 1 /\ p <= n2 + 1 /\ n \in Nat /\ n2 \in Nat /\ f \in Packets
        BY <1>9, <2>1
      <3> QED  BY <2>2, <2>3, <3>1, LaysCut
    <2> QED  BY <2>1, <2>4
  <1>11. Len(f) \in Nat /\ Len(g) \in Nat
    BY LenProperties DEF Packets
  <1>12. Window(f, g, 0)
    <2>1. 0 \in Nat /\ 0 + Len(g) <= Len(f) /\ \A k \in 1 .. Len(g) : 0 + k = k
      BY <1>10, <1>11
    <2> QED  BY <1>10, <1>11, <2>1 DEF Window
  <1>13. Covered(g)'
    <2> SUFFICES ASSUME worker.stage # "gone", NEW s \in 0 .. dev.seq - 1,
                        ~(s <= worker.last), s \notin dev.dropped,
                        ~ \E k \in 1 .. Len(g) : Current(g[k]) /\ g[k].seq = s
                 PROVE  \A k \in 1 .. Len(g) : Current(g[k]) => g[k].seq < s
      <3> QED  BY <1>1, <1>2 DEF Covered, SameClock, Current
    <2>1. PICK k \in 1 .. Len(f) : Current(f[k]) /\ f[k].seq = s
      BY <1>1, <1>9 DEF Covered
    <2>2. k > Len(g)
      BY <1>10, <1>11, <2>1
    <2>3. \A j \in 1 .. Len(g) : j \in 1 .. Len(f) /\ j < k /\ g[j] = f[j]
      BY <1>10, <1>11, <2>2
    <2> QED  BY <1>9, <2>1, <2>3 DEF Ordered
  <1>14. \A k \in 1 .. Len(g) : Current(g[k]) => worker'.last < g[k].seq
    <2>1. \A k \in 1 .. Len(g) : k \in 1 .. Len(f) /\ g[k] = f[k]
      BY <1>10, <1>11
    <2> QED  BY <1>1, <1>9, <2>1 DEF Ordered
  <1>15. Lays(g, st, Len(done') + 2, Stream', Segments')
    BY <1>2, <1>10, <1>a DEF segs2
  <1> QED  BY <1>2, <1>9, <1>12, <1>13, <1>14, <1>15, FlowFrom

(* A record is sampled: it is the last one on its way, or was dropped.     *)
LEMMA SampleGrows ==
    ASSUME BulkInv, BulkTypes', CountPart, NEW b, FlowInv(b), Sample, UNCHANGED streamVars
    PROVE  FlowInv(b)'
  <1>1. /\ UNCHANGED <<tx, bytes, done, plugged, worker, startT>> /\ BulkTypes /\ tx.stage = "idle"
    BY DEF streamVars, BulkInv, Sample
  <1>2. PICK q \in Nat, r \in Record :
            q = dev.seq /\ r = [stream |-> dev.stream, seq |-> dev.seq, t |-> dev.clock]
    <2>1. [stream |-> dev.stream, seq |-> dev.seq, t |-> dev.clock] \in Record /\ dev.seq \in Nat
      BY <1>1 DEF BulkTypes, Record
    <2> QED  BY <2>1
  <1>3. r.stream = dev.stream /\ r.seq = q /\ r.t = dev.clock
    BY <1>2
  <1>4. /\ dev'.stream = dev.stream /\ dev'.seq = q + 1 /\ dev'.clock = Tick
        /\ \/ dev'.packet = Append(dev.packet, r) /\ dev'.dropped = dev.dropped
           \/ dev'.packet = dev.packet /\ dev'.dropped = dev.dropped \cup {q}
    <2>1. dev \in [running : BOOLEAN, stream : 0 .. Len(MaxSeq), clock : Nat, seq : Nat,
                   packet : Packets, dropped : Numbers]
      BY <1>1 DEF BulkTypes
    <2>2. PICK x, y : x = Append(dev.packet, r) /\ y = dev.dropped \cup {q}
      OBVIOUS
    <2>3. \/ dev' = [dev EXCEPT !.seq = @ + 1, !.clock = Tick, !.packet = x]
          \/ dev' = [dev EXCEPT !.seq = @ + 1, !.clock = Tick, !.dropped = y]
      BY <1>2, <2>2 DEF Sample
    <2> QED  BY <1>2, <2>1, <2>2, <2>3
  <1>5. PICK f \in Packets, st \in Nat, start \in Nat :
            Lays(f, st, Len(done) + 2, Stream, Segments) /\ Ordered(f) /\ Covered(f) /\ Timed(f, start, b)
    BY DEF FlowInv
  <1>6. PICK l \in Nat, m \in Nat : l = Len(done) /\ m = Len(f)
    BY <1>1, WireTypes, SegmentsNow, LenProperties DEF Packets
  <1> DEFINE segs  == Segments
             segs2 == Segments'
  <1>7. /\ \A i \in 1 .. l : segs[i] = done[i].data
        /\ segs[l + 1] = tx.armed /\ segs[l + 2] = Pending
        /\ \A i \in 1 .. l + 2 : segs[i] \in Packets /\ Len(segs[i]) \in Nat
    BY <1>1, <1>6, SegmentsNow
  <1>8. /\ \A i \in 1 .. l : segs2[i] = done[i].data
        /\ segs2[l + 1] = tx.armed /\ segs2[l + 2] = Pending'
    BY <1>1, <1>6, SegmentsNext
  <1>9. Stream' = Stream
    BY <1>1 DEF Stream
  <1>10. Lays(f, st, l + 2, Stream, segs)
    BY <1>5, <1>6
  <1>11. dev'.packet = dev.packet \/ ~plugged => Segments' = Segments
    BY <1>1 DEF Segments, Pending
  <1> HIDE DEF segs, segs2
  <1>12. \E g \in Packets :
            /\ Lays(g, st, l + 2, Stream, segs2)
            /\ \A k \in 1 .. m : k \in 1 .. Len(g) /\ g[k] = f[k]
            /\ \A k \in 1 .. Len(g) : k \in 1 .. m \/ (k = m + 1 /\ g[k] = r /\ dev'.dropped = dev.dropped /\ plugged)
            /\ \/ dev'.dropped = dev.dropped /\ m + 1 \in 1 .. Len(g)
               \/ dev'.dropped = dev.dropped /\ ~plugged
               \/ dev'.dropped = dev.dropped \cup {q}
    <2>1. CASE dev'.packet = Append(dev.packet, r) /\ dev'.dropped = dev.dropped /\ plugged
      <3>1. Pending' = Append(Pending, r)
        BY <1>1, <2>1 DEF Pending
      <3>2. PICK n \in Nat \ {0} : n = l + 2
        OBVIOUS
      <3>3. segs2[n] = Append(segs[n], r) /\ \A i \in 1 .. n - 1 : segs2[i] = segs[i]
        <4>1. \A i \in 1 .. n - 1 : i \in 1 .. l \/ i = l + 1
          BY <3>2
        <4> QED  BY <1>7, <1>8, <3>1, <3>2, <4>1
      <3>4. segs[n] \in Packets /\ \A i \in 1 .. n : Len(segs[i]) \in Nat
        BY <1>7, <3>2
      <3>5. Lays(f, st, n, Stream, segs)
        BY <1>10, <3>2
      <3>6. Lays(Append(f, r), st, n, Stream, segs2)
        BY <1>2, <1>5, <3>2, <3>3, <3>4, <3>5, LaysMore
      <3>7. /\ Append(f, r) \in Packets /\ Len(Append(f, r)) = m + 1 /\ Append(f, r)[m + 1] = r
            /\ \A k \in 1 .. m : Append(f, r)[k] = f[k]
        BY <1>2, <1>5, <1>6, AppendProperties DEF Packets
      <3>8. /\ \A k \in 1 .. m + 1 : k \in 1 .. m \/ k = m + 1
            /\ \A k \in 1 .. m : k \in 1 .. m + 1
            /\ m + 1 \in 1 .. m + 1
        OBVIOUS
      <3> USE <3>7
      <3> WITNESS Append(f, r) \in Packets
      <3> QED  BY <2>1, <3>2, <3>6, <3>7, <3>8
    <2>2. CASE ~plugged \/ (dev'.packet = dev.packet /\ dev'.dropped = dev.dropped \cup {q})
      <3>1. segs2 = segs
        BY <1>11, <2>2 DEF segs, segs2
      <3>2. f \in Packets
        BY <1>5
      <3> USE <3>2
      <3> WITNESS f \in Packets
      <3> QED  BY <1>4, <1>6, <1>10, <2>2, <3>1
    <2> QED  BY <1>4, <2>1, <2>2
  <1>13. PICK g \in Packets :
            /\ Lays(g, st, l + 2, Stream, segs2)
            /\ \A k \in 1 .. m : k \in 1 .. Len(g) /\ g[k] = f[k]
            /\ \A k \in 1 .. Len(g) : k \in 1 .. m \/ (k = m + 1 /\ g[k] = r /\ dev'.dropped = dev.dropped /\ plugged)
            /\ \/ dev'.dropped = dev.dropped /\ m + 1 \in 1 .. Len(g)
               \/ dev'.dropped = dev.dropped /\ ~plugged
               \/ dev'.dropped = dev.dropped \cup {q}
    BY <1>12
  <1>14. /\ \A k \in 1 .. m : f[k].stream <= dev.stream
         /\ \A k \in 1 .. m : f[k].stream = dev.stream =>
               /\ f[k] \in Record
               /\ worker.last < f[k].seq /\ f[k].seq < q /\ f[k].seq \notin dev.dropped
               /\ \A j \in 1 .. m : j < k /\ f[j].stream = dev.stream => f[j].seq < f[k].seq
    <2>1. \A k \in 1 .. m : f[k] \in Record
      BY <1>5, <1>6, ElementOfSeq DEF Packets
    <2> QED  BY <1>2, <1>5, <1>6, <2>1 DEF Ordered, Current
  <1>15. worker.last < q /\ q \notin dev.dropped /\ dev.stream <= dev.stream
    <2>1. worker.last \in -1 .. q - 1 /\ dev.dropped \subseteq 1 .. q - 1
      BY <1>2 DEF CountPart
    <2>2. dev.stream \in Nat
      BY <1>1 DEF BulkTypes
    <2> QED  BY <2>1, <2>2
  <1>16. Ordered(g)'
    <2> SUFFICES ASSUME NEW k \in 1 .. Len(g)
                 PROVE  /\ g[k].stream <= dev.stream
                        /\ g[k].stream = dev.stream =>
                              /\ worker.last < g[k].seq /\ g[k].seq < q + 1
                              /\ g[k].seq \notin dev'.dropped
                              /\ \A j \in 1 .. Len(g) :
                                    j < k /\ g[j].stream = dev.stream => g[j].seq < g[k].seq
      BY <1>1, <1>4 DEF Ordered, Current
    <2>1. dev'.dropped = dev.dropped \/ dev'.dropped = dev.dropped \cup {q}
      BY <1>13
    <2>2. CASE k \in 1 .. m
      <3>1. \A j \in 1 .. Len(g) : j < k => j \in 1 .. m /\ g[j] = f[j]
        BY <1>13, <2>2
      <3>2. g[k] = f[k] /\ f[k].stream <= dev.stream
        BY <1>13, <1>14, <2>2
      <3>3. ASSUME g[k].stream = dev.stream
            PROVE  /\ worker.last < g[k].seq /\ g[k].seq < q + 1 /\ g[k].seq # q
                   /\ g[k].seq \notin dev.dropped
                   /\ \A j \in 1 .. m : j < k /\ f[j].stream = dev.stream => f[j].seq < g[k].seq
        <4>1. PICK z \in Nat : z = f[k].seq
          BY <1>14, <2>2, <3>2, <3>3 DEF Record
        <4>2. z < q
          BY <1>14, <2>2, <3>2, <3>3, <4>1
        <4>3. z < q + 1 /\ z # q
          BY <4>2
        <4> QED  BY <1>14, <2>2, <3>2, <3>3, <4>1, <4>3
      <3> QED  BY <2>1, <3>1, <3>2, <3>3
    <2>3. CASE k = m + 1 /\ g[k] = r /\ dev'.dropped = dev.dropped
      <3>2. \A j \in 1 .. Len(g) : j < k => j \in 1 .. m /\ g[j] = f[j]
        BY <1>13, <2>3
      <3>3. g[k].stream = dev.stream /\ g[k].seq = q /\ q < q + 1
        BY <1>3, <2>3
      <3>4. \A j \in 1 .. Len(g) : j < k /\ g[j].stream = dev.stream => g[j].seq < g[k].seq
        BY <1>14, <3>2, <3>3
      <3>5. q \notin dev'.dropped
        BY <1>15, <2>3
      <3> QED  BY <1>15, <3>3, <3>4, <3>5
    <2> QED  BY <1>13, <2>2, <2>3
  <1>17. Covered(g)'
    <2> SUFFICES ASSUME worker.stage # "gone", NEW s \in 0 .. (q + 1) - 1,
                        ~(s <= worker.last), s \notin dev'.dropped
                 PROVE  \/ \E k \in 1 .. Len(g) : g[k].stream = dev.stream /\ g[k].seq = s
                        \/ ~plugged /\ \A k \in 1 .. Len(g) : g[k].stream = dev.stream => g[k].seq < s
      BY <1>1, <1>4 DEF Covered, Current
    <2>1. s \in 0 .. q - 1 \/ s = q
      OBVIOUS
    <2>2. CASE s \in 0 .. q - 1
      <3>1. s \notin dev.dropped
        BY <1>13
      <3>2. \/ \E k \in 1 .. m : f[k].stream = dev.stream /\ f[k].seq = s
            \/ ~plugged /\ \A k \in 1 .. m : f[k].stream = dev.stream => f[k].seq < s
        BY <1>2, <1>5, <1>6, <2>2, <3>1 DEF Covered, Current
      <3>3. CASE \E k \in 1 .. m : f[k].stream = dev.stream /\ f[k].seq = s
        BY <1>13, <3>3
      <3>4. CASE ~plugged /\ \A k \in 1 .. m : f[k].stream = dev.stream => f[k].seq < s
        <4>1. \A k \in 1 .. Len(g) : k \in 1 .. m
          BY <1>13, <3>4
        <4> QED  BY <1>13, <3>4, <4>1
      <3> QED  BY <3>2, <3>3, <3>4
    <2>3. CASE s = q
      <3>1. dev'.dropped = dev.dropped /\ (m + 1 \in 1 .. Len(g) \/ ~plugged)
        BY <1>13, <2>3
      <3>2. CASE m + 1 \in 1 .. Len(g)
        <4>1. ~(m + 1 \in 1 .. m)
          OBVIOUS
        <4>2. g[m + 1] = r
          BY <1>13, <3>2, <4>1
        <4> QED  BY <1>3, <2>3, <3>2, <4>2
      <3>3. CASE ~plugged
        <4>1. \A k \in 1 .. Len(g) : k \in 1 .. m /\ g[k] = f[k]
          BY <1>13, <3>3
        <4>2. \A k \in 1 .. m : f[k].stream = dev.stream => f[k].seq < q
          BY <1>14
        <4> QED  BY <2>3, <3>3, <4>1, <4>2
      <3> QED  BY <3>1, <3>2, <3>3
    <2> QED  BY <2>1, <2>2, <2>3
  <1>18. Timed(g, start, b)'
    <2>1. /\ dev.stream > 0 => startT = start % ClockWrap
          /\ dev.clock = (start + q) % ClockWrap
          /\ \A k \in 1 .. m :
                IF f[k].stream = dev.stream THEN f[k].t = (start + f[k].seq) % ClockWrap
                ELSE \E s \in 0 .. start - 1 : /\ start - s <= b[dev.stream - 1]
                                               /\ f[k].t = s % ClockWrap
      BY <1>2, <1>5, <1>6 DEF Timed, Current
    <2>2. Tick = (start + (q + 1)) % ClockWrap
      <3>1. ClockWrap \in Nat \ {0} /\ start + q \in Nat /\ (start + q) + 1 = start + (q + 1)
        BY BulkAssumption
      <3>2. (((start + q) % ClockWrap) + 1) % ClockWrap = ((start + q) + 1) % ClockWrap
        <4>1. \A a \in Nat : ((a % ClockWrap) + 1) % ClockWrap = (a + 1) % ClockWrap
          <5>1. 1 \in Nat
            OBVIOUS
          <5> QED  BY <3>1, <5>1, ModSum, SMTT(30)
        <4> QED  BY <3>1, <4>1
      <3> QED  BY <2>1, <3>1, <3>2 DEF Tick
    <2>3. ASSUME NEW k \in 1 .. Len(g)
          PROVE  IF g[k].stream = dev.stream THEN g[k].t = (start + g[k].seq) % ClockWrap
                 ELSE \E s \in 0 .. start - 1 : /\ start - s <= b[dev.stream - 1]
                                                /\ g[k].t = s % ClockWrap
      <3>1. CASE k \in 1 .. m
        BY <1>13, <2>1, <3>1
      <3>2. CASE k = m + 1 /\ g[k] = r
        BY <1>3, <2>1, <3>2
      <3> QED  BY <1>13, <3>1, <3>2
    <2> QED  BY <1>1, <1>4, <2>1, <2>2, <2>3 DEF Timed, Current
  <1>19. Lays(g, st, Len(done') + 2, Stream', Segments')
    BY <1>1, <1>6, <1>9, <1>13 DEF segs2
  <1> QED  BY <1>13, <1>16, <1>17, <1>18, <1>19 DEF FlowInv

(* The worker uses up the first units.                                     *)
LEMMA UsedUp ==
    ASSUME NEW u \in Seq(Unit), NEW v \in Seq(Unit), NEW w \in Seq(Unit), NEW c \in Nat,
           Shifted(u, w, c)
    PROVE  Len(u \o v) \in Nat /\ Shifted(u \o v, w \o v, c)
  <1>1. PICK l \in Nat, m \in Nat, n \in Nat : l = Len(u) /\ m = Len(v) /\ n = Len(w)
    BY LenProperties
  <1>2. n = l - c /\ \A i \in 1 .. n : w[i] = u[i + c]
    BY <1>1 DEF Shifted
  <1>3. Len(u \o v) = l + m /\ \A i \in 1 .. l + m : (u \o v)[i] = IF i <= l THEN u[i] ELSE v[i - l]
    BY <1>1, ConcatProperties
  <1>4. Len(w \o v) = n + m /\ \A i \in 1 .. n + m : (w \o v)[i] = IF i <= n THEN w[i] ELSE v[i - n]
    BY <1>1, ConcatProperties
  <1>5. ASSUME NEW i \in 1 .. n + m
        PROVE  (w \o v)[i] = (u \o v)[i + c]
    <2>1. i + c \in 1 .. l + m
      BY <1>2
    <2>2. CASE i <= n
      <3>1. i \in 1 .. n /\ i + c <= l
        BY <1>2, <2>2
      <3> QED  BY <1>2, <1>3, <1>4, <2>1, <2>2, <3>1
    <2>3. CASE ~(i <= n)
      <3>1. ~(i + c <= l) /\ (i + c) - l = i - n
        BY <1>2, <2>3
      <3> QED  BY <1>3, <1>4, <2>1, <2>3, <3>1
    <2> QED  BY <2>2, <2>3
  <1>6. l + m \in Nat /\ n + m = (l + m) - c
    BY <1>2
  <1> QED  BY <1>3, <1>4, <1>5, <1>6 DEF Shifted

LEMMA StreamFront ==
    ASSUME BulkTypes, StreamTypes
    PROVE  /\ Len(worker.buffer) \in Nat
           /\ \A i \in 1 .. Len(worker.buffer) : Stream[i] = worker.buffer[i]
           /\ Len(Stream) \in Nat /\ Len(Stream) >= Len(worker.buffer)
  <1>1. PICK u \in Seq(Unit), v \in Seq(Unit) : u = worker.buffer /\ v = bytes
    BY WireTypes
  <1>2. PICK l \in Nat, m \in Nat : l = Len(u) /\ m = Len(v)
    BY <1>1, LenProperties
  <1>3. Len(u \o v) = l + m /\ \A i \in 1 .. l + m : (u \o v)[i] = IF i <= l THEN u[i] ELSE v[i - l]
    BY <1>1, <1>2, ConcatProperties
  <1>4. l + m \in Nat /\ l + m >= l /\ \A i \in 1 .. l : i \in 1 .. l + m /\ i <= l
    OBVIOUS
  <1> QED  BY <1>1, <1>2, <1>3, <1>4 DEF Stream

(* What is on its way, and the clock it is measured with.                  *)
Flow(f, st, start, b) ==
    /\ f \in Packets /\ st \in Nat /\ start \in Nat
    /\ Lays(f, st, Len(done) + 2, Stream, Segments)
    /\ Ordered(f) /\ Covered(f) /\ Timed(f, start, b)

(* The first record of the buffer is the first one on its way, and its age *)
(* tells whether it is of this stream.                                     *)
LEMMA InFront ==
    ASSUME BulkInv, StreamTypes, CountPart, NEW b, Budget(b),
           NEW f, NEW st, NEW start, Flow(f, st, start, b), HasRecord
    PROVE  /\ st = 0 /\ Len(f) \in Nat /\ Len(f) >= 1 /\ f[1] \in Record
           /\ Rec = f[1] /\ worker.buffer[2].rec = f[1]
           /\ Stale <=> ~Current(f[1])
  <1>0. BulkTypes /\ f \in Packets /\ st \in Nat /\ start \in Nat
    BY DEF BulkInv, Flow
  <1>1. worker.buffer # <<>> /\ Head(worker.buffer).part = "head" /\ Len(worker.buffer) >= 2
    BY DEF HasRecord, HasHeader, Buffer
  <1>2. /\ Len(worker.buffer) \in Nat /\ Head(worker.buffer) = worker.buffer[1]
        /\ Stream[1] = worker.buffer[1] /\ Stream[2] = worker.buffer[2] /\ Len(Stream) >= 1
    <2>1. Head(worker.buffer) = worker.buffer[1]
      BY <1>1, FirstUnit
    <2>2. 1 \in 1 .. Len(worker.buffer) /\ 2 \in 1 .. Len(worker.buffer)
      BY <1>0, <1>1, StreamFront
    <2> QED  BY <1>0, <1>1, <2>1, <2>2, StreamFront
  <1>3. PICK u, segs, n : u = Stream /\ segs = Segments /\ n \in Nat /\ n = Len(done) + 2
    BY <1>0, WireTypes
  <1>4. Lays(f, st, n, u, segs) /\ Len(u) >= 1 /\ u[1].part = "head"
    BY <1>1, <1>2, <1>3 DEF Flow
  <1>5. /\ st = 0 /\ Len(u) >= 2 /\ Len(f) >= 1
        /\ u[1] = [part |-> "head", rec |-> f[1]] /\ u[2] = [part |-> "body", rec |-> f[1]]
    BY <1>0, <1>3, <1>4, FrontUnit
  <1>6. Rec = f[1] /\ worker.buffer[2].rec = f[1]
    BY <1>2, <1>3, <1>5 DEF Rec, Buffer
  <1>7. Len(f) \in Nat /\ 1 \in 1 .. Len(f) /\ f[1] \in Record
    <2>1. Len(f) \in Nat
      BY <1>0, LenProperties DEF Packets
    <2>2. 1 \in 1 .. Len(f)
      BY <1>5, <2>1
    <2> QED  BY <1>0, <2>1, <2>2, ElementOfSeq DEF Packets
  <1>8. PICK q \in Nat, s \in Nat, d \in Nat :
            q = f[1].seq /\ s = f[1].stream /\ d = dev.stream
    BY <1>0, <1>7, WireTypes DEF Record
  <1>9. s <= d /\ (s = d => q < dev.seq)
    BY <1>7, <1>8 DEF Flow, Ordered, Current
  <1>10. d > 0 /\ dev.seq <= MaxSeq[d] /\ d \in 1 .. Len(MaxSeq)
    <2>1. dev.seq \in Nat /\ d \in 0 .. Len(MaxSeq) /\ Len(MaxSeq) \in Nat
      BY <1>0, <1>8, LenProperties, BulkAssumption DEF BulkTypes
    <2>2. d # 0
      BY <1>8, <1>9, <2>1 DEF CountPart
    <2> QED  BY <1>8, <2>1, <2>2 DEF CountPart
  <1>11. PICK x \in Nat, y \in Nat, z \in Nat :
            /\ x = b[d] /\ y = b[d - 1] /\ z = MaxSeq[d] /\ x >= y + z + 1
            /\ 2 * x < ClockWrap /\ 2 * y < ClockWrap
    <2>1. PICK top \in Nat : top = Len(MaxSeq)
      BY LenProperties, BulkAssumption
    <2>2. d \in 0 .. top /\ d - 1 \in 0 .. top /\ d \in 1 .. top
      BY <1>10, <2>1
    <2>3. MaxSeq[d] \in Nat
      BY <1>10, ElementOfSeq, BulkAssumption
    <2> QED  BY <2>1, <2>2, <2>3 DEF Budget
  <1>12. startT = start % ClockWrap
    BY <1>8, <1>10 DEF Flow, Timed
  <1>13. ClockWrap \in Nat \ {0}
    BY BulkAssumption
  <1>14. Stale <=> IsStale(ClockWrap, start % ClockWrap, f[1].t)
    BY <1>6, <1>12 DEF Stale
  <1>15. CASE Current(f[1])
    <2>1. s = d
      BY <1>8, <1>15 DEF Current
    <2>2. q < dev.seq /\ dev.seq <= z /\ dev.seq \in Nat
      BY <1>0, <1>9, <1>10, <1>11, <2>1, WireTypes
    <2>3. 2 * q < ClockWrap
      BY <1>11, <1>13, <2>2
    <2>4. f[1].t = (start + q) % ClockWrap
      BY <1>7, <1>8, <1>15 DEF Flow, Timed
    <2>5. PICK a \in Nat : a = start + q
      BY <1>0
    <2>6. 2 * (start - a) < ClockWrap /\ 2 * (a - start) < ClockWrap /\ ~(a < start)
      BY <1>0, <1>13, <2>3, <2>5
    <2>7. IsStale(ClockWrap, start % ClockWrap, a % ClockWrap) <=> a < start
      BY <1>0, <1>13, <2>5, <2>6, StaleExact, ZenonT(30)
    <2> QED  BY <1>5, <1>6, <1>7, <1>14, <1>15, <2>4, <2>5, <2>6, <2>7
  <1>16. CASE ~Current(f[1])
    <2>1. PICK a \in 0 .. start - 1 : start - a <= y /\ f[1].t = a % ClockWrap
      BY <1>7, <1>8, <1>11, <1>16 DEF Flow, Timed
    <2>2. a \in Nat /\ a < start
      BY <1>0, <2>1
    <2>3. 2 * (start - a) < ClockWrap /\ 2 * (a - start) < ClockWrap
      BY <1>0, <1>11, <1>13, <2>1, <2>2
    <2>4. IsStale(ClockWrap, start % ClockWrap, a % ClockWrap) <=> a < start
      BY <1>0, <1>13, <2>2, <2>3, StaleExact, ZenonT(30)
    <2> QED  BY <1>5, <1>6, <1>7, <1>14, <1>16, <2>1, <2>2, <2>4
  <1> QED  BY <1>15, <1>16

(* The body of a record whose header is gone is passed over.               *)
LEMMA HuntCuts ==
    ASSUME BulkInv, StreamTypes, NEW b, FlowInv(b), Hunt
    PROVE  FlowInv(b)'
  <1>1. /\ UNCHANGED bulkVars /\ UNCHANGED startT /\ BulkTypes
        /\ worker.stage = "decode" /\ worker.buffer # <<>> /\ Head(worker.buffer).part # "head"
        /\ worker' = [worker EXCEPT !.hunting = TRUE, !.buffer = Tail(@)]
    BY DEF Hunt, HasHeader, Buffer, BulkInv
  <1>2. PICK w \in Seq(Unit), v \in Seq(Unit), y \in Seq(Unit) :
            w = worker.buffer /\ v = bytes /\ y = Tail(worker.buffer)
    BY <1>1, WireTypes, FirstUnit DEF UnitSeqs
  <1>3. /\ Len(w) \in Nat /\ Len(w) >= 1 /\ Head(w) = w[1] /\ Len(y) = Len(w) - 1
        /\ \A i \in 1 .. Len(w) - 1 : y[i] = w[i + 1]
    BY <1>1, <1>2, FirstUnit
  <1>4. Stream = w \o v /\ Stream' = y \o v /\ worker'.last = worker.last /\ worker'.stage # "gone"
    BY <1>1, <1>2 DEF Stream, StreamTypes, bulkVars
  <1>5. Len(w \o v) \in Nat /\ Shifted(w \o v, y \o v, 1)
    <2>1. 1 \in Nat /\ Shifted(w, y, 1)
      BY <1>3 DEF Shifted
    <2> QED  BY <1>2, <2>1, UsedUp
  <1>6. PICK u, u2, segs, n : u = w \o v /\ u2 = y \o v /\ segs = Segments /\ n = Len(done) + 2
    OBVIOUS
  <1>7. n \in Nat /\ Len(u) \in Nat /\ Len(u) >= 1 /\ u[1].part # "head"
    <2>1. Stream[1] = worker.buffer[1] /\ Len(Stream) >= Len(worker.buffer)
      <3>1. 1 \in 1 .. Len(worker.buffer)
        BY <1>2, <1>3
      <3> QED  BY <1>1, <3>1, StreamFront
    <2>2. n \in Nat
      BY <1>1, <1>6, WireTypes
    <2> QED  BY <1>1, <1>2, <1>3, <1>4, <1>5, <1>6, <2>1, <2>2
  <1>8. PICK f \in Packets, st \in Nat, start \in Nat :
            Lays(f, st, n, u, segs) /\ Ordered(f) /\ Covered(f) /\ Timed(f, start, b)
    BY <1>4, <1>6 DEF FlowInv
  <1>9. st >= 1
    BY <1>7, <1>8, FrontUnit
  <1>10. Lays(f, st - 1, n, u2, segs)
    <2>1. Len(u2) = Len(u) - 1 /\ \A i \in 1 .. Len(u) - 1 : u2[i] = u[i + 1]
      BY <1>5, <1>6 DEF Shifted
    <2> QED  BY <1>7, <1>8, <1>9, <2>1, LaysBody
  <1>11. SameClock /\ Segments' = Segments /\ done' = done
    BY <1>1 DEF SameClock, Segments, Pending, bulkVars
  <1>12. Covered(f)'
    BY <1>1, <1>4, <1>8, <1>11 DEF Covered, SameClock, Current, bulkVars
  <1>13. Lays(f, st - 1, Len(done') + 2, Stream', Segments')
    BY <1>4, <1>6, <1>10, <1>11
  <1>14. \A k \in 1 .. Len(f) : Current(f[k]) => worker'.last < f[k].seq
    BY <1>4, <1>8 DEF Ordered
  <1>15. st - 1 \in Nat
    BY <1>9
  <1> QED  BY <1>8, <1>11, <1>12, <1>13, <1>14, <1>15, WindowWhole, FlowFrom

HeaderLost(f, st, n, u, segs, u2) ==
    /\ f \in Packets /\ st \in Nat /\ n \in Nat /\ Len(u) \in Nat /\ Len(u) >= 1
    /\ u[1].part = "head" /\ Lays(f, st, n, u, segs) /\ Shifted(u, u2, 1)
    /\ \A i \in 1 .. n : Len(segs[i]) \in Nat

LEMMA LosesHeader ==
    ASSUME NEW f, NEW st, NEW n, NEW u, NEW segs, NEW u2, HeaderLost(f, st, n, u, segs, u2)
    PROVE  /\ st = 0 /\ Len(f) >= 1
           /\ \E g \in Packets : /\ Lays(g, 1, n, u2, segs) /\ Len(g) = Len(f) - 1
                                 /\ \A k \in 1 .. Len(g) : g[k] = f[1 + k]
  <1>1. /\ f \in Packets /\ st \in Nat /\ n \in Nat /\ Len(u) \in Nat /\ Len(u) >= 1
        /\ u[1].part = "head" /\ Lays(f, st, n, u, segs) /\ Shifted(u, u2, 1)
        /\ \A i \in 1 .. n : Len(segs[i]) \in Nat
    BY DEF HeaderLost
  <1>2. /\ st = 0 /\ Len(u) >= 2 /\ Len(f) >= 1
        /\ u[1] = [part |-> "head", rec |-> f[1]] /\ u[2] = [part |-> "body", rec |-> f[1]]
    BY <1>1, FrontUnit
  <1>3. PICK rest \in {0, 1}, c \in Int : /\ rest = 1 /\ c = 2 - rest /\ Shifted(u, u2, c)
                                  /\ Lays(f, 0, n, u, segs)
    <2>1. 1 \in {0, 1} /\ 1 = 2 - 1 /\ Lays(f, 0, n, u, segs)
      BY <1>1, <1>2
    <2> QED  BY <1>1, <2>1
  <1>4. \E g \in Packets : /\ Lays(g, rest, n, u2, segs) /\ Len(g) = Len(f) - 1
                           /\ \A k \in 1 .. Len(g) : g[k] = f[1 + k]
    BY <1>1, <1>3, LaysRecord
  <1>5. rest = 1
    BY <1>3
  <1> QED  BY <1>2, <1>4, <1>5

(* A worker that ends loses the header it has.                             *)
LEMMA EndCuts ==
    ASSUME BulkInv, StreamTypes, ThreadPart, NEW b, FlowInv(b), WorkerEnds
    PROVE  FlowInv(b)'
  <1>1. /\ UNCHANGED bulkVars /\ UNCHANGED startT /\ BulkTypes
        /\ worker'.stage = "gone" /\ worker'.buffer = <<>> /\ worker'.last = worker.last
        /\ worker.buffer = <<>> \/ (Len(worker.buffer) = 1 /\ worker.buffer[1].part = "head")
    BY DEF WorkerEnds, NewWorker, ThreadPart, BulkInv
  <1>2. SameClock /\ Segments' = Segments /\ done' = done /\ plugged' = plugged /\ bytes' = bytes
    BY <1>1 DEF SameClock, Segments, Pending, bulkVars
  <1>3. CASE worker.buffer = <<>>
    <2>1. Stream' = Stream
      BY <1>1, <1>2, <1>3 DEF Stream
    <2> QED  BY <1>1, <1>2, <2>1, FlowStays
  <1>4. CASE Len(worker.buffer) = 1 /\ worker.buffer[1].part = "head"
    <2>1. PICK w \in Seq(Unit), v \in Seq(Unit), y \in Seq(Unit) :
              w = worker.buffer /\ v = bytes /\ y = <<>>
      <3>1. <<>> \in Seq(Unit)
        OBVIOUS
      <3> QED  BY <1>1, <3>1, WireTypes
    <2>2. Len(w) = 1 /\ Len(y) = 0 /\ w[1].part = "head"
      BY <1>4, <2>1
    <2>3. Stream = w \o v /\ Stream' = y \o v
      BY <1>1, <1>2, <2>1 DEF Stream
    <2>4. Len(w \o v) \in Nat /\ Shifted(w \o v, y \o v, 1)
      <3>1. 1 \in Nat /\ Shifted(w, y, 1)
        BY <2>2 DEF Shifted
      <3> QED  BY <2>1, <3>1, UsedUp
    <2>5. PICK u, u2, segs, n : u = w \o v /\ u2 = y \o v /\ segs = Segments /\ n = Len(done) + 2
      OBVIOUS
    <2>6. n \in Nat /\ Len(u) \in Nat /\ Len(u) >= 1 /\ u[1].part = "head"
      <3>1. Stream[1] = worker.buffer[1] /\ Len(Stream) >= Len(worker.buffer)
        <4>1. 1 \in 1 .. Len(worker.buffer)
          BY <2>1, <2>2
        <4> QED  BY <1>1, <4>1, StreamFront
      <3>2. n \in Nat
        BY <1>1, <2>5, WireTypes
      <3> QED  BY <2>1, <2>2, <2>3, <2>4, <2>5, <3>1, <3>2
    <2>7. PICK f \in Packets, st \in Nat, start \in Nat :
              Lays(f, st, n, u, segs) /\ Ordered(f) /\ Covered(f) /\ Timed(f, start, b)
      BY <2>3, <2>5 DEF FlowInv
    <2>a. HeaderLost(f, st, n, u, segs, u2)
      <3>1. Shifted(u, u2, 1)
        BY <2>4, <2>5
      <3>2. \A i \in 1 .. n : Len(segs[i]) \in Nat
        BY <1>1, <2>5, SegmentsNow
      <3> QED  BY <2>6, <2>7, <3>1, <3>2 DEF HeaderLost
    <2>8. st = 0 /\ Len(f) >= 1
      BY <2>a, LosesHeader
    <2>9. PICK g \in Packets : /\ Lays(g, 1, n, u2, segs) /\ Len(g) = Len(f) - 1
                               /\ \A k \in 1 .. Len(g) : g[k] = f[1 + k]
      BY <2>a, LosesHeader
    <2>10. Len(f) \in Nat /\ Len(g) \in Nat
      BY LenProperties DEF Packets
    <2>11. Window(f, g, 1)
      <3>1. 1 \in Nat /\ 1 + Len(g) <= Len(f)
        BY <2>8, <2>9, <2>10
      <3> QED  BY <2>9, <2>10, <3>1 DEF Window
    <2>12. Covered(g)'
      BY <1>1 DEF Covered
    <2>13. Lays(g, 1, Len(done') + 2, Stream', Segments')
      BY <1>2, <2>3, <2>5, <2>9
    <2>14. \A k \in 1 .. Len(g) : Current(g[k]) => worker'.last < g[k].seq
      <3>1. \A k \in 1 .. Len(g) : 1 + k \in 1 .. Len(f) /\ g[k] = f[1 + k]
        BY <2>9, <2>10
      <3> QED  BY <1>1, <2>7, <3>1 DEF Ordered
    <2>15. 1 \in Nat
      OBVIOUS
    <2> QED  BY <1>2, <2>7, <2>11, <2>12, <2>13, <2>14, <2>15, FlowFrom
  <1> QED  BY <1>1, <1>3, <1>4

(* A whole record is cut off; if it is of this stream, it has become the   *)
(* last one received.                                                      *)
LEMMA RecordCuts ==
    ASSUME BulkInv, StreamTypes, CountPart, NEW b, Budget(b), FlowInv(b), SkipStale \/ DecodeRecord
    PROVE  FlowInv(b)'
  <1>1. /\ UNCHANGED bulkVars /\ UNCHANGED startT /\ BulkTypes /\ HasRecord
        /\ worker.stage = "decode" /\ worker'.stage # "gone"
        /\ worker'.buffer = SubSeq(worker.buffer, 3, Len(worker.buffer))
        /\ worker'.last = IF Stale THEN worker.last ELSE Rec.seq
    <2>1. worker \in WorkerType
      BY DEF StreamTypes, WorkerType
    <2> QED  BY <2>1 DEF SkipStale, DecodeRecord, Received, BulkInv, Buffer, WorkerType
  <1>2. PICK f, st, start : Flow(f, st, start, b)
    BY DEF FlowInv, Flow
  <1>3. /\ f \in Packets /\ st \in Nat /\ start \in Nat
        /\ Ordered(f) /\ Covered(f) /\ Timed(f, start, b)
    BY <1>2 DEF Flow
  <1>4. /\ st = 0 /\ Len(f) \in Nat /\ Len(f) >= 1 /\ f[1] \in Record /\ Rec = f[1]
        /\ Stale <=> ~Current(f[1])
    BY <1>1, <1>2, InFront
  <1>5. PICK w \in Seq(Unit), v \in Seq(Unit), y \in Seq(Unit) :
            /\ w = worker.buffer /\ v = bytes /\ y = worker'.buffer
            /\ Len(w) \in Nat /\ Len(w) >= 2 /\ Len(y) = Len(w) - 2
            /\ \A i \in 1 .. Len(w) - 2 : y[i] = w[i + 2]
    <2>1. Len(worker.buffer) >= 2
      BY <1>1 DEF HasRecord, Buffer
    <2> QED  BY <1>1, <2>1, WireTypes, FirstUnit DEF UnitSeqs
  <1>6. Stream = w \o v /\ Stream' = y \o v
    BY <1>1, <1>5 DEF Stream, bulkVars
  <1>7. Len(w \o v) \in Nat /\ Shifted(w \o v, y \o v, 2)
    <2>1. 2 \in Nat /\ Shifted(w, y, 2)
      BY <1>5 DEF Shifted
    <2> QED  BY <1>5, <2>1, UsedUp
  <1>8. PICK u, u2, segs, n : u = w \o v /\ u2 = y \o v /\ segs = Segments /\ n = Len(done) + 2
    OBVIOUS
  <1>9. n \in Nat /\ Len(u) \in Nat /\ Len(u) >= 1
    <2>1. Len(Stream) >= Len(worker.buffer) /\ n \in Nat
      BY <1>1, <1>8, WireTypes, StreamFront
    <2> QED  BY <1>5, <1>6, <1>7, <1>8, <2>1
  <1>10. PICK g \in Packets : /\ Lays(g, 0, n, u2, segs) /\ Len(g) = Len(f) - 1
                              /\ \A k \in 1 .. Len(g) : g[k] = f[1 + k]
    <2>1. 0 \in {0, 1} /\ 2 = 2 - 0 /\ Shifted(u, u2, 2)
      BY <1>7, <1>8
    <2>2. \A i \in 1 .. n : Len(segs[i]) \in Nat
      BY <1>1, <1>8, SegmentsNow
    <2>3. Lays(f, 0, n, u, segs)
      BY <1>2, <1>4, <1>6, <1>8 DEF Flow
    <2> QED  BY <1>3, <1>9, <2>1, <2>2, <2>3, LaysRecord
  <1>11. Len(g) \in Nat /\ \A k \in 1 .. Len(g) : 1 + k \in 1 .. Len(f) /\ g[k] = f[1 + k]
    <2>1. Len(g) \in Nat
      BY LenProperties DEF Packets
    <2> QED  BY <1>4, <1>10, <2>1
  <1>12. Window(f, g, 1)
    <2>1. 1 \in Nat /\ 1 + Len(g) <= Len(f)
      BY <1>4, <1>10, <1>11
    <2> QED  BY <1>4, <1>11, <2>1 DEF Window
  <1>13. SameClock /\ Segments' = Segments /\ done' = done /\ plugged' = plugged
    BY <1>1 DEF SameClock, Segments, Pending, bulkVars
  <1>14. 1 \in 1 .. Len(f) /\ \A k \in 1 .. Len(g) : 1 < 1 + k
    BY <1>4, <1>11
  <1>15. \A k \in 1 .. Len(g) : Current(g[k]) => worker'.last < g[k].seq
    <2>1. CASE Stale
      BY <1>1, <1>3, <1>11, <2>1 DEF Ordered
    <2>2. CASE ~Stale
      <3>1. Current(f[1]) /\ worker'.last = f[1].seq
        BY <1>1, <1>4, <2>2
      <3> QED  BY <1>3, <1>11, <1>14, <3>1 DEF Ordered
    <2> QED  BY <2>1, <2>2
  <1>16. Covered(g)'
    <2> SUFFICES ASSUME NEW s \in 0 .. dev.seq - 1,
                        ~(s <= worker'.last), s \notin dev.dropped
                 PROVE  \/ \E k \in 1 .. Len(g) : Current(g[k]) /\ g[k].seq = s
                        \/ ~plugged /\ \A k \in 1 .. Len(g) : Current(g[k]) => g[k].seq < s
      BY <1>13 DEF Covered, SameClock, Current
    <2>1. worker'.last = worker.last \/ (worker.last < f[1].seq /\ worker'.last = f[1].seq)
      <3>1. CASE Stale
        BY <1>1, <3>1
      <3>2. CASE ~Stale
        <4>1. Current(f[1]) /\ worker'.last = f[1].seq
          BY <1>1, <1>4, <3>2
        <4> QED  BY <1>3, <1>14, <4>1 DEF Ordered
      <3> QED  BY <3>1, <3>2
    <2>2. ~(s <= worker.last)
      <3>1. PICK x \in Int, z \in Nat : x = worker.last /\ z = f[1].seq
        BY <1>4 DEF StreamTypes, Record
      <3>2. worker'.last = x \/ (x < z /\ worker'.last = z)
        BY <2>1, <3>1
      <3>3. s \in Int
        BY <1>1, WireTypes
      <3> QED  BY <3>1, <3>2, <3>3
    <2>3. \/ \E k \in 1 .. Len(f) : Current(f[k]) /\ f[k].seq = s
          \/ ~plugged /\ \A k \in 1 .. Len(f) : Current(f[k]) => f[k].seq < s
      BY <1>1, <1>3, <2>2 DEF Covered
    <2>4. CASE \E k \in 1 .. Len(f) : Current(f[k]) /\ f[k].seq = s
      <3>1. PICK k \in 1 .. Len(f) : Current(f[k]) /\ f[k].seq = s
        BY <2>4
      <3>2. k # 1
        <4>1. ASSUME k = 1
              PROVE  FALSE
          <5>1. worker'.last = s /\ s <= s
            BY <1>1, <1>4, <3>1, <4>1, WireTypes
          <5> QED  BY <5>1
        <4> QED  BY <4>1
      <3>3. k - 1 \in 1 .. Len(g) /\ 1 + (k - 1) = k
        BY <1>4, <1>10, <1>11, <3>1, <3>2
      <3> QED  BY <1>11, <3>1, <3>3
    <2>5. CASE ~plugged /\ \A k \in 1 .. Len(f) : Current(f[k]) => f[k].seq < s
      BY <1>11, <2>5
    <2> QED  BY <2>3, <2>4, <2>5
  <1>17. Lays(g, 0, Len(done') + 2, Stream', Segments') /\ 0 \in Nat
    BY <1>6, <1>8, <1>10, <1>13
  <1> QED  BY <1>3, <1>12, <1>13, <1>15, <1>16, <1>17, FlowFrom

(* A stream is started: what was packed for the one before goes, and all   *)
(* that is on its way is older than the stream.                            *)
LEMMA Aged ==
    ASSUME NEW b, Budget(b), NEW d \in 0 .. Len(MaxSeq), d > 0,
           NEW q \in Nat, q <= MaxSeq[d], NEW start \in Nat
    PROVE  \A s \in Nat : (s < start /\ start - s <= b[d - 1]) \/ (s >= start /\ s < start + q) =>
                s \in 0 .. (start + q + 1) - 1 /\ (start + q + 1) - s <= b[d]
  <1>1. PICK n \in Nat : n = Len(MaxSeq)
    BY LenProperties, BulkAssumption
  <1>2. d \in 1 .. n /\ d \in 0 .. n /\ d - 1 \in 0 .. n
    BY <1>1
  <1>3. PICK x \in Nat, y \in Nat, z \in Nat :
            x = b[d] /\ y = b[d - 1] /\ z = MaxSeq[d] /\ x >= y + z + 1
    <2>1. MaxSeq[d] \in Nat
      BY <1>1, <1>2, ElementOfSeq, BulkAssumption
    <2> QED  BY <1>1, <1>2, <2>1 DEF Budget
  <1>4. q <= z
    BY <1>3
  <1>5. ASSUME NEW s \in Nat, (s < start /\ start - s <= y) \/ (s >= start /\ s < start + q)
        PROVE  s \in 0 .. (start + q + 1) - 1 /\ (start + q + 1) - s <= x
    BY <1>3, <1>4, <1>5, SMTT(30)
  <1> QED  BY <1>3, <1>5

LEMMA StartCuts ==
    ASSUME BulkInv, BulkTypes', StreamTypes, ThreadPart, CountPart, NEW b, Budget(b), FlowInv(b),
           StartStream
    PROVE  FlowInv(b)'
  <1>1. /\ UNCHANGED <<tx, plugged, bytes, done>> /\ BulkTypes /\ plugged /\ tx.stage = "idle"
        /\ dev' = [dev EXCEPT !.running = TRUE, !.stream = @ + 1, !.clock = Tick, !.seq = 0,
                              !.packet = <<>>, !.dropped = {}]
        /\ startT' = Tick /\ worker' = NewWorker /\ worker.buffer = <<>>
    BY DEF StartStream, BulkInv, ThreadPart
  <1>2. /\ dev.stream \in 0 .. Len(MaxSeq) /\ dev.stream \in Nat /\ dev.seq \in Nat
        /\ dev'.stream = dev.stream + 1 /\ dev'.clock = Tick /\ dev'.seq = 0
        /\ dev'.packet = <<>>
    BY <1>1, WireTypes DEF BulkTypes
  <1>3. Stream' = Stream
    <2>1. worker'.buffer = <<>>
      BY <1>1 DEF NewWorker
    <2> QED  BY <1>1, <2>1 DEF Stream
  <1>4. Pending' = <<>>
    BY <1>1, <1>2 DEF Pending
  <1>5. PICK l \in Nat, n \in Nat : l = Len(done) /\ n = l + 2
    BY <1>1, WireTypes, SMTT(30)
  <1> DEFINE segs  == Segments
             segs2 == Segments'
  <1>6. /\ \A i \in 1 .. l : segs[i] = done[i].data
        /\ segs[l + 1] = tx.armed /\ \A i \in 1 .. n : Len(segs[i]) \in Nat
    BY <1>1, <1>5, SegmentsNow
  <1>7. /\ \A i \in 1 .. l : segs2[i] = done[i].data
        /\ segs2[l + 1] = tx.armed /\ segs2[l + 2] = <<>>
    <2>1. Len(done') = l /\ done' = done /\ tx' = tx
      BY <1>1, <1>5
    <2>2. /\ \A i \in 1 .. l : segs2[i] = done'[i].data
          /\ segs2[l + 1] = tx'.armed /\ segs2[l + 2] = Pending'
      BY <2>1, SegmentsNext
    <2> QED  BY <1>4, <2>1, <2>2
  <1> HIDE DEF segs, segs2
  <1>8. Emptied(segs, segs2, n, n)
    <2>1. ASSUME NEW i \in 1 .. n
          PROVE  segs2[i] = IF i < n THEN segs[i] ELSE <<>>
      <3>1. i \in 1 .. l \/ i = l + 1 \/ i = l + 2
        BY <1>5
      <3>2. i < n <=> i # l + 2
        BY <1>5
      <3> QED  BY <1>6, <1>7, <3>1, <3>2
    <2> QED  BY <2>1 DEF Emptied
  <1>9. PICK f \in Packets, st \in Nat, start \in Nat :
            Lays(f, st, n, Stream, segs) /\ Ordered(f) /\ Covered(f) /\ Timed(f, start, b)
    BY <1>5 DEF FlowInv, segs
  <1>10. PICK g \in Packets : /\ Lays(g, st, n, Stream, segs2) /\ Len(g) <= Len(f)
                              /\ \A k \in 1 .. Len(g) : g[k] = f[k]
    <2>1. n \in 1 .. n + 1 /\ n <= n + 1
      BY <1>5
    <2> QED  BY <1>6, <1>8, <1>9, <2>1, LaysCut
  <1>11. \A k \in 1 .. Len(g) : k \in 1 .. Len(f) /\ g[k] = f[k] /\ g[k] \in Record
    <2>1. Len(f) \in Nat /\ Len(g) \in Nat
      BY LenProperties DEF Packets
    <2>2. \A k \in 1 .. Len(g) : k \in 1 .. Len(f)
      BY <1>10, <2>1
    <2> QED  BY <1>10, <2>2, ElementOfSeq DEF Packets
  <1>12. PICK d \in Nat, q \in Nat, start2 \in Nat :
             d = dev.stream /\ q = dev.seq /\ start2 = start + q + 1
    BY <1>2, <1>9
  <1>13. ASSUME NEW k \in 1 .. Len(g)
         PROVE  g[k].stream \in Nat /\ g[k].stream <= d
    BY <1>9, <1>11, <1>12 DEF Ordered, Record
  <1>14. Ordered(g)'
    <2> SUFFICES ASSUME NEW k \in 1 .. Len(g)
                 PROVE  g[k].stream <= d + 1 /\ g[k].stream # d + 1
      BY <1>2, <1>12 DEF Ordered, Current
    <2> QED  BY <1>13
  <1>15. Covered(g)'
    <2>1. \A s \in 0 .. 0 - 1 : FALSE
      OBVIOUS
    <2> QED  BY <1>2, <2>1 DEF Covered
  <1>16. ASSUME NEW k \in 1 .. Len(g)
         PROVE  \E s \in 0 .. start2 - 1 : start2 - s <= b[d] /\ g[k].t = s % ClockWrap
    <2>1. k \in 1 .. Len(f) /\ g[k] = f[k] /\ f[k] \in Record
      BY <1>11
    <2>2. PICK y \in Nat : y = f[k].seq
      BY <2>1 DEF Record
    <2>3. g[k].stream \in Nat /\ g[k].stream <= d /\ (g[k].stream = d => y < q)
      BY <1>9, <1>12, <1>13, <2>1, <2>2 DEF Ordered, Current
    <2>4. d > 0 /\ q <= MaxSeq[d] /\ d \in 0 .. Len(MaxSeq)
      <3>1. d = 0 => q = 0
        BY <1>12 DEF CountPart
      <3>2. d # 0
        BY <2>3, <3>1
      <3> QED  BY <1>2, <1>12, <3>2, SMTT(30) DEF CountPart
    <2>5. \A s \in Nat : (s < start /\ start - s <= b[d - 1]) \/ (s >= start /\ s < start + q) =>
              s \in 0 .. start2 - 1 /\ start2 - s <= b[d]
      BY <1>12, <2>4, Aged
    <2>6. IF f[k].stream = d THEN f[k].t = (start + y) % ClockWrap
          ELSE \E s \in 0 .. start - 1 : start - s <= b[d - 1] /\ f[k].t = s % ClockWrap
      BY <1>9, <1>12, <2>1, <2>2 DEF Timed, Current
    <2>7. CASE f[k].stream = d
      <3>1. PICK s \in Nat : s = start + y
        OBVIOUS
      <3>2. s >= start /\ s < start + q
        BY <2>1, <2>3, <2>7, <3>1
      <3> QED  BY <2>1, <2>5, <2>6, <2>7, <3>1, <3>2
    <2>8. CASE f[k].stream # d
      <3>1. PICK s \in 0 .. start - 1 : start - s <= b[d - 1] /\ f[k].t = s % ClockWrap
        BY <2>6, <2>8
      <3>2. s \in Nat /\ s < start
        OBVIOUS
      <3> QED  BY <2>1, <2>5, <3>1, <3>2
    <2> QED  BY <2>7, <2>8
  <1>17. Tick = start2 % ClockWrap
    <2>1. ClockWrap \in Nat \ {0} /\ start + q \in Nat /\ 1 \in Nat
      BY BulkAssumption
    <2>2. dev.clock = (start + q) % ClockWrap
      BY <1>9, <1>12 DEF Timed
    <2>3. (((start + q) % ClockWrap) + 1) % ClockWrap = ((start + q) + 1) % ClockWrap
      <3>1. \A a \in Nat : ((a % ClockWrap) + 1) % ClockWrap = (a + 1) % ClockWrap
        BY <2>1, ModSum, SMTT(30)
      <3> QED  BY <2>1, <3>1
    <2> QED  BY <1>12, <2>2, <2>3 DEF Tick
  <1>18. Timed(g, start2, b)'
    <2>1. (d + 1) - 1 = d /\ start2 + 0 = start2 /\ \A k \in 1 .. Len(g) : g[k].stream # d + 1
      BY <1>13
    <2>2. dev'.stream - 1 = d /\ dev'.clock = (start2 + dev'.seq) % ClockWrap
      BY <1>2, <1>12, <1>17, <2>1
    <2>3. startT' = start2 % ClockWrap
      BY <1>1, <1>17
    <2>4. \A k \in 1 .. Len(g) : g[k].stream # dev'.stream
      BY <1>2, <1>12, <2>1
    <2> QED  BY <1>16, <2>2, <2>3, <2>4 DEF Timed, Current
  <1>19. Lays(g, st, Len(done') + 2, Stream', Segments')
    BY <1>1, <1>3, <1>5, <1>10 DEF segs2
  <1> QED  BY <1>9, <1>10, <1>12, <1>14, <1>15, <1>18, <1>19 DEF FlowInv

-----------------------------------------------------------------------------
(***************************************************************************)
(* What is on its way, as long as there is a device.                       *)
(***************************************************************************)

FlowPart(b) == owner # "destroyed" => FlowInv(b)

LEMMA FlowStarts ==
    ASSUME Init, NEW b
    PROVE  FlowPart(b)
  <1>1. /\ dev.stream = 0 /\ dev.clock = ClockWrap - 2 /\ dev.seq = 0 /\ dev.packet = <<>>
        /\ tx.armed = <<>> /\ done = <<>> /\ bytes = <<>> /\ worker.buffer = <<>>
        /\ worker.stage = "gone"
    BY DEF Init, BulkInit, NewWorker
  <1>2. Len(done) = 0 /\ Stream = <<>> /\ Pending = <<>>
    BY <1>1 DEF Stream, Pending
  <1>3. PICK f \in Packets : f = <<>> /\ Len(f) = 0
    <2>1. <<>> \in Packets /\ Len(<<>>) = 0
      BY DEF Packets
    <2> QED  BY <2>1
  <1>4. Segments[1] = <<>> /\ Segments[2] = <<>>
    <2>1. Segments = [i \in 1 .. 0 + 2 |->
                         IF i <= 0 THEN done[i].data ELSE IF i = 0 + 1 THEN <<>> ELSE <<>>]
      BY <1>1, <1>2 DEF Segments, SegmentsOf
    <2>2. /\ 1 \in 1 .. 0 + 2 /\ 2 \in 1 .. 0 + 2 /\ ~(1 <= 0) /\ ~(2 <= 0)
          /\ 1 = 0 + 1 /\ 2 # 0 + 1
      OBVIOUS
    <2> QED  BY <2>1, <2>2
  <1>5. Lays(f, 0, 2, Stream, Segments)
    <2> DEFINE off == [i \in 1 .. 2 + 1 |-> 0]
    <2>1. off \in [1 .. 2 + 1 -> Nat] /\ \A i \in 1 .. 2 + 1 : off[i] = 0
      OBVIOUS
    <2> HIDE DEF off
    <2>2. 1 \in 1 .. 2 + 1 /\ 2 + 1 \in 1 .. 2 + 1
      OBVIOUS
    <2>3. Leads(f, 0, 0, Stream)
      <3>1. Len(<<>>) = 0 + 2 * 0 /\ (\A i \in 1 .. 0 : FALSE)
        OBVIOUS
      <3> QED  BY <1>2, <3>1 DEF Leads
    <2>4. ASSUME NEW i \in 1 .. 2
          PROVE  Holds(f, off[i], off[i + 1], Segments[i])
      <3>1. i \in 1 .. 2 + 1 /\ i + 1 \in 1 .. 2 + 1 /\ (i = 1 \/ i = 2)
        OBVIOUS
      <3>2. Segments[i] = <<>> /\ off[i] = 0 /\ off[i + 1] = 0
        BY <1>4, <2>1, <3>1
      <3> QED  BY <3>2, HoldsNone
    <2>5. \A i, j \in 1 .. 2 + 1 : i <= j => off[i] <= off[j]
      BY <2>1
    <2>6. Laid(f, 0, off, 2, Stream, Segments)
      BY <1>3, <2>1, <2>2, <2>3, <2>4, <2>5 DEF Laid
    <2> QED  BY <2>1, <2>6 DEF Lays
  <1>6. PICK c \in Nat : c = ClockWrap - 2 /\ c + 0 = c
    BY BulkAssumption
  <1>7. (c + 0) % ClockWrap = c
    <2>1. ClockWrap \in Nat \ {0} /\ c \in Int /\ -ClockWrap < c /\ c < ClockWrap /\ c >= 0
      BY <1>6, BulkAssumption
    <2>2. c % ClockWrap = IF c >= 0 THEN c ELSE c + ClockWrap
      BY <2>1, ModSmall
    <2> QED  BY <1>6, <2>1, <2>2
  <1>8. \A k \in 1 .. Len(f) : FALSE
    BY <1>3
  <1>9. Ordered(f) /\ Covered(f) /\ Timed(f, c, b)
    BY <1>1, <1>6, <1>7, <1>8 DEF Ordered, Covered, Timed
  <1>10. 0 + 2 = 2 /\ 0 \in Nat
    OBVIOUS
  <1> QED  BY <1>2, <1>5, <1>9, <1>10 DEF FlowPart, FlowInv

LEMMA FlowStep ==
    ASSUME BulkInv, BulkInv', StreamTypes, ThreadPart, CountPart,
           NEW b, Budget(b), FlowPart(b), [Next]_vars
    PROVE  FlowPart(b)'
  <1> SUFFICES ASSUME owner' # "destroyed"
               PROVE  FlowInv(b)'
    BY DEF FlowPart
  <1>1. owner # "destroyed"
    BY DEF Next, BulkNext, streamVars, vars, WorkerStep, Top, ReadThrows, ReadBytes, ReadTimeout,
           Hunt, SkipStale, DecodeRecord, Received, Queue, NotifyOne, PollStatus, WorkerEnds,
           ReaderStep, Test, Wait, ReadReturns, StartStream, SetStop, NotifyAll, Join, Destroy
  <1>2. FlowInv(b) /\ BulkTypes' /\ ring \notin {"closing", "freed"}
    BY <1>1 DEF FlowPart, BulkInv, ThreadPart
  <1>3. CASE BulkNext /\ UNCHANGED streamVars
    <2>1. CASE Sample
      BY <1>2, <1>3, <2>1, SampleGrows
    <2>2. CASE OtherStops \/ WriteCopy \/ WriteSent \/ (WriteArm /\ ~(plugged /\ tx.armed = <<>>))
      BY <1>2, <1>3, <2>2, DeviceStays
    <2>3. CASE WriteArm /\ plugged /\ tx.armed = <<>>
      BY <1>2, <1>3, <2>3, ArmMoves
    <2>4. CASE Deliver \/ FailTransfer \/ Cancelled
      BY <1>2, <1>3, <2>4, EndingMoves
    <2>5. CASE Unplug
      BY <1>2, <1>3, <2>5, UnplugCuts
    <2>6. CASE HandleComplete
      BY <1>1, <1>2, <1>3, <2>6, CompleteMoves
    <2>7. CASE FreeRing
      BY <1>2, <2>7 DEF FreeRing
    <2> QED  BY <1>3, <2>1, <2>2, <2>3, <2>4, <2>5, <2>6, <2>7 DEF BulkNext, WriteStep
  <1>4. CASE WorkerStep
    BY <1>2, <1>4, WorkerStays, HuntCuts, RecordCuts, EndCuts DEF WorkerStep
  <1>5. CASE (\E r \in Readers : ReaderStep(r)) \/ SetStop \/ NotifyAll \/ Join \/ UNCHANGED vars
    BY <1>2, <1>5, OthersStay
  <1>6. CASE StartStream
    BY <1>2, <1>6, StartCuts
  <1>7. CASE Destroy
    BY <1>7 DEF Destroy
  <1> QED  BY <1>3, <1>4, <1>5, <1>6, <1>7 DEF Next

-----------------------------------------------------------------------------
(***************************************************************************)
(* The counters.                                                           *)
(***************************************************************************)

Before(D, a) == {s \in D : s < a}
After(D, a)  == {s \in D : s > a}

(* The numbers between two are dropped all.                                *)
LEMMA DroppedBetween ==
    ASSUME NEW D, NEW m \in Int, D \subseteq 1 .. m, NEW a \in Int, NEW q \in Int, a < q, a \notin D,
           \A s \in a + 1 .. q - 1 : s \in D
    PROVE  /\ Cardinality(Before(D, a)) \in Nat
           /\ Cardinality(Before(D, q)) = Cardinality(Before(D, a)) + (q - 1 - a)
  <1> DEFINE A == Before(D, a)
             B == a + 1 .. q - 1
  <1>1. IsFiniteSet(A)
    <2>1. 1 \in Int
      OBVIOUS
    <2>2. IsFiniteSet(1 .. m)
      BY <2>1, FS_Interval
    <2>3. A \in SUBSET (1 .. m)
      BY DEF Before
    <2> QED  BY <2>2, <2>3, FS_Subset
  <1>2. IsFiniteSet(B) /\ Cardinality(B) = q - 1 - a
    <2>1. a + 1 \in Int /\ q - 1 \in Int
      OBVIOUS
    <2>2. IsFiniteSet(B) /\ Cardinality(B) = IF a + 1 > q - 1 THEN 0 ELSE (q - 1) - (a + 1) + 1
      BY <2>1, FS_Interval
    <2>3. (IF a + 1 > q - 1 THEN 0 ELSE (q - 1) - (a + 1) + 1) = q - 1 - a
      OBVIOUS
    <2> QED  BY <2>2, <2>3
  <1>3. \A s \in D : s \in Int
    OBVIOUS
  <1>4. Before(D, q) = A \cup B
    <2>1. \A s \in Int : s < q <=> (s < a \/ s = a \/ s \in a + 1 .. q - 1)
      OBVIOUS
    <2>2. \A s \in a + 1 .. q - 1 : s \in Int
      OBVIOUS
    <2> QED  BY <1>3, <2>1, <2>2 DEF Before
  <1>5. A \cap B = {}
    <2>1. \A s \in a + 1 .. q - 1 : ~(s < a)
      OBVIOUS
    <2> QED  BY <2>1 DEF Before
  <1> HIDE DEF A, B
  <1>6. Cardinality(A \cup B) = Cardinality(A) + Cardinality(B) - Cardinality(A \cap B)
    BY <1>1, <1>2, FS_Union
  <1>7. Cardinality(A) \in Nat /\ Cardinality(A \cap B) = 0
    BY <1>1, <1>5, FS_CardinalityType, FS_EmptySet
  <1>8. PICK x \in Nat : x = Cardinality(A)
    BY <1>7
  <1>9. Cardinality(A \cup B) = x + (q - 1 - a)
    BY <1>2, <1>6, <1>7, <1>8
  <1> QED  BY <1>4, <1>8, <1>9 DEF A

(* And those after one.                                                    *)
LEMMA DroppedAfter ==
    ASSUME NEW D, NEW m \in Int, D \subseteq 1 .. m - 1, NEW a \in Int, a < m,
           \A s \in a + 1 .. m - 1 : s \in D
    PROVE  Cardinality(After(D, a)) = m - 1 - a
  <1>1. After(D, a) = a + 1 .. m - 1
    <2>1. \A s \in 1 .. m - 1 : s > a <=> s \in a + 1 .. m - 1
      OBVIOUS
    <2>2. \A s \in a + 1 .. m - 1 : s > a
      OBVIOUS
    <2> QED  BY <2>1, <2>2 DEF After
  <1>2. a + 1 \in Int /\ m - 1 \in Int
    OBVIOUS
  <1>3. Cardinality(a + 1 .. m - 1) = IF a + 1 > m - 1 THEN 0 ELSE (m - 1) - (a + 1) + 1
    BY <1>2, FS_Interval
  <1>4. (IF a + 1 > m - 1 THEN 0 ELSE (m - 1) - (a + 1) + 1) = m - 1 - a
    OBVIOUS
  <1> QED  BY <1>1, <1>3, <1>4

(* The gap in front of a record is what was dropped since the last one.    *)
Gap == IF worker.last = -1 THEN 0 ELSE SeqGap(ClockWrap, worker.last, Rec.seq)

LEMMA GapCounts ==
    ASSUME BulkInv, StreamTypes, CountPart, NEW b, Budget(b), FlowInv(b), DecodeRecord
    PROVE  \E q \in Nat :
               /\ q = Rec.seq /\ q < dev.seq /\ q \notin dev.dropped /\ worker.last < q
               /\ Gap = q - 1 - worker.last
               /\ Cardinality(Before(dev.dropped, worker.last)) \in Nat
               /\ Cardinality(Before(dev.dropped, q)) = Cardinality(Before(dev.dropped, worker.last)) + Gap
               /\ Rec \in Record /\ Rec.stream = dev.stream /\ Buffer[2].rec = Rec
  <1>1. BulkTypes /\ HasRecord /\ ~Stale /\ worker.stage = "decode"
    BY DEF BulkInv, DecodeRecord
  <1>2. PICK f, st, start : Flow(f, st, start, b)
    BY DEF FlowInv, Flow
  <1>3. /\ Len(f) \in Nat /\ Len(f) >= 1 /\ f[1] \in Record /\ Rec = f[1] /\ Current(f[1])
        /\ Buffer[2].rec = f[1]
    BY <1>1, <1>2, InFront DEF Buffer
  <1>4. Ordered(f) /\ Covered(f)
    BY <1>2 DEF Flow
  <1>5. PICK q \in Nat, a \in Int, m \in Nat : q = f[1].seq /\ a = worker.last /\ m = dev.seq
    BY <1>1, <1>3, WireTypes DEF Record, StreamTypes
  <1>6. a < q /\ q < m /\ q \notin dev.dropped
    <2>1. 1 \in 1 .. Len(f)
      BY <1>3
    <2> QED  BY <1>3, <1>4, <1>5, <2>1 DEF Ordered
  <1>7. dev.dropped \subseteq 1 .. m - 1 /\ a \notin dev.dropped /\ a \in -1 .. m - 1
    BY <1>5 DEF CountPart
  <1>8. ASSUME NEW s \in a + 1 .. q - 1
        PROVE  s \in dev.dropped
    <2>1. s \in 0 .. m - 1 /\ ~(s <= a) /\ s < q /\ s # q
      BY <1>6, <1>7
    <2>2. \/ s \in dev.dropped
          \/ \E k \in 1 .. Len(f) : Current(f[k]) /\ f[k].seq = s
          \/ \A k \in 1 .. Len(f) : Current(f[k]) => f[k].seq < s
      BY <1>1, <1>4, <1>5, <2>1 DEF Covered
    <2>3. 1 \in 1 .. Len(f) /\ \A k \in 1 .. Len(f) : k = 1 \/ 1 < k
      BY <1>3
    <2>4. \A k \in 1 .. Len(f) : Current(f[k]) => k = 1 \/ q < f[k].seq
      BY <1>3, <1>4, <1>5, <2>3 DEF Ordered
    <2>5. \A k \in 1 .. Len(f) : ~(Current(f[k]) /\ f[k].seq = s)
      <3>1. ~(q < s)
        BY <2>1
      <3> QED  BY <1>5, <2>1, <2>4, <3>1
    <2>6. ~(q < s)
      BY <2>1
    <2> QED  BY <1>3, <1>5, <2>2, <2>3, <2>5, <2>6
  <1>9. PICK D : D = dev.dropped
    OBVIOUS
  <1>10. /\ Cardinality(Before(D, a)) \in Nat
         /\ Cardinality(Before(D, q)) = Cardinality(Before(D, a)) + (q - 1 - a)
    <2>1. m - 1 \in Int /\ q \in Int /\ D \subseteq 1 .. m - 1 /\ a \notin D
          /\ \A s \in a + 1 .. q - 1 : s \in D
      BY <1>7, <1>8, <1>9
    <2> QED  BY <1>6, <2>1, DroppedBetween
  <1>11. Gap = q - 1 - a
    <2>1. CASE a = -1
      <3>1. q = 0
        <4>1. ASSUME q > 0
              PROVE  FALSE
          <5>1. 0 \in a + 1 .. q - 1
            BY <2>1, <4>1
          <5>2. 0 \in 1 .. m - 1
            BY <1>7, <1>8, <5>1
          <5> QED  BY <5>2
        <4> QED  BY <4>1
      <3> QED  BY <1>5, <2>1, <3>1 DEF Gap
    <2>2. CASE a # -1
      <3>1. a \in Nat /\ ClockWrap \in Nat \ {0}
        BY <1>7, <2>2, BulkAssumption
      <3>2. 2 * m < ClockWrap
        <4>1. PICK d \in Nat, n \in Nat : d = dev.stream /\ n = Len(MaxSeq) /\ d \in 0 .. n
          BY <1>1, LenProperties, BulkAssumption, WireTypes DEF BulkTypes
        <4>2. d # 0 /\ m <= MaxSeq[d]
          BY <1>5, <1>6, <4>1 DEF CountPart
        <4>3. d \in 1 .. n /\ d \in 0 .. n /\ d - 1 \in 0 .. n
          BY <4>1, <4>2
        <4>4. PICK z \in Nat, x \in Nat, y \in Nat :
                  z = MaxSeq[d] /\ x = b[d] /\ y = b[d - 1] /\ x >= y + z + 1 /\ 2 * x < ClockWrap
          <5>1. MaxSeq[d] \in Nat
            BY <4>1, <4>3, ElementOfSeq, BulkAssumption
          <5> QED  BY <4>1, <4>3, <5>1 DEF Budget
        <4>5. m <= z
          BY <4>2, <4>4
        <4> QED  BY <3>1, <4>4, <4>5
      <3>3. /\ a \in Int /\ -ClockWrap < a /\ a < ClockWrap /\ a >= 0
            /\ q \in Int /\ -ClockWrap < q /\ q < ClockWrap /\ q >= 0
            /\ 2 * (q - (a + 1)) < ClockWrap /\ 2 * ((a + 1) - q) < ClockWrap
            /\ q > a /\ q - a - 1 = q - 1 - a
        BY <1>6, <3>1, <3>2
      <3>4. a % ClockWrap = a /\ q % ClockWrap = q
        BY <3>1, <3>3, ModSmall
      <3>5. SeqGap(ClockWrap, a % ClockWrap, q % ClockWrap) = IF q > a THEN q - a - 1 ELSE 0
        BY <3>1, <3>3, GapExact
      <3>6. SeqGap(ClockWrap, a, q) = q - 1 - a
        BY <3>3, <3>4, <3>5
      <3> QED  BY <1>3, <1>5, <2>2, <3>6 DEF Gap
    <2> QED  BY <2>1, <2>2
  <1>12. Rec.stream = dev.stream /\ Buffer[2].rec = Rec /\ Rec \in Record
    BY <1>3 DEF Current
  <1> QED  BY <1>3, <1>5, <1>6, <1>9, <1>10, <1>11, <1>12

LEMMA CountsStart == Init => CountPart
  <1> SUFFICES ASSUME Init PROVE CountPart
    OBVIOUS
  <1>1. /\ dev.stream = 0 /\ dev.seq = 0 /\ dev.packet = <<>> /\ dev.dropped = {} /\ ~dev.running
        /\ worker.last = -1 /\ stats.gaps = 0 /\ stats.received = 0
    BY DEF Init, BulkInit, NewWorker, NoStats
  <1>2. {s \in {} : s < -1} = {} /\ -1 \in -1 .. 0 - 1 /\ 0 + 0 = -1 + 1
    OBVIOUS
  <1> QED  BY <1>1, <1>2, FS_EmptySet DEF CountPart

(* Nothing is counted.                                                     *)
LEMMA CountsStay ==
    ASSUME CountPart, dev'.seq = dev.seq, dev'.dropped = dev.dropped, dev'.stream = dev.stream,
           dev'.packet = dev.packet \/ dev'.packet = <<>>, dev'.running => dev.running,
           worker'.last = worker.last,
           stats'.received = stats.received, stats'.gaps = stats.gaps
    PROVE  CountPart'
  BY DEF CountPart

LEMMA SampleCounts ==
    ASSUME BulkInv, StreamTypes, CountPart, Sample, UNCHANGED streamVars
    PROVE  CountPart'
  <1>1. BulkTypes /\ worker' = worker /\ stats' = stats
    BY DEF streamVars, BulkInv
  <1>2. PICK q \in Nat, a \in Int, D \in Numbers : q = dev.seq /\ a = worker.last /\ D = dev.dropped
    BY <1>1, WireTypes DEF StreamTypes, BulkTypes
  <1>3. /\ D \subseteq 1 .. q - 1 /\ a \in -1 .. q - 1 /\ a \notin D
        /\ stats.gaps = Cardinality({s \in D : s < a}) /\ stats.received + stats.gaps = a + 1
        /\ (q = 0 => dev.packet = <<>>)
    BY <1>2 DEF CountPart
  <1>4. /\ dev'.seq = q + 1 /\ dev'.stream = dev.stream /\ dev'.running = dev.running
        /\ q < MaxSeq[dev.stream] /\ dev.running
        /\ dev'.dropped = D \/ (dev'.dropped = D \cup {q} /\ ~(Len(dev.packet) < PacketMax))
    BY <1>1, <1>2 DEF Sample, BulkTypes
  <1>5. dev.stream \in 0 .. Len(MaxSeq) /\ dev.stream # 0 /\ Len(MaxSeq) \in Nat
    BY <1>1, <1>4, LenProperties, BulkAssumption DEF CountPart, BulkTypes
  <1>6. q + 1 <= MaxSeq[dev.stream]
    <2>1. PICK n \in Nat, d \in Int : n = Len(MaxSeq) /\ d = dev.stream
      BY <1>5
    <2>2. d \in 1 .. n
      BY <1>5, <2>1
    <2>3. MaxSeq[d] \in Nat
      BY <2>1, <2>2, ElementOfSeq, BulkAssumption
    <2> QED  BY <1>4, <2>1, <2>3
  <1>7. dev'.dropped \subseteq 1 .. (q + 1) - 1
    <2>1. D \subseteq 1 .. (q + 1) - 1
      BY <1>3
    <2>2. dev'.dropped # D => q \in 1 .. (q + 1) - 1
      <3>1. Len(<<>>) < PacketMax
        BY BulkAssumption
      <3>2. dev'.dropped # D => q # 0
        BY <1>3, <1>4, <3>1
      <3> QED  BY <3>2
    <2> QED  BY <1>4, <2>1, <2>2
  <1>8. a \in -1 .. (q + 1) - 1 /\ a # q /\ ~(q < a)
    BY <1>3
  <1>9. a \notin dev'.dropped /\ {s \in dev'.dropped : s < a} = {s \in D : s < a}
    BY <1>3, <1>4, <1>8
  <1>10. q + 1 # 0
    OBVIOUS
  <1> QED  BY <1>1, <1>2, <1>3, <1>4, <1>5, <1>6, <1>7, <1>8, <1>9, <1>10 DEF CountPart

LEMMA RecordCounts ==
    ASSUME BulkInv, StreamTypes, CountPart, NEW b, Budget(b), FlowInv(b), DecodeRecord
    PROVE  CountPart'
  <1>1. PICK q \in Nat :
            /\ q = Rec.seq /\ q < dev.seq /\ q \notin dev.dropped /\ worker.last < q
            /\ Gap = q - 1 - worker.last
            /\ Cardinality(Before(dev.dropped, worker.last)) \in Nat
            /\ Cardinality(Before(dev.dropped, q)) = Cardinality(Before(dev.dropped, worker.last)) + Gap
    BY GapCounts
  <1>2. worker \in WorkerType /\ BulkTypes
    BY DEF StreamTypes, WorkerType, BulkInv
  <1>3. dev' = dev /\ worker'.last = q
    BY <1>1, <1>2 DEF DecodeRecord, Received, bulkVars, WorkerType
  <1>4. PICK r \in Nat, g \in Nat, a \in Int, m \in Nat :
            r = stats.received /\ g = stats.gaps /\ a = worker.last /\ m = dev.seq
    BY <1>2, WireTypes DEF StreamTypes
  <1>5. stats'.received = r + 1 /\ stats'.gaps = g + Gap
    <2>1. stats \in [received : Nat, gaps : Nat, drops : Nat, resyncs : Nat, stale : Nat]
      BY DEF StreamTypes
    <2> QED  BY <1>4, <2>1 DEF DecodeRecord, Received, Gap
  <1>6. g = Cardinality(Before(dev.dropped, a)) /\ r + g = a + 1
    BY <1>4 DEF CountPart, Before
  <1>7. g + Gap = Cardinality(Before(dev.dropped, q))
    BY <1>1, <1>4, <1>6
  <1>8. PICK k \in Int : k = Gap /\ k = q - 1 - a
    BY <1>1, <1>4
  <1>9. (r + 1) + (g + k) = q + 1
    BY <1>6, <1>8
  <1>10. q \in -1 .. m - 1
    BY <1>1, <1>4
  <1> QED  BY <1>1, <1>3, <1>4, <1>5, <1>7, <1>8, <1>9, <1>10 DEF CountPart, Before

LEMMA AfreshCounts ==
    ASSUME BulkInv, CountPart, StartStream \/ Destroy
    PROVE  CountPart'
  <1>1. worker'.last = -1 /\ stats'.gaps = 0 /\ stats'.received = 0
    <2>1. worker' = NewWorker \/ worker' = [NewWorker EXCEPT !.stage = "gone"]
      BY DEF StartStream, Destroy
    <2>2. worker'.last = -1
      BY <2>1 DEF NewWorker
    <2>3. stats' = NoStats
      BY DEF StartStream, Destroy, Forget
    <2> QED  BY <2>2, <2>3 DEF NoStats
  <1>2. BulkTypes
    BY DEF BulkInv
  <1>3. ASSUME NEW D \in SUBSET Nat
        PROVE  {s \in D : s < -1} = {} /\ -1 \notin D
    <2>1. \A s \in D : s \in Nat /\ ~(s < -1) /\ s # -1
      OBVIOUS
    <2>2. {s \in D : s < -1} = {}
      BY <2>1
    <2>3. -1 \notin D
      BY <2>1
    <2> QED  BY <2>2, <2>3
  <1>4. Cardinality({}) = 0 /\ 0 + 0 = -1 + 1 /\ -1 \in -1 .. 0 - 1
    BY FS_EmptySet
  <1>5. CASE StartStream
    <2>1. dev'.seq = 0 /\ dev'.packet = <<>> /\ dev'.dropped = {} /\ dev'.stream = dev.stream + 1
          /\ dev.stream \in 0 .. Len(MaxSeq) /\ dev.stream < Len(MaxSeq)
      BY <1>2, <1>5 DEF StartStream, BulkTypes
    <2>2. dev'.stream # 0 /\ 0 <= MaxSeq[dev'.stream]
      <3>1. PICK n \in Nat, d \in Int : n = Len(MaxSeq) /\ d = dev.stream
        <4>1. Len(MaxSeq) \in Nat
          BY LenProperties, BulkAssumption
        <4> QED  BY <2>1, <4>1
      <3>2. d + 1 \in 1 .. n /\ d + 1 # 0
        BY <2>1, <3>1
      <3>3. MaxSeq[d + 1] \in Nat
        BY <3>1, <3>2, ElementOfSeq, BulkAssumption
      <3> QED  BY <2>1, <3>1, <3>2, <3>3
    <2>3. {s \in {} : s < -1} = {} /\ {} \subseteq 1 .. 0 - 1
      OBVIOUS
    <2> QED  BY <1>1, <1>4, <2>1, <2>2, <2>3 DEF CountPart
  <1>6. CASE Destroy
    <2>1. dev' = dev
      BY <1>6 DEF Destroy, CloseRing
    <2>2. dev.dropped \subseteq Nat /\ dev.seq \in Nat
      BY <1>2, WireTypes DEF BulkTypes, Numbers
    <2>3. -1 \in -1 .. dev.seq - 1
      BY <2>2
    <2> QED  BY <1>1, <1>3, <1>4, <2>1, <2>2, <2>3 DEF CountPart
  <1> QED  BY <1>5, <1>6

LEMMA CountStep ==
    ASSUME BulkInv, StreamTypes, ThreadPart, CountPart, NEW b, Budget(b), FlowPart(b), [Next]_vars
    PROVE  CountPart'
  <1>1. BulkTypes /\ worker \in WorkerType
    BY DEF BulkInv, StreamTypes, WorkerType
  <1>2. stats \in [received : Nat, gaps : Nat, drops : Nat, resyncs : Nat, stale : Nat]
    BY DEF StreamTypes
  <1>3. CASE BulkNext /\ UNCHANGED streamVars
    <2>1. CASE Sample
      BY <1>3, <2>1, SampleCounts
    <2>2. CASE ~Sample
      <3>1. \/ UNCHANGED dev \/ dev' = [dev EXCEPT !.running = FALSE]
            \/ dev' = [dev EXCEPT !.packet = <<>>]
        BY <1>3, <2>2 DEF BulkNext, OtherStops, WriteStep, WriteCopy, WriteArm, WriteSent, Deliver,
                          FailTransfer, Unplug, HandleComplete, Cancelled, FreeRing
      <3>2. /\ dev'.seq = dev.seq /\ dev'.dropped = dev.dropped /\ dev'.stream = dev.stream
            /\ dev'.packet = dev.packet \/ dev'.packet = <<>>
            /\ dev'.running => dev.running
        BY <1>1, <3>1 DEF BulkTypes
      <3> QED  BY <1>3, <3>2, CountsStay DEF streamVars
    <2> QED  BY <2>1, <2>2
  <1>4. CASE WorkerStep
    <2>1. CASE DecodeRecord
      <3>1. owner # "destroyed"
        BY <2>1 DEF ThreadPart, DecodeRecord
      <3> QED  BY <2>1, <3>1, RecordCounts DEF FlowPart
    <2>2. CASE Top \/ ReadThrows \/ ReadBytes \/ ReadTimeout \/ Hunt \/ NotifyOne \/ PollStatus
      <3>1. dev' = dev /\ stats' = stats
        BY <2>2 DEF Top, OpenRing, ReadThrows, ReadBytes, ReadTimeout, Hunt, NotifyOne,
                    PollStatus, bulkVars
      <3>2. worker'.last = worker.last
        BY <1>1, <2>2 DEF Top, Goto, End, ReadThrows, ReadBytes, ReadTimeout, Hunt, NotifyOne,
                    PollStatus, WorkerType
      <3> QED  BY <3>1, <3>2, CountsStay
    <2>3. CASE SkipStale \/ Queue \/ WorkerEnds
      <3>1. dev' = dev /\ stats'.received = stats.received /\ stats'.gaps = stats.gaps
        BY <1>2, <2>3 DEF SkipStale, Queue, WorkerEnds, bulkVars
      <3>2. worker'.last = worker.last
        BY <1>1, <2>3 DEF SkipStale, Queue, WorkerEnds, Goto, NewWorker, WorkerType
      <3> QED  BY <3>1, <3>2, CountsStay
    <2> QED  BY <1>4, <2>1, <2>2, <2>3 DEF WorkerStep
  <1>5. CASE (\E r \in Readers : ReaderStep(r)) \/ SetStop \/ NotifyAll \/ Join \/ UNCHANGED vars
    <2>1. /\ dev' = dev \/ dev' = [dev EXCEPT !.running = FALSE]
          /\ worker' = worker /\ stats' = stats
      BY <1>5 DEF ReaderStep, Test, Wait, ReadReturns, SetStop, NotifyAll, Join, bulkVars, vars,
                  streamVars
    <2>2. /\ dev'.seq = dev.seq /\ dev'.dropped = dev.dropped /\ dev'.stream = dev.stream
          /\ dev'.packet = dev.packet /\ (dev'.running => dev.running)
      BY <1>1, <2>1 DEF BulkTypes
    <2> QED  BY <2>1, <2>2, CountsStay
  <1>6. CASE StartStream \/ Destroy
    BY <1>6, AfreshCounts
  <1> QED  BY <1>3, <1>4, <1>5, <1>6 DEF Next

-----------------------------------------------------------------------------
(***************************************************************************)
(* The records that are handed over.                                       *)
(***************************************************************************)

(* One more, later than all that were.                                     *)
LEMMA OneReceived ==
    ASSUME NEW h \in Items, NEW d, NEW last \in Int, InOrder(h, d, last), NEW e \in Item,
           e.head = e.body, e.head.stream = d, last < e.head.seq
    PROVE  /\ Append(h, e) \in Items /\ Len(Append(h, e)) = Len(h) + 1
           /\ InOrder(Append(h, e), d, e.head.seq)
  <1>0. /\ Append(h, e) \in Seq(Item) /\ Len(Append(h, e)) = Len(h) + 1
        /\ \A i \in 1 .. Len(h) : Append(h, e)[i] = h[i]
        /\ Append(h, e)[Len(h) + 1] = e
    BY AppendProperties DEF Items
  <1>1. PICK l \in Nat, g \in Items, q \in Nat :
            /\ l = Len(h) /\ g = Append(h, e) /\ Len(g) = l + 1 /\ q = e.head.seq
            /\ \A i \in 1 .. l : g[i] = h[i] /\ h[i] \in Item
            /\ g[l + 1] = e
    <2>1. Len(h) \in Nat /\ \A i \in 1 .. Len(h) : h[i] \in Item
      BY LenProperties, ElementOfSeq DEF Items
    <2>2. e.head.seq \in Nat
      BY DEF Item, Record
    <2> QED  BY <1>0, <2>1, <2>2 DEF Items
  <1>2. \A i \in 1 .. l : h[i].head.seq \in Nat /\ h[i].head.seq < q
    <2>1. \A i \in 1 .. l : h[i].head.seq \in Nat /\ h[i].head.seq <= last
      BY <1>1 DEF InOrder, Item, Record
    <2>2. \A x \in Nat : x <= last => x < q
      BY <1>1
    <2> QED  BY <2>1, <2>2
  <1>3. \A i \in 1 .. l + 1 : i \in 1 .. l \/ i = l + 1
    OBVIOUS
  <1>4. ASSUME NEW i \in 1 .. l + 1
        PROVE  /\ g[i].head = g[i].body /\ g[i].head.stream = d /\ g[i].head.seq <= q
               /\ \A j \in 1 .. l + 1 : j < i => g[j].head.seq < g[i].head.seq
    <2>1. CASE i \in 1 .. l
      <3>1. \A j \in 1 .. l + 1 : j < i => j \in 1 .. l
        BY <2>1
      <3>2. \A x \in Nat : x < q => x <= q
        OBVIOUS
      <3> QED  BY <1>1, <1>2, <2>1, <3>1, <3>2 DEF InOrder
    <2>2. CASE i = l + 1
      <3>1. \A j \in 1 .. l + 1 : j < i => j \in 1 .. l
        BY <2>2
      <3>2. q <= q
        OBVIOUS
      <3> QED  BY <1>1, <1>2, <2>2, <3>1, <3>2
    <2> QED  BY <1>3, <2>1, <2>2
  <1> QED  BY <1>1, <1>4 DEF InOrder

(* One fewer.                                                              *)
Without(h, g, p) ==
    /\ Len(g) = Len(h) - 1
    /\ \A i \in 1 .. Len(g) : g[i] = IF i < p THEN h[i] ELSE h[i + 1]

LEMMA OneDropped ==
    ASSUME NEW h \in Items, NEW g \in Items, NEW p \in 1 .. Len(h), Without(h, g, p),
           NEW d, NEW last, InOrder(h, d, last)
    PROVE  InOrder(g, d, last)
  <1>1. PICK l \in Nat, m \in Nat : l = Len(h) /\ m = Len(g) /\ m = l - 1
    BY LenProperties DEF Items, Without
  <1> DEFINE at(i) == IF i < p THEN i ELSE i + 1
  <1>2. \A i \in 1 .. m : at(i) \in 1 .. l
    BY <1>1
  <1>3. \A i, j \in 1 .. m : j < i => at(j) < at(i)
    BY <1>1
  <1>4. \A i \in 1 .. m : g[i] = h[at(i)]
    BY <1>1 DEF Without
  <1> HIDE DEF at
  <1>5. ASSUME NEW i \in 1 .. m
        PROVE  /\ g[i].head = g[i].body /\ g[i].head.stream = d /\ g[i].head.seq <= last
               /\ \A j \in 1 .. m : j < i => g[j].head.seq < g[i].head.seq
    BY <1>1, <1>2, <1>3, <1>4 DEF InOrder
  <1> QED  BY <1>1, <1>5 DEF InOrder

Joins(x, y, v) ==
    /\ v \in Items /\ Len(v) = Len(x) + Len(y)
    /\ \A i \in 1 .. Len(x) + Len(y) : v[i] = IF i <= Len(x) THEN x[i] ELSE y[i - Len(x)]

LEMMA Joined ==
    ASSUME NEW x \in Items, NEW y \in Items
    PROVE  Joins(x, y, x \o y)
  <1>1. /\ x \o y \in Seq(Item) /\ Len(x \o y) = Len(x) + Len(y)
        /\ \A i \in 1 .. Len(x) + Len(y) : (x \o y)[i] = IF i <= Len(x) THEN x[i] ELSE y[i - Len(x)]
    BY ConcatProperties DEF Items
  <1> QED  BY <1>1 DEF Items, Joins

(* The oldest of the records that are ready makes room.                    *)
LEMMA FirstDropped ==
    ASSUME NEW x \in Items, NEW y \in Items, NEW z \in Items, Len(y) >= 1
    PROVE  /\ Tail(y) \in Items
           /\ Len(x) + 1 \in 1 .. Len((x \o y) \o z)
           /\ Without((x \o y) \o z, (x \o (Tail(y) \o z)), Len(x) + 1)
  <1>1. y # <<>>
    OBVIOUS
  <1>2. PICK t \in Items : /\ t = Tail(y) /\ Len(t) = Len(y) - 1
                           /\ \A i \in 1 .. Len(t) : t[i] = y[i + 1]
    BY <1>1, HeadTailProperties DEF Items
  <1>3. PICK s, r, v, w : s = y \o z /\ r = t \o z /\ v = x \o s /\ w = x \o r
    OBVIOUS
  <1>4. PICK a \in Nat, l \in Nat, c \in Nat :
            a = Len(x) /\ l = Len(y) /\ c = Len(z) /\ l >= 1 /\ Len(t) = l - 1 /\ l - 1 \in Nat
    <2>1. Len(x) \in Nat /\ Len(y) \in Nat /\ Len(z) \in Nat
      BY LenProperties DEF Items
    <2>2. \A n \in Nat : n >= 1 => n - 1 \in Nat
      OBVIOUS
    <2> QED  BY <1>2, <2>1, <2>2
  <1>5. /\ s \in Items /\ Len(s) = l + c
        /\ \A i \in 1 .. l + c : s[i] = IF i <= l THEN y[i] ELSE z[i - l]
    <2>1. Joins(y, z, y \o z)
      BY Joined
    <2> QED  BY <1>3, <1>4, <2>1 DEF Joins
  <1>7. /\ r \in Items /\ Len(r) = (l - 1) + c
        /\ \A i \in 1 .. (l - 1) + c : r[i] = IF i <= l - 1 THEN t[i] ELSE z[i - (l - 1)]
    <2>1. Joins(t, z, t \o z)
      BY Joined
    <2> QED  BY <1>3, <1>4, <2>1 DEF Joins
  <1>6. /\ v \in Items /\ Len(v) = a + (l + c)
        /\ \A i \in 1 .. a + (l + c) : v[i] = IF i <= a THEN x[i] ELSE s[i - a]
    <2>1. Joins(x, s, x \o s)
      BY <1>5, Joined
    <2> QED  BY <1>3, <1>4, <1>5, <2>1 DEF Joins
  <1>8. /\ w \in Items /\ Len(w) = a + ((l - 1) + c)
        /\ \A i \in 1 .. a + ((l - 1) + c) : w[i] = IF i <= a THEN x[i] ELSE r[i - a]
    <2>1. Joins(x, r, x \o r)
      BY <1>7, Joined
    <2> QED  BY <1>3, <1>4, <1>7, <2>1 DEF Joins
  <1>9. \A i \in 1 .. (l - 1) + c : r[i] = s[i + 1]
    <2> TAKE i \in 1 .. (l - 1) + c
    <2>1. i + 1 \in 1 .. l + c /\ (i + 1 <= l <=> i <= l - 1)
          /\ (i + 1) - l = i - (l - 1) /\ (i <= l - 1 => i \in 1 .. l - 1)
      OBVIOUS
    <2> QED  BY <1>2, <1>4, <1>5, <1>7, <2>1
  <1>10. ASSUME NEW i \in 1 .. a + ((l - 1) + c)
         PROVE  w[i] = IF i < a + 1 THEN v[i] ELSE v[i + 1]
    <2>1. i \in 1 .. a + (l + c) /\ i + 1 \in 1 .. a + (l + c) /\ (i < a + 1 <=> i <= a)
      BY <1>4
    <2>2. CASE i <= a
      BY <1>6, <1>8, <2>1, <2>2
    <2>3. CASE ~(i <= a)
      <3>1. i - a \in 1 .. (l - 1) + c /\ (i + 1) - a = (i - a) + 1 /\ ~(i + 1 <= a)
        BY <2>3
      <3> QED  BY <1>6, <1>8, <1>9, <2>1, <2>3, <3>1
    <2> QED  BY <2>2, <2>3
  <1>11. a + ((l - 1) + c) = (a + (l + c)) - 1 /\ a + 1 \in 1 .. a + (l + c)
    BY <1>4
  <1>12. Without(v, w, a + 1)
    BY <1>6, <1>8, <1>10, <1>11 DEF Without
  <1>13. v = (x \o y) \o z
    <2>1. (x \o y) \o z = x \o (y \o z)
      <3>1. \A i, j, k \in Seq(Item) : (i \o j) \o k = i \o (j \o k)
        BY ConcatAssociative, SMTT(30)
      <3> QED  BY <3>1, SMTT(30) DEF Items
    <2> QED  BY <1>3, <2>1
  <1> QED  BY <1>2, <1>3, <1>4, <1>6, <1>11, <1>12, <1>13

LEMMA HandedStarts == Init => HandedPart
  <1> SUFFICES ASSUME Init PROVE HandedPart
    OBVIOUS
  <1>1. /\ worker.stage = "gone" /\ stats.received = 0 /\ stats.drops = 0
        /\ taken = <<>> /\ ready = <<>> /\ hand = <<>>
    BY DEF Init, NewWorker, NoStats
  <1>2. Handed = <<>> /\ Len(<<>>) = 0
    BY <1>1 DEF Handed
  <1>3. \A i \in 1 .. 0 : FALSE
    OBVIOUS
  <1> QED  BY <1>1, <1>2, <1>3 DEF HandedPart, InOrder

(* Nothing is received, and nothing dropped.                               *)
LEMMA HandedStays ==
    ASSUME HandedPart, Handed' = Handed, hand' = hand, dev'.stream = dev.stream,
           worker'.last = worker.last, worker'.stage = "deliver" <=> worker.stage = "deliver",
           stats'.received = stats.received, stats'.drops = stats.drops
    PROVE  HandedPart'
  BY DEF HandedPart

LEMMA TakeKeeps ==
    ASSUME StreamTypes, NEW r, Take(r)
    PROVE  taken' \o ready' = taken \o ready
  <1> DEFINE n == IF Len(ready) < Room THEN Len(ready) ELSE Room
             x == SubSeq(ready, 1, n)
             y == SubSeq(ready, n + 1, Len(ready))
  <1>1. taken' = taken \o x /\ ready' = y
    BY DEF Take
  <1>2. taken \in Seq(Item) /\ ready \in Seq(Item) /\ Len(ready) \in Nat
    BY LenProperties DEF StreamTypes
  <1>3. n \in 0 .. Len(ready)
    BY <1>2, StreamAssumption
  <1> HIDE DEF n
  <1>4. x \in Seq(Item) /\ y \in Seq(Item) /\ x \o y = ready
    BY <1>2, <1>3, Halves
  <1> HIDE DEF x, y
  <1>5. (taken \o x) \o y = taken \o (x \o y)
    <2>1. \A i, j, k \in Seq(Item) : (i \o j) \o k = i \o (j \o k)
      BY ConcatAssociative
    <2> QED  BY <1>2, <1>4, <2>1, ZenonT(30)
  <1> QED  BY <1>1, <1>4, <1>5

LEMMA HandedItems ==
    ASSUME StreamTypes
    PROVE  /\ taken \in Items /\ ready \in Items /\ hand \in Items /\ taken \o ready \in Items
           /\ Handed \in Items /\ Len(Handed) \in Nat /\ Len(ready) \in Nat
           /\ taken \o (ready \o hand) = Handed
  <1>1. taken \in Items /\ ready \in Items /\ hand \in Items
    BY DEF StreamTypes, Items
  <1>2. \A i, j \in Seq(Item) : i \o j \in Seq(Item)
    BY ConcatProperties
  <1>3. taken \o ready \in Items /\ Handed \in Items
    BY <1>1, <1>2 DEF Items, Handed
  <1>4. \A i, j, k \in Seq(Item) : (i \o j) \o k = i \o (j \o k)
    BY ConcatAssociative
  <1>5. Len(Handed) \in Nat /\ Len(ready) \in Nat
    BY <1>1, <1>3, LenProperties DEF Items
  <1>6. taken \o (ready \o hand) = Handed
    BY <1>1, <1>4 DEF Items, Handed
  <1> QED  BY <1>1, <1>3, <1>5, <1>6

LEMMA ReceivedHanded ==
    ASSUME BulkInv, StreamTypes, CountPart, HandedPart, NEW b, Budget(b), FlowInv(b), DecodeRecord
    PROVE  HandedPart'
  <1>1. PICK q \in Nat : /\ q = Rec.seq /\ worker.last < q /\ Rec \in Record
                         /\ Rec.stream = dev.stream /\ Buffer[2].rec = Rec
    BY GapCounts
  <1>2. worker \in WorkerType
        /\ stats \in [received : Nat, gaps : Nat, drops : Nat, resyncs : Nat, stale : Nat]
    BY DEF StreamTypes, WorkerType
  <1>3. /\ UNCHANGED <<dev, taken, ready>> /\ worker.stage = "decode"
        /\ hand' = <<[head |-> Rec, body |-> Buffer[2].rec]>>
    BY DEF DecodeRecord, Received, bulkVars
  <1>4. worker'.stage = "deliver" /\ worker'.last = q
    BY <1>1, <1>2 DEF DecodeRecord, Received, WorkerType
  <1>5. stats'.received = stats.received + 1 /\ stats'.drops = stats.drops
        /\ stats.received \in Nat /\ stats.drops \in Nat
    BY <1>2 DEF DecodeRecord, Received
  <1>6. PICK e \in Item : e = [head |-> Rec, body |-> Rec]
    BY <1>1 DEF Item
  <1>7. e.head = e.body /\ e.head = Rec
    BY <1>6
  <1>8. hand = <<>> /\ hand' = <<e>>
    BY <1>1, <1>3, <1>6 DEF HandedPart
  <1>9. PICK h \in Items : h = taken \o ready
    BY HandedItems
  <1>10. Handed = h
    <2>1. \A i \in Seq(Item) : i \o <<>> = i
      BY ConcatEmptySeq
    <2> QED  BY <1>8, <1>9, <2>1 DEF Handed, Items
  <1>11. Handed' = Append(h, e)
    <2>1. \A i \in Seq(Item) : Append(i, e) = i \o <<e>>
      BY AppendIsConcat
    <2>2. Handed' = h \o <<e>>
      BY <1>3, <1>8, <1>9 DEF Handed
    <2> QED  BY <2>1, <2>2 DEF Items
  <1>12. InOrder(h, dev.stream, worker.last) /\ worker.last \in Int
    BY <1>2, <1>10 DEF HandedPart, WorkerType
  <1>13. /\ Append(h, e) \in Items /\ Len(Append(h, e)) = Len(h) + 1
         /\ InOrder(Append(h, e), dev.stream, e.head.seq)
    BY <1>1, <1>7, <1>12, OneReceived
  <1>14. InOrder(Handed', dev'.stream, worker'.last)
    BY <1>1, <1>3, <1>4, <1>7, <1>11, <1>13
  <1>15. stats'.received = Len(Handed') + stats'.drops
    <2>1. PICK l \in Nat, x \in Nat, d \in Nat : l = Len(h) /\ x = stats.received /\ d = stats.drops
      BY <1>5, <1>10, HandedItems
    <2>2. x = l + d
      BY <1>10, <2>1 DEF HandedPart
    <2>3. x + 1 = (l + 1) + d
      BY <2>2
    <2> QED  BY <1>5, <1>11, <1>13, <2>1, <2>3
  <1>16. hand' # <<>> /\ Len(hand') <= 1
    <2>1. <<e>> # <<>> /\ Len(<<e>>) <= 1
      OBVIOUS
    <2> QED  BY <1>8, <2>1
  <1> QED  BY <1>4, <1>14, <1>15, <1>16 DEF HandedPart

LEMMA QueueHanded ==
    ASSUME StreamTypes, HandedPart, Queue
    PROVE  HandedPart'
  <1>1. worker \in WorkerType
        /\ stats \in [received : Nat, gaps : Nat, drops : Nat, resyncs : Nat, stale : Nat]
    BY DEF StreamTypes, WorkerType
  <1>2. /\ UNCHANGED <<dev, taken>> /\ hand' = <<>>
        /\ ready' = (IF Len(ready) >= Capacity THEN Tail(ready) ELSE ready) \o hand
    BY DEF Queue, bulkVars
  <1>3. worker'.stage = "notify" /\ worker'.last = worker.last
    BY <1>1 DEF Queue, Goto, WorkerType
  <1>4. /\ stats.received \in Nat /\ stats.drops \in Nat /\ stats'.received = stats.received
        /\ stats'.drops = stats.drops + (IF Len(ready) >= Capacity THEN 1 ELSE 0)
    BY <1>1 DEF Queue
  <1>5. /\ taken \in Items /\ ready \in Items /\ hand \in Items /\ Handed \in Items
        /\ Len(Handed) \in Nat /\ Len(ready) \in Nat /\ taken \o (ready \o hand) = Handed
        /\ Handed = (taken \o ready) \o hand
    BY HandedItems DEF Handed
  <1>6. /\ stats.received = Len(Handed) + stats.drops
        /\ InOrder(Handed, dev.stream, worker.last)
    BY DEF HandedPart
  <1>7. Len(hand') <= 1
    BY <1>2
  <1>8. \A i \in Items : i \o <<>> = i
    <2>1. \A i \in Seq(Item) : i \o <<>> = i
      BY ConcatEmptySeq
    <2> QED  BY <2>1 DEF Items
  <1>9. \A i, j \in Items : i \o j \in Items
    <2>1. \A i, j \in Seq(Item) : i \o j \in Seq(Item)
      BY ConcatProperties
    <2> QED  BY <2>1 DEF Items
  <1>10. CASE Len(ready) >= Capacity
    <2>1. Len(ready) >= 1
      BY <1>5, <1>10, StreamAssumption
    <2>a. /\ Tail(ready) \in Items
          /\ Len(taken) + 1 \in 1 .. Len((taken \o ready) \o hand)
          /\ Without((taken \o ready) \o hand, (taken \o (Tail(ready) \o hand)), Len(taken) + 1)
      BY <1>5, <2>1, FirstDropped
    <2>3. taken \o (Tail(ready) \o hand) \in Items
      BY <1>5, <1>9, <2>a
    <2>2. PICK h \in Items, g \in Items, p \in Nat :
              /\ h = Handed /\ g = taken \o (Tail(ready) \o hand)
              /\ p \in 1 .. Len(h) /\ Without(h, g, p)
      <3>1. \A n \in Nat : \A i \in 1 .. n : i \in Nat
        OBVIOUS
      <3> QED  BY <1>5, <2>a, <2>3, <3>1
    <2>4. Handed' = g
      <3>1. Handed' = (taken \o (Tail(ready) \o hand)) \o <<>>
        BY <1>2, <1>10 DEF Handed
      <3> QED  BY <1>8, <2>2, <2>3, <3>1
    <2>5. InOrder(g, dev.stream, worker.last)
      BY <1>6, <2>2, OneDropped
    <2>6. PICK l \in Nat, d \in Nat : l = Len(Handed) /\ d = stats.drops
      BY <1>4, <1>5
    <2>7. Len(g) = l - 1 /\ stats'.drops = d + 1 /\ stats.received = l + d
      BY <1>4, <1>6, <1>10, <2>2, <2>6 DEF Without
    <2>8. stats'.received = Len(g) + stats'.drops
      <3>1. l + d = (l - 1) + (d + 1)
        OBVIOUS
      <3> QED  BY <1>4, <2>7, <3>1
    <2> QED  BY <1>2, <1>3, <1>7, <2>4, <2>5, <2>8 DEF HandedPart
  <1>11. CASE ~(Len(ready) >= Capacity)
    <2>1. Handed' = (taken \o (ready \o hand)) \o <<>>
      BY <1>2, <1>11 DEF Handed
    <2>2. Handed' = Handed
      BY <1>5, <1>8, <2>1
    <2>3. stats'.drops = stats.drops
      BY <1>4, <1>11
    <2> QED  BY <1>2, <1>3, <1>4, <1>6, <1>7, <2>2, <2>3 DEF HandedPart
  <1> QED  BY <1>10, <1>11

LEMMA HandedStep ==
    ASSUME BulkInv, StreamTypes, ThreadPart, CountPart, HandedPart,
           NEW b, Budget(b), FlowPart(b), [Next]_vars
    PROVE  HandedPart'
  <1>1. BulkTypes /\ worker \in WorkerType
        /\ stats \in [received : Nat, gaps : Nat, drops : Nat, resyncs : Nat, stale : Nat]
    BY DEF BulkInv, StreamTypes, WorkerType
  <1>2. CASE BulkNext /\ UNCHANGED streamVars
    <2>1. dev'.stream = dev.stream
      BY <1>1, <1>2 DEF BulkNext, Sample, OtherStops, WriteStep, WriteCopy, WriteArm, WriteSent, Deliver,
                        FailTransfer, Unplug, HandleComplete, Cancelled, FreeRing, BulkTypes
    <2>2. UNCHANGED <<worker, ready, stats, hand, taken>>
      BY <1>2 DEF streamVars
    <2> QED  BY <2>1, <2>2, HandedStays DEF Handed
  <1>3. CASE WorkerStep
    <2>1. CASE DecodeRecord
      <3>1. owner # "destroyed"
        BY <2>1 DEF ThreadPart, DecodeRecord
      <3> QED  BY <2>1, <3>1, ReceivedHanded DEF FlowPart
    <2>2. CASE Queue
      BY <2>2, QueueHanded
    <2>3. CASE \/ Top \/ ReadThrows \/ ReadBytes \/ ReadTimeout \/ Hunt \/ SkipStale
               \/ NotifyOne \/ PollStatus \/ WorkerEnds
      <3>1. UNCHANGED <<ready, hand, taken, dev>>
        BY <2>3 DEF Top, OpenRing, ReadThrows, ReadBytes, ReadTimeout, Hunt, SkipStale, NotifyOne,
                    PollStatus, WorkerEnds, bulkVars
      <3>2. stats'.received = stats.received /\ stats'.drops = stats.drops
        BY <1>1, <2>3 DEF Top, ReadThrows, ReadBytes, ReadTimeout, Hunt, SkipStale, NotifyOne,
                          PollStatus, WorkerEnds
      <3>3. /\ worker'.last = worker.last
            /\ worker.stage # "deliver" /\ worker'.stage # "deliver"
        BY <1>1, <2>3, ZenonT(30) DEF Top, Goto, End, ReadThrows, ReadBytes, ReadTimeout, Quiet, Hunt, SkipStale,
                          NotifyOne, PollStatus, WorkerEnds, NewWorker, WorkerType
      <3> QED  BY <3>1, <3>2, <3>3, HandedStays DEF Handed
    <2> QED  BY <1>3, <2>1, <2>2, <2>3 DEF WorkerStep
  <1>4. CASE \E r \in Readers : ReaderStep(r)
    <2>1. PICK r \in Readers : Test(r) \/ Wait(r) \/ ReadReturns(r)
      BY <1>4 DEF ReaderStep
    <2>2. UNCHANGED <<dev, worker, stats, hand>>
      BY <2>1 DEF Test, Wait, ReadReturns, bulkVars
    <2>3. taken' \o ready' = taken \o ready
      <3>1. Take(r) \/ UNCHANGED <<ready, taken>>
        BY <2>1 DEF Test, Wait, ReadReturns
      <3> QED  BY <3>1, TakeKeeps
    <2> QED  BY <2>2, <2>3, HandedStays DEF Handed
  <1>5. CASE SetStop \/ NotifyAll \/ Join \/ UNCHANGED vars
    <2>1. /\ UNCHANGED <<worker, stats, ready, hand, taken>>
          /\ dev' = dev \/ dev' = [dev EXCEPT !.running = FALSE]
      BY <1>5 DEF SetStop, NotifyAll, Join, bulkVars, vars, streamVars
    <2>2. dev'.stream = dev.stream
      BY <1>1, <2>1 DEF BulkTypes
    <2> QED  BY <2>1, <2>2, HandedStays DEF Handed
  <1>6. CASE StartStream \/ Destroy
    <2>1. /\ ready' = <<>> /\ hand' = <<>> /\ taken' = <<>> /\ stats' = NoStats
          /\ worker' = NewWorker \/ worker' = [NewWorker EXCEPT !.stage = "gone"]
      BY <1>6 DEF StartStream, Destroy, Forget
    <2>2. worker'.stage # "deliver" /\ stats'.received = 0 /\ stats'.drops = 0
      BY <2>1 DEF NewWorker, NoStats
    <2>3. Handed' = <<>> /\ Len(<<>>) = 0
      BY <2>1 DEF Handed
    <2>4. \A i \in 1 .. 0 : FALSE
      OBVIOUS
    <2> QED  BY <2>1, <2>2, <2>3, <2>4 DEF HandedPart, InOrder
  <1> QED  BY <1>2, <1>3, <1>4, <1>5, <1>6 DEF Next

-----------------------------------------------------------------------------
(***************************************************************************)
(* The end of a stream whose device was stopped.                           *)
(***************************************************************************)

LEMMA HeadAlone ==
    ASSUME NEW f \in Packets, NEW st \in Nat, NEW n \in Nat, NEW u, NEW segs,
           Lays(f, st, n, u, segs), Len(u) >= 1, u[1].part = "head"
    PROVE  Len(u) # 1
  <1>1. /\ st = 0 /\ Len(u) >= 2 /\ Len(f) >= 1
        /\ u[1] = [part |-> "head", rec |-> f[1]] /\ u[2] = [part |-> "body", rec |-> f[1]]
    BY FrontUnit
  <1> QED  BY <1>1

(* A read that times out on a device that was stopped, while transfers are *)
(* still in flight, leaves no record anywhere.                             *)
LEMMA NothingLeft ==
    ASSUME BulkInv, StreamTypes, ThreadPart, CountPart, NEW b, FlowInv(b),
           Quiet, worker.stopped, count # 0
    PROVE  All
  <1>1. /\ worker.stage = "read" /\ bytes = <<>> /\ ~InTransit
        /\ worker.buffer = <<>> \/ (Len(worker.buffer) = 1 /\ worker.buffer[1].part = "head")
    BY DEF Quiet, ThreadPart
  <1>2. BulkTypes /\ count = inFlight + Len(done) /\ (~plugged => inFlight = 0)
    BY DEF BulkInv, RingPart
  <1>3. done = <<>> /\ Len(done) = 0 /\ inFlight > 0 /\ plugged
    <2>1. done = <<>> /\ inFlight \in Nat
      BY <1>1, <1>2 DEF InTransit, BulkTypes
    <2>2. Len(<<>>) = 0
      OBVIOUS
    <2>3. inFlight # 0
      BY <1>2, <2>1, <2>2
    <2> QED  BY <1>2, <2>1, <2>2, <2>3
  <1>4. tx.armed = <<>> /\ Pending = <<>>
    BY <1>1, <1>3 DEF InTransit, Pending
  <1>5. Segments[1] = <<>> /\ Segments[2] = <<>>
    <2>1. Segments[Len(done) + 1] = tx.armed /\ Segments[Len(done) + 2] = Pending
      BY <1>2, SegmentsNow
    <2>2. 0 + 1 = 1 /\ 0 + 2 = 2
      OBVIOUS
    <2> QED  BY <1>3, <1>4, <2>1, <2>2
  <1>6. PICK f \in Packets, st \in Nat, start \in Nat :
            Lays(f, st, 2, Stream, Segments) /\ Ordered(f) /\ Covered(f) /\ Timed(f, start, b)
    <2>1. Len(done) + 2 = 2
      BY <1>3
    <2> QED  BY <2>1 DEF FlowInv
  <1>7. worker.buffer \in Seq(Unit) /\ Stream = worker.buffer
    <2>1. worker.buffer \in Seq(Unit)
      BY <1>2, WireTypes
    <2>2. \A s \in Seq(Unit) : s \o <<>> = s
      BY ConcatEmptySeq
    <2> QED  BY <1>1, <2>1, <2>2 DEF Stream
  <1>8. Len(Stream) = 0
    <2>1. CASE worker.buffer = <<>>
      BY <1>7, <2>1
    <2>2. CASE Len(worker.buffer) = 1 /\ worker.buffer[1].part = "head"
      <3>1. PICK u, segs, n : u = worker.buffer /\ segs = Segments /\ n \in Nat /\ n = 2
        OBVIOUS
      <3>2. Lays(f, st, n, u, segs) /\ Len(u) >= 1 /\ u[1].part = "head" /\ Len(u) = 1
        BY <1>6, <1>7, <2>2, <3>1
      <3> QED  BY <1>6, <3>1, <3>2, HeadAlone
    <2> QED  BY <1>1, <2>1, <2>2
  <1>9. Len(f) = 0
    BY <1>5, <1>6, <1>8, NoneLeft
  <1>10. PICK D \in Numbers, m \in Nat, a \in Int :
             D = dev.dropped /\ m = dev.seq /\ a = worker.last
    BY <1>2 DEF BulkTypes, StreamTypes
  <1>11. /\ D \subseteq 1 .. m - 1 /\ a \in -1 .. m - 1
         /\ stats.received + stats.gaps = a + 1
    BY <1>10 DEF CountPart
  <1>12. ASSUME NEW s \in a + 1 .. m - 1
         PROVE  s \in D
    <2>1. s \in 0 .. m - 1 /\ ~(s <= a)
      BY <1>11
    <2>2. \A k \in 1 .. Len(f) : FALSE
      BY <1>9
    <2> QED  BY <1>1, <1>3, <1>6, <1>10, <2>1, <2>2 DEF Covered
  <1>13. Cardinality(After(D, a)) = m - 1 - a
    <2>1. m \in Int /\ a < m
      BY <1>11
    <2> QED  BY <1>11, <1>12, <2>1, DroppedAfter
  <1>14. (a + 1) + (m - 1 - a) = m
    OBVIOUS
  <1> QED  BY <1>10, <1>11, <1>13, <1>14 DEF All, After

LEMMA EndStarts == Init => EndPart
  BY DEF Init, EndPart

(* A stream that has ended stays so.                                       *)
LEMMA EndStays ==
    ASSUME EndPart, error' = error \/ error' # "device stopped",
           worker.stage \in {"ending", "gone"} => worker'.stage \in {"ending", "gone"},
           dev'.running => dev.running,
           worker.stage \in {"ending", "gone"} /\ ~dev.running =>
               /\ dev'.seq = dev.seq /\ dev'.dropped = dev.dropped /\ worker'.last = worker.last
               /\ stats'.received = stats.received /\ stats'.gaps = stats.gaps
               /\ ring # "none" /\ count = 0 => ring' # "none" /\ count' = 0
    PROVE  EndPart'
  BY DEF EndPart, All

LEMMA EndStep ==
    ASSUME BulkInv, BulkInv', StreamTypes, ThreadPart, CountPart, EndPart,
           NEW b, Budget(b), FlowPart(b), [Next]_vars
    PROVE  EndPart'
  <1>1. BulkTypes /\ worker \in WorkerType /\ count = inFlight + Len(done)
        /\ stats \in [received : Nat, gaps : Nat, drops : Nat, resyncs : Nat, stale : Nat]
        /\ error \in Codes \cup {"", "device stopped"}
    BY DEF BulkInv, StreamTypes, WorkerType, RingPart
  <1>2. CASE BulkNext /\ UNCHANGED streamVars
    <2>1. UNCHANGED <<worker, stats, error>>
      BY <1>2 DEF streamVars
    <2>2. CASE HandleComplete
      <3>1. count # 0 /\ dev' = dev
        <4>1. done # <<>> /\ done \in Seq(Ending) /\ inFlight \in Nat
          BY <1>1, <2>2 DEF HandleComplete, BulkTypes
        <4>2. Len(done) \in Nat /\ Len(done) # 0
          BY <4>1, LenProperties, EmptySeq
        <4>3. \A i, l \in Nat : l # 0 => i + l # 0
          OBVIOUS
        <4>4. dev' = dev
          BY <2>2 DEF HandleComplete
        <4> QED  BY <1>1, <4>1, <4>2, <4>3, <4>4
      <3> QED  BY <2>1, <3>1, EndStays
    <2>3. CASE ~HandleComplete
      <3>1. count' = count /\ (ring # "none" => ring' # "none")
        BY <1>2, <2>3 DEF BulkNext, Sample, OtherStops, WriteStep, WriteCopy, WriteArm, WriteSent,
                          Deliver, FailTransfer, Unplug, Cancelled, FreeRing
      <3>2. \/ Sample /\ dev.running
            \/ dev' = dev \/ dev' = [dev EXCEPT !.running = FALSE]
            \/ dev' = [dev EXCEPT !.packet = <<>>]
        BY <1>2, <2>3 DEF BulkNext, Sample, OtherStops, WriteStep, WriteCopy, WriteArm, WriteSent,
                          Deliver, FailTransfer, Unplug, Cancelled, FreeRing
      <3>3. dev'.running => dev.running
        BY <1>1, <3>2 DEF BulkTypes
      <3>4. ~dev.running => dev'.seq = dev.seq /\ dev'.dropped = dev.dropped
        BY <1>1, <3>2 DEF BulkTypes
      <3> QED  BY <2>1, <3>1, <3>3, <3>4, EndStays
    <2> QED  BY <2>2, <2>3
  <1>3. CASE WorkerStep
    <2>1. CASE ReadTimeout
      <3>1. UNCHANGED bulkVars /\ UNCHANGED stats /\ Quiet
        BY <2>1 DEF ReadTimeout
      <3>2. worker.stage = "read" /\ worker'.last = worker.last
        BY <1>1, <2>1 DEF ReadTimeout, Quiet, Goto, End, WorkerType
      <3>3. CASE worker.stopped
        <4>1. worker'.stage = "ending"
          BY <1>1, <2>1, <3>3 DEF ReadTimeout, Goto, End, WorkerType
        <4>2. ~dev.running /\ ring = "open"
          BY <3>2, <3>3 DEF ThreadPart
        <4>3. owner # "destroyed"
          BY <3>2 DEF ThreadPart
        <4>4. count = 0 \/ All
          BY <3>1, <3>3, <4>3, NothingLeft DEF FlowPart
        <4>5. (ring' # "none" /\ count' = 0) \/ All'
          BY <3>1, <3>2, <4>2, <4>4 DEF All, bulkVars
        <4> QED  BY <3>1, <4>1, <4>2, <4>5 DEF EndPart, bulkVars
      <3>4. CASE ~worker.stopped
        <4>1. error' = error
          BY <2>1, <3>4 DEF ReadTimeout
        <4>2. error # "device stopped"
          BY <3>2 DEF EndPart
        <4> QED  BY <4>1, <4>2 DEF EndPart
      <3> QED  BY <3>3, <3>4
    <2>2. CASE WorkerEnds
      <3>1. worker'.stage = "gone" /\ worker'.last = worker.last
        BY <1>1, <2>2 DEF WorkerEnds, NewWorker, WorkerType
      <3>2. UNCHANGED bulkVars /\ UNCHANGED <<stats, error>>
        BY <2>2 DEF WorkerEnds
      <3> QED  BY <3>1, <3>2, EndStays DEF bulkVars
    <2>3. CASE \/ Top \/ ReadThrows \/ ReadBytes \/ Hunt \/ SkipStale \/ DecodeRecord \/ Queue
               \/ NotifyOne \/ PollStatus
      <3>1. worker.stage \notin {"ending", "gone"}
        BY <2>3 DEF Top, ReadThrows, ReadBytes, Hunt, SkipStale, DecodeRecord, Queue, NotifyOne,
                    PollStatus
      <3>2. error' = error \/ error' # "device stopped"
        <4>1. CASE ReadThrows
          <5>1. error' = fatal /\ fatal \in Codes \cup {"none"}
            BY <1>1, <4>1 DEF ReadThrows, End, BulkTypes
          <5> QED  BY <5>1 DEF Codes
        <4>2. CASE ~ReadThrows
          BY <2>3, <4>2 DEF Top, ReadBytes, Hunt, SkipStale, DecodeRecord, Received, Queue, NotifyOne,
                            PollStatus
        <4> QED  BY <4>1, <4>2
      <3>3. error # "device stopped"
        BY <3>1 DEF EndPart
      <3> QED  BY <3>2, <3>3 DEF EndPart
    <2> QED  BY <1>3, <2>1, <2>2, <2>3 DEF WorkerStep
  <1>4. CASE (\E r \in Readers : ReaderStep(r)) \/ SetStop \/ NotifyAll \/ Join \/ UNCHANGED vars
    <2>1. UNCHANGED <<worker, stats, error, ring, count>>
      BY <1>4 DEF ReaderStep, Test, Wait, ReadReturns, SetStop, NotifyAll, Join, bulkVars, vars,
                  streamVars
    <2>2. dev' = dev \/ dev' = [dev EXCEPT !.running = FALSE]
      BY <1>4 DEF ReaderStep, Test, Wait, ReadReturns, SetStop, NotifyAll, Join, bulkVars, vars
    <2>3. /\ dev'.seq = dev.seq /\ dev'.dropped = dev.dropped
          /\ dev'.running => dev.running
      BY <1>1, <2>2 DEF BulkTypes
    <2> QED  BY <2>1, <2>3, EndStays
  <1>5. CASE StartStream \/ Destroy
    <2>1. error' = ""
      BY <1>5 DEF StartStream, Destroy, Forget
    <2> QED  BY <2>1 DEF EndPart
  <1> QED  BY <1>2, <1>3, <1>4, <1>5 DEF Next

-----------------------------------------------------------------------------
(***************************************************************************)
(* What a stream promises, as long as the clock does not turn half way     *)
(* while all the streams last: the records and starts up to the end of     *)
(* each, which are what the clock counts, have a bound below that.         *)
(***************************************************************************)
WideClock == \E b : Budget(b)

StreamInv(b) ==
    /\ BulkInv /\ StreamTypes /\ ThreadPart
    /\ HandedPart /\ CountPart /\ EndPart /\ FlowPart(b)

LEMMA StreamStarts ==
    ASSUME NEW b
    PROVE  Init => StreamInv(b)
  BY BulkStarts, ThreadsStart, HandedStarts, CountsStart, EndStarts, FlowStarts DEF StreamInv

LEMMA StreamStep ==
    ASSUME NEW b, Budget(b), StreamInv(b), [Next]_vars
    PROVE  StreamInv(b)'
  <1>1. /\ BulkInv /\ StreamTypes /\ ThreadPart
        /\ HandedPart /\ CountPart /\ EndPart /\ FlowPart(b)
    BY DEF StreamInv
  <1>2. BulkInv'
    BY <1>1, BulkStep
  <1>3. StreamTypes' /\ ThreadPart'
    BY <1>1, ThreadStep
  <1>4. HandedPart'
    BY <1>1, HandedStep
  <1>5. CountPart'
    BY <1>1, CountStep
  <1>6. EndPart'
    BY <1>1, <1>2, EndStep
  <1>7. FlowPart(b)'
    BY <1>1, <1>2, FlowStep
  <1> QED  BY <1>2, <1>3, <1>4, <1>5, <1>6, <1>7 DEF StreamInv

LEMMA StreamSafe ==
    ASSUME NEW b, Budget(b)
    PROVE  Spec => []StreamInv(b)
  <1>1. Init => StreamInv(b)
    BY StreamStarts
  <1>2. StreamInv(b) /\ [Next]_vars => StreamInv(b)'
    BY StreamStep
  <1> QED  BY <1>1, <1>2, PTL DEF Spec

(* worker_main(), deliver() and read() lose no record without counting it: *)
(* what was received was given to one read(), or waits, or was dropped by  *)
(* a full queue; and seq_gaps is the number the device had to drop.        *)
THEOREM RecordsAreAccounted == WideClock => (Spec => []RecordsAccounted)
  <1> SUFFICES ASSUME WideClock
               PROVE  Spec => []RecordsAccounted
    OBVIOUS
  <1>1. PICK b : Budget(b)
    BY DEF WideClock
  <1>2. Spec => []StreamInv(b)
    BY <1>1, StreamSafe
  <1>3. StreamInv(b) => RecordsAccounted
    BY DEF StreamInv, HandedPart, CountPart, RecordsAccounted
  <1> QED  BY <1>2, <1>3, PTL

(* read() gives out records of this stream only, each whole, in order and  *)
(* once, although a second stream begins with what endpoint and ring kept  *)
(* of the first: what start_t_us is compared with.                         *)
THEOREM OneStreamOnly == WideClock => (Spec => []OnlyThisStream)
  <1> SUFFICES ASSUME WideClock
               PROVE  Spec => []OnlyThisStream
    OBVIOUS
  <1>1. PICK b : Budget(b)
    BY DEF WideClock
  <1>2. Spec => []StreamInv(b)
    BY <1>1, StreamSafe
  <1>3. StreamInv(b) => OnlyThisStream
    <2> SUFFICES ASSUME StreamInv(b)
                 PROVE  OnlyThisStream
      OBVIOUS
    <2>1. Handed \in Seq(Item) /\ InOrder(Handed, dev.stream, worker.last)
      BY HandedItems DEF StreamInv, HandedPart, Items
    <2>2. PICK n \in Nat : n = Len(Handed) /\ DOMAIN Handed = 1 .. n
      BY <2>1, LenProperties
    <2>3. \A i \in 1 .. n : i > 1 => i - 1 \in 1 .. n /\ i - 1 < i
      OBVIOUS
    <2> QED  BY <2>1, <2>2, <2>3 DEF OnlyThisStream, InOrder
  <1> QED  BY <1>2, <1>3, PTL

(* worker_main() ends a stream whose device was stopped by another only    *)
(* after it has read, or counted as lost, each record the device took      *)
(* before that.                                                            *)
THEOREM DrainsBeforeEnd == WideClock => (Spec => []DrainedBeforeEnd)
  <1> SUFFICES ASSUME WideClock
               PROVE  Spec => []DrainedBeforeEnd
    OBVIOUS
  <1>1. PICK b : Budget(b)
    BY DEF WideClock
  <1>2. Spec => []StreamInv(b)
    BY <1>1, StreamSafe
  <1>3. StreamInv(b) => DrainedBeforeEnd
    <2>1. ASSUME StreamInv(b), inFlight > 0
          PROVE  count # 0
      <3>1. count = inFlight + Len(done) /\ inFlight \in Nat /\ Len(done) \in Nat
        BY <2>1, LenProperties DEF StreamInv, BulkInv, RingPart, BulkTypes
      <3> QED  BY <2>1, <3>1
    <2> QED  BY <2>1 DEF StreamInv, EndPart, DrainedBeforeEnd, All
  <1> QED  BY <1>2, <1>3, PTL
=============================================================================
