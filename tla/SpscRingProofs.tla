---------------------------- MODULE SpscRingProofs ----------------------------
(***************************************************************************)
(* The lock-free ring implements the bounded queue, for every depth, every *)
(* index width that is a multiple of it, and every set of entries.         *)
(***************************************************************************)
EXTENDS SpscRing, SequenceTheorems, TLAPS

-----------------------------------------------------------------------------
(***************************************************************************)
(* The invariant the refinement rests on.                                  *)
(***************************************************************************)

(* Every variable has its type.                                            *)
RingTypes ==
    /\ head \in 0 .. IndexMod - 1 /\ tail \in 0 .. IndexMod - 1
    /\ slots \in [Slots -> [Fields -> Entries \cup {NoEntry}]]
    /\ writing \in {"idle", "first", "last", "publish"}
    /\ reading \in {"idle", "release"}

(* The indices are never further apart than the ring is deep, and an entry *)
(* being stored has a slot of its own.                                     *)
RoomKept == Used <= Depth /\ (writing # "idle" => Used < Depth)

(* What the producer has stored so far is in the slot beyond the queue.    *)
HalfWritten ==
    /\ writing # "idle" => entry \in Entries
    /\ writing \in {"last", "publish"} => slots[SlotOf(head)]["first"] = entry
    /\ writing = "publish" => slots[SlotOf(head)]["last"] = entry

(* Every slot between tail and head holds one whole entry.                 *)
QueuedWhole ==
    \A i \in 0 .. Used - 1 :
        LET s == slots[SlotOf(tail + i)]
        IN  s["first"] \in Entries /\ s["last"] = s["first"]

(* The consumer's copy is the oldest entry, which is still in the ring.    *)
CopyIsOldest ==
    reading = "release" => Used > 0 /\ copy = Value(slots[SlotOf(tail)])

RingInv == RingTypes /\ RoomKept /\ HalfWritten /\ QueuedWhole /\ CopyIsOldest

-----------------------------------------------------------------------------
(***************************************************************************)
(* Wrapping indices.                                                       *)
(***************************************************************************)

USE RingAssumption

(* (uint8_t)(head - tail) is how far head is ahead, also past the wrap.    *)
LEMMA DivMod ==
    ASSUME NEW a \in Int, NEW w \in Nat \ {0}
    PROVE  /\ a \div w \in Int /\ a % w \in 0 .. w - 1
           /\ a = (a \div w) * w + (a % w)
  OBVIOUS

LEMMA Cancel ==
    ASSUME NEW a \in Int, NEW b \in Int, NEW w \in Nat \ {0}, a * w < b * w
    PROVE  a < b
  OBVIOUS

LEMMA Next1 ==
    ASSUME NEW a \in Int, NEW w \in Nat
    PROVE  /\ (a + 1) * w = a * w + w /\ (a + 2) * w = a * w + w + w
           /\ (a - 1) * w = a * w - w /\ a * w \in Int
  OBVIOUS

LEMMA Product ==
    ASSUME NEW a \in Int, NEW b \in Int, NEW w \in Nat
    PROVE  /\ (a - b) * w = a * w - b * w /\ (a + b) * w = a * w + b * w
           /\ a * w \in Int /\ 0 * w = 0 /\ 1 * w = w /\ (-1) * w = -w
  OBVIOUS

LEMMA ModIs ==
    ASSUME NEW a \in Int, NEW k \in Int, NEW w \in Nat \ {0}, NEW r \in 0 .. w - 1,
           a = k * w + r
    PROVE  a % w = r
  <1>1. a \div w \in Int /\ a % w \in 0 .. w - 1 /\ a = (a \div w) * w + (a % w)
    BY DivMod
  <1> DEFINE d == a \div w
  <1>2. d \in Int /\ d * w \in Int /\ k * w \in Int /\ a = d * w + (a % w)
    BY <1>1, Product
  <1>3. d * w < k * w + w /\ k * w < d * w + w
    BY <1>1, <1>2
  <1>4. (k + 1) * w = k * w + w /\ (d + 1) * w = d * w + w
    BY <1>2, Next1
  <1>5. d < k + 1 /\ k < d + 1
    <2>1. k + 1 \in Int /\ d + 1 \in Int
      BY <1>2
    <2>2. d * w < (k + 1) * w /\ k * w < (d + 1) * w
      BY <1>3, <1>4
    <2> HIDE DEF d
    <2>3. d \in Int
      BY <1>2
    <2> QED  BY <2>1, <2>2, <2>3, Cancel
  <1>6. d = k
    BY <1>2, <1>5
  <1> QED  BY <1>1, <1>2, <1>6

LEMMA Difference ==
    ASSUME NEW h \in 0 .. IndexMod - 1, NEW t \in 0 .. IndexMod - 1
    PROVE  (h - t) % IndexMod = IF t <= h THEN h - t ELSE h - t + IndexMod
  <1>1. CASE t <= h
    <2>1. h - t \in 0 .. IndexMod - 1 /\ h - t = 0 * IndexMod + (h - t)
      BY <1>1
    <2> QED  BY <1>1, <2>1, ModIs
  <1>2. CASE ~(t <= h)
    <2>1. h - t + IndexMod \in 0 .. IndexMod - 1
      BY <1>2
    <2>2. h - t = (-1) * IndexMod + (h - t + IndexMod)
      BY Product
    <2> QED  BY <1>2, <2>1, <2>2, ModIs
  <1> QED  BY <1>1, <1>2

(* The index after the last is 0.                                          *)
LEMMA BumpIs ==
    ASSUME NEW x \in 0 .. IndexMod - 1
    PROVE  Bump(x) = IF x = IndexMod - 1 THEN 0 ELSE x + 1
  <1>1. CASE x = IndexMod - 1
    <2>1. x + 1 = 1 * IndexMod + 0 /\ 0 \in 0 .. IndexMod - 1
      BY <1>1
    <2> QED  BY <1>1, <2>1, ModIs DEF Bump
  <1>2. CASE x # IndexMod - 1
    <2>1. x + 1 = 0 * IndexMod + (x + 1) /\ x + 1 \in 0 .. IndexMod - 1
      BY <1>2
    <2> QED  BY <1>2, <2>1, ModIs DEF Bump
  <1> QED  BY <1>1, <1>2

(* A slot is in the array.                                                 *)
LEMMA SlotRange ==
    ASSUME NEW a \in Int
    PROVE  SlotOf(a) \in Slots
  BY DivMod DEF SlotOf, Slots

(* Masking commutes with wrapping: an index and the same index a whole     *)
(* round away have one slot.                                               *)
LEMMA SlotWraps ==
    ASSUME NEW a \in Int
    PROVE  SlotOf(a - IndexMod) = SlotOf(a)
  <1> DEFINE k == IndexMod \div Depth
             q == a \div Depth
             r == a % Depth
  <1>1. k \in Int /\ IndexMod = k * Depth
    <2>1. k \in Int /\ IndexMod = k * Depth + (IndexMod % Depth)
      BY DivMod
    <2>2. k * Depth \in Int
      BY <2>1, Product
    <2> QED  BY <2>1, <2>2
  <1>2. q \in Int /\ r \in 0 .. Depth - 1 /\ a = q * Depth + r
    BY DivMod
  <1> HIDE DEF k, q, r
  <1>3. /\ (q - k) * Depth = q * Depth - k * Depth
        /\ q * Depth \in Int /\ k * Depth \in Int
    BY <1>1, <1>2, Product
  <1>4. a - IndexMod = (q - k) * Depth + r
    BY <1>1, <1>2, <1>3
  <1>5. (a - IndexMod) % Depth = r
    <2> DEFINE b == a - IndexMod
               m == q - k
    <2>1. b \in Int /\ m \in Int /\ b = m * Depth + r
      BY <1>1, <1>2, <1>4
    <2> HIDE DEF b, m
    <2>2. b % Depth = r
      BY <2>1, <1>2, ModIs
    <2> QED  BY <2>2 DEF b
  <1> QED  BY <1>5 DEF SlotOf, r

(* Indices less than a ring apart have different slots.                    *)
LEMMA SlotsApart ==
    ASSUME NEW a \in Int, NEW b \in Int, a < b, b - a < Depth
    PROVE  SlotOf(a) # SlotOf(b)
  <1> SUFFICES ASSUME a % Depth = b % Depth
               PROVE  FALSE
    BY DEF SlotOf
  <1> DEFINE p == a \div Depth
             q == b \div Depth
  <1>1. p \in Int /\ a = p * Depth + (a % Depth) /\ a % Depth \in 0 .. Depth - 1
    BY DivMod
  <1>2. q \in Int /\ b = q * Depth + (b % Depth)
    BY DivMod
  <1> HIDE DEF p, q
  <1>3. /\ (q - p) * Depth = q * Depth - p * Depth
        /\ q * Depth \in Int /\ p * Depth \in Int
        /\ 0 * Depth = 0 /\ 1 * Depth = Depth
    BY <1>1, <1>2, Product
  <1>4. 0 * Depth < (q - p) * Depth /\ (q - p) * Depth < 1 * Depth
    BY <1>1, <1>2, <1>3
  <1>5. 0 < q - p /\ q - p < 1
    <2>1. q - p \in Int
      BY <1>1, <1>2
    <2> QED  BY <2>1, <1>4, Cancel
  <1> QED  BY <1>1, <1>2, <1>5

(* The slot of head is the one after the queue.                            *)
LEMMA HeadIsNext ==
    ASSUME NEW h \in 0 .. IndexMod - 1, NEW t \in 0 .. IndexMod - 1
    PROVE  LET u == (h - t) % IndexMod
           IN  u \in 0 .. IndexMod - 1 /\ SlotOf(t + u) = SlotOf(h)
  <1>1. CASE t <= h
    <2>1. (h - t) % IndexMod = h - t
      BY <1>1, Difference
    <2>2. h - t \in 0 .. IndexMod - 1 /\ t + (h - t) = h
      BY <1>1
    <2> QED  BY <2>1, <2>2
  <1>2. CASE ~(t <= h)
    <2>1. (h - t) % IndexMod = h - t + IndexMod
      BY <1>2, Difference
    <2>2. /\ h - t + IndexMod \in 0 .. IndexMod - 1
          /\ t + (h - t + IndexMod) = h + IndexMod
          /\ h + IndexMod \in Int /\ (h + IndexMod) - IndexMod = h
      BY <1>2
    <2>3. SlotOf(h + IndexMod) = SlotOf(h)
      BY <2>2, SlotWraps
    <2> QED  BY <2>1, <2>2, <2>3
  <1> QED  BY <1>1, <1>2

(* Publishing makes the queue one longer.                                  *)
LEMMA OneMore ==
    ASSUME NEW h \in 0 .. IndexMod - 1, NEW t \in 0 .. IndexMod - 1,
           (h - t) % IndexMod < Depth
    PROVE  /\ Bump(h) \in 0 .. IndexMod - 1
           /\ (Bump(h) - t) % IndexMod = ((h - t) % IndexMod) + 1
  <1>1. Bump(h) \in 0 .. IndexMod - 1 /\ Bump(h) = IF h = IndexMod - 1 THEN 0 ELSE h + 1
    BY BumpIs
  <1>2. (h - t) % IndexMod = IF t <= h THEN h - t ELSE h - t + IndexMod
    BY Difference
  <1>3. (Bump(h) - t) % IndexMod = IF t <= Bump(h) THEN Bump(h) - t
                                   ELSE Bump(h) - t + IndexMod
    BY <1>1, Difference
  <1> QED  BY <1>1, <1>2, <1>3

(* Releasing makes it one shorter, and its entries move up by one.         *)
LEMMA OneLess ==
    ASSUME NEW h \in 0 .. IndexMod - 1, NEW t \in 0 .. IndexMod - 1,
           (h - t) % IndexMod > 0
    PROVE  /\ Bump(t) \in 0 .. IndexMod - 1
           /\ (h - Bump(t)) % IndexMod = ((h - t) % IndexMod) - 1
           /\ \A i \in Int : SlotOf(Bump(t) + i) = SlotOf(t + (i + 1))
  <1>1. Bump(t) \in 0 .. IndexMod - 1 /\ Bump(t) = IF t = IndexMod - 1 THEN 0 ELSE t + 1
    BY BumpIs
  <1>2. (h - t) % IndexMod = IF t <= h THEN h - t ELSE h - t + IndexMod
    BY Difference
  <1>3. (h - Bump(t)) % IndexMod = IF Bump(t) <= h THEN h - Bump(t)
                                   ELSE h - Bump(t) + IndexMod
    BY <1>1, Difference
  <1>4. ASSUME NEW i \in Int
        PROVE  SlotOf(Bump(t) + i) = SlotOf(t + (i + 1))
    <2>1. CASE t = IndexMod - 1
      <3>1. Bump(t) + i = (t + (i + 1)) - IndexMod /\ t + (i + 1) \in Int
        BY <1>1, <2>1
      <3> QED  BY <3>1, SlotWraps
    <2>2. CASE t # IndexMod - 1
      <3>1. Bump(t) + i = t + (i + 1)
        BY <1>1, <2>2
      <3> QED  BY <3>1
    <2> QED  BY <2>1, <2>2
  <1> QED  BY <1>1, <1>2, <1>3, <1>4
-----------------------------------------------------------------------------
(***************************************************************************)
(* The invariant is inductive.                                             *)
(***************************************************************************)

(* What the arithmetic says of a state.                                    *)
LEMMA InState ==
    ASSUME RingTypes
    PROVE  /\ Used \in 0 .. IndexMod - 1
           /\ SlotOf(tail + Used) = SlotOf(head)
           /\ SlotOf(head) \in Slots
           /\ \A i \in Int : SlotOf(tail + i) \in Slots
  <1>1. head \in 0 .. IndexMod - 1 /\ tail \in 0 .. IndexMod - 1
    BY DEF RingTypes
  <1>2. \A i \in Int : SlotOf(tail + i) \in Slots
    <2> TAKE i \in Int
    <2>1. tail + i \in Int
      BY <1>1
    <2> QED  BY <2>1, SlotRange
  <1>3. Used \in 0 .. IndexMod - 1 /\ SlotOf(tail + Used) = SlotOf(head)
    BY <1>1, HeadIsNext DEF Used
  <1>4. SlotOf(head) \in Slots
    BY <1>1, SlotRange
  <1> QED  BY <1>2, <1>3, <1>4

(* The slot being filled is none of those in the queue.                    *)
LEMMA OwnSlot ==
    ASSUME RingTypes, RoomKept, writing # "idle", NEW i \in 0 .. Used - 1
    PROVE  SlotOf(tail + i) # SlotOf(head)
  <1>1. Used \in 0 .. IndexMod - 1 /\ SlotOf(tail + Used) = SlotOf(head) /\ Used < Depth
    BY InState DEF RoomKept
  <1>2. tail \in Int
    BY DEF RingTypes
  <1> DEFINE a == tail + i
             b == tail + Used
  <1>3. a \in Int /\ b \in Int /\ a < b /\ b - a < Depth
    BY <1>1, <1>2
  <1>4. SlotOf(b) = SlotOf(head)
    BY <1>1
  <1> HIDE DEF a, b
  <1>5. SlotOf(a) # SlotOf(b)
    BY <1>3, SlotsApart
  <1> QED  BY <1>4, <1>5 DEF a

(* The ring starts empty.                                                  *)
LEMMA RingInit == Init => RingInv
  <1> SUFFICES ASSUME Init
               PROVE  RingInv
    OBVIOUS
  <1>1. 0 \in 0 .. IndexMod - 1
    OBVIOUS
  <1>2. Used = 0
    BY <1>1, Difference DEF Init, Used
  <1> QED
    BY <1>1, <1>2
    DEF Init, RingInv, RingTypes, RoomKept, HalfWritten, QueuedWhole, CopyIsOldest

(* A refusal and the start of an entry: only the producer's own state.     *)
LEMMA RingBegin ==
    ASSUME RingInv, Refuse \/ (\E e \in Entries : Begin(e))
    PROVE  RingInv'
  <1>1. /\ UNCHANGED <<head, tail, slots, reading, copy>>
        /\ Used' = Used
    BY DEF Refuse, Begin, consumer, Used
  <1>2. RingTypes' /\ QueuedWhole' /\ CopyIsOldest'
    BY <1>1 DEF RingInv, RingTypes, QueuedWhole, CopyIsOldest, Refuse, Begin
  <1>3. RoomKept' /\ HalfWritten'
    <2>1. CASE Refuse
      BY <1>1, <2>1 DEF RingInv, RoomKept, HalfWritten, Refuse
    <2>2. CASE \E e \in Entries : Begin(e)
      <3>1. Used < Depth
        BY <2>2, InState DEF RingInv, Begin, IsFull
      <3> QED  BY <1>1, <2>2, <3>1 DEF RingInv, RoomKept, HalfWritten, Begin
    <2> QED  BY <2>1, <2>2
  <1> QED  BY <1>2, <1>3 DEF RingInv

(* A field is stored: the queue is not touched.                            *)
LEMMA RingStore ==
    ASSUME RingInv, NEW f \in Fields, StoreField(f)
    PROVE  /\ RingInv'
           /\ \A i \in 0 .. Used - 1 : slots'[SlotOf(tail + i)] = slots[SlotOf(tail + i)]
  <1>1. /\ UNCHANGED <<head, tail, entry, reading, copy>>
        /\ Used' = Used
        /\ writing \in {"first", "last"} /\ writing = f
        /\ writing' = IF f = "first" THEN "last" ELSE "publish"
        /\ slots' = [slots EXCEPT ![SlotOf(head)][f] = entry]
    BY DEF StoreField, consumer, Used, Fields
  <1>2. /\ RingTypes /\ Used \in 0 .. IndexMod - 1 /\ SlotOf(head) \in Slots
        /\ \A i \in Int : SlotOf(tail + i) \in Slots
        /\ slots \in [Slots -> [Fields -> Entries \cup {NoEntry}]]
        /\ entry \in Entries /\ tail \in Int
    <2>1. RingTypes /\ entry \in Entries
      BY <1>1 DEF RingInv, HalfWritten
    <2>2. slots \in [Slots -> [Fields -> Entries \cup {NoEntry}]] /\ tail \in Int
      BY <2>1 DEF RingTypes
    <2> QED  BY <2>1, <2>2, InState
  <1>3. RingTypes'
    BY <1>1, <1>2 DEF RingTypes, Fields
  <1>4. \A i \in 0 .. Used - 1 : slots'[SlotOf(tail + i)] = slots[SlotOf(tail + i)]
    <2> TAKE i \in 0 .. Used - 1
    <2>1. SlotOf(tail + i) # SlotOf(head)
      BY <1>1, OwnSlot DEF RingInv
    <2>2. SlotOf(tail + i) \in Slots
      BY <1>2
    <2> QED  BY <1>1, <1>2, <2>1, <2>2
  <1>5. QueuedWhole'
    BY <1>1, <1>2, <1>4, ZenonT(40) DEF RingInv, QueuedWhole
  <1>6. CopyIsOldest'
    <2>1. SUFFICES ASSUME reading = "release"
                   PROVE  Used > 0 /\ copy = Value(slots'[SlotOf(tail)])
      BY <1>1 DEF CopyIsOldest, Value
    <2>2. Used > 0 /\ copy = Value(slots[SlotOf(tail)])
      BY <2>1 DEF RingInv, CopyIsOldest
    <2>3. 0 \in 0 .. Used - 1 /\ tail + 0 = tail
      BY <1>2, <2>2
    <2>4. slots'[SlotOf(tail)] = slots[SlotOf(tail)]
      BY <1>4, <2>3
    <2> QED  BY <2>2, <2>4
  <1>7. RoomKept'
    BY <1>1 DEF RingInv, RoomKept
  <1>8. HalfWritten'
    BY <1>1, <1>2 DEF RingInv, HalfWritten, Fields
  <1> QED  BY <1>3, <1>4, <1>5, <1>6, <1>7, <1>8 DEF RingInv

(* The index is published: the filled slot joins the queue.                *)
LEMMA RingPublish ==
    ASSUME RingInv, Publish
    PROVE  RingInv' /\ Used' = Used + 1
  <1>1. /\ UNCHANGED <<tail, slots, reading, copy>>
        /\ head' = Bump(head) /\ writing = "publish" /\ writing' = "idle"
    BY DEF Publish, consumer
  <1>2. /\ RingTypes /\ Used \in 0 .. IndexMod - 1 /\ Used < Depth
        /\ SlotOf(tail + Used) = SlotOf(head)
    BY <1>1, InState DEF RingInv, RoomKept
  <1>3. Used' = Used + 1 /\ head' \in 0 .. IndexMod - 1
    BY <1>1, <1>2, OneMore DEF RingTypes, Used
  <1>4. RingTypes' /\ RoomKept' /\ HalfWritten'
    BY <1>1, <1>2, <1>3 DEF RingTypes, RoomKept, HalfWritten
  <1>5. QueuedWhole'
    <2> SUFFICES ASSUME NEW i \in 0 .. Used
                 PROVE  LET s == slots[SlotOf(tail + i)]
                        IN  s["first"] \in Entries /\ s["last"] = s["first"]
      BY <1>1, <1>2, <1>3 DEF QueuedWhole
    <2>1. CASE i = Used
      BY <1>1, <1>2, <2>1 DEF RingInv, HalfWritten
    <2>2. CASE i # Used
      BY <1>2, <2>2 DEF RingInv, QueuedWhole
    <2> QED  BY <2>1, <2>2
  <1>6. CopyIsOldest'
    BY <1>1, <1>2, <1>3 DEF RingInv, CopyIsOldest
  <1> QED  BY <1>3, <1>4, <1>5, <1>6 DEF RingInv

(* The oldest entry is copied while its slot is still the ring's.          *)
LEMMA RingCopy ==
    ASSUME RingInv, Copy
    PROVE  RingInv'
  <1>1. /\ UNCHANGED <<head, tail, slots, writing, entry>>
        /\ Used' = Used /\ tail # head
        /\ copy' = Value(slots[SlotOf(tail)]) /\ reading' = "release"
    BY DEF Copy, producer, Used
  <1>2. Used > 0
    BY <1>1, Difference DEF RingInv, RingTypes, Used
  <1>3. RingTypes' /\ RoomKept' /\ HalfWritten' /\ QueuedWhole'
    BY <1>1 DEF RingInv, RingTypes, RoomKept, HalfWritten, QueuedWhole
  <1>4. CopyIsOldest'
    BY <1>1, <1>2 DEF CopyIsOldest
  <1> QED  BY <1>3, <1>4 DEF RingInv

(* Its slot is given back.                                                 *)
LEMMA RingRelease ==
    ASSUME RingInv, Release
    PROVE  /\ RingInv' /\ Used > 0 /\ Used' = Used - 1
           /\ \A i \in Int : SlotOf(tail' + i) = SlotOf(tail + (i + 1))
  <1>1. /\ UNCHANGED <<head, slots, writing, entry>>
        /\ tail' = Bump(tail) /\ reading = "release" /\ reading' = "idle"
    BY DEF Release, producer
  <1>2. RingTypes /\ Used \in 0 .. IndexMod - 1 /\ Used > 0
    BY <1>1, InState DEF RingInv, CopyIsOldest
  <1>3. /\ tail' \in 0 .. IndexMod - 1 /\ Used' = Used - 1
        /\ \A i \in Int : SlotOf(tail' + i) = SlotOf(tail + (i + 1))
    BY <1>1, <1>2, OneLess, ZenonT(40) DEF RingTypes, Used
  <1>4. RingTypes' /\ HalfWritten' /\ CopyIsOldest'
    BY <1>1, <1>2, <1>3 DEF RingInv, RingTypes, HalfWritten, CopyIsOldest
  <1>5. RoomKept'
    BY <1>1, <1>2, <1>3 DEF RingInv, RoomKept
  <1>6. QueuedWhole'
    <2> SUFFICES ASSUME NEW i \in 0 .. Used - 2
                 PROVE  LET s == slots[SlotOf(tail' + i)]
                        IN  s["first"] \in Entries /\ s["last"] = s["first"]
      BY <1>1, <1>2, <1>3 DEF QueuedWhole
    <2>1. i + 1 \in 0 .. Used - 1 /\ SlotOf(tail' + i) = SlotOf(tail + (i + 1))
      BY <1>2, <1>3
    <2> QED  BY <2>1 DEF RingInv, QueuedWhole
  <1> QED  BY <1>2, <1>3, <1>4, <1>5, <1>6 DEF RingInv
(* Every step of either side keeps it.                                     *)
LEMMA RingNext == RingInv /\ [Next]_vars => RingInv'
  <1> SUFFICES ASSUME RingInv, [Next]_vars
               PROVE  RingInv'
    OBVIOUS
  <1>1. CASE Refuse \/ (\E e \in Entries : Begin(e))
    BY <1>1, RingBegin
  <1>2. CASE \E f \in Fields : StoreField(f)
    BY <1>2, RingStore
  <1>3. CASE Publish
    BY <1>3, RingPublish
  <1>4. CASE Copy
    BY <1>4, RingCopy
  <1>5. CASE Release
    BY <1>5, RingRelease
  <1>6. CASE UNCHANGED vars
    BY <1>6 DEF vars, producer, consumer, RingInv, RingTypes, RoomKept, HalfWritten,
                QueuedWhole, CopyIsOldest, Used, SlotOf, Value
  <1> QED  BY <1>1, <1>2, <1>3, <1>4, <1>5, <1>6 DEF Next

(* Neither side ever finds the ring overfull, a slot in use being          *)
(* overwritten, or an entry half stored.                                   *)
THEOREM RingSafe == Spec => []RingInv
  <1>1. Init => RingInv
    BY RingInit
  <1>2. RingInv /\ [Next]_vars => RingInv'
    BY RingNext
  <1> QED  BY <1>1, <1>2, PTL DEF Spec

-----------------------------------------------------------------------------
(***************************************************************************)
(* The ring implements the bounded queue, step by step.                    *)
(***************************************************************************)

(* What the slots between tail and head amount to is a queue of entries.   *)
LEMMA QueuedIs ==
    ASSUME RingInv
    PROVE  /\ Queued \in Seq(Entries) /\ Len(Queued) = Used /\ Used \in Nat
           /\ \A i \in 1 .. Used : Queued[i] = Value(slots[SlotOf(tail + i - 1)])
  <1>1. Used \in Nat
    BY InState DEF RingInv
  <1>2. ASSUME NEW i \in 1 .. Used
        PROVE  Value(slots[SlotOf(tail + i - 1)]) \in Entries
    <2>1. i - 1 \in 0 .. Used - 1 /\ tail + (i - 1) = tail + i - 1
      BY <1>1 DEF RingInv, RingTypes
    <2>2. LET s == slots[SlotOf(tail + (i - 1))]
          IN  s["first"] \in Entries /\ s["last"] = s["first"]
      BY <2>1 DEF RingInv, QueuedWhole
    <2> QED  BY <2>1, <2>2 DEF Value
  <1>3. Queued \in [1 .. Used -> Entries]
    BY <1>2 DEF Queued
  <1>4. Queued \in Seq(Entries)
    BY <1>1, <1>3, SeqDef
  <1>5. Len(Queued) \in Nat /\ 1 .. Len(Queued) = 1 .. Used
    BY <1>3, <1>4, LenProperties
  <1>6. Len(Queued) = Used
    BY <1>1, <1>5
  <1> QED  BY <1>1, <1>4, <1>6 DEF Queued

(* A queue with the same entries is the same queue.                        *)
LEMMA SameQueue ==
    ASSUME RingInv, RingInv', Used' = Used,
           \A i \in 1 .. Used : Queued'[i] = Queued[i]
    PROVE  Queued' = Queued
  <1>1. Queued \in Seq(Entries) /\ Len(Queued) = Used
    BY QueuedIs
  <1>2. (Queued \in Seq(Entries) /\ Len(Queued) = Used)'
    BY QueuedIs, PTL
  <1> QED  BY <1>1, <1>2, SeqEqual

(* Initially both are empty.                                               *)
LEMMA FifoInit == Init => Fifo!Init
  <1> SUFFICES ASSUME Init
               PROVE  Fifo!Init
    OBVIOUS
  <1>1. Used = 0
    <2>1. 0 \in 0 .. IndexMod - 1
      OBVIOUS
    <2> QED  BY <2>1, Difference DEF Init, Used
  <1>2. Queued \in Seq(Entries) /\ Len(Queued) = 0
    BY <1>1, RingInit, QueuedIs
  <1>3. Queued = <<>>
    BY <1>2, EmptySeq
  <1> QED  BY <1>3 DEF Init, Fifo!Init

(* A refusal is a refusal by a full queue.                                 *)
LEMMA FifoRefuse ==
    ASSUME RingInv, RingInv', Refuse
    PROVE  Fifo!Refuse
  <1>1. Used' = Used /\ Queued' = Queued /\ UNCHANGED taken /\ outcome' = "refused"
    BY DEF Refuse, consumer, Used, Queued, SlotOf, Value
  <1>2. Len(Queued) = Depth
    BY QueuedIs DEF RingInv, RoomKept, Refuse, IsFull
  <1> QED  BY <1>1, <1>2 DEF Fifo!Refuse

(* Storing the fields is invisible.                                        *)
LEMMA FifoStore ==
    ASSUME RingInv, RingInv', NEW f \in Fields, StoreField(f)
    PROVE  UNCHANGED Fifo!fifoVars
  <1>1. Used' = Used /\ UNCHANGED <<tail, taken, outcome>>
    BY DEF StoreField, consumer, Used
  <1>2. ASSUME NEW i \in 1 .. Used
        PROVE  Queued'[i] = Queued[i]
    <2>1. i - 1 \in 0 .. Used - 1 /\ tail + (i - 1) = tail + i - 1
      BY QueuedIs DEF RingInv, RingTypes
    <2>2. slots'[SlotOf(tail + i - 1)] = slots[SlotOf(tail + i - 1)]
      BY <2>1, RingStore
    <2> QED  BY <1>1, <2>2 DEF Queued, Value
  <1>3. Queued' = Queued
    BY <1>1, <1>2, SameQueue
  <1> QED  BY <1>1, <1>3 DEF Fifo!fifoVars

(* Publishing the index accepts the entry, in one step.                    *)
LEMMA FifoAccept ==
    ASSUME RingInv, RingInv', Publish
    PROVE  entry \in Entries /\ Fifo!Accept(entry)
  <1>1. /\ UNCHANGED <<tail, slots, taken>> /\ outcome' = "accepted"
        /\ writing = "publish" /\ Used' = Used + 1
    BY RingPublish DEF Publish, consumer
  <1>2. entry \in Entries /\ Used < Depth
    BY <1>1 DEF RingInv, HalfWritten, RoomKept
  <1>3. /\ Queued \in Seq(Entries) /\ Len(Queued) = Used /\ Used \in Nat
        /\ \A i \in 1 .. Used : Queued[i] = Value(slots[SlotOf(tail + i - 1)])
    BY QueuedIs
  <1>4. /\ Queued' \in Seq(Entries) /\ Len(Queued') = Used + 1
        /\ \A i \in 1 .. Used + 1 : Queued'[i] = Value(slots[SlotOf(tail + i - 1)])
    <2>1. (/\ Queued \in Seq(Entries) /\ Len(Queued) = Used /\ Used \in Nat
           /\ \A i \in 1 .. Used : Queued[i] = Value(slots[SlotOf(tail + i - 1)]))'
      BY QueuedIs, PTL
    <2> QED  BY <1>1, <2>1 DEF SlotOf, Value
  <1>5. Value(slots[SlotOf(tail + (Used + 1) - 1)]) = entry
    <2>1. tail + (Used + 1) - 1 = tail + Used /\ SlotOf(tail + Used) = SlotOf(head)
      BY <1>3, InState DEF RingInv, RingTypes
    <2> QED  BY <1>1, <2>1 DEF RingInv, HalfWritten, Value
  <1> DEFINE longer == Append(Queued, entry)
  <1>6. /\ longer \in Seq(Entries) /\ Len(longer) = Used + 1
        /\ \A i \in 1 .. Used : longer[i] = Queued[i]
        /\ longer[Used + 1] = entry
    BY <1>2, <1>3, AppendProperties
  <1> HIDE DEF longer
  <1>7. \A i \in 1 .. Used + 1 : Queued'[i] = longer[i]
    BY <1>3, <1>4, <1>5, <1>6
  <1>8. Queued' = longer
    BY <1>4, <1>6, <1>7, SeqEqual
  <1> QED  BY <1>1, <1>2, <1>3, <1>8 DEF Fifo!Accept, longer

(* Releasing the slot takes the oldest entry, whole.                       *)
LEMMA FifoTake ==
    ASSUME RingInv, RingInv', Release
    PROVE  Fifo!Take
  <1>1. /\ UNCHANGED <<slots, outcome>> /\ taken' = copy /\ reading = "release"
        /\ Used > 0 /\ Used' = Used - 1
        /\ \A i \in Int : SlotOf(tail' + i) = SlotOf(tail + (i + 1))
    BY RingRelease DEF Release, producer
  <1>2. /\ Queued \in Seq(Entries) /\ Len(Queued) = Used /\ Used \in Nat
        /\ \A i \in 1 .. Used : Queued[i] = Value(slots[SlotOf(tail + i - 1)])
    BY QueuedIs
  <1>3. /\ Queued' \in Seq(Entries) /\ Len(Queued') = Used - 1
        /\ \A i \in 1 .. Used - 1 : Queued'[i] = Value(slots[SlotOf(tail' + i - 1)])
    <2>1. (/\ Queued \in Seq(Entries) /\ Len(Queued) = Used /\ Used \in Nat
           /\ \A i \in 1 .. Used : Queued[i] = Value(slots[SlotOf(tail + i - 1)]))'
      BY QueuedIs, PTL
    <2> QED  BY <1>1, <2>1 DEF SlotOf, Value
  <1>4. Queued # <<>>
    BY <1>1, <1>2, EmptySeq
  <1>5. taken' = Head(Queued)
    <2>1. copy = Value(slots[SlotOf(tail)])
      BY <1>1 DEF RingInv, CopyIsOldest
    <2>2. tail + 1 - 1 = tail /\ 1 \in 1 .. Used
      BY <1>1, <1>2 DEF RingInv, RingTypes
    <2>3. Queued[1] = Value(slots[SlotOf(tail)])
      BY <1>2, <2>2
    <2>4. Head(Queued) = Queued[1]
      BY <1>2, <1>4
    <2> QED  BY <1>1, <2>1, <2>3, <2>4
  <1>6. /\ Tail(Queued) \in Seq(Entries) /\ Len(Tail(Queued)) = Used - 1
        /\ \A i \in 1 .. Used - 1 : Tail(Queued)[i] = Queued[i + 1]
    BY <1>2, <1>4, HeadTailProperties
  <1>7. ASSUME NEW i \in 1 .. Used - 1
        PROVE  Queued'[i] = Tail(Queued)[i]
    <2>1. /\ i + 1 \in 1 .. Used
          /\ tail + (i + 1) - 1 = tail + ((i - 1) + 1)
          /\ tail' + i - 1 = tail' + (i - 1) /\ i - 1 \in Int
      BY <1>2 DEF RingInv, RingTypes
    <2>2. SlotOf(tail' + i - 1) = SlotOf(tail + (i + 1) - 1)
      BY <1>1, <2>1
    <2> QED  BY <1>2, <1>3, <1>6, <2>1, <2>2, SMTT(30)
  <1>8. Queued' = Tail(Queued)
    BY <1>3, <1>6, <1>7, SeqEqual
  <1> QED  BY <1>1, <1>4, <1>5, <1>8 DEF Fifo!Take

(* Every step of the ring is a step of the queue or leaves it alone.       *)
LEMMA FifoNext ==
    RingInv /\ RingInv' /\ [Next]_vars => [Fifo!Next]_Fifo!fifoVars
  <1> SUFFICES ASSUME RingInv, RingInv', [Next]_vars
               PROVE  [Fifo!Next]_Fifo!fifoVars
    OBVIOUS
  <1>1. CASE Refuse
    BY <1>1, FifoRefuse DEF Fifo!Next
  <1>2. CASE \E e \in Entries : Begin(e)
    BY <1>2 DEF Begin, consumer, Fifo!fifoVars, Queued, Used, SlotOf, Value
  <1>3. CASE \E f \in Fields : StoreField(f)
    BY <1>3, FifoStore
  <1>4. CASE Publish
    BY <1>4, FifoAccept DEF Fifo!Next
  <1>5. CASE Copy
    BY <1>5 DEF Copy, producer, Fifo!fifoVars, Queued, Used, SlotOf, Value
  <1>6. CASE Release
    BY <1>6, FifoTake DEF Fifo!Next
  <1>7. CASE UNCHANGED vars
    BY <1>7 DEF vars, producer, consumer, Fifo!fifoVars, Queued, Used, SlotOf, Value
  <1> QED  BY <1>1, <1>2, <1>3, <1>4, <1>5, <1>6, <1>7 DEF Next

(* The two rings of the firmware, UsbIo's command queue and its event      *)
(* queue, are bounded first-in first-out queues, whatever the producer and *)
(* the consumer do between each other's accesses (UsbIo.h: "SPSC ring").   *)
THEOREM RingImplementsFifo == Spec => ImplementsFifo
  <1>1. Init => Fifo!Init
    BY FifoInit
  <1>2. RingInv /\ RingInv' /\ [Next]_vars => [Fifo!Next]_Fifo!fifoVars
    BY FifoNext
  <1>3. Spec => []RingInv
    BY RingSafe
  <1> QED  BY <1>1, <1>2, <1>3, PTL DEF Spec, ImplementsFifo, Fifo!Spec
=============================================================================
