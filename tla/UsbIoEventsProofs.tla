--------------------------- MODULE UsbIoEventsProofs ---------------------------
(***************************************************************************)
(* What holds of the firmware's pin events for any number of pins, slots   *)
(* and queue entries, and any bounds on counters: requests are served      *)
(* between any two steps of a scan.                                        *)
(***************************************************************************)
EXTENDS UsbIoEvents, FiniteSetTheorems, SequenceTheorems, WellFoundedInduction, TLAPS

-----------------------------------------------------------------------------
(***************************************************************************)
(* The inductive invariant.                                                *)
(***************************************************************************)

(* The slot event_poll() holds is the one it read the pin from; one        *)
(* request may have disarmed it since, but not given it to another pin.    *)
HoldsSlot ==
    /\ Holding => watch[slot].pin = pin
    /\ Holding /\ ~interrupted => watch[slot].active
    /\ interrupted => Holding

(* The edge in hand has become the baseline, and counting it stays within  *)
(* the bound.                                                              *)
EdgeInHand ==
    /\ pc \in {"any", "direction", "push", "drop", "store"} =>
            watch[slot].prev = dio[pin]
    /\ pc \in {"any", "direction"} => watch[slot].count < MaxCount
    /\ pc = "push" => watch[slot].count > 0

(* A slot that counted all the edges it may sees no other in this scan.    *)
CountCapped ==
    pc # "idle" =>
        \A i \in Slots : ~Fresh(watch[i]) /\ watch[i].count = MaxCount =>
            dio[watch[i].pin] = watch[i].prev

(* The slots this scan has left behind: all of them between two scans.     *)
Scanned(i) == pc = "idle" \/ i < slot

(* BaselineTracks, in the middle of a scan.                                *)
Baselines ==
    \A i \in Slots : Scanned(i) /\ watch[i].active /\ ~Fresh(watch[i]) =>
        watch[i].prev = dio[watch[i].pin]

(* The entries of the arming a slot counts for are numbered up to its      *)
(* count; the arming it is about to notice has none.                       *)
NumberedUpTo ==
    \A k \in 1 .. Len(ring), i \in Slots : IsEvent(ring[k]) =>
        /\ ring[k].arming = <<i, watch[i].seen>> =>
              /\ ring[k].seq <= watch[i].count
              /\ pc = "push" /\ slot = i => ring[k].seq < watch[i].count
        /\ Fresh(watch[i]) => ring[k].arming # <<i, watch[i].arm>>

(* Each drop since the last POP is in the counter, or in the value about   *)
(* to be written to it.                                                    *)
DropsKept == dropped >= lost /\ (pc = "store" => held >= lost)

(* An OFF leaves no armed slot and no event of its pin behind it, except   *)
(* the one edge the scan has in hand.                                      *)
EventsOf(p) == Cardinality({k \in 1 .. Len(ring) : ring[k].pin = p})

OffKept ==
    /\ \A i \in Slots : watch[i].active => mayFind[watch[i].pin] = EventDepth
    /\ Holding => \/ mayFind[pin] = EventDepth
                  \/ EventsOf(pin) = 0 /\ mayFind[pin] >= 1

(* The history of armings names no pin twice.                              *)
OrderDistinct == \A j, k \in 1 .. Len(order) : order[j] = order[k] => j = k

(* How many armings ago a slot was armed.                                  *)
Age(i) == IF watch[i].arm <= armSeq THEN armSeq - watch[i].arm
          ELSE armSeq - watch[i].arm + SeqMod

(* The history of armings names the watched pins, the oldest first; none   *)
(* is half a turn of arm_seq old.                                          *)
ArmOrder ==
    /\ \A i \in Slots : watch[i].active =>
          2 * Age(i) < SeqMod /\ \E k \in 1 .. Len(order) : order[k] = watch[i].pin
    /\ \A k \in 1 .. Len(order) : IsWatched(order[k])
    /\ \A j, k \in 1 .. Len(order), a, b \in Slots :
          /\ watch[a].active /\ watch[a].pin = order[j]
          /\ watch[b].active /\ watch[b].pin = order[k] /\ j < k
          => Age(a) > Age(b)

EventsInv ==
    /\ TypeOK /\ WatchTable
    /\ HoldsSlot /\ EdgeInHand /\ CountCapped
    /\ Baselines
    /\ SeqOrdered /\ NumberedUpTo
    /\ DropsKept
    /\ OffDiscards /\ OffKept
    /\ OrderDistinct /\ ArmOrder
-----------------------------------------------------------------------------
(***************************************************************************)
(* What the operators of the model return.                                 *)
(***************************************************************************)

(* A set of natural numbers that is not empty has a least element.         *)
LEMMA Least ==
    ASSUME NEW S \in SUBSET Nat, S # {}
    PROVE  \E n \in S : \A m \in S : n <= m
  <1> DEFINE R == OpToRel(<, Nat)
  <1>1. IsWellFoundedOn(R, Nat)
    BY NatLessThanWellFounded
  <1>2. \A x, y \in Nat : x < y => <<x, y>> \in R
    BY DEF OpToRel
  <1> HIDE DEF R
  <1>3. PICK n \in S : \A m \in S : ~ (<<m, n>> \in R)
    BY <1>1, WFMin
  <1>4. \A m \in S : n <= m
    <2> TAKE m \in S
    <2>1. m \in Nat /\ n \in Nat
      OBVIOUS
    <2>2. ~ (m < n)
      BY <1>2, <1>3, <2>1
    <2> QED  BY <2>1, <2>2
  <1> QED  BY <1>4

(* A set with 0, and with the successor of each number it has, has all.    *)
LEMMA Induction ==
    ASSUME NEW S, 0 \in S, \A n \in Nat : n \in S => n + 1 \in S
    PROVE  \A n \in Nat : n \in S
  <1> DEFINE Rest == {n \in Nat : n \notin S}
  <1>1. ASSUME Rest # {}
        PROVE  FALSE
    <2>1. PICK n \in Rest : \A m \in Rest : n <= m
      <3>1. Rest \in SUBSET Nat
        OBVIOUS
      <3> HIDE DEF Rest
      <3> QED  BY <1>1, <3>1, Least
    <2>2. n - 1 \in Nat /\ n - 1 \notin Rest
      BY <2>1
    <2> QED  BY <2>1, <2>2
  <1> QED  BY <1>1

(* Division and multiplication.                                            *)
LEMMA DivMod ==
    ASSUME NEW a \in Int, NEW w \in Nat \ {0}
    PROVE  /\ a \div w \in Int /\ a % w \in 0 .. w - 1
           /\ a = (a \div w) * w + (a % w)
  OBVIOUS

LEMMA Cancel ==
    ASSUME NEW a \in Int, NEW b \in Int, NEW w \in Nat \ {0}, a * w < b * w
    PROVE  a < b
  OBVIOUS

LEMMA Next1 ==
    ASSUME NEW a \in Int, NEW w \in Nat
    PROVE  /\ (a + 1) * w = a * w + w /\ (a + 2) * w = a * w + w + w
           /\ (a - 1) * w = a * w - w /\ a * w \in Int
  OBVIOUS

LEMMA Product ==
    ASSUME NEW a \in Int, NEW b \in Int, NEW w \in Nat
    PROVE  /\ (a - b) * w = a * w - b * w /\ (a + b) * w = a * w + b * w
           /\ a * w \in Int /\ 0 * w = 0 /\ 1 * w = w /\ (-1) * w = -w
  OBVIOUS

LEMMA ModIs ==
    ASSUME NEW a \in Int, NEW k \in Int, NEW w \in Nat \ {0}, NEW r \in 0 .. w - 1,
           a = k * w + r
    PROVE  a % w = r
  <1>1. a \div w \in Int /\ a % w \in 0 .. w - 1 /\ a = (a \div w) * w + (a % w)
    BY DivMod
  <1> DEFINE d == a \div w
  <1>2. d \in Int /\ d * w \in Int /\ k * w \in Int /\ a = d * w + (a % w)
    BY <1>1, Product
  <1>3. d * w < k * w + w /\ k * w < d * w + w
    BY <1>1, <1>2
  <1>4. (k + 1) * w = k * w + w /\ (d + 1) * w = d * w + w
    BY <1>2, Next1
  <1>5. d < k + 1 /\ k < d + 1
    <2>1. k + 1 \in Int /\ d + 1 \in Int
      BY <1>2
    <2>2. d * w < (k + 1) * w /\ k * w < (d + 1) * w
      BY <1>3, <1>4
    <2> HIDE DEF d
    <2>3. d \in Int
      BY <1>2
    <2> QED  BY <2>1, <2>2, <2>3, Cancel
  <1>6. d = k
    BY <1>2, <1>5
  <1> QED  BY <1>1, <1>2, <1>6

(* A difference of less than the modulus, modulo it.                       *)
LEMMA ModSmall ==
    ASSUME NEW w \in Nat \ {0}, NEW d \in Int, -w < d, d < w
    PROVE  d % w = IF d >= 0 THEN d ELSE d + w
  <1>1. CASE d >= 0
    <2>1. d \in 0 .. w - 1 /\ d = 0 * w + d
      BY <1>1
    <2> QED  BY <1>1, <2>1, ModIs
  <1>2. CASE d < 0
    <2>1. d + w \in 0 .. w - 1 /\ d = (-1) * w + (d + w) /\ -1 \in Int
      BY <1>2
    <2>2. d % w = d + w
      BY <2>1, ModIs
    <2> QED  BY <1>2, <2>2
  <1> QED  BY <1>1, <1>2

(* A sequence without its k-th element.                                    *)
Removed(s, k) == SubSeq(s, 1, k - 1) \o SubSeq(s, k + 1, Len(s))

(* The elements after it move up by one.                                   *)
LEMMA OneRemoved ==
    ASSUME NEW S, NEW s \in Seq(S), NEW k \in 1 .. Len(s)
    PROVE  /\ Removed(s, k) \in Seq(S) /\ Len(Removed(s, k)) = Len(s) - 1
           /\ \A i \in 1 .. Len(s) - 1 :
                  Removed(s, k)[i] = IF i < k THEN s[i] ELSE s[i + 1]
  <1>1. Len(s) \in Nat /\ \A j \in 1 .. Len(s) : s[j] \in S
    BY LenProperties, ElementOfSeq
  <1>2. PICK a \in Seq(S) : /\ a = SubSeq(s, 1, k - 1) /\ Len(a) = k - 1
                            /\ \A i \in 1 .. k - 1 : a[i] = s[i]
    <2> DEFINE x == SubSeq(s, 1, k - 1)
    <2>1. 1 \in Int /\ k - 1 \in Int /\ \A i \in 1 .. k - 1 : s[i] \in S
      BY <1>1
    <2>2. /\ x \in Seq(S) /\ Len(x) = IF 1 <= k - 1 THEN k - 1 - 1 + 1 ELSE 0
          /\ \A i \in 1 .. k - 1 - 1 + 1 : x[i] = s[1 + i - 1]
      BY <2>1, SubSeqProperties
    <2> HIDE DEF x
    <2>3. Len(x) = k - 1 /\ \A i \in 1 .. k - 1 : x[i] = s[i]
      BY <1>1, <2>2
    <2> QED  BY <2>2, <2>3 DEF x
  <1>3. PICK b \in Seq(S) : /\ b = SubSeq(s, k + 1, Len(s)) /\ Len(b) = Len(s) - k
                            /\ \A i \in 1 .. Len(s) - k : b[i] = s[k + i]
    <2> DEFINE x == SubSeq(s, k + 1, Len(s))
    <2>1. /\ k + 1 \in Int /\ Len(s) \in Int
          /\ \A i \in k + 1 .. Len(s) : s[i] \in S
      BY <1>1
    <2>2. /\ x \in Seq(S)
          /\ Len(x) = IF k + 1 <= Len(s) THEN Len(s) - (k + 1) + 1 ELSE 0
          /\ \A i \in 1 .. Len(s) - (k + 1) + 1 : x[i] = s[(k + 1) + i - 1]
      BY <2>1, SubSeqProperties
    <2> HIDE DEF x
    <2>3. Len(x) = Len(s) - k /\ \A i \in 1 .. Len(s) - k : x[i] = s[k + i]
      BY <1>1, <2>2
    <2> QED  BY <2>2, <2>3 DEF x
  <1> DEFINE w == a \o b
  <1>4. /\ w \in Seq(S) /\ Len(w) = Len(a) + Len(b)
        /\ \A i \in 1 .. Len(a) + Len(b) :
               w[i] = IF i <= Len(a) THEN a[i] ELSE b[i - Len(a)]
    BY ConcatProperties
  <1>8. w = Removed(s, k)
    BY <1>2, <1>3 DEF Removed
  <1> HIDE DEF w
  <1>7. Len(a) = k - 1 /\ Len(b) = Len(s) - k
    BY <1>2, <1>3
  <1>5. Len(w) = Len(s) - 1
    <2>1. Len(w) = Len(a) + Len(b)
      BY <1>4
    <2> QED  BY <1>1, <1>7, <2>1
  <1>6. \A i \in 1 .. Len(s) - 1 : w[i] = IF i < k THEN s[i] ELSE s[i + 1]
    <2> TAKE i \in 1 .. Len(s) - 1
    <2>1. CASE i < k
      <3>1. i \in 1 .. Len(a) + Len(b) /\ i <= Len(a) /\ i \in 1 .. k - 1
        BY <1>1, <1>7, <2>1
      <3> QED  BY <1>2, <1>4, <2>1, <3>1
    <2>2. CASE ~(i < k)
      <3>1. i - (k - 1) \in 1 .. Len(s) - k /\ k + (i - (k - 1)) = i + 1
        BY <1>1, <2>2
      <3>2. i \in 1 .. Len(a) + Len(b) /\ ~(i <= Len(a)) /\ Len(a) = k - 1
        BY <1>1, <1>7, <2>2
      <3>3. w[i] = b[i - (k - 1)]
        BY <1>4, <3>2
      <3>4. b[i - (k - 1)] = s[k + (i - (k - 1))]
        BY <1>3, <3>1
      <3> QED  BY <2>2, <3>1, <3>3, <3>4
    <2> QED  BY <2>1, <2>2
  <1> QED  BY <1>4, <1>5, <1>6, <1>8

(* The numbers up to n are n.                                              *)
LEMMA CountTo ==
    ASSUME NEW n \in Nat
    PROVE  IsFiniteSet(1 .. n) /\ Cardinality(1 .. n) = n
  BY FS_Interval

(* A subset of them is finite, and no larger.                              *)
LEMMA PartOfInterval ==
    ASSUME NEW n \in Nat, NEW S \in SUBSET (1 .. n)
    PROVE  IsFiniteSet(S) /\ Cardinality(S) \in Nat /\ Cardinality(S) <= n
  <1> DEFINE T == 1 .. n
  <1>1. IsFiniteSet(T) /\ Cardinality(T) = n /\ S \in SUBSET T
    BY CountTo
  <1> HIDE DEF T
  <1> QED  BY <1>1, FS_Subset, FS_CardinalityType

USE EventsAssumption

(* The same of the slots.                                                  *)
LEMMA PartOfSlots ==
    ASSUME NEW S \in SUBSET Slots
    PROVE  IsFiniteSet(S) /\ Cardinality(S) \in 0 .. MaxWatched
  <1>1. IsFiniteSet(Slots) /\ Cardinality(Slots) = MaxWatched
    <2>1. MaxWatched - 1 \in Int /\ ~(0 > MaxWatched - 1)
      OBVIOUS
    <2> QED  BY <2>1, FS_Interval DEF Slots
  <1> QED  BY <1>1, FS_Subset, FS_CardinalityType

(* find_free_event_slot() finds a slot when not all of them are in use.    *)
LEMMA FreeSlotIs ==
    ASSUME TypeOK, nWatched = Cardinality({i \in Slots : watch[i].active}),
           nWatched < MaxWatched
    PROVE  FreeSlot \in Slots /\ ~watch[FreeSlot].active
  <1>1. FreeSlots # {}
    <2> SUFFICES ASSUME FreeSlots = {}
                 PROVE  FALSE
      OBVIOUS
    <2>1. {i \in Slots : watch[i].active} = Slots
      BY DEF FreeSlots
    <2>2. Cardinality(Slots) = MaxWatched
      <3>1. MaxWatched - 1 \in Int /\ ~(0 > MaxWatched - 1)
        OBVIOUS
      <3> QED  BY <3>1, FS_Interval DEF Slots
    <2>3. nWatched = MaxWatched
      BY <2>1, <2>2, Zenon
    <2> QED  BY <2>3
  <1>2. FreeSlots \in SUBSET Nat
    BY DEF FreeSlots, Slots
  <1>3. \E i \in FreeSlots : \A j \in FreeSlots : i <= j
    BY <1>1, <1>2, Least
  <1>4. FreeSlot \in FreeSlots
    BY <1>3 DEF FreeSlot
  <1> QED  BY <1>4 DEF FreeSlots

(* The events among the first n entries, one entry more.                   *)
LEMMA EventsInStep ==
    ASSUME NEW n \in Nat
    PROVE  /\ EventsIn(n) \in Nat /\ EventsIn(0) = 0
           /\ EventsIn(n + 1) <= EventsIn(n) + 1
  <1> DEFINE E(m) == {k \in 1 .. m : IsEvent(ring[k])}
  <1>1. E(0) = {}
    OBVIOUS
  <1>2. IsFiniteSet(E(n)) /\ Cardinality(E(n)) \in Nat
    <2>1. E(n) \in SUBSET (1 .. n)
      OBVIOUS
    <2> QED  BY <2>1, PartOfInterval
  <1>3. E(n + 1) = E(n) \/ E(n + 1) = E(n) \cup {n + 1}
    <2>1. 1 .. n + 1 = (1 .. n) \cup {n + 1}
      OBVIOUS
    <2>2. CASE IsEvent(ring[n + 1])
      BY <2>1, <2>2
    <2>3. CASE ~IsEvent(ring[n + 1])
      BY <2>1, <2>3
    <2> QED  BY <2>2, <2>3
  <1>4. Cardinality(E(n + 1)) <= Cardinality(E(n)) + 1
    <2> HIDE DEF E
    <2>1. Cardinality(E(n) \cup {n + 1}) =
            IF n + 1 \in E(n) THEN Cardinality(E(n)) ELSE Cardinality(E(n)) + 1
      BY <1>2, FS_AddElement
    <2> QED  BY <1>2, <1>3, <2>1
  <1> QED  BY <1>1, <1>2, <1>4, FS_EmptySet DEF EventsIn

(* EVENT_POP takes entries up to the one that fills the reply, or all.     *)
LEMMA PopLengthIs ==
    ASSUME TypeOK, NEW cap \in 1 .. MaxPerPop
    PROVE  /\ PopLength(cap) \in 0 .. Len(ring)
           /\ EventsIn(PopLength(cap)) <= cap
           /\ PopLength(cap) = Len(ring) \/ EventsIn(PopLength(cap)) = cap
  <1> DEFINE P(n) == /\ EventsIn(n) <= cap
                     /\ n = Len(ring) \/ EventsIn(n) = cap
                     /\ \A m \in 0 .. n - 1 : EventsIn(m) < cap
             S == {n \in 0 .. Len(ring) : n = Len(ring) \/ EventsIn(n) >= cap}
  <1>1. Len(ring) \in Nat
    BY LenProperties DEF TypeOK
  <1>2. Len(ring) \in S /\ S \in SUBSET Nat
    BY <1>1
  <1>3. PICK n \in S : \A m \in S : n <= m
    BY <1>2, Least
  <1>4. n \in 0 .. Len(ring) /\ n \in Nat
    BY <1>1
  <1>5. \A m \in 0 .. n - 1 : EventsIn(m) < cap
    <2> TAKE m \in 0 .. n - 1
    <2>1. m \in Nat
      BY <1>4
    <2> HIDE DEF S
    <2>2. EventsIn(m) \in Nat
      BY <2>1, EventsInStep
    <2> USE DEF S
    <2>3. m \notin S
      BY <1>3, <1>4, <2>1
    <2> QED  BY <1>1, <1>4, <2>1, <2>2, <2>3
  <1>6. EventsIn(n) <= cap
    <2>1. CASE n = 0
      BY <1>4, <2>1, EventsInStep
    <2>2. CASE n # 0
      <3>1. n - 1 \in Nat /\ n - 1 \in 0 .. n - 1 /\ (n - 1) + 1 = n
        BY <1>4, <2>2
      <3>2. EventsIn(n) <= EventsIn(n - 1) + 1 /\ EventsIn(n - 1) \in Nat
        BY <3>1, EventsInStep
      <3>3. EventsIn(n) \in Nat /\ EventsIn(n - 1) < cap
        BY <1>4, <1>5, <3>1, EventsInStep
      <3> QED  BY <3>2, <3>3
    <2> QED  BY <2>1, <2>2
  <1>7. EventsIn(n) \in Nat /\ (n = Len(ring) \/ EventsIn(n) >= cap)
    BY <1>4, EventsInStep
  <1>8. P(n)
    BY <1>5, <1>6, <1>7
  <1>9. PopLength(cap) = CHOOSE m \in 0 .. Len(ring) : P(m)
    BY DEF PopLength
  <1> HIDE DEF P
  <1>10. PopLength(cap) \in 0 .. Len(ring) /\ P(PopLength(cap))
    BY <1>4, <1>8, <1>9
  <1> QED  BY <1>10 DEF P

(* An armed pin leaves its place in the order: what is left is in order    *)
(* still, and does not name it.                                            *)
LEMMA WithoutIs ==
    ASSUME TypeOK, OrderDistinct, NEW p \in Pins
    PROVE  /\ Without(p) \in Seq(Pins)
           /\ \A j, k \in 1 .. Len(Without(p)) : Without(p)[j] = Without(p)[k] => j = k
           /\ \A j \in 1 .. Len(Without(p)) : Without(p)[j] # p
  <1> DEFINE at == {k \in 1 .. Len(order) : order[k] = p}
  <1>1. order \in Seq(Pins) /\ Len(order) \in Nat
    BY LenProperties DEF TypeOK
  <1>2. CASE at = {}
    BY <1>1, <1>2 DEF Without, OrderDistinct
  <1>3. CASE at # {}
    <2>1. PICK k \in at : k = CHOOSE j \in at : TRUE
      BY <1>3
    <2>2. k \in 1 .. Len(order) /\ order[k] = p
      OBVIOUS
    <2>3. Without(p) = Removed(order, k)
      BY <1>3, <2>1 DEF Without, Removed
    <2> HIDE DEF at
    <2>4. /\ Removed(order, k) \in Seq(Pins)
          /\ Len(Removed(order, k)) = Len(order) - 1
          /\ \A i \in 1 .. Len(order) - 1 :
                    Removed(order, k)[i] = IF i < k THEN order[i] ELSE order[i + 1]
      BY <1>1, <2>2, OneRemoved
    <2>5. /\ Without(p) \in Seq(Pins)
          /\ Len(Without(p)) = Len(order) - 1
          /\ \A i \in 1 .. Len(order) - 1 :
                    Without(p)[i] = IF i < k THEN order[i] ELSE order[i + 1]
      BY <2>3, <2>4
    <2>6. \A i, j \in 1 .. Len(Without(p)) : Without(p)[i] = Without(p)[j] => i = j
      BY <1>1, <2>2, <2>5 DEF OrderDistinct
    <2>7. \A j \in 1 .. Len(Without(p)) : Without(p)[j] # p
      BY <1>1, <2>2, <2>5 DEF OrderDistinct
    <2> QED  BY <2>5, <2>6, <2>7
  <1> QED  BY <1>2, <1>3

(* A history that names no pin twice is no longer than there are pins.     *)
LEMMA DistinctIsShort ==
    ASSUME NEW s \in Seq(Pins), \A j, k \in 1 .. Len(s) : s[j] = s[k] => j = k
    PROVE  Len(s) <= NPins
  <1>1. Len(s) \in Nat /\ s \in [1 .. Len(s) -> Pins]
    BY LenProperties
  <1>2. s \in Injection(1 .. Len(s), Pins)
    BY <1>1 DEF Injection, IsInjective
  <1>3. IsFiniteSet(Pins) /\ Cardinality(Pins) = NPins
    <2>1. NPins - 1 \in Int /\ ~(0 > NPins - 1)
      OBVIOUS
    <2> QED  BY <2>1, FS_Interval DEF Pins
  <1>4. Cardinality(1 .. Len(s)) <= Cardinality(Pins)
    BY <1>2, <1>3, FS_Injection
  <1>5. Cardinality(1 .. Len(s)) = Len(s)
    BY <1>1, CountTo
  <1> QED  BY <1>3, <1>4, <1>5

(* The pin that is armed comes last in the order.                          *)
LEMMA OrderAppended ==
    ASSUME TypeOK, OrderDistinct, NEW p \in Pins, NEW s, s = Append(Without(p), p)
    PROVE  /\ s \in Seq(Pins) /\ Len(s) <= NPins
           /\ \A j, k \in 1 .. Len(s) : s[j] = s[k] => j = k
  <1>1. /\ Without(p) \in Seq(Pins) /\ Len(Without(p)) \in Nat
        /\ \A j, k \in 1 .. Len(Without(p)) : Without(p)[j] = Without(p)[k] => j = k
        /\ \A j \in 1 .. Len(Without(p)) : Without(p)[j] # p
    BY WithoutIs, LenProperties
  <1>2. /\ s \in Seq(Pins) /\ Len(s) = Len(Without(p)) + 1
        /\ \A i \in 1 .. Len(Without(p)) : s[i] = Without(p)[i]
        /\ s[Len(Without(p)) + 1] = p
    BY <1>1, AppendProperties
  <1>3. \A j, k \in 1 .. Len(s) : s[j] = s[k] => j = k
    BY <1>1, <1>2
  <1> QED  BY <1>2, <1>3, DistinctIsShort
-----------------------------------------------------------------------------
(***************************************************************************)
(* Who writes what: the request side and the scan share a slot, and each   *)
(* of its fields has one writer (UsbIo.h, EventWatch).                     *)
(***************************************************************************)

(* A scan never touches what requests own.                                 *)
LEMMA ScanOwns ==
    ASSUME TypeOK, Scan
    PROVE  /\ UNCHANGED <<isInput, nWatched, armSeq, order, mayFind>>
           /\ \A i \in Slots :
                /\ watch'[i].active = watch[i].active /\ watch'[i].pin = watch[i].pin
                /\ watch'[i].edge = watch[i].edge /\ watch'[i].arm = watch[i].arm
                /\ watch'[i].debounce = watch[i].debounce
  <1>1. watch \in [Slots -> Watches] /\ slot \in Slots
    BY DEF TypeOK
  <1>2. UNCHANGED <<isInput, nWatched, armSeq, order, mayFind>>
    BY DEF Scan, BeginScan, SkipInactive, LatchPin, TakeBaseline, NoEdge, SeeEdge, NotAnyEdge,
           AbsorbEdge, CountEdge, Publish, FindFull, LoadDropped, DroppedSaturated,
           StoreDropped, isrVars, history
  <1>3. \/ UNCHANGED watch
        \/ watch' = [watch EXCEPT ![slot] =
                       [@ EXCEPT !.seen = watch[slot].arm, !.count = 0,
                                 !.prev = dio[pin], !.window = FALSE]]
        \/ watch' = [watch EXCEPT ![slot].prev = dio[pin]]
        \/ watch' = [watch EXCEPT ![slot] =
                       [@ EXCEPT !.count = watch[slot].count + 1,
                                 !.window = watch[slot].debounce]]
    BY DEF Scan, BeginScan, SkipInactive, LatchPin, TakeBaseline, NoEdge, SeeEdge, NotAnyEdge,
           AbsorbEdge, CountEdge, Publish, FindFull, LoadDropped, DroppedSaturated,
           StoreDropped
  <1>4. \A i \in Slots :
                /\ watch'[i].active = watch[i].active /\ watch'[i].pin = watch[i].pin
                /\ watch'[i].edge = watch[i].edge /\ watch'[i].arm = watch[i].arm
                /\ watch'[i].debounce = watch[i].debounce
    <2> TAKE i \in Slots
    <2>1. CASE UNCHANGED watch
      BY <2>1
    <2>2. CASE watch' = [watch EXCEPT ![slot] =
                            [@ EXCEPT !.seen = watch[slot].arm, !.count = 0,
                                      !.prev = dio[pin], !.window = FALSE]]
      BY <1>1, <2>2 DEF Watches
    <2>3. CASE watch' = [watch EXCEPT ![slot].prev = dio[pin]]
      BY <1>1, <2>3 DEF Watches
    <2>4. CASE watch' = [watch EXCEPT ![slot] =
                            [@ EXCEPT !.count = watch[slot].count + 1,
                                      !.window = watch[slot].debounce]]
      BY <1>1, <2>4 DEF Watches
    <2> QED  BY <1>3, <2>1, <2>2, <2>3, <2>4
  <1> QED  BY <1>2, <1>4

(* Arming a slot keeps its type.                                           *)
LEMMA ArmedRecord ==
    ASSUME NEW w \in Watches, NEW p \in Pins, NEW e \in EdgeModes \cup {"NONE"},
           NEW d \in BOOLEAN, NEW q \in 0 .. SeqMod - 1
    PROVE  [w EXCEPT !.active = TRUE, !.pin = p, !.edge = e, !.debounce = d, !.arm = q]
             \in Watches
  BY DEF Watches

(* Disarming it keeps its type and every other field.                      *)
LEMMA DisarmedRecord ==
    ASSUME NEW w \in Watches
    PROVE  LET v == [w EXCEPT !.active = FALSE]
           IN  /\ v \in Watches /\ ~v.active
               /\ v.pin = w.pin /\ v.arm = w.arm /\ v.seen = w.seen
               /\ v.prev = w.prev /\ v.count = w.count /\ v.window = w.window
  BY DEF Watches

(* The slot that an arming takes.                                          *)
ArmedSlot(p) == IF IsWatched(p) THEN CHOOSE j \in SlotsOf(p) : TRUE ELSE FreeSlot

(* EVENT_CONFIG finds a slot: that of the pin, or one that is free.        *)
LEMMA ArmedSlotIs ==
    ASSUME TypeOK, WatchTable, NEW p \in Pins, IsWatched(p) \/ nWatched < MaxWatched
    PROVE  /\ ArmedSlot(p) \in Slots
           /\ IsWatched(p) => watch[ArmedSlot(p)].active /\ watch[ArmedSlot(p)].pin = p
           /\ ~IsWatched(p) => ~watch[ArmedSlot(p)].active
  <1>1. CASE IsWatched(p)
    <2>1. ArmedSlot(p) \in SlotsOf(p)
      BY <1>1 DEF ArmedSlot, IsWatched
    <2> QED  BY <1>1, <2>1 DEF SlotsOf
  <1>2. CASE ~IsWatched(p)
    BY <1>2, FreeSlotIs DEF ArmedSlot, WatchTable
  <1> QED  BY <1>1, <1>2

(* What one request does to a slot: nothing, disarm it, or arm it afresh;  *)
(* it gives a slot to another pin only when the slot was free, and never   *)
(* touches what the scan owns.                                             *)
SlotStep(i) ==
    /\ watch'[i].seen = watch[i].seen /\ watch'[i].prev = watch[i].prev
    /\ watch'[i].count = watch[i].count /\ watch'[i].window = watch[i].window
    /\ watch[i].active => watch'[i].pin = watch[i].pin
    /\ \/ Fresh(watch'[i]) /\ SeqIsNew(i) /\ watch'[i].arm = NextSeq
       \/ /\ watch'[i].pin = watch[i].pin /\ watch'[i].arm = watch[i].arm
          /\ watch'[i].active => watch[i].active

(* PIN_MODE.                                                               *)
LEMMA UnwatchStep ==
    ASSUME TypeOK, NEW p \in Pins, Unwatch(p)
    PROVE  /\ watch' \in [Slots -> Watches]
           /\ \A i \in Slots : SlotStep(i)
           /\ \A i \in Slots : watch'[i].active <=> watch[i].active /\ watch[i].pin # p
  <1>1. watch \in [Slots -> Watches]
    BY DEF TypeOK
  <1>2. /\ \A i \in SlotsOf(p) : watch'[i] = [watch[i] EXCEPT !.active = FALSE]
        /\ \A i \in Slots \ SlotsOf(p) : watch'[i] = watch[i]
        /\ watch' = [i \in Slots |-> watch'[i]]
    BY DEF Unwatch, SlotsOf
  <1>3. ASSUME NEW i \in SlotsOf(p)
        PROVE  watch'[i] \in Watches /\ SlotStep(i) /\ ~watch'[i].active /\ watch[i].pin = p
    <2>1. i \in Slots /\ watch[i].pin = p
      BY DEF SlotsOf
    <2>2. watch'[i] \in Watches /\ SlotStep(i) /\ ~watch'[i].active
      <3>1. watch[i] \in Watches /\ watch'[i] = [watch[i] EXCEPT !.active = FALSE]
        BY <1>1, <1>2, <2>1
      <3>2. /\ watch'[i] \in Watches /\ ~watch'[i].active
            /\ watch'[i].pin = watch[i].pin /\ watch'[i].arm = watch[i].arm
            /\ watch'[i].seen = watch[i].seen /\ watch'[i].prev = watch[i].prev
            /\ watch'[i].count = watch[i].count /\ watch'[i].window = watch[i].window
        BY <3>1, DisarmedRecord
      <3> QED  BY <3>2 DEF SlotStep
    <2> QED  BY <2>1, <2>2
  <1>4. ASSUME NEW i \in Slots \ SlotsOf(p)
        PROVE  /\ watch'[i] \in Watches /\ SlotStep(i)
               /\ watch'[i].active <=> watch[i].active /\ watch[i].pin # p
    <2>1. watch'[i] \in Watches /\ SlotStep(i)
      BY <1>1, <1>2 DEF SlotStep
    <2>2. watch'[i].active <=> watch[i].active /\ watch[i].pin # p
      BY <1>2 DEF SlotsOf
    <2> QED  BY <2>1, <2>2
  <1> QED  BY <1>2, <1>3, <1>4

(* EVENT_CONFIG.                                                           *)
LEMMA ArmStep ==
    ASSUME TypeOK, WatchTable, NEW p \in Pins, NEW e \in EdgeModes, NEW d \in Debounces,
           ConfigArm(p, e, d)
    PROVE  /\ watch' \in [Slots -> Watches] /\ NextSeq \in 0 .. SeqMod - 1
           /\ \A i \in Slots : SlotStep(i)
           /\ ArmedSlot(p) \in Slots
           /\ watch'[ArmedSlot(p)].active /\ watch'[ArmedSlot(p)].pin = p
           /\ \A i \in Slots \ {ArmedSlot(p)} : watch'[i] = watch[i]
  <1> DEFINE a == ArmedSlot(p)
  <1>1. /\ a \in Slots
        /\ IsWatched(p) => watch[a].active /\ watch[a].pin = p
        /\ ~IsWatched(p) => ~watch[a].active
    BY ArmedSlotIs DEF ConfigArm
  <1>2. SeqIsNew(a) /\ p \in isInput
        /\ watch' = [watch EXCEPT ![a] = [@ EXCEPT !.active = TRUE, !.pin = p,
                        !.edge = e, !.debounce = d, !.arm = NextSeq]]
    BY DEF ConfigArm, ArmedSlot
  <1>3. watch \in [Slots -> Watches] /\ NextSeq \in 0 .. SeqMod - 1
    BY DEF TypeOK, NextSeq
  <1> HIDE DEF a
  <1>4. watch' \in [Slots -> Watches]
    <2>1. [watch[a] EXCEPT !.active = TRUE, !.pin = p, !.edge = e, !.debounce = d,
                           !.arm = NextSeq] \in Watches
      <3>1. e \in EdgeModes \cup {"NONE"} /\ d \in BOOLEAN
        OBVIOUS
      <3>2. watch[a] \in Watches
        BY <1>1, <1>3
      <3> QED  BY <1>3, <3>1, <3>2, ArmedRecord
    <2> QED  BY <1>1, <1>2, <1>3, <2>1
  <1>5. SlotStep(a)
    <2>1. watch[a].seen # NextSeq
      BY <1>2 DEF SeqIsNew
    <2> QED  BY <1>1, <1>2, <1>3, <2>1 DEF SlotStep, Fresh, Watches
  <1>6. \A i \in Slots \ {a} : watch'[i] = watch[i]
    BY <1>1, <1>2, <1>3
  <1>7. \A i \in Slots : SlotStep(i)
    BY <1>5, <1>6 DEF SlotStep
  <1>8. watch'[a].active /\ watch'[a].pin = p
    BY <1>1, <1>2, <1>3 DEF Watches
  <1> QED  BY <1>1, <1>3, <1>4, <1>6, <1>7, <1>8 DEF a

(* RESET.                                                                  *)
LEMMA ResetStep ==
    ASSUME TypeOK, Reset
    PROVE  /\ watch' \in [Slots -> Watches]
           /\ \A i \in Slots : SlotStep(i) /\ ~watch'[i].active
  <1>1. watch \in [Slots -> Watches]
        /\ watch' = [i \in Slots |-> [watch[i] EXCEPT !.active = FALSE]]
    BY DEF TypeOK, Reset
  <1>2. ASSUME NEW i \in Slots
        PROVE  watch'[i] \in Watches /\ SlotStep(i) /\ ~watch'[i].active
    BY <1>1, ZenonT(40) DEF SlotStep, Watches
  <1> QED  BY <1>1, <1>2

(* Every request.                                                          *)
LEMMA HandlerOwns ==
    ASSUME TypeOK, WatchTable, Handler
    PROVE  /\ UNCHANGED <<dio, pc, slot, pin, held>>
           /\ ~interrupted /\ interrupted' = Holding
           /\ watch' \in [Slots -> Watches]
           /\ \A i \in Slots : SlotStep(i)
  <1>1. UNCHANGED <<dio, pc, slot, pin, held>> /\ ~interrupted /\ interrupted' = Holding
    BY DEF Handler, PinMode, ConfigOff, ConfigArm, Pop, Reset, scanVars, RequestArrives
  <1>2. watch' \in [Slots -> Watches] /\ \A i \in Slots : SlotStep(i)
    <2>1. ASSUME UNCHANGED watch
          PROVE  watch' \in [Slots -> Watches] /\ \A i \in Slots : SlotStep(i)
      BY <2>1 DEF TypeOK, SlotStep
    <2>2. CASE \E p \in Pins, input \in BOOLEAN : PinMode(p, input)
      BY <2>1, <2>2, UnwatchStep DEF PinMode
    <2>3. CASE \E p \in Pins : ConfigOff(p)
      BY <2>3, UnwatchStep DEF ConfigOff
    <2>4. CASE \E p \in Pins, e \in EdgeModes, d \in Debounces : ConfigArm(p, e, d)
      BY <2>4, ArmStep
    <2>5. CASE \E cap \in 1 .. MaxPerPop : Pop(cap)
      BY <2>1, <2>5 DEF Pop
    <2>6. CASE Reset
      BY <2>6, ResetStep
    <2> QED  BY <2>2, <2>3, <2>4, <2>5, <2>6 DEF Handler
  <1> QED  BY <1>1, <1>2
-----------------------------------------------------------------------------
(***************************************************************************)
(* What a request leaves in the queue.                                     *)
(***************************************************************************)

(* A request makes the queue no longer: it takes entries from the front,   *)
(* and buries others where they are.                                       *)
QueueStep(n) ==
    /\ n \in 0 .. Len(ring)
    /\ ring' \in Seq(Events) /\ Len(ring') = Len(ring) - n
    /\ \A k \in 1 .. Len(ring') : ring'[k] = ring[k + n] \/ ring'[k] = Tomb

(* EVENT_CONFIG OFF buries the events of the pin.                          *)
LEMMA DiscardIs ==
    ASSUME TypeOK, NEW p \in Pins, ring' = Discard(p)
    PROVE  /\ QueueStep(0)
           /\ \A k \in 1 .. Len(ring') : ring'[k].pin # p
  <1>1. ring \in Seq(Events) /\ Len(ring) \in Nat /\ \A k \in 1 .. Len(ring) : ring[k] \in Events
    BY LenProperties, ElementOfSeq DEF TypeOK
  <1>2. /\ DOMAIN ring' = 1 .. Len(ring)
        /\ \A k \in 1 .. Len(ring) : ring'[k] = IF ring[k].pin = p THEN Tomb ELSE ring[k]
    BY DEF Discard
  <1>3. \A k \in 1 .. Len(ring) : Tomb \in Events
    <2> TAKE k \in 1 .. Len(ring)
    <2>1. ring[k].seq \in 1 .. MaxCount
      BY <1>1 DEF Events
    <2>2. 1 \in 1 .. MaxCount /\ 0 \in Slots /\ 0 \in 0 .. SeqMod - 1
      BY <2>1 DEF Slots
    <2>3. <<0, 0>> \in Slots \X (0 .. SeqMod - 1)
      BY <2>2
    <2> QED  BY <2>2, <2>3 DEF Events, Tomb
  <1>4. ring' \in [1 .. Len(ring) -> Events]
    <2>1. \A k \in 1 .. Len(ring) : ring'[k] \in Events
      BY <1>1, <1>2, <1>3
    <2>2. ring' = [k \in 1 .. Len(ring) |-> ring'[k]]
      BY <1>2 DEF Discard
    <2> QED  BY <2>1, <2>2
  <1>5. ring' \in Seq(Events) /\ Len(ring') = Len(ring)
    BY <1>1, <1>4, SeqDef, LenProperties
  <1>6. Tomb.pin # p
    BY DEF Tomb, Tombstone, Pins
  <1>7. QueueStep(0)
    <2>1. 0 \in 0 .. Len(ring) /\ Len(ring') = Len(ring) - 0
      BY <1>1, <1>5
    <2>2. \A k \in 1 .. Len(ring') : ring'[k] = ring[k + 0] \/ ring'[k] = Tomb
      <3> TAKE k \in 1 .. Len(ring')
      <3>1. k \in 1 .. Len(ring) /\ k + 0 = k
        BY <1>1, <1>5
      <3> QED  BY <1>2, <3>1
    <2> QED  BY <1>5, <2>1, <2>2 DEF QueueStep
  <1> QED  BY <1>2, <1>5, <1>6, <1>7

(* EVENT_POP takes the front of the queue.                                 *)
LEMMA PopIs ==
    ASSUME TypeOK, NEW cap \in 1 .. MaxPerPop, Pop(cap)
    PROVE  QueueStep(PopLength(cap))
  <1>1. ring \in Seq(Events) /\ Len(ring) \in Nat /\ \A k \in 1 .. Len(ring) : ring[k] \in Events
    BY LenProperties, ElementOfSeq DEF TypeOK
  <1>2. PICK n \in 0 .. Len(ring) : n = PopLength(cap)
    BY PopLengthIs
  <1>3. ring' = SubSeq(ring, n + 1, Len(ring))
    BY <1>2 DEF Pop
  <1>4. n + 1 \in Int /\ Len(ring) \in Int /\ \A i \in n + 1 .. Len(ring) : ring[i] \in Events
    BY <1>1
  <1>5. /\ ring' \in Seq(Events)
        /\ Len(ring') = IF n + 1 <= Len(ring) THEN Len(ring) - (n + 1) + 1 ELSE 0
        /\ \A i \in 1 .. Len(ring) - (n + 1) + 1 : ring'[i] = ring[(n + 1) + i - 1]
    BY <1>3, <1>4, SubSeqProperties
  <1>6. Len(ring') = Len(ring) - n
    <2>1. Len(ring') = IF n + 1 <= Len(ring) THEN Len(ring) - (n + 1) + 1 ELSE 0
      BY <1>5
    <2> QED  BY <1>1, <2>1
  <1>7. \A k \in 1 .. Len(ring') : ring'[k] = ring[k + n]
    <2> TAKE k \in 1 .. Len(ring')
    <2>1. k \in 1 .. Len(ring) - (n + 1) + 1 /\ (n + 1) + k - 1 = k + n
      BY <1>1, <1>6
    <2> QED  BY <1>5, <2>1
  <1>8. QueueStep(n)
    BY <1>5, <1>6, <1>7 DEF QueueStep
  <1> QED  BY <1>2, <1>8

(* Every request.                                                          *)
LEMMA HandlerQueue ==
    ASSUME TypeOK, Handler
    PROVE  \E n \in 0 .. Len(ring) : QueueStep(n)
  <1>1. ring \in Seq(Events) /\ Len(ring) \in Nat
    BY LenProperties DEF TypeOK
  <1>2. ASSUME UNCHANGED ring
        PROVE  \E n \in 0 .. Len(ring) : QueueStep(n)
    <2>1. QueueStep(0)
      <3>1. \A k \in 1 .. Len(ring) : ring[k + 0] = ring[k]
        OBVIOUS
      <3> QED  BY <1>1, <1>2, <3>1 DEF QueueStep
    <2> QED  BY <1>1, <2>1
  <1>3. CASE \E p \in Pins, input \in BOOLEAN : PinMode(p, input)
    BY <1>2, <1>3 DEF PinMode
  <1>4. CASE \E p \in Pins : ConfigOff(p)
    BY <1>1, <1>4, DiscardIs DEF ConfigOff
  <1>5. CASE \E p \in Pins, e \in EdgeModes, d \in Debounces : ConfigArm(p, e, d)
    BY <1>2, <1>5 DEF ConfigArm
  <1>6. CASE \E cap \in 1 .. MaxPerPop : Pop(cap)
    BY <1>6, PopIs, PopLengthIs
  <1>7. CASE Reset
    <2>1. ring' = <<>> /\ ring' \in Seq(Events) /\ Len(ring') = 0
      BY <1>7, EmptySeq DEF Reset
    <2>2. QueueStep(Len(ring))
      BY <1>1, <2>1 DEF QueueStep
    <2> QED  BY <1>1, <2>2
  <1> QED  BY <1>3, <1>4, <1>5, <1>6, <1>7 DEF Handler

(* It adds no event of any pin.                                            *)
LEMMA QueueShrinks ==
    ASSUME TypeOK, NEW n, QueueStep(n), NEW p \in Pins
    PROVE  EventsOf(p)' \in Nat /\ EventsOf(p) \in Nat /\ EventsOf(p)' <= EventsOf(p)
  <1> DEFINE old == {k \in 1 .. Len(ring) : ring[k].pin = p}
             new == {k \in 1 .. Len(ring') : ring'[k].pin = p}
             f == [k \in new |-> k + n]
  <1>1. Len(ring) \in Nat /\ n \in 0 .. Len(ring) /\ Len(ring') = Len(ring) - n
    BY LenProperties DEF TypeOK, QueueStep
  <1>2. IsFiniteSet(old) /\ Cardinality(old) \in Nat
    BY <1>1, PartOfInterval
  <1>3. IsFiniteSet(new) /\ Cardinality(new) \in Nat
    <2>1. Len(ring') \in Nat
      BY <1>1
    <2> QED  BY <2>1, PartOfInterval
  <1>4. Tomb.pin # p
    BY DEF Tomb, Tombstone, Pins
  <1>5. \A k \in new : k + n \in old
    <2> TAKE k \in new
    <2>1. k \in 1 .. Len(ring') /\ ring'[k].pin = p
      OBVIOUS
    <2>2. ring'[k] = ring[k + n]
      BY <1>4, <2>1 DEF QueueStep
    <2> QED  BY <1>1, <2>1, <2>2
  <1>6. \A j, k \in new : j + n = k + n => j = k
    BY <1>1
  <1>7. f \in Injection(new, old)
    <2> HIDE DEF new, old
    <2> QED  BY <1>5, <1>6 DEF Injection, IsInjective
  <1>8. Cardinality(new) <= Cardinality(old)
    <2> HIDE DEF new, old, f
    <2> QED  BY <1>2, <1>7, FS_Injection
  <1> QED  BY <1>2, <1>3, <1>8 DEF EventsOf
-----------------------------------------------------------------------------
(***************************************************************************)
(* Types.                                                                  *)
(***************************************************************************)

(* Leaving a slot leads to the next one or to the end of the scan.         *)
LEMMA LeaveSlotIs ==
    ASSUME TypeOK, LeaveSlot
    PROVE  /\ pc' \in {"idle", "slot"} /\ slot' \in Slots
           /\ pin' \in Pins /\ held' = 0
           /\ interrupted' = FALSE /\ interrupted' \in BOOLEAN
           /\ pc' = "idle" => slot = MaxWatched - 1
           /\ pc' = "slot" => slot' = slot + 1
  <1>1. interrupted' = FALSE /\ interrupted' \in BOOLEAN
    BY DEF LeaveSlot
  <1>2. /\ pc' \in {"idle", "slot"} /\ slot' \in Slots
        /\ pc' = "idle" => slot = MaxWatched - 1
        /\ pc' = "slot" => slot' = slot + 1
    BY DEF TypeOK, LeaveSlot, Slots
  <1>3. pin' \in Pins /\ held' = 0
    BY DEF LeaveSlot, Pins
  <1> QED  BY <1>1, <1>2, <1>3

(* The steps of a scan that write neither a slot nor the queue.            *)
LEMMA QuietTypes ==
    ASSUME TypeOK,
           \/ BeginScan \/ SkipInactive \/ LatchPin \/ NoEdge \/ NotAnyEdge \/ AbsorbEdge
           \/ FindFull \/ LoadDropped \/ DroppedSaturated \/ StoreDropped
    PROVE  TypeOK'
  <1>1. CASE BeginScan
    <2>1. 0 \in Slots
      BY DEF Slots
    <2> QED  BY <1>1, <2>1 DEF TypeOK, BeginScan, isrVars, history
  <1>2. CASE SkipInactive
    <2>1. /\ pc' \in {"idle", "slot"} /\ slot' \in Slots /\ pin' \in Pins
          /\ held' = 0 /\ interrupted' \in BOOLEAN
      BY <1>2, LeaveSlotIs DEF SkipInactive
    <2> QED  BY <1>2, <2>1 DEF TypeOK, SkipInactive, isrVars, history
  <1>3. CASE LatchPin
    <2>1. watch[slot].pin \in Pins
      BY DEF TypeOK, Watches
    <2> QED  BY <1>3, <2>1 DEF TypeOK, LatchPin, isrVars, history
  <1>4. CASE NoEdge
    <2>1. /\ pc' \in {"idle", "slot"} /\ slot' \in Slots /\ pin' \in Pins
          /\ held' = 0 /\ interrupted' \in BOOLEAN
      BY <1>4, LeaveSlotIs DEF NoEdge
    <2> QED  BY <1>4, <2>1 DEF TypeOK, NoEdge, isrVars, history
  <1>5. CASE NotAnyEdge
    BY <1>5 DEF TypeOK, NotAnyEdge, isrVars, history
  <1>6. CASE AbsorbEdge
    <2>1. /\ pc' \in {"idle", "slot"} /\ slot' \in Slots /\ pin' \in Pins
          /\ held' = 0 /\ interrupted' \in BOOLEAN
      BY <1>6, LeaveSlotIs DEF AbsorbEdge
    <2> QED  BY <1>6, <2>1 DEF TypeOK, AbsorbEdge, isrVars, history
  <1>7. CASE FindFull
    BY <1>7 DEF TypeOK, FindFull, isrVars, history
  <1>8. CASE LoadDropped
    BY <1>8 DEF TypeOK, LoadDropped, isrVars, history
  <1>9. CASE DroppedSaturated
    <2>1. /\ pc' \in {"idle", "slot"} /\ slot' \in Slots /\ pin' \in Pins
          /\ held' = 0 /\ interrupted' \in BOOLEAN
      BY <1>9, LeaveSlotIs DEF DroppedSaturated
    <2> QED  BY <1>9, <2>1 DEF TypeOK, DroppedSaturated, AddLost, isrVars
  <1>10. CASE StoreDropped
    <2>1. /\ pc' \in {"idle", "slot"} /\ slot' \in Slots /\ pin' \in Pins
          /\ held' = 0 /\ interrupted' \in BOOLEAN
      BY <1>10, LeaveSlotIs DEF StoreDropped
    <2> QED  BY <1>10, <2>1 DEF TypeOK, StoreDropped, AddLost, isrVars
  <1> QED
    BY <1>1, <1>2, <1>3, <1>4, <1>5, <1>6, <1>7, <1>8, <1>9, <1>10

(* A baseline is of the slot in hand alone, and resets its counter.        *)
LEMMA BaselineIs ==
    ASSUME TypeOK, TakeBaseline
    PROVE  /\ watch' \in [Slots -> Watches]
           /\ \A i \in Slots \ {slot} : watch'[i] = watch[i]
           /\ watch'[slot].seen = watch[slot].arm /\ watch'[slot].count = 0
           /\ watch'[slot].prev = dio[pin]
  <1> DEFINE w == watch[slot]
             v == [w EXCEPT !.seen = w.arm, !.count = 0, !.prev = dio[pin], !.window = FALSE]
  <1>1. watch \in [Slots -> Watches] /\ slot \in Slots /\ dio[pin] \in {0, 1} /\ w \in Watches
    BY DEF TypeOK
  <1>2. w.arm \in 0 .. SeqMod - 1 /\ 0 \in 0 .. MaxCount
    BY <1>1 DEF Watches
  <1>3. v \in Watches /\ v.seen = w.arm /\ v.count = 0 /\ v.prev = dio[pin]
    <2>1. v = [w EXCEPT !.seen = w.arm, !.count = 0, !.prev = dio[pin], !.window = FALSE]
      OBVIOUS
    <2> HIDE DEF v, w
    <2>2. /\ w \in Watches /\ dio[pin] \in {0, 1}
          /\ w.arm \in 0 .. SeqMod - 1 /\ 0 \in 0 .. MaxCount
      BY <1>1, <1>2 DEF w
    <2>3. PICK a \in 0 .. SeqMod - 1 : a = w.arm
      BY <2>2
    <2>4. PICK level \in {0, 1} : level = dio[pin]
      BY <2>2
    <2>5. PICK c \in 0 .. MaxCount : c = 0
      BY <2>2
    <2>6. v = [w EXCEPT !.seen = a, !.count = c, !.prev = level, !.window = FALSE]
      BY <2>1, <2>3, <2>4, <2>5
    <2>7. v \in Watches /\ v.seen = a /\ v.count = c /\ v.prev = level
      BY <2>2, <2>6 DEF Watches
    <2> QED  BY <2>3, <2>4, <2>5, <2>7
  <1>4. watch' = [watch EXCEPT ![slot] = v]
    BY DEF TakeBaseline
  <1> HIDE DEF v
  <1>5. watch'[slot] = v
    BY <1>1, <1>4
  <1>6. watch' \in [Slots -> Watches] /\ \A i \in Slots \ {slot} : watch'[i] = watch[i]
    BY <1>1, <1>3, <1>4
  <1> QED  BY <1>3, <1>5, <1>6

(* An edge is of the slot in hand alone.                                   *)
LEMMA SeeEdgeIs ==
    ASSUME TypeOK, SeeEdge
    PROVE  /\ watch' \in [Slots -> Watches]
           /\ \A i \in Slots \ {slot} : watch'[i] = watch[i]
           /\ watch'[slot].seen = watch[slot].seen /\ watch'[slot].count = watch[slot].count
           /\ watch'[slot].prev = dio[pin]
  <1> DEFINE w == watch[slot]
             v == [w EXCEPT !.prev = dio[pin]]
  <1>1. watch \in [Slots -> Watches] /\ slot \in Slots /\ dio[pin] \in {0, 1} /\ w \in Watches
    BY DEF TypeOK
  <1>2. v \in Watches /\ v.seen = w.seen /\ v.count = w.count /\ v.prev = dio[pin]
    BY <1>1 DEF Watches
  <1>3. watch' = [watch EXCEPT ![slot] = v]
    BY DEF SeeEdge
  <1> HIDE DEF v
  <1>4. watch'[slot] = v
    BY <1>1, <1>3
  <1>5. watch' \in [Slots -> Watches] /\ \A i \in Slots \ {slot} : watch'[i] = watch[i]
    BY <1>1, <1>2, <1>3
  <1> QED  BY <1>2, <1>4, <1>5

(* So is its count, which stays within the bound.                          *)
LEMMA CountEdgeIs ==
    ASSUME TypeOK, EdgeInHand, CountEdge
    PROVE  /\ watch' \in [Slots -> Watches]
           /\ \A i \in Slots \ {slot} : watch'[i] = watch[i]
           /\ watch'[slot].seen = watch[slot].seen
           /\ watch'[slot].count = watch[slot].count + 1
           /\ watch'[slot].prev = watch[slot].prev
  <1> DEFINE w == watch[slot]
             v == [w EXCEPT !.count = w.count + 1, !.window = w.debounce]
  <1>1. watch \in [Slots -> Watches] /\ slot \in Slots /\ w \in Watches
    BY DEF TypeOK
  <1>2. w.count + 1 \in 0 .. MaxCount
    BY <1>1 DEF EdgeInHand, CountEdge, Matches, Watches
  <1>3. v \in Watches /\ v.seen = w.seen /\ v.count = w.count + 1 /\ v.prev = w.prev
    BY <1>1, <1>2 DEF Watches
  <1>4. watch' = [watch EXCEPT ![slot] = v]
    BY DEF CountEdge
  <1> HIDE DEF v
  <1>5. watch'[slot] = v
    BY <1>1, <1>4
  <1>6. watch' \in [Slots -> Watches] /\ \A i \in Slots \ {slot} : watch'[i] = watch[i]
    BY <1>1, <1>3, <1>4
  <1> QED  BY <1>3, <1>5, <1>6

(* The types after a step that writes the slot in hand.                    *)
LEMMA SlotTypes ==
    ASSUME TypeOK, EdgeInHand, TakeBaseline \/ SeeEdge \/ CountEdge
    PROVE  TypeOK'
  <1>1. CASE TakeBaseline
    <2>1. watch' \in [Slots -> Watches]
      BY <1>1, BaselineIs
    <2>2. /\ pc' \in {"idle", "slot"} /\ slot' \in Slots /\ pin' \in Pins
          /\ held' = 0 /\ interrupted' \in BOOLEAN
      BY <1>1, LeaveSlotIs DEF TakeBaseline
    <2> QED  BY <1>1, <2>1, <2>2, SMTT(30) DEF TypeOK, TakeBaseline, isrVars, history
  <1>2. CASE SeeEdge
    <2>1. watch' \in [Slots -> Watches]
      BY <1>2, SeeEdgeIs
    <2> QED  BY <1>2, <2>1 DEF TypeOK, SeeEdge, isrVars, history
  <1>3. CASE CountEdge
    <2>1. watch' \in [Slots -> Watches]
      BY <1>3, CountEdgeIs
    <2> QED  BY <1>3, <2>1 DEF TypeOK, CountEdge, isrVars, history
  <1> QED  BY <1>1, <1>2, <1>3

(* push_event() with room: the queue is one longer.                        *)
LEMMA PublishIs ==
    ASSUME TypeOK, EdgeInHand, Publish
    PROVE  LET e == [pin |-> pin, seq |-> watch[slot].count,
                     arming |-> <<slot, watch[slot].seen>>]
           IN  /\ ring' \in Seq(Events) /\ Len(ring') = Len(ring) + 1
               /\ Len(ring) \in Nat /\ Len(ring) < EventDepth
               /\ ring'[Len(ring) + 1] = e
               /\ \A k \in 1 .. Len(ring) : ring'[k] = ring[k]
  <1> DEFINE e == [pin |-> pin, seq |-> watch[slot].count,
                   arming |-> <<slot, watch[slot].seen>>]
  <1>1. /\ ring \in Seq(Events) /\ Len(ring) \in Nat /\ Len(ring) < EventDepth
        /\ ring' = Append(ring, e)
    BY LenProperties DEF TypeOK, Publish, RingIsFull
  <1>2. e \in Events
    <2>1. watch[slot] \in Watches /\ slot \in Slots /\ pin \in Pins
      BY DEF TypeOK
    <2>2. /\ watch[slot].count \in 1 .. MaxCount
          /\ watch[slot].seen \in 0 .. SeqMod - 1
      BY <2>1 DEF Watches, EdgeInHand, Publish
    <2> QED  BY <2>1, <2>2 DEF Events
  <1> HIDE DEF e
  <1>3. /\ ring' \in Seq(Events) /\ Len(ring') = Len(ring) + 1
        /\ ring'[Len(ring) + 1] = e
        /\ \A k \in 1 .. Len(ring) : ring'[k] = ring[k]
    BY <1>1, <1>2, AppendProperties
  <1> QED  BY <1>1, <1>3 DEF e

(* The types after a publication.                                          *)
LEMMA PublishTypes ==
    ASSUME TypeOK, EdgeInHand, Publish
    PROVE  TypeOK'
  <1>1. ring' \in Seq(Events) /\ Len(ring') <= EventDepth
    <2>1. /\ ring' \in Seq(Events) /\ Len(ring') = Len(ring) + 1
          /\ Len(ring) \in Nat /\ Len(ring) < EventDepth
      BY PublishIs
    <2> QED  BY <2>1
  <1>2. /\ pc' \in {"idle", "slot"} /\ slot' \in Slots /\ pin' \in Pins
        /\ held' = 0 /\ interrupted' \in BOOLEAN
    BY LeaveSlotIs DEF Publish
  <1> QED  BY <1>1, <1>2 DEF TypeOK, Publish, isrVars, history

(* The types after a request.                                              *)
LEMMA RequestTypes ==
    ASSUME TypeOK, WatchTable, OrderDistinct, WatchTable', Handler
    PROVE  TypeOK'
  <1>1. /\ UNCHANGED <<dio, pc, slot, pin, held>>
        /\ interrupted' \in BOOLEAN
        /\ watch' \in [Slots -> Watches]
    <2>1. /\ UNCHANGED <<dio, pc, slot, pin, held>> /\ interrupted' = Holding
          /\ watch' \in [Slots -> Watches]
      BY HandlerOwns
    <2>2. Holding \in BOOLEAN
      BY DEF Holding
    <2> QED  BY <2>1, <2>2
  <1>2. nWatched' \in 0 .. MaxWatched
    <2> DEFINE S == {i \in Slots : watch[i].active}'
    <2>1. S \in SUBSET Slots /\ nWatched' = Cardinality(S)
      BY DEF WatchTable, Slots
    <2> HIDE DEF S
    <2> QED  BY <2>1, PartOfSlots
  <1>3. ring' \in Seq(Events) /\ Len(ring') <= EventDepth
    <2>1. PICK n \in 0 .. Len(ring) : QueueStep(n)
      BY HandlerQueue
    <2>2. Len(ring) \in Nat /\ Len(ring) <= EventDepth
      BY LenProperties DEF TypeOK
    <2>3. ring' \in Seq(Events) /\ Len(ring') = Len(ring) - n
      BY <2>1 DEF QueueStep
    <2> QED  BY <2>1, <2>2, <2>3
  <1>4. \A p \in Pins : Without(p) \in Seq(Pins) /\ Len(Without(p)) <= NPins
    BY WithoutIs, DistinctIsShort
  <1>5. order' \in Seq(Pins) /\ Len(order') <= NPins
    <2>1. CASE order' = order
      BY <2>1 DEF TypeOK
    <2>2. CASE \E p \in Pins : order' = Without(p)
      BY <1>4, <2>2
    <2>3. CASE \E p \in Pins : order' = Append(Without(p), p)
      BY <2>3, OrderAppended
    <2>4. CASE order' = <<>>
      BY <2>4, EmptySeq
    <2> QED
      BY <2>1, <2>2, <2>3, <2>4 DEF Handler, PinMode, ConfigOff, ConfigArm, Pop, Reset, Unwatch
  <1>6. isInput' \subseteq Pins /\ armSeq' \in 0 .. SeqMod - 1
    <2>1. \/ isInput' = isInput
          \/ \E p \in Pins : isInput' = isInput \cup {p} \/ isInput' = isInput \ {p}
          \/ isInput' = Pins
      BY DEF Handler, PinMode, ConfigOff, ConfigArm, Pop, Reset, isrVars
    <2>2. isInput' \subseteq Pins
      BY <2>1 DEF TypeOK
    <2>3. armSeq' = armSeq \/ armSeq' = NextSeq
      BY DEF Handler, PinMode, ConfigOff, ConfigArm, Pop, Reset, isrVars
    <2>4. NextSeq \in 0 .. SeqMod - 1
      BY DEF TypeOK, NextSeq
    <2> QED  BY <2>2, <2>3, <2>4 DEF TypeOK
  <1>7. dropped' \in 0 .. MaxDropped /\ lost' \in 0 .. MaxDropped
    <2>1. (dropped' = dropped /\ lost' = lost) \/ (dropped' = 0 /\ lost' = 0)
      BY DEF Handler, PinMode, ConfigOff, ConfigArm, Pop, Reset
    <2> QED  BY <2>1 DEF TypeOK
  <1>8. mayFind' \in [Pins -> 0 .. EventDepth]
    <2>1. 0 \in 0 .. EventDepth /\ 1 \in 0 .. EventDepth /\ EventDepth \in 0 .. EventDepth
      OBVIOUS
    <2> QED
      BY <2>1, ZenonT(40) DEF TypeOK, Handler, PinMode, ConfigOff, ConfigArm, Pop, Reset
  <1> QED
    BY <1>1, <1>2, <1>3, <1>5, <1>6, <1>7, <1>8 DEF TypeOK
-----------------------------------------------------------------------------
(***************************************************************************)
(* The watch table.                                                        *)
(***************************************************************************)

(* A scan leaves it alone.                                                 *)
LEMMA ScanTable ==
    ASSUME TypeOK, WatchTable, Scan
    PROVE  WatchTable'
  <1>1. /\ UNCHANGED <<isInput, nWatched>>
        /\ \A i \in Slots : watch'[i].active = watch[i].active /\ watch'[i].pin = watch[i].pin
    BY ScanOwns
  <1>2. {i \in Slots : watch'[i].active} = {i \in Slots : watch[i].active}
    BY <1>1
  <1>3. nWatched' = Cardinality({i \in Slots : watch'[i].active})
    BY <1>1, <1>2 DEF WatchTable
  <1>4. /\ \A i, j \in Slots :
            watch'[i].active /\ watch'[j].active /\ watch'[i].pin = watch'[j].pin => i = j
        /\ \A i \in Slots : watch'[i].active => watch'[i].pin \in isInput'
    BY <1>1 DEF WatchTable
  <1> QED  BY <1>3, <1>4 DEF WatchTable, Slots

(* A pin that is unwatched gives its slot back.                            *)
LEMMA UnwatchTable ==
    ASSUME TypeOK, WatchTable, NEW p \in Pins, Unwatch(p)
    PROVE  /\ nWatched' = Cardinality({i \in Slots : watch'[i].active})
           /\ \A i, j \in Slots :
                watch'[i].active /\ watch'[j].active /\ watch'[i].pin = watch'[j].pin => i = j
           /\ \A i \in Slots : watch'[i].active =>
                watch'[i].pin \in isInput /\ watch'[i].pin # p
  <1> DEFINE old == {i \in Slots : watch[i].active}
             new == {i \in Slots : watch'[i].active}
  <1>1. \A i \in Slots :
          /\ watch'[i].active <=> watch[i].active /\ watch[i].pin # p
          /\ SlotStep(i)
    BY UnwatchStep
  <1>2. new = old \ SlotsOf(p)
    BY <1>1 DEF SlotsOf
  <1>3. SlotsOf(p) \subseteq old /\ IsFiniteSet(old) /\ Cardinality(old) \in Nat
    BY PartOfSlots DEF SlotsOf
  <1>4. nWatched = Cardinality(old) /\ nWatched' = nWatched - Cardinality(SlotsOf(p))
    BY DEF WatchTable, Unwatch
  <1>5. Cardinality(new) = Cardinality(old) - Cardinality(SlotsOf(p))
    <2>1. CASE SlotsOf(p) = {}
      <3>1. Cardinality(SlotsOf(p)) = 0
        BY <2>1, FS_EmptySet
      <3>2. new = old
        BY <1>2, <2>1
      <3> HIDE DEF new, old
      <3> QED  BY <1>3, <3>1, <3>2
    <2>2. CASE SlotsOf(p) # {}
      <3>1. PICK j \in SlotsOf(p) : TRUE
        BY <2>2
      <3>2. SlotsOf(p) = {j}
        BY <3>1 DEF SlotsOf, WatchTable
      <3>3. Cardinality(SlotsOf(p)) = 1
        BY <3>2, FS_Singleton
      <3>4. new = old \ {j} /\ j \in old
        BY <1>2, <1>3, <3>2
      <3> HIDE DEF new, old
      <3> QED  BY <1>3, <3>3, <3>4, FS_RemoveElement
    <2> QED  BY <2>1, <2>2
  <1>6. nWatched' = Cardinality(new)
    <2> HIDE DEF new, old
    <2> QED  BY <1>4, <1>5
  <1>7. \A i \in Slots : watch'[i].active => watch[i].active /\ watch'[i].pin = watch[i].pin
                                            /\ watch[i].pin # p
    BY <1>1 DEF SlotStep
  <1> QED  BY <1>6, <1>7 DEF WatchTable

(* A pin that is armed has one slot.                                       *)
LEMMA ArmTable ==
    ASSUME TypeOK, WatchTable, NEW p \in Pins, NEW e \in EdgeModes, NEW d \in Debounces,
           ConfigArm(p, e, d)
    PROVE  WatchTable'
  <1> DEFINE old == {i \in Slots : watch[i].active}
             new == {i \in Slots : watch'[i].active}
             a == ArmedSlot(p)
  <1>1. /\ a \in Slots /\ watch'[a].active /\ watch'[a].pin = p
        /\ \A i \in Slots \ {a} : watch'[i] = watch[i]
    BY ArmStep
  <1>2. /\ IsWatched(p) => watch[a].active /\ watch[a].pin = p
        /\ ~IsWatched(p) => ~watch[a].active
    BY ArmedSlotIs DEF ConfigArm
  <1>3. /\ p \in isInput /\ isInput' = isInput
        /\ nWatched' = IF IsWatched(p) THEN nWatched ELSE nWatched + 1
    BY DEF ConfigArm
  <1>4. \A i \in Slots \ {a} : ~(watch[i].active /\ watch[i].pin = p)
    <2>1. CASE IsWatched(p)
      BY <1>1, <1>2, <2>1 DEF WatchTable
    <2>2. CASE ~IsWatched(p)
      BY <2>2 DEF IsWatched, SlotsOf
    <2> QED  BY <2>1, <2>2
  <1> HIDE DEF a
  <1>5. nWatched' = Cardinality(new)
    <2>1. nWatched = Cardinality(old) /\ IsFiniteSet(old) /\ Cardinality(old) \in Nat
      BY PartOfSlots DEF WatchTable
    <2>2. new = old \cup {a}
      BY <1>1
    <2>3. a \in old <=> IsWatched(p)
      BY <1>1, <1>2
    <2> HIDE DEF new, old
    <2>4. Cardinality(new) = IF a \in old THEN Cardinality(old) ELSE Cardinality(old) + 1
      BY <2>1, <2>2, FS_AddElement
    <2> QED  BY <1>3, <2>1, <2>3, <2>4
  <1>6. \A i, j \in Slots :
          watch'[i].active /\ watch'[j].active /\ watch'[i].pin = watch'[j].pin => i = j
    BY <1>1, <1>4 DEF WatchTable
  <1>7. \A i \in Slots : watch'[i].active => watch'[i].pin \in isInput'
    BY <1>1, <1>3 DEF WatchTable
  <1> QED  BY <1>5, <1>6, <1>7 DEF WatchTable, Slots

(* Every request.                                                          *)
LEMMA RequestTable ==
    ASSUME TypeOK, WatchTable, Handler
    PROVE  WatchTable'
  <1>1. ASSUME UNCHANGED <<watch, nWatched>>, isInput \subseteq isInput'
        PROVE  WatchTable'
    BY <1>1 DEF WatchTable, Slots
  <1>2. ASSUME NEW p \in Pins, NEW input \in BOOLEAN, PinMode(p, input)
        PROVE  WatchTable'
    <2>1. CASE input
      BY <1>1, <1>2, <2>1 DEF PinMode
    <2>2. CASE ~input
      <3>1. Unwatch(p) /\ isInput' = isInput \ {p}
        BY <1>2, <2>2 DEF PinMode
      <3>2. /\ nWatched' = Cardinality({i \in Slots : watch'[i].active})
            /\ \A i, j \in Slots :
                 watch'[i].active /\ watch'[j].active /\ watch'[i].pin = watch'[j].pin => i = j
            /\ \A i \in Slots : watch'[i].active =>
                 watch'[i].pin \in isInput /\ watch'[i].pin # p
        BY <3>1, UnwatchTable
      <3> QED  BY <3>1, <3>2 DEF WatchTable, Slots
    <2> QED  BY <2>1, <2>2
  <1>3. ASSUME NEW p \in Pins, ConfigOff(p)
        PROVE  WatchTable'
    <2>1. Unwatch(p) /\ isInput' = isInput
      BY <1>3 DEF ConfigOff
    <2>2. /\ nWatched' = Cardinality({i \in Slots : watch'[i].active})
          /\ \A i, j \in Slots :
               watch'[i].active /\ watch'[j].active /\ watch'[i].pin = watch'[j].pin => i = j
          /\ \A i \in Slots : watch'[i].active => watch'[i].pin \in isInput
      BY <2>1, UnwatchTable
    <2> QED  BY <2>1, <2>2 DEF WatchTable, Slots
  <1>4. ASSUME NEW cap, Pop(cap)
        PROVE  WatchTable'
    BY <1>1, <1>4 DEF Pop, isrVars
  <1>5. CASE Reset
    <2>1. \A i \in Slots : ~watch'[i].active
      BY <1>5, ResetStep
    <2>2. {i \in Slots : watch'[i].active} = {}
      BY <2>1
    <2>3. nWatched' = Cardinality({i \in Slots : watch'[i].active})
      BY <1>5, <2>2, FS_EmptySet DEF Reset
    <2> QED  BY <2>1, <2>3 DEF WatchTable, Slots
  <1> QED  BY <1>2, <1>3, <1>4, <1>5, ArmTable DEF Handler
-----------------------------------------------------------------------------
(***************************************************************************)
(* Where the scan is, and what it has compared.                            *)
(***************************************************************************)

ScanInv == HoldsSlot /\ EdgeInHand /\ CountCapped /\ Baselines

(* A request may disarm the slot in hand, or arm it afresh: either way the *)
(* scan finds what it left there.                                          *)
LEMMA RequestKeepsScan ==
    ASSUME TypeOK, WatchTable, ScanInv, Handler
    PROVE  ScanInv'
  <1>1. /\ UNCHANGED <<dio, pc, slot, pin, held>> /\ ~interrupted
        /\ interrupted' = Holding /\ \A i \in Slots : SlotStep(i)
    BY HandlerOwns
  <1>2. slot \in Slots
    BY DEF TypeOK
  <1>3. HoldsSlot'
    <2>1. Holding => watch'[slot].pin = pin
      BY <1>1, <1>2 DEF ScanInv, HoldsSlot, SlotStep
    <2>2. Holding' <=> Holding
      BY <1>1 DEF Holding
    <2> QED  BY <1>1, <2>1, <2>2 DEF HoldsSlot
  <1>4. EdgeInHand'
    <2>1. watch'[slot].prev = watch[slot].prev /\ watch'[slot].count = watch[slot].count
      BY <1>1, <1>2 DEF SlotStep
    <2> QED  BY <1>1, <2>1 DEF ScanInv, EdgeInHand
  <1>5. \A i \in Slots : ~Fresh(watch'[i]) =>
          /\ ~Fresh(watch[i]) /\ watch'[i].pin = watch[i].pin
          /\ watch'[i].prev = watch[i].prev /\ watch'[i].count = watch[i].count
          /\ watch'[i].active => watch[i].active
    BY <1>1 DEF SlotStep, Fresh
  <1>6. CountCapped'
    BY <1>1, <1>5 DEF ScanInv, CountCapped, Slots
  <1>7. Baselines'
    BY <1>1, <1>5 DEF ScanInv, Baselines, Scanned, Slots
  <1> QED  BY <1>3, <1>4, <1>6, <1>7 DEF ScanInv

(* Leaving a slot is right when it is idle or its level was taken.         *)
LEMMA LeaveKeepsScan ==
    ASSUME TypeOK, ScanInv, LeaveSlot, pc # "idle", UNCHANGED dio,
           \A i \in Slots \ {slot} : watch'[i] = watch[i],
           ~watch'[slot].active \/ watch'[slot].prev = dio[watch'[slot].pin],
           UNCHANGED watch \/ watch'[slot].prev = dio[watch'[slot].pin]
    PROVE  ScanInv'
  <1>1. /\ pc' \in {"idle", "slot"} /\ slot' \in Slots /\ interrupted' = FALSE
        /\ pc' = "idle" => slot = MaxWatched - 1
        /\ pc' = "slot" => slot' = slot + 1
        /\ slot \in Slots
    BY LeaveSlotIs DEF TypeOK
  <1>2. HoldsSlot' /\ EdgeInHand'
    BY <1>1 DEF HoldsSlot, EdgeInHand, Holding
  <1>3. CountCapped'
    <2> SUFFICES ASSUME NEW i \in Slots, ~Fresh(watch'[i]), watch'[i].count = MaxCount
                 PROVE  dio'[watch'[i].pin] = watch'[i].prev
      BY DEF CountCapped, Slots
    <2>1. CASE i = slot /\ watch'[slot].prev = dio[watch'[slot].pin]
      BY <2>1
    <2>2. CASE watch'[i] = watch[i]
      BY <2>2 DEF ScanInv, CountCapped
    <2> QED  BY <2>1, <2>2
  <1>4. Baselines'
    <2> SUFFICES ASSUME NEW i \in Slots, Scanned(i)', watch'[i].active, ~Fresh(watch'[i])
                 PROVE  watch'[i].prev = dio'[watch'[i].pin]
      BY DEF Baselines, Slots
    <2>1. i = slot \/ i < slot
      BY <1>1 DEF Scanned, Slots
    <2>2. CASE i = slot
      BY <2>2
    <2>3. CASE i < slot
      <3>1. watch'[i] = watch[i]
        BY <1>1, <2>3 DEF Slots
      <3> QED  BY <2>3, <3>1 DEF ScanInv, Baselines, Scanned
    <2> QED  BY <2>1, <2>2, <2>3
  <1> QED  BY <1>2, <1>3, <1>4 DEF ScanInv

(* The steps that leave the slot in hand.                                  *)
LEMMA LeavingScan ==
    ASSUME TypeOK, ScanInv,
           \/ SkipInactive \/ TakeBaseline \/ NoEdge \/ AbsorbEdge \/ Publish
           \/ DroppedSaturated \/ StoreDropped
    PROVE  ScanInv'
  <1>1. slot \in Slots
    BY DEF TypeOK
  <1>2. CASE SkipInactive
    BY <1>2, LeaveKeepsScan DEF SkipInactive
  <1>3. CASE TakeBaseline
    <2>1. LeaveSlot /\ pc = "compare" /\ UNCHANGED dio /\ watch[slot].pin = pin
      BY <1>3 DEF TakeBaseline, ScanInv, HoldsSlot, Holding
    <2>2. /\ \A i \in Slots \ {slot} : watch'[i] = watch[i]
          /\ watch'[slot].prev = dio[pin]
      BY <1>3, BaselineIs
    <2>3. watch'[slot].pin = pin
      BY <1>1, <1>3, <2>1, ScanOwns DEF Scan
    <2> QED  BY <2>1, <2>2, <2>3, LeaveKeepsScan
  <1>4. ASSUME LeaveSlot, UNCHANGED <<watch, dio>>, Holding, watch[slot].prev = dio[pin]
        PROVE  ScanInv'
    <2>1. watch'[slot].prev = dio[watch'[slot].pin] /\ pc # "idle"
      BY <1>4 DEF ScanInv, HoldsSlot, Holding
    <2> QED  BY <1>4, <2>1, LeaveKeepsScan
  <1>5. CASE NoEdge
    BY <1>4, <1>5 DEF NoEdge, Holding
  <1>6. CASE AbsorbEdge
    <2>1. LeaveSlot /\ UNCHANGED <<watch, dio>> /\ pc \in {"any", "direction"}
      BY <1>6 DEF AbsorbEdge, Matches
    <2> QED  BY <1>4, <2>1 DEF Holding, ScanInv, EdgeInHand
  <1>7. CASE Publish \/ DroppedSaturated \/ StoreDropped
    <2>1. LeaveSlot /\ UNCHANGED <<watch, dio>> /\ pc \in {"push", "drop", "store"}
      BY <1>7 DEF Publish, DroppedSaturated, StoreDropped
    <2> QED  BY <1>4, <2>1 DEF Holding, ScanInv, EdgeInHand
  <1> QED  BY <1>2, <1>3, <1>5, <1>6, <1>7

(* The steps that stay in it, and the first of a scan.                     *)
LEMMA StayingScan ==
    ASSUME TypeOK, ScanInv,
           \/ BeginScan \/ LatchPin \/ SeeEdge \/ NotAnyEdge \/ CountEdge
           \/ FindFull \/ LoadDropped
    PROVE  ScanInv'
  <1>1. slot \in Slots /\ watch[slot] \in Watches
    BY DEF TypeOK
  <1>2. CASE BeginScan
    <2>1. pc' = "slot" /\ slot' = 0 /\ UNCHANGED <<watch, interrupted>> /\ pc = "idle"
      BY <1>2 DEF BeginScan
    <2>2. HoldsSlot' /\ EdgeInHand'
      BY <2>1 DEF ScanInv, HoldsSlot, EdgeInHand, Holding
    <2>3. CountCapped'
      <3>1. \A i \in Slots : ~Fresh(watch[i]) /\ watch[i].count = MaxCount =>
                  dio'[watch[i].pin] = watch[i].prev
        BY <1>2 DEF BeginScan
      <3> QED  BY <2>1, <3>1 DEF CountCapped, Slots
    <2>4. Baselines'
      BY <2>1 DEF Baselines, Scanned, Slots
    <2> QED  BY <2>2, <2>3, <2>4 DEF ScanInv
  <1>3. CASE LatchPin
    <2>1. /\ pc = "slot" /\ pc' = "compare" /\ pin' = watch[slot].pin /\ watch[slot].active
          /\ UNCHANGED <<watch, dio, slot, interrupted>>
      BY <1>3 DEF LatchPin
    <2>2. HoldsSlot' /\ EdgeInHand'
      BY <2>1 DEF ScanInv, HoldsSlot, EdgeInHand, Holding
    <2>3. CountCapped' /\ Baselines'
      BY <2>1 DEF ScanInv, CountCapped, Baselines, Scanned, Slots
    <2> QED  BY <2>2, <2>3 DEF ScanInv
  <1>4. CASE NotAnyEdge \/ FindFull \/ LoadDropped
    <2>1. /\ \/ pc = "any" /\ pc' = "direction"
             \/ pc = "push" /\ pc' = "drop"
             \/ pc = "drop" /\ pc' = "store"
          /\ UNCHANGED <<watch, dio, slot, pin, interrupted>>
      BY <1>4 DEF NotAnyEdge, FindFull, LoadDropped
    <2>2. HoldsSlot' /\ EdgeInHand'
      BY <2>1 DEF ScanInv, HoldsSlot, EdgeInHand, Holding
    <2>3. CountCapped' /\ Baselines'
      BY <2>1 DEF ScanInv, CountCapped, Baselines, Scanned, Slots
    <2> QED  BY <2>2, <2>3 DEF ScanInv
  <1>5. CASE SeeEdge \/ CountEdge
    <2>1. /\ pc \in {"compare", "any", "direction"} /\ pc' \in {"any", "push"}
          /\ UNCHANGED <<dio, slot, pin, interrupted>>
      BY <1>5 DEF SeeEdge, CountEdge, Matches
    <2>2. /\ \A i \in Slots \ {slot} : watch'[i] = watch[i]
          /\ watch'[slot].prev = dio[pin]
          /\ pc' = "any" => watch'[slot].count < MaxCount
          /\ pc' = "push" => watch'[slot].count > 0
      <3>1. CASE SeeEdge
        <4>1. watch[slot].pin = pin
          BY <2>1 DEF ScanInv, HoldsSlot, Holding
        <4>2. watch[slot].count # MaxCount
          BY <1>1, <2>1, <3>1, <4>1 DEF SeeEdge, ScanInv, CountCapped
        <4>3. watch[slot].count \in 0 .. MaxCount
          BY <1>1 DEF Watches
        <4>4. /\ \A i \in Slots \ {slot} : watch'[i] = watch[i]
              /\ watch'[slot].count = watch[slot].count /\ watch'[slot].prev = dio[pin]
          BY <3>1, SeeEdgeIs
        <4>5. pc' = "any"
          BY <3>1 DEF SeeEdge
        <4> QED  BY <4>2, <4>3, <4>4, <4>5
      <3>2. CASE CountEdge
        <4>1. /\ \A i \in Slots \ {slot} : watch'[i] = watch[i]
              /\ watch'[slot].count = watch[slot].count + 1
              /\ watch'[slot].prev = watch[slot].prev
          BY <3>2, CountEdgeIs DEF ScanInv
        <4>2. watch[slot].prev = dio[pin] /\ pc' = "push"
          BY <3>2 DEF CountEdge, Matches, ScanInv, EdgeInHand
        <4>3. watch[slot].count \in Nat
          BY <1>1 DEF Watches
        <4> QED  BY <4>1, <4>2, <4>3
      <3> QED  BY <1>5, <3>1, <3>2
    <2>3. \A i \in Slots : watch'[i].active = watch[i].active /\ watch'[i].pin = watch[i].pin
      BY <1>5, ScanOwns DEF Scan
    <2>4. watch'[slot].pin = pin
      BY <1>1, <2>1, <2>3 DEF ScanInv, HoldsSlot, Holding
    <2>5. HoldsSlot'
      BY <1>1, <2>1, <2>3, <2>4 DEF ScanInv, HoldsSlot, Holding
    <2>6. EdgeInHand'
      BY <2>1, <2>2 DEF EdgeInHand
    <2>7. CountCapped'
      <3> SUFFICES ASSUME NEW i \in Slots, ~Fresh(watch'[i]), watch'[i].count = MaxCount
                   PROVE  dio'[watch'[i].pin] = watch'[i].prev
        BY DEF CountCapped, Slots
      <3>1. CASE i = slot
        BY <2>1, <2>2, <2>4, <3>1
      <3>2. CASE i # slot
        BY <2>1, <2>2, <3>2 DEF ScanInv, CountCapped
      <3> QED  BY <3>1, <3>2
    <2>8. Baselines'
      <3> SUFFICES ASSUME NEW i \in Slots, Scanned(i)', watch'[i].active, ~Fresh(watch'[i])
                   PROVE  watch'[i].prev = dio'[watch'[i].pin]
        BY DEF Baselines, Slots
      <3>1. i < slot /\ i # slot
        BY <1>1, <2>1 DEF Scanned, Slots
      <3> QED  BY <2>1, <2>2, <3>1 DEF ScanInv, Baselines, Scanned
    <2> QED  BY <2>5, <2>6, <2>7, <2>8 DEF ScanInv
  <1> QED  BY <1>2, <1>3, <1>4, <1>5
-----------------------------------------------------------------------------
(***************************************************************************)
(* The numbers of the edges.                                               *)
(***************************************************************************)

Numbers == SeqOrdered /\ NumberedUpTo

(* A request buries or takes entries, and arms a slot under a number that  *)
(* no entry of the slot bears.                                             *)
LEMMA RequestKeepsNumbers ==
    ASSUME TypeOK, WatchTable, Numbers, Handler
    PROVE  Numbers'
  <1>1. PICK n \in 0 .. Len(ring) : QueueStep(n)
    BY HandlerQueue
  <1>2. Len(ring) \in Nat /\ Len(ring') = Len(ring) - n /\ n \in Nat
    BY <1>1, LenProperties DEF TypeOK, QueueStep
  <1>3. ASSUME NEW k \in 1 .. Len(ring'), IsEvent(ring'[k])
        PROVE  ring'[k] = ring[k + n] /\ k + n \in 1 .. Len(ring)
    <2>1. ~IsEvent(Tomb)
      BY DEF IsEvent, Tomb
    <2>2. ring'[k] = ring[k + n]
      BY <1>1, <1>3, <2>1 DEF QueueStep
    <2> QED  BY <1>2, <2>2
  <1>4. SeqOrdered'
    <2> SUFFICES ASSUME NEW j \in 1 .. Len(ring'), NEW k \in 1 .. Len(ring'), j < k,
                        IsEvent(ring'[j]), IsEvent(ring'[k]),
                        ring'[j].arming = ring'[k].arming
                 PROVE  ring'[j].seq < ring'[k].seq
      BY DEF SeqOrdered
    <2>1. /\ ring'[j] = ring[j + n] /\ j + n \in 1 .. Len(ring)
          /\ ring'[k] = ring[k + n] /\ k + n \in 1 .. Len(ring)
          /\ j + n < k + n
      BY <1>2, <1>3
    <2> QED  BY <2>1 DEF Numbers, SeqOrdered
  <1>5. NumberedUpTo'
    <2> SUFFICES ASSUME NEW k \in 1 .. Len(ring'), NEW i \in Slots, IsEvent(ring'[k])
                 PROVE  /\ ring'[k].arming = <<i, watch'[i].seen>> =>
                              /\ ring'[k].seq <= watch'[i].count
                              /\ pc' = "push" /\ slot' = i => ring'[k].seq < watch'[i].count
                        /\ Fresh(watch'[i]) => ring'[k].arming # <<i, watch'[i].arm>>
      BY DEF NumberedUpTo, Slots
    <2> DEFINE m == k + n
    <2>1. ring'[k] = ring[m] /\ m \in 1 .. Len(ring) /\ IsEvent(ring[m])
      BY <1>3
    <2>2. SlotStep(i) /\ UNCHANGED <<pc, slot>>
      BY HandlerOwns
    <2> HIDE DEF m
    <2>3. /\ ring[m].arming = <<i, watch[i].seen>> =>
              /\ ring[m].seq <= watch[i].count
              /\ pc = "push" /\ slot = i => ring[m].seq < watch[i].count
          /\ Fresh(watch[i]) => ring[m].arming # <<i, watch[i].arm>>
      BY <2>1 DEF Numbers, NumberedUpTo
    <2>4. Fresh(watch'[i]) => ring[m].arming # <<i, watch'[i].arm>>
      <3>1. CASE SeqIsNew(i) /\ watch'[i].arm = NextSeq
        BY <2>1, <3>1 DEF SeqIsNew
      <3>2. CASE watch'[i].arm = watch[i].arm
        BY <2>2, <2>3, <3>2 DEF SlotStep, Fresh
      <3> QED  BY <2>2, <3>1, <3>2 DEF SlotStep
    <2> QED  BY <2>1, <2>2, <2>3, <2>4 DEF SlotStep
  <1> QED  BY <1>4, <1>5 DEF Numbers

(* A step of the scan that leaves the queue alone.                         *)
LEMMA ScanKeepsNumbers ==
    ASSUME TypeOK, EdgeInHand, Numbers, Scan, UNCHANGED ring
    PROVE  Numbers'
  <1>1. SeqOrdered'
    BY DEF Numbers, SeqOrdered
  <1>2. slot \in Slots /\ watch \in [Slots -> Watches]
    BY DEF TypeOK
  <1>3. NumberedUpTo'
    <2> SUFFICES ASSUME NEW k \in 1 .. Len(ring), NEW i \in Slots, IsEvent(ring[k])
                 PROVE  /\ ring[k].arming = <<i, watch'[i].seen>> =>
                              /\ ring[k].seq <= watch'[i].count
                              /\ pc' = "push" /\ slot' = i => ring[k].seq < watch'[i].count
                        /\ Fresh(watch'[i]) => ring[k].arming # <<i, watch'[i].arm>>
      BY DEF NumberedUpTo, Slots
    <2>1. /\ ring[k].arming = <<i, watch[i].seen>> => ring[k].seq <= watch[i].count
          /\ Fresh(watch[i]) => ring[k].arming # <<i, watch[i].arm>>
      BY DEF Numbers, NumberedUpTo
    <2>2. watch'[i].arm = watch[i].arm
      BY ScanOwns
    <2>3. CASE TakeBaseline
      <3>1. pc' # "push"
        BY <2>3, LeaveSlotIs DEF TakeBaseline
      <3>2. CASE i # slot
        BY <2>1, <2>3, <3>1, <3>2, BaselineIs
      <3>3. CASE i = slot
        <4>1. Fresh(watch[i]) /\ watch'[i].seen = watch[i].arm
          BY <2>3, <3>3, BaselineIs DEF TakeBaseline
        <4> QED  BY <2>1, <2>2, <3>1, <4>1 DEF Fresh
      <3> QED  BY <3>2, <3>3
    <2>4. CASE SeeEdge
      <3>1. pc' # "push"
        BY <2>4 DEF SeeEdge
      <3>2. watch'[i].seen = watch[i].seen /\ watch'[i].count = watch[i].count
        BY <2>4, SeeEdgeIs
      <3> QED  BY <2>1, <2>2, <3>1, <3>2 DEF Fresh
    <2>5. CASE CountEdge
      <3>1. slot' = slot
        BY <2>5 DEF CountEdge
      <3>2. /\ i # slot => watch'[i] = watch[i]
            /\ i = slot => watch'[i].count = watch[i].count + 1
            /\ watch'[i].seen = watch[i].seen
        BY <2>5, CountEdgeIs
      <3>3. watch[i].count \in Nat
        <4>1. watch[i] \in Watches
          BY <1>2
        <4> QED  BY <4>1 DEF Watches
      <3>4. ring[k].seq \in Nat
        <4>1. ring[k] \in Events
          BY ElementOfSeq DEF TypeOK
        <4> QED  BY <4>1 DEF Events
      <3> QED  BY <2>1, <2>2, <3>1, <3>2, <3>3, <3>4 DEF Fresh
    <2>6. CASE UNCHANGED watch /\ pc' # "push"
      BY <2>1, <2>6
    <2>7. CASE BeginScan \/ LatchPin \/ NotAnyEdge \/ FindFull \/ LoadDropped
      BY <2>6, <2>7 DEF BeginScan, LatchPin, NotAnyEdge, FindFull, LoadDropped
    <2>8. CASE SkipInactive \/ NoEdge \/ AbsorbEdge \/ Publish \/ DroppedSaturated \/ StoreDropped
      <3>1. UNCHANGED watch /\ LeaveSlot
        BY <2>8 DEF SkipInactive, NoEdge, AbsorbEdge, Publish, DroppedSaturated, StoreDropped
      <3> QED  BY <2>6, <3>1, LeaveSlotIs
    <2> QED  BY <2>3, <2>4, <2>5, <2>7, <2>8 DEF Scan
  <1> QED  BY <1>1, <1>3 DEF Numbers

(* push_event() queues an edge after all others of its arming.             *)
LEMMA PublishKeepsNumbers ==
    ASSUME TypeOK, EdgeInHand, Numbers, Publish
    PROVE  Numbers'
  <1> DEFINE e == [pin |-> pin, seq |-> watch[slot].count,
                   arming |-> <<slot, watch[slot].seen>>]
  <1>1. /\ Len(ring) \in Nat /\ Len(ring') = Len(ring) + 1
        /\ ring'[Len(ring) + 1] = e
        /\ \A k \in 1 .. Len(ring) : ring'[k] = ring[k]
    BY PublishIs
  <1>2. e.seq = watch[slot].count /\ e.arming = <<slot, watch[slot].seen>>
    OBVIOUS
  <1> HIDE DEF e
  <1>3. /\ UNCHANGED watch /\ pc = "push" /\ pc' # "push"
        /\ slot \in Slots /\ watch[slot].count \in Nat
    <2>1. watch[slot] \in Watches /\ slot \in Slots
      BY DEF TypeOK
    <2> QED  BY <2>1, LeaveSlotIs DEF Publish, Watches
  <1>4. SeqOrdered'
    <2> SUFFICES ASSUME NEW j \in 1 .. Len(ring'), NEW k \in 1 .. Len(ring'), j < k,
                        IsEvent(ring'[j]), IsEvent(ring'[k]),
                        ring'[j].arming = ring'[k].arming
                 PROVE  ring'[j].seq < ring'[k].seq
      BY DEF SeqOrdered
    <2>1. j \in 1 .. Len(ring) /\ ring'[j] = ring[j]
      BY <1>1
    <2>2. CASE k \in 1 .. Len(ring)
      <3>1. ring'[k] = ring[k]
        BY <1>1, <2>2
      <3> QED  BY <2>1, <2>2, <3>1 DEF Numbers, SeqOrdered
    <2>3. CASE k = Len(ring) + 1
      <3>1. ring'[k] = e
        BY <1>1, <2>3
      <3>2. ring[j].arming = <<slot, watch[slot].seen>> /\ IsEvent(ring[j])
        BY <1>2, <2>1, <3>1
      <3>3. ring[j].seq < watch[slot].count
        BY <1>3, <2>1, <3>2 DEF Numbers, NumberedUpTo
      <3> QED  BY <1>2, <2>1, <3>1, <3>3
    <2> QED  BY <1>1, <2>2, <2>3
  <1>5. NumberedUpTo'
    <2> SUFFICES ASSUME NEW k \in 1 .. Len(ring'), NEW i \in Slots, IsEvent(ring'[k])
                 PROVE  /\ ring'[k].arming = <<i, watch[i].seen>> =>
                              ring'[k].seq <= watch[i].count
                        /\ Fresh(watch[i]) => ring'[k].arming # <<i, watch[i].arm>>
      BY <1>3 DEF NumberedUpTo, Slots
    <2>1. CASE k \in 1 .. Len(ring)
      <3>1. ring'[k] = ring[k]
        BY <1>1, <2>1
      <3> QED  BY <2>1, <3>1 DEF Numbers, NumberedUpTo
    <2>2. CASE k = Len(ring) + 1
      <3>1. ring'[k] = e
        BY <1>1, <2>2
      <3>2. CASE i = slot
        <4>1. Fresh(watch[i]) => <<slot, watch[slot].seen>> # <<i, watch[i].arm>>
          BY <3>2 DEF Fresh
        <4> QED  BY <1>2, <1>3, <3>1, <3>2, <4>1
      <3>3. CASE i # slot
        BY <1>2, <3>1, <3>3
      <3> QED  BY <3>2, <3>3
    <2> QED  BY <1>1, <2>1, <2>2
  <1> QED  BY <1>4, <1>5 DEF Numbers
-----------------------------------------------------------------------------
(***************************************************************************)
(* Drops, and what an OFF leaves.                                          *)
(***************************************************************************)

(* A POP between the load and the store only makes the counter too large.  *)
LEMMA DropsKeptStep ==
    ASSUME TypeOK, DropsKept, Next
    PROVE  DropsKept'
  <1>1. dropped \in 0 .. MaxDropped /\ lost \in 0 .. MaxDropped /\ held \in 0 .. MaxDropped
    BY DEF TypeOK
  <1>2. CASE Handler
    <2>1. (dropped' = dropped /\ lost' = lost) \/ (dropped' = 0 /\ lost' = 0)
      BY <1>2 DEF Handler, PinMode, ConfigOff, ConfigArm, Pop, Reset
    <2>2. pc' = pc /\ held' = held
      BY <1>2 DEF Handler, PinMode, ConfigOff, ConfigArm, Pop, Reset, scanVars
    <2> QED  BY <1>1, <2>1, <2>2 DEF DropsKept
  <1>3. CASE LoadDropped
    BY <1>1, <1>3 DEF DropsKept, LoadDropped, history
  <1>4. CASE DroppedSaturated
    BY <1>1, <1>4, LeaveSlotIs DEF DropsKept, DroppedSaturated, AddLost
  <1>5. CASE StoreDropped
    BY <1>1, <1>5, LeaveSlotIs DEF DropsKept, StoreDropped, AddLost
  <1>6. CASE \/ SkipInactive \/ TakeBaseline \/ NoEdge \/ AbsorbEdge \/ Publish
    <2>1. LeaveSlot /\ dropped' = dropped /\ lost' = lost
      BY <1>6 DEF SkipInactive, TakeBaseline, NoEdge, AbsorbEdge, Publish, history
    <2> QED  BY <2>1, LeaveSlotIs DEF DropsKept
  <1>7. CASE BeginScan \/ LatchPin \/ SeeEdge \/ NotAnyEdge \/ CountEdge \/ FindFull
    BY <1>7 DEF DropsKept, BeginScan, LatchPin, SeeEdge, NotAnyEdge, CountEdge, FindFull, history
  <1> QED  BY <1>2, <1>3, <1>4, <1>5, <1>6, <1>7 DEF Next, Scan

(* A pin has no more events in the queue than the queue has entries.       *)
LEMMA EventsBound ==
    ASSUME TypeOK, NEW p \in Pins
    PROVE  EventsOf(p) \in Nat /\ EventsOf(p) <= Len(ring) /\ EventsOf(p) <= EventDepth
  <1>1. Len(ring) \in Nat /\ Len(ring) <= EventDepth
    BY LenProperties DEF TypeOK
  <1>2. EventsOf(p) \in Nat /\ EventsOf(p) <= Len(ring)
    <2>1. {k \in 1 .. Len(ring) : ring[k].pin = p} \in SUBSET (1 .. Len(ring))
      OBVIOUS
    <2> QED  BY <1>1, <2>1, PartOfInterval DEF EventsOf
  <1> QED  BY <1>1, <1>2

Discards == OffDiscards /\ OffKept

(* The first part of it, in other words.                                   *)
LEMMA OffDiscardsIs ==
    OffDiscards <=> \A p \in Pins : EventsOf(p) <= mayFind[p]
  BY DEF OffDiscards, EventsOf

(* A request: an OFF buries the events of the pin and disarms its slot;    *)
(* an edge in hand may still come.                                         *)
LEMMA RequestDiscards ==
    ASSUME TypeOK, TypeOK', WatchTable, Discards, Handler
    PROVE  Discards'
  <1>1. PICK n \in 0 .. Len(ring) : QueueStep(n)
    BY HandlerQueue
  <1>2. ASSUME NEW p \in Pins
        PROVE  /\ EventsOf(p)' \in Nat /\ EventsOf(p) \in Nat
               /\ EventsOf(p)' <= EventsOf(p) /\ EventsOf(p) <= EventDepth
    BY <1>1, QueueShrinks, EventsBound
  <1>3. /\ pin' = pin /\ pin \in Pins /\ (Holding' <=> Holding)
        /\ mayFind \in [Pins -> 0 .. EventDepth] /\ watch' \in [Slots -> Watches]
    BY HandlerOwns DEF TypeOK, Holding
  <1>4. /\ \A p \in Pins : EventsOf(p) <= mayFind[p]
        /\ \A i \in Slots : watch[i].active => mayFind[watch[i].pin] = EventDepth
        /\ Holding => \/ mayFind[pin] = EventDepth
                      \/ EventsOf(pin) = 0 /\ mayFind[pin] >= 1
    BY OffDiscardsIs DEF Discards, OffKept
  <1>5. SUFFICES
          /\ \A p \in Pins : EventsOf(p)' <= mayFind'[p]
          /\ \A i \in Slots : watch'[i].active => mayFind'[watch'[i].pin] = EventDepth
          /\ Holding => \/ mayFind'[pin] = EventDepth
                        \/ EventsOf(pin)' = 0 /\ mayFind'[pin] >= 1
    <2>1. OffDiscards' <=> \A p \in Pins : EventsOf(p)' <= mayFind'[p]
      BY DEF OffDiscards, EventsOf, Pins
    <2> QED  BY <1>3, <2>1 DEF Discards, OffKept, Slots
  <1>6. \A i \in Slots : watch'[i].pin \in Pins
    BY <1>3 DEF Watches
  <1>7. ASSUME UNCHANGED mayFind,
               \A i \in Slots : watch'[i].active =>
                    watch[i].active /\ watch'[i].pin = watch[i].pin
        PROVE  /\ \A p \in Pins : EventsOf(p)' <= mayFind'[p]
               /\ \A i \in Slots : watch'[i].active => mayFind'[watch'[i].pin] = EventDepth
               /\ Holding => \/ mayFind'[pin] = EventDepth
                             \/ EventsOf(pin)' = 0 /\ mayFind'[pin] >= 1
    <2>1. \A p \in Pins : EventsOf(p)' <= mayFind'[p]
      <3> TAKE p \in Pins
      <3>1. mayFind[p] \in Nat /\ mayFind'[p] = mayFind[p] /\ EventsOf(p) <= mayFind[p]
        BY <1>3, <1>4, <1>7
      <3> QED  BY <1>2, <3>1
    <2>2. \A i \in Slots : watch'[i].active => mayFind'[watch'[i].pin] = EventDepth
      BY <1>4, <1>7
    <2>3. Holding => \/ mayFind'[pin] = EventDepth
                     \/ EventsOf(pin)' = 0 /\ mayFind'[pin] >= 1
      BY <1>2, <1>3, <1>4, <1>7
    <2> QED  BY <2>1, <2>2, <2>3
  <1>8. ASSUME NEW p \in Pins, NEW input \in BOOLEAN, PinMode(p, input)
        PROVE  \A i \in Slots : watch'[i].active =>
                    watch[i].active /\ watch'[i].pin = watch[i].pin
    <2>1. CASE input
      BY <1>8, <2>1 DEF PinMode
    <2>2. CASE ~input
      <3>1. Unwatch(p)
        BY <1>8, <2>2 DEF PinMode
      <3> QED  BY <3>1, UnwatchStep DEF SlotStep
    <2> QED  BY <2>1, <2>2
  <1>9. CASE \E p \in Pins, input \in BOOLEAN : PinMode(p, input)
    BY <1>7, <1>8, <1>9 DEF PinMode
  <1>10. CASE \E cap \in 1 .. MaxPerPop : Pop(cap)
    BY <1>7, <1>10 DEF Pop
  <1>11. ASSUME NEW p \in Pins, ConfigOff(p)
         PROVE  /\ \A q \in Pins : EventsOf(q)' <= mayFind'[q]
                /\ \A i \in Slots : watch'[i].active => mayFind'[watch'[i].pin] = EventDepth
                /\ Holding => \/ mayFind'[pin] = EventDepth
                              \/ EventsOf(pin)' = 0 /\ mayFind'[pin] >= 1
    <2>1. EventsOf(p)' = 0
      <3>1. \A k \in 1 .. Len(ring') : ring'[k].pin # p
        BY <1>11, DiscardIs DEF ConfigOff
      <3>2. {k \in 1 .. Len(ring') : ring'[k].pin = p} = {}
        BY <3>1
      <3> QED  BY <3>2, FS_EmptySet DEF EventsOf
    <2>2. /\ mayFind'[p] = IF Holding /\ pin = p THEN 1 ELSE 0
          /\ \A q \in Pins \ {p} : mayFind'[q] = mayFind[q]
      BY <1>3, <1>11 DEF ConfigOff
    <2>3. \A i \in Slots : watch'[i].active =>
             watch[i].active /\ watch'[i].pin = watch[i].pin /\ watch'[i].pin # p
      BY <1>11, UnwatchStep DEF ConfigOff, SlotStep
    <2>4. \A q \in Pins : EventsOf(q)' <= mayFind'[q]
      <3> TAKE q \in Pins
      <3>1. mayFind[q] \in Nat /\ EventsOf(q) <= mayFind[q]
        BY <1>3, <1>4
      <3> QED  BY <1>2, <2>1, <2>2, <3>1
    <2>5. \A i \in Slots : watch'[i].active => mayFind'[watch'[i].pin] = EventDepth
      BY <1>4, <1>6, <2>2, <2>3
    <2>6. Holding => \/ mayFind'[pin] = EventDepth
                     \/ EventsOf(pin)' = 0 /\ mayFind'[pin] >= 1
      BY <1>2, <1>3, <1>4, <2>1, <2>2
    <2> QED  BY <2>4, <2>5, <2>6
  <1>12. ASSUME NEW p \in Pins, NEW e \in EdgeModes, NEW d \in Debounces, ConfigArm(p, e, d)
         PROVE  /\ \A q \in Pins : EventsOf(q)' <= mayFind'[q]
                /\ \A i \in Slots : watch'[i].active => mayFind'[watch'[i].pin] = EventDepth
                /\ Holding => \/ mayFind'[pin] = EventDepth
                              \/ EventsOf(pin)' = 0 /\ mayFind'[pin] >= 1
    <2>1. mayFind'[p] = EventDepth /\ \A q \in Pins \ {p} : mayFind'[q] = mayFind[q]
      BY <1>3, <1>12 DEF ConfigArm
    <2>2. \A q \in Pins : EventsOf(q)' <= mayFind'[q]
      <3> TAKE q \in Pins
      <3>1. mayFind[q] \in Nat /\ EventsOf(q) <= mayFind[q]
        BY <1>3, <1>4
      <3> QED  BY <1>2, <2>1, <3>1
    <2>3. \A i \in Slots : watch'[i].active => mayFind'[watch'[i].pin] = EventDepth
      <3> TAKE i \in Slots
      <3>1. CASE i = ArmedSlot(p)
        BY <1>12, <2>1, <3>1, ArmStep
      <3>2. CASE i # ArmedSlot(p)
        <4>1. watch'[i] = watch[i]
          BY <1>12, <3>2, ArmStep
        <4> QED  BY <1>4, <1>6, <2>1, <4>1
      <3> QED  BY <3>1, <3>2
    <2>4. Holding => \/ mayFind'[pin] = EventDepth
                     \/ EventsOf(pin)' = 0 /\ mayFind'[pin] >= 1
      BY <1>2, <1>3, <1>4, <2>1
    <2> QED  BY <2>2, <2>3, <2>4
  <1>13. CASE Reset
    <2>1. \A q \in Pins : mayFind'[q] = EventDepth
      BY <1>13 DEF Reset
    <2>2. \A q \in Pins : EventsOf(q)' <= mayFind'[q]
      BY <1>2, <2>1
    <2> QED  BY <1>3, <1>6, <2>1, <2>2
  <1> QED  BY <1>9, <1>10, <1>11, <1>12, <1>13 DEF Handler

(* A step of the scan: the edge in hand is published at most once.         *)
LEMMA ScanDiscards ==
    ASSUME TypeOK, HoldsSlot, EdgeInHand, Discards, Scan
    PROVE  Discards'
  <1>1. /\ pin \in Pins /\ mayFind \in [Pins -> 0 .. EventDepth] /\ mayFind' = mayFind
        /\ \A i \in Slots : watch'[i].active = watch[i].active /\ watch'[i].pin = watch[i].pin
    BY ScanOwns DEF TypeOK
  <1>2. /\ \A p \in Pins : EventsOf(p) <= mayFind[p]
        /\ \A i \in Slots : watch[i].active => mayFind[watch[i].pin] = EventDepth
        /\ Holding => \/ mayFind[pin] = EventDepth
                      \/ EventsOf(pin) = 0 /\ mayFind[pin] >= 1
    BY OffDiscardsIs DEF Discards, OffKept
  <1>3. SUFFICES
          /\ \A p \in Pins : EventsOf(p)' <= mayFind[p]
          /\ Holding' => \/ mayFind[pin'] = EventDepth
                         \/ EventsOf(pin)' = 0 /\ mayFind[pin'] >= 1
    <2>1. OffDiscards' <=> \A p \in Pins : EventsOf(p)' <= mayFind'[p]
      BY DEF OffDiscards, EventsOf, Pins
    <2> QED  BY <1>1, <1>2, <2>1 DEF Discards, OffKept, Slots
  <1>4. ASSUME UNCHANGED ring, Holding' => (Holding /\ pin' = pin) \/ mayFind[pin'] = EventDepth
        PROVE  /\ \A p \in Pins : EventsOf(p)' <= mayFind[p]
               /\ Holding' => \/ mayFind[pin'] = EventDepth
                              \/ EventsOf(pin)' = 0 /\ mayFind[pin'] >= 1
    <2>1. \A p \in Pins : EventsOf(p)' = EventsOf(p)
      BY <1>4 DEF EventsOf
    <2>2. Holding /\ pin' = pin => EventsOf(pin)' = EventsOf(pin)
      BY <1>4 DEF EventsOf
    <2> QED  BY <1>2, <1>4, <2>1, <2>2
  <1>5. CASE BeginScan
    BY <1>4, <1>5 DEF BeginScan, Holding
  <1>6. CASE LatchPin
    <2>1. mayFind[pin'] = EventDepth /\ UNCHANGED ring
      BY <1>2, <1>6 DEF LatchPin, TypeOK
    <2> QED  BY <1>4, <2>1
  <1>7. CASE SeeEdge \/ NotAnyEdge \/ CountEdge \/ FindFull \/ LoadDropped
    <2>1. UNCHANGED <<ring, pin>> /\ Holding
      BY <1>7 DEF SeeEdge, NotAnyEdge, CountEdge, FindFull, LoadDropped, Holding, Matches
    <2> QED  BY <1>4, <2>1
  <1>8. CASE \/ SkipInactive \/ TakeBaseline \/ NoEdge \/ AbsorbEdge \/ DroppedSaturated
            \/ StoreDropped
    <2>1. UNCHANGED ring /\ LeaveSlot
      BY <1>8 DEF SkipInactive, TakeBaseline, NoEdge, AbsorbEdge, DroppedSaturated, StoreDropped
    <2>2. ~Holding'
      BY <2>1, LeaveSlotIs DEF Holding
    <2> QED  BY <1>4, <2>1, <2>2
  <1>9. CASE Publish
    <2> DEFINE new(p) == {k \in 1 .. Len(ring') : ring'[k].pin = p}
               old(p) == {k \in 1 .. Len(ring) : ring[k].pin = p}
    <2>1. /\ Len(ring) \in Nat /\ Len(ring') = Len(ring) + 1 /\ Len(ring) < EventDepth
          /\ ring'[Len(ring) + 1].pin = pin
          /\ \A k \in 1 .. Len(ring) : ring'[k] = ring[k]
      BY <1>9, PublishIs
    <2>2. ~Holding' /\ Holding
      BY <1>9, LeaveSlotIs DEF Publish, Holding
    <2>3. ASSUME NEW p \in Pins, p # pin
          PROVE  EventsOf(p)' = EventsOf(p)
      <3>1. new(p) = old(p)
        BY <2>1, <2>3
      <3> QED  BY <3>1 DEF EventsOf
    <2>4. EventsOf(pin) \in Nat /\ EventsOf(pin) <= Len(ring)
      BY <1>1, EventsBound
    <2>5. Cardinality(new(pin)) = EventsOf(pin) + 1
      <3>1. new(pin) = old(pin) \cup {Len(ring) + 1}
        BY <2>1
      <3>2. Len(ring) + 1 \notin old(pin)
        BY <2>1
      <3>3. IsFiniteSet(old(pin)) /\ Cardinality(old(pin)) = EventsOf(pin)
        BY <2>1, PartOfInterval DEF EventsOf
      <3> HIDE DEF new, old
      <3> QED  BY <3>1, <3>2, <3>3, FS_AddElement
    <2>6. EventsOf(pin) + 1 <= mayFind[pin]
      BY <1>1, <1>2, <2>1, <2>2, <2>4
    <2>7. \A p \in Pins : EventsOf(p)' <= mayFind[p]
      <3> TAKE p \in Pins
      <3>1. CASE p = pin
        BY <2>5, <2>6, <3>1 DEF EventsOf
      <3>2. CASE p # pin
        BY <1>2, <2>3, <3>2
      <3> QED  BY <3>1, <3>2
    <2> QED  BY <2>2, <2>7
  <1> QED  BY <1>5, <1>6, <1>7, <1>8, <1>9 DEF Scan

(* The order in which pins were armed names none twice.                    *)
LEMMA OrderStep ==
    ASSUME TypeOK, OrderDistinct, Next
    PROVE  OrderDistinct'
  <1>1. CASE order' = order
    BY <1>1 DEF OrderDistinct
  <1>2. CASE \E p \in Pins : order' = Without(p)
    BY <1>2, WithoutIs DEF OrderDistinct
  <1>3. CASE \E p \in Pins : order' = Append(Without(p), p)
    BY <1>3, OrderAppended DEF OrderDistinct
  <1>4. CASE order' = <<>>
    BY <1>4 DEF OrderDistinct
  <1>5. CASE Scan
    BY <1>1, <1>5, ScanOwns
  <1>6. CASE Handler
    BY <1>1, <1>2, <1>3, <1>4, <1>6
       DEF Handler, PinMode, ConfigOff, ConfigArm, Pop, Reset, Unwatch
  <1> QED  BY <1>5, <1>6 DEF Next
-----------------------------------------------------------------------------
(***************************************************************************)
(* EVENT_COUNTS: the stamps of the armed slots tell the order in which     *)
(* they were armed, across the wrap of arm_seq, and the insertion sort     *)
(* finds it.                                                               *)
(***************************************************************************)

(* A stamp and its age are numbers below the modulus.                      *)
LEMMA AgeType ==
    ASSUME TypeOK, NEW i \in Slots
    PROVE  Age(i) \in 0 .. SeqMod - 1 /\ watch[i].arm \in 0 .. SeqMod - 1
  <1>1. watch[i].arm \in 0 .. SeqMod - 1 /\ armSeq \in 0 .. SeqMod - 1
    BY DEF TypeOK, Watches
  <1> QED  BY <1>1 DEF Age

(* The signed difference of two stamps tells which was armed later.        *)
LEMMA LaterIs ==
    ASSUME TypeOK, NEW i \in Slots, NEW j \in Slots,
           2 * Age(i) < SeqMod, 2 * Age(j) < SeqMod
    PROVE  Later(i, j) <=> Age(i) < Age(j)
  <1> DEFINE d == watch[i].arm - watch[j].arm
  <1>1. /\ watch[i].arm \in 0 .. SeqMod - 1 /\ watch[j].arm \in 0 .. SeqMod - 1
        /\ armSeq \in 0 .. SeqMod - 1 /\ SeqMod \in Nat \ {0}
    <2>1. armSeq \in 0 .. SeqMod - 1
      BY DEF TypeOK
    <2>2. SeqMod \in Nat \ {0}
      OBVIOUS
    <2> QED  BY <2>1, <2>2, AgeType
  <1>2. d % SeqMod = IF d >= 0 THEN d ELSE d + SeqMod
    <2>1. d \in Int /\ -SeqMod < d /\ d < SeqMod
      BY <1>1
    <2> HIDE DEF d
    <2> QED  BY <1>1, <2>1, ModSmall
  <1>3. Later(i, j) <=> d % SeqMod > 0 /\ 2 * (d % SeqMod) < SeqMod
    BY DEF Later
  <1>4. Later(i, j) <=> \/ d > 0 /\ 2 * d < SeqMod
                        \/ d < 0 /\ 2 * (d + SeqMod) < SeqMod
    <2>1. d \in Int /\ -SeqMod < d
      BY <1>1
    <2> HIDE DEF d
    <2> QED  BY <1>1, <1>2, <1>3, <2>1
  <1>5. d \in Int /\ d = watch[i].arm - watch[j].arm
    BY <1>1
  <1> HIDE DEF d
  <1>6. CASE watch[i].arm <= armSeq /\ watch[j].arm <= armSeq
    BY <1>1, <1>4, <1>5, <1>6 DEF Age
  <1>7. CASE watch[i].arm <= armSeq /\ watch[j].arm > armSeq
    BY <1>1, <1>4, <1>5, <1>7 DEF Age
  <1>8. CASE watch[i].arm > armSeq /\ watch[j].arm <= armSeq
    BY <1>1, <1>4, <1>5, <1>8 DEF Age
  <1>9. CASE watch[i].arm > armSeq /\ watch[j].arm > armSeq
    BY <1>1, <1>4, <1>5, <1>9 DEF Age
  <1> QED  BY <1>1, <1>6, <1>7, <1>8, <1>9

(* The slots of s are those of S, the one armed first in front.            *)
Oldest1st(s, S) ==
    /\ s \in Seq(Slots)
    /\ \A k \in 1 .. Len(s) : s[k] \in S
    /\ \A i \in S : \E k \in 1 .. Len(s) : s[k] = i
    /\ \A j, k \in 1 .. Len(s) : j < k => Age(s[j]) > Age(s[k])

(* A sequence with one more element behind the first `at`.                 *)
Added(s, at, e) == SubSeq(s, 1, at) \o <<e>> \o SubSeq(s, at + 1, Len(s))

LEMMA OneAdded ==
    ASSUME NEW S, NEW s \in Seq(S), NEW at \in 0 .. Len(s), NEW e \in S
    PROVE  /\ Added(s, at, e) \in Seq(S) /\ Len(Added(s, at, e)) = Len(s) + 1
           /\ \A k \in 1 .. Len(s) + 1 : Added(s, at, e)[k] =
                 IF k <= at THEN s[k] ELSE IF k = at + 1 THEN e ELSE s[k - 1]
  <1>1. Len(s) \in Nat /\ \A j \in 1 .. Len(s) : s[j] \in S
    BY LenProperties, ElementOfSeq
  <1>2. PICK a \in Seq(S) : /\ a = SubSeq(s, 1, at) /\ Len(a) = at
                            /\ \A i \in 1 .. at : a[i] = s[i]
    <2> DEFINE x == SubSeq(s, 1, at)
    <2>1. 1 \in Int /\ at \in Int /\ \A i \in 1 .. at : s[i] \in S
      BY <1>1
    <2>2. /\ x \in Seq(S) /\ Len(x) = IF 1 <= at THEN at - 1 + 1 ELSE 0
          /\ \A i \in 1 .. at - 1 + 1 : x[i] = s[1 + i - 1]
      BY <2>1, SubSeqProperties
    <2> HIDE DEF x
    <2>3. Len(x) = at /\ \A i \in 1 .. at : x[i] = s[i]
      BY <1>1, <2>2
    <2> QED  BY <2>2, <2>3 DEF x
  <1>3. PICK b \in Seq(S) : /\ b = SubSeq(s, at + 1, Len(s)) /\ Len(b) = Len(s) - at
                            /\ \A i \in 1 .. Len(s) - at : b[i] = s[at + i]
    <2> DEFINE x == SubSeq(s, at + 1, Len(s))
    <2>1. /\ at + 1 \in Int /\ Len(s) \in Int
          /\ \A i \in at + 1 .. Len(s) : s[i] \in S
      BY <1>1
    <2>2. /\ x \in Seq(S)
          /\ Len(x) = IF at + 1 <= Len(s) THEN Len(s) - (at + 1) + 1 ELSE 0
          /\ \A i \in 1 .. Len(s) - (at + 1) + 1 : x[i] = s[(at + 1) + i - 1]
      BY <2>1, SubSeqProperties
    <2> HIDE DEF x
    <2>3. Len(x) = Len(s) - at /\ \A i \in 1 .. Len(s) - at : x[i] = s[at + i]
      BY <1>1, <2>2
    <2> QED  BY <2>2, <2>3 DEF x
  <1>4. PICK c \in Seq(S) : c = <<e>> /\ Len(c) = 1 /\ c[1] = e
    <2>1. <<e>> \in Seq(S) /\ Len(<<e>>) = 1 /\ <<e>>[1] = e
      OBVIOUS
    <2> QED  BY <2>1
  <1>5. PICK w \in Seq(S) : /\ w = a \o c /\ Len(w) = at + 1
                            /\ \A i \in 1 .. at + 1 : w[i] = IF i <= at THEN s[i] ELSE e
    <2> DEFINE x == a \o c
    <2>1. /\ x \in Seq(S) /\ Len(x) = Len(a) + Len(c)
          /\ \A i \in 1 .. Len(a) + Len(c) :
                x[i] = IF i <= Len(a) THEN a[i] ELSE c[i - Len(a)]
      BY <1>2, <1>4, ConcatProperties
    <2> HIDE DEF x
    <2>2. Len(x) = at + 1 /\ \A i \in 1 .. at + 1 : x[i] = IF i <= at THEN s[i] ELSE e
      BY <1>1, <1>2, <1>4, <2>1
    <2> QED  BY <2>1, <2>2 DEF x
  <1> DEFINE t == w \o b
  <1>6. Added(s, at, e) = t
    BY <1>2, <1>3, <1>4, <1>5 DEF Added
  <1>7. /\ t \in Seq(S) /\ Len(t) = Len(w) + Len(b)
        /\ \A i \in 1 .. Len(w) + Len(b) :
              t[i] = IF i <= Len(w) THEN w[i] ELSE b[i - Len(w)]
    <2>1. w \in Seq(S) /\ b \in Seq(S)
      BY <1>5, <1>3
    <2> QED  BY <2>1, ConcatProperties
  <1> HIDE DEF t
  <1>10. Len(w) = at + 1 /\ Len(b) = Len(s) - at /\ Len(s) \in Nat /\ at \in Nat
         /\ at <= Len(s)
    BY <1>1, <1>3, <1>5
  <1>8. Len(t) = Len(s) + 1
    BY <1>7, <1>10
  <1>9. \A k \in 1 .. Len(s) + 1 :
           t[k] = IF k <= at THEN s[k] ELSE IF k = at + 1 THEN e ELSE s[k - 1]
    <2> TAKE k \in 1 .. Len(s) + 1
    <2>1. CASE k <= at + 1
      <3>1. k \in 1 .. Len(w) + Len(b) /\ k <= Len(w) /\ k \in 1 .. at + 1
        BY <1>10, <2>1
      <3>2. t[k] = w[k] /\ w[k] = IF k <= at THEN s[k] ELSE e
        BY <1>5, <1>7, <3>1
      <3> QED  BY <1>10, <2>1, <3>1, <3>2
    <2>2. CASE k > at + 1
      <3>1. k - (at + 1) \in 1 .. Len(s) - at /\ at + (k - (at + 1)) = k - 1
        BY <1>10, <2>2
      <3>2. t[k] = b[k - (at + 1)]
        <4>1. k \in 1 .. Len(w) + Len(b) /\ ~(k <= Len(w)) /\ Len(w) = at + 1
          BY <1>10, <2>2
        <4> QED  BY <1>7, <4>1
      <3>3. b[k - (at + 1)] = s[k - 1]
        BY <1>3, <3>1
      <3>4. ~(k <= at) /\ k # at + 1
        BY <1>10, <2>2
      <3> QED  BY <3>2, <3>3, <3>4
    <2> QED  BY <1>10, <2>1, <2>2
  <1> QED  BY <1>6, <1>7, <1>8, <1>9

(* The insertion of a slot that is active into a sorted sequence of others.*)
LEMMA InsertedIs ==
    ASSUME TypeOK, NEW S \in SUBSET Slots, NEW s, Oldest1st(s, S),
           NEW key \in Slots, key \notin S, 2 * Age(key) < SeqMod,
           \A i \in S : 2 * Age(i) < SeqMod /\ Age(i) # Age(key)
    PROVE  Oldest1st(Inserted(s, key), S \cup {key})
  <1>1. /\ s \in Seq(Slots) /\ Len(s) \in Nat
        /\ \A k \in 1 .. Len(s) : s[k] \in S /\ s[k] \in Slots
    BY LenProperties DEF Oldest1st
  <1>2. \A i \in S : Age(i) \in Nat /\ Age(key) \in Nat
    BY AgeType
  <1>3. \A k \in 1 .. Len(s) : /\ Age(s[k]) \in Nat /\ Age(s[k]) # Age(key)
                               /\ Later(s[k], key) <=> Age(s[k]) < Age(key)
    BY <1>1, <1>2, LaterIs
  <1>4. Age(key) \in Nat
    BY AgeType
  <1> DEFINE At(n) == /\ \A k \in n + 1 .. Len(s) : Later(s[k], key)
                      /\ n > 0 => ~Later(s[n], key)
             Behind == {n \in 0 .. Len(s) : \A k \in n + 1 .. Len(s) : Later(s[k], key)}
  <1>5. \E n \in 0 .. Len(s) : At(n)
    <2>1. PICK n \in Behind : \A m \in Behind : n <= m
      <3>1. Behind \in SUBSET Nat /\ Len(s) \in Behind
        BY <1>1
      <3> HIDE DEF Behind
      <3> QED  BY <3>1, Least
    <2>2. n \in 0 .. Len(s) /\ n \in Nat /\ \A k \in n + 1 .. Len(s) : Later(s[k], key)
      BY <1>1, <2>1
    <2>3. ASSUME n > 0, Later(s[n], key)
          PROVE  FALSE
      <3>1. n - 1 \in 0 .. Len(s) /\ (n - 1) + 1 = n
        BY <1>1, <2>2, <2>3
      <3>2. \A k \in (n - 1) + 1 .. Len(s) : Later(s[k], key)
        <4> TAKE k \in (n - 1) + 1 .. Len(s)
        <4>1. k = n \/ k \in n + 1 .. Len(s)
          BY <1>1, <2>2, <3>1
        <4> QED  BY <2>2, <2>3, <4>1
      <3>3. n - 1 \in Behind
        BY <3>1, <3>2
      <3> HIDE DEF Behind
      <3>4. n <= n - 1
        BY <2>1, <3>3
      <3> QED  BY <2>2, <3>4
    <2> QED  BY <2>2, <2>3
  <1>6. PICK at \in 0 .. Len(s) : At(at) /\ Inserted(s, key) = Added(s, at, key)
    <2> DEFINE n == CHOOSE n \in 0 .. Len(s) : At(n)
    <2>1. n \in 0 .. Len(s) /\ At(n)
      <3> HIDE DEF At
      <3> QED  BY <1>5
    <2>2. Inserted(s, key) = Added(s, n, key)
      BY DEF Inserted, Added
    <2> HIDE DEF n
    <2> QED  BY <2>1, <2>2
  <1> DEFINE t == Inserted(s, key)
  <1>7. /\ t \in Seq(Slots) /\ Len(t) = Len(s) + 1
        /\ \A k \in 1 .. Len(s) + 1 :
             t[k] = IF k <= at THEN s[k] ELSE IF k = at + 1 THEN key ELSE s[k - 1]
    <2>1. s \in Seq(Slots) /\ at \in 0 .. Len(s)
      BY <1>1, <1>6
    <2>2. /\ Added(s, at, key) \in Seq(Slots) /\ Len(Added(s, at, key)) = Len(s) + 1
          /\ \A k \in 1 .. Len(s) + 1 : Added(s, at, key)[k] =
               IF k <= at THEN s[k] ELSE IF k = at + 1 THEN key ELSE s[k - 1]
      BY <2>1, OneAdded
    <2> QED  BY <1>6, <2>2
  <1> HIDE DEF t
  <1>8. at \in Nat /\ at <= Len(s)
    BY <1>1, <1>6
  <1>9. \A k \in 1 .. at : t[k] = s[k] /\ Age(s[k]) > Age(key)
    <2> TAKE k \in 1 .. at
    <2>1. k \in 1 .. Len(s) /\ at \in 1 .. Len(s) /\ k \in 1 .. Len(s) + 1 /\ at > 0 /\ k <= at
      BY <1>1, <1>8
    <2>2. ~(Age(s[at]) < Age(key)) /\ Age(s[at]) # Age(key) /\ Age(s[at]) \in Nat
      BY <1>3, <1>6, <2>1
    <2>3. k = at \/ (k < at /\ Age(s[k]) > Age(s[at]))
      BY <2>1 DEF Oldest1st
    <2>4. Age(s[k]) \in Nat
      BY <1>3, <2>1
    <2> QED  BY <1>4, <1>7, <2>1, <2>2, <2>3, <2>4
  <1>10. at + 1 \in 1 .. Len(t) /\ t[at + 1] = key
    BY <1>1, <1>7, <1>8
  <1>11. \A k \in at + 1 .. Len(s) : t[k + 1] = s[k] /\ Age(key) > Age(s[k])
    <2> TAKE k \in at + 1 .. Len(s)
    <2>1. /\ k \in 1 .. Len(s) /\ k + 1 \in 1 .. Len(s) + 1 /\ ~(k + 1 <= at)
          /\ k + 1 # at + 1 /\ (k + 1) - 1 = k
      BY <1>1, <1>8
    <2>2. Age(s[k]) < Age(key)
      BY <1>3, <1>6, <2>1
    <2> QED  BY <1>3, <1>4, <1>7, <2>1, <2>2
  <1>12. \A k \in 1 .. Len(t) : \/ k \in 1 .. at
                                \/ k = at + 1
                                \/ k - 1 \in at + 1 .. Len(s) /\ (k - 1) + 1 = k
    BY <1>1, <1>7, <1>8
  <1>13. \A k \in 1 .. Len(t) : t[k] \in S \cup {key}
    <2> TAKE k \in 1 .. Len(t)
    <2>1. CASE k \in 1 .. at
      <3>1. k \in 1 .. Len(s)
        BY <1>1, <1>8, <2>1
      <3> QED  BY <1>1, <1>9, <2>1, <3>1
    <2>2. CASE k = at + 1
      BY <1>10, <2>2
    <2>3. CASE k - 1 \in at + 1 .. Len(s) /\ (k - 1) + 1 = k
      <3>1. k - 1 \in 1 .. Len(s) /\ t[k] = s[k - 1]
        BY <1>8, <1>11, <2>3
      <3> QED  BY <1>1, <3>1
    <2> QED  BY <1>12, <2>1, <2>2, <2>3
  <1>14. \A i \in S \cup {key} : \E k \in 1 .. Len(t) : t[k] = i
    <2> SUFFICES ASSUME NEW i \in S
                 PROVE  \E k \in 1 .. Len(t) : t[k] = i
      BY <1>10
    <2>1. PICK k \in 1 .. Len(s) : s[k] = i
      BY DEF Oldest1st
    <2>2. CASE k <= at
      BY <1>1, <1>7, <1>8, <1>9, <2>1, <2>2
    <2>3. CASE k > at
      <3>1. k \in at + 1 .. Len(s) /\ k + 1 \in 1 .. Len(t)
        BY <1>1, <1>7, <1>8, <2>1, <2>3
      <3> QED  BY <1>11, <2>1, <3>1
    <2> QED  BY <1>8, <2>2, <2>3
  <1>15. \A j, k \in 1 .. Len(t) : j < k => Age(t[j]) > Age(t[k])
    <2> SUFFICES ASSUME NEW j \in 1 .. Len(t), NEW k \in 1 .. Len(t), j < k
                 PROVE  Age(t[j]) > Age(t[k])
      OBVIOUS
    <2>1. CASE k \in 1 .. at
      <3>1. j \in 1 .. at /\ j \in 1 .. Len(s) /\ k \in 1 .. Len(s)
        BY <1>1, <1>8, <2>1
      <3> QED  BY <1>9, <2>1, <3>1 DEF Oldest1st
    <2>2. CASE k = at + 1
      <3>1. j \in 1 .. at
        BY <1>8, <2>2
      <3> QED  BY <1>9, <1>10, <2>2, <3>1
    <2>3. CASE k - 1 \in at + 1 .. Len(s) /\ (k - 1) + 1 = k
      <3>1. k - 1 \in 1 .. Len(s) /\ t[k] = s[k - 1] /\ Age(key) > Age(s[k - 1])
            /\ Age(s[k - 1]) \in Nat
        BY <1>3, <1>8, <1>11, <2>3
      <3>2. CASE j \in 1 .. at
        <4>1. Age(t[j]) > Age(key) /\ Age(t[j]) \in Nat
          <5>1. j \in 1 .. Len(s)
            BY <1>1, <1>8, <3>2
          <5> QED  BY <1>3, <1>9, <3>2, <5>1
        <4> QED  BY <1>4, <3>1, <4>1
      <3>3. CASE j = at + 1
        BY <1>10, <3>1, <3>3
      <3>4. CASE j - 1 \in at + 1 .. Len(s) /\ (j - 1) + 1 = j
        <4>1. j - 1 \in 1 .. Len(s) /\ t[j] = s[j - 1] /\ j - 1 < k - 1
          BY <1>1, <1>8, <1>11, <3>4
        <4> QED  BY <3>1, <4>1 DEF Oldest1st
      <3> QED  BY <1>12, <3>2, <3>3, <3>4
    <2> QED  BY <1>12, <2>1, <2>2, <2>3
  <1> QED  BY <1>7, <1>13, <1>14, <1>15 DEF t, Oldest1st

(* Two such sequences of the same slots are the same.                      *)
LEMMA OneOrder ==
    ASSUME TypeOK, NEW S \in SUBSET Slots, NEW s, NEW t, Oldest1st(s, S), Oldest1st(t, S)
    PROVE  s = t
  <1>1. /\ s \in Seq(Slots) /\ Len(s) \in Nat /\ s \in [1 .. Len(s) -> Slots]
        /\ t \in Seq(Slots) /\ Len(t) \in Nat /\ t \in [1 .. Len(t) -> Slots]
    BY LenProperties DEF Oldest1st
  <1>2. /\ \A k \in 1 .. Len(s) : Age(s[k]) \in Nat
        /\ \A k \in 1 .. Len(t) : Age(t[k]) \in Nat
    <2>1. \A i \in Slots : Age(i) \in Nat
      BY AgeType
    <2> QED  BY <1>1, <2>1
  <1>3. /\ \A k \in 1 .. Len(s) : \E m \in 1 .. Len(t) : t[m] = s[k]
        /\ \A k \in 1 .. Len(t) : \E m \in 1 .. Len(s) : s[m] = t[k]
    BY DEF Oldest1st
  <1> DEFINE Same == {n \in Nat : \A k \in 1 .. n :
                        k <= Len(s) /\ k <= Len(t) => s[k] = t[k]}
  <1>4. 0 \in Same
    OBVIOUS
  <1>5. ASSUME NEW n \in Nat, n \in Same
        PROVE  n + 1 \in Same
    <2>1. ASSUME n + 1 <= Len(s), n + 1 <= Len(t)
          PROVE  s[n + 1] = t[n + 1]
      <3>1. n + 1 \in 1 .. Len(s) /\ n + 1 \in 1 .. Len(t)
        BY <1>1, <2>1
      <3>2. PICK m \in 1 .. Len(t) : t[m] = s[n + 1]
        BY <1>3, <3>1
      <3>3. PICK l \in 1 .. Len(s) : s[l] = t[n + 1]
        BY <1>3, <3>1
      <3>4. m >= n + 1
        <4> SUFFICES ASSUME m < n + 1
                     PROVE  FALSE
          BY <1>1, <3>2
        <4>1. m \in 1 .. n /\ m <= Len(s) /\ m <= Len(t) /\ m \in 1 .. Len(s)
          BY <1>1, <2>1, <3>2
        <4>2. s[m] = s[n + 1]
          BY <1>5, <3>2, <4>1
        <4>3. Age(s[m]) > Age(s[n + 1])
          BY <3>1, <4>1 DEF Oldest1st
        <4> QED  BY <1>2, <3>1, <4>2, <4>3
      <3>5. l >= n + 1
        <4> SUFFICES ASSUME l < n + 1
                     PROVE  FALSE
          BY <1>1, <3>3
        <4>1. l \in 1 .. n /\ l <= Len(s) /\ l <= Len(t) /\ l \in 1 .. Len(t)
          BY <1>1, <2>1, <3>3
        <4>2. t[l] = t[n + 1]
          BY <1>5, <3>3, <4>1
        <4>3. Age(t[l]) > Age(t[n + 1])
          BY <3>1, <4>1 DEF Oldest1st
        <4> QED  BY <1>2, <3>1, <4>2, <4>3
      <3>6. CASE m = n + 1
        BY <3>2, <3>6
      <3>7. CASE l = n + 1
        BY <3>3, <3>7
      <3>8. CASE m > n + 1 /\ l > n + 1
        <4>1. Age(t[n + 1]) > Age(t[m]) /\ Age(s[n + 1]) > Age(s[l])
          BY <3>1, <3>2, <3>3, <3>8 DEF Oldest1st
        <4>2. Age(t[n + 1]) \in Nat /\ Age(s[n + 1]) \in Nat
          BY <1>2, <3>1
        <4> QED  BY <3>2, <3>3, <4>1, <4>2
      <3> QED  BY <3>2, <3>3, <3>4, <3>5, <3>6, <3>7, <3>8
    <2>2. \A k \in 1 .. n + 1 : k \in 1 .. n \/ k = n + 1
      OBVIOUS
    <2> QED  BY <1>5, <2>1, <2>2
  <1>6. \A n \in Nat : n \in Same
    <2> HIDE DEF Same
    <2> QED  BY <1>4, <1>5, Induction
  <1>7. \A k \in Nat : k >= 1 /\ k <= Len(s) /\ k <= Len(t) => s[k] = t[k]
    BY <1>6
  <1>8. ASSUME Len(s) < Len(t)
        PROVE  FALSE
    <2>1. Len(s) + 1 \in 1 .. Len(t)
      BY <1>1, <1>8
    <2>2. PICK m \in 1 .. Len(s) : s[m] = t[Len(s) + 1]
      BY <1>3, <2>1
    <2>3. m \in Nat /\ m >= 1 /\ m <= Len(s) /\ m \in 1 .. Len(t) /\ m < Len(s) + 1
      BY <1>1, <1>8, <2>2
    <2>4. t[m] = t[Len(s) + 1]
      BY <1>1, <1>7, <2>2, <2>3
    <2>5. Age(t[m]) > Age(t[Len(s) + 1])
      BY <2>1, <2>3 DEF Oldest1st
    <2> QED  BY <1>2, <2>1, <2>4, <2>5
  <1>9. ASSUME Len(t) < Len(s)
        PROVE  FALSE
    <2>1. Len(t) + 1 \in 1 .. Len(s)
      BY <1>1, <1>9
    <2>2. PICK m \in 1 .. Len(t) : t[m] = s[Len(t) + 1]
      BY <1>3, <2>1
    <2>3. m \in Nat /\ m >= 1 /\ m <= Len(t) /\ m \in 1 .. Len(s) /\ m < Len(t) + 1
      BY <1>1, <1>9, <2>2
    <2>4. s[m] = s[Len(t) + 1]
      BY <1>1, <1>7, <2>2, <2>3
    <2>5. Age(s[m]) > Age(s[Len(t) + 1])
      BY <2>1, <2>3 DEF Oldest1st
    <2> QED  BY <1>2, <2>1, <2>4, <2>5
  <1>10. Len(s) = Len(t)
    <2>1. ~(Len(s) < Len(t)) /\ ~(Len(t) < Len(s))
      BY <1>8, <1>9
    <2>2. Len(s) \in Nat /\ Len(t) \in Nat
      BY <1>1
    <2> QED  BY <2>1, <2>2
  <1> QED  BY <1>1, <1>7, <1>10

(* The sort is what its body says.                                         *)
LEMMA SortedIs ==
    /\ Sorted[0] = <<>>
    /\ \A n \in 1 .. MaxWatched :
          Sorted[n] = IF watch[n - 1].active THEN Inserted(Sorted[n - 1], n - 1)
                      ELSE Sorted[n - 1]
  <1> DEFINE F(m, f) ==
                f = [n \in 0 .. m |->
                        IF n = 0 THEN <<>>
                        ELSE IF watch[n - 1].active THEN Inserted(f[n - 1], n - 1)
                        ELSE f[n - 1]]
             Found == {m \in Nat : \E f : F(m, f)}
  <1>1. 0 \in Found
    <2> DEFINE f == [n \in 0 .. 0 |-> <<>>]
    <2>1. F(0, f)
      OBVIOUS
    <2> QED  BY <2>1
  <1>2. \A m \in Nat : m \in Found => m + 1 \in Found
    <2> SUFFICES ASSUME NEW m \in Nat, m \in Found
                 PROVE  m + 1 \in Found
      OBVIOUS
    <2>1. PICK g : F(m, g)
      OBVIOUS
    <2> DEFINE f == [n \in 0 .. m + 1 |->
                        IF n <= m THEN g[n]
                        ELSE IF watch[n - 1].active THEN Inserted(g[n - 1], n - 1)
                        ELSE g[n - 1]]
    <2>2. \A n \in 0 .. m : f[n] = g[n]
      OBVIOUS
    <2>3. \A n \in 0 .. m + 1 :
              f[n] = IF n = 0 THEN <<>>
                     ELSE IF watch[n - 1].active THEN Inserted(f[n - 1], n - 1)
                     ELSE f[n - 1]
      <3> TAKE n \in 0 .. m + 1
      <3>1. CASE n = m + 1
        <4>1. f[n] = IF watch[n - 1].active THEN Inserted(g[n - 1], n - 1) ELSE g[n - 1]
          BY <3>1
        <4>2. n - 1 \in 0 .. m /\ n # 0
          BY <3>1
        <4> HIDE DEF f
        <4> QED  BY <2>2, <4>1, <4>2
      <3>2. CASE n # m + 1
        <4>1. n \in 0 .. m
          BY <3>2
        <4>2. g[n] = IF n = 0 THEN <<>>
                     ELSE IF watch[n - 1].active THEN Inserted(g[n - 1], n - 1)
                     ELSE g[n - 1]
          BY <2>1, <4>1
        <4>3. n # 0 => n - 1 \in 0 .. m
          BY <4>1
        <4> HIDE DEF f
        <4> QED  BY <2>2, <4>1, <4>2, <4>3
      <3> QED  BY <3>1, <3>2
    <2>4. F(m + 1, f)
      <3>1. f = [n \in 0 .. m + 1 |-> f[n]]
        OBVIOUS
      <3> HIDE DEF f
      <3> QED  BY <2>3, <3>1
    <2> HIDE DEF F
    <2> QED  BY <2>4
  <1>3. \A m \in Nat : m \in Found
    <2> HIDE DEF Found
    <2> QED  BY <1>1, <1>2, Induction
  <1>4. \E f : F(MaxWatched, f)
    BY <1>3
  <1>5. Sorted = CHOOSE f : F(MaxWatched, f)
    BY DEF Sorted
  <1>6. F(MaxWatched, Sorted)
    <2> HIDE DEF F
    <2> QED  BY <1>4, <1>5
  <1>7. MaxWatched \in Nat /\ \A n \in 0 .. MaxWatched :
            Sorted[n] = IF n = 0 THEN <<>>
                        ELSE IF watch[n - 1].active THEN Inserted(Sorted[n - 1], n - 1)
                        ELSE Sorted[n - 1]
    BY <1>6
  <1> QED  BY <1>7

(* The slots that are watched, and those the first n rounds have sorted.   *)
Active == {i \in Slots : watch[i].active}

LEMMA SortedOrders ==
    ASSUME TypeOK, WatchTable, ArmOrder
    PROVE  Oldest1st(Sorted[MaxWatched], Active)
  <1> DEFINE S(n) == {i \in Active : i < n}
             Good == {n \in Nat : n <= MaxWatched => Oldest1st(Sorted[n], S(n))}
  <1>1. \A i, j \in Active : i # j => Age(i) # Age(j)
    <2> SUFFICES ASSUME NEW i \in Active, NEW j \in Active, i # j
                 PROVE  Age(i) # Age(j)
      OBVIOUS
    <2>1. i \in Slots /\ watch[i].active /\ j \in Slots /\ watch[j].active
      BY DEF Active
    <2>2. PICK k \in 1 .. Len(order) : order[k] = watch[i].pin
      BY <2>1 DEF ArmOrder
    <2>3. PICK l \in 1 .. Len(order) : order[l] = watch[j].pin
      BY <2>1 DEF ArmOrder
    <2>4. k # l
      BY <2>1, <2>2, <2>3 DEF WatchTable
    <2>5. Len(order) \in Nat /\ k \in Nat /\ l \in Nat /\ (k < l \/ l < k)
      <3>1. Len(order) \in Nat
        BY LenProperties DEF TypeOK
      <3> QED  BY <2>2, <2>3, <2>4, <3>1
    <2>6. Age(i) > Age(j) \/ Age(j) > Age(i)
      BY <2>1, <2>2, <2>3, <2>5 DEF ArmOrder
    <2>7. Age(i) \in Nat /\ Age(j) \in Nat
      BY <2>1, AgeType
    <2> QED  BY <2>6, <2>7
  <1>2. 0 \in Good
    <2>1. S(0) = {}
      BY DEF Active, Slots
    <2>2. Sorted[0] \in Seq(Slots) /\ Len(Sorted[0]) = 0
      BY SortedIs
    <2> QED  BY <2>1, <2>2 DEF Oldest1st
  <1>3. ASSUME NEW n \in Nat, n \in Good
        PROVE  n + 1 \in Good
    <2> SUFFICES ASSUME n + 1 <= MaxWatched
                 PROVE  Oldest1st(Sorted[n + 1], S(n + 1))
      OBVIOUS
    <2>1. Oldest1st(Sorted[n], S(n)) /\ n \in Slots
      BY <1>3 DEF Slots
    <2>2. n + 1 \in 1 .. MaxWatched /\ (n + 1) - 1 = n
      OBVIOUS
    <2>3. Sorted[n + 1] = IF watch[n].active THEN Inserted(Sorted[n], n) ELSE Sorted[n]
      BY <2>2, SortedIs
    <2>4. CASE watch[n].active
      <3>1. S(n + 1) = S(n) \cup {n}
        BY <2>1, <2>4 DEF Active, Slots
      <3>2. n \notin S(n) /\ S(n) \in SUBSET Slots /\ n \in Active
        BY <2>1, <2>4 DEF Active
      <3>3. 2 * Age(n) < SeqMod /\ \A i \in S(n) : 2 * Age(i) < SeqMod /\ Age(i) # Age(n)
        <4>1. \A i \in Active : 2 * Age(i) < SeqMod
          BY DEF Active, ArmOrder
        <4> QED  BY <1>1, <3>2, <4>1
      <3>4. Oldest1st(Inserted(Sorted[n], n), S(n) \cup {n})
        <4> DEFINE Sn == S(n)  so == Sorted[n]
        <4>1. /\ Sn \in SUBSET Slots /\ Oldest1st(so, Sn) /\ n \in Slots /\ n \notin Sn
              /\ 2 * Age(n) < SeqMod
              /\ \A i \in Sn : 2 * Age(i) < SeqMod /\ Age(i) # Age(n)
          BY <2>1, <3>2, <3>3
        <4> HIDE DEF Sn, so
        <4>2. Oldest1st(Inserted(so, n), Sn \cup {n})
          BY <4>1, InsertedIs
        <4> QED  BY <4>2 DEF Sn, so
      <3> QED  BY <2>3, <2>4, <3>1, <3>4
    <2>5. CASE ~watch[n].active
      <3>1. S(n + 1) = S(n)
        BY <2>1, <2>5 DEF Active, Slots
      <3> QED  BY <2>1, <2>3, <2>5, <3>1
    <2> QED  BY <2>4, <2>5
  <1>4. \A n \in Nat : n \in Good
    <2> HIDE DEF Good
    <2> QED  BY <1>2, <1>3, Induction
  <1>5. S(MaxWatched) = Active
    BY DEF Active, Slots
  <1>6. Oldest1st(Sorted[MaxWatched], S(MaxWatched))
    BY <1>4
  <1> QED  BY <1>5, <1>6

(* EVENT_COUNTS finds the history of armings in the stamps.                *)
LEMMA CountsOrdered ==
    ASSUME TypeOK, WatchTable, OrderDistinct, ArmOrder
    PROVE  CountsInArmOrder
  <1> DEFINE t == [k \in 1 .. Len(order) |-> CHOOSE i \in SlotsOf(order[k]) : TRUE]
             s == Sorted[MaxWatched]
  <1>1. Len(order) \in Nat /\ order \in [1 .. Len(order) -> Pins]
    BY LenProperties DEF TypeOK
  <1>2. \A k \in 1 .. Len(order) :
           t[k] \in Slots /\ watch[t[k]].active /\ watch[t[k]].pin = order[k]
    <2> TAKE k \in 1 .. Len(order)
    <2>1. SlotsOf(order[k]) # {}
      BY DEF ArmOrder, IsWatched
    <2>2. t[k] \in SlotsOf(order[k])
      BY <2>1
    <2> QED  BY <2>2 DEF SlotsOf
  <1>3. t \in Seq(Slots) /\ Len(t) = Len(order)
    <2>1. t \in [1 .. Len(order) -> Slots]
      BY <1>2
    <2> HIDE DEF t
    <2> QED  BY <1>1, <2>1
  <1> HIDE DEF t
  <1>4. Oldest1st(t, Active)
    <2>1. \A k \in 1 .. Len(t) : t[k] \in Active
      BY <1>2, <1>3 DEF Active
    <2>2. \A i \in Active : \E k \in 1 .. Len(t) : t[k] = i
      <3> TAKE i \in Active
      <3>1. i \in Slots /\ watch[i].active
        BY DEF Active
      <3>2. PICK k \in 1 .. Len(order) : order[k] = watch[i].pin
        BY <3>1 DEF ArmOrder
      <3>3. t[k] = i
        BY <1>2, <3>1, <3>2 DEF WatchTable
      <3> QED  BY <1>3, <3>2, <3>3
    <2>3. \A j, k \in 1 .. Len(t) : j < k => Age(t[j]) > Age(t[k])
      BY <1>2, <1>3 DEF ArmOrder
    <2> QED  BY <1>3, <2>1, <2>2, <2>3 DEF Oldest1st
  <1>5. s = t
    <2>1. Oldest1st(s, Active) /\ Active \in SUBSET Slots
      BY SortedOrders DEF Active
    <2> HIDE DEF s
    <2> QED  BY <1>4, <2>1, OneOrder
  <1>6. CountsOrder = [k \in 1 .. Len(order) |-> watch[t[k]].pin]
    BY <1>3, <1>5 DEF CountsOrder
  <1>7. order = [k \in 1 .. Len(order) |-> order[k]]
    BY <1>1
  <1>8. CountsOrder = order
    BY <1>2, <1>6, <1>7, Zenon
  <1> QED  BY <1>8 DEF CountsInArmOrder

(* A step that leaves the history and the stamps of the watched slots alone*)
(* and unwatches none.                                                     *)
LEMMA SameArmOrder ==
    ASSUME TypeOK, ArmOrder, order' = order, armSeq' = armSeq,
           \A i \in Slots : /\ watch'[i].active = watch[i].active
                            /\ watch'[i].pin = watch[i].pin /\ watch'[i].arm = watch[i].arm
    PROVE  ArmOrder'
  <1>1. \A i \in Slots : Age(i)' = Age(i)
    BY DEF Age
  <1>2. \A i \in Slots : watch'[i].active =>
          2 * Age(i)' < SeqMod /\ \E k \in 1 .. Len(order') : order'[k] = watch'[i].pin
    BY <1>1 DEF ArmOrder
  <1>3. \A k \in 1 .. Len(order') :
          \E i \in Slots : watch'[i].active /\ watch'[i].pin = order'[k]
    BY DEF ArmOrder, IsWatched, SlotsOf
  <1>4. \A j, k \in 1 .. Len(order'), a, b \in Slots :
          /\ watch'[a].active /\ watch'[a].pin = order'[j]
          /\ watch'[b].active /\ watch'[b].pin = order'[k] /\ j < k
          => Age(a)' > Age(b)'
    BY <1>1 DEF ArmOrder
  <1> QED  BY <1>2, <1>3, <1>4 DEF ArmOrder, Slots, IsWatched, SlotsOf

(* What is left of the order, as places of it.                             *)
LEMMA WithoutPlaces ==
    ASSUME TypeOK, OrderDistinct, NEW p \in Pins
    PROVE  /\ \A k \in 1 .. Len(order) : order[k] # p =>
                 \E m \in 1 .. Len(Without(p)) : Without(p)[m] = order[k]
           /\ \A j, k \in 1 .. Len(Without(p)) : j < k =>
                 \E m, n \in 1 .. Len(order) :
                    m < n /\ order[m] = Without(p)[j] /\ order[n] = Without(p)[k]
           /\ \A k \in 1 .. Len(Without(p)) : \E m \in 1 .. Len(order) :
                 order[m] = Without(p)[k]
  <1> DEFINE at == {k \in 1 .. Len(order) : order[k] = p}
             w == Without(p)
  <1>1. order \in Seq(Pins) /\ Len(order) \in Nat
    BY LenProperties DEF TypeOK
  <1>2. CASE at = {}
    <2>1. w = order
      BY <1>2 DEF Without
    <2> HIDE DEF w
    <2> QED  BY <1>1, <2>1 DEF w
  <1>3. CASE at # {}
    <2>1. PICK k \in at : k = CHOOSE j \in at : TRUE
      BY <1>3
    <2>2. k \in 1 .. Len(order) /\ order[k] = p
      BY <2>1
    <2>3. w = Removed(order, k)
      BY <1>3, <2>1 DEF Without, Removed
    <2> HIDE DEF at, w
    <2>4. /\ Removed(order, k) \in Seq(Pins)
          /\ Len(Removed(order, k)) = Len(order) - 1
          /\ \A i \in 1 .. Len(order) - 1 :
                    Removed(order, k)[i] = IF i < k THEN order[i] ELSE order[i + 1]
      BY <1>1, <2>2, OneRemoved
    <2>5. /\ Len(w) = Len(order) - 1
          /\ \A i \in 1 .. Len(w) : w[i] = IF i < k THEN order[i] ELSE order[i + 1]
      BY <2>3, <2>4
    <2>6. \A n \in 1 .. Len(order) : order[n] # p => \E m \in 1 .. Len(w) : w[m] = order[n]
      <3> SUFFICES ASSUME NEW n \in 1 .. Len(order), order[n] # p
                   PROVE  \E m \in 1 .. Len(w) : w[m] = order[n]
        OBVIOUS
      <3>1. n # k
        BY <2>2
      <3>2. CASE n < k
        <4>1. n \in 1 .. Len(w)
          BY <1>1, <2>2, <2>5, <3>2
        <4> QED  BY <2>5, <3>2, <4>1
      <3>3. CASE n > k
        <4>1. n - 1 \in 1 .. Len(w) /\ ~(n - 1 < k) /\ (n - 1) + 1 = n
          BY <1>1, <2>2, <2>5, <3>3
        <4> QED  BY <2>5, <4>1
      <3> QED  BY <1>1, <2>2, <3>1, <3>2, <3>3
    <2> DEFINE g(i) == IF i < k THEN i ELSE i + 1
    <2>7. \A i \in 1 .. Len(w) : g(i) \in 1 .. Len(order) /\ order[g(i)] = w[i]
      BY <1>1, <2>2, <2>5
    <2>8. \A i, j \in 1 .. Len(w) : i < j => g(i) < g(j)
      BY <1>1, <2>2, <2>5
    <2> HIDE DEF g
    <2>9. \A i, j \in 1 .. Len(w) : i < j =>
             \E m, n \in 1 .. Len(order) : m < n /\ order[m] = w[i] /\ order[n] = w[j]
      BY <2>7, <2>8
    <2> QED  BY <2>6, <2>7, <2>9 DEF w
  <1> QED  BY <1>2, <1>3

(* A pin is unwatched.                                                     *)
LEMMA UnwatchArmOrder ==
    ASSUME TypeOK, OrderDistinct, ArmOrder, NEW p \in Pins, Unwatch(p), armSeq' = armSeq
    PROVE  ArmOrder'
  <1> DEFINE w == Without(p)
  <1>1. order' = w
    BY DEF Unwatch
  <1>2. \A i \in Slots : /\ watch'[i].active <=> watch[i].active /\ watch[i].pin # p
                         /\ watch'[i].pin = watch[i].pin /\ watch'[i].arm = watch[i].arm
    <2>1. watch \in [Slots -> Watches]
      BY DEF TypeOK
    <2>2. watch' = [i \in Slots |-> IF i \in SlotsOf(p)
                                   THEN [watch[i] EXCEPT !.active = FALSE] ELSE watch[i]]
      BY DEF Unwatch
    <2> TAKE i \in Slots
    <2>3. watch[i] \in Watches
      BY <2>1
    <2>4. CASE i \in SlotsOf(p)
      <3>1. watch'[i] = [watch[i] EXCEPT !.active = FALSE]
        BY <2>2, <2>4
      <3>2. ~watch'[i].active /\ watch'[i].pin = watch[i].pin /\ watch'[i].arm = watch[i].arm
        BY <2>3, <3>1, DisarmedRecord
      <3> QED  BY <2>4, <3>2 DEF SlotsOf
    <2>5. CASE i \notin SlotsOf(p)
      BY <2>2, <2>5 DEF SlotsOf
    <2> QED  BY <2>4, <2>5
  <1>3. \A i \in Slots : Age(i)' = Age(i)
    BY <1>2 DEF Age
  <1>4. /\ \A k \in 1 .. Len(order) : order[k] # p => \E m \in 1 .. Len(w) : w[m] = order[k]
        /\ \A j, k \in 1 .. Len(w) : j < k => \E m, n \in 1 .. Len(order) :
               m < n /\ order[m] = w[j] /\ order[n] = w[k]
        /\ \A k \in 1 .. Len(w) : \E m \in 1 .. Len(order) : order[m] = w[k]
        /\ \A k \in 1 .. Len(w) : w[k] # p
    BY WithoutPlaces, WithoutIs
  <1> HIDE DEF w
  <1>5. \A i \in Slots : watch'[i].active =>
          2 * Age(i)' < SeqMod /\ \E k \in 1 .. Len(order') : order'[k] = watch'[i].pin
    <2> SUFFICES ASSUME NEW i \in Slots, watch'[i].active
                 PROVE  /\ 2 * Age(i)' < SeqMod
                        /\ \E k \in 1 .. Len(w) : w[k] = watch[i].pin
      BY <1>1, <1>2
    <2>1. watch[i].active /\ watch[i].pin # p
      BY <1>2
    <2>2. 2 * Age(i) < SeqMod
      BY <2>1 DEF ArmOrder
    <2>3. PICK k \in 1 .. Len(order) : order[k] = watch[i].pin
      BY <2>1 DEF ArmOrder
    <2> QED  BY <1>3, <1>4, <2>1, <2>2, <2>3
  <1>6. \A k \in 1 .. Len(order') : \E i \in Slots : watch'[i].active /\ watch'[i].pin = order'[k]
    <2> SUFFICES ASSUME NEW k \in 1 .. Len(w)
                 PROVE  \E i \in Slots : watch'[i].active /\ watch'[i].pin = w[k]
      BY <1>1
    <2>1. PICK m \in 1 .. Len(order) : order[m] = w[k]
      BY <1>4
    <2>2. PICK i \in Slots : watch[i].active /\ watch[i].pin = order[m]
      BY DEF ArmOrder, IsWatched, SlotsOf
    <2> QED  BY <1>2, <1>4, <2>1, <2>2
  <1>7. \A j, k \in 1 .. Len(order'), a, b \in Slots :
          /\ watch'[a].active /\ watch'[a].pin = order'[j]
          /\ watch'[b].active /\ watch'[b].pin = order'[k] /\ j < k
          => Age(a)' > Age(b)'
    <2> SUFFICES ASSUME NEW j \in 1 .. Len(w), NEW k \in 1 .. Len(w),
                        NEW a \in Slots, NEW b \in Slots,
                        watch'[a].active, watch'[a].pin = w[j],
                        watch'[b].active, watch'[b].pin = w[k], j < k
                 PROVE  Age(a)' > Age(b)'
      BY <1>1
    <2>1. PICK m, n \in 1 .. Len(order) : m < n /\ order[m] = w[j] /\ order[n] = w[k]
      BY <1>4
    <2>2. /\ watch[a].active /\ watch[a].pin = order[m]
          /\ watch[b].active /\ watch[b].pin = order[n]
      BY <1>2, <2>1
    <2>3. Age(a) > Age(b)
      BY <2>1, <2>2 DEF ArmOrder
    <2> QED  BY <1>3, <2>3
  <1> QED  BY <1>5, <1>6, <1>7 DEF ArmOrder, IsWatched, SlotsOf, Slots

(* A pin is armed: it is the youngest, and all others are one older.       *)
LEMMA ArmArmOrder ==
    ASSUME TypeOK, WatchTable, OrderDistinct, ArmOrder,
           NEW p \in Pins, NEW e \in EdgeModes, NEW d \in Debounces, ConfigArm(p, e, d)
    PROVE  ArmOrder'
  <1> DEFINE w == Without(p)
  <1>13. PICK c \in Slots : c = ArmedSlot(p)
    BY ArmStep
  <1>1. /\ c \in Slots /\ watch'[c].active /\ watch'[c].pin = p
        /\ \A i \in Slots \ {c} : watch'[i] = watch[i]
        /\ NextSeq \in 0 .. SeqMod - 1
    BY <1>13, ArmStep
  <1>2. /\ IsWatched(p) => watch[c].active /\ watch[c].pin = p
        /\ ~IsWatched(p) => ~watch[c].active
    BY <1>13, ArmedSlotIs DEF ConfigArm
  <1>3. \A i \in Slots : i # c /\ watch[i].active => watch[i].pin # p
    <2>1. CASE IsWatched(p)
      BY <1>1, <1>2, <2>1 DEF WatchTable
    <2>2. CASE ~IsWatched(p)
      BY <2>2 DEF IsWatched, SlotsOf
    <2> QED  BY <2>1, <2>2
  <1>4. /\ order' = Append(w, p) /\ armSeq' = NextSeq
        /\ SeqIsNew(c)
        /\ watch' = [watch EXCEPT ![c] = [@ EXCEPT !.active = TRUE, !.pin = p,
                        !.edge = e, !.debounce = d, !.arm = NextSeq]]
    BY <1>13 DEF ConfigArm, ArmedSlot
  <1>5. watch'[c].arm = NextSeq
    <2>1. watch \in [Slots -> Watches]
      BY DEF TypeOK
    <2> QED  BY <1>1, <1>4, <2>1 DEF Watches
  <1>6. /\ w \in Seq(Pins) /\ Len(w) \in Nat
        /\ \A k \in 1 .. Len(order) : order[k] # p => \E m \in 1 .. Len(w) : w[m] = order[k]
        /\ \A j, k \in 1 .. Len(w) : j < k => \E m, n \in 1 .. Len(order) :
               m < n /\ order[m] = w[j] /\ order[n] = w[k]
        /\ \A k \in 1 .. Len(w) : \E m \in 1 .. Len(order) : order[m] = w[k]
        /\ \A k \in 1 .. Len(w) : w[k] # p
    BY WithoutPlaces, WithoutIs, LenProperties
  <1> HIDE DEF w
  <1>7. PICK o : o = order' /\ Len(o) = Len(w) + 1 /\ o[Len(w) + 1] = p
                 /\ \A k \in 1 .. Len(w) : o[k] = w[k]
    <2> DEFINE x == Append(w, p)
    <2>1. /\ Len(x) = Len(w) + 1 /\ x[Len(w) + 1] = p
          /\ \A k \in 1 .. Len(w) : x[k] = w[k]
      BY <1>6, AppendProperties
    <2> HIDE DEF x
    <2>2. order' = x
      BY <1>4 DEF x
    <2> QED  BY <2>1, <2>2
  <1>8. Age(c)' = 0
    <2>1. armSeq' = NextSeq /\ watch'[c].arm = NextSeq /\ NextSeq \in 0 .. SeqMod - 1
      BY <1>1, <1>4, <1>5
    <2>2. Age(c)' = armSeq' - watch'[c].arm
      BY <2>1 DEF Age
    <2> QED  BY <2>1, <2>2
  <1>9. ASSUME NEW i \in Slots, i # c, watch[i].active
        PROVE  Age(i)' = Age(i) + 1 /\ 2 * (Age(i) + 1) < SeqMod
    <2>1. watch'[i].arm = watch[i].arm /\ armSeq' = NextSeq
          /\ watch[i].arm \in 0 .. SeqMod - 1 /\ armSeq \in 0 .. SeqMod - 1
          /\ Age(i) \in Nat /\ 2 * Age(i) < SeqMod
      <3>1. armSeq \in 0 .. SeqMod - 1
        BY DEF TypeOK
      <3> QED  BY <1>1, <1>4, <1>9, <3>1, AgeType DEF ArmOrder
    <2>2. Age(i)' = IF watch[i].arm <= NextSeq THEN NextSeq - watch[i].arm
                    ELSE NextSeq - watch[i].arm + SeqMod
      BY <2>1 DEF Age
    <2>3. (NextSeq - watch[i].arm) % SeqMod < SeqMod \div 2
      BY <1>9, <1>4 DEF SeqIsNew
    <2>4. Age(i)' = (NextSeq - watch[i].arm) % SeqMod
      <3> DEFINE x == NextSeq - watch[i].arm
      <3>1. x \in Int /\ -SeqMod < x /\ x < SeqMod /\ (x >= 0 <=> watch[i].arm <= NextSeq)
            /\ SeqMod \in Nat \ {0}
        BY <1>1, <2>1
      <3>2. Age(i)' = IF x >= 0 THEN x ELSE x + SeqMod
        BY <2>2, <3>1
      <3> HIDE DEF x
      <3>3. x % SeqMod = IF x >= 0 THEN x ELSE x + SeqMod
        BY <3>1, ModSmall
      <3> QED  BY <3>2, <3>3 DEF x
    <2>5. Age(i)' = Age(i) + 1
      <3>1. CASE armSeq = SeqMod - 1
        BY <2>1, <2>2, <3>1 DEF NextSeq, Age
      <3>2. CASE armSeq # SeqMod - 1
        <4>1. NextSeq = armSeq + 1 /\ SeqMod \in Nat /\ SeqMod >= 2
          BY <3>2 DEF NextSeq
        <4>2. Age(i) = IF watch[i].arm <= armSeq THEN armSeq - watch[i].arm
                       ELSE armSeq - watch[i].arm + SeqMod
          BY DEF Age
        <4> QED  BY <2>1, <2>2, <4>1, <4>2
      <3> QED  BY <3>1, <3>2
    <2>6. \A n \in Nat : n < SeqMod \div 2 => 2 * n < SeqMod
      OBVIOUS
    <2>7. Age(i) + 1 \in Nat /\ Age(i) + 1 < SeqMod \div 2
      BY <2>1, <2>3, <2>4, <2>5
    <2> QED  BY <2>5, <2>6, <2>7
  <1>10. \A i \in Slots : watch'[i].active =>
          2 * Age(i)' < SeqMod /\ \E k \in 1 .. Len(o) : o[k] = watch'[i].pin
    <2> TAKE i \in Slots
    <2> HAVE watch'[i].active
    <2>1. CASE i = c
      <3>1. 2 * Age(i)' < SeqMod
        BY <1>8, <2>1
      <3>2. Len(w) + 1 \in 1 .. Len(o)
        BY <1>6, <1>7
      <3>3. o[Len(w) + 1] = watch'[i].pin
        BY <1>1, <1>7, <2>1
      <3> QED  BY <3>1, <3>2, <3>3
    <2>2. CASE i # c
      <3>1. watch[i].active /\ watch'[i] = watch[i] /\ watch[i].pin # p
        BY <1>1, <1>3, <2>2
      <3>2. PICK k \in 1 .. Len(order) : order[k] = watch[i].pin
        BY <3>1 DEF ArmOrder
      <3>3. PICK m \in 1 .. Len(w) : w[m] = watch[i].pin
        BY <1>6, <3>1, <3>2
      <3>4. m \in 1 .. Len(o) /\ o[m] = watch[i].pin
        BY <1>6, <1>7, <3>3
      <3> QED  BY <1>9, <2>2, <3>1, <3>4
    <2> QED  BY <2>1, <2>2
  <1>11. \A k \in 1 .. Len(o) : \E i \in Slots : watch'[i].active /\ watch'[i].pin = o[k]
    <2> TAKE k \in 1 .. Len(o)
    <2>1. CASE k = Len(w) + 1
      BY <1>1, <1>7, <2>1
    <2>2. CASE k # Len(w) + 1
      <3>1. k \in 1 .. Len(w) /\ o[k] = w[k] /\ w[k] # p
        BY <1>6, <1>7, <2>2
      <3>2. PICK m \in 1 .. Len(order) : order[m] = w[k]
        BY <1>6, <3>1
      <3>3. PICK i \in Slots : watch[i].active /\ watch[i].pin = order[m]
        BY DEF ArmOrder, IsWatched, SlotsOf
      <3>4. i # c
        BY <1>2, <3>1, <3>2, <3>3
      <3> QED  BY <1>1, <3>1, <3>2, <3>3, <3>4
    <2> QED  BY <2>1, <2>2
  <1>12. \A j, k \in 1 .. Len(o), a, b \in Slots :
          /\ watch'[a].active /\ watch'[a].pin = o[j]
          /\ watch'[b].active /\ watch'[b].pin = o[k] /\ j < k
          => Age(a)' > Age(b)'
    <2> SUFFICES ASSUME NEW j \in 1 .. Len(o), NEW k \in 1 .. Len(o),
                        NEW a \in Slots, NEW b \in Slots,
                        watch'[a].active, watch'[a].pin = o[j],
                        watch'[b].active, watch'[b].pin = o[k], j < k
                 PROVE  Age(a)' > Age(b)'
      OBVIOUS
    <2>1. j \in 1 .. Len(w) /\ o[j] = w[j] /\ w[j] # p
      BY <1>6, <1>7
    <2>2. a # c /\ watch[a].active /\ watch[a].pin = w[j]
      BY <1>1, <2>1
    <2>3. Age(a)' = Age(a) + 1 /\ Age(a) \in Nat
      BY <1>9, <2>2, AgeType
    <2>4. CASE k = Len(w) + 1
      <3>1. b = c
        BY <1>1, <1>3, <1>7, <2>4
      <3> QED  BY <1>8, <2>3, <3>1
    <2>5. CASE k # Len(w) + 1
      <3>1. k \in 1 .. Len(w)
        <4>1. Len(w) \in Nat /\ Len(o) = Len(w) + 1 /\ k \in 1 .. Len(o)
          BY <1>6, <1>7
        <4> QED  BY <2>5, <4>1
      <3>4. o[k] = w[k] /\ w[k] # p
        BY <1>6, <1>7, <3>1
      <3>2. b # c /\ watch[b].active /\ watch[b].pin = w[k]
        BY <1>1, <3>1, <3>4
      <3>3. Age(b)' = Age(b) + 1 /\ Age(b) \in Nat
        BY <1>9, <3>2, AgeType
      <3>6. PICK m, n \in 1 .. Len(order) : m < n /\ order[m] = w[j] /\ order[n] = w[k]
        BY <1>6, <2>1, <3>1
      <3>5. Age(a) > Age(b)
        BY <2>2, <3>2, <3>6 DEF ArmOrder
      <3> QED  BY <2>3, <3>3, <3>5
    <2> QED  BY <2>4, <2>5
  <1> QED  BY <1>7, <1>10, <1>11, <1>12 DEF ArmOrder, IsWatched, SlotsOf, Slots

(* Every step.                                                             *)
LEMMA ArmOrderStep ==
    ASSUME TypeOK, WatchTable, OrderDistinct, ArmOrder, Next
    PROVE  ArmOrder'
  <1>1. ASSUME UNCHANGED <<watch, order, armSeq>>
        PROVE  ArmOrder'
    BY <1>1, SameArmOrder
  <1>2. CASE Scan
    BY <1>2, ScanOwns, SameArmOrder
  <1>3. ASSUME NEW p \in Pins, NEW input \in BOOLEAN, PinMode(p, input)
        PROVE  ArmOrder'
    BY <1>1, <1>3, UnwatchArmOrder DEF PinMode
  <1>4. ASSUME NEW p \in Pins, ConfigOff(p)
        PROVE  ArmOrder'
    BY <1>4, UnwatchArmOrder DEF ConfigOff
  <1>5. ASSUME NEW cap, Pop(cap)
        PROVE  ArmOrder'
    BY <1>1, <1>5 DEF Pop, isrVars
  <1>6. CASE Reset
    <2>1. (\A i \in Slots : ~watch'[i].active) /\ order' = <<>>
      BY <1>6, ResetStep DEF Reset
    <2> QED  BY <2>1 DEF ArmOrder, Slots
  <1> QED  BY <1>2, <1>3, <1>4, <1>5, <1>6, ArmArmOrder DEF Next, Handler
-----------------------------------------------------------------------------
(***************************************************************************)
(* The invariant, and what follows from it.                                *)
(***************************************************************************)

(* Before the first step.                                                  *)
LEMMA EventsStart == Init => EventsInv
  <1> SUFFICES ASSUME Init
               PROVE  EventsInv
    OBVIOUS
  <1>1. /\ watch = [i \in Slots |-> Unwatched] /\ ring = <<>> /\ Len(ring) = 0
        /\ order = <<>> /\ Len(order) = 0
        /\ pc = "idle" /\ ~interrupted
    BY DEF Init
  <1>2. TypeOK
    <2>1. Unwatched \in Watches
      BY DEF Unwatched, Watches, Pins
    <2>2. 0 \in Slots /\ 0 \in Pins
      BY DEF Slots, Pins
    <2>3. ring \in Seq(Events) /\ order \in Seq(Pins)
      BY <1>1, EmptySeq
    <2>4. interrupted \in BOOLEAN
      BY DEF Init
    <2> QED  BY <1>1, <2>1, <2>2, <2>3, <2>4 DEF Init, TypeOK
  <1>3. \A i \in Slots : ~watch[i].active /\ watch[i].seen = watch[i].arm
    BY <1>1 DEF Unwatched
  <1>4. WatchTable
    <2>1. {i \in Slots : watch[i].active} = {}
      BY <1>3
    <2> QED  BY <1>3, <2>1, FS_EmptySet DEF WatchTable, Init
  <1>5. HoldsSlot /\ EdgeInHand /\ CountCapped /\ Baselines
    BY <1>1, <1>3 DEF HoldsSlot, EdgeInHand, CountCapped, Baselines, Holding
  <1>6. SeqOrdered /\ NumberedUpTo
    BY <1>1 DEF SeqOrdered, NumberedUpTo
  <1>7. DropsKept
    BY <1>1 DEF Init, DropsKept
  <1>8. OffDiscards /\ OffKept
    <2>1. \A p \in Pins : EventsOf(p) <= mayFind[p]
      <3> TAKE p \in Pins
      <3>1. {k \in 1 .. Len(ring) : ring[k].pin = p} = {}
        BY <1>1
      <3>2. EventsOf(p) = 0 /\ mayFind[p] = EventDepth
        BY <3>1, FS_EmptySet DEF EventsOf, Init
      <3> QED  BY <3>2
    <2>2. OffKept
      BY <1>1, <1>3 DEF OffKept, Holding
    <2> QED  BY <2>1, <2>2, OffDiscardsIs
  <1>9. OrderDistinct /\ ArmOrder
    BY <1>1, <1>3 DEF OrderDistinct, ArmOrder
  <1> QED  BY <1>2, <1>4, <1>5, <1>6, <1>7, <1>8, <1>9 DEF EventsInv

(* Every step: a request between any two steps of a scan, or a step of it. *)
LEMMA EventsStep == EventsInv /\ [Next]_vars => EventsInv'
  <1> SUFFICES ASSUME EventsInv, [Next]_vars
               PROVE  EventsInv'
    OBVIOUS
  <1> USE DEF EventsInv, ScanInv, Numbers, Discards
  <1>1. CASE Handler
    <2>1. WatchTable'
      BY <1>1, RequestTable
    <2>2. TypeOK'
      BY <1>1, <2>1, RequestTypes
    <2>3. ScanInv'
      BY <1>1, RequestKeepsScan
    <2>4. Numbers'
      BY <1>1, RequestKeepsNumbers
    <2>5. Discards'
      BY <1>1, <2>2, RequestDiscards
    <2>6. DropsKept' /\ OrderDistinct' /\ ArmOrder'
      BY <1>1, DropsKeptStep, OrderStep, ArmOrderStep DEF Next
    <2> QED  BY <2>1, <2>2, <2>3, <2>4, <2>5, <2>6
  <1>2. CASE Scan
    <2>1. WatchTable'
      BY <1>2, ScanTable
    <2>2. TypeOK'
      BY <1>2, QuietTypes, SlotTypes, PublishTypes DEF Scan
    <2>3. ScanInv'
      BY <1>2, LeavingScan, StayingScan DEF Scan
    <2>4. Numbers'
      <3>1. CASE Publish
        BY <3>1, PublishKeepsNumbers
      <3>2. CASE ~Publish
        <4>1. UNCHANGED ring
          BY <1>2, <3>2
             DEF Scan, BeginScan, SkipInactive, LatchPin, TakeBaseline, NoEdge, SeeEdge,
                 NotAnyEdge, AbsorbEdge, CountEdge, FindFull, LoadDropped, DroppedSaturated,
                 StoreDropped
        <4> QED  BY <1>2, <4>1, ScanKeepsNumbers
      <3> QED  BY <3>1, <3>2
    <2>5. Discards'
      BY <1>2, ScanDiscards
    <2>6. DropsKept' /\ OrderDistinct' /\ ArmOrder'
      BY <1>2, DropsKeptStep, OrderStep, ArmOrderStep DEF Next
    <2> QED  BY <2>1, <2>2, <2>3, <2>4, <2>5, <2>6
  <1>3. CASE UNCHANGED vars
    <2>1. /\ UNCHANGED <<isInput, nWatched, armSeq, dio, pc, slot, pin, held>>
          /\ UNCHANGED <<watch, ring, dropped, interrupted, order, lost, mayFind>>
      BY <1>3 DEF vars, isrVars, scanVars, history
    <2>2. TypeOK'
      BY <2>1 DEF TypeOK
    <2>3. WatchTable' /\ CountCapped' /\ Baselines' /\ EdgeInHand'
      BY <2>1 DEF WatchTable, CountCapped, Baselines, Scanned, EdgeInHand
    <2>4. HoldsSlot' /\ DropsKept' /\ OrderDistinct'
      BY <2>1 DEF HoldsSlot, Holding, DropsKept, OrderDistinct
    <2>5. SeqOrdered' /\ NumberedUpTo'
      BY <2>1 DEF SeqOrdered, NumberedUpTo
    <2>7. ArmOrder'
      BY <2>1, SameArmOrder
    <2>6. OffDiscards' /\ OffKept'
      BY <2>1 DEF OffDiscards, OffKept, EventsOf, Holding
    <2> QED  BY <2>2, <2>3, <2>4, <2>5, <2>6, <2>7
  <1> QED  BY <1>1, <1>2, <1>3 DEF Next

(* The inductive invariant of the pin events.                              *)
THEOREM EventsInvariant == Spec => []EventsInv
  BY EventsStart, EventsStep, PTL DEF Spec

(* Every variable keeps its type, and the ring is never overfull.          *)
THEOREM EventsTypes == Spec => []TypeOK
  <1>1. EventsInv => TypeOK
    BY DEF EventsInv
  <1> QED  BY <1>1, EventsInvariant, PTL

(* The watch table agrees with itself and with the modes of the pins,      *)
(* whatever requests come: find_free_event_slot() finds a slot whenever    *)
(* the count says there is one, and no pin is watched twice.               *)
THEOREM WatchTableHolds == Spec => []WatchTable
  <1>1. EventsInv => WatchTable
    BY DEF EventsInv
  <1> QED  BY <1>1, EventsInvariant, PTL

(* After each scan a slot compares with the level its own pin had in it,   *)
(* though requests disarmed and armed slots while it ran.                  *)
THEOREM BaselinesTrack == Spec => []BaselineTracks
  <1>1. EventsInv => BaselineTracks
    BY DEF EventsInv, Baselines, Scanned, BaselineTracks
  <1> QED  BY <1>1, EventsInvariant, PTL

(* The edges of one arming are numbered in the order they are queued.      *)
THEOREM EdgesNumberedInOrder == Spec => []SeqOrdered
  <1>1. EventsInv => SeqOrdered
    BY DEF EventsInv
  <1> QED  BY <1>1, EventsInvariant, PTL

(* No drop goes unreported, although _event_dropped has two writers.       *)
THEOREM NoDropUnreported == Spec => []DropsAreReported
  <1>1. EventsInv => DropsAreReported
    BY DEF EventsInv, DropsKept, DropsAreReported
  <1> QED  BY <1>1, EventsInvariant, PTL

(* After an OFF at most the edge that the scan had in hand is found.       *)
THEOREM OffLeavesAtMostOne == Spec => []OffDiscards
  <1>1. EventsInv => OffDiscards
    BY DEF EventsInv
  <1> QED  BY <1>1, EventsInvariant, PTL

(* EVENT_COUNTS lists the pins in the order they were armed, whatever slots*)
(* they are in and wherever arm_seq wrapped, as long as no two of them are *)
(* half a turn of arm_seq apart (usbio_protocol.h:508, UsbIo.cpp:562).     *)
THEOREM CountsFollowArming == Spec => []CountsInArmOrder
  <1>1. EventsInv => CountsInArmOrder
    BY CountsOrdered DEF EventsInv
  <1> QED  BY <1>1, EventsInvariant, PTL
=============================================================================
