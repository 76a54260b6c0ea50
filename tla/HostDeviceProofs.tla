--------------------------- MODULE HostDeviceProofs ---------------------------
(***************************************************************************)
(* What holds of Device for every number of threads, every sequence of     *)
(* calls they make and any number of lost transfers: the stream mutex and  *)
(* the types, what a refused request becomes, and what a stream samples.   *)
(***************************************************************************)
EXTENDS HostDevice, FiniteSetTheorems, SequenceTheorems, WellFoundedInduction, TLAPS

-----------------------------------------------------------------------------
(***************************************************************************)
(* Lists of pins.                                                          *)
(***************************************************************************)

(* The first index of s that has a property is the one the loops find.     *)
(* A set of natural numbers that is not empty has a least element.         *)
LEMMA Least ==
    ASSUME NEW S \in SUBSET Nat, S # {}
    PROVE  \E n \in S : \A m \in S : n <= m
  <1> DEFINE R == OpToRel(<, Nat)
  <1>1. IsWellFoundedOn(R, Nat)
    BY NatLessThanWellFounded
  <1>2. \A x, y \in Nat : x < y => <<x, y>> \in R
    BY DEF OpToRel
  <1> HIDE DEF R
  <1>3. PICK n \in S : \A m \in S : ~ (<<m, n>> \in R)
    BY <1>1, WFMin
  <1>4. \A m \in S : n <= m
    <2> TAKE m \in S
    <2>1. m \in Nat /\ n \in Nat
      OBVIOUS
    <2>2. ~ (m < n)
      BY <1>2, <1>3, <2>1
    <2> QED  BY <2>1, <2>2
  <1> QED  BY <1>4

(* A sequence without its k-th element.                                    *)
Removed(s, k) == SubSeq(s, 1, k - 1) \o SubSeq(s, k + 1, Len(s))

(* The elements after it move up by one.                                   *)
LEMMA OneRemoved ==
    ASSUME NEW S, NEW s \in Seq(S), NEW k \in 1 .. Len(s)
    PROVE  /\ Removed(s, k) \in Seq(S) /\ Len(Removed(s, k)) = Len(s) - 1
           /\ \A i \in 1 .. Len(s) - 1 :
                  Removed(s, k)[i] = IF i < k THEN s[i] ELSE s[i + 1]
  <1>1. Len(s) \in Nat /\ \A j \in 1 .. Len(s) : s[j] \in S
    BY LenProperties, ElementOfSeq
  <1>2. PICK a \in Seq(S) : /\ a = SubSeq(s, 1, k - 1) /\ Len(a) = k - 1
                            /\ \A i \in 1 .. k - 1 : a[i] = s[i]
    <2> DEFINE x == SubSeq(s, 1, k - 1)
    <2>1. 1 \in Int /\ k - 1 \in Int /\ \A i \in 1 .. k - 1 : s[i] \in S
      BY <1>1
    <2>2. /\ x \in Seq(S) /\ Len(x) = IF 1 <= k - 1 THEN k - 1 - 1 + 1 ELSE 0
          /\ \A i \in 1 .. k - 1 - 1 + 1 : x[i] = s[1 + i - 1]
      BY <2>1, SubSeqProperties
    <2> HIDE DEF x
    <2>3. Len(x) = k - 1 /\ \A i \in 1 .. k - 1 : x[i] = s[i]
      BY <1>1, <2>2
    <2> QED  BY <2>2, <2>3 DEF x
  <1>3. PICK b \in Seq(S) : /\ b = SubSeq(s, k + 1, Len(s)) /\ Len(b) = Len(s) - k
                            /\ \A i \in 1 .. Len(s) - k : b[i] = s[k + i]
    <2> DEFINE x == SubSeq(s, k + 1, Len(s))
    <2>1. /\ k + 1 \in Int /\ Len(s) \in Int
          /\ \A i \in k + 1 .. Len(s) : s[i] \in S
      BY <1>1
    <2>2. /\ x \in Seq(S)
          /\ Len(x) = IF k + 1 <= Len(s) THEN Len(s) - (k + 1) + 1 ELSE 0
          /\ \A i \in 1 .. Len(s) - (k + 1) + 1 : x[i] = s[(k + 1) + i - 1]
      BY <2>1, SubSeqProperties
    <2> HIDE DEF x
    <2>3. Len(x) = Len(s) - k /\ \A i \in 1 .. Len(s) - k : x[i] = s[k + i]
      BY <1>1, <2>2
    <2> QED  BY <2>2, <2>3 DEF x
  <1> DEFINE w == a \o b
  <1>4. /\ w \in Seq(S) /\ Len(w) = Len(a) + Len(b)
        /\ \A i \in 1 .. Len(a) + Len(b) :
               w[i] = IF i <= Len(a) THEN a[i] ELSE b[i - Len(a)]
    BY ConcatProperties
  <1>8. w = Removed(s, k)
    BY <1>2, <1>3 DEF Removed
  <1> HIDE DEF w
  <1>7. Len(a) = k - 1 /\ Len(b) = Len(s) - k
    BY <1>2, <1>3
  <1>5. Len(w) = Len(s) - 1
    <2>1. Len(w) = Len(a) + Len(b)
      BY <1>4
    <2> QED  BY <1>1, <1>7, <2>1
  <1>6. \A i \in 1 .. Len(s) - 1 : w[i] = IF i < k THEN s[i] ELSE s[i + 1]
    <2> TAKE i \in 1 .. Len(s) - 1
    <2>1. CASE i < k
      <3>1. i \in 1 .. Len(a) + Len(b) /\ i <= Len(a) /\ i \in 1 .. k - 1
        BY <1>1, <1>7, <2>1
      <3> QED  BY <1>2, <1>4, <2>1, <3>1
    <2>2. CASE ~(i < k)
      <3>1. i - (k - 1) \in 1 .. Len(s) - k /\ k + (i - (k - 1)) = i + 1
        BY <1>1, <2>2
      <3>2. i \in 1 .. Len(a) + Len(b) /\ ~(i <= Len(a)) /\ Len(a) = k - 1
        BY <1>1, <1>7, <2>2
      <3>3. w[i] = b[i - (k - 1)]
        BY <1>4, <3>2
      <3>4. b[i - (k - 1)] = s[k + (i - (k - 1))]
        BY <1>3, <3>1
      <3> QED  BY <2>2, <3>1, <3>3, <3>4
    <2> QED  BY <2>1, <2>2
  <1> QED  BY <1>4, <1>5, <1>6, <1>8

LEMMA FirstIndex ==
    ASSUME NEW n \in Nat, NEW I \in SUBSET (1 .. n), I # {}
    PROVE  Min(I) \in I
  <1>1. \E k \in I : \A m \in I : k <= m
    BY Least
  <1> QED  BY <1>1 DEF Min

(* What a loop has left: its next pin is one that is not asked for.        *)
LEMMA OthersLeft ==
    ASSUME NEW s \in Seq(Pins), NEW c
    PROVE  /\ Others(s, c) \in Seq(Pins)
           /\ Others(s, c) # <<>> => Head(Others(s, c)) \notin StartPins(c)
  <1> DEFINE I == {k \in 1 .. Len(s) : s[k] \notin StartPins(c)}
             i == SelectInSeq(s, LAMBDA pin : pin \notin StartPins(c))
  <1>1. Len(s) \in Nat /\ \A k \in 1 .. Len(s) : s[k] \in Pins
    BY ElementOfSeq
  <1>2. i = IF I # {} THEN Min(I) ELSE 0
    BY DEF SelectInSeq
  <1>3. I # {} => Min(I) \in I
    BY <1>1, FirstIndex
  <1>4. Others(s, c) = IF i = 0 THEN <<>> ELSE SubSeq(s, i, Len(s))
    BY DEF Others
  <1>5. i = 0 \/ i \in I
    BY <1>2, <1>3
  <1> HIDE DEF i
  <1>6. CASE i = 0
    BY <1>4, <1>6
  <1>7. CASE i # 0
    <2>1. i \in 1 .. Len(s) /\ s[i] \notin StartPins(c)
      BY <1>5, <1>7
    <2> DEFINE left == SubSeq(s, i, Len(s))
    <2>2. i \in Int /\ Len(s) \in Int /\ \A k \in i .. Len(s) : s[k] \in Pins
      BY <1>1, <2>1
    <2>3. left \in Seq(Pins) /\ Len(left) = Len(s) - i + 1
          /\ \A k \in 1 .. Len(s) - i + 1 : left[k] = s[i + k - 1]
      BY <1>1, <2>1, <2>2, SubSeqProperties
    <2>4. Others(s, c) = left
      BY <1>4, <1>7
    <2> HIDE DEF left
    <2>5. 1 \in 1 .. Len(s) - i + 1 /\ i + 1 - 1 = i
      BY <1>1, <2>1
    <2>6. left[1] = s[i]
      BY <2>3, <2>5
    <2>7. Len(left) # 0 => Head(left) = left[1]
      BY <2>3, EmptySeq
    <2> QED  BY <1>1, <2>1, <2>3, <2>4, <2>6, <2>7
  <1> QED  BY <1>6, <1>7

(* Taking a pin off a list that names each pin once.                       *)
LEMMA RemovePin ==
    ASSUME NEW s \in Seq(Pins), IsInjective(s), NEW e
    PROVE  /\ RemoveFirst(s, e) \in Seq(Pins) /\ IsInjective(RemoveFirst(s, e))
           /\ Len(RemoveFirst(s, e)) <= Len(s)
           /\ Range(RemoveFirst(s, e)) = Range(s) \ {e}
  <1> DEFINE I == {k \in 1 .. Len(s) : s[k] = e}
             i == SelectInSeq(s, LAMBDA v : v = e)
             n == Len(s)
             a == SubSeq(s, 1, i - 1)
             b == SubSeq(s, i + 1, n)
  <1>1. n \in Nat /\ DOMAIN s = 1 .. n /\ \A k \in 1 .. n : s[k] \in Pins
    BY ElementOfSeq, LenProperties
  <1>2. Range(s) = {s[k] : k \in 1 .. n}
    BY <1>1 DEF Range
  <1>3. CASE I = {}
    <2>1. RemoveFirst(s, e) = s
      BY <1>3 DEF RemoveFirst
    <2>2. e \notin Range(s)
      BY <1>2, <1>3
    <2> QED  BY <1>1, <2>1, <2>2
  <1>4. CASE I # {}
    <2>1. i = Min(I)
      BY <1>4 DEF SelectInSeq
    <2>2. Min(I) \in I
      BY <1>1, <1>4, FirstIndex
    <2>3. i \in 1 .. n /\ s[i] = e
      BY <2>1, <2>2
    <2> DEFINE w == Removed(s, i)
    <2>4. RemoveFirst(s, e) = w
      BY <1>4 DEF RemoveFirst, RemoveAt, Removed
    <2>5. /\ w \in Seq(Pins) /\ Len(w) = n - 1
          /\ \A k \in 1 .. n - 1 : w[k] = IF k < i THEN s[k] ELSE s[k + 1]
      BY <2>3, OneRemoved
    <2>6. DOMAIN w = 1 .. n - 1 /\ n - 1 \in Nat
      BY <1>1, <2>3, <2>5, LenProperties
    <2> HIDE DEF i, w, n
    <2>7. \A k \in 1 .. n : \A j \in 1 .. n : s[k] = s[j] => k = j
      BY <1>1 DEF IsInjective
    <2>8. \A k \in 1 .. n - 1 : \E j \in 1 .. n \ {i} :
              w[k] = s[j] /\ (k < i => j = k) /\ (k >= i => j = k + 1)
      <3> TAKE k \in 1 .. n - 1
      <3>1. k \in 1 .. n /\ k + 1 \in 1 .. n
        BY <1>1
      <3>2. CASE k < i
        BY <2>3, <2>5, <3>1, <3>2
      <3>3. CASE ~(k < i)
        BY <2>3, <2>5, <3>1, <3>3
      <3> QED  BY <3>2, <3>3
    <2>9. IsInjective(w)
      <3> SUFFICES ASSUME NEW k \in 1 .. n - 1, NEW j \in 1 .. n - 1, w[k] = w[j]
                   PROVE  k = j
        BY <2>6 DEF IsInjective
      <3>1. PICK x \in 1 .. n \ {i} :
                w[k] = s[x] /\ (k < i => x = k) /\ (k >= i => x = k + 1)
        BY <2>8
      <3>2. PICK y \in 1 .. n \ {i} :
                w[j] = s[y] /\ (j < i => y = j) /\ (j >= i => y = j + 1)
        BY <2>8
      <3>3. x = y
        BY <2>7, <3>1, <3>2
      <3> QED  BY <1>1, <2>3, <3>1, <3>2, <3>3
    <2>10. \A j \in 1 .. n \ {i} : \E k \in 1 .. n - 1 : w[k] = s[j]
      <3> TAKE j \in 1 .. n \ {i}
      <3>1. CASE j < i
        BY <1>1, <2>3, <2>5, <3>1
      <3>2. CASE ~(j < i)
        <4>1. j - 1 \in 1 .. n - 1 /\ ~(j - 1 < i) /\ (j - 1) + 1 = j
          BY <1>1, <2>3, <3>2
        <4> QED  BY <2>5, <4>1
      <3> QED  BY <3>1, <3>2
    <2>11. Range(w) = {w[k] : k \in 1 .. n - 1}
      BY <2>6 DEF Range
    <2>12. Range(w) = Range(s) \ {e}
      <3>1. ASSUME NEW v \in Range(w)
            PROVE  v \in Range(s) \ {e}
        <4>1. PICK k \in 1 .. n - 1 : v = w[k]
          BY <2>11
        <4>2. PICK j \in 1 .. n \ {i} : v = s[j]
          BY <2>8, <4>1
        <4> QED  BY <1>2, <2>3, <2>7, <4>2
      <3>2. ASSUME NEW v \in Range(s) \ {e}
            PROVE  v \in Range(w)
        <4>1. PICK j \in 1 .. n : v = s[j]
          BY <1>2
        <4>2. j # i
          BY <2>3, <4>1
        <4> QED  BY <2>10, <2>11, <4>1, <4>2
      <3> QED  BY <3>1, <3>2
    <2>13. Len(w) <= n
      BY <1>1, <2>5
    <2> QED  BY <2>4, <2>5, <2>9, <2>12, <2>13 DEF n
  <1> QED  BY <1>3, <1>4

(* Putting a pin at the end of such a list.                                *)
LEMMA AppendPin ==
    ASSUME NEW s \in Seq(Pins), IsInjective(s), NEW e \in Pins, ~Contains(s, e)
    PROVE  /\ Append(s, e) \in Seq(Pins) /\ IsInjective(Append(s, e))
           /\ Len(Append(s, e)) = Len(s) + 1
           /\ Range(Append(s, e)) = Range(s) \cup {e}
  <1> DEFINE n == Len(s)
             w == Append(s, e)
  <1>1. n \in Nat /\ DOMAIN s = 1 .. n /\ \A k \in 1 .. n : s[k] # e
    BY LenProperties DEF Contains
  <1>2. /\ w \in Seq(Pins) /\ Len(w) = n + 1 /\ w[n + 1] = e
        /\ \A k \in 1 .. n : w[k] = s[k]
    BY AppendProperties
  <1> HIDE DEF w
  <1>3. DOMAIN w = 1 .. n + 1
    BY <1>2, LenProperties
  <1> HIDE DEF n
  <1>4. \A k \in 1 .. n + 1 : k \in 1 .. n \/ k = n + 1
    BY <1>1
  <1>5. IsInjective(w)
    <2> SUFFICES ASSUME NEW k \in 1 .. n + 1, NEW j \in 1 .. n + 1, w[k] = w[j]
                 PROVE  k = j
      BY <1>3 DEF IsInjective
    <2>1. \A x \in 1 .. n : \A y \in 1 .. n : s[x] = s[y] => x = y
      BY <1>1 DEF IsInjective
    <2> QED  BY <1>1, <1>2, <1>4, <2>1
  <1>6. Range(w) = {w[k] : k \in 1 .. n + 1} /\ Range(s) = {s[k] : k \in 1 .. n}
    BY <1>1, <1>3 DEF Range
  <1>7. Range(w) = Range(s) \cup {e}
    <2>1. 1 .. n + 1 = 1 .. n \cup {n + 1}
      BY <1>1
    <2> QED  BY <1>2, <1>6, <2>1
  <1> QED  BY <1>2, <1>5, <1>7 DEF n, w

(* It names as many pins as it is long.                                    *)
LEMMA LenIsCount ==
    ASSUME NEW s \in Seq(Pins), IsInjective(s)
    PROVE  Len(s) = Cardinality(Range(s)) /\ IsFiniteSet(Range(s))
  <1> DEFINE I == 1 .. Len(s)
  <1>1. Len(s) \in Nat /\ DOMAIN s = I /\ s \in [I -> Range(s)]
    BY LenProperties DEF Range
  <1>2. IsFiniteSet(I) /\ Cardinality(I) = Len(s)
    BY <1>1, FS_Interval
  <1>3. s \in Bijection(I, Range(s))
    BY <1>1 DEF Bijection, Injection, Surjection, Range
  <1> HIDE DEF I
  <1>4. ExistsBijection(I, Range(s))
    BY <1>3 DEF ExistsBijection
  <1> QED  BY <1>2, <1>4, FS_Bijection

(* The first pin of a list and the others.                                 *)
LEMMA HeadAndTail ==
    ASSUME NEW s \in Seq(Pins), s # <<>>
    PROVE  /\ Head(s) \in Pins /\ Tail(s) \in Seq(Pins)
           /\ Range(s) = Range(Tail(s)) \cup {Head(s)}
           /\ Len(s) \in Nat \ {0}
           /\ Len(s) > 1 <=> Tail(s) # <<>>
  <1> DEFINE n == Len(s)
             w == Tail(s)
             h == Head(s)
  <1>1. n \in Nat \ {0} /\ DOMAIN s = 1 .. n
    BY LenProperties, EmptySeq
  <1>2. /\ h \in Pins /\ w \in Seq(Pins) /\ Len(w) = n - 1
        /\ \A i \in 1 .. Len(w) : w[i] = s[i + 1]
    BY HeadTailProperties
  <1>3. h = s[1]
    OBVIOUS
  <1> HIDE DEF w, h
  <1>4. DOMAIN w = 1 .. n - 1
    BY <1>2, LenProperties
  <1>5. w # <<>> <=> Len(w) # 0
    BY <1>2, EmptySeq
  <1> HIDE DEF n
  <1>6. Range(s) = {s[k] : k \in 1 .. n} /\ Range(w) = {w[k] : k \in 1 .. n - 1}
    BY <1>1, <1>4 DEF Range
  <1>7. ASSUME NEW v \in Range(s)
        PROVE  v \in Range(w) \cup {h}
    <2>1. PICK k \in 1 .. n : v = s[k]
      BY <1>6
    <2>2. CASE k = 1
      BY <1>3, <2>1, <2>2
    <2>3. CASE k # 1
      <3>1. k - 1 \in 1 .. n - 1 /\ (k - 1) + 1 = k
        BY <1>1, <2>3
      <3> QED  BY <1>2, <1>6, <2>1, <3>1
    <2> QED  BY <2>2, <2>3
  <1>8. ASSUME NEW v \in Range(w) \cup {h}
        PROVE  v \in Range(s)
    <2>1. CASE v = h
      BY <1>1, <1>3, <1>6, <2>1
    <2>2. CASE v \in Range(w)
      <3>1. PICK k \in 1 .. n - 1 : v = w[k]
        BY <1>6, <2>2
      <3>2. k + 1 \in 1 .. n
        BY <1>1
      <3> QED  BY <1>2, <1>6, <3>1, <3>2
    <2> QED  BY <2>1, <2>2
  <1>9. n > 1 <=> w # <<>>
    BY <1>1, <1>2, <1>5
  <1> QED  BY <1>1, <1>2, <1>7, <1>8, <1>9 DEF n, w, h

USE DeviceAssumption
-----------------------------------------------------------------------------
(***************************************************************************)
(* The invariant.                                                          *)
(***************************************************************************)

(* What a process remembers between two transfers.                         *)
AnyCall == Calls \cup {[op |-> "none"], [op |-> "STOP"]}
Frame ==
    [stage : Stages, call : AnyCall, todo : Seq(Pins), added : Seq(Pins), tries : Nat,
     stall : BOOLEAN, result : Outcomes \cup {"none"}]
Starting == {"lock", "leftover", "halt", "drop", "select", "count", "clear", "recount",
             "time", "start", "undo"}
Orders == {"PIN_MODE", "DIO_WRITE", "PWM_WRITE", "DAC_WRITE", "RESET"}

(* The frame of a call, given the selection of the device.  While it is    *)
(* selecting, its start_stream() has added every pin it is past, or a      *)
(* RESET of another thread has left nothing but what it added since; once  *)
(* the count is right the two are one, unless a RESET came later.          *)
Fits(f, sel) ==
    LET asked == StartPins(f.call) IN
    /\ f.stage = "out" => f.call \in Calls /\ f.call.op \in Orders
    /\ f.stage \in Starting =>
          /\ f.call \in Calls /\ f.call.op = "START"
          /\ f.call.pins \in Seq(Pins) /\ Cardinality(asked) = Len(f.call.pins)
          /\ f.call.pins # <<>>
    /\ f.stage \in {"drop", "select", "clear", "undo"} => f.todo # <<>>
    /\ f.stage \in {"drop", "clear"} => Head(f.todo) \notin asked
    /\ f.stage = "select" =>
          /\ Range(f.todo) \subseteq asked
          /\ asked \subseteq Range(sel) \cup Range(f.todo) \/ Range(sel) \subseteq asked
    /\ f.stage \in {"count", "clear", "recount"} =>
          asked \subseteq Range(sel) \/ Range(sel) \subseteq asked
    /\ f.stage \in {"time", "start"} => Range(sel) = asked \/ sel = <<>>

(* The device: its tables are as large as they are.                        *)
Board == [mode : [Pins -> AnyMode], sel : Seq(Pins), running : BOOLEAN, err : Statuses,
          queue : Seq(Procs), resetting : BOOLEAN]
Sound(d) ==
    /\ d \in Board /\ IsInjective(d.sel)
    /\ Len(d.sel) <= MaxChannels /\ Len(d.queue) <= QueueDepth

ThreadsInv == th \in [Procs -> Frame] /\ \A p \in Procs : Fits(th[p], dev.sel)
MutexInv ==
    /\ lock \in Procs \cup {NoOne}
    /\ \A p \in Procs : th[p].stage \in LockedStages <=> lock = p
OwnInv ==
    /\ selected \in Seq(Pins) /\ streaming \in BOOLEAN /\ faults \in 0 .. MaxFaults
    /\ handle \in [Threads -> {"none", "running", "stopping"}]

DeviceInv == Sound(dev) /\ ThreadsInv /\ MutexInv /\ OwnInv
-----------------------------------------------------------------------------
(***************************************************************************)
(* Requests and transfers.                                                 *)
(***************************************************************************)

(* A status is an outcome, never the one of success.                       *)
LEMMA ErrorsAreOutcomes ==
    ASSUME NEW s
    PROVE  StatusError(s) \in Outcomes \ {"Ok"}
  BY DEF StatusError, Outcomes

(* handle_setup() records one of the statuses.                             *)
LEMMA RefusalType ==
    ASSUME NEW d, NEW q, q.op \in Orders \cup {"STREAM_SELECT", "STREAM_START", "STREAM_STOP"}
    PROVE  Refusal(d, q) \in Statuses
  BY DEF Refusal, Statuses, Orders, Writes

(* What an accepted request changes.                                       *)
LEMMA EffectSound ==
    ASSUME NEW d, Sound(d), NEW q, q.by \in Procs, q.op = "PIN_MODE" => q.value \in Nat,
           q.op = "STREAM_SELECT" => q.value \in {0, 1},
           q.op \in Orders \cup {"STREAM_SELECT", "STREAM_START", "STREAM_STOP"},
           Refusal(d, q) = "OK"
    PROVE  /\ Sound(Effect(d, q))
           /\ q.op \in Orders => Effect(d, q).sel \in {d.sel, <<>>}
           /\ q.op \in {"STREAM_START", "STREAM_STOP"} => Effect(d, q).sel = d.sel
           /\ q.op = "STREAM_START" => Effect(d, q).running /\ d.sel # <<>>
           /\ q.op = "STREAM_SELECT" =>
                 Range(Effect(d, q).sel) = IF q.value = 0 THEN Range(d.sel) \ {q.pin}
                                           ELSE Range(d.sel) \cup {q.pin}
  <1> DEFINE e == Effect(d, q)
  <1>0. /\ d \in Board /\ IsInjective(d.sel) /\ Len(d.sel) \in Nat /\ Len(d.queue) \in Nat
        /\ Len(d.sel) <= MaxChannels /\ Len(d.queue) <= QueueDepth
        /\ d.sel \in Seq(Pins) /\ d.queue \in Seq(Procs)
    BY LenProperties DEF Sound, Board
  <1>6. Append(d.queue, q.by) \in Seq(Procs) /\ Len(Append(d.queue, q.by)) = Len(d.queue) + 1
    <2>1. ASSUME NEW w \in Seq(Procs), NEW b \in Procs
          PROVE  Append(w, b) \in Seq(Procs) /\ Len(Append(w, b)) = Len(w) + 1
      BY AppendProperties
    <2> QED  BY <1>0, <2>1
  <1>1. CASE q.op = "PIN_MODE"
    <2>1. /\ q.pin \in Pins /\ ~(q.value >= MODE_COUNT) /\ Len(d.queue) # QueueDepth
      BY <1>1 DEF Refusal, Full, Writes
    <2>2. e = [d EXCEPT !.mode[q.pin] = q.value, !.queue = Append(@, q.by),
                        !.running = @ /\ ~Contains(d.sel, q.pin)]
      BY <1>1 DEF Effect, Writes
    <2>3. q.value \in AnyMode
      BY <1>1, <2>1, SMTT(30) DEF AnyMode, Modes, MODE_COUNT
    <2>4. PICK m \in [Pins -> AnyMode] : m = [d.mode EXCEPT ![q.pin] = q.value]
      BY <1>0, <2>3 DEF Board
    <2>5. PICK w \in Seq(Procs) : w = Append(d.queue, q.by) /\ Len(w) = Len(d.queue) + 1
      BY <1>6
    <2>6. PICK r \in BOOLEAN : r = (d.running /\ ~Contains(d.sel, q.pin))
      OBVIOUS
    <2>7. e = [d EXCEPT !.mode = m, !.queue = w, !.running = r]
      BY <2>2, <2>4, <2>5, <2>6
    <2>8. e \in Board /\ e.sel = d.sel /\ e.queue = w
      BY <1>0, <2>7 DEF Board
    <2>9. Len(w) <= QueueDepth
      BY <1>0, <2>1, <2>5
    <2> QED  BY <1>0, <1>1, <2>8, <2>9 DEF Sound
  <1>2. CASE q.op \in Writes
    <2>1. Len(d.queue) # QueueDepth
      BY <1>2 DEF Refusal, Full, Writes
    <2>2. PICK w \in Seq(Procs) : w = Append(d.queue, q.by) /\ Len(w) = Len(d.queue) + 1
      BY <1>6
    <2>3. e = [d EXCEPT !.queue = w]
      BY <1>2, <2>2 DEF Effect, Writes
    <2>4. e \in Board /\ e.sel = d.sel /\ e.queue = w
      BY <1>0, <2>3 DEF Board
    <2>5. Len(w) <= QueueDepth
      BY <1>0, <2>1, <2>2
    <2> QED  BY <1>0, <1>2, <2>4, <2>5 DEF Sound, Writes
  <1>3. CASE q.op = "RESET"
    <2>1. PICK m \in [Pins -> AnyMode] : m = [p \in Pins |-> ResetMode(Caps[p])]
      <3>1. \A p \in Pins : ResetMode(Caps[p]) \in AnyMode
        BY DEF ResetMode, AnyMode, Modes, MODE_COUNT, INPUT
      <3> QED  BY <3>1
    <2>2. e = [d EXCEPT !.mode = m, !.sel = <<>>, !.running = FALSE, !.resetting = TRUE]
      BY <1>3, <2>1 DEF Effect, Writes
    <2>5. PICK s \in Seq(Pins) : s = <<>>
      BY EmptySeq
    <2>6. e = [d EXCEPT !.mode = m, !.sel = s, !.running = FALSE, !.resetting = TRUE]
      BY <2>2, <2>5
    <2>3. e \in Board /\ e.sel = s /\ e.queue = d.queue
      BY <1>0, <2>6 DEF Board
    <2>4. IsInjective(<<>>) /\ Len(<<>>) = 0
      BY DEF IsInjective
    <2> QED  BY <1>0, <1>3, <2>3, <2>4, <2>5 DEF Sound
  <1>4. CASE q.op = "STREAM_SELECT"
    <2>1. PICK s : s = IF q.value = 0 THEN RemoveFirst(d.sel, q.pin)
                       ELSE IF Contains(d.sel, q.pin) THEN d.sel ELSE Append(d.sel, q.pin)
      OBVIOUS
    <2>2. e = [d EXCEPT !.sel = s]
      BY <1>4, <2>1 DEF Effect, Writes
    <2>3. q.pin \in Pins
      BY <1>4 DEF Refusal, Writes
    <2>4. /\ s \in Seq(Pins) /\ IsInjective(s) /\ Len(s) <= MaxChannels
          /\ Range(s) = IF q.value = 0 THEN Range(d.sel) \ {q.pin}
                        ELSE Range(d.sel) \cup {q.pin}
      <3>1. CASE q.value = 0
        <4>1. s = RemoveFirst(d.sel, q.pin)
          BY <2>1, <3>1
        <4>2. Len(s) \in Nat /\ Len(s) <= Len(d.sel)
          BY <1>0, <4>1, RemovePin, LenProperties
        <4> QED  BY <1>0, <3>1, <4>1, <4>2, RemovePin
      <3>2. CASE q.value # 0 /\ Contains(d.sel, q.pin)
        <4>1. q.pin \in Range(d.sel)
          BY <1>0, <3>2, LenProperties DEF Contains, Range
        <4> QED  BY <1>0, <2>1, <3>2, <4>1
      <3>3. CASE q.value # 0 /\ ~Contains(d.sel, q.pin)
        <4>1. s = Append(d.sel, q.pin)
          BY <2>1, <3>3
        <4>2. Len(s) = Len(d.sel) + 1
          BY <1>0, <2>3, <3>3, <4>1, AppendPin
        <4>3. ~(Len(d.sel) >= MaxChannels)
          BY <1>4, <3>3 DEF Refusal, Writes
        <4> QED  BY <1>0, <2>3, <3>3, <4>1, <4>2, <4>3, AppendPin
      <3> QED  BY <3>1, <3>2, <3>3
    <2>5. e \in Board /\ e.sel = s /\ e.queue = d.queue
      BY <1>0, <2>2, <2>4 DEF Board
    <2> QED  BY <1>0, <1>4, <2>4, <2>5 DEF Sound, Orders
  <1>5. CASE q.op \in {"STREAM_START", "STREAM_STOP"}
    <2>1. PICK r \in BOOLEAN : r = (q.op = "STREAM_START")
      OBVIOUS
    <2>2. e = [d EXCEPT !.running = r]
      BY <1>5, <2>1 DEF Effect, Writes
    <2>3. e \in Board /\ e.sel = d.sel /\ e.queue = d.queue /\ e.running = r
      BY <1>0, <2>2 DEF Board
    <2>4. q.op = "STREAM_START" => d.sel # <<>>
      BY DEF Refusal, Writes
    <2> QED  BY <1>0, <1>5, <2>1, <2>3, <2>4 DEF Sound, Orders
  <1> QED  BY <1>1, <1>2, <1>3, <1>4, <1>5 DEF Orders, Writes

(* The request of a stage is one the device knows.                         *)
LEMMA RequestOf ==
    ASSUME DeviceInv, NEW p \in Procs, th[p].stage \in OutStages
    PROVE  LET q == Request(p) IN
           /\ q.by = p /\ q.op \in Orders \cup {"STREAM_SELECT", "STREAM_START", "STREAM_STOP"}
           /\ q.op = "PIN_MODE" => q.value \in Nat
           /\ q.op = "STREAM_SELECT" => q.value \in {0, 1}
           /\ th[p].stage = "out" <=> q.op \in Orders
           /\ th[p].stage \in {"drop", "clear", "undo"} =>
                 q.op = "STREAM_SELECT" /\ q.value = 0 /\ q.pin = Head(th[p].todo)
           /\ th[p].stage = "select" =>
                 q.op = "STREAM_SELECT" /\ q.value = 1 /\ q.pin = Head(th[p].todo)
           /\ th[p].stage = "start" => q.op = "STREAM_START"
           /\ th[p].stage \in {"halt", "end"} => q.op = "STREAM_STOP"
  <1>1. CASE th[p].stage = "out"
    <2>1. th[p].call \in Calls /\ th[p].call.op \in Orders
      BY <1>1 DEF DeviceInv, ThreadsInv, Fits
    <2>2. Request(p) = [op |-> th[p].call.op, pin |-> th[p].call.pin,
                        value |-> th[p].call.value, by |-> p]
      BY <1>1 DEF Request
    <2>3. th[p].call.op = "PIN_MODE" => th[p].call.value \in Nat
      BY <2>1
    <2> QED  BY <1>1, <2>1, <2>2, <2>3 DEF Orders
  <1>2. CASE th[p].stage \in {"drop", "clear", "undo"}
    <2>1. Request(p) = [op |-> "STREAM_SELECT", pin |-> Head(th[p].todo), value |-> 0, by |-> p]
      BY <1>2 DEF Request
    <2> QED  BY <1>2, <2>1 DEF Orders
  <1>3. CASE th[p].stage = "select"
    <2>1. Request(p) = [op |-> "STREAM_SELECT", pin |-> Head(th[p].todo), value |-> 1, by |-> p]
      BY <1>3 DEF Request
    <2> QED  BY <1>3, <2>1 DEF Orders
  <1>4. CASE th[p].stage = "start"
    <2>1. Request(p) = [op |-> "STREAM_START", pin |-> 0, value |-> th[p].call.period, by |-> p]
      BY <1>4 DEF Request
    <2> QED  BY <1>4, <2>1 DEF Orders
  <1>5. CASE th[p].stage \in {"halt", "end"}
    <2>1. Request(p) = [op |-> "STREAM_STOP", pin |-> 0, value |-> 0, by |-> p]
      BY <1>5 DEF Request
    <2> QED  BY <1>5, <2>1 DEF Orders
  <1> QED  BY <1>1, <1>2, <1>3, <1>4, <1>5 DEF OutStages

(* Recording a reason, or forgetting it, changes nothing else.             *)
LEMMA ToldSound ==
    ASSUME NEW d, Sound(d), NEW x \in Statuses
    PROVE  Sound([d EXCEPT !.err = x]) /\ [d EXCEPT !.err = x].sel = d.sel
  BY DEF Sound, Board

(* send_out(): whatever its outcome, the device has handled the request or *)
(* has not; the outcome of a refusal is never success.                     *)
LEMMA OutTransfer ==
    ASSUME DeviceInv, NEW p \in Procs, th[p].stage \in OutStages,
           NEW r \in SendOut(p), Served(r)
    PROVE  /\ Sound(dev') /\ faults' \in 0 .. MaxFaults /\ r.outcome \in Outcomes
           /\ th[p].stall => r.outcome # "Ok"
           /\ r.outcome = "Ok" =>
                 Refusal(dev, Request(p)) = "OK" /\ dev' = Effect(dev, Request(p))
           /\ \/ dev'.sel = dev.sel
              \/ /\ Refusal(dev, Request(p)) = "OK"
                 /\ dev'.sel = Effect(dev, Request(p)).sel
  <1> DEFINE q == Request(p)
  <1>1. Sound(dev) /\ faults \in 0 .. MaxFaults
    BY DEF DeviceInv, OwnInv
  <1>2. Refusal(dev, q) = "OK" => Sound(Effect(dev, q))
    BY <1>1, RequestOf, EffectSound, ZenonT(40)
  <1>3. Refusal(dev, q) \in Statuses
    BY RequestOf, RefusalType
  <1>4. Sound(Told(dev)) /\ Told(dev).sel = dev.sel
    BY <1>1, ToldSound DEF Told, Statuses
  <1>5. Sound(Handled(dev, q))
        /\ (Refusal(dev, q) # "OK" => Handled(dev, q).sel = dev.sel)
        /\ (Refusal(dev, q) = "OK" => Handled(dev, q) = Effect(dev, q))
    BY <1>1, <1>2, <1>3, ToldSound DEF Handled
  <1>6. Reason(dev) \in Outcomes \ {"Ok"}
    BY ErrorsAreOutcomes DEF Reason, Outcomes
  <1> HIDE DEF q
  <1>7. /\ dev' = r.dev /\ faults' = faults + r.lost
        /\ \/ /\ th[p].stall /\ r.outcome = Reason(dev) /\ r.dev = Told(dev) /\ r.lost = 0
           \/ /\ r.outcome = "TimeoutError" /\ faults < MaxFaults /\ r.lost = 1
              /\ r.dev \in {dev, Told(dev), Handled(dev, q)}
           \/ /\ ~th[p].stall /\ Refusal(dev, q) = "OK" /\ r.outcome = "Ok"
              /\ r.dev = Effect(dev, q) /\ r.lost = 0
    BY DEF Served, SendOut, TimedOut, Result, q
  <1>8. faults' \in 0 .. MaxFaults
    BY <1>1, <1>7
  <1> QED  BY <1>1, <1>2, <1>4, <1>5, <1>6, <1>7, <1>8 DEF Outcomes, q

(* raw_in(): the selection stays.                                          *)
LEMMA InTransfer ==
    ASSUME DeviceInv, NEW op, NEW r \in RawIn(op), Served(r)
    PROVE  /\ Sound(dev') /\ faults' \in 0 .. MaxFaults
           /\ r.outcome \in Outcomes /\ dev'.sel = dev.sel
  <1>1. Sound(dev) /\ faults \in 0 .. MaxFaults
    BY DEF DeviceInv, OwnInv
  <1>2. Sound(Told(dev)) /\ Told(dev).sel = dev.sel
    BY <1>1, ToldSound DEF Told, Statuses
  <1>3. /\ dev' = r.dev /\ faults' = faults + r.lost /\ r.dev \in {dev, Told(dev)}
        /\ \/ r.outcome = "Ok" /\ r.lost = 0
           \/ r.outcome = "TimeoutError" /\ faults < MaxFaults /\ r.lost = 1
    BY DEF Served, RawIn, TimedOut, Result
  <1>4. faults' \in 0 .. MaxFaults
    BY <1>1, <1>3
  <1> QED  BY <1>1, <1>2, <1>3, <1>4 DEF Outcomes
-----------------------------------------------------------------------------
(***************************************************************************)
(* Steps.                                                                  *)
(***************************************************************************)

(* The step of one process: the others are where they were, and a change   *)
(* of the selection that is not a RESET is made under the stream mutex,    *)
(* outside which no process reckons with the selection.                    *)
LEMMA OneSteps ==
    ASSUME DeviceInv, NEW p \in Procs, Sound(dev'), OwnInv',
           th' \in [Procs -> Frame], \A q \in Procs \ {p} : th'[q] = th[q],
           Fits(th'[p], dev'.sel),
           dev'.sel \in {dev.sel, <<>>} \/ lock = p,
           \/ lock' = lock /\ (th'[p].stage \in LockedStages <=> th[p].stage \in LockedStages)
           \/ lock = p /\ lock' = NoOne /\ th'[p].stage \notin LockedStages
           \/ lock = NoOne /\ lock' = p /\ th'[p].stage \in LockedStages
    PROVE  DeviceInv'
  <1>1. MutexInv'
    BY DEF DeviceInv, MutexInv
  <1>2. ASSUME NEW q \in Procs
        PROVE  Fits(th'[q], dev'.sel)
    <2>1. CASE q = p
      BY <2>1
    <2>2. CASE q # p /\ dev'.sel = dev.sel
      BY <2>2 DEF DeviceInv, ThreadsInv
    <2>3. CASE q # p /\ dev'.sel = <<>>
      <3>1. Fits(th[q], dev.sel) /\ th'[q] = th[q]
        BY <2>3 DEF DeviceInv, ThreadsInv
      <3>2. Range(dev'.sel) = {}
        BY <2>3 DEF Range
      <3> QED  BY <2>3, <3>1, <3>2 DEF Fits
    <2>4. CASE q # p /\ lock = p
      <3>1. Fits(th[q], dev.sel) /\ th'[q] = th[q] /\ th[q].stage \notin LockedStages
        BY <2>4 DEF DeviceInv, ThreadsInv, MutexInv
      <3> QED  BY <3>1 DEF Fits, LockedStages
    <2> QED  BY <2>1, <2>2, <2>3, <2>4
  <1> QED  BY <1>1, <1>2 DEF DeviceInv, ThreadsInv

(* A method that ends.                                                     *)
LEMMA FinishFrame ==
    ASSUME DeviceInv, NEW p \in Procs, NEW o \in Outcomes \cup {"none"},
           th' = [th EXCEPT ![p] = [Idle EXCEPT !.result = o]], NEW sel
    PROVE  /\ th' \in [Procs -> Frame] /\ \A q \in Procs \ {p} : th'[q] = th[q]
           /\ th'[p].stage = "idle" /\ th'[p].result = o /\ Fits(th'[p], sel)
           /\ th'[p].stage \notin LockedStages
  <1>1. PICK f : f = [Idle EXCEPT !.result = o]
    OBVIOUS
  <1>2. f = [stage |-> "idle", call |-> [op |-> "none"], todo |-> <<>>,
             added |-> <<>>, tries |-> 0, stall |-> FALSE, result |-> o]
    BY <1>1 DEF Idle
  <1>3. f \in Frame
    <2>1. <<>> \in Seq(Pins) /\ [op |-> "none"] \in AnyCall
      BY EmptySeq DEF AnyCall
    <2> QED  BY <1>2, <2>1 DEF Frame, Stages
  <1>4. th \in [Procs -> Frame] /\ th' = [th EXCEPT ![p] = f]
    BY <1>1 DEF DeviceInv, ThreadsInv
  <1>5. th' \in [Procs -> Frame] /\ th'[p] = f /\ \A q \in Procs \ {p} : th'[q] = th[q]
    BY <1>3, <1>4
  <1>6. Fits(f, sel) /\ f.stage \notin LockedStages
    BY <1>2 DEF Fits, LockedStages, Starting
  <1> QED  BY <1>2, <1>5, <1>6

(* A method that goes on.                                                  *)
LEMMA GotoFrame ==
    ASSUME DeviceInv, NEW p \in Procs, NEW s \in Stages, NEW w \in Seq(Pins), Goto(p, s, w)
    PROVE  /\ th' \in [Procs -> Frame] /\ \A q \in Procs \ {p} : th'[q] = th[q]
           /\ th'[p].stage = s /\ th'[p].todo = w /\ th'[p].call = th[p].call
           /\ th'[p].added = th[p].added
  <1>1. th \in [Procs -> Frame]
    BY DEF DeviceInv, ThreadsInv
  <1>2. PICK f : f = [th[p] EXCEPT !.stage = s, !.todo = w, !.stall = FALSE]
    OBVIOUS
  <1>3. /\ f \in Frame /\ f.stage = s /\ f.todo = w /\ f.call = th[p].call
        /\ f.added = th[p].added
    BY <1>1, <1>2 DEF Frame
  <1>4. th' = [th EXCEPT ![p] = f]
    BY <1>1, <1>2 DEF Goto
  <1> QED  BY <1>1, <1>3, <1>4

(* A method that ends, with the mutex or without it.                       *)
LEMMA Returns ==
    ASSUME DeviceInv, NEW p \in Procs, NEW o \in Outcomes \cup {"none"},
           th' = [th EXCEPT ![p] = [Idle EXCEPT !.result = o]],
           Sound(dev'), OwnInv',
           dev'.sel \in {dev.sel, <<>>} \/ lock = p,
           \/ lock' = lock /\ th[p].stage \notin LockedStages
           \/ lock = p /\ Unlock
    PROVE  DeviceInv'
  BY FinishFrame, OneSteps DEF Unlock

(* A method of start_stream()'s stages that goes on under the mutex.       *)
LEMMA GoesOn ==
    ASSUME DeviceInv, NEW p \in Procs, NEW s \in Starting \cap LockedStages, NEW w \in Seq(Pins),
           th[p].stage \in Starting \cap LockedStages, Goto(p, s, w), UNCHANGED lock,
           Sound(dev'), OwnInv',
           s \in {"drop", "select", "clear", "undo"} => w # <<>>,
           s \in {"drop", "clear"} => Head(w) \notin StartPins(th[p].call),
           s = "select" => Range(w) = StartPins(th[p].call),
           s \in {"clear", "recount"} =>
               \/ StartPins(th[p].call) \subseteq Range(dev'.sel)
               \/ Range(dev'.sel) \subseteq StartPins(th[p].call),
           s \in {"time", "start"} => Range(dev'.sel) = StartPins(th[p].call) \/ dev'.sel = <<>>,
           s # "count"
    PROVE  DeviceInv'
  <1>1. lock = p
    BY DEF DeviceInv, MutexInv
  <1>2. /\ th' \in [Procs -> Frame] /\ \A q \in Procs \ {p} : th'[q] = th[q]
        /\ th'[p].stage = s /\ th'[p].todo = w /\ th'[p].call = th[p].call
    BY GotoFrame DEF Starting, Stages, OutStages
  <1>3. Fits(th[p], dev.sel)
    BY DEF DeviceInv, ThreadsInv
  <1>4. Fits(th'[p], dev'.sel)
    BY <1>2, <1>3 DEF Fits, Starting
  <1> QED  BY <1>1, <1>2, <1>4, OneSteps

(* The queue without its oldest command.                                   *)
LEMMA QueueTail ==
    ASSUME NEW v \in Seq(Procs), v # <<>>
    PROVE  Tail(v) \in Seq(Procs) /\ Len(Tail(v)) = Len(v) - 1
  <1> DEFINE S == Procs
  <1>1. v \in Seq(S)
    OBVIOUS
  <1> HIDE DEF S
  <1>2. Tail(v) \in Seq(S) /\ Len(Tail(v)) = Len(v) - 1
    BY <1>1, HeadTailProperties
  <1> QED  BY <1>2 DEF S

(* poll() takes a command off the queue, or drops them all.                *)
LEMMA PollStep ==
    ASSUME DeviceInv, DevicePoll
    PROVE  DeviceInv'
  <1>1. /\ dev \in Board /\ IsInjective(dev.sel) /\ Len(dev.sel) <= MaxChannels
        /\ Len(dev.queue) <= QueueDepth /\ dev.queue \in Seq(Procs) /\ Len(dev.queue) \in Nat
    BY LenProperties DEF DeviceInv, Sound, Board
  <1>2. \E w \in Seq(Procs), b \in BOOLEAN :
            dev' = [dev EXCEPT !.resetting = b, !.queue = w] /\ Len(w) <= QueueDepth
    <2>1. CASE dev' = [dev EXCEPT !.resetting = FALSE, !.queue = <<>>]
      <3>1. PICK w \in Seq(Procs) : w = <<>>
        BY EmptySeq
      <3>2. Len(w) <= QueueDepth
        BY <3>1
      <3>3. dev' = [dev EXCEPT !.resetting = FALSE, !.queue = w]
        BY <2>1, <3>1
      <3> QED  BY <3>2, <3>3
    <2>2. CASE dev.queue # <<>> /\ dev' = [dev EXCEPT !.queue = Tail(@)]
      <3>1. dev.queue \in Seq(Procs) /\ dev.queue # <<>>
        BY <1>1, <2>2
      <3>2. PICK w \in Seq(Procs) : w = Tail(dev.queue) /\ Len(w) = Len(dev.queue) - 1
        BY <3>1, QueueTail
      <3>3. Len(w) <= QueueDepth
        BY <1>1, <3>2
      <3>4. PICK b \in BOOLEAN : b = dev.resetting
        BY <1>1 DEF Board
      <3>5. dev' = [dev EXCEPT !.resetting = b, !.queue = w]
        BY <1>1, <2>2, <3>2, <3>4 DEF Board
      <3> QED  BY <3>3, <3>5
    <2> QED  BY <2>1, <2>2 DEF DevicePoll
  <1>5. PICK w \in Seq(Procs), b \in BOOLEAN :
            dev' = [dev EXCEPT !.resetting = b, !.queue = w] /\ Len(w) <= QueueDepth
    BY <1>2
  <1>3. dev' \in Board /\ dev'.sel = dev.sel /\ dev'.queue = w
    BY <1>1, <1>5 DEF Board
  <1>4. Sound(dev')
    BY <1>1, <1>3, <1>5 DEF Sound
  <1> QED  BY <1>3, <1>4 DEF DevicePoll, DeviceInv, ThreadsInv, MutexInv, OwnInv

(* The checks made before any transfer: what start_stream() lets through.  *)
LEMMA Checked ==
    ASSUME NEW c \in Calls
    PROVE  /\ Check(c) \in Outcomes
           /\ Check(c) = "Ok" /\ c.op = "START" =>
                 /\ c.pins \in Seq(Pins) /\ Cardinality(StartPins(c)) = Len(c.pins)
                 /\ c.pins # <<>>
  <1>1. c.op \in Methods
    OBVIOUS
  <1>2. Check(c) \in Outcomes
    BY <1>1 DEF Check, Outcomes, Methods, Writes
  <1>3. ASSUME Check(c) = "Ok", c.op = "START"
        PROVE  /\ c.pins \in Seq(Pins) /\ Cardinality(StartPins(c)) = Len(c.pins)
               /\ c.pins # <<>>
    <2>1. /\ c.pins # <<>> /\ \A pin \in StartPins(c) : pin \in Pins
          /\ Cardinality(StartPins(c)) = Len(c.pins)
      <3>1. Check(c) =
                IF ~Info.streaming THEN "NotSupported"
                ELSE IF c.pins = <<>> \/ Len(c.pins) > MaxChannels THEN "InvalidValue"
                ELSE IF \E pin \in StartPins(c) : pin \notin Pins THEN "InvalidPin"
                ELSE IF Cardinality(StartPins(c)) # Len(c.pins) THEN "InvalidValue"
                ELSE IF ~PeriodAccepted(Info, c.period) THEN "InvalidValue" ELSE "Ok"
        BY <1>3 DEF Check, Writes
      <3> QED  BY <1>3, <3>1
    <2>2. c.pins \in Seq(Nat)
      BY <1>3
    <2>3. c.pins \in Seq(Range(c.pins))
      BY <2>2, SeqOfRange
    <2>4. Range(c.pins) \subseteq Pins
      BY <2>1 DEF StartPins
    <2> QED  BY <2>1, <2>3, <2>4, SeqMonotonic
  <1> QED  BY <1>2, <1>3

(* A call enters its first stage, or is refused by the driver itself.      *)
LEMMA CallStep ==
    ASSUME DeviceInv, NEW t \in Threads, NEW c \in Calls, Call(t, c)
    PROVE  DeviceInv'
  <1> DEFINE p == App(t)
             refusal == IF streaming THEN "DeviceBusy" ELSE Check(c)
  <1>1. /\ p \in Procs /\ th[p].stage = "idle" /\ UNCHANGED <<dev, lock, selected, streaming, handle, faults>>
    BY DEF Call, App, Procs
  <1>2. Sound(dev') /\ OwnInv' /\ th[p].stage \notin LockedStages
    BY <1>1 DEF DeviceInv, OwnInv, LockedStages
  <1>3. refusal \in Outcomes
    BY Checked DEF Outcomes
  <1>4. CASE refusal # "Ok"
    <2>1. Finish(p, refusal)
      BY <1>4 DEF Call
    <2> QED  BY <1>1, <1>2, <1>3, <2>1, Returns DEF Finish
  <1>5. CASE refusal = "Ok"
    <2>1. PICK f : f = [Idle EXCEPT !.stage = FirstStage(c), !.call = c]
      OBVIOUS
    <2>2. f = [stage |-> FirstStage(c), call |-> c, todo |-> <<>>, added |-> <<>>,
               tries |-> 0, stall |-> FALSE, result |-> "none"]
      BY <2>1 DEF Idle
    <2>3. c.op \in Methods
      OBVIOUS
    <2>4. /\ FirstStage(c) \in {"lock", "sync", "in", "out"}
          /\ FirstStage(c) = "lock" <=> c.op = "START"
          /\ FirstStage(c) = "out" => c.op \in Orders
      BY <2>3 DEF FirstStage, Methods, Orders
    <2>5. f \in Frame
      BY <2>2, <2>4, EmptySeq DEF Frame, AnyCall, Stages, OutStages
    <2>6. th \in [Procs -> Frame] /\ th' = [th EXCEPT ![p] = f]
      BY <1>5, <2>1 DEF DeviceInv, ThreadsInv, Call
    <2>7. /\ th' \in [Procs -> Frame] /\ th'[p] = f /\ \A q \in Procs \ {p} : th'[q] = th[q]
      BY <1>1, <2>5, <2>6
    <2>8. Check(c) = "Ok"
      BY <1>5
    <2>9. Fits(f, dev'.sel) /\ f.stage \notin LockedStages
      BY <2>2, <2>4, <2>8, Checked DEF Fits, Starting, LockedStages
    <2> QED  BY <1>1, <1>2, <2>7, <2>9, OneSteps
  <1> QED  BY <1>4, <1>5

(* A refusal waits for its reason.                                         *)
LEMMA RefusedStep ==
    ASSUME DeviceInv, NEW p \in Procs, Refused(p)
    PROVE  DeviceInv'
  <1> DEFINE q == Request(p)
  <1>1. /\ th[p].stage \in OutStages /\ Refusal(dev, q) # "OK" /\ dev' = Handled(dev, q)
        /\ th' = [th EXCEPT ![p].stall = TRUE]
        /\ UNCHANGED <<lock, selected, streaming, handle, calls, faults>>
    BY DEF Refused
  <1>2. Refusal(dev, q) \in Statuses
    BY <1>1, RequestOf, RefusalType
  <1>3. Sound(dev') /\ dev'.sel = dev.sel
    BY <1>1, <1>2, ToldSound DEF Handled, DeviceInv
  <1>4. PICK f : f = [th[p] EXCEPT !.stall = TRUE]
    OBVIOUS
  <1>5. th \in [Procs -> Frame] /\ Fits(th[p], dev.sel)
    BY DEF DeviceInv, ThreadsInv
  <1>6. /\ f \in Frame /\ f.stage = th[p].stage /\ f.todo = th[p].todo /\ f.call = th[p].call
    BY <1>4, <1>5 DEF Frame
  <1>7. /\ th' \in [Procs -> Frame] /\ th'[p] = f /\ \A r \in Procs \ {p} : th'[r] = th[r]
    BY <1>1, <1>4, <1>5, <1>6
  <1>8. Fits(f, dev'.sel)
    BY <1>3, <1>5, <1>6 DEF Fits
  <1>9. OwnInv'
    BY <1>1 DEF DeviceInv, OwnInv
  <1> QED  BY <1>1, <1>3, <1>6, <1>7, <1>8, <1>9, OneSteps

(* The methods of one transfer, and what reset() does after its own.       *)
LEMMA OutStep ==
    ASSUME DeviceInv, NEW p \in Procs, Out(p) \/ Forget(p)
    PROVE  DeviceInv'
  <1>1. CASE Forget(p)
    <2>1. /\ th[p].stage = "forget" /\ selected' = <<>> /\ Finish(p, "Ok")
          /\ UNCHANGED <<dev, lock, streaming, handle, calls, faults>>
      BY <1>1 DEF Forget
    <2>2. OwnInv' /\ Sound(dev')
      BY <2>1, EmptySeq DEF DeviceInv, OwnInv
    <2> QED  BY <2>1, <2>2, Returns DEF Finish, Outcomes, LockedStages
  <1>2. CASE Out(p)
    <2>1. PICK r \in SendOut(p) :
             /\ Served(r) /\ th[p].stage = "out"
             /\ IF th[p].call.op = "RESET" /\ r.outcome = "Ok" THEN Goto(p, "forget", <<>>)
                ELSE Finish(p, r.outcome)
             /\ UNCHANGED <<lock, selected, streaming, handle, calls>>
      BY <1>2 DEF Out
    <2>2. th[p].stage \in OutStages \ LockedStages
      BY <2>1 DEF OutStages, LockedStages
    <2>3. Sound(dev') /\ faults' \in 0 .. MaxFaults /\ r.outcome \in Outcomes
      BY <2>1, <2>2, OutTransfer
    <2>4. dev'.sel \in {dev.sel, <<>>}
      <3>1. /\ Request(p).op \in Orders /\ Request(p).by = p
            /\ Request(p).op = "PIN_MODE" => Request(p).value \in Nat
            /\ Request(p).op = "STREAM_SELECT" => Request(p).value \in {0, 1}
        BY <2>1, <2>2, RequestOf
      <3>2. Refusal(dev, Request(p)) = "OK" => Effect(dev, Request(p)).sel \in {dev.sel, <<>>}
        BY <3>1, EffectSound DEF DeviceInv
      <3>3. \/ dev'.sel = dev.sel
            \/ /\ Refusal(dev, Request(p)) = "OK"
               /\ dev'.sel = Effect(dev, Request(p)).sel
        BY <2>1, <2>2, OutTransfer
      <3> QED  BY <3>2, <3>3
    <2>5. OwnInv'
      BY <2>1, <2>3 DEF DeviceInv, OwnInv
    <2>6. CASE Finish(p, r.outcome)
      BY <2>1, <2>2, <2>3, <2>4, <2>5, <2>6, Returns DEF Finish
    <2>7. CASE Goto(p, "forget", <<>>)
      <3>1. /\ th' \in [Procs -> Frame] /\ \A q \in Procs \ {p} : th'[q] = th[q]
            /\ th'[p].stage = "forget"
        BY <2>7, GotoFrame, EmptySeq DEF Stages
      <3>2. Fits(th'[p], dev'.sel) /\ th'[p].stage \notin LockedStages
        BY <3>1 DEF Fits, Starting, LockedStages
      <3> QED  BY <2>1, <2>2, <2>3, <2>4, <2>5, <3>1, <3>2, OneSteps
    <2> QED  BY <2>1, <2>6, <2>7
  <1> QED  BY <1>1, <1>2

(* A read that is asked again.                                             *)
LEMMA RetryFrame ==
    ASSUME DeviceInv, NEW p \in Procs, th[p].stage \notin Starting \cup {"out"}, NEW sel,
           th' = [th EXCEPT ![p].tries = @ + 1]
    PROVE  /\ th' \in [Procs -> Frame] /\ \A q \in Procs \ {p} : th'[q] = th[q]
           /\ th'[p].stage = th[p].stage /\ Fits(th'[p], sel)
  <1>1. th \in [Procs -> Frame] /\ th[p].tries \in Nat
    BY DEF DeviceInv, ThreadsInv, Frame
  <1>2. PICK k \in Nat : k = th[p].tries + 1
    BY <1>1
  <1>3. PICK f : f = [th[p] EXCEPT !.tries = k]
    OBVIOUS
  <1>4. f \in Frame /\ f.stage = th[p].stage
    BY <1>1, <1>3 DEF Frame
  <1>5. th' = [th EXCEPT ![p] = f]
    BY <1>1, <1>2, <1>3
  <1>6. Fits(f, sel)
    BY <1>4 DEF Fits, Starting
  <1> QED  BY <1>1, <1>4, <1>5, <1>6

(* The reads, and sync().                                                  *)
LEMMA ReadStep ==
    ASSUME DeviceInv, NEW p \in Procs, ReadIn(p) \/ Sync(p)
    PROVE  DeviceInv'
  <1>1. /\ UNCHANGED <<lock, selected, streaming, handle, calls>>
        /\ th[p].stage \notin Starting \cup LockedStages \cup {"out"}
    BY DEF ReadIn, Sync, Starting, LockedStages
  <1>2. ASSUME Sound(dev'), dev'.sel = dev.sel, faults' \in 0 .. MaxFaults,
               NEW o \in Outcomes, Finish(p, o) \/ Retry(p)
        PROVE  DeviceInv'
    <2>1. OwnInv'
      BY <1>1, <1>2 DEF DeviceInv, OwnInv
    <2>2. ASSUME NEW x \in Outcomes, Finish(p, x)
          PROVE  DeviceInv'
      BY <1>1, <1>2, <2>1, <2>2, Returns DEF Finish
    <2>3. CASE th' = [th EXCEPT ![p].tries = @ + 1]
      <3>1. /\ th' \in [Procs -> Frame] /\ \A q \in Procs \ {p} : th'[q] = th[q]
            /\ th'[p].stage = th[p].stage /\ Fits(th'[p], dev'.sel)
        BY <1>1, <2>3, RetryFrame
      <3> QED  BY <1>1, <1>2, <2>1, <3>1, OneSteps
    <2>4. "DeviceBusy" \in Outcomes
      BY DEF Outcomes
    <2>5. Finish(p, o) \/ Finish(p, "DeviceBusy") \/ th' = [th EXCEPT ![p].tries = @ + 1]
      BY <1>2 DEF Retry
    <2> QED  BY <2>2, <2>3, <2>4, <2>5
  <1>3. CASE ReadIn(p)
    <2> DEFINE s == ReadStatus(dev, th[p].call)
    <2>1. PICK r \in RawIn(th[p].call.op) :
             /\ Served(r)
             /\ IF r.outcome = "Ok" /\ s = "BUSY" THEN Retry(p)
                ELSE Finish(p, IF r.outcome = "Ok" /\ s # "OK" THEN StatusError(s) ELSE r.outcome)
      BY <1>3 DEF ReadIn
    <2> HIDE DEF s
    <2>2. /\ Sound(dev') /\ faults' \in 0 .. MaxFaults
          /\ r.outcome \in Outcomes /\ dev'.sel = dev.sel
      BY <2>1, InTransfer
    <2>3. PICK o : o = IF r.outcome = "Ok" /\ s # "OK" THEN StatusError(s) ELSE r.outcome
      OBVIOUS
    <2>4. o \in Outcomes
      BY <2>2, <2>3, ErrorsAreOutcomes
    <2>5. Finish(p, o) \/ Retry(p)
      BY <2>1, <2>3
    <2> QED  BY <1>2, <2>2, <2>4, <2>5
  <1>4. CASE Sync(p)
    <2>1. CASE streaming /\ Finish(p, "DeviceBusy") /\ UNCHANGED <<dev, faults>>
      <3>1. Sound(dev') /\ faults' \in 0 .. MaxFaults /\ dev'.sel = dev.sel
            /\ "DeviceBusy" \in Outcomes
        BY <2>1 DEF DeviceInv, OwnInv, Outcomes
      <3> QED  BY <1>2, <2>1, <3>1
    <2>2. ASSUME NEW r \in RawIn("GET_STATUS"), Served(r),
                 IF r.outcome = "Ok" /\ ~SyncDone(dev) THEN Retry(p) ELSE Finish(p, r.outcome)
          PROVE  DeviceInv'
      <3>1. /\ Sound(dev') /\ faults' \in 0 .. MaxFaults
            /\ r.outcome \in Outcomes /\ dev'.sel = dev.sel
        BY <2>2, InTransfer
      <3> QED  BY <1>2, <2>2, <3>1
    <2> QED  BY <1>4, <2>1, <2>2 DEF Sync
  <1> QED  BY <1>3, <1>4

-----------------------------------------------------------------------------
(***************************************************************************)
(* Streaming control.                                                      *)
(***************************************************************************)

(* What is known under the mutex.                                          *)
LEMMA InStart ==
    ASSUME DeviceInv, NEW p \in Procs, th[p].stage \in Starting \cap LockedStages
    PROVE  /\ lock = p /\ th \in [Procs -> Frame] /\ Fits(th[p], dev.sel)
           /\ th[p].call.pins \in Seq(Pins) /\ th[p].call.pins # <<>>
           /\ Range(th[p].call.pins) = StartPins(th[p].call)
           /\ Cardinality(StartPins(th[p].call)) = Len(th[p].call.pins)
           /\ th[p].todo \in Seq(Pins) /\ th[p].added \in Seq(Pins)
  <1>1. lock = p /\ th \in [Procs -> Frame] /\ Fits(th[p], dev.sel)
    BY DEF DeviceInv, MutexInv, ThreadsInv
  <1> QED  BY <1>1 DEF Fits, Frame, StartPins

(* The stream mutex is taken by a process that finds it free.              *)
LEMMA LockStep ==
    ASSUME DeviceInv, NEW p \in Procs, Lock(p)
    PROVE  DeviceInv'
  <1>1. /\ lock = NoOne /\ lock' = p
        /\ UNCHANGED <<dev, selected, streaming, handle, calls, faults>>
    BY DEF Lock
  <1>2. Sound(dev') /\ OwnInv' /\ dev'.sel = dev.sel /\ <<>> \in Seq(Pins)
    BY <1>1, EmptySeq DEF DeviceInv, OwnInv
  <1>3. Fits(th[p], dev.sel)
    BY DEF DeviceInv, ThreadsInv
  <1>4. ASSUME NEW s \in {"leftover", "poll", "end"}, Goto(p, s, <<>>),
               s = "leftover" => th[p].stage = "lock"
        PROVE  DeviceInv'
    <2>1. s \in Stages /\ s \in LockedStages
      BY <1>4 DEF Stages, OutStages, LockedStages
    <2>2. /\ th' \in [Procs -> Frame] /\ \A q \in Procs \ {p} : th'[q] = th[q]
          /\ th'[p].stage = s /\ th'[p].call = th[p].call
      BY <1>2, <1>4, <2>1, GotoFrame
    <2>3. Fits(th'[p], dev'.sel)
      BY <1>3, <1>4, <2>2 DEF Fits, Starting
    <2> QED  BY <1>1, <1>2, <2>1, <2>2, <2>3, OneSteps
  <1> QED  BY <1>4 DEF Lock

(* The pins of an earlier stream, then those that are asked for.           *)
LEMMA DropOrSelect ==
    ASSUME DeviceInv, NEW p \in Procs, th[p].stage \in Starting \cap LockedStages,
           GotoDrop(p), UNCHANGED lock, Sound(dev'), OwnInv'
    PROVE  DeviceInv'
  <1> DEFINE stale == Others(selected, th[p].call)
  <1>1. /\ th[p].call.pins \in Seq(Pins) /\ th[p].call.pins # <<>>
        /\ Range(th[p].call.pins) = StartPins(th[p].call)
    BY InStart
  <1>2. /\ stale \in Seq(Pins)
        /\ stale # <<>> => Head(stale) \notin StartPins(th[p].call)
    BY OthersLeft DEF DeviceInv, OwnInv
  <1>3. CASE stale = <<>> /\ Goto(p, "select", th[p].call.pins)
    BY <1>1, <1>3, GoesOn DEF Starting, LockedStages
  <1>4. CASE stale # <<>> /\ Goto(p, "drop", stale)
    BY <1>2, <1>4, GoesOn DEF Starting, LockedStages
  <1> QED  BY <1>3, <1>4 DEF GotoDrop

(* Going through a list backwards.                                         *)
LEMMA ReverseList ==
    ASSUME NEW a \in Seq(Pins), a # <<>>
    PROVE  Reverse(a) \in Seq(Pins) /\ Reverse(a) # <<>>
  <1> DEFINE n == Len(a)
  <1>1. n \in Nat \ {0} /\ \A i \in 1 .. n : a[i] \in Pins
    BY LenProperties, EmptySeq, ElementOfSeq
  <1>2. Reverse(a) = [i \in 1 .. n |-> a[(n - i) + 1]]
    BY DEF Reverse
  <1> HIDE DEF n
  <1>3. \A i \in 1 .. n : (n - i) + 1 \in 1 .. n
    BY <1>1
  <1>4. Reverse(a) \in [1 .. n -> Pins]
    BY <1>1, <1>2, <1>3
  <1>5. Reverse(a) \in Seq(Pins) /\ 1 \in 1 .. n
    BY <1>1, <1>4, IsASeq
  <1>6. PICK w \in Seq(Pins) : w = Reverse(a) /\ DOMAIN w = 1 .. n
    BY <1>4, <1>5
  <1>7. Len(w) = n
    BY <1>1, <1>6, LenProperties
  <1> QED  BY <1>1, <1>6, <1>7, EmptySeq

(* A start_stream() that fails gives up the mutex, at once or when it has  *)
(* taken back what it added.                                               *)
LEMMA Fails ==
    ASSUME DeviceInv, NEW p \in Procs, th[p].stage \in Starting \cap LockedStages,
           NEW o \in Outcomes, Fail(p, o, th[p].added), Sound(dev'), OwnInv'
    PROVE  DeviceInv'
  <1>1. lock = p /\ th \in [Procs -> Frame] /\ Fits(th[p], dev.sel) /\ th[p].added \in Seq(Pins)
    BY InStart
  <1>2. CASE Finish(p, o) /\ Unlock
    BY <1>1, <1>2, Returns DEF Finish
  <1>3. CASE /\ th[p].added # <<>> /\ UNCHANGED lock
             /\ th' = [th EXCEPT ![p].stage = "undo", ![p].todo = Reverse(th[p].added),
                                 ![p].stall = FALSE, ![p].result = o]
    <2> DEFINE a == th[p].added
    <2>1. PICK w \in Seq(Pins) : w = Reverse(a) /\ w # <<>>
      BY <1>1, <1>3, ReverseList
    <2>2. PICK f : f = [th[p] EXCEPT !.stage = "undo", !.todo = w, !.stall = FALSE, !.result = o]
      OBVIOUS
    <2>3. /\ f \in Frame /\ f.stage = "undo" /\ f.todo = w /\ f.call = th[p].call
      BY <1>1, <2>2, ZenonT(40) DEF Frame, Stages, OutStages
    <2>4. th' = [th EXCEPT ![p] = f]
      BY <1>1, <1>3, <2>1, <2>2
    <2>5. th' \in [Procs -> Frame] /\ th'[p] = f /\ \A q \in Procs \ {p} : th'[q] = th[q]
      BY <1>1, <2>3, <2>4
    <2>6. Fits(f, dev'.sel) /\ f.stage \in LockedStages
      BY <1>1, <2>1, <2>3 DEF Fits, Starting, LockedStages
    <2> QED  BY <1>1, <1>3, <2>5, <2>6, OneSteps
  <1> QED  BY <1>2, <1>3 DEF Fail

(* The device is asked whether it samples, and stopped if it does.         *)
LEMMA LeftoverStep ==
    ASSUME DeviceInv, NEW p \in Procs, Leftover(p) \/ Halt(p)
    PROVE  DeviceInv'
  <1>1. /\ th[p].stage \in Starting \cap LockedStages
        /\ UNCHANGED <<selected, streaming, handle, calls>>
    BY DEF Leftover, Halt, Starting, LockedStages
  <1>2. lock = p
    BY <1>1, InStart
  <1>3. ASSUME Sound(dev'), faults' \in 0 .. MaxFaults, NEW o \in Outcomes,
               \/ Finish(p, o) /\ Unlock
               \/ Goto(p, "halt", <<>>) /\ UNCHANGED lock
               \/ GotoDrop(p) /\ UNCHANGED lock
        PROVE  DeviceInv'
    <2>1. OwnInv'
      BY <1>1, <1>3 DEF DeviceInv, OwnInv
    <2>2. CASE Finish(p, o) /\ Unlock
      BY <1>2, <1>3, <2>1, <2>2, Returns DEF Finish
    <2>3. CASE Goto(p, "halt", <<>>) /\ UNCHANGED lock
      BY <1>1, <1>3, <2>1, <2>3, GoesOn, EmptySeq DEF Starting, LockedStages
    <2>4. CASE GotoDrop(p) /\ UNCHANGED lock
      BY <1>1, <1>3, <2>1, <2>4, DropOrSelect
    <2> QED  BY <1>3, <2>2, <2>3, <2>4
  <1>4. CASE Leftover(p)
    <2>1. PICK r \in RawIn("STREAM_STATUS") :
             /\ Served(r)
             /\ \/ Finish(p, r.outcome) /\ Unlock
                \/ Goto(p, "halt", <<>>) /\ UNCHANGED lock
                \/ GotoDrop(p) /\ UNCHANGED lock
      BY <1>4 DEF Leftover
    <2> QED  BY <1>3, <2>1, InTransfer
  <1>5. CASE Halt(p)
    <2>1. PICK r \in SendOut(p) :
             /\ Served(r) /\ th[p].stage \in OutStages
             /\ \/ Finish(p, r.outcome) /\ Unlock
                \/ GotoDrop(p) /\ UNCHANGED lock
      BY <1>5 DEF Halt, OutStages
    <2> QED  BY <1>3, <2>1, OutTransfer
  <1> QED  BY <1>4, <1>5

(* Taking pins off the device's selection never takes one that is asked    *)
(* for: the loops skip those.                                              *)
LEMMA DeselectStep ==
    ASSUME DeviceInv, NEW p \in Procs, Drop(p) \/ ClearPin(p)
    PROVE  DeviceInv'
  <1> DEFINE asked == StartPins(th[p].call)
             next == IF th[p].stage = "drop" THEN "select" ELSE "recount"
             todo == IF th[p].stage = "drop" THEN th[p].call.pins ELSE <<>>
             rest == Others(Tail(th[p].todo), th[p].call)
  <1>1. /\ th[p].stage \in {"drop", "clear"} /\ Loop(p, next, todo)
        /\ UNCHANGED <<lock, selected, streaming, handle, calls>>
    BY DEF Drop, ClearPin
  <1>2. PICK r \in SendOut(p) : Served(r)
    BY DEF Drop, ClearPin
  <1>3. /\ th[p].stage \in Starting \cap LockedStages /\ th[p].stage \in OutStages
    BY <1>1 DEF Starting, LockedStages, OutStages
  <1>4. /\ lock = p /\ Fits(th[p], dev.sel) /\ th[p].todo \in Seq(Pins)
        /\ th[p].call.pins \in Seq(Pins) /\ th[p].call.pins # <<>>
        /\ Range(th[p].call.pins) = asked
    BY <1>3, InStart
  <1>5. th[p].todo # <<>> /\ Head(th[p].todo) \notin asked
    BY <1>1, <1>4 DEF Fits
  <1>6. Sound(dev') /\ faults' \in 0 .. MaxFaults
    BY <1>2, <1>3, OutTransfer
  <1>7. OwnInv'
    BY <1>1, <1>6 DEF DeviceInv, OwnInv
  <1>8. Range(dev'.sel) \subseteq Range(dev.sel)
        /\ Range(dev.sel) \subseteq Range(dev'.sel) \cup {Head(th[p].todo)}
    <2>1. /\ Request(p).op = "STREAM_SELECT" /\ Request(p).by = p /\ Request(p).value = 0
          /\ Request(p).pin = Head(th[p].todo)
      BY <1>1, <1>3, RequestOf
    <2>2. Refusal(dev, Request(p)) = "OK" =>
              Range(Effect(dev, Request(p)).sel) = Range(dev.sel) \ {Head(th[p].todo)}
      BY <2>1, EffectSound DEF DeviceInv
    <2>3. \/ dev'.sel = dev.sel
          \/ /\ Refusal(dev, Request(p)) = "OK"
             /\ dev'.sel = Effect(dev, Request(p)).sel
      BY <1>2, <1>3, OutTransfer
    <2> QED  BY <2>2, <2>3
  <1>9. Tail(th[p].todo) \in Seq(Pins)
    BY <1>4, <1>5, HeadAndTail
  <1>10. rest \in Seq(Pins) /\ (rest # <<>> => Head(rest) \notin asked)
    BY <1>9, OthersLeft
  <1>11. th[p].stage = "clear" => asked \subseteq Range(dev'.sel) \/ Range(dev'.sel) \subseteq asked
    BY <1>4, <1>5, <1>8 DEF Fits
  <1>12. CASE rest # <<>> /\ Goto(p, th[p].stage, rest)
    BY <1>1, <1>3, <1>6, <1>7, <1>10, <1>11, <1>12, GoesOn
  <1>13. CASE Goto(p, next, todo)
    <2>1. CASE th[p].stage = "drop"
      BY <1>1, <1>3, <1>4, <1>6, <1>7, <1>13, <2>1, GoesOn DEF Starting, LockedStages
    <2>2. CASE th[p].stage = "clear"
      <3>1. Goto(p, "recount", <<>>) /\ <<>> \in Seq(Pins)
        BY <1>13, <2>2, EmptySeq
      <3> QED  BY <1>1, <1>3, <1>6, <1>7, <1>11, <2>2, <3>1, GoesOn DEF Starting, LockedStages
    <2> QED  BY <1>1, <2>1, <2>2
  <1> QED  BY <1>1, <1>12, <1>13 DEF Loop

(* Each pin that is asked for is put on the device's selection.            *)
LEMMA SelectStep ==
    ASSUME DeviceInv, NEW p \in Procs, SelectPin(p)
    PROVE  DeviceInv'
  <1> DEFINE asked == StartPins(th[p].call)
             h == Head(th[p].todo)
  <1>1. /\ th[p].stage = "select"
        /\ UNCHANGED <<selected, streaming, handle, calls>>
    BY DEF SelectPin
  <1>2. PICK r \in SendOut(p) :
           /\ Served(r)
           /\ IF r.outcome # "Ok" THEN Fail(p, r.outcome, th[p].added)
              ELSE /\ th' = [th EXCEPT ![p].added = Append(@, Head(th[p].todo)),
                               ![p].todo = Tail(@), ![p].stall = FALSE,
                               ![p].stage = IF Len(th[p].todo) > 1 THEN "select" ELSE "count"]
                   /\ UNCHANGED lock
    BY DEF SelectPin
  <1>3. /\ th[p].stage \in Starting \cap LockedStages /\ th[p].stage \in OutStages
    BY <1>1 DEF Starting, LockedStages, OutStages
  <1>4. /\ lock = p /\ th \in [Procs -> Frame] /\ Fits(th[p], dev.sel)
        /\ th[p].todo \in Seq(Pins) /\ th[p].added \in Seq(Pins)
    BY <1>3, InStart
  <1>5. /\ th[p].todo # <<>> /\ Range(th[p].todo) \subseteq asked
        /\ asked \subseteq Range(dev.sel) \cup Range(th[p].todo) \/ Range(dev.sel) \subseteq asked
    BY <1>1, <1>4 DEF Fits
  <1>6. Sound(dev') /\ faults' \in 0 .. MaxFaults /\ r.outcome \in Outcomes
    BY <1>2, <1>3, OutTransfer
  <1>7. OwnInv'
    BY <1>1, <1>6 DEF DeviceInv, OwnInv
  <1>8. CASE r.outcome # "Ok"
    <2>1. Fail(p, r.outcome, th[p].added)
      BY <1>2, <1>8
    <2> QED  BY <1>3, <1>6, <1>7, <2>1, Fails
  <1>9. CASE r.outcome = "Ok"
    <2>1. /\ Request(p).op = "STREAM_SELECT" /\ Request(p).by = p /\ Request(p).value = 1
          /\ Request(p).pin = h
      BY <1>1, <1>3, RequestOf
    <2>2. Range(dev'.sel) = Range(dev.sel) \cup {h}
      <3>1. Refusal(dev, Request(p)) = "OK" /\ dev' = Effect(dev, Request(p))
        BY <1>2, <1>3, <1>9, OutTransfer
      <3>2. Sound(dev) /\ Request(p).value \in {0, 1} /\ Request(p).op # "PIN_MODE"
        BY <2>1 DEF DeviceInv
      <3>3. Range(Effect(dev, Request(p)).sel) =
                IF Request(p).value = 0 THEN Range(dev.sel) \ {Request(p).pin}
                ELSE Range(dev.sel) \cup {Request(p).pin}
        BY <2>1, <3>1, <3>2, EffectSound, ZenonT(40)
      <3> QED  BY <2>1, <3>1, <3>3
    <2>3. /\ h \in Pins /\ Tail(th[p].todo) \in Seq(Pins)
          /\ Range(th[p].todo) = Range(Tail(th[p].todo)) \cup {h}
          /\ Len(th[p].todo) > 1 <=> Tail(th[p].todo) # <<>>
      BY <1>4, <1>5, HeadAndTail
    <2>4. PICK w \in Seq(Pins) : w = Tail(th[p].todo)
      BY <2>3
    <2>5. PICK a \in Seq(Pins) : a = Append(th[p].added, h)
      BY <1>4, <2>3, AppendProperties
    <2>6. PICK s \in {"select", "count"} : s = IF w # <<>> THEN "select" ELSE "count"
      OBVIOUS
    <2>7. PICK f : f = [th[p] EXCEPT !.added = a, !.todo = w, !.stall = FALSE, !.stage = s]
      OBVIOUS
    <2>8. f \in Frame /\ f.stage = s /\ f.todo = w /\ f.call = th[p].call
      <3>1. s \in Stages
        BY <2>6 DEF Stages, OutStages
      <3> QED  BY <1>4, <2>7, <3>1 DEF Frame
    <2>9. th' = [th EXCEPT ![p] = f]
      BY <1>2, <1>4, <1>9, <2>3, <2>4, <2>5, <2>6, <2>7
    <2>10. th' \in [Procs -> Frame] /\ th'[p] = f /\ \A q \in Procs \ {p} : th'[q] = th[q]
      BY <1>4, <2>8, <2>9
    <2>11. s \in Starting \cap LockedStages
      BY <2>6 DEF Starting, LockedStages
    <2>12. Range(w) \subseteq asked /\ h \in asked
      BY <1>5, <2>3, <2>4
    <2>13. asked \subseteq Range(dev'.sel) \cup Range(w) \/ Range(dev'.sel) \subseteq asked
      BY <1>5, <2>2, <2>3, <2>4, <2>12
    <2>14. w = <<>> => Range(w) = {}
      BY DEF Range
    <2>15. Fits(f, dev'.sel)
      BY <1>3, <1>4, <2>6, <2>8, <2>11, <2>12, <2>13, <2>14 DEF Fits
    <2> QED  BY <1>2, <1>3, <1>4, <1>6, <1>7, <1>9, <2>8, <2>10, <2>11, <2>15, OneSteps
  <1> QED  BY <1>8, <1>9

(* A selection of as many pins as are asked for, that is on one side of    *)
(* them, is what is asked for.                                             *)
LEMMA CountIsRight ==
    ASSUME DeviceInv, NEW p \in Procs, th[p].stage \in {"count", "recount"}, RightCount(p)
    PROVE  Range(dev.sel) = StartPins(th[p].call)
  <1> DEFINE A == StartPins(th[p].call)
             S == Range(dev.sel)
  <1>1. th[p].stage \in Starting \cap LockedStages
    BY DEF Starting, LockedStages
  <1>2. /\ Fits(th[p], dev.sel) /\ Cardinality(A) = Len(th[p].call.pins)
        /\ th[p].call.pins \in Seq(Pins) /\ Range(th[p].call.pins) = A
    BY <1>1, InStart
  <1>3. A \subseteq S \/ S \subseteq A
    BY <1>2 DEF Fits
  <1>4. Len(dev.sel) = Cardinality(S) /\ IsFiniteSet(S)
    BY LenIsCount DEF DeviceInv, Sound, Board
  <1>5. Len(dev.sel) = Len(th[p].call.pins)
    BY DEF RightCount
  <1>6. A \in SUBSET Pins
    BY <1>2, RangeOfSeq
  <1> HIDE DEF A, S
  <1>7. IsFiniteSet(A)
    BY <1>6, FS_Subset
  <1>10. Cardinality(A) = Cardinality(S)
    BY <1>2, <1>4, <1>5
  <1>8. ASSUME A \subseteq S PROVE A = S
    BY <1>4, <1>8, <1>10, FS_Subset
  <1>9. ASSUME S \subseteq A PROVE A = S
    BY <1>7, <1>9, <1>10, FS_Subset
  <1> QED  BY <1>3, <1>8, <1>9 DEF A, S

(* The count of the device decides, before and after the others are        *)
(* deselected; then its time is read.                                      *)
LEMMA CountStep ==
    ASSUME DeviceInv, NEW p \in Procs, Count(p) \/ Recount(p) \/ ReadStartTime(p)
    PROVE  DeviceInv'
  <1> DEFINE asked == StartPins(th[p].call)
             rest == Others(AllPins, th[p].call)
             Answered(r) ==
                /\ Served(r)
                /\ \/ \E o \in {r.outcome, "ProtocolError"} : Fail(p, o, th[p].added)
                   \/ /\ UNCHANGED lock
                      /\ \/ /\ th[p].stage \in {"count", "recount"} /\ RightCount(p)
                            /\ Goto(p, "time", <<>>)
                         \/ /\ th[p].stage = "count"
                            /\ Goto(p, IF rest = <<>> THEN "recount" ELSE "clear", rest)
                         \/ th[p].stage = "time" /\ Goto(p, "start", <<>>)
  <1>1. /\ th[p].stage \in {"count", "recount", "time"}
        /\ UNCHANGED <<selected, streaming, handle, calls>>
    BY DEF Count, Recount, ReadStartTime
  <1>2. th[p].stage \in Starting \cap LockedStages
    BY <1>1 DEF Starting, LockedStages
  <1>3. lock = p /\ Fits(th[p], dev.sel)
    BY <1>2, InStart
  <1>12. \E op \in {"STREAM_STATUS", "GET_TIME"} : \E r \in RawIn(op) : Answered(r)
    <2>1. CASE Count(p)
      <3>1. \E r \in RawIn("STREAM_STATUS") :
                /\ Served(r) /\ th[p].stage = "count"
                /\ \/ Fail(p, r.outcome, th[p].added)
                   \/ /\ UNCHANGED lock
                      /\ \/ RightCount(p) /\ Goto(p, "time", <<>>)
                         \/ Goto(p, IF rest = <<>> THEN "recount" ELSE "clear", rest)
        BY <2>1 DEF Count
      <3> QED  BY <3>1
    <2>2. CASE Recount(p)
      <3>1. \E r \in RawIn("STREAM_STATUS") :
                /\ Served(r) /\ th[p].stage = "recount"
                /\ \/ Fail(p, r.outcome, th[p].added)
                   \/ Fail(p, "ProtocolError", th[p].added)
                   \/ UNCHANGED lock /\ RightCount(p) /\ Goto(p, "time", <<>>)
        BY <2>2 DEF Recount
      <3> QED  BY <3>1
    <2>3. CASE ReadStartTime(p)
      <3>1. \E r \in RawIn("GET_TIME") :
                /\ Served(r) /\ th[p].stage = "time"
                /\ \/ Fail(p, r.outcome, th[p].added)
                   \/ UNCHANGED lock /\ Goto(p, "start", <<>>)
        BY <2>3 DEF ReadStartTime
      <3> QED  BY <3>1
    <2> QED  BY <2>1, <2>2, <2>3
  <1>11. PICK op \in {"STREAM_STATUS", "GET_TIME"} : \E r \in RawIn(op) : Answered(r)
    BY <1>12
  <1>4. PICK r \in RawIn(op) : Answered(r)
    BY <1>11
  <1>5. /\ Sound(dev') /\ faults' \in 0 .. MaxFaults
        /\ r.outcome \in Outcomes /\ dev'.sel = dev.sel
    BY <1>4, InTransfer
  <1>6. OwnInv'
    BY <1>1, <1>5 DEF DeviceInv, OwnInv
  <1>7. ASSUME NEW o \in {r.outcome, "ProtocolError"}, Fail(p, o, th[p].added)
        PROVE  DeviceInv'
    <2>1. o \in Outcomes
      BY <1>5, <1>7 DEF Outcomes
    <2> QED  BY <1>2, <1>5, <1>6, <1>7, <2>1, Fails
  <1>8. CASE /\ UNCHANGED lock /\ th[p].stage \in {"count", "recount"} /\ RightCount(p)
             /\ Goto(p, "time", <<>>)
    <2>1. Range(dev'.sel) = asked
      BY <1>5, <1>8, CountIsRight
    <2> QED  BY <1>2, <1>5, <1>6, <1>8, <2>1, GoesOn, EmptySeq DEF Starting, LockedStages
  <1>9. CASE /\ UNCHANGED lock /\ th[p].stage = "count"
             /\ Goto(p, IF rest = <<>> THEN "recount" ELSE "clear", rest)
    <2>1. AllPins \in Seq(Pins)
      <3>1. Cardinality(Pins) \in Nat
        BY FS_CardinalityType
      <3>2. AllPins \in [1 .. Cardinality(Pins) -> Pins]
        BY <3>1 DEF AllPins
      <3> QED  BY <3>1, <3>2, IsASeq
    <2>2. rest \in Seq(Pins) /\ (rest # <<>> => Head(rest) \notin asked)
      BY <2>1, OthersLeft
    <2>3. asked \subseteq Range(dev'.sel) \/ Range(dev'.sel) \subseteq asked
      BY <1>3, <1>5, <1>9 DEF Fits
    <2> HIDE DEF rest
    <2>4. CASE rest = <<>> /\ Goto(p, "recount", rest)
      BY <1>2, <1>5, <1>6, <1>9, <2>2, <2>3, <2>4, GoesOn DEF Starting, LockedStages
    <2>5. CASE rest # <<>> /\ Goto(p, "clear", rest)
      BY <1>2, <1>5, <1>6, <1>9, <2>2, <2>3, <2>5, GoesOn DEF Starting, LockedStages
    <2> QED  BY <1>9, <2>4, <2>5
  <1>10. CASE UNCHANGED lock /\ th[p].stage = "time" /\ Goto(p, "start", <<>>)
    <2>1. Range(dev'.sel) = asked \/ dev'.sel = <<>>
      BY <1>3, <1>5, <1>10 DEF Fits
    <2> QED  BY <1>2, <1>5, <1>6, <1>10, <2>1, GoesOn, EmptySeq DEF Starting, LockedStages
  <1> QED  BY <1>4, <1>7, <1>8, <1>9, <1>10

(* STREAM_START: the stream is this thread's, or what was added is taken   *)
(* back.                                                                   *)
LEMMA StartStep ==
    ASSUME DeviceInv, NEW p \in Procs, Start(p)
    PROVE  DeviceInv'
  <1>1. PICK r \in SendOut(p) :
           /\ Served(r) /\ th[p].stage = "start"
           /\ IF r.outcome = "Ok"
              THEN /\ selected' = th[p].call.pins /\ streaming' = TRUE
                   /\ handle' = [handle EXCEPT ![p[1]] = "running"]
                   /\ Finish(p, "Ok") /\ Unlock
              ELSE Fail(p, r.outcome, th[p].added) /\ UNCHANGED <<selected, streaming, handle>>
    BY DEF Start
  <1>2. /\ th[p].stage \in Starting \cap LockedStages /\ th[p].stage \in OutStages
    BY <1>1 DEF Starting, LockedStages, OutStages
  <1>3. lock = p /\ th[p].call.pins \in Seq(Pins)
    BY <1>2, InStart
  <1>4. Sound(dev') /\ faults' \in 0 .. MaxFaults /\ r.outcome \in Outcomes
    BY <1>1, <1>2, OutTransfer
  <1>5. CASE r.outcome = "Ok"
    <2>1. /\ selected' \in Seq(Pins) /\ streaming' = TRUE
          /\ handle' = [handle EXCEPT ![p[1]] = "running"]
          /\ Finish(p, "Ok") /\ Unlock
      BY <1>1, <1>3, <1>5
    <2>2. OwnInv'
      BY <1>4, <2>1 DEF DeviceInv, OwnInv
    <2> QED  BY <1>3, <1>4, <2>1, <2>2, Returns DEF Finish, Outcomes
  <1>6. CASE r.outcome # "Ok"
    <2>1. OwnInv' /\ Fail(p, r.outcome, th[p].added)
      BY <1>1, <1>4, <1>6 DEF DeviceInv, OwnInv
    <2> QED  BY <1>2, <1>4, <2>1, Fails
  <1> QED  BY <1>5, <1>6

(* What was added is taken back, pin by pin.                               *)
LEMMA UndoStep ==
    ASSUME DeviceInv, NEW p \in Procs, Undo(p)
    PROVE  DeviceInv'
  <1>1. /\ th[p].stage = "undo" /\ UNCHANGED <<selected, streaming, handle, calls>>
        /\ IF Len(th[p].todo) > 1 THEN Goto(p, "undo", Tail(th[p].todo)) /\ UNCHANGED lock
           ELSE Finish(p, th[p].result) /\ Unlock
    BY DEF Undo
  <1>2. PICK r \in SendOut(p) : Served(r)
    BY DEF Undo
  <1>3. /\ th[p].stage \in Starting \cap LockedStages /\ th[p].stage \in OutStages
    BY <1>1 DEF Starting, LockedStages, OutStages
  <1>4. /\ lock = p /\ Fits(th[p], dev.sel) /\ th[p].todo \in Seq(Pins)
        /\ th \in [Procs -> Frame]
    BY <1>3, InStart
  <1>5. Sound(dev') /\ faults' \in 0 .. MaxFaults
    BY <1>2, <1>3, OutTransfer
  <1>6. OwnInv'
    BY <1>1, <1>5 DEF DeviceInv, OwnInv
  <1>7. th[p].todo # <<>>
    BY <1>1, <1>4 DEF Fits
  <1>8. /\ Tail(th[p].todo) \in Seq(Pins)
        /\ Len(th[p].todo) > 1 <=> Tail(th[p].todo) # <<>>
    BY <1>4, <1>7, HeadAndTail
  <1>9. CASE Len(th[p].todo) > 1
    BY <1>1, <1>3, <1>5, <1>6, <1>8, <1>9, GoesOn DEF Starting, LockedStages
  <1>10. CASE ~(Len(th[p].todo) > 1)
    <2>1. th[p].result \in Outcomes \cup {"none"}
      BY <1>4 DEF Frame
    <2> QED  BY <1>1, <1>4, <1>5, <1>6, <1>10, <2>1, Returns DEF Finish
  <1> QED  BY <1>9, <1>10

(* A running Stream: its worker, and the thread that stops it.             *)
LEMMA StreamSteps ==
    ASSUME DeviceInv, NEW t \in Threads, NEW p \in Procs,
           \/ WorkerPoll(t) \/ StopStream(t) \/ Join(t)
           \/ PollStatus(p) \/ NothingToEnd(p) \/ EndStream(p)
    PROVE  DeviceInv'
  <1>1. App(t) \in Procs /\ Io(t) \in Procs /\ <<>> \in Seq(Pins)
    BY EmptySeq DEF App, Io, Procs
  <1>2. Sound(dev) /\ OwnInv
    BY DEF DeviceInv
  <1>3. ASSUME NEW q \in Procs, NEW s \in {"lockPoll", "lockEnd"}, Goto(q, s, <<>>),
               th[q].stage \in {"idle", "join"},
               UNCHANGED <<dev, lock, selected, streaming, handle, calls, faults>>
        PROVE  DeviceInv'
    <2>1. OwnInv' /\ Sound(dev') /\ th[q].stage \notin LockedStages /\ s \in Stages \ LockedStages
      BY <1>2, <1>3 DEF OwnInv, LockedStages, Stages
    <2>2. /\ th' \in [Procs -> Frame] /\ \A x \in Procs \ {q} : th'[x] = th[x]
          /\ th'[q].stage = s
      BY <1>1, <1>3, <2>1, GotoFrame
    <2>3. Fits(th'[q], dev'.sel)
      BY <1>3, <2>2 DEF Fits, Starting
    <2> QED  BY <1>3, <2>1, <2>2, <2>3, OneSteps
  <1>4. CASE WorkerPoll(t)
    BY <1>1, <1>3, <1>4 DEF WorkerPoll
  <1>5. CASE Join(t)
    BY <1>1, <1>3, <1>5 DEF Join
  <1>6. CASE StopStream(t)
    <2>1. /\ th[App(t)].stage = "idle" /\ handle' = [handle EXCEPT ![t] = "stopping"]
          /\ th' = [th EXCEPT ![App(t)] = [Idle EXCEPT !.stage = "join", !.call = [op |-> "STOP"]]]
          /\ UNCHANGED <<dev, lock, selected, streaming, calls, faults>>
      BY <1>6 DEF StopStream
    <2>2. PICK f : f = [Idle EXCEPT !.stage = "join", !.call = [op |-> "STOP"]]
      OBVIOUS
    <2>3. f = [stage |-> "join", call |-> [op |-> "STOP"], todo |-> <<>>, added |-> <<>>,
               tries |-> 0, stall |-> FALSE, result |-> "none"]
      BY <2>2 DEF Idle
    <2>4. f \in Frame
      <3>1. [op |-> "STOP"] \in AnyCall
        BY DEF AnyCall
      <3> QED  BY <1>1, <2>3, <3>1 DEF Frame, Stages
    <2>5. th \in [Procs -> Frame] /\ th' = [th EXCEPT ![App(t)] = f]
      BY <2>1, <2>2 DEF DeviceInv, ThreadsInv
    <2>6. /\ th' \in [Procs -> Frame] /\ th'[App(t)] = f
          /\ \A q \in Procs \ {App(t)} : th'[q] = th[q]
      BY <1>1, <2>4, <2>5
    <2>7. Fits(f, dev'.sel) /\ f.stage \notin LockedStages /\ th[App(t)].stage \notin LockedStages
      BY <2>1, <2>3 DEF Fits, Starting, LockedStages
    <2>8. OwnInv' /\ Sound(dev')
      BY <1>2, <2>1 DEF OwnInv
    <2> QED  BY <1>1, <2>1, <2>6, <2>7, <2>8, OneSteps
  <1>7. CASE PollStatus(p)
    <2>1. /\ th[p].stage = "poll" /\ th' = [th EXCEPT ![p] = Idle] /\ Unlock
          /\ UNCHANGED <<selected, streaming, handle, calls>>
      BY <1>7 DEF PollStatus
    <2>2. PICK r \in RawIn("STREAM_STATUS") : Served(r)
      BY <1>7 DEF PollStatus
    <2>3. Sound(dev') /\ faults' \in 0 .. MaxFaults /\ dev'.sel = dev.sel
      BY <2>2, InTransfer
    <2>4. OwnInv' /\ lock = p
      BY <1>2, <2>1, <2>3 DEF OwnInv, DeviceInv, MutexInv, LockedStages
    <2>5. Idle = [Idle EXCEPT !.result = "none"]
      BY DEF Idle
    <2> QED  BY <2>1, <2>3, <2>4, <2>5, Returns
  <1>8. CASE NothingToEnd(p)
    <2>1. /\ th[p].stage = "lockEnd" /\ handle' = [handle EXCEPT ![p[1]] = "none"]
          /\ Finish(p, "Ok") /\ UNCHANGED <<dev, lock, selected, streaming, calls, faults>>
      BY <1>8 DEF NothingToEnd
    <2>2. OwnInv' /\ Sound(dev') /\ th[p].stage \notin LockedStages
      BY <1>2, <2>1 DEF OwnInv, LockedStages
    <2> QED  BY <2>1, <2>2, Returns DEF Finish, Outcomes
  <1>9. CASE EndStream(p)
    <2>1. /\ th[p].stage = "end" /\ streaming' = FALSE
          /\ handle' = [handle EXCEPT ![p[1]] = "none"]
          /\ Finish(p, "Ok") /\ Unlock /\ UNCHANGED <<selected, calls>>
      BY <1>9 DEF EndStream
    <2>2. PICK r \in SendOut(p) : Served(r)
      BY <1>9 DEF EndStream
    <2>3. Sound(dev') /\ faults' \in 0 .. MaxFaults
      BY <2>1, <2>2, OutTransfer DEF OutStages
    <2>4. OwnInv' /\ lock = p
      BY <1>2, <2>1, <2>3 DEF OwnInv, DeviceInv, MutexInv, LockedStages
    <2> QED  BY <2>1, <2>3, <2>4, Returns DEF Finish, Outcomes
  <1> QED  BY <1>4, <1>5, <1>6, <1>7, <1>8, <1>9
-----------------------------------------------------------------------------
(***************************************************************************)
(* The theorems.                                                           *)
(***************************************************************************)

(* Open() has read the modes; nothing is known of the selection but that   *)
(* it is one the device can have.                                          *)
LEMMA DeviceInit ==
    ASSUME Init
    PROVE  DeviceInv
  <1>1. Sound(dev)
    <2>1. PICK s \in Leftovers, b \in BOOLEAN :
             dev = [mode |-> [p \in Pins |-> IF "AIN" \in Caps[p] THEN ANALOG_IN
                                             ELSE ResetMode(Caps[p])],
                    sel |-> s, running |-> b, err |-> "OK", queue |-> <<>>,
                    resetting |-> FALSE]
      BY DEF Init
    <2>2. s \in Seq(Pins) /\ Len(s) <= MaxChannels /\ IsInjective(s)
      OBVIOUS
    <2>3. PICK m : m = [p \in Pins |-> IF "AIN" \in Caps[p] THEN ANALOG_IN
                                       ELSE ResetMode(Caps[p])]
      OBVIOUS
    <2>4. m \in [Pins -> AnyMode]
      <3>1. \A p \in Pins : m[p] \in AnyMode
        BY <2>3 DEF AnyMode, Modes, ModeNone, ResetMode, INPUT, ANALOG_IN, MODE_COUNT
      <3> QED  BY <2>3, <3>1
    <2>5. <<>> \in Seq(Procs) /\ Len(<<>>) = 0 /\ QueueDepth \in Nat
      BY EmptySeq
    <2>6. dev = [mode |-> m, sel |-> s, running |-> b, err |-> "OK", queue |-> <<>>,
                 resetting |-> FALSE]
      BY <2>1, <2>3
    <2> QED  BY <2>2, <2>4, <2>5, <2>6 DEF Sound, Board, Statuses
  <1>2. Idle \in Frame
    <2>1. <<>> \in Seq(Pins) /\ [op |-> "none"] \in AnyCall
      BY EmptySeq DEF AnyCall
    <2> QED  BY <2>1 DEF Idle, Frame, Stages
  <1>3. th = [p \in Procs |-> Idle] /\ lock = NoOne /\ NoOne \notin Procs
    BY DEF Init
  <1>4. Idle.stage = "idle"
    BY DEF Idle
  <1>5. ThreadsInv
    BY <1>2, <1>3, <1>4 DEF ThreadsInv, Fits, Starting
  <1>6. MutexInv
    BY <1>3, <1>4 DEF MutexInv, LockedStages
  <1>7. OwnInv
    <2>1. selected = <<>> /\ streaming = FALSE /\ faults = 0 /\ handle = [t \in Threads |-> "none"]
      BY DEF Init
    <2>2. <<>> \in Seq(Pins) /\ 0 \in 0 .. MaxFaults
      BY EmptySeq
    <2> QED  BY <2>1, <2>2 DEF OwnInv
  <1> QED  BY <1>1, <1>5, <1>6, <1>7 DEF DeviceInv

(* Every step of every thread, and of the device, keeps the invariant.     *)
LEMMA DeviceNext ==
    ASSUME DeviceInv, [Next]_vars
    PROVE  DeviceInv'
  <1>1. CASE DevicePoll
    BY <1>1, PollStep
  <1>2. ASSUME NEW t \in Threads, NEW c \in Calls, Call(t, c)
        PROVE  DeviceInv'
    BY <1>2, CallStep
  <1>3. ASSUME NEW t \in Threads, StopStream(t) \/ Join(t) \/ WorkerPoll(t)
        PROVE  DeviceInv'
    <2>1. App(t) \in Procs
      BY DEF App, Procs
    <2> QED  BY <1>3, <2>1, StreamSteps
  <1>4. ASSUME NEW p \in Procs, PollStatus(p) \/ NothingToEnd(p) \/ EndStream(p)
        PROVE  DeviceInv'
    <2>1. PICK t \in Threads : TRUE
      BY DEF Procs
    <2> QED  BY <1>4, <2>1, StreamSteps
  <1>5. ASSUME NEW p \in Procs, Acquire(p)
        PROVE  DeviceInv'
    BY <1>4, <1>5, LockStep DEF Acquire
  <1>6. ASSUME NEW p \in Procs, Continue(p)
        PROVE  DeviceInv'
    <2>1. CASE Refused(p)
      BY <2>1, RefusedStep
    <2>2. CASE Out(p) \/ Forget(p)
      BY <2>2, OutStep
    <2>3. CASE ReadIn(p) \/ Sync(p)
      BY <2>3, ReadStep
    <2>4. CASE Leftover(p) \/ Halt(p)
      BY <2>4, LeftoverStep
    <2>5. CASE Drop(p) \/ ClearPin(p)
      BY <2>5, DeselectStep
    <2>6. CASE SelectPin(p)
      BY <2>6, SelectStep
    <2>7. CASE Count(p) \/ Recount(p) \/ ReadStartTime(p)
      BY <2>7, CountStep
    <2>8. CASE Start(p)
      BY <2>8, StartStep
    <2>9. CASE Undo(p)
      BY <2>9, UndoStep
    <2>10. CASE PollStatus(p) \/ EndStream(p)
      BY <1>4, <2>10
    <2> QED  BY <1>6, <2>1, <2>2, <2>3, <2>4, <2>5, <2>6, <2>7, <2>8, <2>9, <2>10 DEF Continue
  <1>7. CASE UNCHANGED vars
    BY <1>7 DEF vars, DeviceInv, Sound, ThreadsInv, MutexInv, OwnInv
  <1> QED  BY <1>1, <1>2, <1>3, <1>5, <1>6, <1>7 DEF Next

(* Whatever the threads call and whichever transfers are lost, the mutex   *)
(* is held exactly between the first and the last transfer of a method     *)
(* that takes it, and start_stream() knows what its selection can be.      *)
THEOREM DeviceInvariant == Spec => []DeviceInv
  <1>1. Init => DeviceInv
    BY DeviceInit
  <1>2. DeviceInv /\ [Next]_vars => DeviceInv'
    BY DeviceNext
  <1> QED  BY <1>1, <1>2, PTL DEF Spec

(* The types of the Device's state, a selection that names each pin once,  *)
(* a queue that never exceeds the device's depth, and the discipline of    *)
(* the stream mutex (StreamState::mutex in Device.cpp).                    *)
THEOREM MutexDiscipline == Spec => []TypeOK
  <1>1. DeviceInv => TypeOK
    <2> SUFFICES ASSUME DeviceInv
                 PROVE  TypeOK
      OBVIOUS
    <2>1. /\ dev \in Board /\ dev.sel \in Seq(Pins) /\ IsInjective(dev.sel)
          /\ Len(dev.sel) <= MaxChannels /\ Len(dev.queue) <= QueueDepth
      BY DEF DeviceInv, Sound, Board
    <2>2. Range(dev.sel) \subseteq Pins /\ Len(dev.sel) = Cardinality(Range(dev.sel))
      BY <2>1, RangeOfSeq, LenIsCount
    <2>3. dev.mode \in [Pins -> AnyMode] /\ dev.err \in Statuses
      BY <2>1 DEF Board
    <2>4. \A p \in Procs : th[p].stage \in Stages /\ th[p].result \in Outcomes \cup {"none"}
      BY DEF DeviceInv, ThreadsInv, Frame
    <2> QED  BY <2>1, <2>2, <2>3, <2>4 DEF TypeOK, DeviceInv, MutexInv, OwnInv
  <1> QED  BY <1>1, DeviceInvariant, PTL

(* A thread's place in its method is changed by its own steps alone; those *)
(* of a request are the refusal, the transfer that ends it and, for        *)
(* STREAM_START, the one that begins the stream.                           *)
LEMMA OwnSteps ==
    ASSUME DeviceInv, [Next]_vars, NEW p \in Procs, th[p].stage \in {"out", "start"}
    PROVE  th'[p] = th[p] \/ Refused(p) \/ Out(p) \/ Start(p)
  <1>0. th \in [Procs -> Frame]
    BY DEF DeviceInv, ThreadsInv
  <1>1. ASSUME NEW q \in Procs, q # p, NEW f, th' = [th EXCEPT ![q] = f]
        PROVE  th'[p] = th[p]
    BY <1>0, <1>1
  <1>7. ASSUME NEW q \in Procs, q # p, NEW s, NEW w, Goto(q, s, w)
        PROVE  th'[p] = th[p]
    BY <1>0, <1>7 DEF Goto
  <1>8. ASSUME NEW q \in Procs, q # p, NEW o, Finish(q, o)
        PROVE  th'[p] = th[p]
    BY <1>0, <1>8 DEF Finish
  <1>2. ASSUME NEW q \in Procs, q # p, Acquire(q) \/ Continue(q)
        PROVE  th'[p] = th[p]
    <2>1. CASE Lock(q) \/ NothingToEnd(q) \/ Out(q) \/ Forget(q)
      BY <1>2, <1>7, <1>8, <2>1 DEF Lock, NothingToEnd, Out, Forget
    <2>9. CASE Refused(q)
      BY <1>0, <1>2, <2>9 DEF Refused
    <2>2. CASE ReadIn(q) \/ Sync(q)
      BY <1>1, <1>2, <2>2 DEF ReadIn, Sync, Finish, Retry
    <2>3. CASE Leftover(q) \/ Halt(q)
      BY <1>1, <1>2, <2>3 DEF Leftover, Halt, Goto, Finish, GotoDrop
    <2>4. CASE Drop(q) \/ ClearPin(q)
      BY <1>1, <1>2, <2>4 DEF Drop, ClearPin, Goto, Loop
    <2>5. CASE SelectPin(q) \/ Count(q)
      BY <1>1, <1>2, <2>5, ZenonT(40) DEF SelectPin, Count, Goto, Finish, Fail
    <2>6. CASE Recount(q) \/ ReadStartTime(q)
      BY <1>1, <1>2, <2>6 DEF Recount, ReadStartTime, Goto, Finish, Fail
    <2>7. CASE Start(q) \/ Undo(q)
      BY <1>1, <1>2, <2>7 DEF Start, Undo, Goto, Finish, Fail
    <2>8. CASE PollStatus(q) \/ EndStream(q)
      BY <1>1, <1>2, <2>8 DEF PollStatus, EndStream, Finish
    <2> QED  BY <1>2, <2>1, <2>2, <2>3, <2>4, <2>5, <2>6, <2>7, <2>8, <2>9 DEF Acquire, Continue
  <1>3. ASSUME Acquire(p) \/ Continue(p)
        PROVE  Refused(p) \/ Out(p) \/ Start(p)
    BY <1>3 DEF Acquire, Continue, Lock, NothingToEnd, Forget, ReadIn, Sync, Leftover, Halt, Drop,
                SelectPin, Count, ClearPin, Recount, ReadStartTime, Undo, PollStatus, EndStream
  <1>4. ASSUME NEW t \in Threads, NEW c, Call(t, c)
        PROVE  th'[p] = th[p]
    <2>1. App(t) \in Procs /\ th[App(t)].stage = "idle"
      BY <1>4 DEF App, Procs, Call
    <2> QED  BY <1>1, <1>4, <2>1 DEF Call, Finish
  <1>5. ASSUME NEW t \in Threads, StopStream(t) \/ Join(t) \/ WorkerPoll(t)
        PROVE  th'[p] = th[p]
    <2>1. App(t) \in Procs /\ Io(t) \in Procs
      BY DEF App, Io, Procs
    <2>2. CASE StopStream(t) \/ Join(t)
      <3>1. th[App(t)].stage \in {"idle", "join"}
        BY <2>2 DEF StopStream, Join
      <3> QED  BY <1>1, <1>7, <2>1, <2>2, <3>1 DEF StopStream, Join
    <2>3. CASE WorkerPoll(t)
      <3>1. th[Io(t)].stage = "idle"
        BY <2>3 DEF WorkerPoll
      <3> QED  BY <1>7, <2>1, <2>3, <3>1 DEF WorkerPoll
    <2> QED  BY <1>5, <2>2, <2>3
  <1>6. CASE DevicePoll \/ UNCHANGED vars
    BY <1>6 DEF DevicePoll, vars
  <1> QED  BY <1>2, <1>3, <1>4, <1>5, <1>6 DEF Next

(* A refused request never returns normally, and a refused RESET never     *)
(* clears the list of selected pins: send_out() makes a STALL whose reason *)
(* another thread's GET_STATUS has taken a StallError (Device.cpp).        *)
THEOREM RefusalsAreReported == Spec => RefusalIsReported
  <1>1. ASSUME DeviceInv, [Next]_vars, NEW p \in Procs,
               th[p].stage \in {"out", "start"}, th[p].stall
        PROVE  ~Ends(p, "Ok") /\ th'[p].stage # "forget"
    <2>1. th'[p] = th[p] \/ Refused(p) \/ Out(p) \/ Start(p)
      BY <1>1, OwnSteps
    <2>2. CASE th'[p] = th[p]
      BY <1>1, <2>2 DEF Ends
    <2>3. ~Refused(p)
      BY <1>1 DEF Refused
    <2>4. ASSUME NEW r \in SendOut(p), Served(r)
          PROVE  r.outcome \in Outcomes \ {"Ok"}
      BY <1>1, <2>4, OutTransfer DEF OutStages
    <2>5. CASE Out(p)
      <3>1. PICK r \in SendOut(p) :
               /\ Served(r)
               /\ IF th[p].call.op = "RESET" /\ r.outcome = "Ok" THEN Goto(p, "forget", <<>>)
                  ELSE Finish(p, r.outcome)
        BY <2>5 DEF Out
      <3>2. r.outcome \in Outcomes \ {"Ok"}
        BY <2>4, <3>1
      <3>3. th' = [th EXCEPT ![p] = [Idle EXCEPT !.result = r.outcome]]
        BY <3>1, <3>2 DEF Finish
      <3>4. th'[p].stage = "idle" /\ th'[p].result = r.outcome
        BY <1>1, <3>2, <3>3, FinishFrame
      <3> QED  BY <3>2, <3>4 DEF Ends
    <2>6. CASE Start(p)
      <3>1. PICK r \in SendOut(p) :
               /\ Served(r) /\ th[p].stage = "start"
               /\ r.outcome # "Ok" => Fail(p, r.outcome, th[p].added)
        BY <2>6 DEF Start
      <3>2. r.outcome \in Outcomes \ {"Ok"} /\ Fail(p, r.outcome, th[p].added)
        BY <2>4, <3>1
      <3>3. CASE th' = [th EXCEPT ![p] = [Idle EXCEPT !.result = r.outcome]]
        <4>1. th'[p].stage = "idle" /\ th'[p].result = r.outcome
          BY <1>1, <3>2, <3>3, FinishFrame
        <4> QED  BY <3>2, <4>1 DEF Ends
      <3>4. CASE th' = [th EXCEPT ![p].stage = "undo", ![p].todo = Reverse(th[p].added),
                                  ![p].stall = FALSE, ![p].result = r.outcome]
        <4>1. th \in [Procs -> Frame]
          BY <1>1 DEF DeviceInv, ThreadsInv
        <4>2. th'[p].stage = "undo"
          BY <3>4, <4>1 DEF Frame
        <4> QED  BY <4>2 DEF Ends
      <3> QED  BY <3>2, <3>3, <3>4 DEF Fail, Finish
    <2> QED  BY <2>1, <2>2, <2>3, <2>5, <2>6
  <1>2. DeviceInv /\ [Next]_vars
          => [\A p \in Procs :
                 th[p].stage \in {"out", "start"} /\ th[p].stall
                     => ~Ends(p, "Ok") /\ th'[p].stage # "forget"]_vars
    BY <1>1
  <1> QED  BY <1>2, DeviceInvariant, PTL DEF Spec, RefusalIsReported

(* start_stream() that succeeds has the device sample exactly the pins it  *)
(* was asked for: its count was of them alone, no other thread selects     *)
(* under the mutex, and a RESET in between makes STREAM_START fail.        *)
THEOREM StreamSamplesWhatWasAsked == Spec => StartedAsAsked
  <1>1. ASSUME DeviceInv, [Next]_vars, NEW p \in Procs, Ends(p, "Ok"), th[p].stage = "start"
        PROVE  dev'.running /\ Range(dev'.sel) = StartPins(th[p].call)
    <2>1. th'[p] = th[p] \/ Refused(p) \/ Out(p) \/ Start(p)
      BY <1>1, OwnSteps
    <2>2. th'[p] # th[p] /\ ~Out(p)
      BY <1>1 DEF Ends, Out
    <2>3. th \in [Procs -> Frame] /\ Fits(th[p], dev.sel)
      BY <1>1 DEF DeviceInv, ThreadsInv
    <2>4. ~Refused(p)
      <3>1. ASSUME Refused(p)
            PROVE  th'[p].stage = "start"
        BY <1>1, <2>3, <3>1 DEF Refused, Frame
      <3> QED  BY <1>1, <3>1 DEF Ends
    <2>5. PICK r \in SendOut(p) :
             Served(r) /\ (r.outcome # "Ok" => Fail(p, r.outcome, th[p].added))
      BY <2>1, <2>2, <2>4 DEF Start
    <2>6. CASE r.outcome = "Ok"
      <3>1. Refusal(dev, Request(p)) = "OK" /\ dev' = Effect(dev, Request(p))
        BY <1>1, <2>5, <2>6, OutTransfer DEF OutStages
      <3>2. /\ Request(p).by = p /\ Request(p).op = "STREAM_START" /\ Sound(dev)
        BY <1>1, RequestOf DEF OutStages, DeviceInv
      <3>3. dev'.sel = dev.sel /\ dev'.running /\ dev.sel # <<>>
        BY <3>1, <3>2, EffectSound
      <3> QED  BY <1>1, <2>3, <3>3 DEF Fits
    <2>7. CASE r.outcome # "Ok"
      <3>1. Fail(p, r.outcome, th[p].added) /\ r.outcome \in Outcomes
        BY <1>1, <2>5, <2>7, OutTransfer DEF OutStages
      <3>2. CASE th' = [th EXCEPT ![p] = [Idle EXCEPT !.result = r.outcome]]
        <4>1. th'[p].result = r.outcome
          BY <1>1, <3>1, <3>2, FinishFrame
        <4> QED  BY <1>1, <2>7, <4>1 DEF Ends
      <3>3. CASE th' = [th EXCEPT ![p].stage = "undo", ![p].todo = Reverse(th[p].added),
                                  ![p].stall = FALSE, ![p].result = r.outcome]
        <4>1. th'[p].stage = "undo"
          BY <2>3, <3>3 DEF Frame
        <4> QED  BY <1>1, <4>1 DEF Ends
      <3> QED  BY <3>1, <3>2, <3>3 DEF Fail, Finish
    <2> QED  BY <2>6, <2>7
  <1>2. DeviceInv /\ [Next]_vars
          => [\A p \in Procs : Ends(p, "Ok") /\ th[p].stage = "start"
                 => dev'.running /\ Range(dev'.sel) = StartPins(th[p].call)]_vars
    BY <1>1
  <1> QED  BY <1>2, DeviceInvariant, PTL DEF Spec, StartedAsAsked
===============================================================================
