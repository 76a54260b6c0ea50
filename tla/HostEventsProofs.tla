---------------------------- MODULE HostEventsProofs ----------------------------
(***************************************************************************)
(* What holds of opening a board, and of watching its pins, for any bus,   *)
(* list of pins and ring, and any bounds.                                  *)
(***************************************************************************)
EXTENDS HostEvents, FiniteSetTheorems, SequenceTheorems, WellFoundedInduction, TLAPS

-----------------------------------------------------------------------------
(***************************************************************************)
(* Opening.                                                                *)
(***************************************************************************)

(* A device the call is looking for.                                       *)
Sought(i) ==
    /\ Bus[i].usbio /\ Candidate(Bus[i])
    /\ Serial = "any" \/ Bus[i].serial = Serial

(* The empty serial, that of every device whose serial could not be read,  *)
(* is not asked for.                                                       *)
SerialAsked == Serial # ""

(* What listing may say of a device: one it identified runs UsbIo, and its *)
(* serial is the device's own or could not be read.                        *)
Entries ==
    {e \in [dev : DOMAIN Bus, identified : BOOLEAN,
            serial : {Bus[i].serial : i \in DOMAIN Bus} \cup {""}] :
        e.identified => Bus[e.dev].usbio /\ e.serial \in {Bus[e.dev].serial, ""}}

(* A handle belongs to a device of the bus and dies with a failure.        *)
HandlePart ==
    /\ at \in Nat \ {0}
    /\ usb # "none" => at \in DOMAIN Bus
    /\ phase = "failed" => usb = "none"
    /\ error = "DeviceNotFound" => phase = "failed"

(* A device that listing has passed kept silent or is among its entries.   *)
Met(i) ==
    \/ i \in silent
    \/ \E k \in 1 .. Len(found) :
          found[k] = [dev |-> i, identified |-> TRUE, serial |-> Bus[i].serial]

ListPart ==
    /\ found \in Seq(Entries)
    /\ Probing => \A i \in DOMAIN Bus : i < at /\ Sought(i) => Met(i)
    /\ error = "DeviceNotFound" => \A i \in DOMAIN Bus : Sought(i) => i \in silent

(* The device in hand is the one asked for, and its answers are taken only *)
(* with its interface claimed, in its version of the protocol, and once    *)
(* its sketch has reached begin().                                         *)
ChosenPart ==
    /\ phase \in {"found", "info", "partial", "caps", "ready"} =>
          /\ at \in DOMAIN Bus /\ Bus[at].usbio
          /\ Serial \in {"any", Bus[at].serial}
    /\ phase \in {"partial", "caps", "ready"} =>
          Asking /\ Bus[at].info.version = 1
    /\ phase \in {"partial", "caps"} => at \in begun \cup starting
    /\ phase = "caps" => at \in begun

OpenInv == HandlePart /\ ListPart /\ ChosenPart

(* The bus is a sequence.                                                  *)
(* A set of natural numbers that is not empty has a least element.         *)
LEMMA Least ==
    ASSUME NEW S \in SUBSET Nat, S # {}
    PROVE  \E n \in S : \A m \in S : n <= m
  <1> DEFINE R == OpToRel(<, Nat)
  <1>1. IsWellFoundedOn(R, Nat)
    BY NatLessThanWellFounded
  <1>2. \A x, y \in Nat : x < y => <<x, y>> \in R
    BY DEF OpToRel
  <1> HIDE DEF R
  <1>3. PICK n \in S : \A m \in S : ~ (<<m, n>> \in R)
    BY <1>1, WFMin
  <1>4. \A m \in S : n <= m
    <2> TAKE m \in S
    <2>1. m \in Nat /\ n \in Nat
      OBVIOUS
    <2>2. ~ (m < n)
      BY <1>2, <1>3, <2>1
    <2> QED  BY <2>1, <2>2
  <1> QED  BY <1>4

(* A set with 0, and with the successor of each number it has, has all.    *)
LEMMA Induction ==
    ASSUME NEW S, 0 \in S, \A n \in Nat : n \in S => n + 1 \in S
    PROVE  \A n \in Nat : n \in S
  <1> DEFINE Rest == {n \in Nat : n \notin S}
  <1>1. ASSUME Rest # {}
        PROVE  FALSE
    <2>1. PICK n \in Rest : \A m \in Rest : n <= m
      <3>1. Rest \in SUBSET Nat
        OBVIOUS
      <3> HIDE DEF Rest
      <3> QED  BY <1>1, <3>1, Least
    <2>2. n - 1 \in Nat /\ n - 1 \notin Rest
      BY <2>1
    <2> QED  BY <2>1, <2>2
  <1> QED  BY <1>1

LEMMA BusPlaces ==
    /\ Len(Bus) \in Nat /\ DOMAIN Bus = 1 .. Len(Bus)
    /\ \A i \in DOMAIN Bus : i \in Nat \ {0} /\ i <= Len(Bus)
  <1>1. Len(Bus) \in Nat /\ DOMAIN Bus = 1 .. Len(Bus)
    BY OpenAssumption
  <1> DEFINE n == Len(Bus)
  <1> HIDE DEF n
  <1>2. n \in Nat /\ DOMAIN Bus = 1 .. n
    BY <1>1 DEF n
  <1>3. \A i \in DOMAIN Bus : i \in Nat \ {0} /\ i <= n
    BY <1>2
  <1> QED  BY <1>2, <1>3 DEF n

(* No error of a transfer is the one that says no device was found.        *)
LEMMA OtherError ==
    ASSUME NEW code
    PROVE  UsbException(code) # "DeviceNotFound"
  BY DEF UsbException

(* Adding an entry to the list keeps those it has.                         *)
LEMMA EntryAdded ==
    ASSUME found \in Seq(Entries), NEW e \in Entries
    PROVE  /\ Append(found, e) \in Seq(Entries)
           /\ Append(found, e)[Len(found) + 1] = e
           /\ Len(found) \in Nat /\ Len(Append(found, e)) = Len(found) + 1
           /\ \A k \in 1 .. Len(found) : Append(found, e)[k] = found[k]
  <1> DEFINE S == Entries
  <1> HIDE DEF S
  <1>1. \A s \in Seq(S), x \in S :
            /\ Append(s, x) \in Seq(S) /\ Append(s, x)[Len(s) + 1] = x
            /\ Len(s) \in Nat /\ Len(Append(s, x)) = Len(s) + 1
            /\ \A k \in 1 .. Len(s) : Append(s, x)[k] = s[k]
    BY AppendProperties, LenProperties
  <1> QED  BY <1>1 DEF S

(* A device that was met stays met while the lists only grow.              *)
LEMMA MetStays ==
    ASSUME found \in Seq(Entries), NEW i, Met(i),
           silent \subseteq silent',
           \/ found' = found
           \/ \E e \in Entries : found' = Append(found, e)
    PROVE  Met(i)'
  <1>1. CASE i \in silent
    BY <1>1 DEF Met
  <1>2. CASE \E k \in 1 .. Len(found) :
                 found[k] = [dev |-> i, identified |-> TRUE, serial |-> Bus[i].serial]
    <2>1. PICK k \in 1 .. Len(found) :
                 found[k] = [dev |-> i, identified |-> TRUE, serial |-> Bus[i].serial]
      BY <1>2
    <2>2. CASE found' = found
      BY <2>1, <2>2 DEF Met
    <2>3. CASE \E e \in Entries : found' = Append(found, e)
      <3>1. PICK e \in Entries : found' = Append(found, e)
        BY <2>3
      <3>2. Len(found) \in Nat /\ Len(found') = Len(found) + 1 /\ found'[k] = found[k]
        BY <3>1, <2>1, EntryAdded
      <3>3. k \in 1 .. Len(found')
        BY <3>2, <2>1
      <3> QED  BY <3>2, <3>3, <2>1 DEF Met
    <2> QED  BY <2>2, <2>3
  <1> QED  BY <1>1, <1>2 DEF Met

-----------------------------------------------------------------------------
(* The operations of the listing.                                          *)

(* A device that has no business here is passed.                           *)
LEMMA SkipKeeps ==
    ASSUME OpenInv, SkipDevice
    PROVE  OpenInv'
  <1>1. HandlePart'
    BY DEF OpenInv, HandlePart, SkipDevice, Probing
  <1>2. ListPart'
    <2>1. \A i \in DOMAIN Bus : i < at + 1 /\ Sought(i) => Met(i)
      <3> TAKE i \in DOMAIN Bus
      <3>1. CASE i = at
        BY <3>1 DEF SkipDevice, Sought
      <3>2. CASE i # at
        BY <3>2, BusPlaces DEF OpenInv, HandlePart, ListPart, SkipDevice
      <3> QED  BY <3>1, <3>2
    <2>2. \A i : Met(i) => Met(i)'
      BY DEF Met, SkipDevice
    <2>3. found' = found /\ silent' = silent /\ error' = error /\ at' = at + 1
      BY DEF SkipDevice
    <2>4. \A i : Sought(i)' <=> Sought(i)
      BY DEF Sought
    <2> QED  BY <2>1, <2>2, <2>3 DEF OpenInv, ListPart, Sought
  <1>3. ChosenPart'
    BY DEF OpenInv, ChosenPart, SkipDevice, Probing
  <1> QED  BY <1>1, <1>2, <1>3 DEF OpenInv

(* Opening and claiming change the handle, on a device of the bus, and     *)
(* never the one of a device that is already asked.                        *)
LEMMA HandleKeeps ==
    ASSUME OpenInv, OpenHandle \/ ClaimInterface
    PROVE  OpenInv'
  <1>1. HandlePart'
    BY DEF OpenInv, HandlePart, OpenHandle, ClaimInterface
  <1>2. ListPart'
    BY DEF OpenInv, ListPart, OpenHandle, ClaimInterface, Probing, Met
  <1>3. ChosenPart'
    <2>1. CASE OpenHandle
      BY <2>1 DEF OpenInv, ChosenPart, OpenHandle
    <2>2. CASE ClaimInterface
      BY <2>2 DEF OpenInv, HandlePart, ChosenPart, ClaimInterface, Asking
    <2> QED  BY <2>1, <2>2
  <1> QED  BY <1>1, <1>2, <1>3 DEF OpenInv

(* A device that fails its probe has kept silent.                          *)
LEMMA FailsKeeps ==
    ASSUME OpenInv, NEW code, NEW short, ProbeFails(code, short)
    PROVE  OpenInv'
  <1>1. at \in DOMAIN Bus /\ at' = at + 1 /\ phase' = "list" /\ phase = "list"
    BY DEF ProbeFails, Probing
  <1>2. HandlePart'
    <2>1. usb' = "none" /\ error' = error
      BY DEF ProbeFails, Close
    <2> QED  BY <1>1, <2>1 DEF OpenInv, HandlePart
  <1>3. \/ found' = found
        \/ \E e \in Entries : found' = Append(found, e)
    <2>1. \A serial \in {Bus[at].serial, ""} :
             [dev |-> at, identified |-> Bus[at].itf, serial |-> serial] \in Entries
      BY <1>1, OpenAssumption DEF Entries
    <2>2. \/ found' = found
          \/ \E serial \in {Bus[at].serial, ""} : found' = Listed(Bus[at].itf, serial)
      BY DEF ProbeFails
    <2> QED  BY <2>1, <2>2 DEF Listed
  <1>4. silent' = silent \cup {at}
    BY DEF ProbeFails
  <1>5. found \in Seq(Entries) /\ found' \in Seq(Entries)
    BY <1>3, EntryAdded DEF OpenInv, ListPart
  <1>6. \A i \in DOMAIN Bus : i < at + 1 /\ Sought(i) => Met(i)'
    <2> TAKE i \in DOMAIN Bus
    <2>1. CASE i = at
      BY <1>4, <2>1 DEF Met
    <2>2. CASE i # at
      <3>1. i < at + 1 => i < at
        BY <2>2, BusPlaces DEF OpenInv, HandlePart
      <3>2. Met(i) => Met(i)'
        BY <1>3, <1>4, <1>5, MetStays
      <3> QED  BY <1>1, <3>1, <3>2 DEF OpenInv, ListPart, Probing
    <2> QED  BY <2>1, <2>2
  <1>7. error' = error /\ error # "DeviceNotFound"
    BY <1>1 DEF OpenInv, HandlePart, ProbeFails
  <1>8. ListPart'
    BY <1>1, <1>5, <1>6, <1>7 DEF ListPart, Sought
  <1>9. ChosenPart'
    BY <1>1 DEF ChosenPart
  <1> QED  BY <1>2, <1>8, <1>9 DEF OpenInv

(* One that answers is listed with its serial, or has kept that silent.    *)
LEMMA AnswersKeeps ==
    ASSUME OpenInv, ProbeAnswers
    PROVE  OpenInv'
  <1>1. /\ at \in DOMAIN Bus /\ at' = at + 1 /\ phase' = "list" /\ phase = "list"
        /\ Bus[at].usbio
    BY DEF OpenInv, HandlePart, ProbeAnswers, Probing, Asking
  <1>2. HandlePart'
    <2>1. usb' = "none" /\ error' = error
      BY DEF ProbeAnswers, Close
    <2> QED  BY <1>1, <2>1 DEF OpenInv, HandlePart
  <1>3. PICK s :
            /\ s \in {Bus[at].serial, ""}
            /\ found' = Listed(TRUE, s)
            /\ silent' = IF s = "" THEN silent \cup {at} ELSE silent
    BY DEF ProbeAnswers
  <1> DEFINE e == [dev |-> at, identified |-> TRUE, serial |-> s]
  <1>4. e \in Entries /\ found' = Append(found, e)
    BY <1>1, <1>3 DEF Entries, Listed
  <1> HIDE DEF e
  <1>5. found \in Seq(Entries) /\ found' \in Seq(Entries)
    BY <1>4, EntryAdded DEF OpenInv, ListPart
  <1>6. \A i \in DOMAIN Bus : i < at + 1 /\ Sought(i) => Met(i)'
    <2> TAKE i \in DOMAIN Bus
    <2>1. CASE i = at /\ s = ""
      BY <1>3, <2>1 DEF Met
    <2>2. CASE i = at /\ s # ""
      <3>1. e = [dev |-> i, identified |-> TRUE, serial |-> Bus[i].serial]
        BY <1>3, <2>2 DEF e
      <3>2. /\ Len(found) \in Nat /\ Len(found') = Len(found) + 1
            /\ found'[Len(found) + 1] = e
        BY <1>4, <1>5, EntryAdded
      <3>3. Len(found) + 1 \in 1 .. Len(found')
        <4>1. \A n \in Nat : n + 1 \in 1 .. n + 1
          OBVIOUS
        <4> QED  BY <3>2, <4>1
      <3> QED  BY <3>1, <3>2, <3>3 DEF Met
    <2>3. CASE i # at
      <3>1. i < at + 1 => i < at
        <4>1. i \in Int /\ at \in Int
          BY <1>1, BusPlaces DEF OpenInv, HandlePart
        <4> QED  BY <2>3, <4>1
      <3>2. silent \subseteq silent'
        BY <1>3
      <3>3. Met(i) => Met(i)'
        BY <1>4, <1>5, <3>2, MetStays
      <3> QED  BY <1>1, <3>1, <3>3 DEF OpenInv, ListPart, Probing
    <2> QED  BY <2>1, <2>2, <2>3
  <1>7. error' = error /\ error # "DeviceNotFound"
    BY <1>1 DEF OpenInv, HandlePart, ProbeAnswers
  <1>8. ListPart'
    BY <1>1, <1>5, <1>6, <1>7 DEF ListPart, Sought
  <1>9. ChosenPart'
    BY <1>1 DEF ChosenPart
  <1> QED  BY <1>2, <1>8, <1>9 DEF OpenInv

-----------------------------------------------------------------------------
(* The operations of the choice.                                           *)

(* Whoever throws closes the handle, and has not found a device missing.   *)
LEMMA ThrowKeeps ==
    ASSUME OpenInv, NEW e, e # "DeviceNotFound", Throw(e),
           UNCHANGED <<at, found, starting, begun, tries, silent>>
    PROVE  OpenInv'
  <1>1. phase' = "failed" /\ usb' = "none" /\ error' = e
    BY DEF Throw, Close
  <1>2. HandlePart'
    BY <1>1 DEF OpenInv, HandlePart
  <1>3. ListPart'
    BY <1>1 DEF OpenInv, ListPart, Probing
  <1>4. ChosenPart'
    BY <1>1 DEF ChosenPart
  <1> QED  BY <1>2, <1>3, <1>4 DEF OpenInv

(* The first entry that will do names a device that was asked for; if none *)
(* will, every such device has kept silent.                                *)
LEMMA PickKeeps ==
    ASSUME SerialAsked, OpenInv, Pick
    PROVE  OpenInv'
  <1> DEFINE good == {i \in DOMAIN found : Wanted(found[i])}
  <1>1. phase = "list" /\ at \notin DOMAIN Bus /\ usb = "none" /\ error # "DeviceNotFound"
    BY DEF OpenInv, HandlePart, Pick, Probing
  <1>2. /\ Len(found) \in Nat /\ DOMAIN found = 1 .. Len(found)
        /\ \A k \in 1 .. Len(found) : found[k] \in Entries
    <2> DEFINE S == Entries
    <2>1. found \in Seq(S)
      BY DEF OpenInv, ListPart
    <2> HIDE DEF S
    <2>2. Len(found) \in Nat /\ DOMAIN found = 1 .. Len(found)
          /\ \A k \in 1 .. Len(found) : found[k] \in S
      BY <2>1, ElementOfSeq, LenProperties
    <2> QED  BY <2>2 DEF S
  <1>3. UNCHANGED <<found, starting, begun, tries, silent>>
    BY DEF Pick
  <1>4. CASE good = {}
    <2>1. phase' = "failed" /\ error' = "DeviceNotFound" /\ usb' = "none" /\ at' = at
      BY <1>4 DEF Pick, Throw, Close
    <2>2. HandlePart'
      BY <2>1 DEF OpenInv, HandlePart
    <2>3. \A i \in DOMAIN Bus : Sought(i) => i \in silent
      <3> SUFFICES ASSUME NEW i \in DOMAIN Bus, Sought(i)
                   PROVE  i \in silent
        OBVIOUS
      <3>1. i < at
        <4> DEFINE n == Len(Bus)
        <4>1. n \in Nat /\ DOMAIN Bus = 1 .. n
          BY BusPlaces
        <4> HIDE DEF n
        <4>2. i \in 1 .. n
          BY <4>1
        <4>3. at \in Nat \ {0}
          BY DEF OpenInv, HandlePart
        <4>4. ~(at \in 1 .. n)
          BY <1>1, <4>1
        <4>5. \A a, b : a \in 1 .. n /\ b \in Nat \ {0} /\ ~(b \in 1 .. n) => a < b
          BY <4>1
        <4> QED  BY <4>2, <4>3, <4>4, <4>5
      <3>2. Met(i)
        BY <1>1, <3>1 DEF OpenInv, ListPart, Probing
      <3>3. ASSUME NEW k \in 1 .. Len(found),
                   found[k] = [dev |-> i, identified |-> TRUE, serial |-> Bus[i].serial]
            PROVE  FALSE
        <4>1. found[k].identified
          BY <3>3
        <4>2. found[k].serial = Bus[i].serial
          BY <3>3
        <4>3. Wanted(found[k])
          BY <4>1, <4>2 DEF Wanted, Sought
        <4> QED  BY <1>2, <1>4, <4>3
      <3> QED  BY <3>2, <3>3 DEF Met
    <2>4. ListPart'
      BY <1>3, <2>1, <2>3 DEF OpenInv, ListPart, Probing, Sought
    <2>5. ChosenPart'
      BY <2>1 DEF ChosenPart
    <2> QED  BY <2>2, <2>4, <2>5 DEF OpenInv
  <1>5. CASE good # {}
    <2>1. \E i \in good : \A j \in good : i <= j
      <3> DEFINE n == Len(found)
      <3>0. n \in Nat /\ DOMAIN found = 1 .. n
        BY <1>2
      <3> HIDE DEF n
      <3>1. \A i \in DOMAIN found : i \in Nat
        BY <3>0
      <3>2. good \in SUBSET Nat
        BY <3>1, Zenon
      <3> HIDE DEF good
      <3> QED  BY <1>5, <3>2, Least
    <2>2. PICK k \in good : at' = found[k].dev
      BY <1>5, <2>1 DEF Pick
    <2>3. phase' = "found" /\ error' = error /\ usb' = usb
      BY <1>5 DEF Pick
    <2>4. k \in 1 .. Len(found) /\ found[k].identified
          /\ (Serial = "any" \/ found[k].serial = Serial)
      BY <1>2, <2>2 DEF Wanted
    <2>5. /\ found[k].dev \in DOMAIN Bus /\ Bus[found[k].dev].usbio
          /\ found[k].serial \in {Bus[found[k].dev].serial, ""}
      <3>1. found[k] \in Entries
        BY <1>2, <2>4
      <3> QED  BY <2>4, <3>1 DEF Entries
    <2>6. at' \in DOMAIN Bus /\ Bus[at'].usbio /\ Serial \in {"any", Bus[at'].serial}
      BY <2>2, <2>4, <2>5 DEF SerialAsked
    <2>7. HandlePart'
      BY <1>1, <2>3, <2>6, BusPlaces DEF HandlePart
    <2>8. ListPart'
      BY <1>1, <1>3, <2>3 DEF OpenInv, ListPart, Probing, Sought
    <2>9. ChosenPart'
      BY <2>3, <2>6 DEF ChosenPart
    <2> QED  BY <2>7, <2>8, <2>9 DEF OpenInv
  <1> QED  BY <1>4, <1>5

(* The answers of the board that was chosen.                               *)
LEMMA InfoKeeps ==
    ASSUME OpenInv, LoadInfo
    PROVE  OpenInv'
  <1>1. phase \in {"found", "info"} /\ Asking /\ Bus[at].info.version = 1
    BY DEF LoadInfo, InfoWrong
  <1>2. UNCHANGED <<at, found, starting, begun, silent>>
    BY DEF LoadInfo
  <1>3. CASE at \in begun \cup starting
    <2>1. /\ phase' = IF at \in begun THEN "caps" ELSE "partial"
          /\ error' = error /\ usb' = usb
      BY <1>3 DEF LoadInfo
    <2>2. HandlePart'
      BY <1>1, <1>2, <2>1 DEF OpenInv, HandlePart
    <2>3. ListPart'
      BY <1>1, <1>2, <2>1 DEF OpenInv, ListPart, Probing, Sought, Met
    <2>4. ChosenPart'
      BY <1>1, <1>2, <1>3, <2>1 DEF OpenInv, ChosenPart, Asking
    <2> QED  BY <2>2, <2>3, <2>4 DEF OpenInv
  <1>4. CASE at \notin begun \cup starting /\ tries + 1 >= ReadyAttempts
    <2>1. Throw("NotReady") /\ UNCHANGED tries
      BY <1>4 DEF LoadInfo
    <2> QED  BY <1>2, <2>1, ThrowKeeps
  <1>5. CASE at \notin begun \cup starting /\ ~(tries + 1 >= ReadyAttempts)
    <2>1. phase' = "info" /\ error' = error /\ usb' = usb
      BY <1>5 DEF LoadInfo
    <2>2. HandlePart'
      BY <1>1, <1>2, <2>1 DEF OpenInv, HandlePart
    <2>3. ListPart'
      BY <1>1, <1>2, <2>1 DEF OpenInv, ListPart, Probing, Sought, Met
    <2>4. ChosenPart'
      BY <1>1, <1>2, <2>1 DEF OpenInv, ChosenPart
    <2> QED  BY <2>2, <2>3, <2>4 DEF OpenInv
  <1> QED  BY <1>3, <1>4, <1>5

(* With the capabilities the Device is ready.                              *)
LEMMA CapsKeeps ==
    ASSUME OpenInv, LoadCaps
    PROVE  OpenInv'
  <1>1. phase \in {"partial", "caps"} /\ phase' = "ready" /\ found' = <<>>
    BY DEF LoadCaps
  <1>2. at' = at /\ usb' = usb /\ error' = error /\ error # "DeviceNotFound"
    BY <1>1 DEF OpenInv, HandlePart, LoadCaps
  <1>3. HandlePart'
    BY <1>1, <1>2 DEF OpenInv, HandlePart
  <1>4. ListPart'
    <2> DEFINE S == Entries
    <2>1. <<>> \in Seq(S)
      OBVIOUS
    <2> QED  BY <1>1, <1>2, <2>1 DEF ListPart, Probing
  <1>5. ChosenPart'
    BY <1>1, <1>2 DEF OpenInv, ChosenPart, Asking
  <1> QED  BY <1>3, <1>4, <1>5 DEF OpenInv

(* Sketches start at any moment, and a caller tries again.                 *)
LEMMA OthersKeep ==
    ASSUME OpenInv, Reopen \/ \E i \in DOMAIN Bus : BeginStarts(i) \/ BeginEnds(i)
    PROVE  OpenInv'
  <1>1. CASE Reopen
    <2>1. /\ phase' = "list" /\ at' = 1 /\ found' = <<>> /\ error' = "none"
          /\ usb' = "none"
      BY <1>1 DEF OpenInv, HandlePart, Reopen
    <2>2. HandlePart'
      BY <2>1 DEF HandlePart
    <2>3. ListPart'
      <3> DEFINE S == Entries
      <3>1. <<>> \in Seq(S)
        OBVIOUS
      <3>2. \A i \in DOMAIN Bus : ~(i < 1)
        BY BusPlaces
      <3> QED  BY <2>1, <3>1, <3>2 DEF ListPart
    <2>4. ChosenPart'
      BY <2>1 DEF ChosenPart
    <2> QED  BY <2>2, <2>3, <2>4 DEF OpenInv
  <1>2. CASE \E i \in DOMAIN Bus : BeginStarts(i) \/ BeginEnds(i)
    <2>1. PICK i \in DOMAIN Bus : BeginStarts(i) \/ BeginEnds(i)
      BY <1>2
    <2>2. /\ UNCHANGED <<phase, at, usb, found, tries, error, silent>>
          /\ begun \subseteq begun' /\ begun \cup starting \subseteq begun' \cup starting'
      BY <2>1 DEF BeginStarts, BeginEnds
    <2>3. HandlePart'
      BY <2>2 DEF OpenInv, HandlePart
    <2>4. ListPart'
      BY <2>2 DEF OpenInv, ListPart, Probing, Sought, Met
    <2>5. ChosenPart'
      BY <2>2 DEF OpenInv, ChosenPart, Asking
    <2> QED  BY <2>3, <2>4, <2>5 DEF OpenInv
  <1> QED  BY <1>1, <1>2

(* Every step keeps the invariant; those of the watcher leave the opening  *)
(* alone.                                                                  *)
LEMMA OpenStep ==
    ASSUME SerialAsked, OpenInv, [Next]_vars
    PROVE  OpenInv'
  <1>1. CASE UNCHANGED openVars
    <2>1. UNCHANGED <<phase, at, usb, found, starting, begun, tries, error, silent>>
      BY <1>1 DEF openVars
    <2>2. HandlePart'
      BY <2>1 DEF OpenInv, HandlePart
    <2>3. ListPart'
      BY <2>1 DEF OpenInv, ListPart, Probing, Sought, Met
    <2>4. ChosenPart'
      BY <2>1 DEF OpenInv, ChosenPart, Asking
    <2> QED  BY <2>2, <2>3, <2>4 DEF OpenInv
  <1>2. CASE OpenNext
    <2>1. CASE SkipDevice
      BY <2>1, SkipKeeps
    <2>2. CASE OpenHandle \/ ClaimInterface
      BY <2>2, HandleKeeps
    <2>3. CASE ProbeStep
      <3>1. CASE ProbeAnswers
        BY <3>1, AnswersKeeps
      <3>2. ASSUME NEW code, NEW short, ProbeFails(code, short)
            PROVE  OpenInv'
        BY <3>2, FailsKeeps
      <3> QED  BY <2>3, <3>1, <3>2 DEF ProbeStep
    <2>4. CASE Pick
      BY <2>4, PickKeeps
    <2>5. ASSUME NEW code, OpenFails(code)
          PROVE  OpenInv'
      <3>1. Throw(UsbException(code))
            /\ UNCHANGED <<at, found, starting, begun, tries, silent>>
        BY <2>5 DEF OpenFails
      <3> QED  BY <3>1, OtherError, ThrowKeeps
    <2>6. CASE LoadInfo
      BY <2>6, InfoKeeps
    <2>7. CASE Inconsistent
      <3>1. Throw("ProtocolError")
            /\ UNCHANGED <<at, found, starting, begun, tries, silent>>
        BY <2>7 DEF Inconsistent
      <3> QED  BY <3>1, ThrowKeeps
    <2>8. CASE LoadCaps
      BY <2>8, CapsKeeps
    <2>9. CASE Reopen \/ \E i \in DOMAIN Bus : BeginStarts(i) \/ BeginEnds(i)
      BY <2>9, OthersKeep
    <2> QED  BY <1>2, <2>1, <2>2, <2>3, <2>4, <2>5, <2>6, <2>7, <2>8, <2>9 DEF OpenNext
  <1> QED  BY <1>1, <1>2 DEF Next, vars

(* Nothing is in hand at the start.                                        *)
LEMMA OpenStarts == Init => OpenInv
  <1> SUFFICES ASSUME Init
               PROVE  OpenInv
    OBVIOUS
  <1>1. /\ phase = "list" /\ at = 1 /\ usb = "none" /\ found = <<>> /\ error = "none"
    BY DEF Init, OpenInit
  <1>2. HandlePart
    BY <1>1 DEF HandlePart
  <1>3. ListPart
    <2> DEFINE S == Entries
    <2>1. <<>> \in Seq(S)
      OBVIOUS
    <2>2. \A i \in DOMAIN Bus : ~(i < 1)
      BY BusPlaces
    <2> QED  BY <1>1, <2>1, <2>2 DEF ListPart
  <1>4. ChosenPart
    BY <1>1 DEF ChosenPart
  <1> QED  BY <1>2, <1>3, <1>4 DEF OpenInv

(* open_first() and open_by_serial() say that no device was found only if  *)
(* each one they were asked for kept silent, take capabilities only from a *)
(* sketch that has reached begin(), and give a Device only of a board with *)
(* the serial and the version asked for, whatever is on the bus and        *)
(* whichever transfers fail, for any serial but the empty one              *)
(* (Enumerator.cpp, Device.cpp:98-160).                                    *)
THEOREM RightBoardOpened ==
    ASSUME SerialAsked
    PROVE  Spec => []OpensTheRightOne
  <1>1. OpenInv => OpensTheRightOne
    BY DEF OpenInv, ListPart, ChosenPart, Sought, OpensTheRightOne
  <1>2. OpenInv /\ [Next]_vars => OpenInv'
    BY OpenStep
  <1> QED  BY <1>1, <1>2, OpenStarts, PTL DEF Spec

-----------------------------------------------------------------------------
(***************************************************************************)
(* Watching: what is left of a queue.                                      *)
(***************************************************************************)

(* t is what remains of s when some of its elements are taken out.         *)
Part(t, s) ==
    \E f \in [1 .. Len(t) -> 1 .. Len(s)] :
        /\ \A j, k \in 1 .. Len(t) : j < k => f[j] < f[k]
        /\ \A k \in 1 .. Len(t) : t[k] = s[f[k]]

(* A map of the places of one into those of the other shows it.            *)
LEMMA PartBy ==
    ASSUME NEW t, NEW s, NEW n, NEW m, Len(t) = n, Len(s) = m,
           NEW f \in [1 .. n -> 1 .. m],
           \A j, k \in 1 .. n : j < k => f[j] < f[k],
           \A k \in 1 .. n : t[k] = s[f[k]]
    PROVE  Part(t, s)
  BY DEF Part

(* All of it, none of it, its beginning, and its end.                      *)
LEMMA Parts ==
    ASSUME NEW S, NEW s \in Seq(S)
    PROVE  /\ Part(s, s) /\ Part(<<>>, s)
           /\ s # <<>> => Tail(s) \in Seq(S) /\ Part(Tail(s), s)
           /\ \A n \in 0 .. Len(s) :
                 /\ SubSeq(s, 1, n) \in Seq(S) /\ Len(SubSeq(s, 1, n)) = n
                 /\ \A k \in 1 .. n : SubSeq(s, 1, n)[k] = s[k]
                 /\ Part(SubSeq(s, 1, n), s)
                 /\ SubSeq(s, n + 1, Len(s)) \in Seq(S)
                 /\ Len(SubSeq(s, n + 1, Len(s))) = Len(s) - n
                 /\ \A k \in 1 .. Len(s) - n : SubSeq(s, n + 1, Len(s))[k] = s[k + n]
                 /\ Part(SubSeq(s, n + 1, Len(s)), s)
  <1>1. Len(s) \in Nat /\ \A k \in 1 .. Len(s) : s[k] \in S
    BY LenProperties, ElementOfSeq
  <1>2. Part(s, s)
    <2> DEFINE f == [k \in 1 .. Len(s) |-> k]
    <2>1. f \in [1 .. Len(s) -> 1 .. Len(s)]
      OBVIOUS
    <2>2. \A k \in 1 .. Len(s) : f[k] = k
      OBVIOUS
    <2> HIDE DEF f
    <2> QED  BY <2>1, <2>2 DEF Part
  <1>3. Part(<<>>, s)
    <2> DEFINE f == [k \in 1 .. 0 |-> k]  e == <<>>
    <2>0. Len(e) = 0
      OBVIOUS
    <2>1. f \in [1 .. 0 -> 1 .. Len(s)]
      OBVIOUS
    <2>2. \A j, k \in 1 .. 0 : FALSE
      OBVIOUS
    <2> HIDE DEF f, e
    <2>3. Part(e, s)
      BY <2>0, <2>1, <2>2, PartBy, Zenon
    <2> QED  BY <2>3 DEF e
  <1>4. ASSUME NEW n \in 0 .. Len(s)
        PROVE  /\ SubSeq(s, 1, n) \in Seq(S) /\ Len(SubSeq(s, 1, n)) = n
               /\ \A k \in 1 .. n : SubSeq(s, 1, n)[k] = s[k]
               /\ Part(SubSeq(s, 1, n), s)
    <2> DEFINE t == SubSeq(s, 1, n)  f == [k \in 1 .. n |-> k]
    <2>1. t \in Seq(S) /\ Len(t) = n /\ \A k \in 1 .. n : t[k] = s[k]
      BY <1>1, SubSeqProperties
    <2>2. f \in [1 .. n -> 1 .. Len(s)] /\ \A k \in 1 .. n : f[k] = k
      BY <1>1
    <2> HIDE DEF f, t
    <2>3. Part(t, s)
      BY <1>1, <2>1, <2>2 DEF Part
    <2> QED  BY <2>1, <2>3 DEF t
  <1>5. ASSUME NEW n \in 0 .. Len(s)
        PROVE  /\ SubSeq(s, n + 1, Len(s)) \in Seq(S)
               /\ Len(SubSeq(s, n + 1, Len(s))) = Len(s) - n
               /\ \A k \in 1 .. Len(s) - n : SubSeq(s, n + 1, Len(s))[k] = s[k + n]
               /\ Part(SubSeq(s, n + 1, Len(s)), s)
    <2> DEFINE t == SubSeq(s, n + 1, Len(s))  f == [k \in 1 .. Len(s) - n |-> k + n]
    <2>1. t \in Seq(S) /\ Len(t) = Len(s) - n
          /\ \A k \in 1 .. Len(s) - n : t[k] = s[k + n]
      BY <1>1, SubSeqProperties
    <2>2. /\ f \in [1 .. Len(s) - n -> 1 .. Len(s)]
          /\ \A k \in 1 .. Len(s) - n : f[k] = k + n
      BY <1>1
    <2> HIDE DEF f, t
    <2>3. /\ \A j, k \in 1 .. Len(s) - n : j < k => f[j] < f[k]
          /\ \A k \in 1 .. Len(s) - n : t[k] = s[f[k]]
      BY <1>1, <2>1, <2>2
    <2>4. Part(t, s)
      <3> DEFINE l == Len(s) - n  m == Len(s)
      <3>1. /\ Len(t) = l /\ Len(s) = m /\ f \in [1 .. l -> 1 .. m]
            /\ \A j, k \in 1 .. l : j < k => f[j] < f[k]
            /\ \A k \in 1 .. l : t[k] = s[f[k]]
        BY <2>1, <2>2, <2>3
      <3> HIDE DEF l, m
      <3> QED  BY <3>1, PartBy
    <2> QED  BY <2>1, <2>4 DEF t
  <1>6. ASSUME s # <<>>
        PROVE  Tail(s) \in Seq(S) /\ Part(Tail(s), s)
    <2>1. Tail(s) = SubSeq(s, 2, Len(s)) /\ 1 \in 0 .. Len(s) /\ 1 + 1 = 2
      BY <1>1, <1>6, EmptySeq
    <2> QED  BY <1>5, <2>1
  <1> QED  BY <1>2, <1>3, <1>4, <1>5, <1>6

-----------------------------------------------------------------------------
(* What disarming a pin keeps of the queue.                                *)

(* The function that Kept names exists, and is what its body says.         *)
LEMMA KeptIs ==
    ASSUME NEW pin, Len(ring) \in Nat
    PROVE  /\ Kept(pin)[0] = <<>>
           /\ \A n \in 1 .. Len(ring) :
                 Kept(pin)[n] = IF ring[n].pin = pin THEN Kept(pin)[n - 1]
                                ELSE Append(Kept(pin)[n - 1], ring[n])
  <1> DEFINE F(m, f) ==
                f = [n \in 0 .. m |->
                        IF n = 0 THEN <<>>
                        ELSE IF ring[n].pin = pin THEN f[n - 1]
                        ELSE Append(f[n - 1], ring[n])]
             Found == {m \in Nat : \E f : F(m, f)}
  <1>1. 0 \in Found
    <2> DEFINE f == [n \in 0 .. 0 |-> <<>>]
    <2>1. F(0, f)
      OBVIOUS
    <2> QED  BY <2>1
  <1>2. \A m \in Nat : m \in Found => m + 1 \in Found
    <2> SUFFICES ASSUME NEW m \in Nat, m \in Found
                 PROVE  m + 1 \in Found
      OBVIOUS
    <2>1. PICK g : F(m, g)
      OBVIOUS
    <2> DEFINE f == [n \in 0 .. m + 1 |->
                        IF n <= m THEN g[n]
                        ELSE IF ring[n].pin = pin THEN g[n - 1]
                        ELSE Append(g[n - 1], ring[n])]
    <2>2. \A n \in 0 .. m : f[n] = g[n]
      OBVIOUS
    <2>3. \A n \in 0 .. m + 1 :
              f[n] = IF n = 0 THEN <<>>
                     ELSE IF ring[n].pin = pin THEN f[n - 1]
                     ELSE Append(f[n - 1], ring[n])
      <3> TAKE n \in 0 .. m + 1
      <3>1. CASE n = m + 1
        <4>1. f[n] = IF ring[n].pin = pin THEN g[n - 1] ELSE Append(g[n - 1], ring[n])
          BY <3>1
        <4>2. n - 1 \in 0 .. m /\ n # 0
          BY <3>1
        <4> HIDE DEF f
        <4> QED  BY <2>2, <4>1, <4>2
      <3>2. CASE n # m + 1
        <4>1. n \in 0 .. m
          BY <3>2
        <4>2. g[n] = IF n = 0 THEN <<>>
                     ELSE IF ring[n].pin = pin THEN g[n - 1]
                     ELSE Append(g[n - 1], ring[n])
          BY <2>1, <4>1
        <4>3. n # 0 => n - 1 \in 0 .. m
          BY <4>1
        <4> HIDE DEF f
        <4> QED  BY <2>2, <4>1, <4>2, <4>3
      <3> QED  BY <3>1, <3>2
    <2>4. F(m + 1, f)
      <3>1. f = [n \in 0 .. m + 1 |-> f[n]]
        OBVIOUS
      <3> HIDE DEF f
      <3> QED  BY <2>3, <3>1
    <2> HIDE DEF F
    <2> QED  BY <2>4
  <1>3. \A m \in Nat : m \in Found
    <2> HIDE DEF Found
    <2> QED  BY <1>1, <1>2, Induction
  <1>4. \E f : F(Len(ring), f)
    BY <1>3
  <1>5. Kept(pin) = CHOOSE f : F(Len(ring), f)
    BY DEF Kept
  <1>6. F(Len(ring), Kept(pin))
    <2> HIDE DEF F
    <2> QED  BY <1>4, <1>5
  <1> DEFINE L == Len(ring)
  <1>7. L \in Nat /\ \A n \in 0 .. L :
            Kept(pin)[n] = IF n = 0 THEN <<>>
                           ELSE IF ring[n].pin = pin THEN Kept(pin)[n - 1]
                           ELSE Append(Kept(pin)[n - 1], ring[n])
    BY <1>6
  <1> HIDE DEF L
  <1>8. /\ Kept(pin)[0] = <<>>
        /\ \A n \in 1 .. L :
              Kept(pin)[n] = IF ring[n].pin = pin THEN Kept(pin)[n - 1]
                             ELSE Append(Kept(pin)[n - 1], ring[n])
    BY <1>7
  <1> QED  BY <1>8 DEF L

(* It is the queue with some of its events taken out.                      *)
LEMMA KeptIsPart ==
    ASSUME NEW S, ring \in Seq(S), NEW pin
    PROVE  /\ Kept(pin)[Len(ring)] \in Seq(S)
           /\ Part(Kept(pin)[Len(ring)], ring)
  <1> DEFINE L == Len(ring)
             K(n) == Kept(pin)[n]
             P(n) == /\ K(n) \in Seq(S)
                     /\ \E f \in [1 .. Len(K(n)) -> 1 .. n] :
                           /\ \A j, k \in 1 .. Len(K(n)) : j < k => f[j] < f[k]
                           /\ \A k \in 1 .. Len(K(n)) : K(n)[k] = ring[f[k]]
             Good == {n \in Nat : n <= L => P(n)}
  <1>1. L \in Nat /\ \A k \in 1 .. L : ring[k] \in S
    BY LenProperties, ElementOfSeq
  <1>2. /\ K(0) = <<>>
        /\ \A n \in 1 .. L : K(n) = IF ring[n].pin = pin THEN K(n - 1)
                                    ELSE Append(K(n - 1), ring[n])
    BY <1>1, KeptIs
  <1> HIDE DEF L, K
  <1>3. 0 \in Good
    <2> DEFINE f == [k \in 1 .. 0 |-> k]
    <2>1. K(0) \in Seq(S) /\ Len(K(0)) = 0
      BY <1>2, EmptySeq
    <2>2. f \in [1 .. 0 -> 1 .. 0] /\ \A j, k \in 1 .. 0 : FALSE
      OBVIOUS
    <2> HIDE DEF f
    <2>3. P(0)
      BY <2>1, <2>2
    <2> QED  BY <2>3
  <1>4. ASSUME NEW n \in Nat, n + 1 <= L, P(n)
        PROVE  P(n + 1)
    <2>1. n + 1 \in 1 .. L /\ (n + 1) - 1 = n
      BY <1>1, <1>4
    <2>0. K(n) \in Seq(S)
      BY <1>4
    <2>2. CASE ring[n + 1].pin = pin
      <3>1. K(n + 1) = K(n)
        BY <1>2, <2>1, <2>2
      <3>2. PICK f \in [1 .. Len(K(n)) -> 1 .. n] :
                /\ \A j, k \in 1 .. Len(K(n)) : j < k => f[j] < f[k]
                /\ \A k \in 1 .. Len(K(n)) : K(n)[k] = ring[f[k]]
        BY <1>4
      <3>3. f \in [1 .. Len(K(n)) -> 1 .. n + 1]
        <4>1. 1 .. n \subseteq 1 .. n + 1
          OBVIOUS
        <4> QED  BY <4>1
      <3> QED  BY <2>0, <3>1, <3>2, <3>3, Zenon
    <2>3. CASE ring[n + 1].pin # pin
      <3> DEFINE l == Len(K(n))
      <3>1. K(n + 1) = Append(K(n), ring[n + 1])
        BY <1>2, <2>1, <2>3
      <3>2. /\ K(n + 1) \in Seq(S) /\ l \in Nat /\ Len(K(n + 1)) = l + 1
            /\ K(n + 1)[l + 1] = ring[n + 1]
            /\ \A k \in 1 .. l : K(n + 1)[k] = K(n)[k]
        <4>1. \A s \in Seq(S), e \in S :
                  /\ Append(s, e) \in Seq(S) /\ Len(s) \in Nat
                  /\ Len(Append(s, e)) = Len(s) + 1
                  /\ Append(s, e)[Len(s) + 1] = e
                  /\ \A k \in 1 .. Len(s) : Append(s, e)[k] = s[k]
          BY AppendProperties, LenProperties
        <4>2. ring[n + 1] \in S
          BY <1>1, <2>1, Zenon
        <4>3. /\ Append(K(n), ring[n + 1]) \in Seq(S) /\ Len(K(n)) \in Nat
              /\ Len(Append(K(n), ring[n + 1])) = Len(K(n)) + 1
              /\ Append(K(n), ring[n + 1])[Len(K(n)) + 1] = ring[n + 1]
              /\ \A k \in 1 .. Len(K(n)) : Append(K(n), ring[n + 1])[k] = K(n)[k]
          BY <2>0, <4>1, <4>2, Zenon
        <4> QED  BY <3>1, <4>3, Zenon
      <3>3. PICK f \in [1 .. l -> 1 .. n] :
                /\ \A j, k \in 1 .. l : j < k => f[j] < f[k]
                /\ \A k \in 1 .. l : K(n)[k] = ring[f[k]]
        BY <1>4
      <3> HIDE DEF l
      <3> DEFINE g == [k \in 1 .. l + 1 |-> IF k <= l THEN f[k] ELSE n + 1]
      <3>4. /\ g \in [1 .. l + 1 -> 1 .. n + 1]
            /\ \A k \in 1 .. l : g[k] = f[k] /\ g[k] \in 1 .. n
            /\ g[l + 1] = n + 1
        BY <3>2
      <3> HIDE DEF g
      <3>5. \A j, k \in 1 .. l + 1 : j < k => g[j] < g[k]
        <4> SUFFICES ASSUME NEW j \in 1 .. l + 1, NEW k \in 1 .. l + 1, j < k
                     PROVE  g[j] < g[k]
          OBVIOUS
        <4>1. CASE k = l + 1
          <5>1. j \in 1 .. l /\ g[j] \in 1 .. n /\ g[k] = n + 1
            BY <3>2, <3>4, <4>1
          <5> QED  BY <5>1
        <4>2. CASE k # l + 1
          <5>1. j \in 1 .. l /\ k \in 1 .. l
            BY <3>2, <4>2
          <5> QED  BY <3>3, <3>4, <5>1
        <4> QED  BY <4>1, <4>2
      <3>6. \A k \in 1 .. l + 1 : K(n + 1)[k] = ring[g[k]]
        <4> TAKE k \in 1 .. l + 1
        <4>1. CASE k = l + 1
          BY <3>2, <3>4, <4>1
        <4>2. CASE k # l + 1
          <5>1. k \in 1 .. l
            BY <3>2, <4>2
          <5> QED  BY <3>2, <3>3, <3>4, <5>1
        <4> QED  BY <4>1, <4>2
      <3>7. \E h \in [1 .. Len(K(n + 1)) -> 1 .. n + 1] :
                /\ \A j, k \in 1 .. Len(K(n + 1)) : j < k => h[j] < h[k]
                /\ \A k \in 1 .. Len(K(n + 1)) : K(n + 1)[k] = ring[h[k]]
        BY <3>2, <3>4, <3>5, <3>6
      <3> QED  BY <3>2, <3>7
    <2> QED  BY <2>2, <2>3
  <1>5. \A n \in Nat : n \in Good
    <2> HIDE DEF P
    <2>1. \A n \in Nat : n \in Good => n + 1 \in Good
      BY <1>1, <1>4
    <2> HIDE DEF Good
    <2> QED  BY <1>3, <2>1, Induction
  <1>6. P(L)
    <2> HIDE DEF P
    <2> QED  BY <1>1, <1>5
  <1>7. Part(K(L), ring)
    BY <1>6 DEF Part, L
  <1> QED  BY <1>6, <1>7 DEF L, K

-----------------------------------------------------------------------------
(***************************************************************************)
(* Watching: the invariant.                                                *)
(***************************************************************************)

Events == [pin : Pins, seq : Nat]
AppStages == {"idle", "arm", "off", "running", "waiting", "notify", "join"}
WorkerStages ==
    {"none", "loop", "pop", "count", "deliver", "wait", "dozing", "asleep", "ended"}
Consumers == {"callback", "wait_event"}

(* Events, pins and counters.                                              *)
WatchTypes ==
    /\ ring \in Seq(Events) /\ watched \subseteq Pins
    /\ edges \in [Pins -> Nat] /\ dropped \in Nat /\ faults \in Nat
    /\ app \in [stage : AppStages, todo : Seq(Pins)]
    /\ worker \in [stage : WorkerStages, batch : Seq(Events), dropped : Nat]
    /\ last \in [Consumers -> [Pins -> Nat]]

(* The pins still to arm are the last ones of the list; there are pins     *)
(* still to configure whenever the application is configuring.             *)
TodoPart ==
    /\ app.stage \in {"arm", "off"} => app.todo # <<>>
    /\ app.stage = "arm" =>
          /\ Len(app.todo) <= Len(WatchList)
          /\ \A k \in 1 .. Len(app.todo) :
                app.todo[k] = WatchList[Len(WatchList) - Len(app.todo) + k]

(* Unless a failure was swallowed, only pins the application is about to   *)
(* disarm, or has just armed, are armed outside the life of a watcher.     *)
ArmedPart ==
    ~swallowed =>
        /\ app.stage = "idle" => watched = {}
        /\ app.stage = "arm"  => watched \subseteq Range(ArmedSoFar)
        /\ app.stage = "off"  => watched \subseteq Range(app.todo)

(* The events of a pin are queued in the order they happened, those of one *)
(* queue before those of the next, and after the last one a consumer was   *)
(* given; none has a number the pin has not reached.                       *)
InOrder(s) ==
    \A j, k \in 1 .. Len(s) : j < k /\ s[j].pin = s[k].pin => s[j].seq < s[k].seq
Before(s, t) ==
    \A j \in 1 .. Len(s), k \in 1 .. Len(t) : s[j].pin = t[k].pin => s[j].seq < t[k].seq
New(l, s)     == \A k \in 1 .. Len(s) : l[s[k].pin] < s[k].seq
Reached(n, s) == \A k \in 1 .. Len(s) : s[k].seq <= n[s[k].pin]

OrderPart ==
    /\ InOrder(worker.batch) /\ InOrder(ring) /\ Before(worker.batch, ring)
    /\ New(last["callback"], worker.batch) /\ New(last["callback"], ring)
    /\ New(last["wait_event"], ring)
    /\ Reached(edges, worker.batch) /\ Reached(edges, ring)
    /\ \A c \in Consumers, p \in Pins : last[c][p] <= edges[p]

WatchInv == WatchTypes /\ TodoPart /\ ArmedPart /\ OrderPart

-----------------------------------------------------------------------------
(* What remains of a queue keeps its order.                                *)
LEMMA PartKeeps ==
    ASSUME NEW s, NEW t, Part(t, s)
    PROVE  /\ InOrder(s) => InOrder(t)
           /\ \A u : Before(s, u) => Before(t, u)
           /\ \A u : Before(u, s) => Before(u, t)
           /\ \A l : New(l, s) => New(l, t)
           /\ \A n : Reached(n, s) => Reached(n, t)
  <1>1. PICK f \in [1 .. Len(t) -> 1 .. Len(s)] :
            /\ \A j, k \in 1 .. Len(t) : j < k => f[j] < f[k]
            /\ \A k \in 1 .. Len(t) : t[k] = s[f[k]]
    BY DEF Part
  <1>2. \A k \in 1 .. Len(t) : f[k] \in 1 .. Len(s)
    OBVIOUS
  <1>3. InOrder(s) => InOrder(t)
    BY <1>1, <1>2, ZenonT(30) DEF InOrder
  <1>4. \A u : Before(s, u) => Before(t, u)
    BY <1>1, <1>2, ZenonT(30) DEF Before
  <1>5. \A u : Before(u, s) => Before(u, t)
    BY <1>1, <1>2, Zenon DEF Before
  <1>6. \A l : New(l, s) => New(l, t)
    BY <1>1, <1>2, Zenon DEF New
  <1>7. \A n : Reached(n, s) => Reached(n, t)
    BY <1>1, <1>2, Zenon DEF Reached
  <1> QED  BY <1>3, <1>4, <1>5, <1>6, <1>7, Zenon

(* Steps that give nothing to a consumer and number nothing.               *)
LEMMA OrderShrinks ==
    ASSUME OrderPart, Part(ring', ring), Part(worker'.batch, worker.batch),
           UNCHANGED <<last, edges>>
    PROVE  OrderPart'
  <1>1. /\ InOrder(ring') /\ InOrder(worker'.batch)
        /\ Before(worker.batch, ring')
        /\ New(last["callback"], ring') /\ New(last["wait_event"], ring')
        /\ New(last["callback"], worker'.batch)
        /\ Reached(edges, ring') /\ Reached(edges, worker'.batch)
    BY PartKeeps DEF OrderPart
  <1>2. Before(worker'.batch, ring')
    BY <1>1, PartKeeps
  <1>3. \A c \in Consumers, p \in Pins : last[c][p] <= edges[p]
    BY DEF OrderPart
  <1>4. last' = last /\ edges' = edges
    OBVIOUS
  <1> QED
    BY <1>1, <1>2, <1>3, <1>4 DEF OrderPart, InOrder, Before, New, Reached

(* What an EVENT_POP takes out of the queue, and leaves in it.             *)
LEMMA PopIs ==
    ASSUME ring \in Seq(Events), NEW max \in Nat \ {0}, Popped(max)
    PROVE  \E n \in 0 .. Len(ring) :
              /\ n = IF Len(ring) < max THEN Len(ring) ELSE max
              /\ Batch(max) \in Seq(Events) /\ Len(Batch(max)) = n
              /\ \A k \in 1 .. n : Batch(max)[k] = ring[k]
              /\ Part(Batch(max), ring)
              /\ ring' \in Seq(Events) /\ Len(ring') = Len(ring) - n
              /\ \A k \in 1 .. Len(ring) - n : ring'[k] = ring[k + n]
              /\ Part(ring', ring)
  <1> DEFINE S == Events
             n == IF Len(ring) < max THEN Len(ring) ELSE max
  <1>1. ring \in Seq(S) /\ Len(ring) \in Nat
    BY LenProperties
  <1>2. n \in 0 .. Len(ring)
    BY <1>1
  <1>3. Batch(max) = SubSeq(ring, 1, n)
    BY DEF Batch
  <1>4. ring' = SubSeq(ring, Len(Batch(max)) + 1, Len(ring))
    BY DEF Popped
  <1> HIDE DEF S, n
  <1>5. /\ Batch(max) \in Seq(S) /\ Len(Batch(max)) = n
        /\ \A k \in 1 .. n : Batch(max)[k] = ring[k]
        /\ Part(Batch(max), ring)
    BY <1>1, <1>2, <1>3, Parts
  <1>6. /\ ring' \in Seq(S) /\ Len(ring') = Len(ring) - n
        /\ \A k \in 1 .. Len(ring) - n : ring'[k] = ring[k + n]
        /\ Part(ring', ring)
    BY <1>1, <1>2, <1>4, <1>5, Parts
  <1> USE DEF S
  <1>7. n = IF Len(ring) < max THEN Len(ring) ELSE max
    BY DEF n
  <1> QED  BY <1>2, <1>5, <1>6, <1>7

(* The watcher's batch comes before what the device still has.             *)
LEMMA OrderPopped ==
    ASSUME WatchTypes, OrderPart, NEW max \in Nat \ {0}, Popped(max),
           worker'.batch = worker.batch \o Batch(max), UNCHANGED <<last, edges>>
    PROVE  OrderPart'
  <1> DEFINE b == worker.batch  c == Batch(max)  d == worker'.batch  S == Events
  <1>1. PICK n \in 0 .. Len(ring) :
              /\ c \in Seq(S) /\ Len(c) = n
              /\ \A k \in 1 .. n : c[k] = ring[k]
              /\ Part(c, ring)
              /\ ring' \in Seq(S) /\ Len(ring') = Len(ring) - n
              /\ \A k \in 1 .. Len(ring) - n : ring'[k] = ring[k + n]
              /\ Part(ring', ring)
    BY PopIs DEF WatchTypes
  <1>2. b \in Seq(S) /\ Len(b) \in Nat /\ Len(ring) \in Nat
    BY LenProperties DEF WatchTypes
  <1>3. /\ InOrder(c) /\ Before(b, c) /\ InOrder(ring') /\ Before(b, ring')
        /\ New(last["callback"], c) /\ New(last["callback"], ring')
        /\ New(last["wait_event"], ring')
        /\ Reached(edges, c) /\ Reached(edges, ring')
    BY <1>1, PartKeeps DEF OrderPart
  <1>4. /\ InOrder(b) /\ InOrder(ring) /\ New(last["callback"], b) /\ Reached(edges, b)
        /\ \A k \in Consumers, p \in Pins : last[k][p] <= edges[p]
    BY DEF OrderPart
  <1>5. d = b \o c
    OBVIOUS
  <1> HIDE DEF b, c, d, S
  <1>6. /\ Len(d) = Len(b) + n
        /\ \A k \in 1 .. Len(b) + n :
              d[k] = IF k <= Len(b) THEN b[k] ELSE c[k - Len(b)]
    BY <1>1, <1>2, <1>5, ConcatProperties
  <1>7. Before(c, ring')
    <2> SUFFICES ASSUME NEW j \in 1 .. n, NEW k \in 1 .. Len(ring) - n,
                        c[j].pin = ring'[k].pin
                 PROVE  c[j].seq < ring'[k].seq
      BY <1>1 DEF Before
    <2>1. c[j] = ring[j] /\ ring'[k] = ring[k + n]
      BY <1>1
    <2>2. j \in 1 .. Len(ring) /\ k + n \in 1 .. Len(ring) /\ j < k + n
      BY <1>2
    <2> QED  BY <1>4, <2>1, <2>2 DEF InOrder
  <1>8. \A k \in 1 .. Len(b) + n :
            \/ k \in 1 .. Len(b) /\ d[k] = b[k]
            \/ k - Len(b) \in 1 .. n /\ d[k] = c[k - Len(b)]
    BY <1>2, <1>6
  <1>9. InOrder(d)
    <2> SUFFICES ASSUME NEW j \in 1 .. Len(b) + n, NEW k \in 1 .. Len(b) + n,
                        j < k, d[j].pin = d[k].pin
                 PROVE  d[j].seq < d[k].seq
      BY <1>6 DEF InOrder
    <2>1. CASE k \in 1 .. Len(b)
      <3>1. j \in 1 .. Len(b) /\ d[j] = b[j] /\ d[k] = b[k]
        BY <1>2, <1>6, <2>1
      <3> QED  BY <1>4, <2>1, <3>1 DEF InOrder
    <2>2. CASE j \in 1 .. Len(b) /\ k \notin 1 .. Len(b)
      <3>1. d[j] = b[j] /\ k - Len(b) \in 1 .. n /\ d[k] = c[k - Len(b)]
        BY <1>2, <1>6, <2>2
      <3> QED  BY <1>1, <1>3, <2>2, <3>1 DEF Before
    <2>3. CASE j \notin 1 .. Len(b)
      <3>1. /\ j - Len(b) \in 1 .. n /\ d[j] = c[j - Len(b)]
            /\ k - Len(b) \in 1 .. n /\ d[k] = c[k - Len(b)]
            /\ j - Len(b) < k - Len(b)
        <4>1. j - Len(b) \in 1 .. n /\ k - Len(b) \in 1 .. n /\ j - Len(b) < k - Len(b)
          BY <1>2, <2>3
        <4>2. ~(j <= Len(b)) /\ ~(k <= Len(b))
          BY <1>2, <4>1
        <4> QED  BY <1>6, <4>1, <4>2
      <3> QED  BY <1>1, <1>3, <3>1 DEF InOrder
    <2> QED  BY <2>1, <2>2, <2>3
  <1>10. Before(d, ring')
    <2> SUFFICES ASSUME NEW j \in 1 .. Len(b) + n, NEW k \in 1 .. Len(ring'),
                        d[j].pin = ring'[k].pin
                 PROVE  d[j].seq < ring'[k].seq
      BY <1>6 DEF Before
    <2>1. CASE j \in 1 .. Len(b) /\ d[j] = b[j]
      BY <1>3, <2>1 DEF Before
    <2>2. CASE j - Len(b) \in 1 .. n /\ d[j] = c[j - Len(b)]
      BY <1>1, <1>7, <2>2 DEF Before
    <2> QED  BY <1>8, <2>1, <2>2
  <1>11. New(last["callback"], d)
    BY <1>1, <1>3, <1>4, <1>6, <1>8 DEF New
  <1>12. Reached(edges, d)
    BY <1>1, <1>3, <1>4, <1>6, <1>8 DEF Reached
  <1>13. last' = last /\ edges' = edges
    OBVIOUS
  <1> QED
    BY <1>3, <1>4, <1>9, <1>10, <1>11, <1>12, <1>13
    DEF OrderPart, InOrder, Before, New, Reached, d

(* An edge has a number no queue has yet.                                  *)
LEMMA OrderEdge ==
    ASSUME WatchTypes, OrderPart, NEW pin \in Pins, Edge(pin)
    PROVE  OrderPart'
  <1> DEFINE b == worker.batch  x == [pin |-> pin, seq |-> edges[pin] + 1]
             cb == last["callback"]  we == last["wait_event"]
  <1>1. /\ ring \in Seq(Events) /\ b \in Seq(Events)
        /\ Len(ring) \in Nat /\ Len(b) \in Nat
        /\ \A k \in 1 .. Len(ring) : ring[k] \in Events
        /\ \A k \in 1 .. Len(b) : b[k] \in Events
    <2> DEFINE S == Events
    <2>1. ring \in Seq(S) /\ b \in Seq(S)
      BY DEF WatchTypes
    <2> HIDE DEF S, b
    <2>2. /\ Len(ring) \in Nat /\ Len(b) \in Nat
          /\ \A k \in 1 .. Len(ring) : ring[k] \in S
          /\ \A k \in 1 .. Len(b) : b[k] \in S
      BY <2>1, LenProperties, ElementOfSeq
    <2> QED  BY <2>1, <2>2 DEF S
  <1>2. /\ edges \in [Pins -> Nat] /\ edges' = [edges EXCEPT ![pin] = edges[pin] + 1]
        /\ \A p \in Pins : edges[p] \in Nat
    BY DEF WatchTypes, Edge
  <1>3. /\ edges'[pin] = edges[pin] + 1
        /\ \A p \in Pins : edges[p] \in Nat /\ edges'[p] \in Nat /\ edges[p] <= edges'[p]
    BY <1>2
  <1>4. worker' = worker /\ last' = last
    BY DEF Edge, hostVars
  <1>5. /\ InOrder(b) /\ InOrder(ring) /\ Before(b, ring)
        /\ New(cb, b) /\ New(cb, ring) /\ New(we, ring)
        /\ Reached(edges, b) /\ Reached(edges, ring)
        /\ \A k \in Consumers, p \in Pins : last[k][p] <= edges[p]
    BY DEF OrderPart
  <1>6. \A k \in Consumers, p \in Pins : last[k][p] \in Nat
    BY DEF WatchTypes
  <1>7. \A k \in Consumers, p \in Pins : last[k][p] <= edges'[p]
    BY <1>3, <1>5, <1>6
  <1>8. \A e \in Events : e.pin \in Pins /\ e.seq \in Nat
    BY DEF Events
  <1>9. \A e \in Events : e.seq <= edges[e.pin] => e.seq <= edges'[e.pin]
    BY <1>3, <1>8
  <1>10. Reached(edges', b)
    BY <1>1, <1>5, <1>9 DEF Reached
  <1>11. Reached(edges', ring)
    BY <1>1, <1>5, <1>9 DEF Reached
  <1>12. CASE ring' = ring
    BY <1>4, <1>5, <1>7, <1>10, <1>11, <1>12
    DEF OrderPart, InOrder, Before, New, Reached
  <1>13. CASE ring' = Append(ring, x)
    <2>1. x \in Events /\ x.pin = pin /\ x.seq = edges[pin] + 1
      BY <1>3 DEF Events
    <2> HIDE DEF x, b
    <2> DEFINE S == Events  l == Len(ring)
    <2>2. /\ Len(ring') = l + 1 /\ ring'[l + 1] = x
          /\ \A k \in 1 .. l : ring'[k] = ring[k]
      <3>1. ring \in Seq(S) /\ x \in S
        BY <1>1, <2>1
      <3> HIDE DEF S
      <3> QED  BY <1>13, <3>1, AppendProperties
    <2>3. l \in Nat
      BY <1>1
    <2> HIDE DEF l
    <2>4. \A k \in 1 .. l + 1 :
             \/ k \in 1 .. l /\ ring'[k] = ring[k]
             \/ k = l + 1 /\ ring'[k] = x
      <3>1. \A k \in 1 .. l + 1 : k \in 1 .. l \/ k = l + 1
        BY <2>3
      <3> QED  BY <2>2, <3>1, Zenon
    <2>5. \A k \in 1 .. l : /\ ring[k] \in Events
                            /\ ring[k].seq <= edges[ring[k].pin]
      BY <1>1, <1>5 DEF Reached, l
    <2>6. \A k \in 1 .. Len(b) : /\ b[k] \in Events
                                 /\ b[k].seq <= edges[b[k].pin]
      BY <1>1, <1>5 DEF Reached
    <2>7. \A e \in Events : e.seq <= edges[e.pin] /\ e.pin = x.pin => e.seq < x.seq
      BY <1>3, <1>8, <2>1
    <2>8. InOrder(ring')
      <3> SUFFICES ASSUME NEW j \in 1 .. l + 1, NEW k \in 1 .. l + 1, j < k,
                          ring'[j].pin = ring'[k].pin
                   PROVE  ring'[j].seq < ring'[k].seq
        BY <2>2 DEF InOrder
      <3>1. j \in 1 .. l /\ ring'[j] = ring[j]
        BY <2>2, <2>3
      <3>2. CASE k \in 1 .. l /\ ring'[k] = ring[k]
        BY <1>5, <3>1, <3>2 DEF InOrder, l
      <3>3. CASE k = l + 1 /\ ring'[k] = x
        BY <2>5, <2>7, <3>1, <3>3
      <3> QED  BY <2>4, <3>2, <3>3
    <2>9. Before(b, ring')
      <3> SUFFICES ASSUME NEW j \in 1 .. Len(b), NEW k \in 1 .. l + 1,
                          b[j].pin = ring'[k].pin
                   PROVE  b[j].seq < ring'[k].seq
        BY <2>2 DEF Before
      <3>1. CASE k \in 1 .. l /\ ring'[k] = ring[k]
        BY <1>5, <3>1 DEF Before, l
      <3>2. CASE k = l + 1 /\ ring'[k] = x
        BY <2>6, <2>7, <3>2
      <3> QED  BY <2>4, <3>1, <3>2
    <2>10. ASSUME NEW c \in Consumers, New(last[c], ring)
           PROVE  New(last[c], ring')
      <3> SUFFICES ASSUME NEW k \in 1 .. l + 1
                   PROVE  last[c][ring'[k].pin] < ring'[k].seq
        BY <2>2 DEF New
      <3>1. CASE k \in 1 .. l /\ ring'[k] = ring[k]
        BY <2>10, <3>1 DEF New, l
      <3>2. CASE k = l + 1 /\ ring'[k] = x
        BY <1>3, <1>5, <1>6, <2>1, <3>2
      <3> QED  BY <2>4, <3>1, <3>2
    <2>11. New(cb, ring') /\ New(we, ring')
      BY <1>5, <2>10 DEF Consumers
    <2>12. Reached(edges', ring')
      <3> SUFFICES ASSUME NEW k \in 1 .. l + 1
                   PROVE  ring'[k].seq <= edges'[ring'[k].pin]
        BY <2>2 DEF Reached
      <3>1. CASE k \in 1 .. l /\ ring'[k] = ring[k]
        BY <1>9, <2>5, <3>1
      <3>2. CASE k = l + 1 /\ ring'[k] = x
        BY <1>3, <2>1, <3>2
      <3> QED  BY <2>4, <3>1, <3>2
    <2> QED
      BY <1>4, <1>5, <1>7, <1>10, <2>8, <2>9, <2>11, <2>12
      DEF OrderPart, InOrder, Before, New, Reached, b
  <1>14. ring' = ring \/ ring' = Append(ring, x)
    BY DEF Edge
  <1> QED  BY <1>12, <1>13, <1>14

(* What a consumer is given becomes its last event of the pin.             *)
LEMMA GivenIs ==
    ASSUME last \in [Consumers -> [Pins -> Nat]],
           NEW c \in Consumers, NEW e \in Events, Give(c, e)
    PROVE  /\ last' \in [Consumers -> [Pins -> Nat]]
           /\ last'[c][e.pin] = e.seq
           /\ \A p \in Pins : p # e.pin => last'[c][p] = last[c][p]
           /\ \A k \in Consumers : k # c => last'[k] = last[k]
  <1>1. e.pin \in Pins /\ e.seq \in Nat
    BY DEF Events
  <1> QED  BY <1>1 DEF Give

(* The callback is given the first event of the batch; the others stay, or *)
(* are abandoned.                                                          *)
LEMMA OrderDelivered ==
    ASSUME WatchTypes, OrderPart,
           worker.batch # <<>>, Give("callback", Head(worker.batch)),
           worker'.batch = Tail(worker.batch) \/ worker'.batch = <<>>,
           UNCHANGED <<ring, edges>>
    PROVE  /\ OrderPart' /\ last' \in [Consumers -> [Pins -> Nat]]
           /\ \A c \in Consumers, p \in Pins :
                 last'[c][p] # last[c][p] => last'[c][p] > last[c][p]
  <1> DEFINE b == worker.batch  d == worker'.batch  t == Tail(b)  S == Events  x == b[1]
             cb == "callback"  we == "wait_event"
  <1>0. cb \in Consumers /\ we \in Consumers /\ cb # we
        /\ \A c \in Consumers : c = cb \/ c = we
    BY DEF Consumers
  <1>1. b \in Seq(S) /\ b # <<>> /\ (d = t \/ d = <<>>)
    BY DEF WatchTypes
  <1>2. Give(cb, Head(b))
    OBVIOUS
  <1>3. ring' = ring /\ edges' = edges
    OBVIOUS
  <1>4. /\ InOrder(b) /\ InOrder(ring) /\ Before(b, ring)
        /\ New(last[cb], b) /\ New(last[cb], ring) /\ New(last[we], ring)
        /\ Reached(edges, b) /\ Reached(edges, ring)
        /\ \A k \in Consumers, p \in Pins : last[k][p] <= edges[p]
    BY DEF OrderPart
  <1>5. /\ last \in [Consumers -> [Pins -> Nat]]
        /\ \A k \in Consumers, p \in Pins : last[k][p] \in Nat
    BY DEF WatchTypes
  <1> HIDE DEF b, d, S, cb, we
  <1>6. /\ Len(b) \in Nat \ {0} /\ Head(b) = x /\ x \in S
        /\ Len(t) = Len(b) - 1 /\ \A k \in 1 .. Len(b) - 1 : t[k] = b[k + 1]
        /\ Part(t, b)
    BY <1>1, EmptySeq, HeadTailProperties, Parts
  <1> HIDE DEF x, t
  <1>7. /\ last' \in [Consumers -> [Pins -> Nat]]
        /\ last'[cb][x.pin] = x.seq
        /\ \A p \in Pins : p # x.pin => last'[cb][p] = last[cb][p]
        /\ last'[we] = last[we]
    BY <1>0, <1>2, <1>5, <1>6, GivenIs DEF S
  <1>8. x.pin \in Pins /\ x.seq \in Nat /\ 1 \in 1 .. Len(b)
    BY <1>6 DEF S, Events
  <1>9. last[cb][x.pin] < x.seq /\ x.seq <= edges[x.pin]
    BY <1>4, <1>8 DEF New, Reached, x
  <1>10. InOrder(t) /\ Before(t, ring) /\ Reached(edges, t)
    BY <1>4, <1>6, PartKeeps
  <1>11. New(last'[cb], t)
    <2> SUFFICES ASSUME NEW k \in 1 .. Len(b) - 1
                 PROVE  last'[cb][t[k].pin] < t[k].seq
      BY <1>6 DEF New
    <2>1. t[k] = b[k + 1] /\ k + 1 \in 1 .. Len(b) /\ 1 < k + 1
      BY <1>6
    <2>2. t[k].pin \in Pins
      <3>1. b[k + 1] \in S
        BY <1>1, <2>1, ElementOfSeq
      <3> QED  BY <2>1, <3>1 DEF S, Events
    <2>3. CASE t[k].pin = x.pin
      BY <1>4, <1>7, <1>8, <2>1, <2>3 DEF InOrder, x
    <2>4. CASE t[k].pin # x.pin
      BY <1>4, <1>7, <2>1, <2>2, <2>4 DEF New
    <2> QED  BY <2>3, <2>4
  <1>12. New(last'[cb], ring)
    <2> SUFFICES ASSUME NEW k \in 1 .. Len(ring)
                 PROVE  last'[cb][ring[k].pin] < ring[k].seq
      BY DEF New
    <2>1. ring[k].pin \in Pins
      <3>1. ring \in Seq(S)
        BY DEF WatchTypes, S
      <3>2. ring[k] \in S
        BY <3>1, ElementOfSeq
      <3> QED  BY <3>2 DEF S, Events
    <2>2. CASE ring[k].pin = x.pin
      BY <1>4, <1>7, <1>8, <2>2 DEF Before, x
    <2>3. CASE ring[k].pin # x.pin
      BY <1>4, <1>7, <2>1, <2>3 DEF New
    <2> QED  BY <2>2, <2>3
  <1>13. New(last'[we], ring)
    BY <1>4, <1>7
  <1>14. \A c \in Consumers, p \in Pins : last'[c][p] <= edges[p]
    BY <1>0, <1>4, <1>7, <1>9
  <1>15. \A c \in Consumers, p \in Pins :
             last'[c][p] # last[c][p] => last'[c][p] > last[c][p]
    BY <1>0, <1>5, <1>7, <1>8, <1>9
  <1>16. InOrder(d) /\ Before(d, ring) /\ Reached(edges, d) /\ New(last'[cb], d)
    <2>1. CASE d = t
      BY <1>10, <1>11, <2>1
    <2>2. CASE d = <<>>
      <3>1. \A k \in 1 .. Len(d) : FALSE
        BY <2>2
      <3> QED  BY <3>1 DEF InOrder, Before, Reached, New
    <2> QED  BY <1>1, <2>1, <2>2
  <1>17. OrderPart'
    BY <1>3, <1>4, <1>12, <1>13, <1>14, <1>16
    DEF OrderPart, InOrder, Before, New, Reached, cb, we, d
  <1> QED  BY <1>7, <1>15, <1>17

(* wait_event() is given the first event of the queue.                     *)
LEMMA OrderWaited ==
    ASSUME WatchTypes, OrderPart, WaitPops, ring # <<>>
    PROVE  /\ OrderPart' /\ last' \in [Consumers -> [Pins -> Nat]]
           /\ \A c \in Consumers, p \in Pins :
                 last'[c][p] # last[c][p] => last'[c][p] > last[c][p]
  <1> DEFINE b == worker.batch  S == Events  x == ring[1]  n == Len(ring)
             cb == "callback"  we == "wait_event"
  <1>0. cb \in Consumers /\ we \in Consumers /\ cb # we
        /\ \A c \in Consumers : c = cb \/ c = we
    BY DEF Consumers
  <1>1. ring \in Seq(S)
    BY DEF WatchTypes
  <1>2. Give(we, Head(ring)) /\ Popped(1)
    BY DEF WaitPops
  <1>3. worker' = worker /\ edges' = edges
    BY DEF WaitPops
  <1>4. /\ InOrder(b) /\ InOrder(ring) /\ Before(b, ring)
        /\ New(last[cb], b) /\ New(last[cb], ring) /\ New(last[we], ring)
        /\ Reached(edges, b) /\ Reached(edges, ring)
        /\ \A k \in Consumers, p \in Pins : last[k][p] <= edges[p]
    BY DEF OrderPart
  <1>5. /\ last \in [Consumers -> [Pins -> Nat]]
        /\ \A k \in Consumers, p \in Pins : last[k][p] \in Nat
    BY DEF WatchTypes
  <1>6. PICK m \in 0 .. Len(ring) :
            /\ m = IF Len(ring) < 1 THEN Len(ring) ELSE 1
            /\ ring' \in Seq(S) /\ Len(ring') = Len(ring) - m
            /\ \A k \in 1 .. Len(ring) - m : ring'[k] = ring[k + m]
            /\ Part(ring', ring)
    <2>1. 1 \in Nat \ {0}
      OBVIOUS
    <2> QED  BY <1>1, <1>2, <2>1, PopIs
  <1> HIDE DEF b, S, cb, we
  <1>7. n \in Nat \ {0} /\ Head(ring) = x /\ x \in S
        /\ \A k \in 1 .. n : ring[k] \in S
    <2>1. n \in Nat \ {0} /\ Head(ring) = x
      BY <1>1, EmptySeq, HeadTailProperties
    <2>2. \A k \in 1 .. n : ring[k] \in S
      BY <1>1, ElementOfSeq
    <2> HIDE DEF n
    <2>3. 1 \in 1 .. n
      BY <2>1
    <2> QED  BY <2>1, <2>2, <2>3
  <1>8. Len(ring') = n - 1 /\ \A k \in 1 .. n - 1 : ring'[k] = ring[k + 1]
    BY <1>6, <1>7
  <1> HIDE DEF x
  <1>9. /\ last' \in [Consumers -> [Pins -> Nat]]
        /\ last'[we][x.pin] = x.seq
        /\ \A p \in Pins : p # x.pin => last'[we][p] = last[we][p]
        /\ last'[cb] = last[cb]
    BY <1>0, <1>2, <1>5, <1>7, GivenIs DEF S
  <1>10. x.pin \in Pins /\ x.seq \in Nat /\ 1 \in 1 .. n
    BY <1>7 DEF S, Events
  <1>11. last[we][x.pin] < x.seq /\ x.seq <= edges[x.pin]
    BY <1>4, <1>10 DEF New, Reached, x
  <1>12. /\ InOrder(ring') /\ Before(b, ring') /\ Reached(edges, ring')
         /\ New(last[cb], ring')
    BY <1>4, <1>6, PartKeeps
  <1>13. New(last'[we], ring')
    <2> SUFFICES ASSUME NEW k \in 1 .. n - 1
                 PROVE  last'[we][ring'[k].pin] < ring'[k].seq
      BY <1>8 DEF New
    <2>1. ring'[k] = ring[k + 1] /\ k + 1 \in 1 .. n /\ 1 < k + 1
      BY <1>7, <1>8
    <2>2. ring'[k].pin \in Pins
      BY <1>7, <2>1 DEF S, Events
    <2>3. CASE ring'[k].pin = x.pin
      BY <1>4, <1>9, <1>10, <2>1, <2>3 DEF InOrder, x
    <2>4. CASE ring'[k].pin # x.pin
      BY <1>4, <1>9, <2>1, <2>2, <2>4 DEF New
    <2> QED  BY <2>3, <2>4
  <1>14. \A c \in Consumers, p \in Pins : last'[c][p] <= edges[p]
    BY <1>0, <1>4, <1>9, <1>11
  <1>15. \A c \in Consumers, p \in Pins :
             last'[c][p] # last[c][p] => last'[c][p] > last[c][p]
    BY <1>0, <1>5, <1>9, <1>10, <1>11
  <1>16. OrderPart'
    BY <1>3, <1>4, <1>9, <1>12, <1>13, <1>14
    DEF OrderPart, InOrder, Before, New, Reached, cb, we, b
  <1> QED  BY <1>9, <1>15, <1>16

-----------------------------------------------------------------------------
(* Configuring a pin takes events out of the queue at most, and arms or    *)
(* disarms that pin.                                                       *)
LEMMA ConfigureIs ==
    ASSUME WatchTypes, NEW pin, NEW edge,
           ConfigureOk(pin, edge) \/ ConfigureFails(pin, edge) \/ Refuses(pin)
    PROVE  /\ ring' \in Seq(Events) /\ Part(ring', ring)
           /\ faults' \in Nat
           /\ \/ watched' = watched
              \/ edge = "off" /\ watched' = watched \ {pin}
              \/ edge # "off" /\ watched' = watched \cup {pin}
  <1> DEFINE S == Events
  <1>1. ring \in Seq(S) /\ faults \in Nat
    BY DEF WatchTypes
  <1>2. faults' \in Nat
    BY <1>1 DEF ConfigureOk, ConfigureFails, Refuses, Fault
  <1>3. CASE Configured(pin, edge) /\ edge = "off"
    <2>1. watched' = watched \ {pin} /\ ring' = Kept(pin)[Len(ring)]
      BY <1>3 DEF Configured, Disarmed
    <2> HIDE DEF S
    <2>2. ring' \in Seq(S) /\ Part(ring', ring)
      BY <1>1, <2>1, KeptIsPart
    <2> QED  BY <1>2, <1>3, <2>1, <2>2 DEF S
  <1>4. CASE Configured(pin, edge) /\ edge # "off"
    <2>1. watched' = watched \cup {pin} /\ ring' = ring
      BY <1>4 DEF Configured, Armed
    <2>2. Part(ring, ring)
      <3> HIDE DEF S
      <3> QED  BY <1>1, Parts
    <2> QED  BY <1>1, <1>2, <1>4, <2>1, <2>2
  <1>5. CASE UNCHANGED <<watched, ring>>
    <2>1. Part(ring, ring)
      <3> HIDE DEF S
      <3> QED  BY <1>1, Parts
    <2> QED  BY <1>1, <1>2, <1>5, <2>1
  <1> QED  BY <1>3, <1>4, <1>5 DEF ConfigureOk, ConfigureFails, Refuses

-----------------------------------------------------------------------------
(* The list of pins.                                                       *)
LEMMA ListIs ==
    /\ Len(WatchList) \in Nat \ {0} /\ WatchList \in Seq(Pins)
    /\ \A k \in 1 .. Len(WatchList) : WatchList[k] \in Pins
    /\ Range(WatchList) = Pins
  <1>1. /\ WatchList \in Seq(Nat) /\ Len(WatchList) \in Nat \ {0}
        /\ DOMAIN WatchList = 1 .. Len(WatchList)
        /\ WatchList \in [1 .. Len(WatchList) -> Nat]
    BY EventsAssumption, EmptySeq, LenProperties
  <1>2. \A k \in 1 .. Len(WatchList) : WatchList[k] \in Pins
    BY <1>1 DEF Pins, Range
  <1> DEFINE n == Len(WatchList)  S == Pins
  <1>3. WatchList \in [1 .. n -> S]
    BY <1>1, <1>2
  <1>4. n \in Nat
    BY <1>1
  <1> HIDE DEF n, S
  <1>5. WatchList \in Seq(S)
    BY <1>3, <1>4, SeqDef
  <1> QED  BY <1>1, <1>2, <1>5 DEF Pins, S

(* The pins armed so far, and the same in reverse.                         *)
LEMMA ArmedIs ==
    ASSUME WatchTypes, TodoPart, app.stage = "arm"
    PROVE  LET n == Len(WatchList) - Len(app.todo) IN
           /\ n \in 0 .. Len(WatchList) /\ Len(ArmedSoFar) = n
           /\ ArmedSoFar \in Seq(Pins)
           /\ Range(ArmedSoFar) = {WatchList[k] : k \in 1 .. n}
           /\ Reverse(ArmedSoFar) \in Seq(Pins) /\ Len(Reverse(ArmedSoFar)) = n
           /\ Range(Reverse(ArmedSoFar)) = Range(ArmedSoFar)
  <1> DEFINE n == Len(WatchList) - Len(app.todo)  a == ArmedSoFar  r == Reverse(a)
             S == Pins
  <1>1. n \in 0 .. Len(WatchList) /\ Len(WatchList) \in Nat
    <2>1. Len(app.todo) \in Nat
      <3>1. app.todo \in Seq(S)
        BY DEF WatchTypes
      <3> HIDE DEF S
      <3> QED  BY <3>1, LenProperties
    <2>2. Len(app.todo) <= Len(WatchList) /\ Len(WatchList) \in Nat
      BY ListIs DEF TodoPart
    <2> DEFINE t == Len(app.todo)  w == Len(WatchList)
    <2>3. t \in Nat /\ w \in Nat /\ t <= w
      BY <2>1, <2>2
    <2> HIDE DEF t, w
    <2>4. w - t \in 0 .. w
      BY <2>3
    <2> QED  BY <2>3, <2>4 DEF t, w
  <1>2. a = SubSeq(WatchList, 1, n)
    BY DEF ArmedSoFar
  <1>3. WatchList \in Seq(S)
    BY ListIs
  <1> HIDE DEF n, S, a
  <1>4. a \in Seq(S) /\ Len(a) = n /\ \A k \in 1 .. n : a[k] = WatchList[k]
    BY <1>1, <1>2, <1>3, Parts
  <1>5. /\ DOMAIN a = 1 .. n /\ n \in Nat
        /\ \A k \in 1 .. n : a[k] \in S
    BY <1>1, <1>4, LenProperties, ElementOfSeq
  <1>6. Range(a) = {WatchList[k] : k \in 1 .. n}
    BY <1>4, <1>5 DEF Range
  <1>7. r = [k \in 1 .. n |-> a[n - k + 1]]
    BY <1>4 DEF Reverse
  <1>8. /\ r \in [1 .. n -> S] /\ DOMAIN r = 1 .. n
        /\ \A k \in 1 .. n : r[k] = a[n - k + 1]
    <2>1. \A k \in 1 .. n : n - k + 1 \in 1 .. n
      BY <1>5
    <2> QED  BY <1>5, <1>7, <2>1
  <1> HIDE DEF r
  <1>9. r \in Seq(S) /\ Len(r) = n
    <2>1. r \in Seq(S)
      BY <1>5, <1>8, SeqDef
    <2>2. DOMAIN r = 1 .. Len(r) /\ Len(r) \in Nat
      BY <2>1, LenProperties
    <2> DEFINE m == Len(r)
    <2>3. 1 .. m = 1 .. n /\ m \in Nat /\ n \in Nat
      BY <1>5, <1>8, <2>2
    <2> HIDE DEF m
    <2>4. m = n
      BY <2>3
    <2> QED  BY <2>1, <2>4 DEF m
  <1>10. Range(r) = Range(a)
    <2>1. \A k \in 1 .. n : n - k + 1 \in 1 .. n /\ n - (n - k + 1) + 1 = k
      BY <1>5
    <2>2. \A k \in 1 .. n : r[k] = a[n - k + 1] /\ r[n - k + 1] = a[k]
      BY <1>8, <2>1
    <2> QED  BY <1>5, <1>8, <2>1, <2>2 DEF Range
  <1> QED  BY <1>1, <1>4, <1>6, <1>9, <1>10 DEF n, S, a, r

-----------------------------------------------------------------------------
(***************************************************************************)
(* The application thread.                                                 *)
(***************************************************************************)

AppTypes == app \in [stage : AppStages, todo : Seq(Pins)]

(* The application moves to a stage with pins to configure.                *)
LEMMA AppIs ==
    ASSUME NEW s \in AppStages, NEW q \in Seq(Pins), app' = [stage |-> s, todo |-> q]
    PROVE  AppTypes' /\ app'.stage = s /\ app'.todo = q
  <1> DEFINE S == Seq(Pins)
  <1>1. q \in S
    OBVIOUS
  <1> HIDE DEF S
  <1>2. app' \in [stage : AppStages, todo : S]
    BY <1>1
  <1> QED  BY <1>2 DEF AppTypes, S

(* The first of the pins to configure, and the rest.                       *)
LEMMA TodoIs ==
    ASSUME WatchTypes, app.todo # <<>>
    PROVE  /\ Len(app.todo) \in Nat \ {0} /\ Head(app.todo) = app.todo[1]
           /\ Head(app.todo) \in Pins
           /\ Tail(app.todo) \in Seq(Pins) /\ Len(Tail(app.todo)) = Len(app.todo) - 1
           /\ \A k \in 1 .. Len(app.todo) - 1 : Tail(app.todo)[k] = app.todo[k + 1]
           /\ Range(app.todo) = {Head(app.todo)} \cup Range(Tail(app.todo))
           /\ Len(app.todo) = 1 => Range(app.todo) = {Head(app.todo)}
  <1> DEFINE S == Pins  t == app.todo  u == Tail(t)
  <1>1. t \in Seq(S) /\ t # <<>>
    BY DEF WatchTypes
  <1> HIDE DEF S, t
  <1>2. /\ Len(t) \in Nat \ {0} /\ Head(t) = t[1] /\ Head(t) \in S
        /\ u \in Seq(S) /\ Len(u) = Len(t) - 1
        /\ \A k \in 1 .. Len(u) : u[k] = t[k + 1]
        /\ DOMAIN t = 1 .. Len(t)
    BY <1>1, EmptySeq, HeadTailProperties, LenProperties
  <1>3. DOMAIN u = 1 .. Len(t) - 1
    BY <1>2, LenProperties
  <1> HIDE DEF u
  <1>4. Range(t) = {Head(t)} \cup Range(u)
    <2>1. ASSUME NEW k \in 1 .. Len(t)
          PROVE  t[k] = Head(t) \/ \E j \in 1 .. Len(t) - 1 : t[k] = u[j]
      <3>1. CASE k = 1
        BY <1>2, <3>1
      <3>2. CASE k # 1
        <4>1. k - 1 \in 1 .. Len(t) - 1 /\ (k - 1) + 1 = k
          BY <1>2, <3>2
        <4> QED  BY <1>2, <4>1
      <3> QED  BY <3>1, <3>2
    <2>2. 1 \in 1 .. Len(t) /\ \A j \in 1 .. Len(t) - 1 : j + 1 \in 1 .. Len(t)
      <3> DEFINE l == Len(t)
      <3>1. l \in Nat \ {0}
        BY <1>2
      <3> HIDE DEF l
      <3>2. 1 \in 1 .. l /\ \A j \in 1 .. l - 1 : j + 1 \in 1 .. l
        BY <3>1
      <3> QED  BY <3>2 DEF l
    <2>3. \A x : x \in Range(t) <=> \E k \in 1 .. Len(t) : x = t[k]
      BY <1>2 DEF Range
    <2>4. \A x : x \in Range(u) <=> \E k \in 1 .. Len(t) - 1 : x = u[k]
      BY <1>3 DEF Range
    <2>5. \A j \in 1 .. Len(t) - 1 : u[j] = t[j + 1]
      BY <1>2
    <2>6. \A x : x \in Range(t) => x = Head(t) \/ x \in Range(u)
      BY <2>1, <2>3, <2>4
    <2>7. \A x : x = Head(t) \/ x \in Range(u) => x \in Range(t)
      BY <1>2, <2>2, <2>3, <2>4, <2>5
    <2> QED  BY <2>6, <2>7
  <1>5. Len(t) = 1 => Range(t) = {Head(t)}
    BY <1>2 DEF Range
  <1> QED  BY <1>2, <1>4, <1>5 DEF S, t, u

(* Arming the next pin of the list.                                        *)
LEMMA ArmKeeps ==
    ASSUME WatchTypes, TodoPart, ArmedPart, ArmPin
    PROVE  AppTypes' /\ watched' \subseteq Pins /\ TodoPart' /\ ArmedPart'
  <1> DEFINE t == app.todo  h == Head(t)  w == Len(WatchList)  S == Pins
             n == w - Len(t)
  <1>1. /\ app.stage = "arm" /\ t # <<>>
        /\ \A k \in 1 .. Len(t) : t[k] = WatchList[w - Len(t) + k]
    BY DEF ArmPin, TodoPart
  <1>2. /\ Len(t) \in Nat \ {0} /\ h = t[1] /\ h \in S
        /\ Tail(t) \in Seq(S) /\ Len(Tail(t)) = Len(t) - 1
        /\ \A k \in 1 .. Len(t) - 1 : Tail(t)[k] = t[k + 1]
    BY <1>1, TodoIs
  <1>3. /\ n \in 0 .. w /\ w \in Nat
        /\ Range(ArmedSoFar) = {WatchList[k] : k \in 1 .. n}
    BY <1>1, ArmedIs, ListIs
  <1>4. watched' = watched \cup {h} /\ UNCHANGED swallowed
    BY DEF ArmPin, ConfigureOk, Configured, Armed
  <1>5. watched' \subseteq S
    BY <1>2, <1>4 DEF WatchTypes
  <1>6. h = WatchList[n + 1]
    <2>1. 1 \in 1 .. Len(t) /\ w - Len(t) + 1 = n + 1
      BY <1>2
    <2>2. t[1] = WatchList[w - Len(t) + 1]
      BY <1>1, <2>1
    <2> QED  BY <1>2, <2>1, <2>2
  <1>7. CASE Len(t) > 1
    <2> DEFINE u == Tail(t)
    <2>1. app' = [app EXCEPT !.todo = u]
      BY <1>7 DEF ArmPin
    <2>2. AppTypes' /\ app'.stage = "arm" /\ app'.todo = u
      BY <1>1, <1>2, <2>1 DEF WatchTypes, AppTypes
    <2>3. u # <<>>
      <3> DEFINE l == Len(t)  m == Len(u)
      <3>1. l \in Nat /\ l > 1 /\ m = l - 1
        BY <1>2, <1>7
      <3> HIDE DEF l, m
      <3>2. m # 0
        BY <3>1
      <3>3. Len(<<>>) = 0
        OBVIOUS
      <3> HIDE DEF u
      <3>4. u = <<>> => m = Len(<<>>)
        BY Zenon DEF m
      <3> QED  BY <3>2, <3>3, <3>4
    <2>4. Len(u) <= w /\ \A k \in 1 .. Len(u) : u[k] = WatchList[w - Len(u) + k]
      <3> DEFINE l == Len(t)  m == Len(u)
      <3>1. l \in Nat \ {0} /\ m = l - 1 /\ w - l \in 0 .. w /\ w \in Nat
            /\ (\A k \in 1 .. l : t[k] = WatchList[w - l + k])
            /\ \A k \in 1 .. m : u[k] = t[k + 1]
        BY <1>1, <1>2, <1>3
      <3> HIDE DEF l, m, w, t, u
      <3>2. m <= w /\ \A k \in 1 .. m : k + 1 \in 1 .. l /\ w - l + (k + 1) = w - m + k
        BY <3>1
      <3> QED  BY <3>1, <3>2 DEF m
    <2>5. TodoPart'
      BY <2>2, <2>3, <2>4 DEF TodoPart
    <2>6. ~swallowed' => watched' \subseteq Range(ArmedSoFar')
      <3>1. w - Len(u) = n + 1 /\ n + 1 \in 0 .. w
        <4> DEFINE l == Len(t)
        <4>1. l \in Nat \ {0} /\ Len(u) = l - 1 /\ w - l \in 0 .. w /\ w \in Nat
          BY <1>2, <1>3
        <4> HIDE DEF l, w, u
        <4>2. w - (l - 1) = (w - l) + 1 /\ (w - l) + 1 \in 0 .. w
          BY <4>1
        <4> QED  BY <4>1, <4>2 DEF l, w, u
      <3>2. TodoPart' /\ app'.stage = "arm" /\ ArmedSoFar' = SubSeq(WatchList, 1, n + 1)
        BY <2>2, <2>5, <3>1 DEF ArmedSoFar
      <3>3. Range(ArmedSoFar') = {WatchList[k] : k \in 1 .. n + 1}
        <4> DEFINE a == SubSeq(WatchList, 1, n + 1)  m == n + 1
        <4>1. WatchList \in Seq(S) /\ m \in 0 .. Len(WatchList)
          BY <3>1, ListIs
        <4> HIDE DEF S, n, w, m
        <4>2. /\ SubSeq(WatchList, 1, m) \in Seq(S) /\ Len(SubSeq(WatchList, 1, m)) = m
              /\ \A k \in 1 .. m : SubSeq(WatchList, 1, m)[k] = WatchList[k]
          BY <4>1, Parts
        <4>3. DOMAIN a = 1 .. m /\ \A k \in 1 .. m : a[k] = WatchList[k]
          BY <4>2, LenProperties DEF m
        <4> HIDE DEF a
        <4>4. Range(a) = {WatchList[k] : k \in 1 .. m}
          BY <4>3 DEF Range
        <4> QED  BY <3>2, <4>4 DEF a, m
      <3>4. 1 .. n \subseteq 1 .. n + 1 /\ n + 1 \in 1 .. n + 1
        <4>1. n \in Nat
          BY <1>3
        <4> HIDE DEF n
        <4> QED  BY <4>1
      <3>5. ~swallowed' => watched \subseteq {WatchList[k] : k \in 1 .. n}
        BY <1>1, <1>3, <1>4 DEF ArmedPart
      <3> QED  BY <1>4, <1>6, <3>3, <3>4, <3>5
    <2>7. ArmedPart'
      BY <2>2, <2>6 DEF ArmedPart, ArmedSoFar
    <2> QED  BY <1>5, <2>2, <2>5, <2>7
  <1>8. CASE ~(Len(t) > 1)
    <2>1. app' = [stage |-> "running", todo |-> <<>>]
      BY <1>8 DEF ArmPin
    <2>2. AppTypes' /\ app'.stage = "running"
      <3>1. <<>> \in Seq(Pins)
        OBVIOUS
      <3>2. "running" \in AppStages
        BY DEF AppStages
      <3> QED  BY <2>1, <3>1, <3>2, AppIs
    <2> QED  BY <1>5, <2>2 DEF TodoPart, ArmedPart
  <1> QED  BY <1>7, <1>8

(* Nothing is rolled back when the thread cannot be started.               *)
LEMMA NoThreadKeeps ==
    ASSUME WatchTypes, TodoPart, NoThread
    PROVE  /\ AppTypes' /\ watched' \subseteq Pins /\ TodoPart' /\ ArmedPart'
           /\ ring' = ring /\ faults' = faults + 1
  <1>1. app.stage = "arm" /\ app.todo # <<>>
    BY DEF NoThread, TodoPart
  <1>2. Head(app.todo) \in Pins
    BY <1>1, TodoIs
  <1>3. /\ watched' = watched \cup {Head(app.todo)} /\ ring' = ring
        /\ faults' = faults + 1 /\ swallowed'
        /\ app' = [stage |-> "idle", todo |-> <<>>]
    BY DEF NoThread, Configured, Armed, Fault
  <1>4. AppTypes' /\ app'.stage = "idle"
    <2>1. <<>> \in Seq(Pins) /\ "idle" \in AppStages
      BY DEF AppStages
    <2> QED  BY <1>3, <2>1, AppIs
  <1>5. watched' \subseteq Pins
    BY <1>2, <1>3 DEF WatchTypes
  <1>6. TodoPart' /\ ArmedPart'
    BY <1>3, <1>4 DEF TodoPart, ArmedPart
  <1> QED  BY <1>3, <1>4, <1>5, <1>6

(* Rolling back what was armed, if anything was.                           *)
LEMMA RollbackKeeps ==
    ASSUME WatchTypes, TodoPart, ArmedPart, ArmFails
    PROVE  AppTypes' /\ watched' \subseteq Pins /\ TodoPart' /\ ArmedPart'
  <1> DEFINE h == Head(app.todo)  S == Pins  a == ArmedSoFar  r == Reverse(a)
  <1>1. app.stage = "arm" /\ app.todo # <<>>
    BY DEF ArmFails, TodoPart
  <1>2. h \in S
    BY <1>1, TodoIs
  <1>3. PICK n \in Nat : /\ Len(a) = n /\ a \in Seq(S) /\ r \in Seq(S) /\ Len(r) = n
                         /\ Range(r) = Range(a)
    <2>1. /\ Len(WatchList) - Len(app.todo) \in 0 .. Len(WatchList)
          /\ Len(a) = Len(WatchList) - Len(app.todo) /\ a \in Seq(S)
          /\ r \in Seq(S) /\ Len(r) = Len(WatchList) - Len(app.todo)
          /\ Range(r) = Range(a)
      BY <1>1, ArmedIs
    <2>2. Len(a) \in Nat
      <3> HIDE DEF S, a
      <3> QED  BY <2>1, LenProperties
    <2> QED  BY <2>1, <2>2
  <1>4. /\ watched' \subseteq S
        /\ ~swallowed' => watched' = watched /\ ~swallowed
    <2>1. ConfigureFails(h, "on") \/ Refuses(h)
      BY DEF ArmFails
    <2>2. watched' = watched \/ watched' = watched \cup {h}
      BY <2>1 DEF ConfigureFails, Refuses, Configured, Armed
    <2>3. watched' = watched \/ faults' # faults
      BY <2>1 DEF ConfigureFails, Refuses, Fault, WatchTypes
    <2>4. (swallowed \/ faults' # faults) => swallowed'
      BY DEF ArmFails
    <2> QED  BY <1>2, <2>2, <2>3, <2>4 DEF WatchTypes
  <1>5. CASE a = <<>>
    <2>1. app' = [stage |-> "idle", todo |-> <<>>]
      BY <1>5 DEF ArmFails
    <2>2. AppTypes' /\ app'.stage = "idle"
      <3>1. <<>> \in Seq(Pins) /\ "idle" \in AppStages
        BY DEF AppStages
      <3> QED  BY <2>1, <3>1, AppIs
    <2>3. Range(a) = {}
      BY <1>5 DEF Range
    <2>4. ~swallowed' => watched' = {}
      BY <1>1, <1>4, <2>3 DEF ArmedPart
    <2> QED  BY <1>4, <2>2, <2>4 DEF TodoPart, ArmedPart
  <1>6. CASE a # <<>>
    <2>1. app' = [stage |-> "off", todo |-> r]
      BY <1>6 DEF ArmFails
    <2>2. AppTypes' /\ app'.stage = "off" /\ app'.todo = r
      <3>1. "off" \in AppStages
        BY DEF AppStages
      <3> QED  BY <1>3, <2>1, <3>1, AppIs
    <2>3. r # <<>>
      <3> HIDE DEF a, r, S
      <3>1. n # 0
        BY <1>3, <1>6, EmptySeq
      <3>2. Len(<<>>) = 0
        OBVIOUS
      <3> QED  BY <1>3, <3>1, <3>2
    <2>4. ~swallowed' => watched' \subseteq Range(r)
      BY <1>1, <1>3, <1>4 DEF ArmedPart
    <2> QED  BY <1>4, <2>2, <2>3, <2>4 DEF TodoPart, ArmedPart
  <1> QED  BY <1>5, <1>6

(* Disarming the next pin.                                                 *)
LEMMA OffKeeps ==
    ASSUME WatchTypes, TodoPart, ArmedPart, SwitchOff
    PROVE  AppTypes' /\ watched' \subseteq Pins /\ TodoPart' /\ ArmedPart'
  <1> DEFINE t == app.todo  h == Head(t)  u == Tail(t)  S == Pins
  <1>1. app.stage = "off" /\ t # <<>>
    BY DEF SwitchOff, TodoPart
  <1>2. /\ Len(t) \in Nat \ {0} /\ u \in Seq(S) /\ Len(u) = Len(t) - 1
        /\ Range(t) = {h} \cup Range(u) /\ (Len(t) = 1 => Range(t) = {h})
    BY <1>1, TodoIs
  <1>3. /\ watched' \subseteq watched
        /\ ~swallowed' => watched' = watched \ {h} /\ ~swallowed
    BY DEF SwitchOff, ConfigureOk, ConfigureFails, Configured, Disarmed
  <1>4. watched' \subseteq S
    BY <1>3 DEF WatchTypes
  <1>5. ~swallowed' => watched' \subseteq Range(t) \ {h}
    BY <1>1, <1>3 DEF ArmedPart
  <1>6. CASE Len(t) > 1
    <2>1. app' = [app EXCEPT !.todo = u]
      BY <1>6 DEF SwitchOff
    <2>2. AppTypes' /\ app'.stage = "off" /\ app'.todo = u
      BY <1>1, <1>2, <2>1 DEF WatchTypes, AppTypes
    <2>3. u # <<>>
      <3> DEFINE l == Len(t)  m == Len(u)
      <3>1. l \in Nat /\ l > 1 /\ m = l - 1
        BY <1>2, <1>6
      <3> HIDE DEF l, m
      <3>2. m # 0
        BY <3>1
      <3>3. Len(<<>>) = 0
        OBVIOUS
      <3> HIDE DEF u
      <3>4. u = <<>> => m = Len(<<>>)
        BY Zenon DEF m
      <3> QED  BY <3>2, <3>3, <3>4
    <2>4. ~swallowed' => watched' \subseteq Range(u)
      BY <1>2, <1>5
    <2> QED  BY <1>4, <2>2, <2>3, <2>4 DEF TodoPart, ArmedPart
  <1>7. CASE ~(Len(t) > 1)
    <2>1. app' = [stage |-> "idle", todo |-> <<>>]
      BY <1>7 DEF SwitchOff
    <2>2. AppTypes' /\ app'.stage = "idle"
      <3>1. <<>> \in Seq(Pins) /\ "idle" \in AppStages
        BY DEF AppStages
      <3> QED  BY <2>1, <3>1, AppIs
    <2>3. Len(t) = 1
      <3> DEFINE l == Len(t)
      <3>1. l \in Nat \ {0} /\ ~(l > 1)
        BY <1>2, <1>7
      <3> HIDE DEF l
      <3>2. l = 1
        BY <3>1
      <3> QED  BY <3>2 DEF l
    <2>4. ~swallowed' => watched' = {}
      BY <1>2, <1>5, <2>3
    <2> QED  BY <1>4, <2>2, <2>4 DEF TodoPart, ArmedPart
  <1> QED  BY <1>6, <1>7

(* The other steps of the application, and those of everyone else, leave   *)
(* the pins armed as they are; stop() goes on to disarm all of the list.   *)
LEMMA AppKeeps ==
    ASSUME WatchTypes, TodoPart, ArmedPart, UNCHANGED <<watched, swallowed>>,
           \/ app' = app
           \/ app' = [stage |-> "arm", todo |-> WatchList] /\ app.stage = "idle"
           \/ app' = [stage |-> "off", todo |-> WatchList]
           \/ \E s \in {"running", "waiting", "notify", "join"} :
                 app' = [app EXCEPT !.stage = s]
    PROVE  AppTypes' /\ watched' \subseteq Pins /\ TodoPart' /\ ArmedPart'
  <1>1. watched' = watched /\ watched \subseteq Pins /\ (~swallowed' => ~swallowed)
    BY DEF WatchTypes
  <1>2. CASE app' = app
    BY <1>1, <1>2 DEF WatchTypes, AppTypes, TodoPart, ArmedPart, ArmedSoFar
  <1>3. CASE app' = [stage |-> "arm", todo |-> WatchList] /\ app.stage = "idle"
    <2>1. AppTypes' /\ app'.stage = "arm" /\ app'.todo = WatchList
      <3>1. "arm" \in AppStages
        BY DEF AppStages
      <3> QED  BY <1>3, <3>1, ListIs, AppIs
    <2>2. TodoPart'
      <3>1. \A k \in 1 .. Len(WatchList) : Len(WatchList) - Len(WatchList) + k = k
        BY ListIs
      <3>2. Len(WatchList) <= Len(WatchList) /\ WatchList # <<>>
        BY ListIs, EventsAssumption
      <3> QED  BY <2>1, <3>1, <3>2 DEF TodoPart
    <2>3. ~swallowed' => watched' = {}
      BY <1>1, <1>3 DEF ArmedPart
    <2> QED  BY <1>1, <2>1, <2>2, <2>3 DEF ArmedPart
  <1>4. CASE app' = [stage |-> "off", todo |-> WatchList]
    <2>1. AppTypes' /\ app'.stage = "off" /\ app'.todo = WatchList
      <3>1. "off" \in AppStages
        BY DEF AppStages
      <3> QED  BY <1>4, <3>1, ListIs, AppIs
    <2> QED  BY <1>1, <2>1, ListIs, EventsAssumption DEF TodoPart, ArmedPart
  <1>5. CASE \E s \in {"running", "waiting", "notify", "join"} :
                 app' = [app EXCEPT !.stage = s]
    <2>1. /\ AppTypes' /\ app'.stage \in {"running", "waiting", "notify", "join"}
      BY <1>5 DEF WatchTypes, AppTypes, AppStages
    <2> QED  BY <1>1, <2>1 DEF TodoPart, ArmedPart
  <1> QED  BY <1>2, <1>3, <1>4, <1>5

-----------------------------------------------------------------------------
(***************************************************************************)
(* The worker, and every step.                                             *)
(***************************************************************************)

WorkerTypes == worker \in [stage : WorkerStages, batch : Seq(Events), dropped : Nat]
Later ==
    \A c \in Consumers, p \in Pins :
        last'[c][p] # last[c][p] => last'[c][p] > last[c][p]

(* The worker moves to a stage with the batch it has, or with none.        *)
LEMMA WorkerIs ==
    ASSUME WatchTypes, NEW s \in WorkerStages,
           \/ worker' = worker
           \/ worker' = [worker EXCEPT !.stage = s]
           \/ worker' = [worker EXCEPT !.stage = s, !.dropped = 0]
           \/ worker' = NoEvents
           \/ worker' = [NoEvents EXCEPT !.stage = s]
    PROVE  WorkerTypes' /\ Part(worker'.batch, worker.batch)
  <1> DEFINE E == Events  S == Seq(E)
             W == [stage : WorkerStages, batch : S, dropped : Nat]
  <1>1. worker \in W
    BY DEF WatchTypes
  <1>2. <<>> \in S /\ "none" \in WorkerStages
    <2>1. <<>> \in S
      <3> HIDE DEF E
      <3> QED  OBVIOUS
    <2> QED  BY <2>1 DEF WorkerStages
  <1>3. \A b \in S : Part(b, b) /\ Part(<<>>, b)
    <2> HIDE DEF E
    <2> QED  BY Parts
  <1> HIDE DEF S
  <1>4. worker' \in W /\ (worker'.batch = worker.batch \/ worker'.batch = <<>>)
    <2>1. CASE worker' = worker
      BY <1>1, <2>1
    <2>2. CASE worker' = [worker EXCEPT !.stage = s]
      BY <1>1, <2>2
    <2>3. CASE worker' = [worker EXCEPT !.stage = s, !.dropped = 0]
      BY <1>1, <2>3
    <2> DEFINE none == <<>>
    <2>4. none \in S
      BY <1>2
    <2>5. NoEvents = [stage |-> "none", batch |-> none, dropped |-> 0]
      BY DEF NoEvents
    <2> HIDE DEF none
    <2>6. CASE worker' = NoEvents
      BY <1>2, <2>4, <2>5, <2>6 DEF none
    <2>7. CASE worker' = [NoEvents EXCEPT !.stage = s]
      <3>1. worker' = [stage |-> s, batch |-> none, dropped |-> 0]
        BY <2>5, <2>7
      <3> QED  BY <2>4, <3>1 DEF none
    <2> QED  BY <2>1, <2>2, <2>3, <2>6, <2>7
  <1>5. worker.batch \in S
    BY <1>1
  <1>6. Part(worker'.batch, worker.batch)
    BY <1>3, <1>4, <1>5
  <1> QED  BY <1>4, <1>6 DEF WorkerTypes, S

(* Steps that give nothing to a consumer and count no edge.                *)
LEMMA QuietKeeps ==
    ASSUME WatchInv,
           AppTypes' /\ watched' \subseteq Pins /\ TodoPart' /\ ArmedPart',
           WorkerTypes' /\ Part(worker'.batch, worker.batch),
           ring' \in Seq(Events), Part(ring', ring),
           dropped' \in Nat, faults' \in Nat, UNCHANGED <<last, edges>>
    PROVE  WatchInv' /\ Later
  <1>1. OrderPart'
    BY OrderShrinks DEF WatchInv
  <1>2. WatchTypes'
    BY DEF WatchInv, WatchTypes, AppTypes, WorkerTypes
  <1>3. Later
    BY DEF Later
  <1> QED  BY <1>1, <1>2, <1>3 DEF WatchInv

(* A queue nobody touches.                                                 *)
LEMMA SameRing ==
    ASSUME WatchTypes, ring' = ring
    PROVE  ring' \in Seq(Events) /\ Part(ring', ring)
  <1> DEFINE E == Events
  <1>1. ring \in Seq(E)
    BY DEF WatchTypes
  <1> HIDE DEF E
  <1>2. Part(ring, ring)
    BY <1>1, Parts
  <1> QED  BY <1>1, <1>2 DEF E

(* The steps that leave the device's queue, the pins and the failures of   *)
(* EVENT_CONFIG alone.                                                     *)
LEMMA CalmKeeps ==
    ASSUME WatchInv, NEW s \in WorkerStages,
           UNCHANGED <<ring, watched, swallowed, last, edges>>,
           dropped' \in Nat, faults' \in Nat,
           \/ app' = app
           \/ app' = [stage |-> "arm", todo |-> WatchList] /\ app.stage = "idle"
           \/ app' = [stage |-> "off", todo |-> WatchList]
           \/ \E t \in {"running", "waiting", "notify", "join"} :
                 app' = [app EXCEPT !.stage = t],
           \/ worker' = worker
           \/ worker' = [worker EXCEPT !.stage = s]
           \/ worker' = [worker EXCEPT !.stage = s, !.dropped = 0]
           \/ worker' = NoEvents
           \/ worker' = [NoEvents EXCEPT !.stage = s]
    PROVE  WatchInv' /\ Later
  <1>1. WatchTypes /\ TodoPart /\ ArmedPart
    BY DEF WatchInv
  <1>2. AppTypes' /\ watched' \subseteq Pins /\ TodoPart' /\ ArmedPart'
    BY <1>1, AppKeeps
  <1>3. WorkerTypes' /\ Part(worker'.batch, worker.batch)
    BY <1>1, WorkerIs
  <1>4. ring' \in Seq(Events) /\ Part(ring', ring)
    BY <1>1, SameRing
  <1> QED  BY <1>2, <1>3, <1>4, QuietKeeps

(* Losing a pop, whether or not the device has served it.                  *)
LEMMA PopLost ==
    ASSUME WatchTypes, NEW max \in Nat \ {0},
           Popped(max) \/ UNCHANGED <<ring, dropped>>
    PROVE  ring' \in Seq(Events) /\ Part(ring', ring) /\ dropped' \in Nat
  <1>1. CASE Popped(max)
    <2>1. ring \in Seq(Events) /\ dropped' = 0
      BY <1>1 DEF WatchTypes, Popped
    <2>2. ring' \in Seq(Events) /\ Part(ring', ring)
      BY <1>1, <2>1, PopIs
    <2> QED  BY <2>1, <2>2
  <1>2. CASE UNCHANGED <<ring, dropped>>
    <2>1. dropped' \in Nat
      BY <1>2 DEF WatchTypes
    <2> QED  BY <1>2, <2>1, SameRing
  <1> QED  BY <1>1, <1>2

(* An edge, and starting or ending a Stream.                               *)
LEMMA EdgeKeeps ==
    ASSUME WatchInv, NEW pin \in Pins, Edge(pin)
    PROVE  WatchInv' /\ Later
  <1>1. WatchTypes /\ TodoPart /\ ArmedPart /\ OrderPart
    BY DEF WatchInv
  <1>2. OrderPart'
    BY <1>1, OrderEdge
  <1>3. UNCHANGED <<watched, swallowed, app, worker, last, faults>>
    BY DEF Edge, hostVars
  <1>4. AppTypes' /\ watched' \subseteq Pins /\ TodoPart' /\ ArmedPart'
    BY <1>1, <1>3, AppKeeps
  <1>5. edges' \in [Pins -> Nat] /\ dropped' \in Nat /\ ring' \in Seq(Events)
    <2> DEFINE E == Events  x == [pin |-> pin, seq |-> edges[pin] + 1]
    <2>1. /\ edges \in [Pins -> Nat] /\ dropped \in Nat /\ ring \in Seq(E)
      BY <1>1 DEF WatchTypes
    <2>2. edges[pin] \in Nat
      BY <2>1
    <2>3. x \in E
      BY <2>2 DEF Events
    <2>4. \/ ring' = Append(ring, x) /\ dropped' = dropped
          \/ ring' = ring /\ dropped' = Saturated(dropped + 1)
      BY DEF Edge
    <2>5. edges' = [edges EXCEPT ![pin] = edges[pin] + 1]
      BY DEF Edge
    <2>6. edges' \in [Pins -> Nat]
      BY <2>1, <2>2, <2>5
    <2>7. dropped' \in Nat
      BY <2>1, <2>4, EventsAssumption DEF Saturated
    <2> HIDE DEF E, x
    <2>8. ring' \in Seq(E)
      BY <2>1, <2>3, <2>4, AppendProperties
    <2> QED  BY <2>6, <2>7, <2>8 DEF E
  <1>6. WatchTypes'
    BY <1>1, <1>3, <1>4, <1>5 DEF WatchTypes, AppTypes
  <1>7. Later
    BY <1>3 DEF Later
  <1> QED  BY <1>2, <1>4, <1>6, <1>7 DEF WatchInv

(* The steps of the application thread.                                    *)
LEMMA AppStep ==
    ASSUME WatchInv,
           \/ ToggleStream \/ Construct \/ RequestStop \/ StopStep
           \/ CallWait \/ WaitPops \/ WaitFails
    PROVE  WatchInv' /\ Later
  <1>1. WatchTypes /\ TodoPart /\ ArmedPart /\ OrderPart
    BY DEF WatchInv
  <1>2. /\ dropped \in Nat /\ faults \in Nat /\ worker.stage \in WorkerStages
    BY <1>1 DEF WatchTypes
  <1>3. CASE ToggleStream
    <2>1. /\ UNCHANGED <<ring, watched, swallowed, last, edges, app, worker>>
          /\ dropped' \in Nat /\ faults' \in Nat
      BY <1>2, <1>3 DEF ToggleStream, devVars, hostVars
    <2> QED  BY <1>2, <2>1, CalmKeeps
  <1>4. CASE Construct
    <2>1. /\ UNCHANGED <<ring, watched, swallowed, last, edges, worker>>
          /\ dropped' \in Nat /\ faults' \in Nat
          /\ app' = [stage |-> "arm", todo |-> WatchList] /\ app.stage = "idle"
      BY <1>2, <1>4 DEF Construct, devVars
    <2> QED  BY <1>2, <2>1, CalmKeeps
  <1>5. CASE RequestStop
    <2>1. /\ UNCHANGED <<ring, watched, swallowed, last, edges, worker>>
          /\ dropped' \in Nat /\ faults' \in Nat
          /\ app' = [app EXCEPT !.stage = "notify"]
      BY <1>2, <1>5 DEF RequestStop, devVars
    <2> QED  BY <1>2, <2>1, CalmKeeps
  <1>6. CASE NotifyAll
    <2> DEFINE s == IF worker.stage = "asleep" THEN "loop" ELSE worker.stage
    <2>1. /\ UNCHANGED <<ring, watched, swallowed, last, edges>>
          /\ dropped' \in Nat /\ faults' \in Nat
          /\ app' = [app EXCEPT !.stage = "join"]
          /\ worker' = [worker EXCEPT !.stage = s]
      BY <1>2, <1>6 DEF NotifyAll, Wake, devVars
    <2>2. s \in WorkerStages
      BY <1>2 DEF WorkerStages
    <2> HIDE DEF s
    <2> QED  BY <2>1, <2>2, CalmKeeps
  <1>7. CASE JoinWorker
    <2>1. /\ UNCHANGED <<ring, watched, swallowed, last, edges>>
          /\ dropped' \in Nat /\ faults' \in Nat
          /\ app' = [stage |-> "off", todo |-> WatchList] /\ worker' = NoEvents
      BY <1>2, <1>7 DEF JoinWorker, devVars
    <2> QED  BY <1>2, <2>1, CalmKeeps
  <1>8. CASE SwitchOff
    <2>1. AppTypes' /\ watched' \subseteq Pins /\ TodoPart' /\ ArmedPart'
      BY <1>1, <1>8, OffKeeps
    <2>2. ring' \in Seq(Events) /\ Part(ring', ring) /\ faults' \in Nat
      <3>1. \/ ConfigureOk(Head(app.todo), "off")
            \/ ConfigureFails(Head(app.todo), "off")
        BY <1>8 DEF SwitchOff
      <3> QED  BY <1>1, <3>1, ConfigureIs
    <2>3. UNCHANGED <<last, edges, worker, dropped>>
      BY <1>8 DEF SwitchOff
    <2>4. WorkerTypes' /\ Part(worker'.batch, worker.batch)
      BY <1>1, <1>2, <2>3, WorkerIs
    <2> QED  BY <1>2, <2>1, <2>2, <2>3, <2>4, QuietKeeps
  <1>9. CASE ArmPin
    <2>1. AppTypes' /\ watched' \subseteq Pins /\ TodoPart' /\ ArmedPart'
      BY <1>1, <1>9, ArmKeeps
    <2>2. ring' \in Seq(Events) /\ Part(ring', ring) /\ faults' \in Nat
      <3>1. ConfigureOk(Head(app.todo), "on")
        BY <1>9 DEF ArmPin
      <3> QED  BY <1>1, <3>1, ConfigureIs
    <2>3. /\ UNCHANGED <<last, edges, dropped>>
          /\ worker' = worker \/ worker' = [NoEvents EXCEPT !.stage = "loop"]
      BY <1>9 DEF ArmPin
    <2>4. "loop" \in WorkerStages
      BY DEF WorkerStages
    <2>5. WorkerTypes' /\ Part(worker'.batch, worker.batch)
      BY <1>1, <2>3, <2>4, WorkerIs
    <2> QED  BY <1>2, <2>1, <2>2, <2>3, <2>5, QuietKeeps
  <1>10. CASE ArmFails
    <2>1. AppTypes' /\ watched' \subseteq Pins /\ TodoPart' /\ ArmedPart'
      BY <1>1, <1>10, RollbackKeeps
    <2>2. ring' \in Seq(Events) /\ Part(ring', ring) /\ faults' \in Nat
      <3>1. \/ ConfigureFails(Head(app.todo), "on")
            \/ Refuses(Head(app.todo))
        BY <1>10 DEF ArmFails
      <3> QED  BY <1>1, <3>1, ConfigureIs
    <2>3. UNCHANGED <<last, edges, worker, dropped>>
      BY <1>10 DEF ArmFails
    <2>4. WorkerTypes' /\ Part(worker'.batch, worker.batch)
      BY <1>1, <1>2, <2>3, WorkerIs
    <2> QED  BY <1>2, <2>1, <2>2, <2>3, <2>4, QuietKeeps
  <1>11. CASE CallWait
    <2>1. /\ UNCHANGED <<ring, watched, swallowed, last, edges, worker>>
          /\ dropped' \in Nat /\ faults' \in Nat
          /\ app' = [app EXCEPT !.stage = "waiting"]
      BY <1>2, <1>11 DEF CallWait, devVars
    <2> QED  BY <1>2, <2>1, CalmKeeps
  <1>12. CASE WaitPops
    <2>1. /\ UNCHANGED <<watched, swallowed, edges, worker, faults>>
          /\ app' = app \/ app' = [app EXCEPT !.stage = "running"]
      BY <1>12 DEF WaitPops
    <2>2. AppTypes' /\ watched' \subseteq Pins /\ TodoPart' /\ ArmedPart'
      BY <1>1, <2>1, AppKeeps
    <2>3. 1 \in Nat \ {0} /\ Popped(1)
      BY <1>12 DEF WaitPops
    <2>4. ring' \in Seq(Events) /\ Part(ring', ring) /\ dropped' \in Nat
      BY <1>1, <2>3, PopLost
    <2>5. CASE ring = <<>>
      <3>1. last' = last
        BY <1>12, <2>5 DEF WaitPops
      <3>2. WorkerTypes' /\ Part(worker'.batch, worker.batch)
        BY <1>1, <1>2, <2>1, WorkerIs
      <3> QED  BY <1>2, <2>1, <2>2, <2>4, <3>1, <3>2, QuietKeeps
    <2>6. CASE ring # <<>>
      <3>1. OrderPart' /\ last' \in [Consumers -> [Pins -> Nat]] /\ Later
        BY <1>1, <1>12, <2>6, OrderWaited DEF Later
      <3>2. WatchTypes'
        BY <1>1, <2>1, <2>2, <2>4, <3>1 DEF WatchTypes, AppTypes
      <3> QED  BY <2>2, <3>1, <3>2 DEF WatchInv
    <2> QED  BY <2>5, <2>6
  <1>13. CASE WaitFails
    <2>1. /\ UNCHANGED <<watched, swallowed, last, edges, worker>>
          /\ app' = [app EXCEPT !.stage = "running"]
          /\ faults' = faults + 1
          /\ Popped(1) \/ UNCHANGED <<ring, dropped>>
      BY <1>13 DEF WaitFails, Fault
    <2>2. AppTypes' /\ watched' \subseteq Pins /\ TodoPart' /\ ArmedPart'
      BY <1>1, <2>1, AppKeeps
    <2>3. 1 \in Nat \ {0} /\ faults' \in Nat
      BY <1>2, <2>1
    <2>4. ring' \in Seq(Events) /\ Part(ring', ring) /\ dropped' \in Nat
      BY <1>1, <2>1, <2>3, PopLost
    <2>5. WorkerTypes' /\ Part(worker'.batch, worker.batch)
      BY <1>1, <1>2, <2>1, WorkerIs
    <2> QED  BY <2>1, <2>2, <2>3, <2>4, <2>5, QuietKeeps
  <1>14. CASE NoThread
    <2>1. /\ AppTypes' /\ watched' \subseteq Pins /\ TodoPart' /\ ArmedPart'
          /\ ring' = ring /\ faults' = faults + 1
      BY <1>1, <1>14, NoThreadKeeps
    <2>2. UNCHANGED <<last, edges, worker, dropped>>
      BY <1>14 DEF NoThread
    <2>3. WorkerTypes' /\ Part(worker'.batch, worker.batch)
      BY <1>1, <1>2, <2>2, WorkerIs
    <2>4. ring' \in Seq(Events) /\ Part(ring', ring)
      BY <1>1, <2>1, SameRing
    <2>5. dropped' \in Nat /\ faults' \in Nat
      BY <1>2, <2>1, <2>2
    <2> QED  BY <2>1, <2>2, <2>3, <2>4, <2>5, QuietKeeps
  <1> QED
    BY <1>3, <1>4, <1>5, <1>6, <1>7, <1>8, <1>9, <1>10, <1>11, <1>12, <1>13, <1>14
    DEF StopStep

(* The steps of the worker.                                                *)
LEMMA WorkerKeeps ==
    ASSUME WatchInv, WorkerStep
    PROVE  WatchInv' /\ Later
  <1>1. WatchTypes /\ TodoPart /\ ArmedPart /\ OrderPart
    BY DEF WatchInv
  <1>2. /\ dropped \in Nat /\ faults \in Nat /\ worker.stage \in WorkerStages
        /\ PopMax \in Nat \ {0}
        /\ {"loop", "ended", "wait", "pop", "deliver", "dozing", "asleep"}
              \subseteq WorkerStages
    BY <1>1, EventsAssumption DEF WatchTypes, WorkerStages
  <1>3. CASE BeginPoll
    <2> DEFINE t == IF Streaming THEN "wait" ELSE "pop"
    <2>1. /\ UNCHANGED <<ring, watched, swallowed, last, edges, app>>
          /\ dropped' \in Nat /\ faults' \in Nat
      BY <1>2, <1>3 DEF BeginPoll, devVars
    <2>2. \/ worker' = [worker EXCEPT !.stage = "ended"]
          \/ worker' = [NoEvents EXCEPT !.stage = t]
      BY <1>3 DEF BeginPoll
    <2>3. t \in WorkerStages /\ "ended" \in WorkerStages
      BY <1>2
    <2> HIDE DEF t
    <2> QED  BY <2>1, <2>2, <2>3, CalmKeeps
  <1>4. CASE PopEvents
    <2>1. /\ UNCHANGED <<watched, swallowed, last, edges, app, faults>>
          /\ Popped(PopMax)
          /\ worker' = AddBatch(worker, Batch(PopMax), dropped, Pending(PopMax))
      BY <1>4 DEF PopEvents
    <2>2. worker' = [stage   |-> IF Pending(PopMax) THEN "pop" ELSE "count",
                     batch   |-> worker.batch \o Batch(PopMax),
                     dropped |-> Saturated(worker.dropped + dropped)]
      BY <2>1 DEF AddBatch
    <2>3. OrderPart'
      BY <1>1, <1>2, <2>1, <2>2, OrderPopped
    <2>4. AppTypes' /\ watched' \subseteq Pins /\ TodoPart' /\ ArmedPart'
      BY <1>1, <2>1, AppKeeps
    <2>5. ring' \in Seq(Events) /\ dropped' \in Nat
      BY <1>1, <1>2, <2>1, PopLost
    <2>6. WorkerTypes'
      <3> DEFINE E == Events  S == Seq(E)  b == worker.batch \o Batch(PopMax)
      <3>1. ring \in Seq(E) /\ worker.batch \in Seq(E) /\ worker.dropped \in Nat
        BY <1>1 DEF WatchTypes
      <3>2. Batch(PopMax) \in Seq(E)
        BY <1>2, <2>1, <3>1, PopIs
      <3>3. b \in Seq(E)
        <4> HIDE DEF E
        <4> QED  BY <3>1, <3>2, ConcatProperties
      <3>4. Saturated(worker.dropped + dropped) \in Nat
        BY <1>2, <3>1, EventsAssumption DEF Saturated
      <3>5. {"pop", "count"} \subseteq WorkerStages
        BY DEF WorkerStages
      <3> HIDE DEF b, S
      <3>6. worker' \in [stage : WorkerStages, batch : S, dropped : Nat]
        BY <2>2, <3>3, <3>4, <3>5 DEF b, S
      <3> QED  BY <3>6 DEF WorkerTypes, S
    <2>7. WatchTypes'
      BY <1>1, <2>1, <2>4, <2>5, <2>6 DEF WatchTypes, AppTypes, WorkerTypes
    <2>8. Later
      BY <2>1 DEF Later
    <2> QED  BY <2>3, <2>4, <2>7, <2>8 DEF WatchInv
  <1>5. CASE PopTimesOut
    <2>1. /\ UNCHANGED <<watched, swallowed, last, edges, app>>
          /\ worker' = [NoEvents EXCEPT !.stage = "wait"] /\ faults' = faults + 1
          /\ Popped(PopMax) \/ UNCHANGED <<ring, dropped>>
      BY <1>5 DEF PopTimesOut, Fault
    <2>2. AppTypes' /\ watched' \subseteq Pins /\ TodoPart' /\ ArmedPart'
      BY <1>1, <2>1, AppKeeps
    <2>3. ring' \in Seq(Events) /\ Part(ring', ring) /\ dropped' \in Nat
      BY <1>1, <1>2, <2>1, PopLost
    <2>4. WorkerTypes' /\ Part(worker'.batch, worker.batch) /\ faults' \in Nat
      <3>1. "wait" \in WorkerStages
        BY <1>2
      <3>2. WorkerTypes' /\ Part(worker'.batch, worker.batch)
        BY <1>1, <2>1, <3>1, WorkerIs
      <3>3. faults' \in Nat
        BY <1>2, <2>1
      <3> QED  BY <3>2, <3>3
    <2> QED  BY <2>1, <2>2, <2>3, <2>4, QuietKeeps
  <1>6. CASE PopInterrupted
    <2>1. /\ UNCHANGED <<watched, swallowed, last, edges, app, worker>>
          /\ Popped(PopMax) /\ faults' = faults + 1
      BY <1>6 DEF PopInterrupted, Fault
    <2>2. AppTypes' /\ watched' \subseteq Pins /\ TodoPart' /\ ArmedPart'
      BY <1>1, <2>1, AppKeeps
    <2>3. ring' \in Seq(Events) /\ Part(ring', ring) /\ dropped' \in Nat
      BY <1>1, <1>2, <2>1, PopLost
    <2>4. WorkerTypes' /\ Part(worker'.batch, worker.batch) /\ faults' \in Nat
      <3>1. "wait" \in WorkerStages
        BY <1>2
      <3>2. WorkerTypes' /\ Part(worker'.batch, worker.batch)
        BY <1>1, <2>1, <3>1, WorkerIs
      <3>3. faults' \in Nat
        BY <1>2, <2>1
      <3> QED  BY <3>2, <3>3
    <2> QED  BY <2>1, <2>2, <2>3, <2>4, QuietKeeps
  <1>7. CASE CountDrops
    <2>1. /\ UNCHANGED <<ring, watched, swallowed, last, edges, app>>
          /\ dropped' \in Nat /\ faults' \in Nat
          /\ worker' = [worker EXCEPT !.stage = "deliver", !.dropped = 0]
      BY <1>2, <1>7 DEF CountDrops, devVars
    <2>2. "deliver" \in WorkerStages
      BY <1>2
    <2> QED  BY <2>1, <2>2, CalmKeeps
  <1>8. CASE Deliver
    <2>1. OrderPart' /\ last' \in [Consumers -> [Pins -> Nat]] /\ Later
      <3>1. worker \in [stage : WorkerStages, batch : Seq(Events), dropped : Nat]
        BY <1>1 DEF WatchTypes
      <3>2. worker'.batch = Tail(worker.batch)
        BY <1>8, <3>1 DEF Deliver
      <3>3. /\ worker.batch # <<>> /\ Give("callback", Head(worker.batch))
            /\ UNCHANGED <<ring, edges>>
        BY <1>8 DEF Deliver, devVars
      <3> QED  BY <1>1, <3>2, <3>3, OrderDelivered DEF Later
    <2>2. UNCHANGED <<ring, watched, swallowed, edges, dropped, app, faults>>
          /\ worker' = [worker EXCEPT !.batch = Tail(worker.batch)]
          /\ worker.batch # <<>>
      BY <1>8 DEF Deliver, devVars
    <2>3. AppTypes' /\ watched' \subseteq Pins /\ TodoPart' /\ ArmedPart'
      BY <1>1, <2>2, AppKeeps
    <2>4. WorkerTypes'
      <3> DEFINE E == Events  S == Seq(E)  b == Tail(worker.batch)
                 W == [stage : WorkerStages, batch : S, dropped : Nat]
      <3>1. worker \in W
        BY <1>1 DEF WatchTypes
      <3>2. worker.batch \in Seq(E)
        BY <3>1
      <3>3. b \in S
        <4> HIDE DEF E
        <4> QED  BY <2>2, <3>2, HeadTailProperties
      <3> HIDE DEF b, S
      <3>4. worker' = [worker EXCEPT !.batch = b]
        BY <2>2 DEF b
      <3>5. worker' \in W
        BY <3>1, <3>3, <3>4
      <3> QED  BY <3>5 DEF WorkerTypes, S
    <2>5. WatchTypes'
      BY <1>1, <2>1, <2>2, <2>3, <2>4 DEF WatchTypes, AppTypes, WorkerTypes
    <2> QED  BY <2>1, <2>3, <2>5 DEF WatchInv
  <1>9. CASE AllDelivered \/ TestFlag \/ FallAsleep \/ IntervalEnds
    <2> DEFINE Moves(s) == worker' = [worker EXCEPT !.stage = s]
    <2>1. /\ UNCHANGED <<ring, watched, swallowed, last, edges, app>>
          /\ dropped' \in Nat /\ faults' \in Nat
      BY <1>2, <1>9 DEF AllDelivered, TestFlag, FallAsleep, IntervalEnds, devVars
    <2>2. \E s \in WorkerStages : Moves(s)
      <3>1. CASE AllDelivered
        BY <1>2, <3>1 DEF AllDelivered
      <3>2. CASE TestFlag
        BY <1>2, <3>2 DEF TestFlag
      <3>3. CASE FallAsleep
        BY <1>2, <3>3 DEF FallAsleep
      <3>4. CASE IntervalEnds
        <4>1. worker' = [worker EXCEPT !.stage =
                            IF worker.stage = "asleep" THEN "loop" ELSE worker.stage]
          BY <3>4 DEF IntervalEnds, Wake
        <4> QED  BY <1>2, <4>1
      <3> QED  BY <1>9, <3>1, <3>2, <3>3, <3>4
    <2>3. PICK s \in WorkerStages : Moves(s)
      BY <2>2
    <2> QED  BY <2>1, <2>3, CalmKeeps
  <1>10. CASE CallbackThrows
    <2>1. /\ UNCHANGED <<ring, watched, swallowed, edges, dropped, app, faults>>
          /\ worker' = [NoEvents EXCEPT !.stage = "wait"]
          /\ worker.batch # <<>> /\ Give("callback", Head(worker.batch))
      BY <1>10 DEF CallbackThrows, devVars
    <2>2. worker'.batch = <<>>
      BY <2>1 DEF NoEvents
    <2>3. OrderPart' /\ last' \in [Consumers -> [Pins -> Nat]] /\ Later
      BY <1>1, <2>1, <2>2, OrderDelivered DEF Later
    <2>4. AppTypes' /\ watched' \subseteq Pins /\ TodoPart' /\ ArmedPart'
      BY <1>1, <2>1, AppKeeps
    <2>5. WorkerTypes'
      BY <1>1, <1>2, <2>1, WorkerIs
    <2>6. WatchTypes'
      BY <1>1, <2>1, <2>3, <2>4, <2>5 DEF WatchTypes, AppTypes, WorkerTypes
    <2> QED  BY <2>3, <2>4, <2>6 DEF WatchInv
  <1> QED  BY <1>3, <1>4, <1>5, <1>6, <1>7, <1>8, <1>9, <1>10 DEF WorkerStep

(* Every step keeps the invariant, and gives a consumer only what is later *)
(* than what it was given last.                                            *)
LEMMA WatchStep ==
    ASSUME WatchInv, [Next]_vars
    PROVE  WatchInv' /\ Later
  <1>1. CASE UNCHANGED evVars
    <2>1. UNCHANGED <<ring, watched, edges, dropped, app, worker, last, faults, swallowed>>
      BY <1>1 DEF evVars, devVars, hostVars
    <2>2. dropped \in Nat /\ faults \in Nat /\ worker.stage \in WorkerStages
      BY DEF WatchInv, WatchTypes
    <2> QED  BY <2>1, <2>2, CalmKeeps
  <1>2. CASE EvNext
    <2>1. ASSUME NEW pin \in Pins, Edge(pin)
          PROVE  WatchInv' /\ Later
      BY <2>1, EdgeKeeps
    <2>2. CASE \/ ToggleStream \/ Construct \/ RequestStop \/ StopStep
               \/ CallWait \/ WaitPops \/ WaitFails
      BY <2>2, AppStep
    <2>3. CASE WorkerStep
      BY <2>3, WorkerKeeps
    <2> QED  BY <1>2, <2>1, <2>2, <2>3 DEF EvNext
  <1> QED  BY <1>1, <1>2 DEF Next, vars

(* No watcher has been made yet.                                           *)
LEMMA WatchStarts == Init => WatchInv
  <1> SUFFICES ASSUME Init
               PROVE  WatchInv
    OBVIOUS
  <1> DEFINE E == Events  none == <<>>
  <1>1. /\ ring = none /\ watched = {} /\ edges = [p \in Pins |-> 0] /\ dropped = 0
        /\ app = [stage |-> "idle", todo |-> none]
        /\ worker = [stage |-> "none", batch |-> none, dropped |-> 0]
        /\ last = [c \in Consumers |-> [p \in Pins |-> 0]]
        /\ faults = 0
    BY DEF Init, EvInit, NoEvents, Consumers
  <1>2. none \in Seq(E) /\ none \in Seq(Pins) /\ \A k \in 1 .. Len(none) : FALSE
    <2>1. \A S : <<>> \in Seq(S) /\ Len(<<>>) = 0
      BY EmptySeq
    <2> QED  BY <2>1
  <1> HIDE DEF none
  <1>3. WatchTypes
    <2>1. "idle" \in AppStages /\ "none" \in WorkerStages
      BY DEF AppStages, WorkerStages
    <2>2. app \in [stage : AppStages, todo : Seq(Pins)]
      BY <1>1, <1>2, <2>1
    <2>3. worker \in [stage : WorkerStages, batch : Seq(E), dropped : Nat]
      <3> HIDE DEF E
      <3> QED  BY <1>1, <1>2, <2>1
    <2>4. edges \in [Pins -> Nat] /\ last \in [Consumers -> [Pins -> Nat]]
      BY <1>1
    <2> QED  BY <1>1, <1>2, <2>2, <2>3, <2>4 DEF WatchTypes
  <1>4. TodoPart /\ ArmedPart
    BY <1>1 DEF TodoPart, ArmedPart
  <1>5. OrderPart
    <2>1. worker.batch = none /\ ring = none
      BY <1>1
    <2>2. \A c \in Consumers, p \in Pins : last[c][p] <= edges[p]
      BY <1>1
    <2> QED  BY <1>2, <2>1, <2>2 DEF OrderPart, InOrder, Before, New, Reached
  <1> QED  BY <1>3, <1>4, <1>5 DEF WatchInv

(* When EventWatcher's constructor has thrown, or stop() has returned, no  *)
(* pin is left armed unless the failure of an EVENT_CONFIG was swallowed,  *)
(* for any list of pins, whatever is refused or lost                       *)
(* (EventWatcher.cpp:84-99, 115-137).                                      *)
THEOREM NothingStaysArmed == Spec => []NothingLeftArmed
  <1>1. WatchInv => NothingLeftArmed
    BY DEF WatchInv, ArmedPart, NothingLeftArmed
  <1>2. WatchInv /\ [Next]_vars => WatchInv'
    BY WatchStep
  <1> QED  BY <1>1, <1>2, WatchStarts, PTL DEF Spec

(* The callback and wait_event() are each given the events of a pin in the *)
(* order they happened and none twice, however the two threads take turns, *)
(* pins are disarmed and armed again, and replies are lost or requests     *)
(* repeated (EventWatcher.h:64, Device.cpp's poll_events()).               *)
THEOREM EventsComeInOrder == Spec => EventsInOrder
  <1>1. WatchInv /\ [Next]_vars =>
            [\A c \in DOMAIN last, pin \in Pins :
                 last'[c][pin] # last[c][pin] => last'[c][pin] > last[c][pin]]_vars
    <2> SUFFICES ASSUME WatchInv, [Next]_vars
                 PROVE  \A c \in DOMAIN last, pin \in Pins :
                 last'[c][pin] # last[c][pin] => last'[c][pin] > last[c][pin]
      OBVIOUS
    <2>1. DOMAIN last = Consumers
      BY DEF WatchInv, WatchTypes
    <2> QED  BY <2>1, WatchStep DEF Later
  <1>2. WatchInv /\ [Next]_vars => WatchInv'
    BY WatchStep
  <1> QED  BY <1>1, <1>2, WatchStarts, PTL DEF Spec, EventsInOrder

-----------------------------------------------------------------------------
(***************************************************************************)
(* Watching: no edge is lost without trace.                                *)
(***************************************************************************)

StatsTypes ==
    /\ stats \in [delivered : Int, dropped : Int]
    /\ fate \in [returned : Int, discarded : Int, unseen : Int, saturated : Int,
                  abandoned : Int]

(* The worker has events or drops in hand only from the first reply of a   *)
(* poll to the last event delivered; there is none while pins are armed.   *)
HandPart ==
    /\ worker.stage \in {"none", "loop", "wait", "dozing", "asleep", "ended"} =>
          worker.batch = <<>> /\ worker.dropped = 0
    /\ worker.stage = "deliver" => worker.dropped = 0
    /\ app.stage = "arm" => worker.stage = "none"

EdgePart == IsFiniteSet(Accepted)

Total == Accounted + Untold

AccountInv == StatsTypes /\ HandPart /\ EdgePart /\ EventsConserved

(* What is counted has a number.                                           *)
LEMMA QueueLen ==
    ASSUME NEW s \in Seq(Events)
    PROVE  Len(s) \in Nat
  <1> DEFINE E == Events
  <1>1. s \in Seq(E)
    OBVIOUS
  <1> HIDE DEF E
  <1> QED  BY <1>1, LenProperties

(* The numbers an edge is accounted for in.                                *)
LEMMA Places ==
    ASSUME WatchTypes, StatsTypes
    PROVE  \E r, b, i, j, d, w, k, l, m, y, z \in Int :
             /\ r = Len(ring) /\ b = Len(worker.batch)
             /\ i = stats.delivered /\ j = fate.returned
             /\ d = dropped /\ w = worker.dropped
             /\ k = stats.dropped /\ l = fate.unseen /\ m = fate.discarded
             /\ y = fate.saturated /\ z = fate.abandoned
  <1>1. /\ ring \in Seq(Events) /\ worker.batch \in Seq(Events)
        /\ dropped \in Int /\ worker.dropped \in Int
    BY DEF WatchTypes
  <1>2. Len(ring) \in Int /\ Len(worker.batch) \in Int
    BY <1>1, QueueLen
  <1>3. /\ stats.delivered \in Int /\ stats.dropped \in Int
        /\ fate.returned \in Int /\ fate.discarded \in Int /\ fate.unseen \in Int
        /\ fate.saturated \in Int /\ fate.abandoned \in Int
    BY DEF StatsTypes
  <1> QED  BY <1>1, <1>2, <1>3

(* A step of no edge that moves events and drops from one place to another,*)
(* or that went wrong.                                                     *)
Moved ==
    /\ edges' = edges
    /\ \/ faults' = faults + 1
       \/ faults' = faults /\ Total' = Total

LEMMA MovedKeeps ==
    ASSUME WatchTypes, AccountInv, Moved, StatsTypes', HandPart'
    PROVE  AccountInv'
  <1>1. Accepted' = Accepted
    BY DEF Moved, Accepted
  <1>2. EdgePart'
    BY <1>1 DEF AccountInv, EdgePart, Moved
  <1>3. faults \in Nat /\ (faults' = 0 => faults = 0 /\ Total' = Total)
    BY DEF WatchTypes, Moved
  <1>4. EventsConserved'
    BY <1>1, <1>3 DEF AccountInv, EventsConserved, Total
  <1> QED  BY <1>2, <1>4 DEF AccountInv

(* An edge: one more accepted, one more queued or dropped.                 *)
LEMMA EdgeAccounted ==
    ASSUME WatchTypes, AccountInv, NEW pin \in Pins, Edge(pin)
    PROVE  AccountInv'
  <1> DEFINE n == edges[pin]
             e == [pin |-> pin, seq |-> n + 1]
             Of(p)  == {[pin |-> p, seq |-> k] : k \in 1 .. edges[p]}
             Now(p) == {[pin |-> p, seq |-> k] : k \in 1 .. edges'[p]}
  <1>1. /\ edges \in [Pins -> Nat] /\ n \in Nat
        /\ edges' = [edges EXCEPT ![pin] = n + 1]
    BY DEF WatchTypes, Edge
  <1>2. UNCHANGED <<stats, worker, app, faults>>
    BY DEF Edge, hostVars
  <1>3. Accepted' = Accepted \cup {e} /\ e \notin Accepted
    <2>1. \A p \in Pins \ {pin} : Now(p) = Of(p)
      BY <1>1
    <2>2. Now(pin) = Of(pin) \cup {e}
      <3>1. edges'[pin] = n + 1
        BY <1>1
      <3>2. 1 .. n + 1 = 1 .. n \cup {n + 1}
        BY <1>1
      <3> QED  BY <3>1, <3>2
    <2>3. \A p \in Pins : e \notin Of(p)
      <3> SUFFICES ASSUME NEW p \in Pins, e \in Of(p)
                   PROVE  FALSE
        OBVIOUS
      <3>1. PICK k \in 1 .. edges[p] : e = [pin |-> p, seq |-> k]
        OBVIOUS
      <3>2. e.pin = pin /\ e.seq = n + 1
        OBVIOUS
      <3>3. pin = p /\ n + 1 = k
        BY <3>1, <3>2
      <3> HIDE DEF e
      <3> QED  BY <1>1, <3>1, <3>3
    <2>4. Accepted = UNION {Of(p) : p \in Pins} /\ Accepted' = UNION {Now(p) : p \in Pins}
      BY DEF Accepted
    <2> HIDE DEF Of, Now, e
    <2> QED  BY <2>1, <2>2, <2>3, <2>4
  <1>4. EdgePart'
    BY <1>3, FS_AddElement DEF AccountInv, EdgePart
  <1>5. Cardinality(Accepted') = Cardinality(Accepted) + 1
    BY <1>3, FS_AddElement DEF AccountInv, EdgePart
  <1>6. Total' = Total + 1 /\ StatsTypes'
    <2>1. /\ ring \in Seq(Events) /\ worker.batch \in Seq(Events)
          /\ dropped \in Nat /\ worker.dropped \in Nat
      BY DEF WatchTypes
    <2>2. PICK r, b, i, j, d, w, k, l, m, y, z \in Int :
             /\ r = Len(ring) /\ b = Len(worker.batch)
             /\ i = stats.delivered /\ j = fate.returned
             /\ d = dropped /\ w = worker.dropped
             /\ k = stats.dropped /\ l = fate.unseen /\ m = fate.discarded
             /\ y = fate.saturated /\ z = fate.abandoned
      BY Places DEF AccountInv
    <2>3. /\ r \in Int /\ b \in Int /\ i \in Int /\ j \in Int /\ d \in Int /\ w \in Int
          /\ k \in Int /\ l \in Int /\ m \in Int /\ y \in Int /\ z \in Int
      BY <2>2
    <2>4. Total = r + b + i + j + d + w + k + m + l + y + z
      <3>1. Total = (r + b + i + j + d + w + k + m) + (l + y + z)
        BY <2>2 DEF Total, Accounted, Untold
      <3> QED  BY <2>3, <3>1
    <2>5. CASE Len(ring) < RingDepth
      <3>1. ring' = Append(ring, e) /\ dropped' = dropped /\ fate' = fate
        BY <2>5 DEF Edge
      <3>2. Len(ring') = r + 1
        <4> DEFINE E == Events
        <4>1. ring \in Seq(E) /\ e \in E
          BY <1>1, <2>1 DEF Events
        <4> HIDE DEF E, e
        <4>2. Len(Append(ring, e)) = Len(ring) + 1
          BY <4>1, AppendProperties
        <4> QED  BY <2>2, <3>1, <4>2
      <3>3. Total' = ((r + 1) + b + i + j + d + w + k + m) + (l + y + z)
        BY <1>2, <2>2, <3>1, <3>2 DEF Total, Accounted, Untold
      <3>4. Total' = Total + 1
        BY <2>3, <2>4, <3>3
      <3> QED  BY <1>2, <3>1, <3>4 DEF AccountInv, StatsTypes
    <2>6. CASE ~(Len(ring) < RingDepth)
      <3>1. ring' = ring /\ dropped' = Saturated(d + 1)
        BY <2>2, <2>6 DEF Edge
      <3>2. PICK s \in Int : s = dropped'
        <4>1. Saturated(d + 1) \in Int
          BY <2>3, EventsAssumption DEF Saturated
        <4> QED  BY <3>1, <4>1
      <3>3. s \in Int /\ y + d + 1 - s \in Int
        BY <2>3, <3>2
      <3>4. fate' = [fate EXCEPT !.saturated = y + d + 1 - s]
        BY <2>2, <2>6, <3>2 DEF Edge
      <3>5. /\ StatsTypes'
            /\ UNCHANGED <<fate.returned, fate.discarded, fate.unseen, fate.abandoned>>
            /\ fate'.saturated = y + d + 1 - s
        BY <1>2, <3>3, <3>4 DEF AccountInv, StatsTypes
      <3>6. Total' = (r + b + i + j + s + w + k + m) + (l + (y + d + 1 - s) + z)
        BY <1>2, <2>2, <3>1, <3>2, <3>5 DEF Total, Accounted, Untold
      <3>7. Total' = Total + 1
        BY <2>3, <2>4, <3>3, <3>6
      <3> QED  BY <3>5, <3>7
    <2> QED  BY <2>5, <2>6
  <1>7. EventsConserved'
    <2>1. Total = Accounted + Untold /\ Total' = Accounted' + Untold'
      BY DEF Total
    <2> QED  BY <1>2, <1>5, <1>6, <2>1 DEF AccountInv, EventsConserved
  <1>8. HandPart'
    BY <1>2 DEF AccountInv, HandPart
  <1> QED  BY <1>4, <1>6, <1>7, <1>8 DEF AccountInv

(* The steps that move no edge: a thread goes on, or a transfer fails.     *)
LEMMA NothingMoved ==
    ASSUME WatchTypes, AccountInv,
           \/ ToggleStream \/ Construct \/ RequestStop \/ NotifyAll \/ JoinWorker
           \/ CallWait \/ BeginPoll \/ AllDelivered \/ TestFlag \/ FallAsleep \/ IntervalEnds
    PROVE  Moved /\ StatsTypes' /\ HandPart'
  <1>1. StatsTypes /\ HandPart
    BY DEF AccountInv
  <1>2. UNCHANGED <<ring, edges, dropped, stats, fate, faults>>
    BY DEF ToggleStream, Construct, RequestStop, NotifyAll, JoinWorker, CallWait, BeginPoll,
           AllDelivered, TestFlag, FallAsleep, IntervalEnds, devVars, hostVars
  <1>3. worker \in [stage : WorkerStages, batch : Seq(Events), dropped : Nat]
    BY DEF WatchTypes
  <1>4. \A s \in WorkerStages :
            /\ [worker EXCEPT !.stage = s].stage = s
            /\ [worker EXCEPT !.stage = s].batch = worker.batch
            /\ [worker EXCEPT !.stage = s].dropped = worker.dropped
    BY <1>3
  <1>5. worker'.batch = worker.batch /\ worker'.dropped = worker.dropped /\ HandPart'
    <2>1. CASE ToggleStream \/ Construct \/ RequestStop \/ CallWait
      <3>1. worker' = worker /\ (app'.stage = "arm" => app.stage = "arm" \/ worker.stage = "none")
        BY <2>1 DEF ToggleStream, Construct, RequestStop, CallWait, hostVars, WatchTypes
      <3> QED  BY <1>1, <3>1 DEF HandPart
    <2>2. CASE NotifyAll \/ IntervalEnds
      <3>1. /\ worker' = [worker EXCEPT !.stage =
                             IF worker.stage = "asleep" THEN "loop" ELSE worker.stage]
            /\ app'.stage # "arm" \/ (app' = app /\ worker.stage = "asleep")
        BY <2>2 DEF NotifyAll, IntervalEnds, Wake, WatchTypes
      <3>2. "loop" \in WorkerStages /\ worker.stage \in WorkerStages
        BY <1>3 DEF WorkerStages
      <3> QED  BY <1>1, <1>3, <3>1, <3>2 DEF HandPart
    <2>3. CASE JoinWorker
      <3>1. /\ worker.stage = "ended" /\ app'.stage = "off"
            /\ worker'.stage = "none" /\ worker'.batch = <<>> /\ worker'.dropped = 0
        BY <2>3 DEF JoinWorker, NoEvents
      <3> QED  BY <1>1, <3>1 DEF HandPart
    <2>4. CASE BeginPoll
      <3>1. worker.stage = "loop" /\ app' = app /\ worker.batch = <<>> /\ worker.dropped = 0
        BY <1>1, <2>4 DEF BeginPoll, HandPart
      <3>2. /\ worker'.stage \in {"ended", "wait", "pop"}
            /\ worker'.batch = <<>> /\ worker'.dropped = 0
        BY <1>3, <2>4, <3>1 DEF BeginPoll, NoEvents
      <3> QED  BY <1>1, <3>1, <3>2 DEF HandPart
    <2>5. CASE AllDelivered \/ TestFlag \/ FallAsleep
      <3>1. /\ worker.stage \in {"deliver", "wait", "dozing"} /\ app' = app
            /\ worker.batch = <<>> /\ worker.dropped = 0
        BY <1>1, <2>5 DEF AllDelivered, TestFlag, FallAsleep, HandPart
      <3>2. /\ worker'.stage \in {"wait", "loop", "dozing", "asleep"}
            /\ worker'.batch = <<>> /\ worker'.dropped = 0
        BY <1>3, <2>5, <3>1 DEF AllDelivered, TestFlag, FallAsleep
      <3> QED  BY <1>1, <3>1, <3>2 DEF HandPart
    <2> QED  BY <2>1, <2>2, <2>3, <2>4, <2>5
  <1>6. Total' = Total
    BY <1>2, <1>5 DEF Total, Accounted, Untold
  <1> QED  BY <1>1, <1>2, <1>5, <1>6 DEF Moved, StatsTypes

(* A reply that is lost, whatever the device has popped for it, and a      *)
(* thread that cannot be started.                                          *)
LEMMA LostMoved ==
    ASSUME WatchTypes, AccountInv, PopTimesOut \/ PopInterrupted \/ WaitFails \/ NoThread
    PROVE  Moved /\ StatsTypes' /\ HandPart'
  <1>1. StatsTypes /\ HandPart
    BY DEF AccountInv
  <1>2. UNCHANGED <<edges, stats, fate>> /\ faults' = faults + 1
    BY DEF PopTimesOut, PopInterrupted, WaitFails, NoThread, Fault
  <1>3. HandPart'
    <2>1. CASE PopTimesOut
      <3>1. /\ worker.stage = "pop" /\ app' = app
            /\ worker'.stage = "wait" /\ worker'.batch = <<>> /\ worker'.dropped = 0
        BY <2>1 DEF PopTimesOut, NoEvents
      <3> QED  BY <1>1, <3>1 DEF HandPart
    <2>2. CASE PopInterrupted
      BY <1>1, <2>2 DEF PopInterrupted, HandPart
    <2>3. CASE WaitFails
      <3>1. worker' = worker /\ app'.stage = "running"
        BY <2>3 DEF WaitFails, WatchTypes
      <3> QED  BY <1>1, <3>1 DEF HandPart
    <2>4. CASE NoThread
      <3>1. worker' = worker /\ app'.stage = "idle"
        BY <2>4 DEF NoThread
      <3> QED  BY <1>1, <3>1 DEF HandPart
    <2> QED  BY <2>1, <2>2, <2>3, <2>4
  <1> QED  BY <1>1, <1>2, <1>3 DEF Moved, StatsTypes

(* Arming a pin takes nothing out of the queue.                            *)
LEMMA ArmMoved ==
    ASSUME WatchTypes, AccountInv, ArmPin \/ ArmFails
    PROVE  Moved /\ StatsTypes' /\ HandPart'
  <1>1. StatsTypes /\ HandPart
    BY DEF AccountInv
  <1>2. /\ UNCHANGED <<ring, edges, dropped, stats, fate>>
        /\ faults' = faults \/ faults' = faults + 1
    <2>1. CASE ArmPin
      BY <2>1 DEF ArmPin, ConfigureOk, Configured, Armed
    <2>2. CASE ArmFails
      BY <2>2 DEF ArmFails, ConfigureFails, Refuses, Configured, Armed, Fault
    <2> QED  BY <2>1, <2>2
  <1>3. worker.stage = "none" /\ worker.batch = <<>> /\ worker.dropped = 0
    BY <1>1 DEF ArmPin, ArmFails, HandPart
  <1>4. /\ worker'.stage \in {"none", "loop"} /\ worker'.batch = <<>> /\ worker'.dropped = 0
        /\ app'.stage = "arm" => worker'.stage = "none"
    <2>1. CASE ArmPin
      BY <1>3, <2>1 DEF ArmPin, NoEvents
    <2>2. CASE ArmFails
      BY <1>3, <2>2 DEF ArmFails
    <2> QED  BY <2>1, <2>2
  <1>5. HandPart'
    BY <1>4 DEF HandPart
  <1>6. Total' = Total
    BY <1>2, <1>3, <1>4 DEF Total, Accounted, Untold
  <1> QED  BY <1>1, <1>2, <1>5, <1>6 DEF Moved, StatsTypes

(* Disarming a pin discards its events.                                    *)
LEMMA OffMoved ==
    ASSUME WatchTypes, AccountInv, SwitchOff
    PROVE  Moved /\ StatsTypes' /\ HandPart'
  <1>1. StatsTypes /\ HandPart
    BY DEF AccountInv
  <1>2. PICK r, b, i, j, d, w, k, l, m, y, z \in Int :
           /\ r = Len(ring) /\ b = Len(worker.batch)
           /\ i = stats.delivered /\ j = fate.returned
           /\ d = dropped /\ w = worker.dropped
           /\ k = stats.dropped /\ l = fate.unseen /\ m = fate.discarded
           /\ y = fate.saturated /\ z = fate.abandoned
    BY <1>1, Places
  <1>3. /\ r \in Int /\ b \in Int /\ i \in Int /\ j \in Int /\ d \in Int /\ w \in Int
        /\ k \in Int /\ l \in Int /\ m \in Int /\ y \in Int /\ z \in Int
    BY <1>2
  <1>4. PICK s \in Int : s = Len(ring')
    <2>1. \/ ConfigureOk(Head(app.todo), "off")
          \/ ConfigureFails(Head(app.todo), "off")
      BY DEF SwitchOff
    <2>2. ring' \in Seq(Events)
      BY <2>1, ConfigureIs
    <2>3. Len(ring') \in Int
      BY <2>2, QueueLen
    <2> QED  BY <2>3
  <1>5. s \in Int
    BY <1>4
  <1>6. /\ UNCHANGED <<edges, dropped, worker>> /\ app'.stage \in {"off", "idle"}
        /\ faults' = faults \/ faults' = faults + 1
    <2>1. app \in [stage : AppStages, todo : Seq(Pins)]
      BY DEF WatchTypes
    <2>2. UNCHANGED <<edges, dropped, worker>> /\ app'.stage \in {"off", "idle"}
      BY <2>1 DEF SwitchOff
    <2>3. faults' = faults \/ faults' = faults + 1
      BY DEF SwitchOff, ConfigureOk, ConfigureFails, Fault
    <2> QED  BY <2>2, <2>3
  <1>7. stats' = stats /\ fate' = [fate EXCEPT !.discarded = m + r - s]
    BY <1>2, <1>4 DEF SwitchOff
  <1>8. m + r - s \in Int
    BY <1>3, <1>5
  <1>9. /\ StatsTypes'
        /\ UNCHANGED <<fate.returned, fate.unseen, fate.saturated, fate.abandoned>>
        /\ fate'.discarded = m + r - s
    BY <1>1, <1>7, <1>8 DEF StatsTypes
  <1>10. HandPart'
    BY <1>1, <1>6 DEF HandPart
  <1>11. /\ Total = (r + b + i + j + d + w + k + m) + (l + y + z)
         /\ Total' = (s + b + i + j + d + w + k + (m + r - s)) + (l + y + z)
    BY <1>2, <1>4, <1>6, <1>7, <1>9 DEF Total, Accounted, Untold
  <1>12. Total' = Total
    BY <1>3, <1>5, <1>11
  <1> QED  BY <1>6, <1>9, <1>10, <1>12 DEF Moved

(* A reply brings events and drops to the worker.                          *)
LEMMA PopMoved ==
    ASSUME WatchTypes, AccountInv, PopEvents
    PROVE  Moved /\ StatsTypes' /\ HandPart'
  <1>1. StatsTypes /\ HandPart
    BY DEF AccountInv
  <1>2. PICK r, b, i, j, d, w, k, l, m, y, z \in Int :
           /\ r = Len(ring) /\ b = Len(worker.batch)
           /\ i = stats.delivered /\ j = fate.returned
           /\ d = dropped /\ w = worker.dropped
           /\ k = stats.dropped /\ l = fate.unseen /\ m = fate.discarded
           /\ y = fate.saturated /\ z = fate.abandoned
    BY <1>1, Places
  <1>3. /\ r \in Int /\ b \in Int /\ i \in Int /\ j \in Int /\ d \in Int /\ w \in Int
        /\ k \in Int /\ l \in Int /\ m \in Int /\ y \in Int /\ z \in Int
    BY <1>2
  <1>4. /\ UNCHANGED <<edges, stats, faults, app>> /\ dropped' = 0
        /\ worker.stage = "pop" /\ app.stage # "arm"
        /\ worker' = [stage   |-> IF Pending(PopMax) THEN "pop" ELSE "count",
                      batch   |-> worker.batch \o Batch(PopMax),
                      dropped |-> Saturated(worker.dropped + dropped)]
    BY <1>1 DEF PopEvents, AddBatch, Popped, HandPart
  <1>5. /\ worker'.stage \in {"pop", "count"}
        /\ worker'.batch = worker.batch \o Batch(PopMax)
        /\ worker'.dropped = Saturated(w + d)
    BY <1>2, <1>4
  <1>6. PICK n \in Int : Len(ring') = r - n /\ Len(worker'.batch) = b + n
    <2> DEFINE E == Events
    <2>1. ring \in Seq(E) /\ worker.batch \in Seq(E) /\ PopMax \in Nat \ {0} /\ Popped(PopMax)
      BY EventsAssumption DEF WatchTypes, PopEvents
    <2>2. PICK n \in 0 .. Len(ring) : /\ Batch(PopMax) \in Seq(E) /\ Len(Batch(PopMax)) = n
                                      /\ Len(ring') = Len(ring) - n
      BY <2>1, PopIs
    <2> HIDE DEF E
    <2>3. Len(ring) \in Nat
      BY <2>1, LenProperties
    <2>4. Len(worker.batch \o Batch(PopMax)) = Len(worker.batch) + Len(Batch(PopMax))
      BY <2>1, <2>2, ConcatProperties
    <2>5. Len(worker'.batch) = b + n
      BY <1>2, <1>5, <2>2, <2>4
    <2>6. n \in Int /\ Len(ring') = r - n
      BY <1>2, <2>2, <2>3
    <2> QED  BY <2>5, <2>6
  <1>7. n \in Int
    BY <1>6
  <1>8. PICK s \in Int : s = Saturated(w + d)
    <2>1. Saturated(w + d) \in Int
      BY <1>3, EventsAssumption DEF Saturated
    <2> QED  BY <2>1
  <1>9. s \in Int /\ y + w + d - s \in Int
    BY <1>3, <1>8
  <1>10. fate' = [fate EXCEPT !.saturated = y + w + d - s]
    BY <1>2, <1>8 DEF PopEvents
  <1>11. /\ StatsTypes'
         /\ UNCHANGED <<fate.returned, fate.discarded, fate.unseen, fate.abandoned>>
         /\ fate'.saturated = y + w + d - s
    BY <1>1, <1>4, <1>9, <1>10 DEF StatsTypes
  <1>12. HandPart'
    BY <1>1, <1>4, <1>5 DEF HandPart
  <1>13. /\ Total = (r + b + i + j + d + w + k + m) + (l + y + z)
         /\ Total' = ((r - n) + (b + n) + i + j + 0 + s + k + m) + (l + (y + w + d - s) + z)
    BY <1>2, <1>4, <1>5, <1>6, <1>8, <1>11 DEF Total, Accounted, Untold
  <1>14. Total' = Total
    BY <1>3, <1>7, <1>9, <1>13
  <1> QED  BY <1>4, <1>11, <1>12, <1>14 DEF Moved

(* The drops of a poll are counted, and its events delivered, or abandoned.*)
LEMMA HandMoved ==
    ASSUME WatchTypes, AccountInv, CountDrops \/ Deliver \/ CallbackThrows
    PROVE  Moved /\ StatsTypes' /\ HandPart'
  <1>1. StatsTypes /\ HandPart
    BY DEF AccountInv
  <1>2. PICK r, b, i, j, d, w, k, l, m, y, z \in Int :
           /\ r = Len(ring) /\ b = Len(worker.batch)
           /\ i = stats.delivered /\ j = fate.returned
           /\ d = dropped /\ w = worker.dropped
           /\ k = stats.dropped /\ l = fate.unseen /\ m = fate.discarded
           /\ y = fate.saturated /\ z = fate.abandoned
    BY <1>1, Places
  <1>3. /\ r \in Int /\ b \in Int /\ i \in Int /\ j \in Int /\ d \in Int /\ w \in Int
        /\ k \in Int /\ l \in Int /\ m \in Int /\ y \in Int /\ z \in Int
    BY <1>2
  <1>4. worker \in [stage : WorkerStages, batch : Seq(Events), dropped : Nat]
    BY DEF WatchTypes
  <1>5. /\ UNCHANGED <<ring, edges, dropped, faults, app>>
        /\ worker.stage \in {"count", "deliver"}
    BY DEF CountDrops, Deliver, CallbackThrows, devVars
  <1>6. app.stage # "arm"
    BY <1>1, <1>5 DEF HandPart
  <1>7. CASE CountDrops
    <2>1. stats' = [stats EXCEPT !.dropped = k + w] /\ fate' = fate
      BY <1>2, <1>7 DEF CountDrops
    <2>2. worker'.stage = "deliver" /\ worker'.batch = worker.batch /\ worker'.dropped = 0
      BY <1>4, <1>7 DEF CountDrops
    <2>3. k + w \in Int
      BY <1>3
    <2>4. /\ StatsTypes'
          /\ stats'.delivered = stats.delivered /\ stats'.dropped = k + w
      BY <1>1, <2>1, <2>3 DEF StatsTypes
    <2>5. HandPart'
      BY <1>5, <1>6, <2>2 DEF HandPart
    <2>6. /\ Total = (r + b + i + j + d + w + k + m) + (l + y + z)
          /\ Total' = (r + b + i + j + d + 0 + (k + w) + m) + (l + y + z)
      BY <1>2, <1>5, <2>1, <2>2, <2>4 DEF Total, Accounted, Untold
    <2>7. Total' = Total
      BY <1>3, <2>6
    <2> QED  BY <1>5, <2>4, <2>5, <2>7 DEF Moved
  <1>8. CASE Deliver
    <2>1. stats' = [stats EXCEPT !.delivered = i + 1] /\ fate' = fate
      BY <1>2, <1>8 DEF Deliver
    <2>2. /\ worker.stage = "deliver" /\ worker.dropped = 0 /\ worker.batch # <<>>
          /\ worker'.stage = worker.stage /\ worker'.dropped = worker.dropped
          /\ worker'.batch = Tail(worker.batch)
      BY <1>1, <1>4, <1>8 DEF Deliver, HandPart
    <2>3. Len(worker'.batch) = b - 1
      <3> DEFINE E == Events
      <3>1. worker.batch \in Seq(E)
        BY <1>4
      <3> HIDE DEF E
      <3>2. Len(Tail(worker.batch)) = Len(worker.batch) - 1
        BY <2>2, <3>1, HeadTailProperties
      <3> QED  BY <1>2, <2>2, <3>2
    <2>4. i + 1 \in Int
      BY <1>3
    <2>5. /\ StatsTypes'
          /\ stats'.dropped = stats.dropped /\ stats'.delivered = i + 1
      BY <1>1, <2>1, <2>4 DEF StatsTypes
    <2>6. HandPart'
      BY <1>5, <1>6, <2>2 DEF HandPart
    <2>7. /\ Total = (r + b + i + j + d + w + k + m) + (l + y + z)
          /\ Total' = (r + (b - 1) + (i + 1) + j + d + w + k + m) + (l + y + z)
      BY <1>2, <1>5, <2>1, <2>2, <2>3, <2>5 DEF Total, Accounted, Untold
    <2>8. Total' = Total
      BY <1>3, <2>7
    <2> QED  BY <1>5, <2>5, <2>6, <2>8 DEF Moved
  <1>9. CASE CallbackThrows
    <2>1. /\ stats' = stats /\ fate' = [fate EXCEPT !.abandoned = z + b]
          /\ worker.stage = "deliver" /\ w = 0
          /\ worker'.stage = "wait" /\ worker'.batch = <<>> /\ worker'.dropped = 0
      BY <1>1, <1>2, <1>9 DEF CallbackThrows, NoEvents, HandPart
    <2>2. z + b \in Int
      BY <1>3
    <2>3. /\ StatsTypes'
          /\ UNCHANGED <<fate.returned, fate.discarded, fate.unseen, fate.saturated>>
          /\ fate'.abandoned = z + b
      BY <1>1, <2>1, <2>2 DEF StatsTypes
    <2>4. HandPart'
      BY <1>5, <1>6, <2>1 DEF HandPart
    <2>5. Len(worker'.batch) = 0
      <3>1. Len(<<>>) = 0
        OBVIOUS
      <3> QED  BY <2>1, <3>1
    <2>6. /\ Total = (r + b + i + j + d + w + k + m) + (l + y + z)
          /\ Total' = (r + 0 + i + j + d + 0 + k + m) + (l + y + (z + b))
      BY <1>2, <1>5, <2>1, <2>3, <2>5 DEF Total, Accounted, Untold
    <2>7. Total' = Total
      <3>1. w = 0
        BY <2>1
      <3> QED  BY <1>3, <2>6, <3>1
    <2> QED  BY <1>5, <2>3, <2>4, <2>7 DEF Moved
  <1> QED  BY <1>7, <1>8, <1>9

(* wait_event() returns one event at most, and shows nobody the drops.     *)
LEMMA WaitMoved ==
    ASSUME WatchTypes, AccountInv, WaitPops
    PROVE  Moved /\ StatsTypes' /\ HandPart'
  <1>1. StatsTypes /\ HandPart
    BY DEF AccountInv
  <1>2. PICK r, b, i, j, d, w, k, l, m, y, z \in Int :
           /\ r = Len(ring) /\ b = Len(worker.batch)
           /\ i = stats.delivered /\ j = fate.returned
           /\ d = dropped /\ w = worker.dropped
           /\ k = stats.dropped /\ l = fate.unseen /\ m = fate.discarded
           /\ y = fate.saturated /\ z = fate.abandoned
    BY <1>1, Places
  <1>3. /\ r \in Int /\ b \in Int /\ i \in Int /\ j \in Int /\ d \in Int /\ w \in Int
        /\ k \in Int /\ l \in Int /\ m \in Int /\ y \in Int /\ z \in Int
    BY <1>2
  <1>4. /\ UNCHANGED <<edges, worker, faults>> /\ dropped' = 0
        /\ app.stage = "waiting"
        /\ app' = app \/ app' = [app EXCEPT !.stage = "running"]
    BY DEF WaitPops, Popped
  <1>5. app'.stage # "arm"
    BY <1>4 DEF WatchTypes
  <1>6. PICK n \in Int : Len(ring') = r - n /\ n = Len(Batch(1))
    <2> DEFINE E == Events
    <2>1. ring \in Seq(E) /\ 1 \in Nat \ {0} /\ Popped(1)
      BY DEF WatchTypes, WaitPops
    <2>2. PICK n \in 0 .. Len(ring) : Len(Batch(1)) = n /\ Len(ring') = Len(ring) - n
      BY <2>1, PopIs
    <2> HIDE DEF E
    <2>3. Len(ring) \in Nat
      BY <2>1, LenProperties
    <2>4. n \in Int /\ Len(ring') = r - n
      BY <1>2, <2>2, <2>3
    <2> QED  BY <2>2, <2>4
  <1>7. n \in Int
    BY <1>6
  <1>8. stats' = stats /\ fate' = [fate EXCEPT !.unseen = l + d, !.returned = j + n]
    BY <1>2, <1>6 DEF WaitPops
  <1>9. l + d \in Int /\ j + n \in Int
    BY <1>3, <1>7
  <1>10. /\ StatsTypes'
         /\ UNCHANGED <<fate.discarded, fate.saturated, fate.abandoned>>
         /\ fate'.unseen = l + d /\ fate'.returned = j + n
    BY <1>1, <1>8, <1>9 DEF StatsTypes
  <1>11. HandPart'
    BY <1>1, <1>4, <1>5 DEF HandPart
  <1>12. /\ Total = (r + b + i + j + d + w + k + m) + (l + y + z)
         /\ Total' = ((r - n) + b + i + (j + n) + 0 + w + k + m) + ((l + d) + y + z)
    BY <1>2, <1>4, <1>6, <1>8, <1>10 DEF Total, Accounted, Untold
  <1>13. Total' = Total
    BY <1>3, <1>7, <1>12
  <1> QED  BY <1>4, <1>10, <1>11, <1>13 DEF Moved

(* Every step accounts for every edge.                                     *)
LEMMA AccountStep ==
    ASSUME WatchInv, AccountInv, [Next]_vars
    PROVE  AccountInv'
  <1>1. WatchTypes
    BY DEF WatchInv
  <1>2. CASE UNCHANGED evVars
    <2>1. UNCHANGED <<ring, edges, dropped, app, worker, stats, fate, faults>>
      BY <1>2 DEF evVars, devVars, hostVars
    <2> QED
      BY <2>1 DEF AccountInv, StatsTypes, HandPart, EdgePart, EventsConserved, Accepted,
                  Accounted, Untold
  <1>3. CASE EvNext
    <2>1. ASSUME NEW pin \in Pins, Edge(pin)
          PROVE  AccountInv'
      BY <1>1, <2>1, EdgeAccounted
    <2>2. CASE \/ ToggleStream \/ Construct \/ RequestStop \/ NotifyAll \/ JoinWorker
               \/ CallWait \/ BeginPoll \/ AllDelivered \/ TestFlag \/ FallAsleep
               \/ IntervalEnds
      BY <1>1, <2>2, NothingMoved, MovedKeeps
    <2>3. CASE PopTimesOut \/ PopInterrupted \/ WaitFails \/ NoThread
      BY <1>1, <2>3, LostMoved, MovedKeeps
    <2>4. CASE ArmPin \/ ArmFails
      BY <1>1, <2>4, ArmMoved, MovedKeeps
    <2>5. CASE SwitchOff
      BY <1>1, <2>5, OffMoved, MovedKeeps
    <2>6. CASE PopEvents
      BY <1>1, <2>6, PopMoved, MovedKeeps
    <2>7. CASE CountDrops \/ Deliver \/ CallbackThrows
      BY <1>1, <2>7, HandMoved, MovedKeeps
    <2>8. CASE WaitPops
      BY <1>1, <2>8, WaitMoved, MovedKeeps
    <2> QED
      BY <1>3, <2>1, <2>2, <2>3, <2>4, <2>5, <2>6, <2>7, <2>8 DEF EvNext, StopStep, WorkerStep
  <1> QED  BY <1>2, <1>3 DEF Next, vars

(* No edge has been accepted yet.                                          *)
LEMMA AccountStarts == Init => AccountInv
  <1> SUFFICES ASSUME Init
               PROVE  AccountInv
    OBVIOUS
  <1> DEFINE none == <<>>
  <1>1. /\ ring = none /\ edges = [p \in Pins |-> 0] /\ dropped = 0
        /\ app.stage = "idle"
        /\ worker.stage = "none" /\ worker.batch = none /\ worker.dropped = 0
        /\ stats = [delivered |-> 0, dropped |-> 0]
        /\ fate = [returned |-> 0, discarded |-> 0, unseen |-> 0, saturated |-> 0,
                   abandoned |-> 0]
    BY DEF Init, EvInit, NoEvents
  <1>2. Len(none) = 0
    OBVIOUS
  <1>3. StatsTypes /\ HandPart
    BY <1>1 DEF StatsTypes, HandPart
  <1>4. Accepted = {}
    <2>1. \A p \in Pins : {[pin |-> p, seq |-> k] : k \in 1 .. edges[p]} = {}
      BY <1>1
    <2> QED  BY <2>1 DEF Accepted
  <1>5. IsFiniteSet(Accepted) /\ Cardinality(Accepted) = 0
    BY <1>4, FS_EmptySet
  <1>6. Accounted + Untold = 0
    <2> HIDE DEF none
    <2>1. Accounted + Untold = (0 + 0 + 0 + 0 + 0 + 0 + 0 + 0) + (0 + 0 + 0)
      BY <1>1, <1>2 DEF Accounted, Untold
    <2> QED  BY <2>1
  <1> QED  BY <1>3, <1>5, <1>6 DEF AccountInv, EdgePart, EventsConserved

(* As long as every transfer succeeds, the edges the device has accepted   *)
(* are those queued, given to a consumer, counted as dropped or discarded  *)
(* with their pin, and those nobody is told of in exactly three ways: drops*)
(* that wait_event() takes, drops beyond the 255 that one count holds, and *)
(* what an Error of the callback leaves of its batch; for any ring, reply, *)
(* list of pins and limit of the counts, and however the worker,           *)
(* wait_event() and stop() take turns (Device.cpp, poll_events();          *)
(* EventWatcher.cpp, worker_main()).                                       *)
THEOREM EdgesConserved == Spec => []EventsConserved
  <1>1. WatchInv /\ AccountInv => EventsConserved
    BY DEF AccountInv
  <1>2. WatchInv /\ AccountInv /\ [Next]_vars => (WatchInv /\ AccountInv)'
    BY WatchStep, AccountStep
  <1>3. Init => WatchInv /\ AccountInv
    BY WatchStarts, AccountStarts
  <1> QED  BY <1>1, <1>2, <1>3, PTL DEF Spec

=============================================================================
