------------------------------- MODULE SpscRing -------------------------------
(***************************************************************************)
(* The ring the firmware uses twice: for commands (the interrupt handler   *)
(* produces, poll() consumes) and for pin events (poll() produces, the     *)
(* interrupt handler's EVENT_POP consumes).  Free-running 8-bit indices,   *)
(* each written by one side only; the slot of an index is the index masked *)
(* by the power-of-two depth; no lock.                                     *)
(*                                                                         *)
(* In each use the side that runs in the interrupt is atomic.  Here both   *)
(* sides may be interrupted between any two accesses to shared memory,     *)
(* which allows every interleaving of both uses.                           *)
(***************************************************************************)
EXTENDS Integers, Sequences

CONSTANTS
    Entries,        \* what can be queued
    NoEntry,        \* what a slot that was never written holds
    Depth,          \* USBIO_QUEUE_DEPTH, USBIO_EVENT_QUEUE_DEPTH
    IndexMod        \* modulus of the indices: 256 in the code

ASSUME RingAssumption ==
    /\ NoEntry \notin Entries
    /\ Depth \in Nat \ {0}
    /\ IndexMod \in Nat /\ IndexMod > Depth     \* full and empty differ
    /\ IndexMod % Depth = 0                     \* masking commutes with wrapping

VARIABLES
    head,           \* _head: the producer's index
    tail,           \* _tail: the consumer's index
    slots,          \* _queue: an entry has fields, stored one after another
    writing,        \* where the producer is
    entry,          \* what it is storing
    reading,        \* where the consumer is
    copy,           \* `c`: the consumer's copy of the slot
    outcome,        \* what enqueue() or push_event() came to last
    taken           \* the entry the consumer took last

producer == <<head, writing, entry, outcome>>
consumer == <<tail, reading, copy, taken>>
vars == <<producer, consumer, slots>>

Slots  == 0 .. Depth - 1
Fields == {"first", "last"}

Init ==
    /\ head = 0 /\ tail = 0
    /\ slots = [s \in Slots |-> [f \in Fields |-> NoEntry]]
    /\ writing = "idle" /\ entry = NoEntry
    /\ reading = "idle" /\ copy = NoEntry
    /\ outcome = "none" /\ taken = NoEntry

Used == (head - tail) % IndexMod            \* (uint8_t)(head - _tail)
SlotOf(index) == index % Depth              \* index & QueueMask
Bump(index) == (index + 1) % IndexMod       \* (uint8_t)(index + 1u)

(* The entry a slot holds, once all of its fields are those of one entry.  *)
Value(slot) == IF slot["first"] = slot["last"] THEN slot["first"] ELSE NoEntry
-----------------------------------------------------------------------------
(* One entry too many is not let in.                                       *)
IsFull == Used >= Depth

Refuse ==
    /\ writing = "idle" /\ IsFull
    /\ outcome' = "refused"
    /\ UNCHANGED <<head, writing, entry, consumer, slots>>

Begin(e) ==
    /\ writing = "idle" /\ ~IsFull
    /\ entry' = e
    /\ writing' = "first"
    /\ UNCHANGED <<head, outcome, consumer, slots>>

(* The fields are stored one by one.                                       *)
StoreField(f) ==
    /\ writing = f
    /\ slots' = [slots EXCEPT ![SlotOf(head)][f] = entry]
    /\ writing' = IF f = "first" THEN "last" ELSE "publish"
    /\ UNCHANGED <<head, entry, outcome, consumer>>

(* Bug: the index is published before the slot is filled.                  *)
BugPublishesFirst ==
    /\ writing = "last"
    /\ head' = Bump(head)
    /\ writing' = "idle" /\ entry' = NoEntry
    /\ outcome' = "accepted"
    /\ UNCHANGED <<consumer, slots>>

(* The compiler barrier keeps this after the stores of the fields.         *)
Publish ==
    /\ writing = "publish"
    /\ head' = Bump(head)
    /\ writing' = "idle" /\ entry' = NoEntry
    /\ outcome' = "accepted"
    /\ UNCHANGED <<consumer, slots>>

(* while (_tail != _head): the slot is copied while it is still the ring's.*)
Copy ==
    /\ reading = "idle" /\ tail # head
    /\ copy' = Value(slots[SlotOf(tail)])
    /\ reading' = "release"
    /\ UNCHANGED <<tail, taken, producer, slots>>

Release ==
    /\ reading = "release"
    /\ tail' = Bump(tail)
    /\ taken' = copy
    /\ reading' = "idle" /\ copy' = NoEntry
    /\ UNCHANGED <<producer, slots>>
-----------------------------------------------------------------------------
Next ==
    \/ Refuse \/ (\E e \in Entries : Begin(e)) \/ (\E f \in Fields : StoreField(f))
    \/ Publish \/ Copy \/ Release

Spec == Init /\ [][Next]_vars
-----------------------------------------------------------------------------
(* The ring implements the bounded queue of BoundedFifo, at every wrap of  *)
(* its indices: an entry is accepted when head is published and taken when *)
(* tail is; it is refused only when the ring is full; no torn, lost,       *)
(* repeated or reordered entry is ever taken (UsbIo.h: "SPSC ring ...      *)
(* Free-running 8-bit indices").                                           *)
Queued == [i \in 1 .. Used |-> Value(slots[SlotOf(tail + i - 1)])]

Fifo == INSTANCE BoundedFifo WITH fifo <- Queued, Capacity <- Depth

ImplementsFifo == Fifo!Spec
=============================================================================
