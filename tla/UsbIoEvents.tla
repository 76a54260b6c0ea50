----------------------------- MODULE UsbIoEvents -----------------------------
(***************************************************************************)
(* Pin events of the UsbIo firmware (UsbIo.cpp, "pin events"): the host    *)
(* arms pins with EVENT_CONFIG and collects edges with EVENT_POP, both     *)
(* answered in the interrupt; event_poll(), called from poll() after the   *)
(* shadow was refreshed, scans the watch table, counts edges and queues    *)
(* them.                                                                   *)
(*                                                                         *)
(* A handler is one action.  event_poll() is cut where an interrupt        *)
(* between two of its accesses can matter.  The ring of events is a        *)
(* sequence, as SpscRing justifies; an entry discarded in place stays in   *)
(* it as a tombstone.  Every pin is a DIO pin here.  What a refused        *)
(* request leaves behind, the reason of the STALL, is in UsbIoCommands.    *)
(***************************************************************************)
EXTENDS Integers, Sequences, FiniteSets, TLC

CONSTANTS
    NPins,          \* number of pins
    MaxWatched,     \* USBIO_MAX_EVENT_PINS
    EventDepth,     \* USBIO_EVENT_QUEUE_DEPTH
    MaxPerPop,      \* USBIO_MAX_EVENTS_PER_POP
    SeqMod,         \* modulus of arm_seq: 256 in the code
    MaxCount,       \* bound on the edges counted for one arming
    MaxDropped,     \* where _event_dropped saturates: 255 in the code
    EdgeModes,      \* the edge modes the host uses
    Debounces       \* whether it asks for a debounce time

Pins  == 0 .. NPins - 1
Slots == 0 .. MaxWatched - 1

(* EventTombstone                                                          *)
Tombstone == 255

ASSUME EventsAssumption ==
    /\ NPins \in Nat \ {0} /\ NPins <= Tombstone
    /\ MaxWatched \in Nat \ {0} /\ EventDepth \in Nat \ {0}
    /\ MaxPerPop \in Nat \ {0}
    /\ SeqMod \in Nat \ {0, 1} /\ MaxCount \in Nat /\ MaxDropped \in Nat
    /\ EdgeModes \subseteq {"RISING", "FALLING", "CHANGE"} /\ EdgeModes # {}
    /\ Debounces \subseteq BOOLEAN /\ Debounces # {}

VARIABLES
    isInput,        \* pins whose intended mode is INPUT*
    watch,          \* _event_watch
    nWatched,       \* _event_n_watched
    armSeq,         \* _event_arm_seq
    ring,           \* _event_ring between _event_tail and _event_head
    dropped,        \* _event_dropped
    dio,            \* _dio
    pc,             \* where event_poll() is
    slot,           \* its loop counter i
    pin,            \* its copy of w.pin
    held,           \* the value of _event_dropped it is about to increment
    interrupted,    \* a request was served since it took hold of this slot
    order,          \* history: the watched pins, in the order last armed
    lost,           \* history: drops since the last POP or RESET, saturating
    mayFind         \* history: how many events of a pin a POP may still find,
                    \* less than all of them after an EVENT_CONFIG OFF

isrVars  == <<isInput, nWatched, armSeq>>
scanVars == <<dio, pc, slot, pin, held>>
history == <<order, lost, mayFind>>
vars == <<isrVars, scanVars, watch, ring, dropped, interrupted, history>>

Unwatched == [active |-> FALSE, pin |-> 0, edge |-> "NONE", debounce |-> FALSE,
              arm |-> 0, seen |-> 0, prev |-> 0, window |-> FALSE, count |-> 0]

Init ==
    /\ isInput = {}
    /\ watch = [i \in Slots |-> Unwatched]
    /\ nWatched = 0 /\ armSeq = 0
    /\ ring = <<>> /\ dropped = 0
    /\ dio = [p \in Pins |-> 0]
    /\ pc = "idle" /\ slot = 0 /\ pin = 0 /\ held = 0
    /\ interrupted = FALSE
    /\ order = <<>> /\ lost = 0 /\ mayFind = [p \in Pins |-> EventDepth]
-----------------------------------------------------------------------------
(***************************************************************************)
(* The interrupt side.                                                     *)
(***************************************************************************)

(* event_poll() is between reading the pin of a slot and leaving the slot. *)
Holding == pc \notin {"idle", "slot"}

(* Bound: at most one request is served while event_poll() holds a slot.   *)
(* Two control transfers are a frame apart; a slot is held for             *)
(* microseconds, unless an operating system preempts loop().               *)
RequestArrives ==
    /\ ~interrupted
    /\ interrupted' = Holding

(* event_watch_index(): the slots that watch p, at most one.               *)
SlotsOf(p) == {i \in Slots : watch[i].active /\ watch[i].pin = p}
IsWatched(p) == SlotsOf(p) # {}

FreeSlots == {i \in Slots : ~watch[i].active}

(* find_free_event_slot() takes the lowest.                                *)
FreeSlot == CHOOSE i \in FreeSlots : \A j \in FreeSlots : i <= j

Without(p) ==
    LET at == {k \in 1 .. Len(order) : order[k] = p}
        k  == CHOOSE j \in at : TRUE
    IN  IF at = {} THEN order
        ELSE SubSeq(order, 1, k - 1) \o SubSeq(order, k + 1, Len(order))

Unwatch(p) ==
    /\ order' = Without(p)
    /\ watch' = [i \in Slots |-> IF i \in SlotsOf(p)
                                 THEN [watch[i] EXCEPT !.active = FALSE] ELSE watch[i]]
    /\ nWatched' = nWatched - Cardinality(SlotsOf(p))

(* PIN_MODE, accepted: a pin that leaves the input modes is unwatched; its *)
(* queued events stay.                                                     *)
BugForgetsCount(p, input) ==
    /\ RequestArrives
    /\ isInput' = IF input THEN isInput \cup {p} ELSE isInput \ {p}
    /\ IF input THEN UNCHANGED watch
       ELSE watch' = [i \in Slots |-> IF i \in SlotsOf(p)
                        THEN [watch[i] EXCEPT !.active = FALSE] ELSE watch[i]]
    /\ order' = IF input THEN order ELSE Without(p)
    /\ UNCHANGED <<nWatched, armSeq, ring, dropped, scanVars, lost, mayFind>>

PinMode(p, input) ==
    /\ RequestArrives
    /\ isInput' = IF input THEN isInput \cup {p} ELSE isInput \ {p}
    /\ IF input THEN UNCHANGED <<watch, nWatched, order>> ELSE Unwatch(p)
    /\ UNCHANGED <<armSeq, ring, dropped, scanVars, lost, mayFind>>

(* discard_events_for_pin(): in place, so the ring keeps its length.  What *)
(* else a tombstone holds is never looked at: one value stands for it.     *)
Tomb == [pin |-> Tombstone, seq |-> 1, arming |-> <<0, 0>>]

IsEvent(entry) == entry.pin # Tombstone

BugDiscardsOldest(p) ==
    LET mine == {k \in 1 .. Len(ring) : ring[k].pin = p}
    IN  [k \in 1 .. Len(ring) |->
            IF k \in mine /\ \A j \in mine : k <= j
            THEN Tomb ELSE ring[k]]

Discard(p) ==
    [k \in 1 .. Len(ring) |-> IF ring[k].pin = p THEN Tomb ELSE ring[k]]

(* EVENT_CONFIG with USBIO_EDGE_OFF.                                       *)
ConfigOff(p) ==
    /\ RequestArrives
    /\ IsWatched(p)
    /\ Unwatch(p)
    /\ ring' = Discard(p)
    /\ mayFind' = [mayFind EXCEPT ![p] = IF Holding /\ pin = p THEN 1 ELSE 0]
    /\ UNCHANGED <<isInput, armSeq, dropped, scanVars, lost>>

(* A slot armed or re-armed since event_poll() last looked at it.          *)
Fresh(w) == w.seen # w.arm

NextSeq == IF armSeq = SeqMod - 1 THEN 0 ELSE armSeq + 1

(* Bound: the 8-bit arm_seq does not come round to the    *)
(* value that event_poll() saw in this slot last, nor to that of an arming *)
(* whose events are still queued, nor halfway round from an active arming. *)
SeqIsNew(i) ==
    /\ watch[i].seen # NextSeq
    /\ \A k \in 1 .. Len(ring) :
        IsEvent(ring[k]) => ring[k].arming # <<i, NextSeq>>
    /\ \A j \in Slots \ {i} :
        watch[j].active => (NextSeq - watch[j].arm) % SeqMod < SeqMod \div 2

(* Bug: the handler resets the counter itself.                             *)
BugArmResetsCount(p, edge, debounce) ==
    LET i == IF IsWatched(p) THEN CHOOSE j \in SlotsOf(p) : TRUE ELSE FreeSlot
    IN  /\ RequestArrives
        /\ p \in isInput
        /\ IsWatched(p) \/ nWatched < MaxWatched
        /\ SeqIsNew(i)
        /\ watch' = [watch EXCEPT ![i] = [@ EXCEPT !.active = TRUE, !.pin = p,
                        !.edge = edge, !.debounce = debounce, !.arm = NextSeq,
                        !.count = 0]]
        /\ armSeq' = NextSeq
        /\ nWatched' = IF IsWatched(p) THEN nWatched ELSE nWatched + 1
        /\ order' = Append(Without(p), p)
        /\ mayFind' = [mayFind EXCEPT ![p] = EventDepth]
        /\ UNCHANGED <<isInput, ring, dropped, scanVars, lost>>

(* EVENT_CONFIG with an edge mode: a watched pin is re-armed in its slot,  *)
(* another takes a free one.  The counter is left to event_poll().         *)
ConfigArm(p, edge, debounce) ==
    LET i == IF IsWatched(p) THEN CHOOSE j \in SlotsOf(p) : TRUE ELSE FreeSlot
    IN  /\ RequestArrives
        /\ p \in isInput
        /\ IsWatched(p) \/ nWatched < MaxWatched
        /\ SeqIsNew(i)
        /\ watch' = [watch EXCEPT ![i] = [@ EXCEPT !.active = TRUE, !.pin = p,
                        !.edge = edge, !.debounce = debounce, !.arm = NextSeq]]
        /\ armSeq' = NextSeq
        /\ nWatched' = IF IsWatched(p) THEN nWatched ELSE nWatched + 1
        /\ order' = Append(Without(p), p)
        /\ mayFind' = [mayFind EXCEPT ![p] = EventDepth]
        /\ UNCHANGED <<isInput, ring, dropped, scanVars, lost>>

(* Events among the first n entries.                                       *)
EventsIn(n) == Cardinality({k \in 1 .. n : IsEvent(ring[k])})

(* EVENT_POP: entries are taken from the front until `cap` events were     *)
(* found; tombstones on the way are dropped and not counted.               *)
PopLength(cap) ==
    CHOOSE n \in 0 .. Len(ring) :
        /\ EventsIn(n) <= cap
        /\ n = Len(ring) \/ EventsIn(n) = cap
        /\ \A m \in 0 .. n - 1 : EventsIn(m) < cap

Pop(cap) ==
    /\ RequestArrives
    /\ ring' = SubSeq(ring, PopLength(cap) + 1, Len(ring))
    /\ dropped' = 0
    /\ lost' = 0
    /\ UNCHANGED <<isrVars, watch, scanVars, order, mayFind>>

(* RESET: every pin is to be an input and unwatched; the queue is emptied. *)
Reset ==
    /\ RequestArrives
    /\ isInput' = Pins
    /\ watch' = [i \in Slots |-> [watch[i] EXCEPT !.active = FALSE]]
    /\ nWatched' = 0
    /\ ring' = <<>>
    /\ dropped' = 0 /\ lost' = 0
    /\ order' = <<>> /\ mayFind' = [p \in Pins |-> EventDepth]
    /\ UNCHANGED <<armSeq, scanVars>>

(* EVENT_COUNTS: (int8_t)(_event_watch[i].arm_seq - ...[j].arm_seq) > 0.   *)
BugLater(i, j) == watch[i].arm > watch[j].arm
Later(i, j) ==
    LET difference == (watch[i].arm - watch[j].arm) % SeqMod
    IN  difference > 0 /\ 2 * difference < SeqMod

(* The slot `key` goes behind the last one in s that is not later.         *)
Inserted(s, key) ==
    LET at == CHOOSE n \in 0 .. Len(s) :
                /\ \A k \in n + 1 .. Len(s) : Later(s[k], key)
                /\ n > 0 => ~Later(s[n], key)
    IN  SubSeq(s, 1, at) \o <<key>> \o SubSeq(s, at + 1, Len(s))

(* The insertion sort of the active slots among the first n.               *)
Sorted[n \in 0 .. MaxWatched] ==
    IF n = 0 THEN <<>>
    ELSE IF watch[n - 1].active THEN Inserted(Sorted[n - 1], n - 1)
    ELSE Sorted[n - 1]

(* The order of the entries.                                               *)
CountsOrder ==
    [k \in 1 .. Len(Sorted[MaxWatched]) |-> watch[Sorted[MaxWatched][k]].pin]
-----------------------------------------------------------------------------
(***************************************************************************)
(* The loop() side: event_poll() and push_event().                         *)
(***************************************************************************)

(* The rest of poll() runs first: it executes commands and refreshes the   *)
(* shadow, which may leave any level in it.  Bound: an input on which      *)
(* MaxCount edges were counted in one arming stays as it is.               *)
BeginScan ==
    /\ pc = "idle"
    /\ \E levels \in [Pins -> {0, 1}] :
        /\ \A i \in Slots : ~Fresh(watch[i]) /\ watch[i].count = MaxCount =>
                levels[watch[i].pin] = watch[i].prev
        /\ dio' = levels
    /\ slot' = 0 /\ pc' = "slot"
    /\ UNCHANGED <<isrVars, watch, ring, dropped, pin, held, interrupted, history>>

(* continue, or the end of the loop.                                       *)
LeaveSlot ==
    /\ IF slot = MaxWatched - 1 THEN slot' = 0 /\ pc' = "idle"
       ELSE slot' = slot + 1 /\ pc' = "slot"
    /\ pin' = 0 /\ held' = 0
    /\ interrupted' = FALSE

SkipInactive ==
    /\ pc = "slot" /\ ~watch[slot].active
    /\ LeaveSlot
    /\ UNCHANGED <<isrVars, watch, ring, dropped, dio, history>>

LatchPin ==
    /\ pc = "slot" /\ watch[slot].active
    /\ pin' = watch[slot].pin
    /\ pc' = "compare"
    /\ UNCHANGED <<isrVars, watch, ring, dropped, dio, slot, held, interrupted,
                   history>>

(* Bug: the first scan after an arm compares instead of taking a baseline. *)
BugNoBaseline ==
    /\ pc = "compare" /\ Fresh(watch[slot])
    /\ watch' = [watch EXCEPT ![slot] =
                    [@ EXCEPT !.seen = watch[slot].arm, !.count = 0, !.window = FALSE]]
    /\ LeaveSlot
    /\ UNCHANGED <<isrVars, ring, dropped, dio, history>>

(* A fresh arm or re-arm: the counter is reset and the level in the shadow *)
(* is the one later scans are compared with.                               *)
TakeBaseline ==
    /\ pc = "compare" /\ Fresh(watch[slot])
    /\ watch' = [watch EXCEPT ![slot] =
                    [@ EXCEPT !.seen = watch[slot].arm, !.count = 0,
                              !.prev = dio[pin], !.window = FALSE]]
    /\ LeaveSlot
    /\ UNCHANGED <<isrVars, ring, dropped, dio, history>>

NoEdge ==
    /\ pc = "compare" /\ ~Fresh(watch[slot]) /\ dio[pin] = watch[slot].prev
    /\ LeaveSlot
    /\ UNCHANGED <<isrVars, watch, ring, dropped, dio, history>>

SeeEdge ==
    /\ pc = "compare" /\ ~Fresh(watch[slot]) /\ dio[pin] # watch[slot].prev
    /\ watch' = [watch EXCEPT ![slot].prev = dio[pin]]
    /\ pc' = "any"
    /\ UNCHANGED <<isrVars, ring, dropped, dio, slot, pin, held, interrupted,
                   history>>

(* The direction of the edge in hand: the level it led to.                 *)
Direction == IF watch[slot].prev = 1 THEN "RISING" ELSE "FALLING"

(* w.edge_mode is read once for CHANGE and once more for the direction.    *)
NotAnyEdge ==
    /\ pc = "any" /\ watch[slot].edge # "CHANGE"
    /\ pc' = "direction"
    /\ UNCHANGED <<isrVars, watch, ring, dropped, dio, slot, pin, held,
                   interrupted, history>>

Matches ==
    \/ pc = "any" /\ watch[slot].edge = "CHANGE"
    \/ pc = "direction" /\ watch[slot].edge = Direction

(* The wrong direction, or an edge inside the debounce window.             *)
AbsorbEdge ==
    /\ \/ pc = "direction" /\ ~Matches
       \/ Matches /\ watch[slot].window
    /\ LeaveSlot
    /\ UNCHANGED <<isrVars, watch, ring, dropped, dio, history>>

(* The edge is counted.  A window still open in the model may have run out *)
(* by now.                                                                 *)
CountEdge ==
    /\ Matches
    /\ watch' = [watch EXCEPT ![slot] =
                    [@ EXCEPT !.count = watch[slot].count + 1,
                              !.window = watch[slot].debounce]]
    /\ pc' = "push"
    /\ UNCHANGED <<isrVars, ring, dropped, dio, slot, pin, held, interrupted,
                   history>>

BugFullOneLate == Len(ring) > EventDepth
RingIsFull == Len(ring) >= EventDepth

(* push_event() with room.  Direction and time of the edge are left out.   *)
(* `arming` is history: which arming of which slot the edge was counted    *)
(* for.                                                                    *)
Publish ==
    /\ pc = "push" /\ ~RingIsFull
    /\ ring' = Append(ring, [pin |-> pin, seq |-> watch[slot].count,
                             arming |-> <<slot, watch[slot].seen>>])
    /\ LeaveSlot
    /\ UNCHANGED <<isrVars, watch, dropped, dio, history>>

FindFull ==
    /\ pc = "push" /\ RingIsFull
    /\ pc' = "drop"
    /\ UNCHANGED <<isrVars, watch, ring, dropped, dio, slot, pin, held,
                   interrupted, history>>

AddLost == lost' = IF lost < MaxDropped THEN lost + 1 ELSE lost

(* if (_event_dropped < 0xFF) ++_event_dropped: a load, then a store.      *)
LoadDropped ==
    /\ pc = "drop" /\ dropped < MaxDropped
    /\ held' = dropped
    /\ pc' = "store"
    /\ UNCHANGED <<isrVars, watch, ring, dropped, dio, slot, pin, interrupted,
                   history>>

DroppedSaturated ==
    /\ pc = "drop" /\ dropped = MaxDropped
    /\ AddLost
    /\ LeaveSlot
    /\ UNCHANGED <<isrVars, watch, ring, dropped, dio, order, mayFind>>

(* Bug: a drop that the flag of an earlier one already tells is not added. *)
BugDropsAreAFlag ==
    /\ pc = "store"
    /\ dropped' = 1
    /\ AddLost
    /\ LeaveSlot
    /\ UNCHANGED <<isrVars, watch, ring, dio, order, mayFind>>

StoreDropped ==
    /\ pc = "store"
    /\ dropped' = held + 1
    /\ AddLost
    /\ LeaveSlot
    /\ UNCHANGED <<isrVars, watch, ring, dio, order, mayFind>>
-----------------------------------------------------------------------------
Scan ==
    \/ BeginScan \/ SkipInactive \/ LatchPin \/ TakeBaseline \/ NoEdge \/ SeeEdge
    \/ NotAnyEdge \/ AbsorbEdge \/ CountEdge
    \/ Publish \/ FindFull \/ LoadDropped \/ DroppedSaturated \/ StoreDropped

Handler ==
    \/ \E p \in Pins, input \in BOOLEAN : PinMode(p, input)
    \/ \E p \in Pins : ConfigOff(p)
    \/ \E p \in Pins, e \in EdgeModes, d \in Debounces : ConfigArm(p, e, d)
    \/ \E cap \in 1 .. MaxPerPop : Pop(cap)
    \/ Reset

Next == Scan \/ Handler

Spec == Init /\ [][Next]_vars
-----------------------------------------------------------------------------
(***************************************************************************)
(* Properties.                                                             *)
(***************************************************************************)

Watches ==
    [active : BOOLEAN, pin : Pins, edge : EdgeModes \cup {"NONE"},
     debounce : BOOLEAN, arm : 0 .. SeqMod - 1, seen : 0 .. SeqMod - 1,
     prev : {0, 1}, window : BOOLEAN, count : 0 .. MaxCount]

Events ==
    [pin : Pins \cup {Tombstone}, seq : 1 .. MaxCount,
     arming : Slots \X (0 .. SeqMod - 1)]

(* Every variable has its type; the ring is never overfull.                *)
TypeOK ==
    /\ isInput \subseteq Pins
    /\ watch \in [Slots -> Watches]
    /\ nWatched \in 0 .. MaxWatched
    /\ armSeq \in 0 .. SeqMod - 1
    /\ ring \in Seq(Events) /\ Len(ring) <= EventDepth
    /\ dropped \in 0 .. MaxDropped
    /\ dio \in [Pins -> {0, 1}]
    /\ pc \in {"idle", "slot", "compare", "any", "direction", "push", "drop", "store"}
    /\ slot \in Slots /\ pin \in Pins
    /\ held \in 0 .. MaxDropped
    /\ pc = "store" => held < MaxDropped
    /\ interrupted \in BOOLEAN
    /\ order \in Seq(Pins) /\ Len(order) <= NPins
    /\ lost \in 0 .. MaxDropped
    /\ mayFind \in [Pins -> 0 .. EventDepth]

(* The watch table agrees with itself and with the modes: the count of     *)
(* watched pins is the number of active slots, which find_free_event_slot()*)
(* relies on to find one; no pin is watched twice; a watched pin is meant  *)
(* to be an input.                                                         *)
WatchTable ==
    /\ nWatched = Cardinality({i \in Slots : watch[i].active})
    /\ \A i, j \in Slots :
        watch[i].active /\ watch[j].active /\ watch[i].pin = watch[j].pin => i = j
    /\ \A i \in Slots : watch[i].active => watch[i].pin \in isInput

(* Between two scans, a slot whose arming was noticed compares with the    *)
(* level its own pin had in the last scan, so that the next scan counts an *)
(* edge of that pin and of no other, and none that came before the arm.    *)
BaselineTracks ==
    pc = "idle" =>
        \A i \in Slots : watch[i].active /\ ~Fresh(watch[i]) =>
            watch[i].prev = dio[watch[i].pin]

(* The edges of one arming are numbered in the order in which they are     *)
(* queued, without repetition, however re-arms and scans interleave        *)
(* (UsbIo.h, EventWatch: the counter is deliberately poll()-only).         *)
SeqOrdered ==
    \A j, k \in 1 .. Len(ring) :
        /\ j < k
        /\ IsEvent(ring[j]) /\ IsEvent(ring[k]) /\ ring[j].arming = ring[k].arming
        => ring[j].seq < ring[k].seq

(* No drop goes unreported: _event_dropped is never less than the edges    *)
(* dropped since the host last asked, although one side increments it and  *)
(* the other resets it (it may be more).                                   *)
DropsAreReported == dropped >= lost

(* EVENT_CONFIG OFF discards the queued events of the pin (usbio_protocol.h*)
(* :492): until it is armed again, what the host can pop is at most the    *)
(* one edge that the scan had in hand when the OFF was served.             *)
OffDiscards ==
    \A p \in Pins : Cardinality({k \in 1 .. Len(ring) : ring[k].pin = p}) <= mayFind[p]

(* EVENT_COUNTS lists the watched pins in the order they were armed        *)
(* (usbio_protocol.h:508), whatever slots they are in.                     *)
CountsInArmOrder == CountsOrder = order
=============================================================================
