------------------------------ MODULE HostEvents ------------------------------
(***************************************************************************)
(* Pin events on the host: the Device that HostOpen opened, an EventWatcher*)
(* on it with its worker thread, and an application thread that starts and *)
(* stops the watcher and may call wait_event() itself.  A Stream on the    *)
(* same Device closes the gate of every method meanwhile.                  *)
(*                                                                         *)
(* The device side is the event ring and the watch set as the requests     *)
(* show them (UsbIoEvents has the rest).  A control transfer can time out  *)
(* before or after the device has served it, and one that a signal         *)
(* interrupts is repeated by LibusbTransport::transfer(), although the     *)
(* device may have served it already.                                      *)
(***************************************************************************)
EXTENDS HostOpen, SequencesExt

CONSTANTS
    WatchList,    \* EventWatcherConfig::pins, a sequence of pins
    RingDepth,    \* the device's event ring
    PopMax,       \* events in one EVENT_POP reply
    DropMax,      \* where a count of drops stays: 255 in the code
    MaxEdges,     \* bound: accepted edges of a pin
    MaxFaults,    \* bound: transfers that go wrong, threads that cannot start
    MaxStreams,   \* bound: Streams started on the Device
    MaxWatchers   \* bound: watchers the application constructs

(* The constructor throws for an empty list of pins.                       *)
ASSUME EventsAssumption ==
    /\ WatchList \in Seq(Nat) /\ WatchList # <<>>
    /\ RingDepth \in Nat \ {0} /\ PopMax \in Nat \ {0} /\ DropMax \in Nat \ {0}
    /\ {MaxEdges, MaxFaults, MaxStreams, MaxWatchers} \subseteq Nat

Pins == Range(WatchList)

VARIABLES
    ring,       \* the device: events queued; seq here goes on over armings
    watched,    \* the device: pins armed
    edges,      \* the device: edges accepted of each pin
    dropped,    \* the device: _event_dropped, drops since the last EVENT_POP
    app,        \* application thread: stage and the pins still to configure
    worker,     \* worker thread: stage, events collected, drops of this poll
    stopping,   \* EventWatcher's stop_requested
    stats,      \* EventWatcherStats
    fate,       \* history: what became of edges that stats does not count
    last,       \* history: the last event of a pin each consumer was given
    streams,    \* Streams started so far, and whether one runs
    faults, watchers,
    swallowed   \* history: a failure after which pins may stay armed

devVars  == <<ring, watched, edges, dropped>>
hostVars == <<app, worker, stopping, stats, last, watchers, swallowed>>
evVars   == <<devVars, hostVars, fate, streams, faults>>

NoEvents == [stage |-> "none", batch |-> <<>>, dropped |-> 0]

(* Both counts of drops, the device's and that of a poll, saturate.        *)
Saturated(n) == IF n < DropMax THEN n ELSE DropMax

-----------------------------------------------------------------------------
(* The device                                                              *)

Edge(pin) ==
    /\ pin \in watched /\ edges[pin] < MaxEdges
    /\ edges' = [edges EXCEPT ![pin] = @ + 1]
    /\ IF Len(ring) < RingDepth
       THEN /\ ring' = Append(ring, [pin |-> pin, seq |-> edges[pin] + 1])
            /\ UNCHANGED <<dropped, fate>>
       ELSE /\ dropped' = Saturated(dropped + 1) /\ UNCHANGED ring
            /\ fate' = [fate EXCEPT !.saturated = @ + dropped + 1 - dropped']
    /\ UNCHANGED <<watched, hostVars, streams, faults>>

Armed(pin) == watched' = watched \cup {pin} /\ UNCHANGED ring

(* What disarming a pin keeps of the first n events: SelectSeq's result, as*)
(* a function, about which something can be proved.                        *)
Kept(pin) ==
    LET kept[n \in 0 .. Len(ring)] ==
            IF n = 0 THEN <<>>
            ELSE IF ring[n].pin = pin THEN kept[n - 1]
            ELSE Append(kept[n - 1], ring[n])
    IN kept
Disarmed(pin) ==
    /\ watched' = watched \ {pin}
    /\ ring' = Kept(pin)[Len(ring)]

(* One EVENT_POP: the events that fit, the drops so far, and whether more  *)
(* are queued; popping forgets both.                                       *)
Batch(max)  == SubSeq(ring, 1, IF Len(ring) < max THEN Len(ring) ELSE max)
Popped(max) == ring' = SubSeq(ring, Len(Batch(max)) + 1, Len(ring)) /\ dropped' = 0
Pending(max) == Len(ring) > max

Fault == faults < MaxFaults /\ faults' = faults + 1
Streaming == streams % 2 = 1

(* A Stream starts, and later ends, on the same Device.                    *)
ToggleStream ==
    /\ streams < 2 * MaxStreams /\ streams' = streams + 1
    /\ UNCHANGED <<devVars, hostVars, fate, faults>>

-----------------------------------------------------------------------------
(* configure_event(): the gate, and one transfer that the device may refuse*)
(* because of the pin's mode, or that may be lost.                         *)

Configured(pin, edge) == IF edge = "off" THEN Disarmed(pin) ELSE Armed(pin)
ConfigureOk(pin, edge) ==
    ~Streaming /\ Configured(pin, edge) /\ UNCHANGED faults
ConfigureFails(pin, edge) ==
    \/ Streaming /\ UNCHANGED <<watched, ring, faults>>
    \/ ~Streaming /\ Fault
       /\ (Configured(pin, edge) \/ UNCHANGED <<watched, ring>>)
Refuses(pin) == ~Streaming /\ pin \notin watched /\ UNCHANGED <<watched, ring, faults>>

(* EventWatcher's constructor arms the pins in order; a failure disarms    *)
(* those it armed, in reverse, and is thrown.                              *)
Construct ==
    /\ phase = "ready" /\ app.stage = "idle" /\ worker.stage = "none" /\ watchers < MaxWatchers
    /\ app' = [stage |-> "arm", todo |-> WatchList] /\ watchers' = watchers + 1
    /\ stopping' = FALSE
    /\ UNCHANGED <<devVars, worker, stats, last, fate, streams, faults, swallowed>>

ArmedSoFar == SubSeq(WatchList, 1, Len(WatchList) - Len(app.todo))

ArmPin ==
    /\ app.stage = "arm" /\ ConfigureOk(Head(app.todo), "on")
    /\ IF Len(app.todo) > 1
       THEN app' = [app EXCEPT !.todo = Tail(@)] /\ UNCHANGED worker
       ELSE /\ app' = [stage |-> "running", todo |-> <<>>]
            /\ worker' = [NoEvents EXCEPT !.stage = "loop"]
    /\ UNCHANGED <<edges, dropped, stopping, stats, last, fate, streams, watchers, swallowed>>

(* std::thread's constructor throws: every pin is armed by then, and the   *)
(* rollback was for configure_event() only.                                *)
NoThread ==
    /\ app.stage = "arm" /\ Len(app.todo) = 1
    /\ ~Streaming /\ Configured(Head(app.todo), "on") /\ Fault
    /\ app' = [stage |-> "idle", todo |-> <<>>] /\ swallowed' = TRUE
    /\ UNCHANGED <<edges, dropped, worker, stopping, stats, last, fate, streams, watchers>>

BugArmFails ==
    /\ app.stage = "arm"
    /\ \/ Refuses(Head(app.todo)) \/ ConfigureFails(Head(app.todo), "on")
    /\ app' = [stage |-> "idle", todo |-> <<>>]
    /\ swallowed' = (swallowed \/ faults' # faults)
    /\ UNCHANGED <<edges, dropped, worker, stopping, stats, last, fate, streams, watchers>>
ArmFails ==
    /\ app.stage = "arm"
    /\ \/ Refuses(Head(app.todo)) \/ ConfigureFails(Head(app.todo), "on")
    /\ app' = IF ArmedSoFar = <<>> THEN [stage |-> "idle", todo |-> <<>>]
              ELSE [stage |-> "off", todo |-> Reverse(ArmedSoFar)]
    /\ swallowed' = (swallowed \/ faults' # faults)
    /\ UNCHANGED <<edges, dropped, worker, stopping, stats, last, fate, streams, watchers>>

(* OFF for every pin, by the rollback and by stop(); errors are swallowed. *)
SwitchOff ==
    /\ app.stage = "off"
    /\ \/ ConfigureOk(Head(app.todo), "off") /\ UNCHANGED swallowed
       \/ ConfigureFails(Head(app.todo), "off") /\ swallowed' = TRUE
    /\ app' = IF Len(app.todo) > 1 THEN [app EXCEPT !.todo = Tail(@)]
              ELSE [stage |-> "idle", todo |-> <<>>]
    /\ fate' = [fate EXCEPT !.discarded = @ + Len(ring) - Len(ring')]
    /\ UNCHANGED <<edges, dropped, worker, stopping, stats, last, streams, watchers>>

(* stop(): the flag, then the notification, neither under cv_mutex; then   *)
(* the worker is joined.                                                   *)
RequestStop ==
    /\ app.stage = "running"
    /\ stopping' = TRUE /\ app' = [app EXCEPT !.stage = "notify"]
    /\ UNCHANGED <<devVars, worker, stats, last, fate, streams, faults, watchers, swallowed>>

Wake == [worker EXCEPT !.stage = IF @ = "asleep" THEN "loop" ELSE @]
NotifyAll ==
    /\ app.stage = "notify"
    /\ worker' = Wake /\ app' = [app EXCEPT !.stage = "join"]
    /\ UNCHANGED <<devVars, stopping, stats, last, fate, streams, faults, watchers, swallowed>>

JoinWorker ==
    /\ app.stage = "join" /\ worker.stage = "ended"
    /\ app' = [stage |-> "off", todo |-> WatchList]
    /\ worker' = NoEvents
    /\ UNCHANGED <<devVars, stopping, stats, last, fate, streams, faults, watchers, swallowed>>

-----------------------------------------------------------------------------
(* The worker: poll_events(), deliver, wait                                *)

(* The test of stop_requested, then poll_events()'s gate; DeviceBusy is    *)
(* waited out.                                                             *)
BeginPoll ==
    /\ worker.stage = "loop"
    /\ worker' = IF stopping THEN [worker EXCEPT !.stage = "ended"]
                 ELSE [NoEvents EXCEPT !.stage = IF Streaming THEN "wait" ELSE "pop"]
    /\ UNCHANGED <<devVars, app, stopping, stats, last, fate, streams, faults, watchers, swallowed>>

(* pop_events_once(), until nothing is pending.                            *)
BugAddBatchInFront(w, events, drops, more) ==
    [stage |-> IF more THEN "pop" ELSE "count",
     batch |-> events \o w.batch, dropped |-> Saturated(w.dropped + drops)]
BugAddBatchLastDrops(w, events, drops, more) ==
    [stage |-> IF more THEN "pop" ELSE "count",
     batch |-> w.batch \o events, dropped |-> Saturated(drops)]
AddBatch(w, events, drops, more) ==
    [stage |-> IF more THEN "pop" ELSE "count",
     batch |-> w.batch \o events, dropped |-> Saturated(w.dropped + drops)]
PopEvents ==
    /\ worker.stage = "pop"
    /\ worker' = AddBatch(worker, Batch(PopMax), dropped, Pending(PopMax))
    /\ Popped(PopMax)
    /\ LET told == Saturated(worker.dropped + dropped)
       IN  fate' = [fate EXCEPT !.saturated = @ + worker.dropped + dropped - told]
    /\ UNCHANGED <<watched, edges, app, stopping, stats, last, streams, faults, watchers,
                   swallowed>>

(* A reply lost after the device has popped, and a request that a signal   *)
(* interrupts after that, which is sent again.                             *)
PopTimesOut ==
    /\ worker.stage = "pop" /\ Fault
    /\ worker' = [NoEvents EXCEPT !.stage = "wait"]
    /\ Popped(PopMax) \/ UNCHANGED <<ring, dropped>>
    /\ UNCHANGED <<watched, edges, app, stopping, stats, last, fate, streams, watchers, swallowed>>

PopInterrupted ==
    /\ worker.stage = "pop" /\ Fault /\ Popped(PopMax)
    /\ UNCHANGED <<watched, edges, worker, app, stopping, stats, last, fate, streams, watchers,
                   swallowed>>

CountDrops ==
    /\ worker.stage = "count"
    /\ stats' = [stats EXCEPT !.dropped = @ + worker.dropped]
    /\ worker' = [worker EXCEPT !.stage = "deliver", !.dropped = 0]
    /\ UNCHANGED <<devVars, app, stopping, last, fate, streams, faults, watchers, swallowed>>

Give(c, e) == last' = [last EXCEPT ![c][e.pin] = e.seq]
Deliver ==
    /\ worker.stage = "deliver" /\ worker.batch # <<>>
    /\ Give("callback", Head(worker.batch))
    /\ stats' = [stats EXCEPT !.delivered = @ + 1]
    /\ worker' = [worker EXCEPT !.batch = Tail(@)]
    /\ UNCHANGED <<devVars, app, stopping, fate, streams, faults, watchers, swallowed>>

(* An Error that the callback throws, that of a Device it calls while a    *)
(* Stream runs for instance, is caught outside the loop over the batch: the*)
(* event it was given and those behind it are counted nowhere.             *)
CallbackThrows ==
    /\ worker.stage = "deliver" /\ worker.batch # <<>>
    /\ Give("callback", Head(worker.batch))
    /\ fate' = [fate EXCEPT !.abandoned = @ + Len(worker.batch)]
    /\ worker' = [NoEvents EXCEPT !.stage = "wait"]
    /\ UNCHANGED <<devVars, app, stopping, stats, streams, faults, watchers, swallowed>>

AllDelivered ==
    /\ worker.stage = "deliver" /\ worker.batch = <<>>
    /\ worker' = [worker EXCEPT !.stage = "wait"]
    /\ UNCHANGED <<devVars, app, stopping, stats, last, fate, streams, faults, watchers, swallowed>>

(* cv.wait_for(): the predicate is tested before the thread sleeps.  What  *)
(* sets it holds no mutex, so it can change, and the notification can pass,*)
(* in between; the interval ends the sleep then.                           *)
TestFlag ==
    /\ worker.stage = "wait"
    /\ worker' = [worker EXCEPT !.stage = IF stopping THEN "loop" ELSE "dozing"]
    /\ UNCHANGED <<devVars, app, stopping, stats, last, fate, streams, faults, watchers, swallowed>>
FallAsleep ==
    /\ worker.stage = "dozing"
    /\ worker' = [worker EXCEPT !.stage = "asleep"]
    /\ UNCHANGED <<devVars, app, stopping, stats, last, fate, streams, faults, watchers, swallowed>>
(* Bug: the wait has no interval.                                          *)
BugNoInterval == FALSE
IntervalEnds ==
    /\ worker.stage = "asleep"
    /\ worker' = Wake
    /\ UNCHANGED <<devVars, app, stopping, stats, last, fate, streams, faults, watchers, swallowed>>

-----------------------------------------------------------------------------
(* wait_event() in the application thread: one event at a time until one   *)
(* comes or the time is up.  It asks for no drop count, so it is lost.     *)
CallWait ==
    /\ app.stage = "running" /\ ~Streaming
    /\ app' = [app EXCEPT !.stage = "waiting"]
    /\ UNCHANGED <<devVars, worker, stopping, stats, last, fate, streams, faults, watchers, swallowed>>

WaitPops ==
    /\ app.stage = "waiting" /\ Popped(1)
    /\ fate' = [fate EXCEPT !.unseen = @ + dropped, !.returned = @ + Len(Batch(1))]
    /\ IF ring # <<>>
       THEN Give("wait_event", Head(ring)) /\ app' = [app EXCEPT !.stage = "running"]
       ELSE UNCHANGED last /\ \/ UNCHANGED app
                              \/ app' = [app EXCEPT !.stage = "running"]
    /\ UNCHANGED <<watched, edges, worker, stopping, stats, streams, faults, watchers, swallowed>>

WaitFails ==
    /\ app.stage = "waiting" /\ Fault
    /\ Popped(1) \/ UNCHANGED <<ring, dropped>>
    /\ app' = [app EXCEPT !.stage = "running"]
    /\ UNCHANGED <<watched, edges, worker, stopping, stats, last, fate, streams, watchers, swallowed>>

-----------------------------------------------------------------------------
EvInit ==
    /\ ring = <<>> /\ watched = {} /\ edges = [p \in Pins |-> 0] /\ dropped = 0
    /\ app = [stage |-> "idle", todo |-> <<>>] /\ worker = NoEvents
    /\ stopping = FALSE
    /\ stats = [delivered |-> 0, dropped |-> 0]
    /\ fate = [returned |-> 0, discarded |-> 0, unseen |-> 0, saturated |-> 0, abandoned |-> 0]
    /\ last = [c \in {"callback", "wait_event"} |-> [p \in Pins |-> 0]]
    /\ streams = 0 /\ faults = 0 /\ watchers = 0 /\ swallowed = FALSE

WorkerStep ==
    \/ BeginPoll \/ PopEvents \/ PopTimesOut \/ PopInterrupted \/ CountDrops
    \/ Deliver \/ CallbackThrows \/ AllDelivered \/ TestFlag \/ FallAsleep \/ IntervalEnds

StopStep == NotifyAll \/ JoinWorker \/ SwitchOff \/ ArmPin \/ ArmFails \/ NoThread

EvNext ==
    \/ \E pin \in Pins : Edge(pin)
    \/ ToggleStream \/ Construct \/ RequestStop \/ StopStep \/ WorkerStep
    \/ CallWait \/ WaitPops \/ WaitFails

vars == <<openVars, evVars>>

Init == OpenInit /\ EvInit
Next ==
    \/ phase # "ready" /\ OpenNext /\ UNCHANGED evVars
    \/ phase = "ready" /\ EvNext /\ UNCHANGED openVars

(* Both threads run, and the interval of a wait ends.                      *)
Spec == Init /\ [][Next]_vars
             /\ WF_vars(phase = "ready" /\ WorkerStep /\ UNCHANGED openVars)
             /\ WF_vars(phase = "ready" /\ StopStep /\ UNCHANGED openVars)

-----------------------------------------------------------------------------
(* The edges the device has accepted.                                      *)
Accepted == UNION {{[pin |-> p, seq |-> n] : n \in 1 .. edges[p]} : p \in Pins}

(* Those that are queued, in hand, with a consumer, counted as dropped, or *)
(* discarded with their pin; and those that nobody is told of.             *)
Accounted ==
    Len(ring) + Len(worker.batch) + stats.delivered + fate.returned
    + dropped + worker.dropped + stats.dropped + fate.discarded
Untold == fate.unseen + fate.saturated + fate.abandoned

(* As long as every transfer succeeds, no edge the device has counted is   *)
(* given twice, or counted as dropped as well, or lost without trace       *)
(* between the ring, the replies of a poll, the worker, and an application *)
(* that calls wait_event() next to it, but in three ways, which are exact: *)
(* the drops whose count wait_event() takes and does not return, those     *)
(* beyond DropMax of one count (UsbIo.cpp:859, Device.cpp:611), and what an*)
(* Error of the callback leaves of a batch (EventWatcher.cpp:54-61).       *)
EventsConserved == faults = 0 => Cardinality(Accepted) = Accounted + Untold

(* Each consumer is given the events of a pin in the order they happened,  *)
(* none twice, whatever transfers are lost or repeated (EventWatcher.h:64).*)
EventsInOrder ==
    [][\A c \in DOMAIN last, pin \in Pins :
          last'[c][pin] # last[c][pin] => last'[c][pin] > last[c][pin]]_vars

(* When the constructor has failed, or stop() has returned, no pin is left *)
(* armed, unless an EVENT_CONFIG was lost or refused by the gate of a      *)
(* Stream on the same Device, which both swallow, or the worker's thread   *)
(* could not be started (EventWatcher.cpp:101).                            *)
NothingLeftArmed ==
    app.stage = "idle" /\ ~swallowed => watched = {}

(* stop() returns: the worker notices the flag although the notification   *)
(* may come before it sleeps (EventWatcher.cpp:120-121).                   *)
WatcherStops == app.stage \in {"notify", "join", "off"} ~> app.stage = "idle"
=============================================================================
