----------------------------- MODULE BoundedFifo -----------------------------
(***************************************************************************)
(* What the firmware's two rings promise: a queue of bounded capacity that *)
(* accepts an entry unless it is full, and hands entries over whole, in    *)
(* the order in which they were accepted, each exactly once.               *)
(***************************************************************************)
EXTENDS Naturals, Sequences

CONSTANTS
    Entries,        \* what can be queued
    Capacity,       \* how many entries it can hold, at least one
    NoEntry         \* nothing has been taken yet; not an entry

VARIABLES
    fifo,           \* accepted and not yet taken
    outcome,        \* what the last offer came to
    taken           \* the last entry taken

fifoVars == <<fifo, outcome, taken>>

Init ==
    /\ fifo = <<>>
    /\ outcome = "none"
    /\ taken = NoEntry

Accept(e) ==
    /\ Len(fifo) < Capacity
    /\ fifo' = Append(fifo, e)
    /\ outcome' = "accepted"
    /\ UNCHANGED taken

Refuse ==
    /\ Len(fifo) = Capacity
    /\ outcome' = "refused"
    /\ UNCHANGED <<fifo, taken>>

Take ==
    /\ fifo # <<>>
    /\ taken' = Head(fifo)
    /\ fifo' = Tail(fifo)
    /\ UNCHANGED outcome

Next == (\E e \in Entries : Accept(e)) \/ Refuse \/ Take

Spec == Init /\ [][Next]_fifoVars
=============================================================================
