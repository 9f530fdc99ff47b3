------------------------------- MODULE TxFifo -------------------------------
(***************************************************************************)
(* What the outgoing queue of the bridge promises: a bounded FIFO of       *)
(* packets.  A packet is the number of its submission, so "in order" is    *)
(* "increasing" and "at most once" is "strictly increasing".               *)
(***************************************************************************)
EXTENDS Naturals, Sequences

CONSTANTS
    Packet,      \* the numbers a packet may have
    Capacity

VARIABLES
    fifo,        \* the packets waiting, oldest first
    lastSent     \* the last packet handed to the daemon, 0 if none

fifoVars == <<fifo, lastSent>>

Init ==
    /\ fifo = <<>>
    /\ lastSent = 0

(* A new packet joins at the back, if there is room. *)
Accept(p) ==
    /\ Len(fifo) < Capacity
    /\ p > lastSent
    /\ \A i \in 1..Len(fifo) : p > fifo[i]
    /\ fifo' = Append(fifo, p)
    /\ UNCHANGED lastSent

(* The oldest packet is handed to the daemon and leaves the queue. *)
Send ==
    /\ fifo # <<>>
    /\ Head(fifo) > lastSent
    /\ lastSent' = Head(fifo)
    /\ fifo' = Tail(fifo)

(* The oldest packet is given up. *)
Drop ==
    /\ fifo # <<>>
    /\ fifo' = Tail(fifo)
    /\ UNCHANGED lastSent

Next == (\E p \in Packet : Accept(p)) \/ Send \/ Drop

Spec == Init /\ [][Next]_fifoVars
=============================================================================
