------------------------------ MODULE KbdFifo ------------------------------
(***************************************************************************)
(* What the keyboard ring of kbd.rs promises to its two ends: a bounded    *)
(* FIFO.  A byte that is pushed is delivered once and in order, unless the *)
(* queue is full at some moment of the push; then it is counted as dropped *)
(* and nothing else changes.                                               *)
(***************************************************************************)
EXTENDS Integers, Sequences

CONSTANTS Bytes, Capacity, CountMod

VARIABLES queue,     \* the bytes pushed and not yet delivered
          dropped,   \* how many were refused
          received   \* the byte delivered last

fifoVars == <<queue, dropped, received>>

Init == queue = <<>> /\ dropped = 0 /\ received \notin Bytes

Push(b) ==
    /\ Len(queue) < Capacity
    /\ queue' = Append(queue, b)
    /\ UNCHANGED <<dropped, received>>

Drop ==
    /\ Len(queue) = Capacity
    /\ dropped' = (dropped + 1) % CountMod
    /\ UNCHANGED <<queue, received>>

Deliver ==
    /\ queue # <<>>
    /\ received' = Head(queue)
    /\ queue' = Tail(queue)
    /\ UNCHANGED dropped

Next == (\E b \in Bytes : Push(b)) \/ Drop \/ Deliver

Spec == Init /\ [][Next]_fifoVars
=============================================================================
