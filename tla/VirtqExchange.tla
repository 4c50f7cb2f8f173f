---------------------------- MODULE VirtqExchange ----------------------------
(***************************************************************************)
(* What a virtqueue promises its driver and its device, without rings and  *)
(* descriptors: requests, each a sequence of buffers, reach the device in  *)
(* the order they were submitted and with the buffers they were submitted  *)
(* with; the device finishes them in any order; the driver gets each one   *)
(* back once, in the order the device finished them.                       *)
(***************************************************************************)
EXTENDS Naturals, Sequences, FiniteSets, Functions

CONSTANTS
    Capacity,   \* the number of buffers that can be with the device
    Requests    \* the requests a driver may submit: sequences of buffers

VARIABLES
    waiting,    \* requests the device has not taken, in order
    held,       \* requests the device works on
    done        \* finished requests the driver has not taken back, in order

exchangeVars == <<waiting, held, done>>

Outstanding ==
    UNION {Range(r) : r \in Range(waiting) \cup held \cup Range(done)}

Init ==
    /\ waiting = <<>>
    /\ held = {}
    /\ done = <<>>

Submit(r) ==
    /\ waiting' = Append(waiting, r)
    /\ UNCHANGED <<held, done>>
    /\ Range(r) \cap Outstanding = {}
    /\ Cardinality(Outstanding) + Len(r) <= Capacity

Take ==
    /\ waiting # <<>>
    /\ held' = held \cup {Head(waiting)}
    /\ waiting' = Tail(waiting)
    /\ UNCHANGED done

Finish(r) ==
    /\ r \in held
    /\ held' = held \ {r}
    /\ done' = Append(done, r)
    /\ UNCHANGED waiting

Reap ==
    /\ done # <<>>
    /\ done' = Tail(done)
    /\ UNCHANGED <<waiting, held>>

Next ==
    \/ \E r \in Requests : Submit(r)
    \/ Take
    \/ \E r \in held : Finish(r)
    \/ Reap

Spec == Init /\ [][Next]_exchangeVars
=============================================================================
