------------------------------ MODULE KbdRing ------------------------------
(***************************************************************************)
(* The ring between the keyboard producers and the shell: ring_push,       *)
(* ring_pop, inject and recv_blocking of kbd.rs and the line editor of     *)
(* shell.rs, one step per access to shared memory.                         *)
(*                                                                         *)
(* All run on one CPU.  The shell and the HID poller are tasks that the    *)
(* timer may preempt between any two steps; the PS/2 handler Irq runs with *)
(* IF = 0, so once it has begun nobody else moves until it ends.           *)
(***************************************************************************)
EXTENDS Integers, Sequences

CONSTANTS Keys,       \* the printable bytes
          LF, BS,     \* the two bytes the line editor treats specially
          NoByte,     \* the 0 the buffer starts with
          Producers,  \* who calls ring_push
          Irq,        \* the one of them that is an interrupt handler
          RingSize,   \* RING_SIZE
          LineMax,    \* LINE_MAX
          CountMod    \* DROPPED wraps here (2^64 in the code)

Bytes == Keys \cup {LF, BS}
Slots == 0 .. RingSize - 1

ASSUME BytesAssumption == NoByte \notin Bytes
ASSUME SizesAssumption ==
    /\ RingSize \in Nat /\ RingSize > 1
    /\ LineMax \in Nat
    /\ CountMod \in Nat \ {0}

VARIABLES
    buf, head, tail,  \* RING
    DROPPED,          \* DROPPED
    ppc,              \* next step of each producer
    p_head, p_byte,   \* its locals head and b
    cpc,              \* next step of the shell
    c_tail, c_byte,   \* its locals tail and b in ring_pop
    received,         \* the byte recv_blocking returned last
    len               \* the length of the line in shell::run

vars == <<buf, head, tail, DROPPED, ppc, p_head, p_byte, cpc, c_tail, c_byte,
          received, len>>
producerVars == <<ppc, p_head, p_byte>>
consumerVars == <<cpc, c_tail, c_byte, received, len>>

Init ==
    /\ buf = [i \in Slots |-> NoByte]
    /\ head = 0
    /\ tail = 0
    /\ DROPPED = 0
    /\ ppc = [p \in Producers |-> "idle"]
    /\ p_head = [p \in Producers |-> 0]
    /\ p_byte = [p \in Producers |-> NoByte]
    /\ cpc = "idle"
    /\ c_tail = 0
    /\ c_byte = NoByte
    /\ received = NoByte
    /\ len = 0

(* The handler of an interrupt keeps the CPU until it returns.              *)
OnCpu(p) == Irq \in Producers /\ ppc[Irq] # "idle" => p = Irq
ShellOnCpu == Irq \in Producers => ppc[Irq] = "idle"

NextSlot(i) == (i + 1) % RingSize

-----------------------------------------------------------------------------
(* ring_push, called by keyboard_handler with a decoded byte or by inject:  *)
(* the Relaxed load of head.                                                *)
RingPush(p, b) ==
    /\ OnCpu(p)
    /\ ppc[p] = "idle"
    /\ ppc' = [ppc EXCEPT ![p] = "load_tail"]
    /\ p_head' = [p_head EXCEPT ![p] = head]
    /\ p_byte' = [p_byte EXCEPT ![p] = b]
    /\ UNCHANGED <<buf, head, tail, DROPPED, consumerVars>>

(* Mutant of LoadTail: the ring is never full.                             *)
LoadTailNoGap(p) ==
    /\ OnCpu(p)
    /\ ppc[p] = "load_tail"
    /\ ppc' = [ppc EXCEPT ![p] = "write"]
    /\ UNCHANGED <<buf, head, tail, DROPPED, p_head, p_byte, consumerVars>>

(* The Acquire load of tail and the test for a full ring.                   *)
LoadTail(p) ==
    /\ OnCpu(p)
    /\ ppc[p] = "load_tail"
    /\ ppc' = [ppc EXCEPT ![p] = IF NextSlot(p_head[p]) = tail THEN "full" ELSE "write"]
    /\ UNCHANGED <<buf, head, tail, DROPPED, p_head, p_byte, consumerVars>>

CountDropped(p) ==
    /\ OnCpu(p)
    /\ ppc[p] = "full"
    /\ DROPPED' = (DROPPED + 1) % CountMod
    /\ ppc' = [ppc EXCEPT ![p] = "idle"]
    /\ UNCHANGED <<buf, head, tail, p_head, p_byte, consumerVars>>

WriteSlot(p) ==
    /\ OnCpu(p)
    /\ ppc[p] = "write"
    /\ buf' = [buf EXCEPT ![p_head[p]] = p_byte[p]]
    /\ ppc' = [ppc EXCEPT ![p] = "store"]
    /\ UNCHANGED <<head, tail, DROPPED, p_head, p_byte, consumerVars>>

(* The Release store of head makes the byte visible.                        *)
StoreHead(p) ==
    /\ OnCpu(p)
    /\ ppc[p] = "store"
    /\ head' = NextSlot(p_head[p])
    /\ ppc' = [ppc EXCEPT ![p] = "idle"]
    /\ UNCHANGED <<buf, tail, DROPPED, p_head, p_byte, consumerVars>>

-----------------------------------------------------------------------------
(* ring_pop: the Relaxed load of tail.                                      *)
RingPop ==
    /\ ShellOnCpu
    /\ cpc = "idle"
    /\ cpc' = "load_head"
    /\ c_tail' = tail
    /\ UNCHANGED <<buf, head, tail, DROPPED, producerVars, c_byte, received, len>>

(* The Acquire load of head; with nothing to read recv_blocking yields and  *)
(* calls ring_pop again.                                                    *)
LoadHead ==
    /\ ShellOnCpu
    /\ cpc = "load_head"
    /\ cpc' = IF head = c_tail THEN "idle" ELSE "read"
    /\ UNCHANGED <<buf, head, tail, DROPPED, producerVars, c_tail, c_byte, received, len>>

ReadSlot ==
    /\ ShellOnCpu
    /\ cpc = "read"
    /\ c_byte' = buf[c_tail]
    /\ cpc' = "store"
    /\ UNCHANGED <<buf, head, tail, DROPPED, producerVars, c_tail, received, len>>

(* The Release store of tail gives the slot back; recv_blocking returns.    *)
StoreTail ==
    /\ ShellOnCpu
    /\ cpc = "store"
    /\ tail' = NextSlot(c_tail)
    /\ received' = c_byte
    /\ cpc' = "edit"
    /\ UNCHANGED <<buf, head, DROPPED, producerVars, c_tail, c_byte, len>>

(* shell::run on one byte: LF dispatches the line and empties it, BS takes  *)
(* one byte back, any other byte is appended while there is room.           *)
Edit ==
    /\ ShellOnCpu
    /\ cpc = "edit"
    /\ cpc' = "idle"
    /\ \/ received = LF /\ len' = 0
       \/ received = BS /\ len > 0 /\ len' = len - 1
       \/ received = BS /\ len = 0 /\ UNCHANGED len
       \/ received \notin {LF, BS} /\ len < LineMax /\ len' = len + 1
       \/ received \notin {LF, BS} /\ len = LineMax /\ UNCHANGED len
    /\ UNCHANGED <<buf, head, tail, DROPPED, producerVars, c_tail, c_byte, received>>

-----------------------------------------------------------------------------
PushStep(p) == LoadTail(p) \/ CountDropped(p) \/ WriteSlot(p) \/ StoreHead(p)
ShellStep == RingPop \/ LoadHead \/ ReadSlot \/ StoreTail \/ Edit

Next ==
    \/ \E p \in Producers : PushStep(p) \/ \E b \in Bytes : RingPush(p, b)
    \/ ShellStep

Spec == Init /\ [][Next]_vars

-----------------------------------------------------------------------------
(* Indices stay inside the buffer, the line inside LINE_MAX.                *)
TypeOK ==
    /\ buf \in [Slots -> Bytes \cup {NoByte}]
    /\ head \in Slots /\ tail \in Slots
    /\ DROPPED \in 0 .. CountMod - 1
    /\ ppc \in [Producers -> {"idle", "load_tail", "full", "write", "store"}]
    /\ p_head \in [Producers -> Slots]
    /\ p_byte \in [Producers -> Bytes \cup {NoByte}]
    /\ cpc \in {"idle", "load_head", "read", "store", "edit"}
    /\ c_tail \in Slots
    /\ c_byte \in Bytes \cup {NoByte}
    /\ received \in Bytes \cup {NoByte}
    /\ len \in 0 .. LineMax

(* kbd.rs on the ring: "neither ever writes the slot the other is reading". *)
SlotsDisjoint ==
    \A p \in Producers : ppc[p] = "write" /\ cpc = "read" => p_head[p] # c_tail

(* What is in the ring: the slots from tail up to head.                     *)
Occupied == (head - tail) % RingSize
Contents == [i \in 1 .. Occupied |-> buf[(tail + i - 1) % RingSize]]

(* A byte is refused when the full ring is seen, one step before it is      *)
(* counted.                                                                 *)
Refused == (DROPPED + (IF \E p \in Producers : ppc[p] = "full" THEN 1 ELSE 0)) % CountMod

Fifo == INSTANCE KbdFifo WITH queue <- Contents, dropped <- Refused, Capacity <- RingSize - 1

(* With one producer the ring is the bounded FIFO: no byte is lost,         *)
(* repeated, reordered or made up, and one is dropped only from a push that *)
(* saw the ring full, whatever is preempted where.                          *)
RingIsFifo == Fifo!Spec
=============================================================================
