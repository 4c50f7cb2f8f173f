------------------------------- MODULE IrqSlots -------------------------------
(***************************************************************************)
(* The interrupt slots of linuxkpi (irq.rs) and their life from            *)
(* pci_alloc_irq_vectors to pci_free_irq_vectors (pci.rs): which handler   *)
(* runs when a device sends an MSI-X message.                              *)
(*                                                                         *)
(* A slot stands for its dispatcher and the IDT vector registered for it.  *)
(* Drivers run their steps concurrently when Concurrent is TRUE; otherwise *)
(* one call of a driver ends before another begins, as on the boot stack.  *)
(* KpiBus adds the virtio bus, which takes slots from the same pool.       *)
(***************************************************************************)
EXTENDS Integers, FiniteSets

CONSTANTS
    Drivers,        \* each drives one device
    Others,         \* senders and handlers of the rest of the system
    NoBar,          \* devices whose table BAR cannot be found
    SLOT_COUNT,
    MaxVecs,        \* the largest number of vectors a driver asks for
    Concurrent,
    None

ASSUME SlotsAssumption ==
    /\ NoBar \subseteq Drivers /\ None \notin Drivers \cup Others
    /\ SLOT_COUNT \in Nat \ {0} /\ MaxVecs \in 1 .. SLOT_COUNT
    /\ Concurrent \in BOOLEAN

Slots == 0 .. SLOT_COUNT - 1

VARIABLES
    NEXT_SLOT,
    SLOTS,          \* the handler of each slot: its driver, or None
    pc,             \* where each driver is
    want,           \* the number of vectors it asks for
    first,          \* what fetch_add returned to it
    msix,           \* pci_dev: the slots it was given
    table,          \* MSI-X table of each device: the slots it can signal
    enabled,        \* MSI-X Enable of each device
    sent            \* [dev, slot] of messages sent and not dispatched yet

vars == <<NEXT_SLOT, SLOTS, pc, want, first, msix, table, enabled, sent>>

Init ==
    /\ NEXT_SLOT = 0
    /\ SLOTS = [s \in Slots |-> None]
    /\ pc = [d \in Drivers |-> "idle"]
    /\ want = [d \in Drivers |-> 0]
    /\ first = [d \in Drivers |-> 0]
    /\ msix = [d \in Drivers |-> {}]
    /\ table = [d \in Drivers |-> {}]
    /\ enabled = {}
    /\ sent = {}

Alone(d) == Concurrent \/ \A e \in Drivers \ {d} : pc[e] \in {"idle", "bound"}
Goto(d, l) == pc' = [pc EXCEPT ![d] = l]

(* The end of pci_alloc_irq_vectors: its locals are gone.                   *)
Return(d, l) ==
    /\ Goto(d, l)
    /\ want' = [want EXCEPT ![d] = 0] /\ first' = [first EXCEPT ![d] = 0]

-----------------------------------------------------------------------------
(* pci_alloc_irq_vectors, up to the fetch_add of alloc_slots.               *)
AllocSlots(d, n) ==
    /\ pc[d] = "idle" /\ Alone(d)
    /\ NEXT_SLOT' = NEXT_SLOT + n
    /\ first' = [first EXCEPT ![d] = NEXT_SLOT]
    /\ want' = [want EXCEPT ![d] = n]
    /\ Goto(d, IF NEXT_SLOT + n > SLOT_COUNT THEN "rollback" ELSE "program")
    /\ UNCHANGED <<SLOTS, msix, table, enabled, sent>>

(* The range does not fit: fetch_sub, and the allocation fails.             *)
Rollback(d) ==
    /\ pc[d] = "rollback"
    /\ NEXT_SLOT' = NEXT_SLOT - want[d]
    /\ Return(d, "idle")
    /\ UNCHANGED <<SLOTS, msix, table, enabled, sent>>

(* The rest of pci_alloc_irq_vectors: table entries, MSI-X Enable and the   *)
(* fields of pci_dev.  Without a BAR it fails and the slots stay taken.     *)
ProgramMsix(d) ==
    /\ pc[d] = "program"
    /\ LET given == first[d] .. first[d] + want[d] - 1
       IN IF d \in NoBar
          THEN Return(d, "idle") /\ UNCHANGED <<msix, table, enabled>>
          ELSE /\ msix' = [msix EXCEPT ![d] = given]
               /\ table' = [table EXCEPT ![d] = given]
               /\ enabled' = enabled \cup {d}
               /\ Return(d, "bound")
    /\ UNCHANGED <<NEXT_SLOT, SLOTS, sent>>

(* request_irq for one of the driver's vectors, which pci_irq_vector names. *)
RequestIrq(d, s) ==
    /\ pc[d] = "bound" /\ Alone(d)
    /\ s \in msix[d]
    /\ SLOTS' = [SLOTS EXCEPT ![s] = d]
    /\ UNCHANGED <<NEXT_SLOT, pc, want, first, msix, table, enabled, sent>>

FreeIrq(d, s) ==
    /\ pc[d] = "bound" /\ Alone(d)
    /\ s \in msix[d]
    /\ SLOTS' = [SLOTS EXCEPT ![s] = None]
    /\ UNCHANGED <<NEXT_SLOT, pc, want, first, msix, table, enabled, sent>>

(* Mutant of FreeVectors: the slots go back to the pool when they are the   *)
(* last ones given out.                                                     *)
FreeVectorsReclaims(d) ==
    /\ pc[d] = "bound" /\ Alone(d)
    /\ SLOTS' = [s \in Slots |-> IF s \in msix[d] THEN None ELSE SLOTS[s]]
    /\ NEXT_SLOT' = IF NEXT_SLOT - 1 \in msix[d]
                    THEN NEXT_SLOT - Cardinality(msix[d]) ELSE NEXT_SLOT
    /\ enabled' = enabled \ {d}
    /\ msix' = [msix EXCEPT ![d] = {}]
    /\ Goto(d, "idle")
    /\ UNCHANGED <<want, first, table, sent>>

(* pci_free_irq_vectors: every handler is removed, MSI-X is disabled; the   *)
(* slots are not given back and the table is left as it is.                 *)
FreeVectors(d) ==
    /\ pc[d] = "bound" /\ Alone(d)
    /\ SLOTS' = [s \in Slots |-> IF s \in msix[d] THEN None ELSE SLOTS[s]]
    /\ enabled' = enabled \ {d}
    /\ msix' = [msix EXCEPT ![d] = {}]
    /\ Goto(d, "idle")
    /\ UNCHANGED <<NEXT_SLOT, want, first, table, sent>>

-----------------------------------------------------------------------------
(* A device sends a message for an entry of its table.                      *)
DeviceSends(d, s) ==
    /\ d \in enabled /\ s \in table[d]
    /\ sent' = sent \cup {[dev |-> d, slot |-> s]}
    /\ UNCHANGED <<NEXT_SLOT, SLOTS, pc, want, first, msix, table, enabled>>

(* dispatch_common: the handler of the slot, if there is one, and EOI.      *)
DispatchCommon(m) ==
    /\ m \in sent
    /\ sent' = sent \ {m}
    /\ UNCHANGED <<NEXT_SLOT, SLOTS, pc, want, first, msix, table, enabled>>

Next ==
    \/ \E d \in Drivers, n \in 1 .. MaxVecs : AllocSlots(d, n)
    \/ \E d \in Drivers : Rollback(d) \/ ProgramMsix(d) \/ FreeVectors(d)
    \/ \E d \in Drivers, s \in Slots : RequestIrq(d, s) \/ FreeIrq(d, s) \/ DeviceSends(d, s)
    \/ \E m \in sent : DispatchCommon(m)

Spec == Init /\ [][Next]_vars

-----------------------------------------------------------------------------
(* The state of irq.rs, pci.rs and the devices.                             *)
TypeOK ==
    /\ NEXT_SLOT \in Nat
    /\ SLOTS \in [Slots -> Drivers \cup Others \cup {None}]
    /\ pc \in [Drivers -> {"idle", "rollback", "program", "bound"}]
    /\ want \in [Drivers -> Nat]
    /\ first \in [Drivers -> Nat]
    /\ msix \in [Drivers -> SUBSET Slots]
    /\ table \in [Drivers -> SUBSET Slots]
    /\ enabled \subseteq Drivers
    /\ sent \subseteq [dev : Drivers \cup Others, slot : Slots]

(* A message is handled by the driver of the device that sent it or by      *)
(* nobody, even when it arrives after pci_free_irq_vectors and other        *)
(* drivers have been given slots since.                                     *)
HandlerOfSender == \A m \in sent : SLOTS[m.slot] \in {m.dev, None}

(* No slot belongs to two devices: alloc_slots gives a range out once.      *)
SlotsGivenOnce == \A d, e \in Drivers : d # e => msix[d] \cap msix[e] = {}
=============================================================================
