---------------------------- MODULE KpiBusProofs ------------------------------
(***************************************************************************)
(* The interrupt slots and the virtio bus, for any machines, drivers and   *)
(* slots.  alloc_slots is a watermark that only failed requests take back: *)
(* with one call of a PCI driver at a time, no slot has ever two devices,  *)
(* and a late message meets the handler of its sender or none.  And every  *)
(* virtio device ends clean or live, with the driver of its kind.          *)
(***************************************************************************)
EXTENDS KpiBus, TLAPS

Senders == Drivers \cup Others
Calling(d) == pc[d] \in {"rollback", "program"}
Sent(x) == {s \in Slots : [dev |-> x, slot |-> s] \in sent}

(* The slots through which a device has been, or can still be, heard, and   *)
(* those that have its handler.                                             *)
Held(x) ==
    Sent(x) \cup {s \in Slots : SLOTS[s] = x} \cup (IF x \in Drivers THEN msix[x] \cup table[x] ELSE {})

(* A slot below the watermark, and below a range that may be rolled back.   *)
Settled(s) == s < NEXT_SLOT /\ \A e \in Drivers : Calling(e) => s < first[e]

(* At most one call is under way, and its range ends at the watermark.      *)
OneCall ==
    /\ \A d, e \in Drivers : Calling(d) /\ Calling(e) => d = e
    /\ \A d \in Drivers : Calling(d) => NEXT_SLOT = first[d] + want[d]
    /\ \A d \in Drivers : pc[d] = "program" => NEXT_SLOT <= SLOT_COUNT

(* Held slots are settled, and no two devices hold the same.                *)
Below == \A x \in Senders : \A s \in Held(x) : Settled(s)
Apart == \A x, y \in Senders : x # y => Held(x) \cap Held(y) = {}

IInv == TypeOK /\ OneCall /\ Below /\ Apart

-----------------------------------------------------------------------------
(* The inductive invariant holds when no slot has been given out.           *)
LEMMA InitIInv == Init => IInv
<1> SUFFICES ASSUME Init PROVE IInv
  BY Zenon
<1>1. TypeOK
  BY SlotsAssumption, Zenon DEF Init, TypeOK
<1>2. \A x \in Senders : Held(x) = {}
  BY SlotsAssumption, Zenon DEF Init, Held, Sent, Senders
<1>3. OneCall
  BY Zenon DEF Init, OneCall, Calling
<1> QED BY <1>1, <1>2, <1>3, Zenon DEF IInv, Below, Apart

(* Slots are numbers.                                                       *)
LEMMA SlotNumbers ==
  /\ Slots \subseteq Nat /\ SLOT_COUNT \in Nat
  /\ TypeOK => \A x \in Senders : Held(x) \subseteq Slots
BY SlotsAssumption DEF Slots, TypeOK, Held, Sent, Senders

(* When nothing is held that was not held before, and the calls and the     *)
(* watermark stay, slots stay apart.                                        *)
LEMMA HeldShrinks ==
  ASSUME Below, Apart, \A x \in Senders : Held(x)' \subseteq Held(x),
         NEXT_SLOT' = NEXT_SLOT, first' = first,
         \A d \in Drivers : Calling(d)' => Calling(d)
  PROVE  /\ Below' /\ Apart' /\ \A s \in Slots : Settled(s) => Settled(s)'
<1>0. \A s : Settled(s) => Settled(s)'
  BY Zenon DEF Settled
<1>1. Below'
  BY <1>0, Zenon DEF Below
<1>2. Apart'
  BY Zenon DEF Apart
<1> QED BY <1>0, <1>1, <1>2, Zenon

(* What a step of irq.rs or pci.rs may do to slots: a settled one stays so, *)
(* and one that gets a new holder was not settled before.                   *)
Grows ==
    /\ \A s \in Slots : Settled(s) => Settled(s)'
    /\ \A x \in Senders : \A s \in Held(x)' : s \in Held(x) \/ ~Settled(s)

(* Every step of one call at a time preserves the invariant.                *)
LEMMA NextIInv ==
  ASSUME ~Concurrent, IInv, [Next]_vars
  PROVE  IInv' /\ Grows
<1> USE DEF IInv
<1>1. CASE UNCHANGED vars
  BY <1>1 DEF vars, TypeOK, OneCall, Calling, Below, Apart, Held, Sent, Settled, Grows
<1>2. ASSUME NEW d \in Drivers, NEW n \in 1 .. MaxVecs, AllocSlots(d, n) PROVE IInv' /\ Grows
  <2>1. n \in Nat /\ NEXT_SLOT \in Nat
    BY SlotsAssumption DEF TypeOK
  <2>2. \A e \in Drivers : ~Calling(e) /\ (Calling(e)' => e = d)
    BY <1>2, Zenon DEF AllocSlots, Alone, Calling, Goto, TypeOK
  <2>3. TypeOK'
    BY <1>2, <2>1 DEF AllocSlots, Goto, TypeOK
  <2>4. first'[d] = NEXT_SLOT /\ want'[d] = n /\ NEXT_SLOT' = NEXT_SLOT + n
        /\ pc'[d] = IF NEXT_SLOT + n > SLOT_COUNT THEN "rollback" ELSE "program"
    BY <1>2, Zenon DEF AllocSlots, Goto, TypeOK
  <2>5. OneCall'
    BY <2>1, <2>2, <2>4, SlotsAssumption DEF OneCall, Calling
  <2>6. \A x \in Senders : Held(x)' = Held(x)
    BY <1>2, Zenon DEF AllocSlots, Held, Sent
  <2>7. \A s \in Slots : Settled(s) => Settled(s)'
    <3> SUFFICES ASSUME NEW s \in Slots, Settled(s) PROVE Settled(s)'
      BY Zenon
    <3>1. s \in Nat /\ s < NEXT_SLOT
      BY SlotNumbers, Zenon DEF Settled
    <3>2. s < NEXT_SLOT'
      BY <2>1, <2>4, <3>1
    <3> QED BY <2>2, <2>4, <3>1, <3>2, Zenon DEF Settled
  <2>8. Below'
    BY <2>6, <2>7, SlotNumbers, Zenon DEF Below
  <2>9. Apart' /\ Grows
    BY <2>6, <2>7, Zenon DEF Apart, Grows
  <2> QED BY <2>3, <2>5, <2>8, <2>9, Zenon
<1>3. ASSUME NEW d \in Drivers, Rollback(d) PROVE IInv' /\ Grows
  <2>1. NEXT_SLOT = first[d] + want[d] /\ first[d] \in Nat /\ want[d] \in Nat /\ Calling(d)
    BY <1>3, Zenon DEF Rollback, OneCall, Calling, TypeOK
  <2>2. NEXT_SLOT' = first[d]
    BY <1>3, <2>1 DEF Rollback
  <2>3. \A e \in Drivers : ~Calling(e)'
    BY <1>3, Zenon DEF Rollback, Return, Goto, OneCall, Calling, TypeOK
  <2>4. TypeOK'
    BY <1>3, <2>1, <2>2, Zenon DEF Rollback, Return, Goto, TypeOK
  <2>5. OneCall'
    BY <2>3, Zenon DEF OneCall, Calling
  <2>6. \A x \in Senders : Held(x)' = Held(x)
    BY <1>3, Zenon DEF Rollback, Held, Sent
  <2>7. \A s \in Slots : Settled(s) => Settled(s)'
    BY <2>1, <2>2, <2>3, Zenon DEF Settled
  <2>8. Below'
    BY <2>6, <2>7, SlotNumbers, Zenon DEF Below
  <2>9. Apart' /\ Grows
    BY <2>6, <2>7, Zenon DEF Apart, Grows
  <2> QED BY <2>4, <2>5, <2>8, <2>9, Zenon
<1>4. ASSUME NEW d \in Drivers, ProgramMsix(d) PROVE IInv' /\ Grows
  <2> DEFINE given == first[d] .. first[d] + want[d] - 1
  <2>1. /\ NEXT_SLOT = first[d] + want[d] /\ first[d] \in Nat /\ want[d] \in Nat
        /\ NEXT_SLOT <= SLOT_COUNT /\ Calling(d)
    BY <1>4, Zenon DEF ProgramMsix, OneCall, Calling, TypeOK
  <2>2. \A e \in Drivers : ~Calling(e)'
    BY <1>4, Zenon DEF ProgramMsix, Return, Goto, OneCall, Calling, TypeOK
  <2>3. given \subseteq Slots
    BY <2>1, SlotNumbers DEF Slots
  <2>4. OneCall'
    BY <2>2, Zenon DEF OneCall, Calling
  <2>5. \A s \in Slots : Settled(s) => Settled(s)'
    BY <1>4, <2>2, Zenon DEF ProgramMsix, Settled
  <2>6. CASE d \in NoBar
    <3>1. \A x \in Senders : Held(x)' = Held(x)
      BY <1>4, <2>6, Zenon DEF ProgramMsix, Held, Sent
    <3>2. TypeOK'
      BY <1>4, <2>1, <2>6 DEF ProgramMsix, Return, Goto, TypeOK
    <3>3. Below' /\ Apart' /\ Grows
      BY <2>5, <3>1, SlotNumbers, Zenon DEF Below, Apart, Grows
    <3> QED BY <2>4, <3>2, <3>3, Zenon
  <2>7. CASE d \notin NoBar
    <3>1. /\ msix' = [msix EXCEPT ![d] = given] /\ table' = [table EXCEPT ![d] = given]
          /\ enabled' = enabled \cup {d} /\ Return(d, "bound")
          /\ UNCHANGED <<NEXT_SLOT, SLOTS, sent>>
      BY <1>4, <2>7, Zenon DEF ProgramMsix
    <3> HIDE DEF given
    <3>2. TypeOK'
      BY <2>1, <2>3, <3>1, Zenon DEF Return, Goto, TypeOK
    <3>3. \A x \in Senders \ {d} : Held(x)' = Held(x)
      BY <3>1, Zenon DEF Held, Sent, TypeOK
    <3>4. Held(d)' \subseteq Held(d) \cup given
      BY <3>1, Zenon DEF Held, Sent, TypeOK
    <3>5. \A s \in given : s < NEXT_SLOT /\ s >= first[d] /\ s \in Int
      BY <2>1 DEF given
    <3>6. \A s \in given : ~Settled(s) /\ Settled(s)'
      BY <2>1, <2>2, <3>1, <3>5 DEF Settled
    <3>7. Below'
      BY <2>5, <3>2, <3>3, <3>4, <3>6, SlotNumbers, Zenon DEF Below
    <3>8. Apart'
      BY <3>3, <3>4, <3>6 DEF Apart, Below
    <3>9. Grows
      BY <2>5, <3>3, <3>4, <3>6, Zenon DEF Grows
    <3> QED BY <2>4, <3>2, <3>7, <3>8, <3>9, Zenon
  <2> QED BY <2>6, <2>7, Zenon
<1>5. ASSUME NEW d \in Drivers, NEW s \in Slots, RequestIrq(d, s) \/ FreeIrq(d, s)
      PROVE IInv' /\ Grows
  <2>1. TypeOK' /\ OneCall'
    BY <1>5 DEF RequestIrq, FreeIrq, TypeOK, OneCall, Calling
  <2>2. \A x \in Senders : Held(x)' \subseteq Held(x)
    BY <1>5, SlotsAssumption DEF RequestIrq, FreeIrq, Held, Sent, TypeOK, Senders
  <2>3. Below' /\ Apart' /\ Grows
    BY <1>5, <2>2, HeldShrinks, Zenon DEF RequestIrq, FreeIrq, Calling, Grows
  <2> QED BY <2>1, <2>3, Zenon
<1>6. ASSUME NEW d \in Drivers, FreeVectors(d) PROVE IInv' /\ Grows
  <2>1. TypeOK' /\ OneCall'
    BY <1>6, Zenon DEF FreeVectors, Goto, TypeOK, OneCall, Calling
  <2>2. \A x \in Senders : Held(x)' \subseteq Held(x)
    BY <1>6, SlotsAssumption, Zenon DEF FreeVectors, Held, Sent, TypeOK, Senders
  <2>3. \A e \in Drivers : Calling(e)' => Calling(e)
    BY <1>6, Zenon DEF FreeVectors, Goto, Calling, TypeOK
  <2>4. Below' /\ Apart' /\ Grows
    BY <1>6, <2>2, <2>3, HeldShrinks, Zenon DEF FreeVectors, Grows
  <2> QED BY <2>1, <2>4, Zenon
<1>7. ASSUME NEW d \in Drivers, NEW s \in Slots, DeviceSends(d, s) PROVE IInv' /\ Grows
  <2>1. TypeOK' /\ OneCall'
    BY <1>7 DEF DeviceSends, TypeOK, OneCall, Calling
  <2>2. \A x \in Senders : Held(x)' \subseteq Held(x)
    BY <1>7, Zenon DEF DeviceSends, Held, Sent
  <2>3. Below' /\ Apart' /\ Grows
    BY <1>7, <2>2, HeldShrinks, Zenon DEF DeviceSends, Calling, Grows
  <2> QED BY <2>1, <2>3, Zenon
<1>8. ASSUME NEW m \in sent, DispatchCommon(m) PROVE IInv' /\ Grows
  <2>1. TypeOK' /\ OneCall'
    BY <1>8, Zenon DEF DispatchCommon, TypeOK, OneCall, Calling
  <2>2. \A x \in Senders : Held(x)' \subseteq Held(x)
    BY <1>8, Zenon DEF DispatchCommon, Held, Sent
  <2>3. Below' /\ Apart' /\ Grows
    BY <1>8, <2>2, HeldShrinks, Zenon DEF DispatchCommon, Calling, Grows
  <2> QED BY <2>1, <2>3, Zenon
<1> QED BY <1>1, <1>2, <1>3, <1>4, <1>5, <1>6, <1>7, <1>8, Zenon DEF Next

-----------------------------------------------------------------------------
(* With one caller of alloc_slots at a time the invariant always holds.     *)
THEOREM SlotsInvariant == ~Concurrent => (Spec => []IInv)
<1> SUFFICES ASSUME ~Concurrent PROVE Spec => []IInv
  BY Zenon
<1>1. IInv /\ [Next]_vars => IInv'
  BY NextIInv, Zenon
<1> QED BY <1>1, InitIInv, PTL DEF Spec

(* No slot of alloc_slots belongs to two devices.                           *)
THEOREM SlotsAreGivenOnce == ~Concurrent => (Spec => []SlotsGivenOnce)
<1>1. IInv => SlotsGivenOnce
  BY Zenon DEF IInv, Apart, Held, SlotsGivenOnce, Senders
<1> QED BY <1>1, SlotsInvariant, PTL

(* Devices that hold no slot in common are only heard by their own handler. *)
LEMMA HandlersOfSenders == IInv => HandlerOfSender
<1> SUFFICES ASSUME IInv, NEW m \in sent, SLOTS[m.slot] # None PROVE SLOTS[m.slot] = m.dev
  BY Zenon DEF HandlerOfSender
<1>1. m.dev \in Senders /\ m.slot \in Slots /\ m = [dev |-> m.dev, slot |-> m.slot]
  BY Zenon DEF IInv, TypeOK, Senders
<1>2. m.slot \in Held(m.dev)
  BY <1>1, Zenon DEF Held, Sent
<1>3. SLOTS[m.slot] \in Senders /\ m.slot \in Held(SLOTS[m.slot])
  BY <1>1, Zenon DEF IInv, TypeOK, Held, Senders
<1> QED BY <1>1, <1>2, <1>3, Zenon DEF IInv, Apart

(* dispatch_common runs the handler of the device that sent the message or  *)
(* none, however late the message is.                                       *)
THEOREM MessagesMeetTheirHandler == ~Concurrent => (Spec => []HandlerOfSender)
BY SlotsInvariant, HandlersOfSenders, PTL

-----------------------------------------------------------------------------
(* The registers of a device, as the drivers of KpiBus leave them.          *)
Features == {"version_1", "stats", "poison"}
Registers ==
    [status : Nat, accepted : SUBSET Features, active : SUBSET (Nat \X Nat),
     vector : BOOLEAN, master : BOOLEAN, msix : BOOLEAN, entry : Slots \cup {None}]

BusTypes ==
    /\ bus \in Machines
    /\ turn \in 1 .. 6
    /\ spot \in DOMAIN bus \cup {None}
    /\ todo \subseteq VirtioFunctions(bus)
    /\ q \in Nat
    /\ dev \in [DOMAIN bus -> Registers]
    /\ vdev \in [DOMAIN bus -> SUBSET Features]
    /\ holder \in [DOMAIN bus -> 0 .. 5]

(* The stages of each driver's turn, and those at a device.                 *)
Opening == {"ack", "driver", "features"}
Answering == {"submit", "poll", "good", "bad"}
Stages ==
    /\ turn = 1 => stage \in {"count", "look", "validate", "probe"} \cup Opening
    /\ turn = 2 => stage \in {"look", "wire", "request", "validate", "probe", "queue", "bound"} \cup Opening
    /\ turn \in 3 .. 5 => stage \in {"look", "queue"} \cup Opening \cup Answering
    /\ turn = 6 => stage = "look"
    /\ spot = None <=> stage \in {"count", "look"}
    /\ stage \notin {"queue", "bound"} \cup Answering => q = 1

(* The queues that a driver uses, and those that a device has.              *)
Uses(c, w) == IF c.shim THEN {i \in DOMAIN c.queues : c.queues[i] \in w} ELSE 1 .. c.queues
QueuesOf(c, p) == Uses(c, vdev[p])
Firsts(A) == {e[1] : e \in A}
Indices(p) == Firsts(dev[p].active)

Clean(p) ==
    dev[p].status = 1 /\ dev[p].accepted = {} /\ dev[p].active = {} /\ dev[p].vector = FALSE
Kept(p) ==
    /\ holder[p] # 0 /\ holder[p] <= turn
    /\ Boot[holder[p]].name = bus[p].kind
    /\ Live(p) /\ dev[p].master /\ vdev[p] \subseteq dev[p].accepted
    /\ Indices(p) = QueuesOf(Boot[holder[p]], p)
    /\ holder[p] = turn => turn = 2 /\ p \notin todo

(* A device without a driver at it is clean or kept.                        *)
Resting == \A p \in DOMAIN bus : p # spot => (holder[p] = 0 /\ Clean(p)) \/ Kept(p)

(* The device that the driver is at.                                        *)
Underway ==
    spot # None =>
        /\ holder[spot] = 0 /\ dev[spot].master
        /\ stage = "ack" => dev[spot].status = 1
        /\ stage = "driver" => dev[spot].status = 2
        /\ stage = "features" => dev[spot].status = 3
        /\ stage \in {"wire", "request", "validate", "probe", "queue"} => dev[spot].status = 4
        /\ stage \in {"bound"} \cup Answering => dev[spot].status = 5
        /\ turn # 1 => bus[spot].kind = Cur.name
        /\ turn = 2 => spot \notin todo
        /\ stage = "request" => dev[spot].entry # None
        /\ stage \notin Opening => vdev[spot] \subseteq dev[spot].accepted
        /\ stage \in {"wire", "request", "validate", "probe"} \cup Opening => dev[spot].active = {}
        /\ stage = "queue" =>
             /\ q \in 1 .. IF Cur.shim THEN Len(Cur.queues) + 1 ELSE Cur.queues + 1
             /\ Indices(spot) = QueuesOf(Cur, spot) \cap (1 .. q - 1)
        /\ stage \in {"bound"} \cup Answering => Indices(spot) = QueuesOf(Cur, spot)

(* What a queue must be for the device and for Virtqueue::new.              *)
Fit(r, e) ==
    /\ e[2] <= QueueMax(r, e[1]) /\ e[2] \in Powers
    /\ RingBytes(e[2]) <= 4096
Fits ==
    \A p \in DOMAIN bus :
        /\ dev[p].accepted \subseteq bus[p].offers
        /\ \A e \in dev[p].active : Fit(bus[p], e)

(* The self-test's registration makes every device a bus master.            *)
Mastered ==
    \A p \in VirtioFunctions(bus) :
        TryResolve(bus[p]) => dev[p].master \/ (turn = 1 /\ p \in todo)

(* The entry of a device's MSI-X table is a slot of its own.                *)
Entries ==
    \A p \in DOMAIN bus :
        /\ dev[p].vector => dev[p].entry # None
        /\ dev[p].entry # None =>
             /\ Settled(dev[p].entry)
             /\ \A x \in Senders \ {p} : dev[p].entry \notin Held(x)
             /\ \A r \in DOMAIN bus \ {p} : dev[r].entry # dev[p].entry

BusInv == BusTypes /\ Stages /\ Resting /\ Underway /\ Fits /\ Mastered

-----------------------------------------------------------------------------
(* The drivers by their turns.                                              *)
LEMMA Roster ==
  /\ Len(Boot) = 5
  /\ Boot[1] = SelfTest /\ Boot[2] = Balloon /\ Boot[3] = Blk /\ Boot[4] = Gpu /\ Boot[5] = Net
  /\ \A t, u \in 1 .. 5 : Boot[t].name = Boot[u].name => t = u
<1>1. Len(Boot) = 5 /\ Boot[1] = SelfTest /\ Boot[2] = Balloon /\ Boot[3] = Blk /\ Boot[4] = Gpu /\ Boot[5] = Net
  BY Zenon DEF Boot
<1>2. /\ Boot[1].name = "self_test" /\ Boot[2].name = "balloon" /\ Boot[3].name = "blk"
      /\ Boot[4].name = "gpu" /\ Boot[5].name = "net"
  BY <1>1 DEF SelfTest, Balloon, Blk, Gpu, Net, Native
<1>3. \A t, u \in 1 .. 5 : Boot[t].name = Boot[u].name => t = u
  BY <1>2
<1> QED BY <1>1, <1>3, Zenon

(* A reset clears four registers and keeps the others.                      *)
LEMMA ResetRegisters ==
  ASSUME NEW r \in Registers
  PROVE  /\ ResetRegs(r) \in Registers
         /\ ResetRegs(r).status = 1 /\ ResetRegs(r).accepted = {}
         /\ ResetRegs(r).active = {} /\ ResetRegs(r).vector = FALSE
         /\ ResetRegs(r).master = r.master /\ ResetRegs(r).entry = r.entry
         /\ r.status = 1 /\ r.accepted = {} /\ r.active = {} /\ r.vector = FALSE => r = ResetRegs(r)
BY Zenon DEF ResetRegs, Registers

(* The sizes of queues: powers of two up to 128, within the device's limit  *)
(* and one frame.                                                           *)
LEMMA Sizes ==
  ASSUME NEW n \in Nat, n # 0
  PROVE  /\ Pow2AtMost(n) \in Nat /\ Pow2AtMost(n) # 0
         /\ Pow2AtMost(n) <= n /\ Pow2AtMost(n) \in Powers
         /\ RingBytes(Pow2AtMost(n)) <= 4096
<1> DEFINE small == {1, 2, 4, 8, 16, 32, 64, 128}
           fit == {p \in Powers : p <= n /\ p <= 128}
           most == CHOOSE p \in fit : \A r \in fit : r <= p
<1>1. fit = {p \in small : p <= n}
  BY DEF Powers
<1>2. \E p \in small : p <= n /\ \A r \in small : r <= n => r <= p
  <2>1. CASE n >= 64
    BY <2>1
  <2>2. CASE n >= 16 /\ n < 64
    BY <2>2
  <2>3. CASE n >= 4 /\ n < 16
    BY <2>3
  <2>4. CASE n < 4
    BY <2>4
  <2> QED BY <2>1, <2>2, <2>3, <2>4
<1>3. \E p \in fit : \A r \in fit : r <= p
  BY <1>1, <1>2
<1>4. most \in fit
  <2> HIDE DEF fit
  <2> QED BY <1>3, Zenon
<1>5. most \in small /\ most \in Powers /\ most <= n
  BY <1>1, <1>4, Zenon
<1>6. Pow2AtMost(n) = most
  BY Zenon DEF Pow2AtMost, Pow2Capped
<1> HIDE DEF most
<1>7. RingBytes(most) <= 4096
  BY <1>5 DEF RingBytes
<1> QED BY <1>5, <1>6, <1>7
-----------------------------------------------------------------------------
(* A device that no driver is at, and that a step leaves alone, stays clean *)
(* or kept, also when the next driver's turn comes.                         *)
LEMMA Rests ==
  ASSUME BusTypes, Resting, NEW p \in DOMAIN bus, p # spot, bus' = bus,
         dev'[p] = dev[p], vdev'[p] = vdev[p], holder'[p] = holder[p],
         (turn' = turn /\ todo' \subseteq todo) \/ turn' = turn + 1
  PROVE  (holder'[p] = 0 /\ Clean(p)') \/ Kept(p)'
<1>1. CASE holder[p] = 0 /\ Clean(p)
  BY <1>1, Zenon DEF Clean
<1>2. CASE Kept(p)
  <2>1. holder[p] \in Nat /\ turn \in Nat
    BY DEF BusTypes
  <2>2. Live(p)' /\ dev'[p].master /\ vdev'[p] \subseteq dev'[p].accepted /\ Indices(p)' = Indices(p)
    BY <1>2, Zenon DEF Kept, Live, Indices
  <2>3. QueuesOf(Boot[holder[p]], p)' = QueuesOf(Boot[holder[p]], p)
    BY Zenon DEF QueuesOf
  <2>4. holder[p] <= turn' /\ (holder[p] = turn' => turn' = 2 /\ p \notin todo')
    BY <1>2, <2>1 DEF Kept
  <2> QED BY <1>2, <2>2, <2>3, <2>4, Zenon DEF Kept
<1> QED BY <1>1, <1>2, Zenon DEF Resting

(* A step that writes the registers of the device the driver is at, and its *)
(* virtio_device, leaves the other devices and their books as they are.     *)
LEMMA AtDevice ==
  ASSUME BusInv, spot # None, NEW r \in Registers, NEW v \in SUBSET Features,
         UNCHANGED <<bus, turn, spot, todo, holder>>, q' \in Nat,
         dev' = [dev EXCEPT ![spot] = r], vdev' = [vdev EXCEPT ![spot] = v],
         r.master, r.accepted \subseteq bus[spot].offers,
         \A e \in r.active : Fit(bus[spot], e)
  PROVE  /\ BusTypes' /\ Resting' /\ Fits' /\ Mastered'
         /\ dev'[spot] = r /\ vdev'[spot] = v
<1> USE DEF BusInv
<1>1. spot \in DOMAIN bus /\ DOMAIN dev = DOMAIN bus /\ DOMAIN vdev = DOMAIN bus
  BY Zenon DEF BusTypes
<1>2. dev'[spot] = r /\ vdev'[spot] = v
  BY <1>1, Zenon
<1>3. \A p \in DOMAIN bus \ {spot} : dev'[p] = dev[p] /\ vdev'[p] = vdev[p]
  BY <1>1, Zenon
<1>4. BusTypes'
  BY <1>1, Zenon DEF BusTypes
<1>5. Resting'
  BY <1>3, Rests, Zenon DEF Resting
<1>6. Fits'
  BY <1>2, <1>3, Zenon DEF Fits
<1>7. Mastered'
  <2>1. VirtioFunctions(bus) \subseteq DOMAIN bus
    BY Zenon DEF VirtioFunctions, Scanned, Visited
  <2> QED BY <1>2, <1>3, <2>1, Zenon DEF Mastered
<1> QED BY <1>2, <1>4, <1>5, <1>6, <1>7, Zenon

(* A driver leaves its device, clean or kept.                               *)
LEMMA AtNone ==
  ASSUME BusInv, bus' = bus, spot' = None, stage' = "look", q' = 1,
         \/ turn' = turn /\ todo' = todo
         \/ /\ turn \in 1 .. 5 /\ turn' = turn + 1 /\ todo' = VirtioFunctions(bus)
            /\ turn = 1 => todo = {},
         spot = None \/ turn \in 1 .. 5,
         dev' \in [DOMAIN bus -> Registers], vdev' \in [DOMAIN bus -> SUBSET Features],
         holder' \in [DOMAIN bus -> 0 .. 5],
         \A p \in DOMAIN bus \ {spot} :
            dev'[p] = dev[p] /\ vdev'[p] = vdev[p] /\ holder'[p] = holder[p],
         \A p \in DOMAIN bus : p = spot =>
            /\ dev'[p].master /\ dev'[p].accepted \subseteq bus[p].offers
            /\ \A e \in dev'[p].active : Fit(bus[p], e)
            /\ (holder'[p] = 0 /\ Clean(p)') \/ Kept(p)'
  PROVE  BusInv'
<1> USE DEF BusInv
<1>1. BusTypes'
  BY DEF BusTypes
<1>2. Stages'
  BY Zenon DEF Stages, BusTypes
<1>3. Resting'
  <2> SUFFICES ASSUME NEW p \in DOMAIN bus PROVE (holder'[p] = 0 /\ Clean(p)') \/ Kept(p)'
    BY Zenon DEF Resting
  <2>1. CASE p = spot
    BY <2>1, Zenon
  <2>2. CASE p # spot
    <3>1. dev'[p] = dev[p] /\ vdev'[p] = vdev[p] /\ holder'[p] = holder[p]
      BY <2>2, Zenon
    <3>2. (turn' = turn /\ todo' \subseteq todo) \/ turn' = turn + 1
      BY Zenon
    <3> QED BY <2>2, <3>1, <3>2, Rests, Zenon
  <2> QED BY <2>1, <2>2, Zenon
<1>4. Underway'
  BY Zenon DEF Underway
<1>5. Fits'
  BY Zenon DEF Fits
<1>6. Mastered'
  <2>1. VirtioFunctions(bus) \subseteq DOMAIN bus
    BY Zenon DEF VirtioFunctions, Scanned, Visited
  <2>2. \A p \in DOMAIN bus : p # spot \/ dev'[p].master
    BY Zenon
  <2> QED BY <2>1, <2>2, Zenon DEF Mastered, BusTypes
<1> QED BY <1>1, <1>2, <1>3, <1>4, <1>5, <1>6, Zenon

(* Steps that leave the drivers and the devices alone.                      *)
LEMMA BusStays ==
  ASSUME BusInv, UNCHANGED <<bus, turn, spot, todo, stage, q, dev, vdev, holder>>
  PROVE  BusInv'
BY DEF BusInv, BusTypes, Stages, Resting, Clean, Kept, Live, Indices, Firsts, QueuesOf, Uses, Underway,
       Cur, Fits, Mastered
-----------------------------------------------------------------------------
(* The machine at boot.                                                     *)
LEMMA InitBusInv == BusInit => BusInv
<1> SUFFICES ASSUME BusInit PROVE BusInv
  BY Zenon
<1>1. BusTypes
  <2>1. dev \in [DOMAIN bus -> Registers]
    BY Zenon DEF BusInit, Registers
  <2>2. vdev \in [DOMAIN bus -> SUBSET Features] /\ holder \in [DOMAIN bus -> 0 .. 5]
    BY DEF BusInit
  <2>3. bus \in Machines /\ turn = 1 /\ spot = None /\ q = 1 /\ todo = VirtioFunctions(bus)
    BY Zenon DEF BusInit
  <2> QED BY <2>1, <2>2, <2>3 DEF BusTypes
<1>2. Stages /\ Underway
  BY DEF BusInit, Stages, Underway
<1>3. \A p \in DOMAIN bus : Clean(p) /\ holder[p] = 0
  BY Zenon DEF BusInit, Clean
<1>4. Resting /\ Fits /\ Mastered
  BY <1>3, Zenon DEF BusInit, Resting, Fits, Clean, Mastered
<1> QED BY <1>1, <1>2, <1>4, Zenon DEF BusInv

(* What the drivers are, by turn.                                           *)
LEMMA Turns ==
  ASSUME BusInv, Boots
  PROVE  /\ turn \in 1 .. 5
         /\ turn \in {1, 2} => Cur.shim = TRUE
         /\ turn \in 3 .. 5 => Cur.shim = FALSE
         /\ IF Cur.shim THEN turn \in {1, 2} ELSE turn \in 3 .. 5
         /\ turn = 2 => Cur.changed = TRUE
         /\ turn # 2 => Cur.changed = FALSE
         /\ turn = 1 => Cur = SelfTest /\ Cur.ids = {} /\ Cur.binds = FALSE
         /\ turn = 2 => Cur = Balloon /\ Cur # SelfTest /\ Cur.ids = {5} /\ Cur.name = "balloon"
         /\ turn \in 3 .. 5 => /\ Cur \in {Blk, Gpu, Net} /\ Cur.size = 16
                               /\ Cur.queues \in Nat \ {0} /\ Cur.requests \in Nat
         /\ DriverFeatures(Cur) \subseteq Features
<1>1. turn \in {1, 2, 3, 4, 5}
  BY Roster DEF BusInv, BusTypes, Boots
<1>2. turn = 1 => Cur = SelfTest
  BY Roster, Zenon DEF Cur
<1>3. turn = 2 => Cur = Balloon
  BY Roster, Zenon DEF Cur
<1>4. turn \in 3 .. 5 => Cur \in {Blk, Gpu, Net}
  BY <1>1, Roster DEF Cur
<1>5. /\ SelfTest.shim = TRUE /\ SelfTest.changed = FALSE /\ SelfTest.ids = {}
      /\ SelfTest.binds = FALSE /\ SelfTest.feats = {} /\ SelfTest.name = "self_test"
  BY Zenon DEF SelfTest
<1>6. /\ Balloon.shim = TRUE /\ Balloon.changed = TRUE /\ Balloon.ids = {5}
      /\ Balloon.feats = {"stats", "poison"} /\ Balloon.name = "balloon"
  BY Zenon DEF Balloon
<1>7. \A c \in {Blk, Gpu, Net} :
        /\ c.shim = FALSE /\ c.changed = FALSE /\ c.size = 16 /\ c.feats = {}
        /\ c.queues \in Nat \ {0} /\ c.requests \in Nat
  BY DEF Blk, Gpu, Net, Native
<1>8. Cur # SelfTest \/ turn # 2
  BY <1>3, <1>5, <1>6, Zenon
<1>9. DriverFeatures(Cur) \subseteq Features
  BY <1>1, <1>2, <1>3, <1>4, <1>5, <1>6, <1>7 DEF DriverFeatures, Features
<1>10. (turn \in {1, 2} => Cur.shim = TRUE) /\ (turn \in 3 .. 5 => Cur.shim = FALSE)
  BY <1>1, <1>2, <1>3, <1>4, <1>5, <1>6, <1>7, Zenon
<1>11. IF Cur.shim THEN turn \in {1, 2} ELSE turn \in 3 .. 5
  BY <1>1, <1>10
<1> QED BY <1>1, <1>2, <1>3, <1>4, <1>5, <1>6, <1>7, <1>8, <1>9, <1>10, <1>11

(* Where the driver is, there is a device.                                  *)
LEMMA Somewhere ==
  ASSUME BusInv, stage \notin {"count", "look"}
  PROVE  /\ spot # None /\ spot \in DOMAIN bus /\ Now \in Registers /\ Now = dev[spot]
         /\ vdev[spot] \in SUBSET Features /\ holder[spot] = 0
         /\ Now.master /\ Now.accepted \subseteq Here.offers /\ Here = bus[spot]
         /\ (\A e \in Now.active : Fit(Here, e)) /\ q \in Nat
BY Zenon DEF BusInv, Stages, BusTypes, Underway, Fits, Now, Here

(* None is not a place on the bus.                                          *)
LEMMA Nowhere == BusInv => None \notin DOMAIN bus
BY BusAssumption, SlotsAssumption, Zenon DEF BusInv, BusTypes

(* The self-test counts the devices.                                        *)
LEMMA SelfTestCountInv == BusInv /\ SelfTestCount => BusInv'
<1> SUFFICES ASSUME BusInv, SelfTestCount PROVE BusInv'
  BY Zenon
<1>1. CASE Panic
  BY <1>1, BusStays, Zenon DEF SelfTestCount, Panic
<1>2. CASE Move("look")
  <2>1. turn = 1 /\ spot = None /\ q = 1
    BY DEF SelfTestCount, At, BusInv, Stages, BusTypes, Opening, Answering
  <2>2. /\ UNCHANGED <<bus, turn, todo, dev, vdev, holder>>
        /\ spot' = None /\ stage' = "look" /\ q' = 1
    BY <1>2, <2>1, Zenon DEF SelfTestCount, Move
  <2> QED BY <2>1, <2>2, Nowhere, AtNone, Zenon DEF BusInv, BusTypes
<1> QED BY <1>1, <1>2, Zenon DEF SelfTestCount
(* A driver comes to a device that nobody keeps, and resets it.             *)
LEMMA AtNew ==
  ASSUME BusInv, turn \in 1 .. 5, spot = None, stage = "look",
         NEW p \in DOMAIN bus, holder[p] = 0, NEW r \in Registers,
         r.status = 1, r.accepted = {}, r.active = {}, r.master,
         dev' = [dev EXCEPT ![p] = r], spot' = p, stage' = "ack",
         UNCHANGED <<bus, turn, q, vdev, holder>>,
         todo' = todo \/ todo' = todo \ {p},
         turn = 2 => p \notin todo', turn # 1 => bus[p].kind = Cur.name
  PROVE  BusInv'
<1> USE DEF BusInv
<1>1. dev'[p] = r /\ \A s \in DOMAIN bus \ {p} : dev'[s] = dev[s]
  BY Zenon DEF BusTypes
<1>2. BusTypes'
  BY Zenon DEF BusTypes
<1>3. Stages'
  <2>1. p # None
    BY Nowhere, Zenon
  <2> QED BY <2>1 DEF Stages, Opening, Answering
<1>4. Resting'
  <2> SUFFICES ASSUME NEW s \in DOMAIN bus, s # p PROVE (holder'[s] = 0 /\ Clean(s)') \/ Kept(s)'
    BY Zenon DEF Resting
  <2> QED BY <1>1, Nowhere, Rests, Zenon
<1>5. Underway'
  <2>1. Cur' = Cur
    BY Zenon DEF Cur
  <2> QED BY <1>1, <2>1, Zenon DEF Underway, Opening, Answering
<1>6. Fits'
  BY <1>1, Zenon DEF Fits
<1>7. Mastered'
  <2>1. VirtioFunctions(bus) \subseteq DOMAIN bus
    BY Zenon DEF VirtioFunctions, Scanned, Visited
  <2> QED BY <1>1, <2>1, Zenon DEF Mastered
<1> QED BY <1>2, <1>3, <1>4, <1>5, <1>6, <1>7, Zenon

(* A device of the kind of the driver whose turn it is has no driver yet.   *)
LEMMA NotKeptYet ==
  ASSUME BusInv, turn \in 1 .. 5, spot = None, NEW p \in DOMAIN bus,
         turn # 1 => bus[p].kind = Cur.name, turn = 2 => p \in todo
  PROVE  holder[p] = 0
<1> SUFFICES ASSUME Kept(p) PROVE FALSE
  BY Nowhere, Zenon DEF BusInv, Resting
<1>1. holder[p] \in 1 .. 5 /\ holder[p] <= turn
  BY DEF BusInv, BusTypes, Kept
<1>2. turn # 1 => holder[p] = turn
  BY <1>1, Roster, Zenon DEF Kept, Cur
<1> QED BY <1>1, <1>2 DEF Kept

(* The reset of register_virtio_driver, and of init_transport.              *)
LEMMA ResetMaster ==
  ASSUME NEW r \in Registers
  PROVE  LET m == [ResetRegs(r) EXCEPT !.master = TRUE]
         IN  m \in Registers /\ m.status = 1 /\ m.accepted = {} /\ m.active = {} /\ m.master
<1> DEFINE u == ResetRegs(r)
<1>1. u \in Registers /\ u.status = 1 /\ u.accepted = {} /\ u.active = {}
  BY ResetRegisters, Zenon
<1> HIDE DEF u
<1>2. LET m == [u EXCEPT !.master = TRUE]
      IN  m \in Registers /\ m.status = 1 /\ m.accepted = {} /\ m.active = {} /\ m.master
  BY <1>1, Zenon DEF Registers
<1> QED BY <1>2, Zenon DEF u

(* register_virtio_driver at a function.                                    *)
LEMMA VisitInv == BusInv /\ Visit => BusInv'
<1> SUFFICES ASSUME BusInv, Visit PROVE BusInv'
  BY Zenon
<1> USE DEF BusInv
<1>1. turn \in {1, 2} /\ turn \in 1 .. 5 /\ spot = None /\ stage = "look"
  <2>1. Boots /\ stage = "look" /\ Cur.shim
    BY Zenon DEF Visit, At
  <2> QED BY <2>1, Turns, Zenon DEF Stages
<1>2. PICK p \in todo :
         /\ todo' = todo \ {p}
         /\ IF MatchIdTable(Cur, bus[p]) /\ TryResolve(bus[p])
            THEN /\ spot' = p /\ stage' = "ack"
                 /\ dev' = [dev EXCEPT ![p] = [ResetRegs(@) EXCEPT !.master = TRUE]]
            ELSE UNCHANGED <<spot, stage, dev>>
  BY Zenon DEF Visit
<1>3. UNCHANGED <<bus, turn, q, vdev, holder>>
  BY Zenon DEF Visit
<1>4. VirtioFunctions(bus) \subseteq DOMAIN bus /\ p \in VirtioFunctions(bus)
  BY Zenon DEF VirtioFunctions, Scanned, Visited, BusTypes
<1>5. CASE MatchIdTable(Cur, bus[p]) /\ TryResolve(bus[p])
  <2>1. turn = 2 => bus[p].kind = Cur.name
    <3> SUFFICES ASSUME turn = 2 PROVE bus[p].kind = Cur.name
      BY Zenon
    <3>1. Cur.ids = {5} /\ Cur.name = "balloon"
      BY Turns, Zenon DEF Visit, At
    <3> QED BY <1>4, <1>5, <3>1, BusAssumption, Zenon DEF MatchIdTable, BusTypes
  <2>2. holder[p] = 0
    BY <1>1, <1>4, <2>1, NotKeptYet, Zenon
  <2> DEFINE r == [ResetRegs(dev[p]) EXCEPT !.master = TRUE]
  <2>3. dev[p] \in Registers
    BY <1>4, Zenon DEF BusTypes
  <2>4. r \in Registers /\ r.status = 1 /\ r.accepted = {} /\ r.active = {} /\ r.master
    BY <2>3, ResetMaster, Zenon
  <2>5. dev' = [dev EXCEPT ![p] = r] /\ spot' = p /\ stage' = "ack"
    BY <1>2, <1>5, Zenon
  <2> HIDE DEF r
  <2>6. p \notin todo'
    BY <1>2, Zenon
  <2> QED BY <1>1, <1>2, <1>3, <1>4, <2>1, <2>2, <2>4, <2>5, <2>6, AtNew, Zenon
<1>6. CASE ~(MatchIdTable(Cur, bus[p]) /\ TryResolve(bus[p]))
  <2>1. UNCHANGED <<bus, turn, q, vdev, holder, spot, stage, dev>> /\ todo' \subseteq todo
    BY <1>2, <1>3, <1>6, Zenon
  <2>2. turn = 1 => ~TryResolve(bus[p])
    BY <1>6, Turns, Zenon DEF MatchIdTable, Visit, At
  <2>3. BusTypes' /\ Stages' /\ Underway' /\ Fits'
    BY <1>1, <2>1, Zenon DEF BusTypes, Stages, Underway, Fits
  <2>4. Resting'
    BY <1>1, <2>1, Rests, Nowhere, Zenon DEF Resting
  <2>5. Mastered'
    BY <1>2, <2>1, <2>2, Zenon DEF Mastered
  <2> QED BY <2>3, <2>4, <2>5, Zenon
<1> QED BY <1>5, <1>6, Zenon
(* The next driver's turn.                                                  *)
LEMMA NextTurnInv ==
  ASSUME BusInv, Boots, stage = "look", NextTurn, turn = 1 => todo = {},
         UNCHANGED <<dev, vdev, holder>>
  PROVE  BusInv'
<1>1. spot = None /\ turn \in 1 .. 5
  BY Turns, Zenon DEF BusInv, Stages
<1>2. /\ bus' = bus /\ spot' = None /\ stage' = "look" /\ q' = 1
      /\ turn' = turn + 1 /\ todo' = VirtioFunctions(bus)
  BY Zenon DEF NextTurn
<1> QED BY <1>1, <1>2, Nowhere, AtNone, Zenon DEF BusInv, BusTypes

(* The end of register_virtio_driver.                                       *)
LEMMA RegisteredInv == BusInv /\ Registered => BusInv'
<1> SUFFICES ASSUME BusInv, Registered PROVE BusInv'
  BY Zenon
<1>1. Boots /\ stage = "look" /\ todo = {} /\ UNCHANGED <<dev, vdev, holder>>
  BY Zenon DEF Registered, At
<1>2. CASE Panic
  BY <1>1, <1>2, BusStays, Zenon DEF Panic
<1>3. CASE NextTurn
  BY <1>1, <1>3, NextTurnInv, Zenon
<1> QED BY <1>2, <1>3, Zenon DEF Registered

(* find_device and the reset of init_transport.                             *)
LEMMA FindDeviceInv == BusInv /\ FindDevice => BusInv'
<1> SUFFICES ASSUME BusInv, FindDevice PROVE BusInv'
  BY Zenon
<1> USE DEF BusInv
<1> DEFINE found == {p \in Visited(bus) : bus[p].pci \in {Cur.pci} /\ TryResolve(bus[p])}
<1>1. Boots /\ stage = "look" /\ ~Cur.shim /\ UNCHANGED <<vdev, holder>>
  BY Zenon DEF FindDevice, FindDeviceWith, At
<1>2. turn \in 3 .. 5 /\ turn \in 1 .. 5 /\ spot = None /\ Cur \in {Blk, Gpu, Net}
  BY <1>1, Turns, Zenon DEF Stages
<1>3. CASE found = {}
  <2>1. Panic \/ NextTurn
    BY <1>3, Zenon DEF FindDevice, FindDeviceWith
  <2>2. UNCHANGED dev
    BY <1>3, Zenon DEF FindDevice, FindDeviceWith
  <2>3. CASE Panic
    BY <1>1, <2>2, <2>3, BusStays, Zenon DEF Panic
  <2>4. CASE NextTurn
    BY <1>1, <1>2, <2>2, <2>4, NextTurnInv
  <2> QED BY <2>1, <2>3, <2>4, Zenon
<1>4. CASE found # {}
  <2>1. PICK p \in found : /\ spot' = p /\ stage' = "ack"
                           /\ dev' = [dev EXCEPT ![p] = ResetRegs(@)]
                           /\ UNCHANGED <<bus, turn, todo, q>>
    BY <1>4, Zenon DEF FindDevice, FindDeviceWith
  <2>2. p \in DOMAIN bus /\ bus[p].pci = Cur.pci /\ TryResolve(bus[p])
    BY Zenon DEF Visited
  <2>3. p \in VirtioFunctions(bus)
    BY <2>2, BusAssumption, Zenon DEF VirtioFunctions, Scanned, BusTypes
  <2>4. bus[p].kind = Cur.name
    BY <1>2, <2>2, BusAssumption DEF BusTypes
  <2>5. holder[p] = 0
    BY <1>2, <2>2, <2>4, NotKeptYet
  <2>6. dev[p] \in Registers /\ dev[p].master
    BY <1>2, <2>2, <2>3 DEF BusTypes, Mastered
  <2> DEFINE r == ResetRegs(dev[p])
  <2>7. r \in Registers /\ r.status = 1 /\ r.accepted = {} /\ r.active = {} /\ r.master
    BY <2>6, ResetRegisters, Zenon
  <2>8. dev' = [dev EXCEPT ![p] = r]
    BY <2>1, Zenon
  <2>9. /\ UNCHANGED <<bus, turn, q, vdev, holder>> /\ todo' = todo /\ turn # 2
        /\ spot' = p /\ stage' = "ack"
    BY <1>1, <1>2, <2>1
  <2> HIDE DEF r, found
  <2> QED BY <1>1, <1>2, <2>2, <2>4, <2>5, <2>7, <2>8, <2>9, AtNew, Zenon
<1> QED BY <1>3, <1>4, Zenon
(* ACKNOWLEDGE and DRIVER.                                                  *)
LEMMA HandshakeInv == BusInv /\ Handshake => BusInv'
<1> SUFFICES ASSUME BusInv, Handshake PROVE BusInv'
  BY Zenon
<1>1. Boots /\ stage \in {"ack", "driver"}
  BY Zenon DEF Handshake, At
<1>2. Now \in Registers /\ Now = dev[spot] /\ spot # None
  BY <1>1, Somewhere, Zenon
<1>9. /\ vdev[spot] \in SUBSET Features /\ q \in Nat /\ holder[spot] = 0
      /\ Now.master /\ Now.accepted \subseteq bus[spot].offers
      /\ \A e \in Now.active : Fit(bus[spot], e)
  BY <1>1, Somewhere, Zenon
<1> DEFINE r == [Now EXCEPT !.status = @ + 1]
<1>3. /\ r \in Registers /\ r.status = Now.status + 1 /\ r.accepted = Now.accepted
      /\ r.active = Now.active /\ r.master = Now.master
  BY <1>2 DEF Registers
<1>4. /\ dev' = [dev EXCEPT ![spot] = r] /\ UNCHANGED <<bus, turn, spot, todo, q, vdev, holder>>
      /\ stage' = IF stage = "ack" THEN "driver" ELSE "features"
  BY Zenon DEF Handshake, Regs, Move
<1> HIDE DEF r
<1>5. vdev' = [vdev EXCEPT ![spot] = vdev[spot]]
  BY <1>4, Zenon DEF BusInv, BusTypes
<1>6. BusTypes' /\ Resting' /\ Fits' /\ Mastered' /\ dev'[spot] = r
  <2>1. r.master /\ r.accepted \subseteq bus[spot].offers /\ \A e \in r.active : Fit(bus[spot], e)
    BY <1>3, <1>9, Zenon
  <2> QED BY <1>2, <1>3, <1>4, <1>5, <1>9, <2>1, AtDevice, Zenon
<1>7. Stages'
  BY <1>1, <1>4, Zenon DEF BusInv, Stages, Opening, Answering
<1>8. Underway'
  <2>1. Cur' = Cur
    BY <1>4, Zenon DEF Cur
  <2>2. r.status = IF stage = "ack" THEN 2 ELSE 3
    BY <1>1, <1>2, <1>3 DEF BusInv, Underway
  <2>3. (turn # 1 => bus[spot].kind = Cur.name) /\ (turn = 2 => spot \notin todo) /\ Now.active = {}
    BY <1>1, <1>2, Zenon DEF BusInv, Underway, Opening
  <2> QED BY <1>1, <1>3, <1>4, <1>6, <1>9, <2>1, <2>2, <2>3, Zenon DEF Underway, Opening, Answering
<1> QED BY <1>6, <1>7, <1>8, Zenon DEF BusInv

(* FEATURES_OK.                                                             *)
LEMMA NegotiateInv == BusInv /\ Negotiate => BusInv'
<1> SUFFICES ASSUME BusInv, Negotiate PROVE BusInv'
  BY Zenon
<1>1. Boots /\ stage = "features" /\ holder' = holder
  BY Zenon DEF Negotiate, At
<1>2. Now \in Registers /\ Now = dev[spot] /\ spot # None /\ Here = bus[spot]
  BY <1>1, Somewhere, Zenon
<1>3. CASE Panic /\ UNCHANGED <<dev, vdev>>
  BY <1>1, <1>3, BusStays, Zenon DEF Panic
<1>4. CASE /\ Written(Cur, Here) \subseteq Here.offers
           /\ Regs([Now EXCEPT !.status = @ + 1, !.accepted = Written(Cur, Here)])
           /\ vdev' = [vdev EXCEPT ![spot] = IF Cur.shim THEN Intersected(Cur, Here) ELSE {}]
           /\ Move(IF Cur.changed THEN "wire" ELSE IF Cur.shim THEN "validate" ELSE "queue")
  <2> DEFINE w == Written(Cur, Here)
             v == IF Cur.shim THEN Intersected(Cur, Here) ELSE {}
             u == [Now EXCEPT !.status = @ + 1]
             r == [Now EXCEPT !.status = @ + 1, !.accepted = w]
  <2>1. w \in SUBSET Features /\ v \in SUBSET Features /\ v \subseteq w
    BY <1>1, Turns, Zenon DEF Written, Intersected
  <2>2. w \subseteq bus[spot].offers
    BY <1>2, <1>4, Zenon
  <2>3. dev' = [dev EXCEPT ![spot] = r] /\ vdev' = [vdev EXCEPT ![spot] = v]
    BY <1>4, Zenon DEF Regs
  <2> HIDE DEF w, v
  <2>0. r = [u EXCEPT !.accepted = w]
    BY Zenon
  <2> HIDE DEF r
  <2>16. /\ u \in Registers /\ u.status = Now.status + 1
         /\ u.active = Now.active /\ u.master = Now.master
    BY <1>2 DEF Registers
  <2> HIDE DEF u
  <2>4. /\ r \in Registers /\ r.status = Now.status + 1 /\ r.accepted = w
        /\ r.active = Now.active /\ r.master = Now.master
    BY <2>0, <2>1, <2>16, Zenon DEF Registers
  <2>5. /\ UNCHANGED <<bus, turn, spot, todo, q, holder>>
        /\ stage' = IF Cur.changed THEN "wire" ELSE IF Cur.shim THEN "validate" ELSE "queue"
    BY <1>1, <1>4, Zenon DEF Move
  <2>6. BusTypes' /\ Resting' /\ Fits' /\ Mastered' /\ dev'[spot] = r /\ vdev'[spot] = v
    BY <1>1, <1>2, <2>1, <2>2, <2>3, <2>4, <2>5, AtDevice, Somewhere, Zenon
  <2>7. /\ turn = 1 => stage' = "validate"
        /\ turn = 2 => stage' = "wire"
        /\ turn \in 3 .. 5 => stage' = "queue"
        /\ turn \in 1 .. 5
    BY <1>1, <2>5, Turns, Zenon
  <2>8. Now.status = 3 /\ Now.active = {} /\ q = 1 /\ Now.master
    BY <1>1, <1>2, Zenon DEF BusInv, Underway, Opening, Answering, Stages
  <2>9. Stages'
    BY <1>1, <2>5, <2>7, <2>8, Zenon DEF BusInv, Stages, Opening, Answering
  <2>10. Cur' = Cur
    BY <2>5, Zenon DEF Cur
  <2>11. stage' = "queue" => /\ q' \in 1 .. IF Cur'.shim THEN Len(Cur'.queues) + 1 ELSE Cur'.queues + 1
                             /\ Indices(spot)' = QueuesOf(Cur, spot)' \cap (1 .. q' - 1)
    <3> SUFFICES ASSUME stage' = "queue" PROVE turn \in 3 .. 5 /\ 1 \in 1 .. Cur.queues + 1 /\ Indices(spot)' = {}
      BY <1>1, <2>5, <2>8, <2>10, Turns
    <3>1. turn \in 3 .. 5
      BY <2>7
    <3> QED BY <1>1, <2>4, <2>5, <2>6, <2>8, <3>1, Turns DEF Indices, Firsts
  <2>12. holder'[spot] = 0 /\ (turn # 1 => bus[spot].kind = Cur.name) /\ (turn = 2 => spot \notin todo)
    BY <1>2, <2>5, Zenon DEF BusInv, Underway
  <2>13. r.status = 4 /\ r.master /\ r.active = {} /\ v \subseteq r.accepted
    BY <2>1, <2>4, <2>8
  <2>14. stage' \in {"wire", "validate", "queue"}
    BY <2>7
  <2>15. Underway'
    BY <2>5, <2>6, <2>10, <2>11, <2>12, <2>13, <2>14, Zenon DEF Underway, Opening, Answering
  <2> QED BY <2>6, <2>9, <2>15, Zenon DEF BusInv
<1> QED BY <1>3, <1>4, Zenon DEF Negotiate

(* A driver goes on at its device after the negotiation: it writes the      *)
(* registers and the virtio_device as its next stage demands.               *)
LEMMA GoesOn ==
  ASSUME BusInv, spot # None, NEW r \in Registers, NEW v \in SUBSET Features,
         UNCHANGED <<bus, turn, spot, todo, holder>>, q' \in Nat,
         dev' = [dev EXCEPT ![spot] = r], vdev' = [vdev EXCEPT ![spot] = v],
         r.master, r.accepted \subseteq bus[spot].offers, v \subseteq r.accepted,
         \A e \in r.active : Fit(bus[spot], e),
         Stages', stage' \notin Opening,
         stage' \in {"wire", "request", "validate", "probe", "queue"} => r.status = 4,
         stage' \in {"bound"} \cup Answering => r.status = 5,
         stage' = "request" => r.entry # None,
         stage' \in {"wire", "request", "validate", "probe"} => r.active = {},
         stage' = "queue" =>
            /\ q' \in 1 .. IF Cur.shim THEN Len(Cur.queues) + 1 ELSE Cur.queues + 1
            /\ Firsts(r.active) = Uses(Cur, v) \cap (1 .. q' - 1),
         stage' \in {"bound"} \cup Answering => Firsts(r.active) = Uses(Cur, v)
  PROVE  BusInv'
<1>1. BusTypes' /\ Resting' /\ Fits' /\ Mastered' /\ dev'[spot] = r /\ vdev'[spot] = v
  BY AtDevice, Zenon
<1>2. Cur' = Cur
  BY Zenon DEF Cur
<1>3. Indices(spot)' = Firsts(r.active) /\ QueuesOf(Cur, spot)' = Uses(Cur, v)
  BY <1>1, <1>2, Zenon DEF Indices, QueuesOf
<1>4. holder'[spot] = 0 /\ (turn # 1 => bus[spot].kind = Cur.name) /\ (turn = 2 => spot \notin todo)
  BY Zenon DEF BusInv, Underway
<1>5. Underway'
  BY <1>1, <1>2, <1>3, <1>4, Zenon DEF Underway, Opening
<1> QED BY <1>1, <1>5, Zenon DEF BusInv

(* A driver that declines leaves a clean device.                            *)
LEMMA DeclineInv ==
  ASSUME BusInv, Boots, stage \notin {"count", "look"}, Decline, holder' = holder,
         NEW v \in SUBSET Features, vdev' = [vdev EXCEPT ![spot] = v]
  PROVE  BusInv'
<1>1. /\ Now \in Registers /\ Now = dev[spot] /\ spot # None /\ spot \in DOMAIN bus
      /\ holder[spot] = 0 /\ Now.master
  BY Somewhere, Zenon
<1> DEFINE r == ResetRegs(Now)
<1>2. /\ r \in Registers /\ r.status = 1 /\ r.accepted = {} /\ r.active = {} /\ r.vector = FALSE
      /\ r.master
  BY <1>1, ResetRegisters, Zenon
<1>3. /\ dev' = [dev EXCEPT ![spot] = r] /\ bus' = bus /\ spot' = None /\ stage' = "look" /\ q' = 1
      /\ turn' = turn /\ todo' = todo
  BY Zenon DEF Decline, Leave, Regs
<1> HIDE DEF r
<1>4. /\ dev' \in [DOMAIN bus -> Registers] /\ vdev' \in [DOMAIN bus -> SUBSET Features]
      /\ holder' \in [DOMAIN bus -> 0 .. 5]
      /\ dev'[spot] = r
      /\ \A p \in DOMAIN bus \ {spot} :
            dev'[p] = dev[p] /\ vdev'[p] = vdev[p] /\ holder'[p] = holder[p]
  BY <1>1, <1>2, <1>3, Zenon DEF BusInv, BusTypes
<1>5. \A p \in DOMAIN bus : p = spot =>
            /\ dev'[p].master /\ dev'[p].accepted \subseteq bus[p].offers
            /\ \A e \in dev'[p].active : Fit(bus[p], e)
            /\ (holder'[p] = 0 /\ Clean(p)') \/ Kept(p)'
  BY <1>1, <1>2, <1>4, Zenon DEF Clean
<1>6. turn \in 1 .. 5
  BY Turns, Zenon
<1> QED BY <1>3, <1>4, <1>5, <1>6, AtNone, Zenon

(* The same, with the registers and the virtio_device as they were.         *)
LEMMA GoesOnUnchanged ==
  ASSUME BusInv, Boots, stage \notin {"count", "look"}, stage \notin Opening,
         UNCHANGED <<bus, turn, spot, todo, holder, dev, vdev>>, q' \in Nat,
         Stages', stage' \notin Opening,
         stage' \in {"wire", "request", "validate", "probe", "queue"} =>
            stage \in {"wire", "request", "validate", "probe", "queue"},
         stage' \in {"bound"} \cup Answering => stage \in {"bound"} \cup Answering,
         stage' = "request" => stage = "request",
         stage' \in {"wire", "request", "validate", "probe"} => Now.active = {},
         stage' = "queue" => q' = 1 /\ Now.active = {} /\ Cur = Balloon
  PROVE  BusInv'
<1>1. /\ Now \in Registers /\ Now = dev[spot] /\ spot # None /\ spot \in DOMAIN bus
      /\ vdev[spot] \in SUBSET Features
      /\ Now.master /\ Now.accepted \subseteq bus[spot].offers
      /\ \A e \in Now.active : Fit(bus[spot], e)
  BY Somewhere, Zenon
<1>2. dev' = [dev EXCEPT ![spot] = Now] /\ vdev' = [vdev EXCEPT ![spot] = vdev[spot]]
  BY <1>1, Zenon DEF BusInv, BusTypes
<1>3. /\ vdev[spot] \subseteq Now.accepted
      /\ stage \in {"wire", "request", "validate", "probe", "queue"} => Now.status = 4
      /\ stage \in {"bound"} \cup Answering =>
            Now.status = 5 /\ Firsts(Now.active) = Uses(Cur, vdev[spot])
      /\ stage = "request" => Now.entry # None
  BY <1>1, Zenon DEF BusInv, Underway, Indices, QueuesOf
<1>4. stage' = "queue" =>
            /\ q' \in 1 .. IF Cur.shim THEN Len(Cur.queues) + 1 ELSE Cur.queues + 1
            /\ Firsts(Now.active) = Uses(Cur, vdev[spot]) \cap (1 .. q' - 1)
  <2> SUFFICES ASSUME stage' = "queue"
               PROVE  /\ q' \in 1 .. IF Cur.shim THEN Len(Cur.queues) + 1 ELSE Cur.queues + 1
                      /\ Firsts(Now.active) = Uses(Cur, vdev[spot]) \cap (1 .. q' - 1)
    BY Zenon
  <2>1. q' = 1 /\ Now.active = {} /\ Cur.shim = TRUE /\ Len(Cur.queues) = 3
    BY DEF Balloon
  <2>2. 1 .. q' - 1 = {} /\ Firsts(Now.active) = {}
    BY <2>1 DEF Firsts
  <2>3. 1 \in 1 .. IF Cur.shim THEN Len(Cur.queues) + 1 ELSE Cur.queues + 1
    BY <2>1
  <2> QED BY <2>1, <2>2, <2>3, Zenon
<1> HIDE DEF Now
<1> QED BY <1>1, <1>2, <1>3, <1>4, GoesOn, Zenon

(* setup_config_changed_msix up to the vector.                              *)
LEMMA WireInv == BusInv /\ NEXT_SLOT \in Nat /\ Wire => BusInv'
<1> SUFFICES ASSUME BusInv, NEXT_SLOT \in Nat, Wire PROVE BusInv'
  BY Zenon
<1>1. Boots /\ stage = "wire" /\ stage \notin {"count", "look"} /\ stage \notin Opening
  BY Zenon DEF Wire, WireWith, At, Opening
<1>2. turn = 2 /\ q = 1
  BY <1>1, Turns, Zenon DEF BusInv, Stages, Opening, Answering
<1>3. /\ Now \in Registers /\ Now = dev[spot] /\ spot # None /\ spot \in DOMAIN bus
      /\ vdev[spot] \in SUBSET Features
      /\ Now.master /\ Now.accepted \subseteq bus[spot].offers
      /\ \A e \in Now.active : Fit(bus[spot], e)
  BY <1>1, Somewhere, Zenon
<1>4. Now.active = {} /\ Now.status = 4 /\ vdev[spot] \subseteq Now.accepted
  BY <1>1, <1>3, Zenon DEF BusInv, Underway, Opening
<1>5. UNCHANGED <<bus, turn, spot, todo, holder, q, vdev>> /\ stage' \in {"request", "validate"}
  BY Zenon DEF Wire, WireWith, Move
<1>6. Stages' /\ stage' \notin Opening
  BY <1>1, <1>2, <1>5, Zenon DEF BusInv, Stages, Opening, Answering
<1>7. CASE UNCHANGED dev /\ stage' = "validate"
  BY <1>1, <1>2, <1>4, <1>5, <1>6, <1>7, GoesOnUnchanged, Zenon DEF Answering
<1>8. CASE /\ NEXT_SLOT + 1 <= SLOT_COUNT
           /\ Regs([Now EXCEPT !.entry = NEXT_SLOT, !.msix = TRUE,
                               !.vector = TRUE /\ Here.msix = "ok"])
  <2> DEFINE ok == TRUE /\ Here.msix = "ok"
             r1 == [Now EXCEPT !.entry = NEXT_SLOT]
             r2 == [r1 EXCEPT !.msix = TRUE]
             r == [Now EXCEPT !.entry = NEXT_SLOT, !.msix = TRUE, !.vector = ok]
  <2>1. dev' = [dev EXCEPT ![spot] = r]
    BY <1>8, Zenon DEF Regs
  <2>2. r = [r2 EXCEPT !.vector = ok]
    BY Zenon
  <2>3. ok \in BOOLEAN
    BY Zenon
  <2> HIDE DEF r, ok
  <2>4. NEXT_SLOT \in Slots /\ NEXT_SLOT # None
    BY <1>8, BusAssumption, SlotsAssumption DEF Slots
  <2>5. /\ r1 \in Registers /\ r1.entry = NEXT_SLOT /\ r1.active = {} /\ r1.status = 4
        /\ r1.master = Now.master /\ r1.accepted = Now.accepted
    BY <1>3, <1>4, <2>4, Zenon DEF Registers
  <2> HIDE DEF r1
  <2>6. /\ r2 \in Registers /\ r2.entry = NEXT_SLOT /\ r2.active = {} /\ r2.status = 4
        /\ r2.master = Now.master /\ r2.accepted = Now.accepted
    BY <2>5, Zenon DEF Registers
  <2> HIDE DEF r2
  <2>7. /\ r \in Registers /\ r.entry = NEXT_SLOT /\ r.active = {} /\ r.status = 4
        /\ r.master = Now.master /\ r.accepted = Now.accepted
    BY <2>2, <2>3, <2>6, Zenon DEF Registers
  <2>8. vdev' = [vdev EXCEPT ![spot] = vdev[spot]]
    BY <1>5, Zenon DEF BusInv, BusTypes
  <2>9. /\ r.master /\ r.accepted \subseteq bus[spot].offers /\ vdev[spot] \subseteq r.accepted
        /\ (\A e \in r.active : Fit(bus[spot], e)) /\ r.entry # None /\ q' \in Nat
    BY <1>2, <1>3, <1>4, <1>5, <2>4, <2>7, Zenon
  <2> QED BY <1>3, <1>5, <1>6, <2>1, <2>7, <2>8, <2>9, GoesOn, Zenon DEF Answering
<1> QED
  <2>1. ~(NEXT_SLOT + 1 > SLOT_COUNT) => NEXT_SLOT + 1 <= SLOT_COUNT
    BY SlotsAssumption
  <2> QED BY <1>7, <1>8, <2>1, Zenon DEF Wire, WireWith, Move

(* The request_irq of setup_config_changed_msix.                            *)
LEMMA RequestConfigIrqInv == BusInv /\ RequestConfigIrq => BusInv'
<1> SUFFICES ASSUME BusInv, RequestConfigIrq PROVE BusInv'
  BY Zenon
<1>1. Boots /\ stage = "request" /\ stage \notin {"count", "look"} /\ stage \notin Opening
  BY Zenon DEF RequestConfigIrq, At, Opening
<1>2. turn = 2 /\ q = 1 /\ Now.active = {}
  BY <1>1, Turns, Zenon DEF BusInv, Stages, Underway, Opening, Answering, Now
<1>3. UNCHANGED <<bus, turn, spot, todo, holder, q, vdev, dev>> /\ stage' = "validate"
  BY Zenon DEF RequestConfigIrq, Move
<1>4. Stages' /\ stage' \notin Opening
  BY <1>1, <1>2, <1>3, Zenon DEF BusInv, Stages, Opening, Answering
<1> QED BY <1>1, <1>2, <1>3, <1>4, GoesOnUnchanged, Zenon DEF Answering

(* validate.                                                                *)
LEMMA ValidateInv == BusInv /\ Validate => BusInv'
<1> SUFFICES ASSUME BusInv, Validate PROVE BusInv'
  BY Zenon
<1> DEFINE v == vdev[spot] \ Cur.clears
<1>1. Boots /\ stage = "validate" /\ stage \notin {"count", "look"} /\ holder' = holder
  BY Zenon DEF Validate, At
<1>2. turn \in {1, 2} /\ q = 1
  BY <1>1, Turns, Zenon DEF BusInv, Stages, Opening, Answering
<1>3. /\ Now \in Registers /\ Now = dev[spot] /\ spot # None /\ spot \in DOMAIN bus
      /\ vdev[spot] \in SUBSET Features
      /\ Now.master /\ Now.accepted \subseteq bus[spot].offers
      /\ \A e \in Now.active : Fit(bus[spot], e)
  BY <1>1, Somewhere, Zenon
<1>4. Now.active = {} /\ Now.status = 4 /\ vdev[spot] \subseteq Now.accepted
  BY <1>1, <1>3, Zenon DEF BusInv, Underway, Opening
<1>5. v \in SUBSET Features /\ v \subseteq Now.accepted
  BY <1>3, <1>4, Zenon
<1>6. vdev' = [vdev EXCEPT ![spot] = v]
  BY Zenon DEF Validate
<1> HIDE DEF v
<1>7. CASE Decline
  BY <1>1, <1>5, <1>6, <1>7, DeclineInv, Zenon
<1>8. CASE Move("probe") /\ UNCHANGED dev
  <2>1. UNCHANGED <<bus, turn, spot, todo, holder>> /\ stage' = "probe" /\ q' \in Nat /\ q' = 1
    BY <1>1, <1>2, <1>8, Zenon DEF Move
  <2>2. Stages' /\ stage' \notin Opening
    BY <1>1, <1>2, <2>1, Zenon DEF BusInv, Stages, Opening, Answering
  <2>3. dev' = [dev EXCEPT ![spot] = Now]
    BY <1>3, <1>8, Zenon DEF BusInv, BusTypes
  <2> HIDE DEF Now
  <2> QED BY <1>3, <1>4, <1>5, <1>6, <2>1, <2>2, <2>3, GoesOn, Zenon DEF Answering
<1> QED BY <1>7, <1>8, Zenon DEF Validate

(* probe, up to virtio_find_vqs.                                            *)
LEMMA ProbeInv == BusInv /\ Probe => BusInv'
<1> SUFFICES ASSUME BusInv, Probe PROVE BusInv'
  BY Zenon
<1>1. /\ Boots /\ stage = "probe" /\ stage \notin {"count", "look"} /\ stage \notin Opening
      /\ UNCHANGED <<holder, vdev>>
  BY Zenon DEF Probe, At, Opening
<1>2. turn \in {1, 2} /\ q = 1 /\ Now.active = {}
  BY <1>1, Turns, Zenon DEF BusInv, Stages, Underway, Opening, Answering, Now
<1>3. CASE Decline
  <2>1. vdev[spot] \in SUBSET Features
    BY <1>1, Somewhere, Zenon
  <2>2. vdev' = [vdev EXCEPT ![spot] = vdev[spot]]
    BY <1>1, Somewhere, Zenon DEF BusInv, BusTypes
  <2> QED BY <1>1, <1>3, <2>1, <2>2, DeclineInv, Zenon
<1>4. CASE Cur.binds /\ Move("queue") /\ UNCHANGED dev
  <2>1. turn = 2 /\ Cur = Balloon
    BY <1>1, <1>2, <1>4, Turns, Zenon
  <2>2. UNCHANGED <<bus, turn, spot, todo, holder, dev, vdev>> /\ stage' = "queue" /\ q' = 1
    BY <1>1, <1>2, <1>4, Zenon DEF Move
  <2>3. Stages' /\ stage' \notin Opening
    BY <1>1, <2>1, <2>2, Zenon DEF BusInv, Stages, Opening, Answering
  <2> QED BY <1>1, <1>2, <2>1, <2>2, <2>3, GoesOnUnchanged, Zenon DEF Answering
<1> QED BY <1>3, <1>4, Zenon DEF Probe

(* A queue set-up adds the index of the queue.                              *)
LEMMA MoreQueues ==
  ASSUME NEW i \in Nat \ {0}, NEW n \in Nat, NEW U, NEW A, NEW B,
         Firsts(A) = U \cap (1 .. i - 1), i \in U, B = A \cup {<<i, n>>}
  PROVE  Firsts(B) = U \cap (1 .. i)
<1>1. Firsts(B) = Firsts(A) \cup {i}
  <2> DEFINE x == <<i, n>>
  <2>1. B = A \cup {x} /\ x[1] = i
    BY Zenon
  <2> HIDE DEF x
  <2> QED BY <2>1, Zenon DEF Firsts
<1>2. U \cap (1 .. i) = (U \cap (1 .. i - 1)) \cup {i}
  OBVIOUS
<1> QED BY <1>1, <1>2, Zenon

(* A device's limit on a queue is a number.                                 *)
LEMMA QueueLimits ==
  ASSUME BusInv, NEW p \in DOMAIN bus, NEW i PROVE QueueMax(bus[p], i) \in Nat
<1>1. bus[p].qmax \in Seq(Nat)
  BY BusAssumption, Zenon DEF BusInv, BusTypes
<1> QED BY <1>1 DEF QueueMax

(* What holds while a driver sets up its queues.                            *)
LEMMA AtQueue ==
  ASSUME BusInv, Boots, stage = "queue"
  PROVE  /\ stage \notin {"count", "look"} /\ stage \notin Opening
         /\ Now \in Registers /\ Now = dev[spot] /\ spot # None /\ spot \in DOMAIN bus
         /\ Here = bus[spot] /\ vdev[spot] \in SUBSET Features
         /\ Now.master /\ Now.accepted \subseteq bus[spot].offers
         /\ (\A e \in Now.active : Fit(bus[spot], e))
         /\ Now.status = 4 /\ vdev[spot] \subseteq Now.accepted
         /\ q \in 1 .. IF Cur.shim THEN Len(Cur.queues) + 1 ELSE Cur.queues + 1
         /\ Firsts(Now.active) = Uses(Cur, vdev[spot]) \cap (1 .. q - 1)
         /\ turn = 2 \/ turn \in 3 .. 5
         /\ IF Cur.shim THEN turn = 2 /\ Cur = Balloon ELSE turn \in 3 .. 5
<1>1. stage \notin {"count", "look"} /\ stage \notin Opening
  BY Zenon DEF Opening
<1>2. /\ Now \in Registers /\ Now = dev[spot] /\ spot # None /\ spot \in DOMAIN bus
      /\ Here = bus[spot] /\ vdev[spot] \in SUBSET Features
      /\ Now.master /\ Now.accepted \subseteq bus[spot].offers
      /\ (\A e \in Now.active : Fit(bus[spot], e))
  BY <1>1, Somewhere, Zenon
<1>3. /\ Now.status = 4 /\ vdev[spot] \subseteq Now.accepted
      /\ q \in 1 .. IF Cur.shim THEN Len(Cur.queues) + 1 ELSE Cur.queues + 1
      /\ Firsts(Now.active) = Uses(Cur, vdev[spot]) \cap (1 .. q - 1)
  BY <1>1, <1>2, Zenon DEF BusInv, Underway, Indices, QueuesOf
<1>4. turn # 1
  BY Zenon DEF BusInv, Stages, Opening
<1>5. turn = 2 \/ turn \in 3 .. 5
  BY <1>4, Turns, Zenon
<1>6. IF Cur.shim THEN turn = 2 /\ Cur = Balloon ELSE turn \in 3 .. 5
  BY <1>4, Turns, Zenon
<1> QED BY <1>1, <1>2, <1>3, <1>5, <1>6, Zenon

(* One round of virtio_find_vqs.                                            *)
LEMMA FindVqsInv == BusInv /\ FindVqs => BusInv'
<1> SUFFICES ASSUME BusInv, FindVqs PROVE BusInv'
  BY Zenon
<1>1. Boots /\ stage = "queue" /\ Cur.shim /\ q <= Len(Cur.queues) /\ UNCHANGED <<vdev, holder>>
  BY Zenon DEF FindVqs, At
<1> DEFINE size == Pow2AtMost(QueueMax(Here, q))
           named == Cur.queues[q] \in vdev[spot]
           U == Uses(Cur, vdev[spot])
<1>2. /\ stage \notin {"count", "look"} /\ stage \notin Opening
      /\ Now \in Registers /\ Now = dev[spot] /\ spot # None /\ spot \in DOMAIN bus
      /\ Here = bus[spot] /\ vdev[spot] \in SUBSET Features
      /\ Now.master /\ Now.accepted \subseteq bus[spot].offers
      /\ (\A e \in Now.active : Fit(bus[spot], e))
      /\ Now.status = 4 /\ vdev[spot] \subseteq Now.accepted
  BY <1>1, AtQueue, Zenon
<1>3. /\ Firsts(Now.active) = U \cap (1 .. q - 1)
      /\ turn = 2 /\ Cur = Balloon
  BY <1>1, AtQueue, Zenon
<1>4. Len(Cur.queues) = 3 /\ DOMAIN Cur.queues = 1 .. 3 /\ Cur.shim = TRUE
  BY <1>3 DEF Balloon
<1>5. q \in 1 .. 3 /\ q \in Nat \ {0}
  BY <1>1, <1>4, AtQueue
<1>6. q \in U <=> named
  BY <1>4, <1>5, Zenon DEF Uses
<1>7. vdev' = [vdev EXCEPT ![spot] = vdev[spot]]
  BY <1>1, <1>2, Zenon DEF BusInv, BusTypes
<1>8. CASE Decline
  BY <1>1, <1>2, <1>7, <1>8, DeclineInv, Zenon
<1>9. CASE /\ ~(named /\ size = 0) /\ q' = q + 1
           /\ IF named THEN Regs([Now EXCEPT !.active = @ \cup {<<q, size>>}]) ELSE UNCHANGED dev
           /\ UNCHANGED <<bus, turn, spot, todo, stage, REGISTRY>>
  <2>1. UNCHANGED <<bus, turn, spot, todo, holder>> /\ stage' = "queue" /\ q' = q + 1 /\ q' \in Nat
    BY <1>1, <1>5, <1>9
  <2>2. Stages' /\ stage' \notin Opening
    BY <1>1, <1>2, <1>3, <2>1, Zenon DEF BusInv, Stages, Opening
  <2>3. q' \in 1 .. IF Cur.shim THEN Len(Cur.queues) + 1 ELSE Cur.queues + 1
    BY <1>4, <1>5, <2>1
  <2>4. CASE named
    <3> DEFINE r == [Now EXCEPT !.active = @ \cup {<<q, size>>}]
    <3>1. dev' = [dev EXCEPT ![spot] = r] /\ size # 0
      BY <1>9, <2>4, Zenon DEF Regs
    <3>2. QueueMax(Here, q) \in Nat
      BY <1>2, QueueLimits, Zenon
    <3>3. QueueMax(Here, q) # 0
      BY <3>1, Zenon DEF Pow2AtMost, Pow2Capped
    <3>4. size \in Nat /\ size <= QueueMax(Here, q) /\ size \in Powers /\ RingBytes(size) <= 4096
      BY <3>2, <3>3, Sizes
    <3> HIDE DEF size, U
    <3> DEFINE A == Now.active \cup {<<q, size>>}
    <3>12. A \in SUBSET (Nat \X Nat)
      BY <1>2, <1>5, <3>4 DEF Registers
    <3>5. /\ r \in Registers /\ r.active = Now.active \cup {<<q, size>>} /\ r.status = Now.status
          /\ r.master = Now.master /\ r.accepted = Now.accepted
      <4>1. r = [Now EXCEPT !.active = A]
        BY Zenon
      <4> HIDE DEF A, r
      <4>2. /\ r \in Registers /\ r.active = A /\ r.status = Now.status
            /\ r.master = Now.master /\ r.accepted = Now.accepted
        BY <1>2, <3>12, <4>1, Zenon DEF Registers
      <4> QED BY <4>2, Zenon DEF A
    <3> HIDE DEF r
    <3>6. Firsts(r.active) = U \cap (1 .. q)
      BY <1>3, <1>5, <1>6, <2>4, <3>4, <3>5, MoreQueues
    <3>7. Fit(bus[spot], <<q, size>>)
      BY <1>2, <3>4 DEF Fit
    <3>8. \A e \in r.active : Fit(bus[spot], e)
      BY <1>2, <3>5, <3>7, Zenon
    <3>9. q' - 1 = q /\ U = Uses(Cur, vdev[spot])
      BY <1>5, <2>1 DEF U
    <3>10. Firsts(r.active) = Uses(Cur, vdev[spot]) \cap (1 .. q' - 1)
      BY <3>6, <3>9, Zenon
    <3>11. r.master /\ r.accepted \subseteq bus[spot].offers /\ vdev[spot] \subseteq r.accepted /\ r.status = 4
      BY <1>2, <3>5, Zenon
    <3> QED BY <1>2, <1>7, <2>1, <2>2, <2>3, <3>1, <3>5, <3>8, <3>10, <3>11, GoesOn, Zenon DEF Answering
  <2>5. CASE ~named
    <3>1. dev' = [dev EXCEPT ![spot] = Now]
      BY <1>2, <1>9, <2>5, Zenon DEF BusInv, BusTypes
    <3>2. Firsts(Now.active) = U \cap (1 .. q' - 1)
      <4>1. q \notin U
        BY <1>6, <2>5, Zenon
      <4> HIDE DEF U
      <4>2. U \cap (1 .. q - 1) = U \cap (1 .. q)
        BY <1>5, <4>1
      <4>3. q' - 1 = q
        BY <1>5, <2>1
      <4> QED BY <1>3, <4>2, <4>3, Zenon
    <3> HIDE DEF Now
    <3> QED BY <1>2, <1>7, <2>1, <2>2, <2>3, <3>1, <3>2, GoesOn, Zenon DEF Answering
  <2> QED BY <2>4, <2>5, Zenon
<1> QED BY <1>8, <1>9, Zenon DEF FindVqs

(* DRIVER_OK, with the queues the driver uses.                              *)
LEMMA GoesLive ==
  ASSUME BusInv, Boots, stage = "queue", UNCHANGED <<bus, turn, spot, todo, holder, vdev>>,
         q' \in Nat, Regs([Now EXCEPT !.status = 5]), Stages', stage' \in {"bound"} \cup Answering,
         Firsts(Now.active) = Uses(Cur, vdev[spot])
  PROVE  BusInv'
<1>1. /\ Now \in Registers /\ Now = dev[spot] /\ spot # None /\ spot \in DOMAIN bus
      /\ vdev[spot] \in SUBSET Features
      /\ Now.master /\ Now.accepted \subseteq bus[spot].offers
      /\ (\A e \in Now.active : Fit(bus[spot], e))
      /\ vdev[spot] \subseteq Now.accepted
  BY AtQueue, Zenon
<1> DEFINE r == [Now EXCEPT !.status = 5]
<1>2. /\ r \in Registers /\ r.status = 5 /\ r.accepted = Now.accepted
      /\ r.active = Now.active /\ r.master = Now.master
  BY <1>1, Zenon DEF Registers
<1>3. dev' = [dev EXCEPT ![spot] = r]
  BY Zenon DEF Regs
<1> HIDE DEF r
<1>4. vdev' = [vdev EXCEPT ![spot] = vdev[spot]]
  BY <1>1, Zenon DEF BusInv, BusTypes
<1>5. /\ r.master /\ r.accepted \subseteq bus[spot].offers /\ vdev[spot] \subseteq r.accepted
      /\ (\A e \in r.active : Fit(bus[spot], e)) /\ Firsts(r.active) = Uses(Cur, vdev[spot])
  BY <1>1, <1>2, Zenon
<1>6. stage' \notin Opening /\ stage' \notin {"wire", "request", "validate", "probe", "queue"}
  BY Zenon DEF Opening, Answering
<1> QED BY <1>1, <1>2, <1>3, <1>4, <1>5, <1>6, GoesOn, Zenon

(* virtio_device_ready.                                                     *)
LEMMA DeviceReadyInv == BusInv /\ DeviceReady => BusInv'
<1> SUFFICES ASSUME BusInv, DeviceReady PROVE BusInv'
  BY Zenon
<1>1. /\ Boots /\ stage = "queue" /\ Cur.shim /\ q > Len(Cur.queues)
      /\ Regs([Now EXCEPT !.status = 5]) /\ stage' = "bound"
      /\ UNCHANGED <<bus, turn, spot, todo, holder, vdev, q>>
  BY Zenon DEF DeviceReady, At, Move
<1>2. turn = 2 /\ Cur = Balloon
  BY <1>1, AtQueue, Zenon
<1>3. Len(Cur.queues) = 3 /\ DOMAIN Cur.queues = 1 .. 3 /\ Cur.shim = TRUE
  BY <1>2 DEF Balloon
<1>4. q = 4 /\ q' \in Nat
  BY <1>1, <1>3, AtQueue
<1>5. Uses(Cur, vdev[spot]) \subseteq 1 .. q - 1
  BY <1>3, <1>4 DEF Uses
<1>6. Firsts(Now.active) = Uses(Cur, vdev[spot])
  BY <1>1, <1>5, AtQueue, Zenon
<1>7. Stages' /\ stage' \in {"bound"} \cup Answering
  BY <1>1, <1>2 DEF BusInv, Stages, Opening
<1> QED BY <1>1, <1>4, <1>6, <1>7, GoesLive, Zenon

(* activate_queue and set_driver_ok.                                        *)
LEMMA ActivateQueueInv == BusInv /\ ActivateQueue => BusInv'
<1> SUFFICES ASSUME BusInv, ActivateQueue PROVE BusInv'
  BY Zenon
<1>1. Boots /\ stage = "queue" /\ ~Cur.shim /\ UNCHANGED <<vdev, holder>>
  BY Zenon DEF ActivateQueue, At
<1> DEFINE U == Uses(Cur, vdev[spot])
<1>2. /\ stage \notin Opening
      /\ Now \in Registers /\ Now = dev[spot] /\ spot # None /\ spot \in DOMAIN bus
      /\ Here = bus[spot] /\ vdev[spot] \in SUBSET Features
      /\ Now.master /\ Now.accepted \subseteq bus[spot].offers
      /\ (\A e \in Now.active : Fit(bus[spot], e))
      /\ Now.status = 4 /\ vdev[spot] \subseteq Now.accepted
      /\ Firsts(Now.active) = U \cap (1 .. q - 1) /\ turn \in 3 .. 5
  BY <1>1, AtQueue, Zenon
<1>3. Cur.queues \in Nat \ {0} /\ Cur.size = 16 /\ Cur.shim = FALSE
  BY <1>1, <1>2, Turns, Zenon
<1>4. q \in 1 .. Cur.queues + 1 /\ q \in Nat \ {0}
  BY <1>1, <1>3, AtQueue
<1>5. U = 1 .. Cur.queues
  BY <1>3, Zenon DEF Uses
<1>6. vdev' = [vdev EXCEPT ![spot] = vdev[spot]]
  BY <1>1, <1>2, Zenon DEF BusInv, BusTypes
<1>7. CASE Panic /\ UNCHANGED dev
  BY <1>1, <1>7, BusStays, Zenon DEF Panic
<1>8. CASE /\ q <= Cur.queues /\ ~(QueueMax(Here, q) < Cur.size)
           /\ Regs([Now EXCEPT !.active = @ \cup {<<q, Cur.size>>}]) /\ q' = q + 1
           /\ UNCHANGED <<bus, turn, spot, todo, stage, REGISTRY, panic>>
  <2>1. UNCHANGED <<bus, turn, spot, todo, holder>> /\ stage' = "queue" /\ q' = q + 1 /\ q' \in Nat
    BY <1>1, <1>4, <1>8
  <2>2. Stages' /\ stage' \notin Opening
    BY <1>1, <1>2, <2>1, Zenon DEF BusInv, Stages, Opening
  <2>3. q' \in 1 .. IF Cur.shim THEN Len(Cur.queues) + 1 ELSE Cur.queues + 1
    BY <1>3, <1>4, <1>8, <2>1
  <2> DEFINE A == Now.active \cup {<<q, 16>>}
             r == [Now EXCEPT !.active = A]
  <2>4. dev' = [dev EXCEPT ![spot] = r]
    BY <1>3, <1>8, Zenon DEF Regs
  <2>5. A \in SUBSET (Nat \X Nat)
    BY <1>2, <1>4 DEF Registers
  <2> HIDE DEF A, U
  <2>6. /\ r \in Registers /\ r.active = A /\ r.status = Now.status
        /\ r.master = Now.master /\ r.accepted = Now.accepted
    BY <1>2, <2>5, Zenon DEF Registers
  <2> HIDE DEF r
  <2>7. q \in U
    BY <1>3, <1>4, <1>5, <1>8
  <2>8. Firsts(r.active) = U \cap (1 .. q)
    <3>1. r.active = Now.active \cup {<<q, 16>>}
      BY <2>6, Zenon DEF A
    <3> QED BY <1>2, <1>4, <2>7, <3>1, MoreQueues
  <2>9. Fit(bus[spot], <<q, 16>>)
    <3>1. QueueMax(bus[spot], q) \in Nat
      BY <1>2, QueueLimits, Zenon
    <3>2. 16 <= QueueMax(bus[spot], q)
      BY <1>2, <1>3, <1>8, <3>1
    <3>3. RingBytes(16) <= 4096 /\ 16 \in Powers
      BY DEF RingBytes, Powers
    <3> QED BY <3>2, <3>3 DEF Fit
  <2>10. \A e \in r.active : Fit(bus[spot], e)
    BY <1>2, <2>6, <2>9, Zenon DEF A
  <2>11. Firsts(r.active) = Uses(Cur, vdev[spot]) \cap (1 .. q' - 1)
    <3>1. q' - 1 = q /\ U = Uses(Cur, vdev[spot])
      BY <1>4, <2>1 DEF U
    <3> QED BY <2>8, <3>1, Zenon
  <2>12. r.master /\ r.accepted \subseteq bus[spot].offers /\ vdev[spot] \subseteq r.accepted /\ r.status = 4
    BY <1>2, <2>6, Zenon
  <2> QED BY <1>2, <1>6, <2>1, <2>2, <2>3, <2>4, <2>6, <2>10, <2>11, <2>12, GoesOn, Zenon DEF Answering
<1>9. CASE /\ ~(q <= Cur.queues) /\ Regs([Now EXCEPT !.status = 5])
           /\ stage' = "submit" /\ q' = 1
           /\ UNCHANGED <<bus, turn, spot, todo, REGISTRY, panic>>
  <2>1. q - 1 = Cur.queues
    BY <1>3, <1>4, <1>9
  <2>2. Firsts(Now.active) = Uses(Cur, vdev[spot])
    BY <1>2, <1>5, <2>1, Zenon
  <2>3. Stages' /\ stage' \in {"bound"} \cup Answering
    BY <1>2, <1>9 DEF BusInv, Stages, Opening, Answering
  <2> QED BY <1>1, <1>9, <2>2, <2>3, GoesLive, Zenon
<1> QED BY <1>7, <1>8, <1>9, Zenon DEF ActivateQueue

(* The requests of the native drivers.                                      *)
LEMMA RequestsInv == BusInv /\ (Submit \/ DeviceAnswers \/ CheckAnswer) => BusInv'
<1> SUFFICES ASSUME BusInv, Submit \/ DeviceAnswers \/ CheckAnswer PROVE BusInv'
  BY Zenon
<1>1. Boots /\ stage \in Answering /\ UNCHANGED <<dev, vdev, holder>>
  BY Zenon DEF Submit, DeviceAnswers, CheckAnswer, At, Answering
<1>2. stage \notin {"count", "look"} /\ stage \notin Opening
  BY <1>1, Zenon DEF Opening, Answering
<1>3. turn \in 3 .. 5 /\ q \in Nat
  <2>1. turn \notin {1, 2}
    BY <1>1, Zenon DEF BusInv, Stages, Opening, Answering
  <2> QED BY <1>1, <2>1, Turns, Zenon DEF BusInv, BusTypes
<1>4. CASE Panic
  BY <1>1, <1>4, BusStays, Zenon DEF Panic
<1>5. CASE UNCHANGED <<bus, turn, spot, todo>> /\ stage' \in Answering /\ q' \in {q, q + 1}
  <2>1. Stages' /\ stage' \notin Opening
    BY <1>2, <1>3, <1>5 DEF BusInv, Stages, Opening, Answering
  <2>2. stage' \notin {"wire", "request", "validate", "probe", "queue"}
    BY <1>5, Zenon DEF Answering
  <2> QED BY <1>1, <1>2, <1>3, <1>5, <2>1, <2>2, GoesOnUnchanged
<1> QED BY <1>4, <1>5, Zenon DEF Submit, DeviceAnswers, CheckAnswer, Move, Answering

(* A driver keeps the device that it has brought up.                        *)
LEMMA KeepInv ==
  ASSUME BusInv, Boots, stage \in {"bound"} \cup Answering, UNCHANGED <<bus, dev, vdev>>,
         holder' = [holder EXCEPT ![spot] = turn],
         spot' = None, stage' = "look", q' = 1,
         \/ turn = 2 /\ turn' = turn /\ todo' = todo
         \/ turn \in 3 .. 5 /\ turn' = turn + 1 /\ todo' = VirtioFunctions(bus)
  PROVE  BusInv'
<1>1. stage \notin {"count", "look"} /\ turn \in 1 .. 5 /\ stage \notin Opening
  BY DEF Answering, Opening
<1>2. /\ Now = dev[spot] /\ spot # None /\ spot \in DOMAIN bus
      /\ Now.master /\ Now.accepted \subseteq bus[spot].offers
      /\ \A e \in Now.active : Fit(bus[spot], e)
  BY <1>1, Somewhere, Zenon
<1>3. /\ dev[spot].status = 5 /\ bus[spot].kind = Cur.name /\ (turn = 2 => spot \notin todo)
      /\ vdev[spot] \subseteq dev[spot].accepted /\ Indices(spot) = QueuesOf(Cur, spot)
  BY <1>1, <1>2 DEF BusInv, Underway
<1>4. /\ dev' \in [DOMAIN bus -> Registers] /\ vdev' \in [DOMAIN bus -> SUBSET Features]
      /\ holder' \in [DOMAIN bus -> 0 .. 5] /\ holder'[spot] = turn
      /\ \A p \in DOMAIN bus \ {spot} :
            dev'[p] = dev[p] /\ vdev'[p] = vdev[p] /\ holder'[p] = holder[p]
  BY <1>1, <1>2 DEF BusInv, BusTypes
<1>5. \A p \in DOMAIN bus : p = spot => Kept(p)'
  <2> SUFFICES ASSUME NEW p \in DOMAIN bus, p = spot PROVE Kept(p)'
    BY Zenon
  <2>1. holder'[p] = turn /\ turn # 0 /\ turn <= turn' /\ (turn = turn' => turn' = 2 /\ p \notin todo')
    BY <1>1, <1>3, <1>4
  <2>2. Live(p)' /\ dev'[p].master /\ vdev'[p] \subseteq dev'[p].accepted /\ bus'[p].kind = Boot[turn].name
    BY <1>2, <1>3, Zenon DEF Live, Cur
  <2>3. Indices(p)' = Uses(Boot[turn], vdev'[p])
    BY <1>3, Zenon DEF Indices, QueuesOf, Cur
  <2> QED BY <2>1, <2>2, <2>3, Zenon DEF Kept, QueuesOf
<1>6. \A p \in DOMAIN bus : p = spot =>
            /\ dev'[p].master /\ dev'[p].accepted \subseteq bus[p].offers
            /\ \A e \in dev'[p].active : Fit(bus[p], e)
            /\ (holder'[p] = 0 /\ Clean(p)') \/ Kept(p)'
  BY <1>2, <1>5, Zenon
<1>7. \/ turn' = turn /\ todo' = todo
      \/ /\ turn \in 1 .. 5 /\ turn' = turn + 1 /\ todo' = VirtioFunctions(bus)
         /\ turn = 1 => todo = {}
  OBVIOUS
<1> QED BY <1>1, <1>4, <1>6, <1>7, AtNone, Zenon

(* probe returns 0, or the smoke test returns.                              *)
LEMMA ReturnsInv == BusInv /\ (ProbeReturns \/ SmokeReturns) => BusInv'
<1> SUFFICES ASSUME BusInv, ProbeReturns \/ SmokeReturns PROVE BusInv'
  BY Zenon
<1>1. CASE ProbeReturns
  <2>1. Boots /\ stage = "bound"
    BY <1>1, Zenon DEF ProbeReturns, At
  <2>2. turn = 2
    <3>1. turn \notin {1, 3, 4, 5}
      BY <2>1 DEF BusInv, Stages, Opening, Answering
    <3> QED BY <2>1, <3>1, Turns
  <2>3. /\ UNCHANGED <<bus, dev, vdev>> /\ holder' = [holder EXCEPT ![spot] = turn]
        /\ spot' = None /\ stage' = "look" /\ q' = 1 /\ turn' = turn /\ todo' = todo
    BY <1>1, Zenon DEF ProbeReturns, Leave
  <2> QED BY <2>1, <2>2, <2>3, KeepInv, Zenon
<1>2. CASE SmokeReturns
  <2>1. Boots /\ stage \in Answering
    BY <1>2, Zenon DEF SmokeReturns, At, Answering
  <2>2. turn \in 3 .. 5
    <3>1. turn \notin {1, 2}
      BY <2>1, Zenon DEF BusInv, Stages, Opening, Answering
    <3> QED BY <2>1, <3>1, Turns, Zenon
  <2>3. /\ UNCHANGED <<bus, dev, vdev>> /\ holder' = [holder EXCEPT ![spot] = turn]
        /\ spot' = None /\ stage' = "look" /\ q' = 1 /\ turn' = turn + 1
        /\ todo' = VirtioFunctions(bus)
    BY <1>2, Zenon DEF SmokeReturns, NextTurn
  <2> QED BY <2>1, <2>2, <2>3, KeepInv, Zenon
<1> QED BY <1>1, <1>2, Zenon

(* Every step of the bus preserves its invariant.                           *)
LEMMA NextBusInv == BusInv /\ NEXT_SLOT \in Nat /\ [BusNext]_allVars => BusInv'
<1> SUFFICES ASSUME BusInv, NEXT_SLOT \in Nat, [BusNext]_allVars PROVE BusInv'
  BY Zenon
<1>1. CASE UNCHANGED allVars
  BY <1>1, BusStays, Zenon DEF allVars, busVars
<1>2. CASE BootStep \/ DeviceAnswers
  BY <1>2, SelfTestCountInv, VisitInv, RegisteredInv, FindDeviceInv, HandshakeInv, NegotiateInv,
     WireInv, RequestConfigIrqInv, ValidateInv, ProbeInv, FindVqsInv, DeviceReadyInv, ReturnsInv,
     ActivateQueueInv, RequestsInv, Zenon DEF BootStep
<1>3. CASE PciStep
  BY <1>3, BusStays, Zenon DEF PciStep, busVars
<1>4. ASSUME NEW p \in DOMAIN bus, ConfigChange(p) PROVE BusInv'
  BY <1>4, BusStays, Zenon DEF ConfigChange
<1>5. CASE UNCHANGED busVars
  BY <1>5, BusStays, Zenon DEF busVars
<1>6. ASSUME NEW m \in sent, Dispatch(m) PROVE BusInv'
  BY <1>6, BusStays, Zenon DEF Dispatch
<1> QED BY <1>1, <1>2, <1>3, <1>4, <1>5, <1>6, Zenon DEF BusNext

-----------------------------------------------------------------------------
(* Steps that program no table entry keep the entries apart.                *)
LEMMA EntriesStay ==
  ASSUME Entries, BusTypes, bus' = bus,
         \A p \in DOMAIN bus : dev'[p].entry = dev[p].entry /\ (dev'[p].vector => dev[p].vector),
         \A s \in Slots : Settled(s) => Settled(s)',
         \A x \in Senders : \A s \in Held(x)' :
            s \in Held(x) \/ ~Settled(s) \/ \E p \in DOMAIN bus : p = x /\ dev[p].entry = s
  PROVE  Entries'
<1> SUFFICES ASSUME NEW p \in DOMAIN bus
             PROVE  /\ dev'[p].vector => dev'[p].entry # None
                    /\ dev'[p].entry # None =>
                         /\ \A s : s = dev'[p].entry => Settled(s)'
                         /\ \A x \in Senders \ {p} : \A s : s = dev'[p].entry => s \notin Held(x)'
                         /\ \A r \in DOMAIN bus \ {p} : dev'[r].entry # dev'[p].entry
  BY Zenon DEF Entries
<1>1. dev[p].entry \in Slots \cup {None}
  BY Zenon DEF BusTypes, Registers
<1> QED BY <1>1 DEF Entries

(* A device's entry is heard, or gets its handler.                          *)
LEMMA EntryHeld ==
  ASSUME IInv, Entries, BusInv, NEW p \in DOMAIN bus, NEW e \in Slots, e = dev[p].entry, TypeOK',
         UNCHANGED <<bus, dev, NEXT_SLOT, pc, want, first>>,
         \A x \in Senders : \A s \in Held(x)' : s \in Held(x) \/ (x = p /\ s = e)
  PROVE  IInv' /\ Entries'
<1>1. e # None
  BY BusAssumption, Zenon
<1>2. \A s : Settled(s) => Settled(s)'
  BY Zenon DEF Settled, Calling
<1>3. /\ Settled(e) /\ \A x \in Senders \ {p} : e \notin Held(x)
  BY <1>1, Zenon DEF Entries
<1>4. OneCall'
  BY Zenon DEF IInv, OneCall, Calling
<1>5. Below'
  BY <1>2, <1>3, Zenon DEF IInv, Below
<1>6. Apart'
  BY <1>3 DEF IInv, Apart
<1>7. Entries'
  <2>1. \A x \in Senders : \A s \in Held(x)' :
            s \in Held(x) \/ ~Settled(s) \/ \E r \in DOMAIN bus : r = x /\ dev[r].entry = s
    BY Zenon
  <2>2. \A r \in DOMAIN bus : dev'[r].entry = dev[r].entry /\ (dev'[r].vector => dev[r].vector)
    BY Zenon
  <2> QED BY <1>2, <2>1, <2>2, EntriesStay, Zenon DEF BusInv
<1> QED BY <1>4, <1>5, <1>6, <1>7, Zenon DEF IInv

(* The request_irq of setup_config_changed_msix.                            *)
LEMMA RequestConfigIrqSlots ==
  ASSUME IInv, Entries, BusInv, RequestConfigIrq PROVE IInv' /\ Entries'
<1>1. /\ Boots /\ stage = "request" /\ SLOTS' = [SLOTS EXCEPT ![Now.entry] = spot]
      /\ UNCHANGED <<bus, dev, NEXT_SLOT, sent, pc, want, first, msix, table, enabled>>
  BY Zenon DEF RequestConfigIrq, At, Move, pciVars
<1>2. spot \in DOMAIN bus /\ Now = dev[spot] /\ Now \in Registers /\ Now.entry # None
  <2>1. spot \in DOMAIN bus /\ Now = dev[spot] /\ Now \in Registers /\ spot # None
    BY <1>1, Somewhere, Zenon
  <2> QED BY <1>1, <2>1, Zenon DEF BusInv, Underway
<1>3. Now.entry \in Slots
  BY <1>2, Zenon DEF Registers
<1>4. spot \in Others
  BY <1>2, BusAssumption, Zenon DEF BusInv, BusTypes
<1>5. TypeOK'
  BY <1>1, <1>3, <1>4, Zenon DEF IInv, TypeOK
<1> DEFINE e == Now.entry
<1>6. SLOTS' = [SLOTS EXCEPT ![e] = spot] /\ e \in Slots /\ e = dev[spot].entry
  BY <1>1, <1>2, <1>3, Zenon
<1> HIDE DEF e
<1>7. \A x \in Senders : \A s \in Held(x)' : s \in Held(x) \/ (x = spot /\ s = e)
  BY <1>1, <1>6, Zenon DEF Held, Sent, IInv, TypeOK
<1> QED BY <1>1, <1>2, <1>5, <1>6, <1>7, EntryHeld, Zenon

(* A device's configuration changes, and it sends its message.              *)
LEMMA ConfigChangeSlots ==
  ASSUME IInv, Entries, BusInv, NEW p \in DOMAIN bus, ConfigChange(p) PROVE IInv' /\ Entries'
<1>1. UNCHANGED <<bus, dev, NEXT_SLOT, SLOTS, pc, want, first, msix, table, enabled>>
  BY Zenon DEF ConfigChange, pciVars
<1>2. p \in Others
  BY BusAssumption, Zenon DEF BusInv, BusTypes
<1>3. dev[p] \in Registers
  BY Zenon DEF BusInv, BusTypes
<1>4. CASE dev[p].vector /\ sent' = sent \cup {[dev |-> p, slot |-> dev[p].entry]}
  <2> DEFINE e == dev[p].entry
  <2>1. e \in Slots
    BY <1>3, <1>4, Zenon DEF Registers, Entries
  <2>2. sent' = sent \cup {[dev |-> p, slot |-> e]} /\ e = dev[p].entry
    BY <1>4, Zenon
  <2> HIDE DEF e
  <2>3. TypeOK'
    BY <1>1, <1>2, <2>1, <2>2 DEF IInv, TypeOK
  <2>4. \A x \in Senders : \A s \in Sent(x)' : s \in Sent(x) \/ (x = p /\ s = e)
    BY <2>2, Zenon DEF Sent
  <2>5. \A x \in Senders : \A s \in Held(x)' : s \in Held(x) \/ (x = p /\ s = e)
    BY <1>1, <2>4, Zenon DEF Held
  <2> QED BY <1>1, <2>1, <2>2, <2>3, <2>5, EntryHeld, Zenon
<1>5. CASE sent' = sent
  BY <1>1, <1>5 DEF IInv, TypeOK, OneCall, Calling, Below, Apart, Held, Sent, Settled, Entries
<1> QED BY <1>4, <1>5, Zenon DEF ConfigChange

(* setup_config_changed_msix takes the slot at the watermark.               *)
LEMMA WireSlots ==
  ASSUME IInv, Entries, BusInv, Wire PROVE IInv' /\ Entries'
<1>1. /\ Boots /\ stage = "wire" /\ NEXT_SLOT \in Nat /\ bus' = bus
      /\ UNCHANGED <<SLOTS, sent, pc, want, first, msix, table, enabled>>
  BY Zenon DEF Wire, WireWith, At, Move, pciVars, IInv, TypeOK
<1>2. /\ Now \in Registers /\ Now = dev[spot] /\ spot \in DOMAIN bus
  BY <1>1, Somewhere, Zenon
<1>3. \A d \in Drivers : ~Calling(d) /\ ~Calling(d)'
  BY <1>1, Zenon DEF Boots, Calling
<1>4. NEXT_SLOT' \in {NEXT_SLOT, NEXT_SLOT + 1}
  BY Zenon DEF Wire, WireWith
<1>5. \A s \in Slots : Settled(s) => Settled(s)'
  BY <1>1, <1>3, <1>4, SlotNumbers DEF Settled
<1>6. \A x \in Senders : Held(x)' = Held(x)
  BY <1>1, Zenon DEF Held, Sent
<1>7. IInv'
  <2>1. TypeOK'
    BY <1>1, <1>4 DEF IInv, TypeOK
  <2>2. OneCall'
    BY <1>1, <1>3, Zenon DEF OneCall, Calling
  <2>3. Below' /\ Apart'
    BY <1>5, <1>6, SlotNumbers, Zenon DEF IInv, Below, Apart
  <2> QED BY <2>1, <2>2, <2>3, Zenon DEF IInv
<1>8. CASE UNCHANGED dev
  BY <1>1, <1>5, <1>6, <1>7, <1>8, EntriesStay, Zenon DEF BusInv
<1>9. CASE /\ NEXT_SLOT' = NEXT_SLOT + 1 /\ NEXT_SLOT + 1 <= SLOT_COUNT
           /\ Regs([Now EXCEPT !.entry = NEXT_SLOT, !.msix = TRUE,
                               !.vector = TRUE /\ Here.msix = "ok"])
  <2> DEFINE r == [Now EXCEPT !.entry = NEXT_SLOT, !.msix = TRUE,
                               !.vector = TRUE /\ Here.msix = "ok"]
  <2>1. dev' = [dev EXCEPT ![spot] = r] /\ r.entry = NEXT_SLOT
    BY <1>2, <1>9, Zenon DEF Regs, Registers
  <2> HIDE DEF r
  <2>2. dev'[spot].entry = NEXT_SLOT /\ \A p \in DOMAIN bus \ {spot} : dev'[p] = dev[p]
    BY <1>2, <2>1, Zenon DEF BusInv, BusTypes
  <2>3. NEXT_SLOT \in Slots /\ NEXT_SLOT # None
    BY <1>1, <1>9, BusAssumption, SlotsAssumption DEF Slots
  <2>4. \A p \in DOMAIN bus : dev[p].entry \in Slots \cup {None}
    BY Zenon DEF BusInv, BusTypes, Registers
  <2>5. ~Settled(NEXT_SLOT)
    BY <1>1 DEF Settled
  <2>6. \A s : s = NEXT_SLOT => Settled(s)'
    BY <1>1, <1>3, <1>9 DEF Settled
  <2>7. \A x \in Senders : NEXT_SLOT \notin Held(x)
    BY <2>5, Zenon DEF IInv, Below
  <2>8. \A p \in DOMAIN bus : dev[p].entry # NEXT_SLOT
    BY <2>3, <2>5, Zenon DEF Entries
  <2> SUFFICES ASSUME NEW p \in DOMAIN bus
               PROVE  /\ dev'[p].vector => dev'[p].entry # None
                      /\ dev'[p].entry # None =>
                           /\ \A s : s = dev'[p].entry => Settled(s)'
                           /\ \A x \in Senders \ {p} : \A s : s = dev'[p].entry => s \notin Held(x)'
                           /\ \A o \in DOMAIN bus \ {p} : dev'[o].entry # dev'[p].entry
    BY <1>1, <1>7, Zenon DEF Entries
  <2>9. CASE p = spot
    BY <1>6, <2>2, <2>3, <2>6, <2>7, <2>8, <2>9, Zenon
  <2>10. CASE p # spot
    <3>1. dev'[p] = dev[p]
      BY <2>2, <2>10, Zenon
    <3>2. dev[p].entry # None => dev[p].entry \in Slots
      BY <2>4, Zenon
    <3>3. \A o \in DOMAIN bus \ {p} : dev[p].entry # None => dev'[o].entry # dev[p].entry
      BY <2>2, <2>8, Zenon DEF Entries
    <3> QED BY <1>5, <1>6, <3>1, <3>2, <3>3, Zenon DEF Entries
  <2> QED BY <2>9, <2>10, Zenon
<1> QED
  <2>1. ~(NEXT_SLOT + 1 > SLOT_COUNT) => NEXT_SLOT + 1 <= SLOT_COUNT
    BY <1>1, SlotsAssumption
  <2> QED BY <1>7, <1>8, <1>9, <2>1, Zenon DEF Wire, WireWith, Move

(* The other calls of a driver leave the entry of its device, and set no    *)
(* configuration vector.                                                    *)
LEMMA EntriesKept ==
  ASSUME BusInv, NEW p \in DOMAIN bus, NEW r, dev' = [dev EXCEPT ![p] = r],
         r.entry = dev[p].entry, r.vector => dev[p].vector
  PROVE  \A s \in DOMAIN bus : dev'[s].entry = dev[s].entry /\ (dev'[s].vector => dev[s].vector)
BY Zenon DEF BusInv, BusTypes

(* So do all calls but those of setup_config_changed_msix.                  *)
LEMMA QuietSteps ==
  ASSUME BusInv, (BootStep /\ ~Wire /\ ~RequestConfigIrq) \/ DeviceAnswers
  PROVE  /\ bus' = bus /\ UNCHANGED <<poolVars, pciVars>>
         /\ \A s \in DOMAIN bus : dev'[s].entry = dev[s].entry /\ (dev'[s].vector => dev[s].vector)
<1> DEFINE Quiet == \A s \in DOMAIN bus : dev'[s].entry = dev[s].entry /\ (dev'[s].vector => dev[s].vector)
<1>1. bus' = bus /\ UNCHANGED <<poolVars, pciVars>>
  BY Zenon DEF BootStep, SelfTestCount, Panic, Move, Visit, Registered, NextTurn, FindDevice, FindDeviceWith,
     Handshake, Negotiate, Validate, Decline, Leave, Probe, FindVqs, DeviceReady, ProbeReturns,
     ActivateQueue, Submit, CheckAnswer, SmokeReturns, DeviceAnswers
<1> SUFFICES Quiet
  BY <1>1, Zenon
<1>2. \A p \in DOMAIN bus : dev[p] \in Registers
  BY Zenon DEF BusInv, BusTypes
<1>3. UNCHANGED dev => Quiet
  BY Zenon
<1>4. stage \notin {"count", "look"} => spot \in DOMAIN bus /\ Now = dev[spot]
  BY Somewhere, Zenon
<1>5. ASSUME Decline, stage \notin {"count", "look"} PROVE Quiet
  <2> DEFINE r == ResetRegs(dev[spot])
  <2>1. r.entry = dev[spot].entry /\ r.vector = FALSE
    BY <1>2, <1>4, <1>5, ResetRegisters, Zenon
  <2>2. dev' = [dev EXCEPT ![spot] = r]
    BY <1>4, <1>5, Zenon DEF Decline, Regs
  <2> HIDE DEF r
  <2> QED BY <1>4, <1>5, <2>1, <2>2, EntriesKept, Zenon
<1>6. CASE Visit
  <2>1. PICK p \in todo :
         IF MatchIdTable(Cur, bus[p]) /\ TryResolve(bus[p])
         THEN dev' = [dev EXCEPT ![p] = [ResetRegs(@) EXCEPT !.master = TRUE]]
         ELSE UNCHANGED dev
    BY <1>6, Zenon DEF Visit
  <2>2. p \in DOMAIN bus
    BY Zenon DEF BusInv, BusTypes, VirtioFunctions, Scanned, Visited
  <2> DEFINE u == ResetRegs(dev[p])
             r == [u EXCEPT !.master = TRUE]
  <2>3. u \in Registers /\ u.entry = dev[p].entry /\ u.vector = FALSE
    BY <1>2, <2>2, ResetRegisters, Zenon
  <2>4. UNCHANGED dev \/ dev' = [dev EXCEPT ![p] = r]
    BY <2>1, Zenon
  <2> HIDE DEF u
  <2>5. r.entry = u.entry /\ r.vector = u.vector
    BY <2>3, Zenon DEF Registers
  <2> HIDE DEF r
  <2> QED BY <2>2, <2>3, <2>4, <2>5, EntriesKept
<1>7. CASE FindDevice
  <2>1. UNCHANGED dev \/ \E p \in Visited(bus) : dev' = [dev EXCEPT ![p] = ResetRegs(@)]
    BY <1>7, Zenon DEF FindDevice, FindDeviceWith
  <2>2. CASE \E p \in Visited(bus) : dev' = [dev EXCEPT ![p] = ResetRegs(@)]
    <3>1. PICK p \in Visited(bus) : dev' = [dev EXCEPT ![p] = ResetRegs(@)]
      BY <2>2, Zenon
    <3>2. p \in DOMAIN bus
      BY Zenon DEF Visited
    <3> DEFINE r == ResetRegs(dev[p])
    <3>3. r.entry = dev[p].entry /\ r.vector = FALSE
      BY <1>2, <3>2, ResetRegisters, Zenon
    <3>4. dev' = [dev EXCEPT ![p] = r]
      BY <3>1, Zenon
    <3> HIDE DEF r
    <3> QED BY <3>2, <3>3, <3>4, EntriesKept, Zenon
  <2> QED BY <1>3, <2>1, <2>2, Zenon
<1>8. ASSUME NEW x, Regs([Now EXCEPT !.status = x]), stage \notin {"count", "look"} PROVE Quiet
  <2> DEFINE r == [Now EXCEPT !.status = x]
  <2>1. r.entry = dev[spot].entry /\ r.vector = dev[spot].vector /\ dev' = [dev EXCEPT ![spot] = r]
    BY <1>2, <1>4, <1>8, Zenon DEF Regs, Registers
  <2> HIDE DEF r
  <2> QED BY <1>4, <1>8, <2>1, EntriesKept, Zenon
<1>9. ASSUME NEW x, NEW y, Regs([Now EXCEPT !.status = x, !.accepted = y]), stage \notin {"count", "look"}
      PROVE  Quiet
  <2> DEFINE r == [Now EXCEPT !.status = x, !.accepted = y]
  <2>1. r.entry = dev[spot].entry /\ r.vector = dev[spot].vector /\ dev' = [dev EXCEPT ![spot] = r]
    BY <1>2, <1>4, <1>9, Zenon DEF Regs, Registers
  <2> HIDE DEF r
  <2> QED BY <1>4, <1>9, <2>1, EntriesKept, Zenon
<1>10. ASSUME NEW x, Regs([Now EXCEPT !.active = x]), stage \notin {"count", "look"} PROVE Quiet
  <2> DEFINE r == [Now EXCEPT !.active = x]
  <2>1. r.entry = dev[spot].entry /\ r.vector = dev[spot].vector /\ dev' = [dev EXCEPT ![spot] = r]
    BY <1>2, <1>4, <1>10, Zenon DEF Regs, Registers
  <2> HIDE DEF r
  <2> QED BY <1>4, <1>10, <2>1, EntriesKept, Zenon
<1> HIDE DEF Quiet
<1>11. CASE Handshake
  BY <1>8, <1>11, Zenon DEF Handshake, At
<1>12. CASE Negotiate
  BY <1>3, <1>9, <1>12, Zenon DEF Negotiate, At
<1>13. CASE Validate \/ Probe
  BY <1>3, <1>5, <1>13, Zenon DEF Validate, Probe, At
<1>14. CASE FindVqs
  BY <1>3, <1>5, <1>10, <1>14, Zenon DEF FindVqs, At
<1>15. CASE DeviceReady
  BY <1>8, <1>15, Zenon DEF DeviceReady, At
<1>16. CASE ActivateQueue
  BY <1>3, <1>8, <1>10, <1>16, Zenon DEF ActivateQueue, At
<1>17. Visit \/ FindDevice \/ Handshake \/ Negotiate \/ Validate \/ Probe \/ FindVqs \/ DeviceReady
       \/ ActivateQueue \/ UNCHANGED dev
  BY Zenon DEF BootStep, SelfTestCount, Registered, ProbeReturns, Submit, CheckAnswer, SmokeReturns, DeviceAnswers
<1> QED BY <1>3, <1>6, <1>7, <1>11, <1>12, <1>13, <1>14, <1>15, <1>16, <1>17, Zenon

-----------------------------------------------------------------------------
AllInv == IInv /\ Entries /\ BusInv

(* The machine at boot.                                                     *)
LEMMA InitAllInv == BusInit => AllInv
<1> SUFFICES ASSUME BusInit PROVE AllInv
  BY Zenon
<1>1. IInv /\ BusInv
  BY InitIInv, InitBusInv, Zenon DEF BusInit
<1>2. Entries
  BY Zenon DEF BusInit, Entries
<1> QED BY <1>1, <1>2, Zenon DEF AllInv

(* Every step of the bus, with one PCI call at a time.                      *)
LEMMA NextAllInv ==
  ASSUME ~Concurrent, AllInv, [BusNext]_allVars PROVE AllInv' /\ bus' = bus
<1> USE DEF AllInv
<1>1. BusInv'
  BY NextBusInv, Zenon DEF IInv, TypeOK
<1>2. ASSUME [Next]_vars, UNCHANGED <<bus, dev>> PROVE IInv' /\ Entries' /\ bus' = bus
  <2>1. IInv' /\ Grows
    BY <1>2, NextIInv, Zenon
  <2>2. \A s \in DOMAIN bus : dev'[s].entry = dev[s].entry /\ (dev'[s].vector => dev[s].vector)
    BY <1>2, Zenon
  <2>3. \A x \in Senders : \A s \in Held(x)' :
            s \in Held(x) \/ ~Settled(s) \/ \E p \in DOMAIN bus : p = x /\ dev[p].entry = s
    BY <2>1, Zenon DEF Grows
  <2> QED BY <1>2, <2>1, <2>2, <2>3, EntriesStay, Zenon DEF Grows, BusInv
<1> SUFFICES IInv' /\ Entries' /\ bus' = bus
  BY <1>1, Zenon
<1>3. CASE UNCHANGED allVars
  BY <1>2, <1>3, Zenon DEF allVars, busVars, poolVars, pciVars, vars
<1>4. CASE PciStep
  BY <1>2, <1>4, Zenon DEF PciStep, Next, busVars
<1>5. ASSUME NEW d \in Drivers, NEW s \in Slots, DeviceSends(d, s), UNCHANGED busVars
      PROVE  IInv' /\ Entries' /\ bus' = bus
  BY <1>2, <1>5, Zenon DEF Next, busVars
<1>6. ASSUME NEW m \in sent, Dispatch(m) PROVE IInv' /\ Entries' /\ bus' = bus
  BY <1>2, <1>6, Zenon DEF Next, Dispatch
<1>7. ASSUME NEW p \in DOMAIN bus, ConfigChange(p) PROVE IInv' /\ Entries' /\ bus' = bus
  BY <1>7, ConfigChangeSlots, Zenon DEF ConfigChange
<1>8. CASE Wire
  BY <1>8, WireSlots, Zenon DEF Wire, WireWith, Move
<1>9. CASE RequestConfigIrq
  BY <1>9, RequestConfigIrqSlots, Zenon DEF RequestConfigIrq, Move
<1>10. CASE (BootStep /\ ~Wire /\ ~RequestConfigIrq) \/ DeviceAnswers
  <2>1. /\ bus' = bus /\ UNCHANGED <<poolVars, pciVars>>
        /\ \A s \in DOMAIN bus : dev'[s].entry = dev[s].entry /\ (dev'[s].vector => dev[s].vector)
    BY <1>10, QuietSteps, Zenon
  <2>2. UNCHANGED vars
    BY <2>1, Zenon DEF poolVars, pciVars, vars
  <2>3. IInv' /\ Grows
    BY <2>2, NextIInv, Zenon
  <2>4. \A x \in Senders : \A s \in Held(x)' :
            s \in Held(x) \/ ~Settled(s) \/ \E p \in DOMAIN bus : p = x /\ dev[p].entry = s
    BY <2>3, Zenon DEF Grows
  <2> QED BY <2>1, <2>3, <2>4, EntriesStay, Zenon DEF Grows, BusInv
<1> QED BY <1>3, <1>4, <1>5, <1>6, <1>7, <1>8, <1>9, <1>10, Zenon DEF BusNext

(* The invariant of the slots and the bus.                                  *)
THEOREM BusInvariant == ~Concurrent => (BusSpec => []AllInv)
<1> SUFFICES ASSUME ~Concurrent PROVE BusSpec => []AllInv
  BY Zenon
<1>1. AllInv /\ [BusNext]_allVars => AllInv'
  BY NextAllInv, Zenon
<1> QED BY <1>1, InitAllInv, PTL DEF BusSpec

(* dispatch_common meets the handler of the sender among the boot's virtio  *)
(* drivers and the PCI drivers that come and go, too.                       *)
THEOREM BusMessagesMeetTheirHandler == ~Concurrent => (BusSpec => []HandlerOfSender)
<1>1. AllInv => HandlerOfSender
  BY HandlersOfSenders, Zenon DEF AllInv
<1> QED BY <1>1, BusInvariant, PTL

(* A device that no driver keeps, or is setting up, is as after the reset   *)
(* of register_virtio_driver.                                               *)
THEOREM DeclinedDevicesAreClean == ~Concurrent => (BusSpec => []DeclinedIsClean)
<1>1. AllInv => DeclinedIsClean
  <2> SUFFICES ASSUME AllInv, NEW p \in DOMAIN bus, holder[p] = 0, p # spot
               PROVE  dev[p] = ResetRegs(dev[p])
    BY Zenon DEF DeclinedIsClean
  <2>1. Clean(p) /\ dev[p] \in Registers
    BY Zenon DEF AllInv, BusInv, Resting, Kept, BusTypes
  <2> QED BY <2>1, ResetRegisters, Zenon DEF Clean
<1> QED BY <1>1, BusInvariant, PTL

(* A live device may master the bus, has accepted what the shim reports,    *)
(* and has the queues of its driver, each within its limit and one frame.   *)
THEOREM LiveDevicesAreComplete == ~Concurrent => (BusSpec => []LiveIsComplete)
<1>1. AllInv => LiveIsComplete
  <2> SUFFICES ASSUME AllInv, NEW p \in DOMAIN bus
               PROVE  /\ dev[p].accepted \subseteq bus[p].offers
                      /\ \A e \in dev[p].active : Fit(bus[p], e)
                      /\ Live(p) => dev[p].master /\ vdev[p] \subseteq dev[p].accepted
                      /\ Live(p) /\ holder[p] # 0 => Indices(p) = Uses(Boot[holder[p]], vdev[p])
    BY DEF LiveIsComplete, Uses, Indices, Firsts, Fit
  <2>1. Fits /\ Underway /\ Resting /\ None \notin DOMAIN bus
    BY Nowhere, Zenon DEF AllInv, BusInv
  <2>2. /\ dev[p].accepted \subseteq bus[p].offers
        /\ \A e \in dev[p].active : Fit(bus[p], e)
    BY <2>1, Zenon DEF Fits
  <2>3. CASE p = spot
    <3>1. holder[p] = 0 /\ dev[p].master
      BY <2>1, <2>3, Zenon DEF Underway
    <3>2. stage \in Opening => dev[p].status \in {1, 2, 3}
      BY <2>1, <2>3, Zenon DEF Underway, Opening
    <3>3. Live(p) => stage \notin Opening
      BY <3>2 DEF Live
    <3>4. Live(p) => vdev[p] \subseteq dev[p].accepted
      BY <2>1, <2>3, <3>3, Zenon DEF Underway
    <3> QED BY <2>2, <3>1, <3>4, Zenon
  <2>4. CASE p # spot /\ holder[p] = 0 /\ Clean(p)
    <3>1. dev[p].status = 1
      BY <2>4, Zenon DEF Clean
    <3>2. ~Live(p)
      BY <3>1 DEF Live
    <3> QED BY <2>2, <3>2, Zenon
  <2>5. CASE p # spot /\ Kept(p)
    <3>1. /\ dev[p].master /\ vdev[p] \subseteq dev[p].accepted
          /\ Indices(p) = Uses(Boot[holder[p]], vdev[p])
      BY <2>5, Zenon DEF Kept, QueuesOf
    <3> QED BY <2>2, <3>1, Zenon
  <2> QED BY <2>1, <2>3, <2>4, <2>5, Zenon DEF Resting
<1> QED BY <1>1, BusInvariant, PTL

(* No later driver resets or takes over a device that a driver keeps, and   *)
(* the driver that keeps it is the one for its kind.                        *)
THEOREM DevicesAreKept == ~Concurrent => (BusSpec => KeptDevices)
<1> SUFFICES ASSUME ~Concurrent PROVE BusSpec => KeptDevices
  BY Zenon
<1> DEFINE Keeps == \A p \in DOMAIN bus :
                      /\ holder[p] # 0 => Live(p)' /\ holder'[p] = holder[p]
                      /\ holder'[p] # 0 => Boot[holder'[p]].name = bus[p].kind
<1>1. AllInv /\ [BusNext]_allVars => [Keeps]_allVars
  <2> SUFFICES ASSUME AllInv, [BusNext]_allVars, NEW p \in DOMAIN bus
               PROVE  /\ holder[p] # 0 => Live(p)' /\ holder'[p] = holder[p]
                      /\ holder'[p] # 0 => Boot[holder'[p]].name = bus[p].kind
    BY Zenon
  <2>1. AllInv' /\ bus' = bus
    BY NextAllInv, Zenon
  <2>2. holder'[p] # 0 => Kept(p)'
    <3>1. (p # spot)' => (holder'[p] = 0 /\ Clean(p)') \/ Kept(p)'
      BY <2>1, Zenon DEF AllInv, BusInv, Resting
    <3>2. (p = spot)' => holder'[p] = 0
      <4>1. None \notin DOMAIN bus
        BY Nowhere, Zenon DEF AllInv
      <4> QED BY <2>1, <4>1, Zenon DEF AllInv, BusInv, Underway
    <3> QED BY <3>1, <3>2, Zenon
  <2>3. holder[p] # 0 => holder'[p] = holder[p]
    <3>1. CASE ProbeReturns \/ SmokeReturns
      <4>1. spot # None /\ holder' = [holder EXCEPT ![spot] = turn]
        BY <3>1, Somewhere, Zenon DEF ProbeReturns, SmokeReturns, At, AllInv
      <4>2. holder[spot] = 0
        BY <4>1, Zenon DEF AllInv, BusInv, Underway
      <4> QED BY <4>1, <4>2, Zenon DEF AllInv, BusInv, BusTypes
    <3>2. CASE UNCHANGED holder
      BY <3>2, Zenon
    <3>3. ProbeReturns \/ SmokeReturns \/ UNCHANGED holder
      BY Zenon DEF BusNext, BootStep, SelfTestCount, Visit, Registered, FindDevice, FindDeviceWith,
         Handshake, Negotiate, Wire, WireWith, RequestConfigIrq, Validate, Probe, FindVqs, DeviceReady,
         ActivateQueue, Submit, CheckAnswer, DeviceAnswers, PciStep, ConfigChange, Dispatch, allVars, busVars
    <3> QED BY <3>1, <3>2, <3>3, Zenon
  <2> QED BY <2>1, <2>2, <2>3, Zenon DEF Kept
<1>2. BusSpec => []AllInv
  BY BusInvariant, Zenon
<1>3. BusSpec => [][BusNext]_allVars
  BY PTL DEF BusSpec
<1> QED BY <1>1, <1>2, <1>3, PTL DEF KeptDevices
=============================================================================
