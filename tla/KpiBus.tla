------------------------------- MODULE KpiBus ---------------------------------
(***************************************************************************)
(* Who drives which virtio device.  At boot five drivers look for theirs,  *)
(* one after the other: the self-test driver of linuxkpi and the balloon   *)
(* through register_virtio_driver (linuxkpi/src/virtio.rs), then           *)
(* virtio-blk, virtio-gpu and virtio-net through virtio::find_device       *)
(* (arsenal-kernel/src/virtio.rs).  Nobody records which device is taken:  *)
(* each of them resets the devices it matches.                             *)
(*                                                                         *)
(* The devices run beside the drivers: they refuse features, have no MSI-X *)
(* or a broken one, offer queues of size 0, answer late or with an error,  *)
(* and signal changes of their configuration.  The interrupt slots are     *)
(* those of IrqSlots, shared with PCI drivers that come and go.            *)
(***************************************************************************)
EXTENDS IrqSlots, Sequences, PciScan

CONSTANTS
    Machines,       \* what may sit on the bus: sets of virtio functions
    MinVirtio       \* the self-test wants this many devices (3 in the code)

VARIABLES
    bus,            \* PciScan's bus: its virtio functions
    turn,           \* the driver whose turn it is
    spot,           \* the place it looks at, or None
    todo,           \* the places a bus driver has still to visit
    stage,          \* how far it is at this place
    q,              \* the queue it sets up, or the request it makes
    dev,            \* the registers of each device
    vdev,           \* the shim's features of each device: a virtio_device
    wired,          \* devices for which setup_config_changed_msix succeeded
    holder,         \* history: the driver that keeps each device, or 0
    news,           \* history: devices with a change their driver has not heard of
    REGISTRY,       \* the registered drivers
    panic           \* an assertion has failed and the kernel has stopped

busVars == <<bus, turn, spot, todo, stage, q, dev, vdev, wired, holder, news, REGISTRY, panic>>
poolVars == <<NEXT_SLOT, SLOTS, sent>>
pciVars == <<pc, want, first, msix, table, enabled>>
allVars == <<busVars, poolVars, pciVars>>

-----------------------------------------------------------------------------
(* The drivers in the order of _start.  ids are VIRTIO_IDs ({} matches any, *)
(* VIRTIO_DEV_ANY_ID), pci is a PCI device id; a queue is named when the    *)
(* feature it needs is negotiated.  clears are the bits validate drops.     *)
SelfTest == [name |-> "self_test", shim |-> TRUE, ids |-> {}, feats |-> {},
             clears |-> {}, changed |-> FALSE, queues |-> <<>>, binds |-> FALSE]
Balloon  == [name |-> "balloon", shim |-> TRUE, ids |-> {5}, feats |-> {"stats", "poison"},
             clears |-> {"poison"}, changed |-> TRUE,
             queues |-> <<"version_1", "version_1", "stats">>, binds |-> TRUE]
Native(name, pci, size, queues, requests) ==
    [name |-> name, shim |-> FALSE, pci |-> pci, size |-> size, feats |-> {},
     queues |-> queues, requests |-> requests, changed |-> FALSE]
Blk == Native("blk", 4097, 16, 1, 1)
Gpu == Native("gpu", 4176, 16, 1, 6)
Net == Native("net", 4096, 16, 2, 1)

Boot == <<SelfTest, Balloon, Blk, Gpu, Net>>
Cur == Boot[turn]

(* The feature table folded into a mask: VERSION_1 is always in it.         *)
DriverFeatures(c) == c.feats \cup {"version_1"}

(* The functions walk_virtio_devices calls back for.                        *)
VirtioFunctions(b) == Scanned(b)

(* A device that was reset (status counts reset, ACKNOWLEDGE, DRIVER,       *)
(* FEATURES_OK, DRIVER_OK from 1 to 5): its status, queues, features and    *)
(* configuration vector are gone; bus mastering and MSI-X Enable belong to  *)
(* PCI and stay.                                                            *)
ResetRegs(r) == [r EXCEPT !.status = 1, !.accepted = {}, !.active = {}, !.vector = FALSE]

BusInit ==
    /\ Init
    /\ bus \in Machines
    /\ turn = 1 /\ spot = None /\ stage = "count" /\ q = 1
    /\ todo = VirtioFunctions(bus)
    /\ dev = [p \in DOMAIN bus |-> [status |-> 1, accepted |-> {}, active |-> {},
                                    vector |-> FALSE, master |-> FALSE,
                                    msix |-> FALSE, entry |-> None]]
    /\ vdev = [p \in DOMAIN bus |-> {}]
    /\ holder = [p \in DOMAIN bus |-> 0]
    /\ wired = {} /\ news = {} /\ REGISTRY = {} /\ panic = FALSE

(* The boot stack runs one call at a time.                                  *)
Boots == turn <= Len(Boot) /\ ~ panic /\ \A d \in Drivers : pc[d] \in {"idle", "bound"}
At(s) == Boots /\ stage = s

Move(s) == stage' = s /\ UNCHANGED <<bus, turn, spot, todo, q, REGISTRY>>
Leave == stage' = "look" /\ spot' = None /\ q' = 1 /\ UNCHANGED <<bus, turn, todo, REGISTRY>>
NextTurn ==
    /\ turn' = turn + 1 /\ spot' = None /\ stage' = "look" /\ q' = 1
    /\ todo' = VirtioFunctions(bus) /\ UNCHANGED bus
Panic == panic' = TRUE /\ UNCHANGED <<bus, turn, spot, todo, stage, q, REGISTRY>>

Regs(r) == dev' = [dev EXCEPT ![spot] = r]
Here == bus[spot]
Now == dev[spot]

-----------------------------------------------------------------------------
(* The VIRTIO_ID of a function.  A transitional device (0x1000 .. 0x103F)   *)
(* has it in its subsystem id, a modern one (0x1040 ..) in its device id.   *)
PciToVirtioId(r) ==
    IF r.pci \in 4096 .. 4159 THEN r.subsys
    ELSE IF r.pci \in 4160 .. 4223 THEN r.pci - 4160 ELSE 0

MatchIdTable(c, r) == c.ids = {} \/ PciToVirtioId(r) \in c.ids

(* try_resolve: without one of these three capabilities there is no device. *)
TryResolve(r) == {"common", "notify", "device"} \subseteq r.caps

(* The largest power of two that is at most n and 128, 0 for 0; the mutant  *)
(* has a larger cap.                                                        *)
Powers == {1, 2, 4, 8, 16, 32, 64, 128, 256, 512, 1024, 2048, 4096, 8192, 16384, 32768}
Pow2Capped(n, cap) ==
    LET fit == {p \in Powers : p <= n /\ p <= cap}
    IN IF n = 0 THEN 0 ELSE CHOOSE p \in fit : \A r \in fit : r <= p
Pow2AtMostLarge(n) == Pow2Capped(n, 256)

Pow2AtMost(n) == Pow2Capped(n, 128)

(* The bytes of Virtqueue::new's layout: descriptors, available and used    *)
(* ring, the last one aligned to 4.                                         *)
RingBytes(n) == LET used_offset == ((16 * n + 4 + 2 * n + 3) \div 4) * 4
                IN used_offset + 4 + 8 * n

QueueMax(r, i) == IF i \in DOMAIN r.qmax THEN r.qmax[i] ELSE 0

(* What holds of a machine: its places are senders of their own, function 0 *)
(* of a device is there, as PCI demands, and the ids of a function agree    *)
(* with its kind.                                                           *)
ASSUME BusAssumption ==
    /\ None \notin Slots /\ Drivers \cap Others = {}
    /\ \A b \in Machines : \A p \in DOMAIN b :
         /\ p \in Others /\ Present(b, p[1], 0)
         /\ b[p].qmax \in Seq(Nat)
         /\ PciToVirtioId(b[p]) = 5 => b[p].kind = "balloon"
         /\ \A c \in {Blk, Gpu, Net} : b[p].pci = c.pci => b[p].kind = c.name

-----------------------------------------------------------------------------
(* linuxkpi::self_test counts the devices before it registers its driver.   *)
SelfTestCount ==
    /\ At("count")
    /\ IF Cardinality(VirtioFunctions(bus)) < MinVirtio
       THEN Panic ELSE Move("look") /\ UNCHANGED panic
    /\ UNCHANGED <<dev, vdev, wired, holder, news, poolVars, pciVars>>

(* register_virtio_driver at the next function of walk_virtio_devices: it   *)
(* passes over it, or enables bus mastering and resets the device.          *)
Visit ==
    /\ At("look") /\ Cur.shim
    /\ \E p \in todo :
         /\ \A r \in todo \ {p} : Before(p, r)
         /\ todo' = todo \ {p}
         /\ IF MatchIdTable(Cur, bus[p]) /\ TryResolve(bus[p])
            THEN /\ spot' = p /\ stage' = "ack"
                 /\ dev' = [dev EXCEPT ![p] = [ResetRegs(@) EXCEPT !.master = TRUE]]
            ELSE UNCHANGED <<spot, stage, dev>>
    /\ UNCHANGED <<bus, turn, q, vdev, wired, holder, news, REGISTRY, panic, poolVars, pciVars>>

(* The end of register_virtio_driver.  The self-test asserts that its probe *)
(* ran for every device, and unregisters its driver.                        *)
Registered ==
    /\ At("look") /\ Cur.shim /\ todo = {}
    /\ IF Cur = SelfTest
       THEN IF \A p \in VirtioFunctions(bus) : TryResolve(bus[p])
            THEN NextTurn /\ UNCHANGED <<REGISTRY, panic>>
            ELSE Panic
       ELSE NextTurn /\ REGISTRY' = REGISTRY \cup {turn} /\ UNCHANGED panic
    /\ UNCHANGED <<dev, vdev, wired, holder, news, poolVars, pciVars>>

(* find_device and the reset of init_transport.  Without a device the net   *)
(* driver panics, the others give up.  The mutant takes any virtio device.  *)
FindDeviceWith(ids) ==
    /\ At("look") /\ ~ Cur.shim
    /\ LET found == {p \in Visited(bus) : bus[p].pci \in ids /\ TryResolve(bus[p])}
       IN IF found = {}
          THEN /\ IF Cur = Net THEN Panic ELSE NextTurn /\ UNCHANGED <<REGISTRY, panic>>
               /\ UNCHANGED dev
          ELSE \E p \in found :
                 /\ \A r \in found \ {p} : Before(p, r)
                 /\ spot' = p /\ stage' = "ack"
                 /\ dev' = [dev EXCEPT ![p] = ResetRegs(@)]
                 /\ UNCHANGED <<bus, turn, todo, q, REGISTRY, panic>>
    /\ UNCHANGED <<vdev, wired, holder, news, poolVars, pciVars>>

FindDeviceAny == FindDeviceWith(4096 .. 4223)

FindDevice == FindDeviceWith({Cur.pci})

-----------------------------------------------------------------------------
(* init_transport: ACKNOWLEDGE, DRIVER.                                     *)
Handshake ==
    /\ At("ack") \/ At("driver")
    /\ Regs([Now EXCEPT !.status = @ + 1])
    /\ Move(IF stage = "ack" THEN "driver" ELSE "features")
    /\ UNCHANGED <<vdev, wired, holder, news, panic, poolVars, pciVars>>

(* The features the transport writes: linuxkpi_virtio_init_transport        *)
(* intersects, and the shim keeps the result as vdev->features;             *)
(* virtio::init_transport does not.                                         *)
Intersected(c, r) == DriverFeatures(c) \cap r.offers
Written(c, r) == IF c.shim THEN Intersected(c, r) ELSE DriverFeatures(c)

(* What the shim keeps as vdev->features: the negotiated set.  The mutant   *)
(* is what virtio::init_transport returns.                                  *)
(* FEATURES_OK: a device keeps it only for features it offers, and need not *)
(* even then.  The assertion wants it kept.                                 *)
Negotiate ==
    /\ At("features")
    /\ \E kept \in BOOLEAN :
         /\ kept => Written(Cur, Here) \subseteq Here.offers
         /\ IF kept
            THEN /\ Regs([Now EXCEPT !.status = @ + 1, !.accepted = Written(Cur, Here)])
                 /\ vdev' = [vdev EXCEPT ![spot] =
                               IF Cur.shim THEN Intersected(Cur, Here) ELSE {}]
                 /\ Move(IF Cur.changed THEN "wire" ELSE IF Cur.shim THEN "validate" ELSE "queue")
                 /\ UNCHANGED panic
            ELSE Panic /\ UNCHANGED <<dev, vdev>>
    /\ UNCHANGED <<wired, holder, news, poolVars, pciVars>>

-----------------------------------------------------------------------------
(* setup_config_changed_msix up to the configuration vector.  It gives up   *)
(* without MSI-X, without a slot (alloc_slots adds and subtracts), without  *)
(* a table BAR (the slot stays taken), or when the device does not echo the *)
(* vector (MSI-X stays enabled).  Giving up is only logged.  The mutant     *)
(* leaves out the vector.                                                   *)
WireWith(vector) ==
    /\ At("wire")
    /\ IF Here.msix = "none" \/ NEXT_SLOT + 1 > SLOT_COUNT
       THEN Move("validate") /\ UNCHANGED <<NEXT_SLOT, dev>>
       ELSE /\ NEXT_SLOT' = NEXT_SLOT + 1
            /\ IF Here.msix = "nobar" THEN Move("validate") /\ UNCHANGED dev
               ELSE /\ Regs([Now EXCEPT !.entry = NEXT_SLOT, !.msix = TRUE,
                                        !.vector = vector /\ Here.msix = "ok"])
                    /\ Move(IF Here.msix = "ok" THEN "request" ELSE "validate")
    /\ UNCHANGED <<vdev, wired, holder, news, panic, SLOTS, sent, pciVars>>

WireNoVector == WireWith(FALSE)
Wire == WireWith(TRUE)

(* The rest of it: request_irq with a context that names the virtio_device. *)
RequestConfigIrq ==
    /\ At("request")
    /\ SLOTS' = [SLOTS EXCEPT ![Now.entry] = spot]
    /\ wired' = wired \cup {spot}
    /\ Move("validate")
    /\ UNCHANGED <<dev, vdev, holder, news, panic, NEXT_SLOT, sent, pciVars>>

(* A driver that refuses or declines: the device is reset, everything the   *)
(* registration made for it stays.  The mutant forgets the reset.           *)
DeclineNoReset == Leave /\ UNCHANGED dev

Decline == Leave /\ Regs(ResetRegs(Now))

(* validate clears bits of the virtio_device with __virtio_clear_bit.       *)
Validate ==
    /\ At("validate")
    /\ vdev' = [vdev EXCEPT ![spot] = @ \ Cur.clears]
    /\ Decline \/ (Move("probe") /\ UNCHANGED dev)
    /\ UNCHANGED <<wired, holder, news, panic, poolVars, pciVars>>

(* probe, up to virtio_find_vqs.                                            *)
Probe ==
    /\ At("probe")
    /\ Decline \/ (Cur.binds /\ Move("queue") /\ UNCHANGED dev)
    /\ UNCHANGED <<vdev, wired, holder, news, panic, poolVars, pciVars>>

(* One round of virtio_find_vqs.  A queue without a name is passed over, a  *)
(* queue the device does not have makes it fail with the earlier ones on.   *)
FindVqs ==
    /\ At("queue") /\ Cur.shim /\ q <= Len(Cur.queues)
    /\ LET size == Pow2AtMost(QueueMax(Here, q))
       IN IF Cur.queues[q] \in vdev[spot] /\ size = 0
          THEN Decline
          ELSE /\ q' = q + 1
               /\ IF Cur.queues[q] \in vdev[spot]
                  THEN Regs([Now EXCEPT !.active = @ \cup {<<q, size>>}])
                  ELSE UNCHANGED dev
               /\ UNCHANGED <<bus, turn, spot, todo, stage, REGISTRY>>
    /\ UNCHANGED <<vdev, wired, holder, news, panic, poolVars, pciVars>>

(* virtio_device_ready, and probe returns 0.                                *)
DeviceReady ==
    /\ At("queue") /\ Cur.shim /\ q > Len(Cur.queues)
    /\ Regs([Now EXCEPT !.status = 5])
    /\ Move("bound")
    /\ UNCHANGED <<vdev, wired, holder, news, panic, poolVars, pciVars>>

ProbeReturns ==
    /\ At("bound")
    /\ holder' = [holder EXCEPT ![spot] = turn]
    /\ Leave
    /\ UNCHANGED <<dev, vdev, wired, news, panic, poolVars, pciVars>>

-----------------------------------------------------------------------------
(* The native drivers: activate_queue for each queue, then set_driver_ok.   *)
ActivateQueue ==
    /\ At("queue") /\ ~ Cur.shim
    /\ IF q <= Cur.queues
       THEN IF QueueMax(Here, q) < Cur.size
            THEN Panic /\ UNCHANGED dev
            ELSE /\ Regs([Now EXCEPT !.active = @ \cup {<<q, Cur.size>>}])
                 /\ q' = q + 1
                 /\ UNCHANGED <<bus, turn, spot, todo, stage, REGISTRY, panic>>
       ELSE /\ Regs([Now EXCEPT !.status = 5])
            /\ stage' = "submit" /\ q' = 1
            /\ UNCHANGED <<bus, turn, spot, todo, REGISTRY, panic>>
    /\ UNCHANGED <<vdev, wired, holder, news, poolVars, pciVars>>

(* One request at a time: a chain is pushed and the device notified; the    *)
(* used ring is polled a bounded number of times; the answer is checked.    *)
Submit ==
    /\ At("submit") /\ q <= Cur.requests
    /\ Move("poll")
    /\ UNCHANGED <<dev, vdev, wired, holder, news, panic, poolVars, pciVars>>

DeviceAnswers ==
    /\ At("poll")
    /\ Move("good") \/ Move("bad")
    /\ UNCHANGED <<dev, vdev, wired, holder, news, panic, poolVars, pciVars>>

CheckAnswer ==
    /\ IF At("good")
       THEN /\ stage' = "submit" /\ q' = q + 1
            /\ UNCHANGED <<bus, turn, spot, todo, REGISTRY, panic>>
       ELSE (At("bad") \/ At("poll")) /\ Panic
    /\ UNCHANGED <<dev, vdev, wired, holder, news, poolVars, pciVars>>

SmokeReturns ==
    /\ At("submit") /\ q > Cur.requests
    /\ holder' = [holder EXCEPT ![spot] = turn]
    /\ NextTurn
    /\ UNCHANGED <<dev, vdev, wired, news, REGISTRY, panic, poolVars, pciVars>>

-----------------------------------------------------------------------------
(* The configuration of a live device changes.  It sends a message if it    *)
(* has a vector, MSI-X is enabled and it may master the bus.                *)
ConfigChange(p) ==
    /\ dev[p].status = 5 /\ ~ panic
    /\ news' = news \cup ({p} \cap wired)
    /\ sent' = IF dev[p].vector /\ dev[p].msix /\ dev[p].master
               THEN sent \cup {[dev |-> p, slot |-> dev[p].entry]} ELSE sent
    /\ UNCHANGED <<bus, turn, spot, todo, stage, q, dev, vdev, wired, holder, REGISTRY, panic,
                   NEXT_SLOT, SLOTS, pciVars>>

(* dispatch_common, and config_changed_irq_dispatch when the handler is a   *)
(* virtio one: the driver hears of the device its context names.            *)
Dispatch(m) ==
    /\ ~ panic
    /\ DispatchCommon(m)
    /\ news' = news \ {SLOTS[m.slot]}
    /\ UNCHANGED <<bus, turn, spot, todo, stage, q, dev, vdev, wired, holder, REGISTRY, panic>>

(* PCI drivers call between the calls of the boot.                          *)
PciStep ==
    /\ ~ panic /\ spot = None
    /\ \/ \E d \in Drivers, n \in 1 .. MaxVecs : AllocSlots(d, n)
       \/ \E d \in Drivers : Rollback(d) \/ ProgramMsix(d) \/ FreeVectors(d)
       \/ \E d \in Drivers, s \in Slots : RequestIrq(d, s) \/ FreeIrq(d, s)
    /\ UNCHANGED busVars

BootStep ==
    \/ SelfTestCount \/ Visit \/ Registered \/ FindDevice
    \/ Handshake \/ Negotiate \/ Wire \/ RequestConfigIrq \/ Validate \/ Probe
    \/ FindVqs \/ DeviceReady \/ ProbeReturns
    \/ ActivateQueue \/ Submit \/ CheckAnswer \/ SmokeReturns

BusNext ==
    \/ BootStep \/ DeviceAnswers \/ PciStep
    \/ \E p \in DOMAIN bus : ConfigChange(p)
    \/ \E d \in Drivers, s \in Slots : ~ panic /\ DeviceSends(d, s) /\ UNCHANGED busVars
    \/ \E m \in sent : Dispatch(m)

(* A message in the local APIC is delivered once interrupts are on.         *)
BusSpec ==
    /\ BusInit /\ [][BusNext]_allVars
    /\ \A p \in UNION {DOMAIN b : b \in Machines} :
         WF_allVars(\E m \in sent : m.dev = p /\ Dispatch(m))

-----------------------------------------------------------------------------
Live(p) == dev[p].status = 5

(* A driver that found its device keeps it: no later driver resets it or    *)
(* takes it over, although nothing records that it is taken; and what a     *)
(* driver keeps is of its kind, whether it is found by VIRTIO_ID or PCI id. *)
KeptDevices ==
    [][\A p \in DOMAIN bus :
         /\ holder[p] # 0 => Live(p)' /\ holder'[p] = holder[p]
         /\ holder'[p] # 0 => Boot[holder'[p]].name = bus[p].kind]_allVars

(* A device is live only with all that its driver relies on.  It may master *)
(* the bus, which no native driver enables: they live on what the           *)
(* registration of the self-test driver did.  It has accepted the features  *)
(* virtio_has_feature reports, out of its own offer.  And it has every      *)
(* queue its driver uses, each a power of two that the device offers and    *)
(* that fits in the one frame Virtqueue::new allocates.                     *)
LiveIsComplete ==
    \A p \in DOMAIN bus :
      /\ dev[p].accepted \subseteq bus[p].offers
      /\ \A e \in dev[p].active :
           /\ e[2] <= QueueMax(bus[p], e[1]) /\ e[2] \in Powers
           /\ RingBytes(e[2]) <= 4096
      /\ Live(p) => dev[p].master /\ vdev[p] \subseteq dev[p].accepted
      /\ Live(p) /\ holder[p] # 0 =>
           LET c == Boot[holder[p]]
           IN {e[1] : e \in dev[p].active} =
                IF c.shim THEN {i \in DOMAIN c.queues : c.queues[i] \in vdev[p]} ELSE 1 .. c.queues

(* A device nobody keeps and nobody is setting up is as after a reset,      *)
(* however far a driver that declined it had come.                          *)
DeclinedIsClean ==
    \A p \in DOMAIN bus : holder[p] = 0 /\ p # spot => dev[p] = ResetRegs(dev[p])

(* The driver hears of every change of a device wired for it.               *)
ChangesHeard ==
    \A p \in UNION {DOMAIN b : b \in Machines} : (p \in news) ~> (p \notin news \/ panic)
=============================================================================
