--------------------------------- MODULE Xhci ---------------------------------
(***************************************************************************)
(* The xHCI driver (xhci.rs) with the controller and the USB devices:      *)
(* bring-up, the event ring with its cycle bit and ERDP, port reset, the   *)
(* No-Op command, enumeration of every port, the read of a USB disk, and   *)
(* the hand-over of the event ring to the HID poll task, whose interrupt   *)
(* endpoint is a ring with a Link TRB.                                     *)
(*                                                                         *)
(* The driver is boot code and waits for each request it makes, so one     *)
(* request is outstanding; the controller, the devices and the interrupt   *)
(* run between its steps.  A device is its configuration descriptor: a     *)
(* sequence of descriptors named for what the driver looks for.  Contexts, *)
(* SETUP packets and register encodings are left out.                      *)
(***************************************************************************)
EXTENDS PciScan, Sequences

CONSTANTS
    Machines,   \* records [bus, on, scratch, cfgs]; cfgs has one entry per port
    ERing,      \* EVENT_RING_TRBS
    EpRing,     \* EP_RING_TRBS
    Usages,     \* usage codes of the keys that are typed
    MaxKeys,    \* bound: keys pressed
    MaxReports, \* bound: reports the keyboard buffers
    MaxPsc,     \* bound: port changes that no reset asked for
    None

(* HidState of xhci.rs: the cursor on the event ring, the enqueue index and *)
(* cycle of the endpoint's ring, and the keys of the last report.           *)
HidStates ==
    [deq : 0 .. ERing - 1, ccs : {0, 1}, enq : 0 .. EpRing - 1, cyc : {0, 1},
     prev : Seq(Usages)]

ASSUME XhciAssumption ==
    /\ ERing \in Nat \ {0, 1} /\ EpRing \in Nat \ {0, 1}
    /\ None \notin HidStates
    /\ \A mc \in Machines : Len(mc.cfgs) \in Nat
    /\ MaxKeys \in Nat /\ MaxPsc \in Nat /\ MaxReports \in Nat
    \* ERDP stays put until the No-Op is answered: the ring holds it all
    /\ \A mc \in Machines : Len(mc.cfgs) + MaxPsc + 1 < ERing

VARIABLES
    machine,
    pc,         \* where the boot code is: the request, or the place between
    waiting,    \* it has made the request pc and waits for the event
    n,          \* the port it is at
    cc,         \* completion code of the No-Op
    cur,        \* event_deq and event_ccs of the boot code
    fault,      \* hardware has failed or memory has run out
    ctl,        \* the controller: USBCMD.RS and USBSTS as one state
    msix,       \* MSI-X is enabled, entry 0 points at the vector
    programmed, \* the operational and interrupter registers have been written
    ring,       \* the event ring
    prod,       \* the controller's enqueue index and cycle
    erdp,       \* where it believes the consumer is
    work,       \* the request the controller holds
    answer,     \* number of the event that answers the last request
    posted, taken,      \* events written and consumed so far
    resetting, ped,     \* ports being reset, ports enabled
    psc,        \* unsolicited port changes so far
    irr,        \* a message is pending at the local APIC
    irq_seen,   \* XHCI_IRQ_COUNT has passed 0
    sector, csw,        \* what the disk has written to the buffers
    hid,        \* HidState: cursor, enqueue, cycle, prev; or None
    hid_pc,     \* where the poll task is in service
    ep, ep_dev, \* the interrupt endpoint's ring and the controller's side of it
    report,     \* the report buffer
    held, reports,      \* keys held down; reports the keyboard has to send
    keys, typed,        \* keys pressed so far, and their characters in order
    injected    \* what decode_report has given to kbd::inject

boot == <<machine, pc, waiting, n, cc, cur>>
regs == <<ctl, programmed, msix>>
evring == <<ring, prod, posted>>
irq == <<irr, irq_seen>>
portvars == <<resetting, ped, psc>>
disk == <<sector, csw>>
poller == <<hid, hid_pc, ep, injected>>
keyboard == <<held, reports, keys, typed>>
endpoint == <<ep_dev, report, keyboard>>
vars == <<boot, fault, regs, evring, erdp, work, answer, taken, portvars, irq,
          disk, poller, endpoint>>

Elements(s) == {s[i] : i \in DOMAIN s}
NPorts == Len(machine.cfgs)
NoTrb == [t |-> "none", cycle |-> 0, cc |-> 0, num |-> 0]
NoReport == [shift |-> FALSE, keys |-> <<>>]
Start == [deq |-> 0, ccs |-> 1]

Init ==
    /\ machine \in Machines
    /\ pc = "run" /\ waiting = FALSE /\ n = 1 /\ cc = 0 /\ cur = Start
    /\ fault = FALSE
    /\ ctl = (IF machine.on THEN "running" ELSE "halted") /\ programmed = FALSE /\ msix = FALSE
    /\ ring = [i \in 0 .. ERing - 1 |-> NoTrb] /\ prod = Start /\ posted = 0
    /\ erdp = 0 /\ work = None /\ answer = 0 /\ taken = 0
    /\ resetting = {} /\ ped = {} /\ psc = 0
    /\ irr = FALSE /\ irq_seen = FALSE
    /\ sector = "zero" /\ csw = "zero"
    /\ hid = None /\ hid_pc = "poll" /\ injected = <<>>
    /\ ep = [i \in 0 .. EpRing - 1 |-> NoTrb] /\ ep_dev = Start
    /\ report = NoReport
    /\ held = <<>> /\ reports = <<>> /\ keys = 0 /\ typed = <<>>

-----------------------------------------------------------------------------
(* The controller and the devices; external.                                *)

Post(t, code) ==
    LET next == (prod.deq + 1) % ERing
    IN /\ next # erdp                           \* the ring is not full
       /\ ring' = [ring EXCEPT ![prod.deq] =
                     [t |-> t, cycle |-> prod.ccs, cc |-> code, num |-> posted + 1]]
       /\ prod' = [deq |-> next, ccs |-> IF next = 0 THEN 1 - prod.ccs ELSE prod.ccs]
       /\ posted' = posted + 1

(* Halting, resetting and starting take their time.                         *)
CtlSettles ==
    /\ ctl \in {"halting", "resetting", "starting"}
    /\ ctl' = CASE ctl = "halting" -> "halted" [] ctl = "resetting" -> "ready" [] OTHER -> "running"
    /\ UNCHANGED <<boot, fault, programmed, msix, evring, erdp, work, answer, taken, portvars, irq,
                   disk, poller, endpoint>>

(* A port comes out of reset, enabled or not; or changes by itself.         *)
PortChange ==
    /\ ctl = "running" /\ programmed
    /\ Post("psc", 1)
    /\ \/ \E p \in resetting :
             /\ resetting' = resetting \ {p}
             /\ ped' \in {ped, ped \cup {p}}
             /\ UNCHANGED psc
       \/ /\ psc < MaxPsc /\ psc' = psc + 1
          /\ UNCHANGED <<resetting, ped>>
    /\ UNCHANGED <<boot, fault, regs, erdp, work, answer, taken, irq, disk, poller, endpoint>>

Codes == {1, 4, 13}     \* success, transaction error, short packet

(* The answer to the request; data and status stages write their buffers.   *)
Complete(code) ==
    /\ work # None
    /\ Post(work.t, code)
    /\ work' = None /\ answer' = posted + 1
    /\ sector' \in IF work.step = "data" THEN (IF code = 1 THEN {"boot", "other"} ELSE {"part"}) ELSE {sector}
    /\ csw' \in IF work.step = "csw" /\ code = 1 THEN {"passed", "failed"} ELSE {csw}
    /\ fault' = (fault \/ code # 1 \/ sector' \in {"part", "other"} \/ csw' = "failed")
    /\ UNCHANGED <<boot, regs, erdp, taken, portvars, irq, poller, endpoint>>

(* The message for events the consumer has not passed.  EHB keeps others    *)
(* away until ERDP is written, and then the count no longer matters.        *)
Signal ==
    /\ programmed /\ msix /\ prod.deq # erdp /\ ~irr /\ ~irq_seen
    /\ irr' = TRUE
    /\ UNCHANGED <<boot, fault, regs, evring, erdp, work, answer, taken, portvars, irq_seen,
                   disk, poller, endpoint>>

(* hid_usage_to_ascii; 0 stands for None.                                   *)
HidUsageToAscii(u, shift) ==
    CASE u \in 4 .. 29 -> IF shift THEN 65 + (u - 4) ELSE 97 + (u - 4)
      [] u \in 30 .. 38 -> 49 + (u - 30)
      [] u = 39 -> 48
      [] u = 40 -> 10
      [] u = 42 -> 8
      [] u = 43 -> 9
      [] u = 44 -> 32
      [] u = 45 -> IF shift THEN 95 ELSE 45
      [] u = 46 -> IF shift THEN 43 ELSE 61
      [] u = 54 -> IF shift THEN 60 ELSE 44
      [] u = 55 -> IF shift THEN 62 ELSE 46
      [] u = 56 -> IF shift THEN 63 ELSE 47
      [] OTHER -> 0

Characters(us, shift) ==
    SelectSeq([i \in DOMAIN us |-> HidUsageToAscii(us[i], shift)], LAMBDA c : c # 0)

(* A key goes down or up; the keyboard reports what is held.                *)
Press(u, shift) ==
    /\ hid # None /\ keys < MaxKeys /\ Len(reports) < MaxReports
    /\ u \notin Elements(held)
    /\ held' = Append(held, u)
    /\ reports' = Append(reports, [shift |-> shift, keys |-> held'])
    /\ keys' = keys + 1
    /\ typed' = typed \o Characters(<<u>>, shift)
    /\ UNCHANGED <<boot, fault, regs, evring, erdp, work, answer, taken, portvars, irq,
                   disk, poller, ep_dev, report>>
Release(u) ==
    /\ Len(reports) < MaxReports
    /\ \E i \in DOMAIN held :
          held[i] = u /\ held' = SubSeq(held, 1, i - 1) \o SubSeq(held, i + 1, Len(held))
    /\ reports' = Append(reports, [shift |-> FALSE, keys |-> held'])
    /\ UNCHANGED <<boot, fault, regs, evring, erdp, work, answer, taken, portvars, irq,
                   disk, poller, keys, typed, ep_dev, report>>

(* The interrupt endpoint: follow a Link TRB, or complete a transfer with   *)
(* the next report.                                                         *)
EpStep ==
    LET trb == ep[ep_dev.deq]
    IN /\ hid # None /\ trb.cycle = ep_dev.ccs
       /\ \/ /\ trb.t = "link"
             /\ ep_dev' = [deq |-> 0, ccs |-> 1 - ep_dev.ccs]
             /\ UNCHANGED <<evring, report, reports>>
          \/ /\ trb.t = "normal" /\ reports # <<>>
             /\ Post("xfer", 1)
             /\ report' = Head(reports) /\ reports' = Tail(reports)
             /\ ep_dev' = [ep_dev EXCEPT !.deq = @ + 1]
       /\ UNCHANGED <<boot, fault, regs, erdp, work, answer, taken, portvars, irq, disk,
                      poller, held, keys, typed>>

-----------------------------------------------------------------------------
(* The boot code.                                                           *)

Goto(next) == pc' = next
NextPort == pc' = "enumerate" /\ n' = n + 1
KeepDevices == UNCHANGED <<machine, evring, answer, psc, ped, disk, endpoint>>

(* run: silent without a controller; scratchpad buffers are not supported.  *)
Run ==
    /\ pc = "run"
    /\ Goto(CASE FirstOfAll(machine.bus, "xhci") = {} -> "done"
              [] machine.scratch -> "panic"
              [] OTHER -> "reset")
    /\ fault' = machine.scratch
    /\ UNCHANGED <<waiting, n, cc, cur, regs, erdp, work, taken, resetting, irq, poller>> /\ KeepDevices

(* A running controller is halted, then reset.                              *)
Reset ==
    /\ \/ pc = "reset" /\ ctl = "running" /\ ctl' = "halting" /\ Goto("wait_halt")
       \/ pc = "reset" /\ ctl = "halted" /\ ctl' = "resetting" /\ Goto("wait_reset")
       \/ pc = "wait_halt" /\ ctl = "halted" /\ ctl' = "resetting" /\ Goto("wait_reset")
    /\ UNCHANGED <<waiting, n, cc, cur, fault, programmed, msix, erdp, work, taken, resetting, irq, poller>>
    /\ KeepDevices

(* CNR is waited for.                                                       *)
WaitReset ==
    /\ pc = "wait_reset" /\ ctl = "ready"
    /\ Goto("program")
    /\ UNCHANGED <<waiting, n, cc, cur, fault, regs, erdp, work, taken, resetting, irq, poller>>
    /\ KeepDevices

(* The rings, a vector, and program_msix_entry.                             *)
ProgramMsixEntry ==
    /\ pc = "program" /\ ~msix
    /\ msix' = TRUE
    /\ UNCHANGED <<pc, waiting, n, cc, cur, fault, ctl, programmed, erdp, work, taken, resetting, irq, poller>>
    /\ KeepDevices

(* The operational and interrupter registers, then RS.                      *)
Program ==
    /\ pc = "program" /\ msix
    /\ programmed' = TRUE /\ ctl' = "starting" /\ erdp' = 0
    /\ Goto("wait_run")
    /\ UNCHANGED <<waiting, n, cc, cur, fault, msix, work, taken, resetting, irq, poller>> /\ KeepDevices

WaitRun ==
    /\ pc = "wait_run" /\ ctl = "running"
    /\ Goto("reset_ports")
    /\ UNCHANGED <<waiting, n, cc, cur, fault, regs, erdp, work, taken, resetting, irq, poller>>
    /\ KeepDevices

Connected(p) == machine.cfgs[p] # None

(* reset_connected_ports.                                                   *)
ResetPort ==
    /\ pc = "reset_ports" /\ n <= NPorts
    /\ IF Connected(n) THEN resetting' = resetting \cup {n} /\ Goto("wait_port") /\ UNCHANGED n
                       ELSE n' = n + 1 /\ UNCHANGED <<resetting, pc>>
    /\ UNCHANGED <<waiting, cc, cur, fault, regs, erdp, work, taken, irq, poller>> /\ KeepDevices

(* The reset is done, or POLL_LIMIT polls have not seen it done.            *)
WaitPort ==
    /\ pc = "wait_port"
    /\ n' = n + 1 /\ Goto("reset_ports")
    /\ UNCHANGED <<waiting, cc, cur, fault, regs, erdp, work, taken, resetting, irq, poller>>
    /\ KeepDevices

PortsReset ==
    /\ pc = "reset_ports" /\ n > NPorts
    /\ n' = 1 /\ Goto("noop")
    /\ UNCHANGED <<waiting, cc, cur, fault, regs, erdp, work, taken, resetting, irq, poller>>
    /\ KeepDevices

Commands == {"noop", "enable_slot", "address_device", "configure_hid", "configure_disk"}
Transfers == {"desc_device", "desc_config", "desc_full", "set_config", "cbw", "data", "csw"}
Requests == Commands \cup Transfers
Kind(step) == IF step \in Commands THEN "cmd" ELSE "xfer"

(* push_command, control_in, control_no_data, bulk_normal: the TRBs, the    *)
(* doorbell, and then the wait.  The buffers of a disk are a fresh frame.   *)
Issue ==
    /\ pc \in Requests /\ ~waiting
    /\ work' = [t |-> Kind(pc), step |-> pc]
    /\ waiting' = TRUE
    /\ IF pc = "cbw" THEN sector' = "zero" /\ csw' = "zero" ELSE UNCHANGED disk
    /\ UNCHANGED <<machine, pc, n, cc, cur, fault, regs, evring, erdp, answer, taken, portvars, irq,
                   poller, endpoint>>

(* xhci_irq_handler; the code has executed sti while it waits.              *)
XhciIrqHandler ==
    /\ irr /\ (waiting \/ pc = "done")
    /\ irr' = FALSE /\ irq_seen' = TRUE
    /\ UNCHANGED <<boot, fault, regs, evring, erdp, work, answer, taken, portvars,
                   disk, poller, endpoint>>

Consume(c) == [deq |-> (c.deq + 1) % ERing, ccs |-> IF c.deq + 1 = ERing THEN 1 - c.ccs ELSE c.ccs]

Available(c) == ring[c.deq].cycle = c.ccs

(* The No-Op: events are consumed up to the command completion, ERDP stays. *)
DrainNoOp ==
    /\ pc = "noop" /\ waiting /\ Available(cur)
    /\ cur' = Consume(cur) /\ taken' = taken + 1
    /\ IF ring[cur.deq].t = "cmd"
       THEN waiting' = FALSE /\ cc' = ring[cur.deq].cc /\ Goto("noop_done")
       ELSE UNCHANGED <<waiting, cc, pc>>
    /\ UNCHANGED <<n, fault, regs, erdp, work, resetting, irq, poller>> /\ KeepDevices

(* ERDP, and the assertions that a message has arrived and the code is 1.   *)
NoOpDone ==
    /\ pc = "noop_done"
    /\ erdp' = cur.deq
    /\ Goto(CASE ~irq_seen -> "panic_no_msi" [] cc # 1 -> "panic" [] OTHER -> "enumerate")
    /\ UNCHANGED <<waiting, n, cc, cur, fault, regs, work, taken, resetting, irq, poller>> /\ KeepDevices

(* enumerate: every port that is connected and enabled.                     *)
Enumerate ==
    /\ pc = "enumerate"
    /\ IF n > NPorts THEN Goto("done") /\ UNCHANGED n
       ELSE IF Connected(n) /\ n \in ped THEN Goto("enable_slot") /\ UNCHANGED n
       ELSE NextPort
    /\ UNCHANGED <<waiting, cc, cur, fault, regs, erdp, work, taken, resetting, irq, poller>>
    /\ KeepDevices

(* The descriptors the walks of the configuration see: they stop at one     *)
(* whose length is wrong.                                                   *)
Walked(cfg) ==
    LET bad == {i \in DOMAIN cfg : cfg[i] = "bad"}
    IN SubSeq(cfg, 1, IF bad = {} THEN Len(cfg) ELSE (CHOOSE i \in bad : \A j \in bad : i <= j) - 1)

(* first_interface; "none" stands for the zeros it returns without one.     *)
FirstInterface(cfg) ==
    LET ifs == SelectSeq(Walked(cfg), LAMBDA d : d \in {"keyboard", "storage", "hub"})
    IN IF ifs = <<>> THEN "none" ELSE ifs[1]

(* find_interrupt_in_endpoint, find_bulk_endpoints.                         *)
HasEndpoints(cfg, eps) == eps \subseteq Elements(Walked(cfg))

(* What enumerate_port does with a configured device.                       *)
Configured(cfg) ==
    CASE FirstInterface(cfg) = "keyboard" /\ HasEndpoints(cfg, {"int_in"}) -> "configure_hid"
      [] FirstInterface(cfg) = "storage" /\ HasEndpoints(cfg, {"bulk_in", "bulk_out"}) -> "configure_disk"
      [] OTHER -> "enumerate"

(* setup_hid_keyboard and setup_mass_storage: Configure Endpoint; then the  *)
(* poller is set up, or one Bulk-Only transaction is run.                   *)
AfterHid(step) == "arm_hid"
AfterDisk(step) ==
    CASE step = "configure_disk" -> "cbw" [] step = "cbw" -> "data" [] step = "data" -> "csw" [] step = "csw" -> "validate"

(* enumerate_port.                                                          *)
After(step) ==
    CASE step = "enable_slot" -> "address_device"
      [] step = "address_device" -> "desc_device"
      [] step = "desc_device" -> "desc_config"
      [] step = "desc_config" -> "desc_full"
      [] step = "desc_full" -> "set_config"
      [] step = "set_config" -> Configured(machine.cfgs[n])
      [] step = "configure_hid" -> AfterHid(step)
      [] OTHER -> AfterDisk(step)

(* Bulk stages accept a short packet, the others success alone; a device    *)
(* that fails is left behind.                                               *)
Accepts(step) == IF step \in {"cbw", "data", "csw"} THEN {1, 13} ELSE {1}
Answered(code) ==
    LET next == IF code \in Accepts(pc) THEN After(pc) ELSE "enumerate"
    IN IF next = "enumerate" THEN NextPort ELSE Goto(next) /\ UNCHANGED n

(* next_event under wait_command or wait_transfer: an event of the kind     *)
(* that is waited for answers the request, any other is drained; passed is  *)
(* what ERDP is told.                                                       *)
NextEventOf(kinds, passed) ==
    /\ pc \in Requests \ {"noop"} /\ waiting /\ Available(cur)
    /\ cur' = Consume(cur) /\ taken' = taken + 1
    /\ erdp' = passed
    /\ IF ring[cur.deq].t \in kinds
       THEN waiting' = FALSE /\ Answered(ring[cur.deq].cc)
       ELSE UNCHANGED <<waiting, pc, n>>
    /\ UNCHANGED <<cc, fault, regs, work, resetting, irq, poller>> /\ KeepDevices

(* Mutants of NextEvent: a port change ends the wait; ERDP is not advanced. *)
NextEventAny == NextEventOf({"cmd", "xfer", "psc"}, Consume(cur).deq)
NextEventKeepsErdp == NextEventOf({Kind(pc)}, erdp)

NextEvent == NextEventOf({Kind(pc)}, Consume(cur).deq)

(* The assertions on the CSW and on the boot signature.                     *)
Validate ==
    /\ pc = "validate"
    /\ IF csw = "passed" /\ sector = "boot" THEN NextPort ELSE Goto("panic") /\ UNCHANGED n
    /\ UNCHANGED <<waiting, cc, cur, fault, regs, erdp, work, taken, resetting, irq, poller>>
    /\ KeepDevices

(* No frame is left, or POLL_LIMIT polls have not seen the event.           *)
Fails ==
    /\ waiting \/ pc \in {"wait_halt", "wait_reset", "wait_run", "program", "address_device",
                          "desc_device", "configure_hid", "configure_disk", "cbw"}
    /\ Goto("panic") /\ fault' = TRUE /\ waiting' = FALSE
    /\ UNCHANGED <<n, cc, cur, regs, erdp, work, taken, resetting, irq, poller>> /\ KeepDevices

-----------------------------------------------------------------------------
(* The interrupt endpoint of the keyboard.                                  *)

(* arm_report: a Link TRB with toggle when the last slot is reached, then   *)
(* the Normal TRB and the doorbell.  h is the HidState before it, toggled   *)
(* the producer cycle after a wrap.                                         *)
Trb(t, cycle) == [t |-> t, cycle |-> cycle, cc |-> 0, num |-> 0]
ArmReportWith(h, toggled) ==
    LET wrap == h.enq = EpRing - 1
        e == IF wrap THEN 0 ELSE h.enq
        c == IF wrap THEN toggled ELSE h.cyc
        linked == IF wrap THEN [ep EXCEPT ![h.enq] = Trb("link", h.cyc)] ELSE ep
    IN /\ ep' = [linked EXCEPT ![e] = Trb("normal", c)]
       /\ hid' = [h EXCEPT !.enq = e + 1, !.cyc = c]

(* Mutant of ArmReport: the producer cycle is kept when the ring wraps.     *)
ArmReportNoToggle(h) == ArmReportWith(h, h.cyc)

ArmReport(h) == ArmReportWith(h, 1 - h.cyc)

(* The end of setup_hid_keyboard: the poll task gets the cursor c, and the  *)
(* first transfer is armed.                                                 *)
ArmHidFrom(c) ==
    /\ pc = "arm_hid"
    /\ ArmReport([deq |-> c.deq, ccs |-> c.ccs, enq |-> 0, cyc |-> 1, prev |-> <<>>])
    /\ NextPort
    /\ UNCHANGED <<waiting, cc, cur, fault, regs, erdp, work, taken, resetting, irq, hid_pc, injected>>
    /\ KeepDevices

(* Mutant of ArmHid: the poller starts with the cycle state of a new ring.  *)
ArmHidFresh == ArmHidFrom([cur EXCEPT !.ccs = 1])

ArmHid == ArmHidFrom(cur)

(* try_event; any transfer event is a report.                               *)
TryEvent ==
    LET c == Consume([deq |-> hid.deq, ccs |-> hid.ccs])
    IN /\ pc = "done" /\ hid # None /\ hid_pc = "poll"
       /\ Available([deq |-> hid.deq, ccs |-> hid.ccs])
       /\ taken' = taken + 1 /\ erdp' = c.deq
       /\ hid' = [hid EXCEPT !.deq = c.deq, !.ccs = c.ccs]
       /\ hid_pc' = IF ring[hid.deq].t = "xfer" THEN "decode" ELSE "poll"
       /\ UNCHANGED <<waiting, n, pc, cc, cur, fault, regs, work, resetting, irq, ep, injected>>
       /\ KeepDevices

(* decode_report: the characters of the keys that prev does not hold.       *)
DecodeReport ==
    /\ hid_pc = "decode"
    /\ injected' = injected \o Characters(SelectSeq(report.keys, LAMBDA u : u \notin Elements(hid.prev)), report.shift)
    /\ hid' = [hid EXCEPT !.prev = report.keys]
    /\ hid_pc' = "arm"
    /\ UNCHANGED <<waiting, n, pc, cc, cur, fault, regs, erdp, work, taken, resetting, irq, ep>>
    /\ KeepDevices

Rearm ==
    /\ hid_pc = "arm" /\ hid_pc' = "poll"
    /\ ArmReport(hid)
    /\ UNCHANGED <<waiting, n, pc, cc, cur, fault, regs, erdp, work, taken, resetting, irq, injected>>
    /\ KeepDevices

-----------------------------------------------------------------------------
Driver ==
    \/ Run \/ Reset \/ WaitReset \/ ProgramMsixEntry \/ Program \/ WaitRun \/ ResetPort \/ WaitPort \/ PortsReset
    \/ Issue \/ DrainNoOp \/ NoOpDone \/ Enumerate \/ NextEvent \/ Validate \/ ArmHid

Poller == TryEvent \/ DecodeReport \/ Rearm

Controller == CtlSettles \/ (\E code \in Codes : Complete(code)) \/ EpStep

Typist == \E u \in Usages : Release(u) \/ \E shift \in BOOLEAN : Press(u, shift)

Next == Driver \/ Fails \/ Poller \/ Controller \/ PortChange \/ Signal \/ XhciIrqHandler \/ Typist

(* The boot code and the poll task run, the controller answers what it is   *)
(* asked and serves the endpoint.                                           *)
Fairness == WF_vars(Driver) /\ WF_vars(Poller) /\ WF_vars(CtlSettles) /\ WF_vars(EpStep)
            /\ WF_vars(\E code \in Codes : Complete(code))

Spec == Init /\ [][Next]_vars
FairSpec == Spec /\ Fairness

-----------------------------------------------------------------------------
(* Who consumes events now: the boot code until it is done, then the poller.*)
Consumer == IF pc = "done" /\ hid # None THEN [deq |-> hid.deq, ccs |-> hid.ccs] ELSE cur

(* The cycle bit tells the consumer the truth on every lap and across the   *)
(* hand-over to the poll task: what it sees at its cursor is the oldest     *)
(* event nobody has consumed, and it sees one exactly when there is one.    *)
EventsInOrder ==
    /\ Available(Consumer) <=> taken < posted
    /\ Available(Consumer) => ring[Consumer.deq].num = taken + 1

(* A wait ends with the event that answers the request it was for, not with *)
(* one left over or unsolicited, although neither wait_command nor          *)
(* wait_transfer looks at the slot or the TRB pointer.                      *)
CompletionIsOwn == [][waiting /\ ~waiting' /\ pc' # "panic" => taken' = answer]_vars

(* The bring-up ends, whatever ports change while it runs, and an assertion *)
(* of the driver fails only after a fault: a healthy disk is never read     *)
(* before it has answered.                                                  *)
BringUpEnds == <>(pc \in {"done", "panic_no_msi"} \/ (pc = "panic" /\ fault))

(* Every character typed on an armed keyboard arrives at the shell, once    *)
(* and in order, across keys held down together and laps of both rings.     *)
KeysArrive == (pc = "done" /\ injected # typed) ~> (injected = typed)
=============================================================================
