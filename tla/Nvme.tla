--------------------------------- MODULE Nvme ---------------------------------
(***************************************************************************)
(* The NVMe driver (nvme.rs) from the search for a controller to reads of  *)
(* sector 0, together with the controller: the register handshake of       *)
(* setup_admin, submission and completion rings with the phase tag, the    *)
(* MSI-X interrupt the read waits for, and the frames the controller       *)
(* writes by DMA.                                                          *)
(*                                                                         *)
(* The driver is boot code with interrupts off; the controller, and the    *)
(* interrupt once the code has executed sti, run between its steps.  A     *)
(* command is its operation, its identifier and the frame of prp1.  The    *)
(* status a completion carries is the status field without the phase tag.  *)
(***************************************************************************)
EXTENDS PciScan, Sequences

CONSTANTS
    Buses,      \* buses the machine may have
    QSize,      \* ADMIN_QUEUE_SIZE and IO_QUEUE_SIZE
    CidMod,     \* command identifiers wrap at CidMod (2^16 in the code)
    Frames,     \* the free frames, a sequence
    Statuses,   \* status fields the controller may report
    MaxReads,   \* bound: calls of smoke_read_sector_0
    None

ASSUME NvmeAssumption ==
    /\ QSize \in Nat \ {0, 1} /\ CidMod \in Nat \ {0, 1} /\ MaxReads \in Nat
    /\ 0 \in Statuses /\ Statuses \subseteq Nat
    /\ None # "read"

ASSUME FramesAssumption == Frames \in Seq({Frames[i] : i \in DOMAIN Frames})

Queues == {"admin", "io"}
Slots == 0 .. QSize - 1
NextSlot(i) == (i + 1) % QSize

VARIABLES
    bus,            \* the functions of the machine
    pc,             \* where the driver is
    step,           \* the request it is working on
    en, rdy,        \* CC.EN and CSTS.RDY
    admin_regs,     \* AQA, ASQ and ACQ have been programmed
    live,           \* the queues of the Controller that are Some(_)
    q,              \* NvmeQueue: sq_tail, cq_head, cq_phase, next_cid
    sq, cq,         \* the rings in memory
    created,        \* the queues the controller serves
    dev,            \* its side of each queue: heads, tails, phase
    busy,           \* commands it has fetched and not completed
    posted, taken,  \* completions written and consumed so far, per queue
    want,           \* the cid poll_qe expects
    pool, mem,      \* free frames (a stack) and what each frame holds
    buf,            \* the frame of the request in progress
    msix, irr,      \* MSI-X enabled; message pending at the local APIC
    intr,           \* the interrupt flag
    IO_IRQ_COUNT, target,
    reads,          \* calls of smoke_read_sector_0
    slipped,        \* a non-zero status has passed for success
    wrote,          \* the controller wrote the sector for the read in progress
    oks             \* ARSENAL_NVME_OK printed so far

driver == <<bus, step, live, taken, want, pool, buf, target, reads, slipped, oks>>
ctrl == <<en, rdy, admin_regs, created>>
rings == <<q, sq, cq, dev, busy, posted, mem, wrote>>
irqs == <<msix, irr, intr, IO_IRQ_COUNT>>
vars == <<pc, driver, ctrl, rings, irqs>>

NewQueue == [sq_tail |-> 0, cq_head |-> 0, cq_phase |-> 1, next_cid |-> 0]
NewDev == [sq_head |-> 0, sq_tail |-> 0, cq_tail |-> 0, cq_head |-> 0, phase |-> 1]
NoCmd == [op |-> None, cid |-> 0, prp |-> None]
Cqe(c, p, st) == [cid |-> c, phase |-> p, status |-> st]
Zeroed == [s \in Slots |-> Cqe(0, 0, 0)]

Init ==
    /\ bus \in Buses
    /\ pc = "init" /\ step = None
    /\ en \in BOOLEAN /\ rdy = en           \* firmware may have left it running
    /\ admin_regs = FALSE /\ created = {}
    /\ live = {} /\ q = [k \in Queues |-> NewQueue]
    /\ sq = [k \in Queues |-> [s \in Slots |-> NoCmd]]
    /\ cq = [k \in Queues |-> Zeroed]
    /\ dev = [k \in Queues |-> NewDev]
    /\ busy = {} /\ want = 0
    /\ posted = [k \in Queues |-> 0] /\ taken = [k \in Queues |-> 0]
    /\ pool = Frames                        \* firmware may have left a boot
    /\ \E c \in {"junk", "sector"} :        \* sector in any of them
          mem = [f \in {Frames[i] : i \in DOMAIN Frames} |-> c]
    /\ buf = None
    /\ msix = FALSE /\ irr = FALSE /\ intr = FALSE /\ IO_IRQ_COUNT = 0 /\ target = 0
    /\ reads = 0 /\ slipped = FALSE /\ wrote = FALSE /\ oks = 0

-----------------------------------------------------------------------------
(* The controller; external.                                                *)

(* CSTS.RDY follows CC.EN; a controller that comes up serves the admin      *)
(* queue that AQA, ASQ and ACQ describe.                                    *)
DevReady ==
    /\ en # rdy
    /\ rdy' = en
    /\ created' = IF en /\ admin_regs THEN {"admin"} ELSE {}
    /\ UNCHANGED <<pc, driver, en, admin_regs, rings, irqs>>

DevFetch(k) ==
    /\ k \in created /\ dev[k].sq_head # dev[k].sq_tail
    /\ busy' = busy \cup {[queue |-> k, cmd |-> sq[k][dev[k].sq_head]]}
    /\ dev' = [dev EXCEPT ![k].sq_head = NextSlot(@)]
    /\ UNCHANGED <<pc, driver, ctrl, irqs, q, sq, cq, posted, mem, wrote>>

(* What a successful command leaves in its frame.                           *)
Answer(op) == CASE op = "read" -> "sector"
                [] op \in {"create_cq", "create_sq"} -> "queue"
                [] OTHER -> "ident"

(* The data, the entry at the tail with the current phase, then the         *)
(* interrupt; the phase changes with the lap.                               *)
DevComplete(b, st) ==
    LET k == b.queue
        t == dev[k].cq_tail
    IN /\ NextSlot(t) # dev[k].cq_head
       /\ busy' = busy \ {b}
       /\ mem' = IF st = 0 THEN [mem EXCEPT ![b.cmd.prp] = Answer(b.cmd.op)] ELSE mem
       /\ cq' = [cq EXCEPT ![k][t] = Cqe(b.cmd.cid, dev[k].phase, st)]
       /\ dev' = [dev EXCEPT ![k].cq_tail = NextSlot(t),
                             ![k].phase = IF NextSlot(t) = 0 THEN 1 - @ ELSE @]
       /\ wrote' = (wrote \/ (b.cmd.op = "read" /\ st = 0))
       /\ posted' = [posted EXCEPT ![k] = @ + 1]
       /\ created' = IF b.cmd.op = "create_sq" /\ st = 0 THEN created \cup {"io"} ELSE created
       /\ irr' = (irr \/ (k = "io" /\ msix))
       /\ UNCHANGED <<pc, driver, en, rdy, admin_regs, q, sq, msix, intr, IO_IRQ_COUNT>>

(* nvme_io_handler: the count, and EOI.                                     *)
NvmeIoHandler ==
    /\ irr /\ intr
    /\ irr' = FALSE /\ IO_IRQ_COUNT' = IO_IRQ_COUNT + 1
    /\ UNCHANGED <<pc, driver, ctrl, rings, msix, intr>>

-----------------------------------------------------------------------------
(* The driver.                                                              *)

(* init: the first NVMe function, and the assertions on CAP.MPSMIN and      *)
(* CAP.CSS, which the controller may not meet.                              *)
NvmeInit ==
    /\ pc = "init"
    /\ \E capsOk \in BOOLEAN :
          pc' = IF FirstOf(bus, "nvme") # {} /\ capsOk THEN "setup_admin" ELSE "panic"
    /\ UNCHANGED <<driver, ctrl, rings, irqs>>

(* setup_admin: a controller that runs is disabled first.                   *)
SetupAdmin ==
    /\ pc = "setup_admin"
    /\ en' = FALSE
    /\ pc' = IF en THEN "wait_disabled" ELSE "program_admin"
    /\ UNCHANGED <<driver, rdy, admin_regs, created, rings, irqs>>

WaitDisabled ==
    /\ pc = "wait_disabled" /\ ~rdy
    /\ pc' = "program_admin"
    /\ UNCHANGED <<driver, ctrl, rings, irqs>>

(* The two zeroed frames, AQA, ASQ, ACQ, and last CC.EN.                    *)
ProgramAdmin ==
    /\ pc = "program_admin"
    /\ IF Len(pool) < 2
       THEN pc' = "panic" /\ UNCHANGED <<driver, ctrl, rings>>
       ELSE /\ pool' = SubSeq(pool, 1, Len(pool) - 2)
            /\ mem' = [mem EXCEPT ![pool[Len(pool)]] = "queue", ![pool[Len(pool) - 1]] = "queue"]
            /\ cq' = [cq EXCEPT !["admin"] = Zeroed]
            /\ admin_regs' = TRUE /\ en' = TRUE
            /\ pc' = "wait_ready"
            /\ UNCHANGED <<bus, step, live, taken, want, buf, target, reads, slipped, oks,
                           rdy, created, q, sq, dev, busy, posted, wrote>>
    /\ UNCHANGED irqs

WaitReady ==
    /\ pc = "wait_ready" /\ rdy
    /\ live' = live \cup {"admin"}
    /\ pc' = "identify_controller"
    /\ UNCHANGED <<bus, step, taken, want, pool, buf, target, reads, slipped, oks,
                   ctrl, rings, irqs>>

(* submit_qe: the entry, the tail, the doorbell.                            *)
SubmitQe(k, op, f) ==
    LET c == [op |-> op, cid |-> q[k].next_cid, prp |-> f]
        next == NextSlot(q[k].sq_tail)
    IN /\ sq' = [sq EXCEPT ![k][q[k].sq_tail] = c]
       /\ q' = [q EXCEPT ![k].sq_tail = next, ![k].next_cid = (@ + 1) % CidMod]
       /\ dev' = [dev EXCEPT ![k].sq_tail = next]
       /\ want' = c.cid

(* Mutant of Buffer: the frame is used as the pool returns it.              *)
BufferDirty(f) ==
    /\ buf' = f
    /\ mem' = mem

(* A frame for the request, cleared before the controller sees it.          *)
Buffer(f) ==
    /\ buf' = f
    /\ mem' = [mem EXCEPT ![f] = "zero"]

Top == pool[Len(pool)]

(* identify_controller and identify_namespace, up to poll_qe.               *)
Identify(op) ==
    /\ pc = op
    /\ IF pool = <<>>
       THEN pc' = "panic" /\ UNCHANGED <<step, want, pool, buf, q, sq, dev, mem>>
       ELSE /\ pool' = SubSeq(pool, 1, Len(pool) - 1)
            /\ Buffer(Top)
            /\ SubmitQe("admin", op, Top)
            /\ step' = op /\ pc' = "poll"
    /\ UNCHANGED <<bus, live, taken, target, reads, slipped, oks, ctrl, cq, busy, posted, wrote, irqs>>

(* setup_io_queue: vector and MSI-X, two zeroed frames, Create I/O CQ; buf  *)
(* keeps the submission queue's frame until Create I/O SQ names it.         *)
SetupIoQueueWith(enable) ==
    /\ pc = "setup_io_queue"
    /\ msix' = enable
    /\ IF Len(pool) < 2
       THEN pc' = "panic" /\ UNCHANGED <<step, want, pool, buf, q, sq, dev, mem, cq>>
       ELSE /\ pool' = SubSeq(pool, 1, Len(pool) - 2)
            /\ cq' = [cq EXCEPT !["io"] = Zeroed]
            /\ mem' = [mem EXCEPT ![Top] = "queue"]
            /\ SubmitQe("admin", "create_cq", Top)
            /\ buf' = pool[Len(pool) - 1]
            /\ step' = "create_cq" /\ pc' = "poll"
    /\ UNCHANGED <<bus, live, taken, target, reads, slipped, oks, ctrl, busy, posted, wrote,
                   irr, intr, IO_IRQ_COUNT>>

(* Mutant of SetupIoQueue: MSI-X is not enabled.                            *)
SetupIoQueueNoMsix == SetupIoQueueWith(FALSE)

SetupIoQueue == SetupIoQueueWith(TRUE)

CreateIoSq ==
    /\ pc = "create_sq"
    /\ SubmitQe("admin", "create_sq", buf)
    /\ mem' = [mem EXCEPT ![buf] = "queue"]
    /\ step' = "create_sq" /\ pc' = "poll"
    /\ UNCHANGED <<bus, live, taken, pool, buf, target, reads, slipped, oks, ctrl,
                   cq, busy, posted, wrote, irqs>>

(* smoke_read_sector_0 up to sti, with the count it will wait for.          *)
SmokeRead ==
    /\ pc = "smoke_read"
    /\ IF pool = <<>>
       THEN pc' = "panic" /\ UNCHANGED <<step, want, pool, buf, target, reads, wrote, q, sq, dev, mem, intr>>
       ELSE /\ pool' = SubSeq(pool, 1, Len(pool) - 1)
            /\ Buffer(Top)
            /\ SubmitQe("io", "read", Top)
            /\ target' = IO_IRQ_COUNT + 1
            /\ intr' = TRUE
            /\ reads' = reads + 1 /\ wrote' = FALSE
            /\ step' = "read" /\ pc' = "wait_irq"
    /\ UNCHANGED <<bus, live, taken, slipped, oks, ctrl, cq, busy, posted, msix, irr, IO_IRQ_COUNT>>

(* The count has advanced: cli, then poll_qe.                               *)
IrqSeen ==
    /\ pc = "wait_irq" /\ IO_IRQ_COUNT >= target
    /\ intr' = FALSE
    /\ pc' = "poll"
    /\ UNCHANGED <<driver, ctrl, rings, msix, irr, IO_IRQ_COUNT>>

PollQueue == IF step = "read" THEN "io" ELSE "admin"
HeadEntry(k) == cq[k][q[k].cq_head]

(* status & 0xFFFE = 0, of a status that poll_qe has shifted already.       *)
StatusPasses(st) == st \div 2 = 0

(* poll_qe once the entry at the head has the expected phase: the assertion *)
(* on the cid, the head and its phase, the doorbell, and the caller's       *)
(* assertion on the status.                                                 *)
PollQeWith(k, wrap) ==
    LET e == HeadEntry(k)
        h == NextSlot(q[k].cq_head)
    IN /\ pc = "poll" /\ e.phase = q[k].cq_phase
       /\ q' = [q EXCEPT ![k].cq_head = h,
                         ![k].cq_phase = IF h = wrap THEN 1 - @ ELSE @]
       /\ dev' = [dev EXCEPT ![k].cq_head = h]
       /\ taken' = [taken EXCEPT ![k] = @ + 1]
       /\ pc' = IF e.cid = want /\ StatusPasses(e.status) THEN "answered" ELSE "panic"
       /\ slipped' = (slipped \/ e.status # 0)
       /\ UNCHANGED <<bus, step, live, want, pool, buf, target, reads, oks, ctrl,
                      sq, cq, busy, posted, mem, wrote, irqs>>

(* Mutant of PollQe: the phase changes one entry early.                     *)
PollQeEarly(k) == PollQeWith(k, QSize - 1)

PollQe(k) == PollQeWith(k, 0)

(* The calls that follow each other in main.                                *)
After(op) == CASE op = "identify_controller" -> "identify_namespace"
               [] op = "identify_namespace" -> "setup_io_queue"
               [] op = "create_cq" -> "create_sq"
               [] op = "create_sq" -> "smoke_read"

(* What the caller does with the answer of an admin command: identify frees *)
(* its frame, setup_io_queue stores the new queue.                          *)
AdminAnswered ==
    /\ pc = "answered" /\ step # "read"
    /\ LET frees == step \in {"identify_controller", "identify_namespace"}
       IN pool' = IF frees THEN Append(pool, buf) ELSE pool
    /\ buf' = IF step = "create_cq" THEN buf ELSE None
    /\ live' = IF step = "create_sq" THEN live \cup {"io"} ELSE live
    /\ pc' = After(step)
    /\ UNCHANGED <<bus, step, taken, want, target, reads, slipped, oks, ctrl, rings, irqs>>

(* The boot signature, ARSENAL_NVME_OK, the frame freed; the sector may be  *)
(* read again.                                                              *)
ReadAnswered ==
    /\ pc = "answered" /\ step = "read"
    /\ IF mem[buf] # "sector"
       THEN pc' = "panic" /\ UNCHANGED <<pool, buf, oks>>
       ELSE /\ oks' = oks + 1
            /\ pool' = Append(pool, buf) /\ buf' = None
            /\ pc' = IF reads < MaxReads THEN "smoke_read" ELSE "done"
    /\ UNCHANGED <<bus, step, live, taken, want, target, reads, slipped, ctrl, rings, irqs>>

(* The spins of wait_csts and poll_qe give up, or find CSTS.CFS set.        *)
PollTimeout ==
    /\ pc \in {"wait_disabled", "wait_ready", "poll"}
    /\ pc' = "panic"
    /\ UNCHANGED <<driver, ctrl, rings, irqs>>

-----------------------------------------------------------------------------
Device == DevReady \/ (\E k \in Queues : DevFetch(k)) \/ (\E b \in busy, st \in Statuses : DevComplete(b, st))

Driver ==
    \/ NvmeInit \/ SetupAdmin \/ WaitDisabled \/ ProgramAdmin \/ WaitReady
    \/ Identify("identify_controller") \/ Identify("identify_namespace")
    \/ SetupIoQueue \/ CreateIoSq \/ SmokeRead \/ IrqSeen
    \/ PollQe(PollQueue) \/ AdminAnswered \/ ReadAnswered

Next == Driver \/ PollTimeout \/ Device \/ NvmeIoHandler

(* The controller answers, the processor executes and takes interrupts.     *)
Fairness == WF_vars(Driver) /\ WF_vars(Device) /\ WF_vars(NvmeIoHandler)

Spec == Init /\ [][Next]_vars
FairSpec == Spec /\ Fairness

-----------------------------------------------------------------------------
(* The phase tag tells a new completion from an old one: poll_qe accepts    *)
(* the entry at its head exactly when the controller has written more       *)
(* completions than the driver has consumed, on any lap of the ring.        *)
PhaseTellsNew ==
    \A k \in Queues : (HeadEntry(k).phase = q[k].cq_phase) <=> (posted[k] > taken[k])

(* ARSENAL_NVME_OK is printed only after the controller has written the     *)
(* sector for that very read, although a status of 1 passes the assertion   *)
(* and the frame may hold a boot sector from an earlier use.                *)
OkMeansRead == [][oks' # oks => wrote]_vars

(* Bring-up ends: the reads are done or the kernel has panicked.  A status  *)
(* of 1 for Create I/O SQ passes the assertion, and the wait for the        *)
(* interrupt of the first read then has no end.                             *)
BringUpEnds == <>(pc \in {"done", "panic"} \/ slipped)
=============================================================================
