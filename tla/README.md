# A TLA+ model of the Arsenal kernel

This directory specifies the Arsenal kernel in TLA+: what its code does, step
by step; which properties TLC checks on small instances; and which theorems
TLAPS proves for every instance. `PROJECT.json` is the machine-readable index:
components, runs, the source lines each definition stands for, hazards,
findings and theorems.

## The system

Arsenal is an x86_64 kernel in Rust (`arsenal-kernel`) with a shim
(`linuxkpi`) that runs inherited Linux drivers, today virtio-balloon. After
the boot everything runs on the boot CPU; application processors (APs) come up
beside it and are then parked in `hlt`. Concurrency has four sources:

- the **timer interrupt**, which may rotate tasks between any two instructions
  that run with IF = 1;
- **device interrupts**, whose handlers run to completion with IF = 0 on top
  of whatever they interrupted;
- **devices**, which read and write memory by DMA while the CPU runs;
- the **APs**, which run `ap_entry` beside each other and the boot CPU.

How the parts interact: `main.rs` makes the heap, the frame pool and the page
tables, brings up interrupts and APs, and lets one driver after the other look
for its device on the PCI bus, all on the boot stack; it spawns the tasks
(network poll loop, workqueue runner, HID poller, shell, two demo tasks, a
busy witness) and enters `sched::init`. From then on the scheduler rotates the
tasks. The keyboard interrupt and the HID poller feed a byte ring that the
shell drains. Interrupts of inherited drivers reach them through the slots of
`linuxkpi::irq`; balloon's handler defers its work to the queue of
`linuxkpi::workqueue`, which the runner task drains. Network frames go through
a virtqueue to the device and back, and smoltcp and rustls sit on top.

## Inventory

| part | source | modules | status |
|---|---|---|---|
| scheduler, interrupt guard, timer | `sched.rs` `irq.rs` `task.rs` `cpu.rs` `apic.rs` | `Sched` | checked and proved |
| keyboard ring, line editor | `kbd.rs` `shell.rs` | `KbdRing`, `KbdFifo` | checked and proved |
| PS/2 controller, boot order, decoder | `kbd.rs` `main.rs` | `Keyboard` | checked, decoded text proved |
| deferred work | `workqueue.rs` | `Workqueue` | checked, safety proved |
| split virtqueue and the shim's queue | `virtio.rs`, linuxkpi `virtio.rs` | `Virtqueue`, `VirtqExchange`, `ShimQueue` | checked, safety and refinement proved |
| virtio-net buffers | `virtio_net.rs` | `VirtioNet` | checked, safety proved |
| PCI scan | `pci.rs` and its callers | `PciScan` | used by the drivers' modules |
| virtio bus, transports, MSI-X; virtio-blk, -gpu, -net bring-up | linuxkpi `virtio.rs` `pci.rs` `irq.rs`, `linuxkpi_bridge.rs`, `virtio.rs` | `KpiBus`, `IrqSlots` | checked, safety proved |
| NVMe | `nvme.rs` | `Nvme` | checked, safety proved |
| xHCI, USB disk, HID poller | `xhci.rs` | `Xhci` | checked, safety proved |
| network stack task | `net.rs` | `NetStack` | checked, safety proved |
| boot, APs, ACPI, IOAPIC, paging | `main.rs` `smp.rs` `acpi.rs` `ioapic.rs` `paging.rs` ... | `Boot`, `Frames` | checked, safety proved |
| balloon, pages, lists, DMA memory | `virtio_balloon.c`, linuxkpi `page.rs` `list.rs` `dma.rs` | `Balloon`, `Frames` | checked, safety proved |
| slab, helpers, console, framebuffer, tooling | | | not modelled |

## Modules, state and actions

**Memory and time.** Every access to memory that another party can see is a
step, in program order: x86 keeps stores in order and loads in order, and the
protocols here need no store-load fence. Code that no other party can observe
between two accesses is one step. Counters that wrap in the code wrap in the
model, at a constant (`TickMod`, `CountMod`, `IdxMod`, `CidMod`) instead of
2^64 or 2^16.

**`Sched`.** Variables are the fields of `CpuLocal`, the CPU's stack and
interrupt flag, the saved flags and switch frames of each stack, and a program
counter for each *context*: a stack's own code and the interrupt frame on top
of it. `yield_now` and `preempt` contain the same rotation; it is written once
(`RunqueueLock`, `PopNext`, `SwapCurrent`, `PushPrev`, `SwitchTo`) and runs in
the context that entered it. `Cli` and `IrqGuardDrop` are the two ends of
`IrqGuard`; `TimerIrq` may happen in every state with IF = 1; `BootWindow`
stands for the short `sti` windows of NVMe and xHCI bring-up; `Panic` is the
halt loop of the panic handler. `preempt_count` is left out: nothing raises
it.

**`KbdRing`** has one step per access of `ring_push` and `ring_pop`, and the
line length of `shell::run`. Producers are the PS/2 handler (`Irq`, which
keeps the CPU) or a task calling `inject`. **`KbdFifo`** is what the ring
promises: a bounded FIFO that drops, and counts, a byte when it is full.

**`Keyboard`** models the i8042 with its one-byte buffer, the edge-triggered
route, the boot order `init_irq` before `init`, and the decoder. Scancodes are
kept by class, characters by the column of the table.

**`Workqueue`** has one step per access to a work's state byte and to the
deque, the mutex included. Bodies queue themselves again, as balloon's do.

**`Virtqueue`** has the descriptor table, both rings, the fields of the queue
and the locals of the call in progress; a device (external) walks chains
descriptor by descriptor, only after a notification, and completes in any
order. `push_descriptor` is `push_chain` with one part. **`VirtqExchange`** is
what the queue promises: requests are taken in order, with their own buffers,
and come back once, in the order of completion. **`ShimQueue`** adds the
`struct virtqueue` of the Linux drivers: a token for each head and a
`num_free` of its own.

**`VirtioNet`** uses that promise and keeps the ids, because `desc_to_buf` and
`in_flight` are indexed by them. The heap is a set of blocks; a block is alive
while `in_flight` or the call holds its `Box`. `smoltcp` (external) calls
`receive` and `transmit` in any order and may or may not use a transmit token.
It always uses a receive token.

**`PciScan`** has the order in which `pci::scan` visits functions. `Nvme`,
`Xhci` and `KpiBus` search the bus with it.

**`IrqSlots`** follows a driver through `pci_alloc_irq_vectors`,
`request_irq`, `free_irq` and `pci_free_irq_vectors`; a device sends messages
for entries of its table while MSI-X is enabled, and a message is dispatched
at any later time. **`KpiBus`** extends it with the virtio bus: the five
drivers of the boot, in the order of `_start`, walk the bus, reset, negotiate,
wire MSI-X, set up queues, probe and possibly decline (`Visit`, `Handshake`,
`Negotiate`, `Wire`, `Validate`, `Probe`, `FindVqs`, `ActivateQueue`,
`DeviceReady`, `Decline`); the native drivers then make their requests
(`Submit`, `CheckAnswer`, `SmokeReturns`). Devices refuse features, lack
capabilities, answer late or never, and change their configuration. PCI
drivers take and free slots of the same pool between those steps.

**`Nvme`** is the driver from `find_controller` to repeated reads of sector 0
and the controller beside it: CC.EN and CSTS.RDY, both queues with doorbells
and phase tag, the message of the I/O queue and the halt that waits for it,
and what each frame contains. **`Xhci`** is the driver, its event ring with
cycle bit and ERDP, the ports, one outstanding request of the boot code, the
enumeration of each device from its descriptors, the disk's read, the copy of
the event cursor to the HID poller and the interrupt endpoint's ring with its
Link TRB. A device is the sequence of its descriptors.

**`NetStack`** is one iteration of `poll_loop` after the other under the `NET`
lock: smoltcp's poll (any changes of the sockets the network can cause), the
check of the TCP probe, `pump_tls` with `drive_rustls`, and the DHCP event.
Bytes are counted in units.

**`Frames`** is the heap's reservation and the pool made of the rest. **`Boot`**
is `_start` with all its assertions on a machine (memory map, page tables,
ACPI and MADT entries, processors, IOAPIC), up to `smp::init`, and `ap_entry`
on each AP. **`Balloon`** is `update_balloon_size_func` with its list pointers,
reference counts and the two requests to the host; it starts when `Boot` is
done and competes with other users for the pool.

Modules starting with `MC` hold constants for TLC. Definitions marked
"Mutant of" are small, plausible mistakes in the definition after them. No
specification uses them; they show that the properties can fail.

## Runs

| run | properties | what it shows |
|---|---|---|
| `sched` | `BoxOwnership` `SwitchIntoSavedFrame` `RunqueueNeverReentered` `SliceKept` `ReadyRuns` | a timer at any instruction never loses or duplicates a task, switches into a stale frame, re-enters the mutex or shortens a slice; and every Ready task runs, although no task need yield |
| `kbd_ring` | `RingIsFifo` | with one producer the ring implements `KbdFifo` over many laps |
| `keyboard` | `TextIsWhatWasTyped` `NeverWedged` | any mix of plain, shifted, extended and Pause keys decodes to what was typed; typing during boot never silences the keyboard |
| `wq` | `QueuedOnce` `NeverStranded` `QueuedRuns` | no work is lost or queued twice, a cancel strands nothing, and queued work runs or is cancelled |
| `vq` | `DescriptorsPartitioned` `ShimMatchesQueue` `QueueIsExchange` `EveryRequestReaped` | each descriptor is in exactly one place at every access, each token comes back with its request, the queue implements `VirtqExchange`, and every request comes back |
| `net` | `FramesIntact` `TxBuffersAlive` `BuffersRecycled` | DMA never touches a freed or foreign buffer, and receive buffers go back to the device |
| `lkpi` | `HandlerOfSender` `DeclinedIsClean` `LiveIsComplete` `KeptDevices` `ChangesHeard` | a message never reaches another device's handler, a declined device is left reset, a live one has all its driver relies on, no later driver takes a device away, and configuration changes are heard |
| `nvme` | `PhaseTellsNew` `OkMeansRead` `BringUpEnds` | completions are told apart on every lap, success is printed only for a sector that was read, and the bring-up ends |
| `xhci` | `EventsInOrder` `CompletionIsOwn` `BringUpEnds` `KeysArrive` | boot code and poll task consume each event once and in order, every wait ends with its own completion, and typed keys arrive in order |
| `net_stack` | `HandlesMatchSockets` `BytesConserved` `ProbesOnce` `TlsCompletes` | over any sequence of leases handles and sockets match, no byte is lost or repeated, sentinels come once, and a session on a connection that stays up completes |
| `boot` | `SlotsApart` `UpIsReady` `FramesOnce` `HostHasOnlyBallooned` `BalloonConsistent` `BootEnds` | 17 machines, most with one thing wrong, boot or panic as they should; APs have slots and tables of their own; every frame is in one place; the balloon's books and the host agree |

One run checks a statement that the repository makes and the code does not
keep; TLC's counterexample is the explanation.

| run | property | what the code does |
|---|---|---|
| `wq_irq` | `IrqReturns`: taking the mutex in interrupt context is fine | the handler spins on a lock its own CPU holds |

### Known disagreements

These were met while modelling. They are outside the passing runs, or stated
in the property as the exception it makes.

- **Keyboard ring with both keyboards.** `inject` (`kbd.rs:245`) can be
  preempted by the PS/2 handler in the middle of a push, and a byte is then
  overwritten without being counted; the comment at `kbd.rs:240` says the
  interleaving is covered. Setting `Producers <- Ps2AndUsb` in `MCKbdRing.cfg`
  shows it.
- **Requests while a work runs.** `queue_work` refuses a work that is RUNNING
  (`workqueue.rs:146`), as its own doc comment says; ADR-0011 (lines 101, 130)
  says a request is refused only while PENDING. A configuration change that
  arrives during the balloon's body is lost. So is the body's request to run
  itself again: one update moves at most 256 pages, and a target further away
  is reached only with further changes.
- **Cancel beside another caller.** `cancel_work` resets the state and removes
  the entry in two steps; a second task that queues the work in between leaves
  it PENDING with nothing on its way. Only a driver's remove path cancels, and
  no driver is removed, so in `wq` cancelled works are queued by their
  canceller alone.
- **Concurrent `alloc_slots`.** With `Concurrent = TRUE` and `MaxVecs = 3` two
  failing reservations and one that succeeds can leave the watermark below
  slots in use. Today probes run one after the other.
- **virtio bus.** Native drivers never enable bus mastering; they live on the
  registration of the self-test driver. A second driver with a matching id
  table would reset a bound device. A decline leaks the `virtio_device`, its
  slot and its MSI-X entry. Features that `validate` clears stay accepted by
  the device. The self test panics when a virtio function lacks a capability
  or there are fewer than three. The length of an absent 32-bit BAR comes out
  as 4 GiB. The shim's `num_free` drifts down with chains (it is documented as
  approximate).
- **NVMe.** The assertion on a completion masks its lowest bit after the shift
  (`status & 0xFFFE`), so a status of 1 passes; after Create I/O SQ the wait for
  the interrupt has no end then. `BringUpEnds` names the exception
  (`slipped`).
- **xHCI.** If a keyboard is followed by another device, the boot code
  consumes events after the cursor was copied to the poll task, against the
  comment at `xhci.rs:977`: with the machine `<<Keyboard, Disk>>`
  `EventsInOrder` fails. A second keyboard replaces the first. The assertion at
  `xhci.rs:434` fails when the message is delayed (`panic_no_msi`). ERDP is
  not advanced before the No-Op is answered, so the ring has to hold every
  event up to then, which `XhciAssumption` says.
- **Network.** `net.rs:571` says that a re-lease does not probe again. That
  holds for TCP; the TLS handle is taken at `net.rs:478`, so TLS is probed
  again, and the second socket is never removed because its removal is under
  `!tls_ok`. The last flight may still be in the socket's buffer when the
  socket is removed. A refused connect waits for the next lease, and a lease
  without a router keeps the previous route.
- **Boot.** `ioapic::program` ignores the polarity and trigger mode of an
  override; only the first IOAPIC is used; the timer's initial count saturates
  above 429,496,729 ticks; the comment at `main.rs:422` says a task is spawned
  before any inherited driver starts, and it is not.
- **Keyboard.** `kbd::init` may drop the first byte of a sequence typed while
  the kernel boots, so `TextIsWhatWasTyped` speaks of behaviours in which
  nothing was typed before the kernel was up.

### Bounds

- Scheduler: two tasks, idle and the boot stack give every role in a rotation
  (leaving, entering, queued, absent); a slice of 2 with a counter modulo 4
  wraps within a run. Spawning is allowed from every stack, more than `main.rs`
  does.
- Keyboard ring: 3 slots make empty, partly filled and full different. The
  producer is a task, which interleaves more freely than the interrupt
  handler; the proofs cover both, and every size.
- Keyboard: 4 strokes combine a shift press, an extended key, Pause and a plain
  key.
- Workqueue: three works and two tasks, one of which also cancels one work.
- Virtqueue: 2 descriptors, indices modulo 4 and 3 buffers, so that chains of
  one and two alternate, the queue is full, and the indices wrap. The code's
  sizes are powers of two dividing 2^16; the model assumes only that
  `QueueSize` divides `IdxMod` and is less. Safety is proved for any such pair.
- VirtioNet: 2 descriptors per queue, so that ids come back in another order;
  one more heap block than descriptors; two frame contents so that a swap
  shows. Safety is proved for any number.
- Virtio bus: 3 slots and two PCI drivers, of which one fails after its
  allocation, make the pool run out; five machines cover each failure path of
  a registration. `MinVirtio` is 2 instead of 3 so that small machines pass the
  self test.
- NVMe: rings of 3 entries and 5 reads make several laps; identifiers wrap at
  4; 5 frames run out; statuses 0, 1 and 2 are success, the one that slips
  through and an error.
- xHCI: an event ring of 6 and an endpoint ring of 3 lap during the boot and
  the typing; two keys, one buffered report and one unrequested port change.
- Network: 4 DHCP events give a lease, its loss, a second lease and a renewal;
  a send buffer of 1 unit under flights of 2 and 1 makes every send short.
- Boot: frames of 2 bytes, a heap of 2 frames, up to 4 processors for 3 slots;
  the balloon's array is 2 pages and the target at most 4, so that an update
  takes several calls and the pool runs dry. Safety is proved for any machine
  and any number of pages.

No run uses symmetry.

### Deadlock

Deadlock is checked except where the system really may stop: in `Keyboard`,
`Nvme`, `Xhci` and `KpiBus` when the bounded inputs are used up or an
assertion has stopped the kernel, in `Boot` likewise, and in `Workqueue` with
an interrupt handler, which can spin for ever (`wq_irq`).

### Fairness

- `Sched`: weak fairness of the kernel's own steps, of the timer and of
  `sched::init`: the CPU executes and the timer is periodic. Nothing is
  assumed of tasks.
- `Workqueue`: tasks run again and again, which is `ReadyRuns`; strong
  fairness for taking the spin mutex, which is free infinitely often; bodies
  return.
- `Keyboard`: the controller, the boot and a pending interrupt go on.
- `Virtqueue`: the device finishes what it takes; the driver polls again and
  again although a push may come first (strong fairness of `PopUsed`).
- `VirtioNet`: the poll loop calls `receive` in each round (strong fairness);
  nothing is assumed of the device.
- `KpiBus`: a message that was sent is dispatched in the end. Nothing is
  assumed of drivers or devices.
- `Nvme`, `Xhci`: the boot code, the poll task and the controller go on, and
  the controller answers what it was asked. A device need not send reports
  nor a port change.
- `NetStack`: the task polls again and again (`ReadyRuns`), rustls does not
  fail to encode for ever, and the network delivers segments of a connection
  that stays up (strong fairness, because they are possible only in one step
  of an iteration). Nothing is assumed of DHCP, and peers may reset or close.
- `Boot`: every processor that was started executes.

## Proofs

| theorem | statement |
|---|---|
| `SchedProofs!TypeCorrect`, `BoxesOwnedOnce`, `SwitchesAreSafe`, `NoReentry`, `InterruptSafety`, `SlicesAreKept` | the safety properties of `sched` for any set of tasks and spawners, any slice, and any tick counter wider than the slice |
| `InputProofs!RingTypeCorrect`, `RingSlotsDisjoint`, `RingRefinesFifo` | with one producer, interrupt or task, the ring implements `KbdFifo` for any size |
| `InputProofs!TypedTextArrives` | the decoder's text and shift state for any sequence of strokes and any drain budget |
| `SchedProofs!WorkqueueTypeCorrect`, `WorkQueuedOnce`, `RunningExactlyInBody`, `WorkNeverStranded` | for any works, tasks and interrupt handler, whoever cancels; the last one with one canceller |
| `VirtqProofs!VirtqInvariant`, `EveryDescriptorOnce`, `RingsAreExchange` | a virtqueue of any size, with chains of any length and completions in any order, has each descriptor in one place and implements `VirtqExchange` |
| `VirtqProofs!ShimImplementsQueue`, `TokensMatch` | the `struct virtqueue` of the Linux drivers is such a queue, and its tokens and `num_free` match it |
| `InputProofs!FramesStayIntact`, `TransmitBuffersLive` | the safety properties of `net` for any queue size, heap and frames |
| `KpiBusProofs!SlotsAreGivenOnce`, `MessagesMeetTheirHandler` | with one call at a time no slot has two owners, and a message meets its sender's handler or none, for any drivers, slot count and requests |
| `KpiBusProofs!BusMessagesMeetTheirHandler`, `DeclinedDevicesAreClean`, `LiveDevicesAreComplete`, `DevicesAreKept` | the safety properties of `lkpi` for any machines and PCI drivers |
| `NvmeProofs!PhaseIsRight`, `OkAfterRead` | the safety properties of `nvme` for any machines and queue sizes |
| `XhciProofs!EventsComeInOrder`, `WaitsEndWithTheirAnswer` | the safety properties of `xhci` for any ring sizes and machines whose keyboard comes last |
| `InputProofs!SocketsNeverLeak`, `PumpConservesBytes`, `ProbedOnce` | the safety properties of `net_stack` for any leases, flight sizes, send buffer and number of DHCP events |
| `BootProofs!BootInvariant`, `CpuSlotsApart`, `UpMeansReady` | processors have slots of their own, and what `smp::init` reports as up is ready, for any machines, processors and slots |
| `MemoryProofs!MemoryInvariant`, `EveryFrameOnce` | every usable frame is in one place, for any memory map and page tables of the bootloader |
| `MemoryProofs!HostTakesBallooned`, `BalloonBooksRight` | the balloon's lists, counters and the host agree, for any number of pages |

**Assumptions.** The named `ASSUME`s of the modules: the special values are
distinct, sizes are positive, the slice is shorter than the period of the tick
counter, the heap has a block to spare, machines and drivers are records of the
right shape. `SizeAssumption` says that the queue's size divides the modulus of
its indices and is less, `NullAssumption` that no driver's token is null.
`MachinesAssumption` says what a machine is: processors are distinct and the
boot processor is among them, the entries of the MADT follow one another from
offset 44, and the keyboard is wired where the first override says.
`MapsAssumption` is what Limine guarantees of its memory map: the regions it
calls usable or reclaimable are whole frames and do not overlap, and its page
tables are in the reclaimable ones. Four hypotheses are part of the theorems: `SingleProducer`,
`OneCanceller`, `KeyboardLast`, and `~Concurrent`, which says that the PCI
calls are made one at a time, as the boot does. Without each of the first
three, and without the last for the slots, there is a counterexample (see Known
disagreements).

**Scheduler.** `BoxOwnership` is not inductive: that `PushPrev` does not queue
a task twice depends on who may be in the middle of a rotation. The
invariant `IInv` adds that only the executing context is inside a critical
section and then IF = 0 (`Exclusion`), that the mutex is held exactly in the
three queue accesses (`LockHeld`), how `current`, `prev` and `next` relate in
each step of a rotation (`CurrentShape`, `LocalsSet`), that exactly the
existing tasks that do not run have a switch frame (`SuspendedShape`), and
that the flags saved in guards and frames are those of an interruptible task
(the guard and frame conjuncts). There is one lemma per action.

**Ring.** `IInv` says that the producer's local `head` is the shared one and
its slot is free once it has been checked, and the mirror image for the
consumer. `RingRefinesFifo` maps the slots between `tail` and `head` to the
queue: storing `head` appends, storing `tail` removes, everything else
stutters.

**Keyboard decoder.** `Leads` says where a decoder gets to over a sequence of
bytes and which part of a text it adds, by the decoders in between (a trace
instead of a recursive definition). The invariant is that the decoder, led by
the bytes that are still to come, from the controller's buffer and the wire,
ends with all of the text typed and the shift keys held. A stroke appends its
bytes, fake shifts and the six of Pause included; the handler takes one off.

**Workqueue.** `WorkIInv` says where a PENDING work is: with a caller about to
push it, in the deque, or popped and about to start, and in one place only.
A cancelled work may have entries left over, so for `NeverStranded` the
strengthening `SInv` adds that a work is not PENDING between the two steps of
its cancellation: the one canceller does not queue it again before its
`retain`, which would drop the new entry.

**Virtqueue.** `VirtqInv` treats the linked descriptors as sequences. The free
list is a sequence whose elements are linked by `next` (`IsFree`), each request
on its way a non-repeating one whose last element alone has no NEXT flag
(`IsChain`), and what the model reads by following links is shown to be that
sequence. Free list, call in progress and requests share no descriptor and leave
none out (`Parted`); a request waits, is with the device or is done, once
(`HeadsApart`); a push has written what its loop has passed (`CallInv`), and
what the device has read of a chain is the part of the request up to there
(`DeviceInv`). The rings are sequences between two wrapping indices: since fewer
than `QueueSize` heads can be missing from the free list, an append never
overwrites an entry that is still to be read. For `RingsAreExchange`, publishing
`avail.idx` is a submission, the device's last read of a chain takes it, the
used entry finishes it, and reading it back reaps it; everything else stutters.
The bound on the buffers outstanding holds because each has a descriptor that
the push does not use. `ShimInv` follows the shim's `num_free` through a call:
it may exceed the queue's by the chain that is being pushed, and by the one
descriptor it takes back before `pop_used` has freed any; between calls never.

**virtio-net.** With as many receive buffers as descriptors the free chain
holds at most the id of the buffer smoltcp has, so a buffer always gets its old
id back: `RxInv` says that, and that a posted, an announced and a held buffer
are never the same. `TxInv` says that an id is out exactly as long as a block
is recorded for it in `in_flight` or about to be, that no block is recorded
twice, and that the free ids are none of those.

**Interrupt slots.** `HandlerOfSender` needs to know where a slot that has
no handler may still be named: `Held(d)` is what driver `d` was given, what
its table signals and what its messages in flight carry. The invariant says
that these sets are disjoint (`Apart`) and below the watermark unless a call is
rolling back (`Below`), that one call runs at a time (`OneCall`), and that a
handler is registered only in a slot of its own driver (`Handlers`).

**virtio bus.** `AllInv` adds to that, for each PCI function, which stage of
its bring-up it is in (`spot` and the driver's step say so), what its registers
hold by then, and that everything elsewhere is either live with its holder or
reset. `DevicesAreKept` follows because `find_device` and the walk over
functions choose by kind, and each kind has one driver in the boot.

**NVMe.** `Ring(k)` says that the entries before the controller's tail have
this lap's phase and the others the previous one's, and that the tail is
`posted - taken` entries ahead of the head, on the same lap with equal
phases or on the next with different ones (`Lap`). `Unused` says that the
rings are cleared only before their first request. For `OkMeansRead`, `MInv`
says that the frame of a read in progress holds a sector only if the controller
has written it for this read: it was cleared, and no other command leaves one.

**xHCI.** The event ring has the same kind of invariant, over its two cursors
as plain numbers: the cycle bits (`CycleOk`), how far the controller may be
ahead of the ERDP it was told (`LapOk`) and the numbers of the events in
between (`NumbersOk`). `BootInv` says what the bring-up has done at each
step, and `RingInv` that the cursor the poll task was given is the boot code's.
`OwnInv` says that, until the keyboard is set up, a request that the controller
holds and an event in the ring that is not a port change belong to the wait in
progress, so that the event types alone tell the answer from the rest.

**Network stack.** `NetIInv` says which handles hold which sockets (`Places`),
that a session has its socket (`SessionHasSocket`), the balance of bytes, and
that the counts follow the flags (`CountsAreFlags`). Two handles and three
places or more mean that `SocketSet::add` always finds one (`FreePlace`).

**Boot.** `BootInv` says which processors the boot processor has started and
that it gave each a slot of its own below `next_slot` (`Started`), what each
processor has behind it at each step and that its slot names it (`CpusInv`), and
that `launched` and `online` are the numbers of started and of halted
processors, of which none was skipped unless there are more than `MAX_CPUS`
(`CountInv`). The walk of the MADT knows the first override among the entries it
has passed (`MadtInv`), which makes the keyboard's line the one that is opened
(`RedirInv`).

**Memory.** `BalloonInv` names the two lists of the balloon as sequences of
pages whose `next` and `prev` form a ring through the list's head (`Listed`),
says that `num_pages` and the report to the host are their lengths
(`Booked`), and which of their pages the host may have at each step of an update
(`Shared`). Every step of the balloon and of the other users of memory conserves
the frames that pool, DMA memory and allocated pages hold together, so
`FramesOnce` follows from where those came from: `frames::init` makes the pool
from the usable regions without the heap, by induction over the map, and
`paging::init` and `map_mmio` move frames from the pool to the tables. That the
kernel's root reaches only its own tables is shown with a set of tables that is
closed under `kids`, which bounds the recursive `Reach`. `StageInv`, inductive by
itself, says that from `paging::init` on the boot processor runs on that root,
so `map_mmio` adds its tables there.

**Only model-checked.** Liveness, because the prover does not handle fairness
and `ENABLED`: `ReadyRuns`, `NeverWedged`, `QueuedRuns`, `EveryRequestReaped`,
`BuffersRecycled`, `ChangesHeard`, `BringUpEnds` of both drivers, `KeysArrive`,
`TlsCompletes` and `BootEnds`; and the violation of `wq_irq`. Every invariant and
every refinement that a run checks is proved.

## Not modelled

- Register encodings, table layouts, formatting and logging; the contents of
  USB contexts, GPU commands, frame buffers and certificates.
- The heap's allocator, smoltcp and rustls: external crates. They appear as
  what the kernel's code may see of them. The heap does not run out, except
  where the balloon allocates a page's descriptor.
- `slab.rs` and `mm.rs` (a size header before a heap block, two counters),
  the one-line helpers of linuxkpi, the console, the framebuffer, the random
  source and the tooling: no state that a property could be about.
- Code that is never called: the `Drop` of a virtqueue, `reclaim_bootloader`,
  the removal of drivers, the balloon's statistics, hints and reporting.
- Devices that break their protocol: the device side of each module is the
  weakest device that obeys it.
