-------------------------------- MODULE Boot --------------------------------
(***************************************************************************)
(* The boot of the machine: _start of main.rs on the bootstrap processor   *)
(* (BSP), through the heap, the interrupt table, the frame pool, the clone *)
(* of the bootloader's page tables, the LAPIC, the ACPI tables, the BSP's  *)
(* CPU slot, the IOAPIC and the keyboard's route, to smp::init, which      *)
(* starts the other processors (APs); each AP then runs ap_entry beside    *)
(* the others and the BSP.  Interrupts are off.  An assertion that fails   *)
(* panics.  Once the machine is up, the balloon of module Balloon runs.    *)
(*                                                                         *)
(* A machine is what the firmware and the bootloader hand over:            *)
(*   map      regions [type, base, length]                                 *)
(*   tables   Limine's page tables in the order of the clone's walk, the   *)
(*            root first: [frame, kids], kids being indices in the same    *)
(*   apic     flags of IA32_APIC_BASE;  ticks, the timer's calibration     *)
(*   acpi     [rsdp, revision, sdt, entries], signatures and the tables'   *)
(*   madt     [length, at]: an entry at each offset where one starts       *)
(*   cpus     Limine's processors by LAPIC id;  bsp, one of them           *)
(*   redirs   the number of redirection entries;  open, the ones that the  *)
(*            firmware left unmasked;  keyboard, the line it is wired to   *)
(*   balloon  whether there is a balloon device                            *)
(***************************************************************************)
EXTENDS Balloon

CONSTANTS Machines,     \* the machines to boot
          MAX_CPUS,
          NONE          \* no slot, no lock holder, no table

(* What the firmware hands over: the processors are distinct and the BSP is *)
(* one of them; the entries of the MADT follow one another from offset 44,  *)
(* and its overrides say where the keyboard is wired to.                    *)
KbdOverrides(t) == {o \in DOMAIN t.at : t.at[o].type = 2 /\ t.at[o].len >= 10 /\ t.at[o].source = 1}
ASSUME MachinesAssumption ==
    /\ MAX_CPUS \in Nat \ {0} /\ NONE \notin 0 .. MAX_CPUS - 1
    /\ \A m \in Machines :
          /\ m.cpus \in Seq(Range(m.cpus)) /\ IsInjective(m.cpus)
          /\ m.bsp \in Range(m.cpus)
          /\ m.madt.length \in Nat /\ \A o \in DOMAIN m.madt.at : o \in Nat /\ m.madt.at[o].len \in Nat
          /\ 46 <= m.madt.length => 44 \in DOMAIN m.madt.at
          /\ \A o \in DOMAIN m.madt.at :
                LET next_entry == o + m.madt.at[o].len
                IN  /\ 44 <= o /\ o + 2 <= m.madt.length
                    /\ m.madt.at[o].len >= 2 /\ next_entry + 2 <= m.madt.length => next_entry \in DOMAIN m.madt.at
                    /\ \A p \in DOMAIN m.madt.at : o < p => next_entry <= p
          /\ m.keyboard = LET over == KbdOverrides(m.madt)
                          IN  IF over = {} THEN 1 ELSE m.madt.at[Min(over)].gsi

(* What the bootloader hands over: the regions it calls usable, and those   *)
(* it has used itself, are made of whole frames and do not overlap, and its *)
(* page tables are in the latter.                                           *)
Ours(map) == {i \in DOMAIN map : map[i].type \in {"USABLE", "RECLAIMABLE"}}
ASSUME MapsAssumption ==
    \A m \in Machines :
        /\ m.map \in Seq(Range(m.map))
        /\ \A i \in DOMAIN m.map : m.map[i].base \in Nat /\ m.map[i].length \in Nat
        /\ \A i \in Ours(m.map) :
              /\ m.map[i].base % FRAME_SIZE = 0 /\ m.map[i].length % FRAME_SIZE = 0
              /\ \A j \in Ours(m.map) \ {i} :
                    \/ m.map[i].base + m.map[i].length <= m.map[j].base
                    \/ m.map[j].base + m.map[j].length <= m.map[i].base
        /\ FramesOf(m.map, "USABLE") \subseteq Pages
        /\ m.tables \in Seq(Range(m.tables)) /\ m.tables # <<>>
        /\ \A k \in DOMAIN m.tables :
              /\ m.tables[k].frame \in FramesOf(m.map, "RECLAIMABLE")
              /\ m.tables[k].kids \subseteq DOMAIN m.tables

VARIABLES
    machine,
    pc,             \* next step of each processor
    heap,           \* the heap's range
    cr3, tables,    \* the root of each processor, and the kids of each table
    kernel_pml4,    \* KERNEL_PML4_PHYS
    mapped,         \* the MMIO regions that a root maps
    idt_lock, populated, idtr,      \* IDT, IDT_POPULATED, and who loaded it
    lapic,          \* the processors whose LAPIC is enabled
    cursor, madt,   \* the walk over the MADT, and what it has found
    gs, slots,      \* the slot of each processor, CPUS[slot].apic_id
    redir,          \* redirection entries of the first IOAPIC
    at,             \* smp::init: next of machine.cpus
    next_slot, launched,
    extra, goto,    \* mp::Cpu: extra, and who has a goto_address
    online          \* AP_ONLINE_COUNT

pagingVars == <<heap, cr3, tables, kernel_pml4, mapped>>
idtVars == <<idt_lock, populated, idtr>>
irqVars == <<lapic, cursor, madt, redir>>
slotVars == <<gs, slots>>
smpVars == <<at, next_slot, launched, extra, goto, online>>
bootVars == <<machine, pc, pagingVars, idtVars, irqVars, slotVars, smpVars>>

bsp == machine.bsp
Cpus == Range(machine.cpus)
KEYBOARD == 33      \* KEYBOARD_VECTOR

Goto(c, l) == pc' = [pc EXCEPT ![c] = l]
Panic(c) == Goto(c, "panic")

TheRoot == machine.tables[1].frame

Init ==
    /\ machine \in Machines
    /\ pc = [c \in Cpus |-> IF c = bsp THEN "heap" ELSE "limine"]
    /\ heap = [start |-> 0, end |-> 0] /\ free = <<>>
    /\ cr3 = [c \in Cpus |-> TheRoot]
    /\ tables = [f \in {machine.tables[k].frame : k \in DOMAIN machine.tables} |->
                   UNION {{machine.tables[j].frame : j \in machine.tables[k].kids} :
                             k \in {i \in DOMAIN machine.tables : machine.tables[i].frame = f}}]
    /\ kernel_pml4 = NONE
    /\ mapped = [f \in {TheRoot} |-> {}]
    /\ idt_lock = NONE /\ populated = FALSE /\ idtr = {}
    /\ lapic = {}
    /\ cursor = 0 /\ madt = [cpus |-> {}, ioapics |-> <<>>, overrides |-> <<>>]
    /\ gs = [c \in Cpus |-> NONE] /\ slots = [s \in 0 .. MAX_CPUS - 1 |-> NONE]
    /\ redir = [e \in 0 .. machine.redirs - 1 |->
                  [masked |-> e \notin machine.open, vector |-> 0, dest |-> NONE]]
    /\ at = 1 /\ next_slot = 1 /\ launched = 0
    /\ extra = [c \in Cpus |-> 0] /\ goto = {} /\ online = 0
    /\ BalloonInit /\ (machine.balloon \/ target = 0)

-----------------------------------------------------------------------------
(* init_heap, heap::init and gdt::init.                                     *)
InitHeap ==
    /\ pc[bsp] = "heap"
    /\ IF Usable(machine.map) = {}
       THEN Panic(bsp) /\ UNCHANGED heap
       ELSE heap' = HeapOf(machine.map) /\ Goto(bsp, "idt")
    /\ UNCHANGED <<machine, cr3, tables, kernel_pml4, mapped, idtVars, irqVars, slotVars,
                   smpVars, balloonVars>>

(* idt::init, on any processor: the lock, then the entries, which the first *)
(* one fills in, and lidt.                                                  *)
IdtLock(c) ==
    /\ pc[c] = "idt" /\ idt_lock = NONE
    /\ idt_lock' = c
    /\ Goto(c, "lidt")
    /\ UNCHANGED <<machine, pagingVars, populated, idtr, irqVars, slotVars, smpVars,
                   balloonVars>>

(* Mutant of IdtLoad: an AP counts as online as soon as it has its table.   *)
IdtLoadCounts(c) ==
    /\ pc[c] = "lidt"
    /\ populated' = TRUE
    /\ idtr' = idtr \cup {c}
    /\ idt_lock' = NONE
    /\ Goto(c, IF c = bsp THEN "frames" ELSE "lapic")
    /\ online' = IF c = bsp THEN online ELSE online + 1
    /\ UNCHANGED <<machine, pagingVars, irqVars, slotVars, at, next_slot, launched, extra,
                   goto, balloonVars>>

IdtLoad(c) ==
    /\ pc[c] = "lidt"
    /\ populated' = TRUE
    /\ idtr' = idtr \cup {c}
    /\ idt_lock' = NONE
    /\ Goto(c, IF c = bsp THEN "frames" ELSE "lapic")
    /\ UNCHANGED <<machine, pagingVars, irqVars, slotVars, smpVars, balloonVars>>

(* frames::init: a pool without a frame fails the trial allocation.         *)
FramesInit ==
    /\ pc[bsp] = "frames"
    /\ free' = PoolOf(machine.map, heap)
    /\ IF free' = <<>> THEN Panic(bsp) ELSE Goto(bsp, "paging")
    /\ UNCHANGED <<machine, pagingVars, idtVars, irqVars, slotVars, smpVars, listVars,
                   bodyVars, hostVars, told, dma>>

(* g, and f where it says something.                                        *)
Over(f, g) ==
    [x \in DOMAIN f \cup DOMAIN g |-> IF x \in DOMAIN f THEN f[x] ELSE g[x]]

(* Mutant of DeepKids: only the root is a copy.                             *)
ShallowKids(new, k) == {machine.tables[j].frame : j \in machine.tables[k].kids}

(* deep_clone_table: what the clone of the kth table points to, new[j]      *)
(* being the frame for the jth table that the walk meets.                   *)
DeepKids(new, k) == {new[j] : j \in machine.tables[k].kids}

(* paging::init, with all the clones.                                       *)
PagingInit ==
    /\ pc[bsp] = "paging"
    /\ LET n == Len(machine.tables)
           new == [k \in 1 .. n |-> free[Len(free) - k + 1]]
           source == [f \in {new[k] : k \in 1 .. n} |->
                         CHOOSE k \in 1 .. n : new[k] = f]
       IN  IF Len(free) < n
           THEN Panic(bsp) /\ free' = <<>> /\ UNCHANGED <<cr3, tables, kernel_pml4, mapped>>
           ELSE /\ free' = SubSeq(free, 1, Len(free) - n)
                /\ tables' = Over([f \in DOMAIN source |-> DeepKids(new, source[f])], tables)
                /\ cr3' = [cr3 EXCEPT ![bsp] = new[1]]
                /\ kernel_pml4' = new[1]
                /\ mapped' = Over([f \in {new[1]} |-> {}], mapped)
                /\ Goto(bsp, "apic")
    /\ UNCHANGED <<machine, heap, idtVars, irqVars, slotVars, smpVars, listVars, bodyVars,
                   hostVars, told, dma>>

(* map_mmio of a region on the BSP, which may take a table, and what comes  *)
(* after it.                                                                *)
MapMmio(region, after) ==
    LET root == cr3[bsp]
        Map == mapped' = [mapped EXCEPT ![root] = @ \cup {region}] /\ Goto(bsp, after)
    IN  \/ Map /\ UNCHANGED <<free, tables>>
        \/ /\ Map
           /\ \E f \in Pages :
                 /\ AllocFrame(f)
                 /\ tables' = Over([t \in {f} |-> {}], [tables EXCEPT ![root] = @ \cup {f}])
        \/ free = <<>> /\ Panic(bsp) /\ UNCHANGED <<free, tables, mapped>>

(* apic::init: the flags, the mapping, SVR, the calibration and the timer.  *)
Calibrated(m) == m.ticks \in 1000 .. 1000000000
ApicInit ==
    /\ pc[bsp] = "apic"
    /\ IF /\ {"LAPIC_ENABLE", "BSP"} \subseteq machine.apic
          /\ "X2APIC_ENABLE" \notin machine.apic
       THEN /\ MapMmio("lapic", IF Calibrated(machine) THEN "acpi" ELSE "panic")
            /\ lapic' = lapic \cup {bsp}
       ELSE Panic(bsp) /\ UNCHANGED <<free, tables, mapped, lapic>>
    /\ UNCHANGED <<machine, heap, cr3, kernel_pml4, idtVars, cursor, madt, redir, slotVars,
                   smpVars, listVars, bodyVars, hostVars, told, dma>>

-----------------------------------------------------------------------------
(* acpi::init to the first entry of the MADT.                               *)
AcpiInit ==
    /\ pc[bsp] = "acpi"
    /\ IF /\ machine.acpi.rsdp = "RSD PTR "
          /\ machine.acpi.sdt = IF machine.acpi.revision >= 2 THEN "XSDT" ELSE "RSDT"
          /\ "APIC" \in Range(machine.acpi.entries)
       THEN MapMmio("acpi", "madt") /\ cursor' = 44
       ELSE Panic(bsp) /\ UNCHANGED <<free, tables, mapped, cursor>>
    /\ UNCHANGED <<machine, heap, cr3, kernel_pml4, idtVars, lapic, madt, redir, slotVars,
                   smpVars, listVars, bodyVars, hostVars, told, dma>>

(* What the walk keeps of an entry.                                         *)
Found(m, e) ==
    IF e.type = 0 /\ e.len >= 8 THEN [m EXCEPT !.cpus = @ \cup {e.apic_id}]
    ELSE IF e.type = 1 /\ e.len >= 12
    THEN [m EXCEPT !.ioapics = Append(@, [base |-> e.base, gsi_base |-> e.gsi_base])]
    ELSE IF e.type = 2 /\ e.len >= 10
    THEN [m EXCEPT !.overrides = Append(@, [source |-> e.source, gsi |-> e.gsi])]
    ELSE m

(* An iteration of the walk, and the check that it has listed the BSP.      *)
MadtWalk ==
    /\ pc[bsp] = "madt"
    /\ IF cursor + 2 <= machine.madt.length
       THEN LET e == machine.madt.at[cursor]
            IN  IF e.len >= 2 /\ cursor + e.len <= machine.madt.length
                THEN /\ madt' = Found(madt, e)
                     /\ cursor' = cursor + e.len
                     /\ UNCHANGED pc
                ELSE Panic(bsp) /\ UNCHANGED <<madt, cursor>>
       ELSE /\ IF bsp \in madt.cpus THEN Goto(bsp, "gs") ELSE Panic(bsp)
            /\ UNCHANGED <<madt, cursor>>
    /\ UNCHANGED <<machine, pagingVars, idtVars, lapic, redir, slotVars, smpVars,
                   balloonVars>>

-----------------------------------------------------------------------------
(* init_slot: init_bsp of the BSP, init_ap of an AP with its slot.          *)
InitSlot(c) ==
    /\ pc[c] = "gs"
    /\ LET s == IF c = bsp THEN 0 ELSE extra[c]
       IN  IF s < MAX_CPUS
           THEN /\ gs' = [gs EXCEPT ![c] = s]
                /\ slots' = [slots EXCEPT ![s] = c]
                /\ Goto(c, IF c = bsp THEN "ioapic" ELSE "idt")
           ELSE Panic(c) /\ UNCHANGED slotVars
    /\ UNCHANGED <<machine, pagingVars, idtVars, irqVars, smpVars, balloonVars>>

(* ioapic::init: every entry masked.                                        *)
IoapicInit ==
    /\ pc[bsp] = "ioapic"
    /\ IF madt.ioapics = <<>>
       THEN Panic(bsp) /\ UNCHANGED <<free, tables, mapped, redir>>
       ELSE /\ MapMmio("ioapic", "kbd")
            /\ redir' = [e \in DOMAIN redir |->
                           IF e <= machine.redirs - 1 THEN [redir[e] EXCEPT !.masked = TRUE] ELSE redir[e]]
    /\ UNCHANGED <<machine, heap, cr3, kernel_pml4, idtVars, lapic, cursor, madt, slotVars,
                   smpVars, listVars, bodyVars, hostVars, told, dma>>

(* kbd::init_irq: the first override of ISA line 1, and ioapic::program.    *)
KbdGsi ==
    LET over == {i \in DOMAIN madt.overrides : madt.overrides[i].source = 1}
    IN  IF over = {} THEN 1 ELSE madt.overrides[Min(over)].gsi

KbdInitIrq ==
    /\ pc[bsp] = "kbd"
    /\ LET e == KbdGsi - madt.ioapics[1].gsi_base
       IN  IF e \in DOMAIN redir
           THEN /\ redir' = [redir EXCEPT ![e] =
                               [masked |-> FALSE, vector |-> KEYBOARD, dest |-> bsp]]
                /\ Goto(bsp, "smp")
           ELSE Panic(bsp) /\ UNCHANGED redir
    /\ UNCHANGED <<machine, pagingVars, idtVars, lapic, cursor, madt, slotVars, smpVars,
                   balloonVars>>

-----------------------------------------------------------------------------
(* smp::init: the next processor, unless it is the BSP or there is no slot  *)
(* left for it, is given its slot.                                          *)
SmpStashWith(stored, counted) ==
    /\ pc[bsp] = "smp"
    /\ IF at > Len(machine.cpus)
       THEN Goto(bsp, "wait") /\ UNCHANGED <<at, extra, launched>>
       ELSE LET c == machine.cpus[at]
            IN  IF c = bsp \/ next_slot >= MAX_CPUS
                THEN /\ at' = at + 1
                     /\ launched' = IF c = bsp THEN launched ELSE launched + counted
                     /\ UNCHANGED <<pc, extra>>
                ELSE /\ extra' = [extra EXCEPT ![c] = stored]
                     /\ Goto(bsp, "goto")
                     /\ UNCHANGED <<at, launched>>
    /\ UNCHANGED <<machine, pagingVars, idtVars, irqVars, slotVars, next_slot, goto, online,
                   balloonVars>>

(* Mutants: the slot not stored; a skipped processor waited for.            *)
SmpStashForgets == SmpStashWith(0, 0)
SmpStashCountsSkipped == SmpStashWith(next_slot, 1)

SmpStash == SmpStashWith(next_slot, 0)

(* Then its goto_address is published.                                      *)
SmpGoto ==
    /\ pc[bsp] = "goto"
    /\ goto' = goto \cup {machine.cpus[at]}
    /\ at' = at + 1
    /\ next_slot' = next_slot + 1
    /\ launched' = launched + 1
    /\ Goto(bsp, "smp")
    /\ UNCHANGED <<machine, pagingVars, idtVars, irqVars, slotVars, extra, online,
                   balloonVars>>

SmpWait ==
    /\ pc[bsp] = "wait" /\ online >= launched
    /\ Goto(bsp, "up")
    /\ UNCHANGED <<machine, pagingVars, idtVars, irqVars, slotVars, smpVars, balloonVars>>

(* ap_entry: Limine's stub jumps once there is an address; the kernel's     *)
(* tables are loaded first.                                                 *)
ApEntry(c) ==
    /\ pc[c] = "limine" /\ c \in goto
    /\ cr3' = [cr3 EXCEPT ![c] = kernel_pml4]
    /\ Goto(c, "gs")
    /\ UNCHANGED <<machine, heap, tables, kernel_pml4, mapped, idtVars, irqVars, slotVars,
                   smpVars, balloonVars>>

(* apic::ap_init: SVR, which faults where the LAPIC is not mapped, and the  *)
(* id of the hardware into current_cpu().                                   *)
ApLapic(c) ==
    /\ pc[c] = "lapic"
    /\ IF "lapic" \in mapped[cr3[c]]
       THEN /\ lapic' = lapic \cup {c}
            /\ slots' = [slots EXCEPT ![gs[c]] = c]
            /\ Goto(c, "online")
       ELSE Goto(c, "fault") /\ UNCHANGED <<lapic, slots>>
    /\ UNCHANGED <<machine, pagingVars, idtVars, cursor, madt, redir, gs, smpVars,
                   balloonVars>>

ApOnline(c) ==
    /\ pc[c] = "online"
    /\ online' = online + 1
    /\ Goto(c, "hlt")
    /\ UNCHANGED <<machine, pagingVars, idtVars, irqVars, slotVars, at, next_slot, launched,
                   extra, goto, balloonVars>>

CpuStep(c) == IdtLock(c) \/ IdtLoad(c) \/ InitSlot(c)
BspStep ==
    \/ InitHeap \/ FramesInit \/ PagingInit \/ ApicInit \/ AcpiInit \/ MadtWalk
    \/ IoapicInit \/ KbdInitIrq \/ SmpStash \/ SmpGoto \/ SmpWait
ApStep(c) == ApEntry(c) \/ ApLapic(c) \/ ApOnline(c)

Running == pc[bsp] = "up" /\ machine.balloon

Next ==
    \/ BspStep
    \/ \E c \in Cpus : CpuStep(c) \/ (c # bsp /\ ApStep(c))
    \/ Running /\ BalloonNext /\ UNCHANGED bootVars

vars == <<bootVars, balloonVars>>

(* Every processor runs.                                                    *)
AllCpus == UNION {Range(m.cpus) : m \in Machines}
CpuRuns(c) ==
    \/ c = bsp /\ BspStep
    \/ c \in Cpus /\ (CpuStep(c) \/ (c # bsp /\ ApStep(c)))
Spec == Init /\ [][Next]_vars
FairSpec == Spec /\ \A c \in AllCpus : WF_vars(CpuRuns(c))

-----------------------------------------------------------------------------
(* No two processors share a slot of CPUS, and a slot has the id of the     *)
(* processor that uses it: the AP reads its slot from Limine's structure    *)
(* after the BSP has written it there.                                      *)
SlotsApart ==
    \A c \in Cpus : gs[c] # NONE =>
        /\ slots[gs[c]] = c
        /\ \A d \in Cpus \ {c} : gs[d] # gs[c]

(* When smp::init returns, every processor it started, and every one there  *)
(* is where there are slots enough, has its slot, its interrupt table, its  *)
(* LAPIC and the kernel's page tables; and no interrupt line that the       *)
(* firmware left open reaches a vector: the keyboard's alone is open, to    *)
(* the BSP.                                                                 *)
UpIsReady ==
    pc[bsp] = "up" =>
        /\ \A c \in goto \cup {bsp} :
              c \in idtr \cap lapic /\ gs[c] # NONE /\ cr3[c] = kernel_pml4
        /\ Len(machine.cpus) <= MAX_CPUS => goto = Cpus \ {bsp}
        /\ LET open == {e \in DOMAIN redir : ~redir[e].masked}
           IN  /\ open = {machine.keyboard - madt.ioapics[1].gsi_base}
               /\ \A e \in open : redir[e].vector = KEYBOARD /\ redir[e].dest = bsp

(* The tables reached from a root.                                          *)
Reach(root) ==
    LET r[k \in 0 .. Cardinality(DOMAIN tables)] ==
            IF k = 0 THEN {root} ELSE r[k - 1] \cup UNION {tables[f] : f \in r[k - 1]}
    IN  r[Cardinality(DOMAIN tables)]

(* Once the pool is there, every usable frame is in exactly one place: the  *)
(* heap, the pool, a page table, a driver's DMA memory or a page; nothing   *)
(* is handed out twice, nothing leaks, and nothing else is ever in use.     *)
(* From paging::init on, no table that the kernel's root reaches, at any    *)
(* level, is in memory that the bootloader left to be reclaimed.            *)
FramesOnce ==
    LET Reclaimable == FramesOf(machine.map, "RECLAIMABLE")
        Heap == Range(AddRegion(heap.start, heap.end - heap.start))
        Tables == DOMAIN tables \ Reclaimable
        Places == <<Heap, Range(free), Tables, dma, {p \in Pages : ref[p] > 0}>>
    IN  pc[bsp] \notin {"heap", "idt", "lidt", "frames", "panic"} =>
            /\ IsInjective(free)
            /\ \A i, j \in DOMAIN Places : i # j => Places[i] \cap Places[j] = {}
            /\ UNION Range(Places) = FramesOf(machine.map, "USABLE")
            /\ kernel_pml4 # NONE => Reach(kernel_pml4) \cap Reclaimable = {}

(* What the kernel asks of a machine.                                       *)
Entries(m, t) == {m.madt.at[c] : c \in {o \in DOMAIN m.madt.at : m.madt.at[o].type = t}}
Healthy(m) ==
    /\ m.apic = {"LAPIC_ENABLE", "BSP"} /\ Calibrated(m)
    /\ m.acpi.rsdp = "RSD PTR " /\ "APIC" \in Range(m.acpi.entries)
    /\ m.acpi.sdt = IF m.acpi.revision >= 2 THEN "XSDT" ELSE "RSDT"
    /\ \A o \in DOMAIN m.madt.at :
          m.madt.at[o].len >= 2 /\ o + m.madt.at[o].len <= m.madt.length
    /\ \E e \in Entries(m, 0) : e.len >= 8 /\ e.apic_id = m.bsp
    /\ \E e \in Entries(m, 1) : e.len >= 12
    /\ \A e \in Entries(m, 1) : m.keyboard - e.gsi_base \in 0 .. m.redirs - 1
    /\ Usable(m.map) # {}
    /\ Len(PoolOf(m.map, HeapOf(m.map))) >= Len(m.tables) + 3

(* The boot ends, up or in a panic, and up when the machine is as it should *)
(* be: however the APs interleave, the BSP's wait for them is over in the   *)
(* end.                                                                     *)
BootEnds == <>(pc[bsp] = "up" \/ (pc[bsp] = "panic" /\ ~Healthy(machine)))
=============================================================================
