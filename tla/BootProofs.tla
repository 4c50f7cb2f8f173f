----------------------------- MODULE BootProofs -----------------------------
(***************************************************************************)
(* The boot for any machine whose firmware tells the truth, and any number *)
(* of processors and slots, however the processors interleave: no two      *)
(* share a slot, and when smp::init returns all that were started are      *)
(* ready and the keyboard's line alone is open.                            *)
(***************************************************************************)
EXTENDS Boot, FiniteSetTheorems, WellFoundedInduction, TLAPS

(* Where the BSP is.                                                        *)
Late == {"smp", "goto", "wait", "up"}
Slotted == Late \cup {"ioapic", "kbd"}
Walked == Slotted \cup {"gs"}
Ticking == Walked \cup {"acpi", "madt"}
Paged == Ticking \cup {"apic"}
Trapping == Paged \cup {"frames", "paging"}
Stations == Trapping \cup {"heap", "idt", "lidt", "panic"}
ApStations == {"limine", "gs", "idt", "lidt", "lapic", "online", "hlt", "panic", "fault"}

TableOf(m) ==
    [cpus      : SUBSET {e.apic_id : e \in Entries(m, 0)},
     ioapics   : Seq({[base |-> e.base, gsi_base |-> e.gsi_base] : e \in Entries(m, 1)}),
     overrides : Seq({[source |-> e.source, gsi |-> e.gsi] : e \in Entries(m, 2)})]

BootTypes ==
    /\ machine \in Machines
    /\ pc \in [Cpus -> Stations \cup ApStations] /\ DOMAIN gs = Cpus /\ DOMAIN cr3 = Cpus
    /\ DOMAIN slots = 0 .. MAX_CPUS - 1
    /\ extra \in [Cpus -> Nat]
    /\ goto \subseteq Cpus \ {bsp}
    /\ pc[bsp] \in Stations /\ \A c \in Cpus \ {bsp} : pc[c] \in ApStations

(* smp::init: who was started has a slot of its own, and the one that is    *)
(* about to be started the next.                                            *)
Started ==
    /\ at \in 1 .. Len(machine.cpus) + 1
    /\ next_slot \in 1 .. MAX_CPUS
    /\ \A c \in goto : \E i \in 1 .. at - 1 : c = machine.cpus[i]
    /\ \A c \in goto : extra[c] \in 1 .. next_slot - 1
    /\ \A c, d \in goto : extra[c] = extra[d] => c = d
    /\ pc[bsp] = "goto" =>
          /\ at <= Len(machine.cpus) /\ machine.cpus[at] # bsp
          /\ next_slot < MAX_CPUS /\ extra[machine.cpus[at]] = next_slot
    /\ pc[bsp] \notin Late => goto = {}

(* A processor uses the slot it was given, if any, and has done what it has *)
(* passed.                                                                  *)
SlotOf(c) == IF c = bsp THEN 0 ELSE extra[c]
Owns(c) ==
    gs[c] # NONE =>
        /\ gs[c] = SlotOf(c) /\ SlotOf(c) \in 0 .. MAX_CPUS - 1 /\ slots[SlotOf(c)] = c
        /\ c # bsp => c \in goto

BspDone ==
    /\ pc[bsp] \in Trapping => bsp \in idtr
    /\ pc[bsp] \in Paged => cr3[bsp] = kernel_pml4
    /\ pc[bsp] \in Ticking => bsp \in lapic
    /\ pc[bsp] \in Slotted => gs[bsp] # NONE

ApDone(c) ==
    /\ pc[c] # "limine" => c \in goto /\ cr3[c] = kernel_pml4
    /\ pc[c] \in {"idt", "lidt", "lapic", "online", "hlt"} => gs[c] # NONE
    /\ pc[c] \in {"lapic", "online", "hlt"} => c \in idtr
    /\ pc[c] \in {"online", "hlt"} => c \in lapic

CpusInv == (\A c \in Cpus : Owns(c)) /\ BspDone /\ (\A c \in Cpus \ {bsp} : ApDone(c))

(* The two counts that smp::init compares, and who it skips.                *)
Halted == {c \in goto : pc[c] = "hlt"}
CountInv ==
    /\ launched = Cardinality(goto) /\ next_slot = launched + 1
    /\ online = Cardinality(Halted)
    /\ Len(machine.cpus) <= MAX_CPUS =>
          \A i \in 1 .. at - 1 : machine.cpus[i] \in goto \cup {bsp}
    /\ pc[bsp] \in {"wait", "up"} => at = Len(machine.cpus) + 1
    /\ pc[bsp] = "up" => Halted = goto

(* The walk over the MADT has seen the keyboard's override if it has passed *)
(* one.                                                                     *)
Passed == {o \in KbdOverrides(machine.madt) : o < cursor}
Overs == {i \in DOMAIN madt.overrides : madt.overrides[i].source = 1}
MadtInv ==
    /\ madt \in TableOf(machine)
    /\ pc[bsp] \notin Walked \cup {"madt", "panic"} => madt.overrides = <<>>
    /\ pc[bsp] = "madt" =>
          /\ cursor \in Nat /\ cursor >= 44
          /\ cursor \in DOMAIN machine.madt.at \/ cursor + 2 > machine.madt.length
          /\ Overs = {} <=> Passed = {}
          /\ Passed # {} => KbdGsi = machine.madt.at[Min(Passed)].gsi
    /\ pc[bsp] \in Walked => KbdGsi = machine.keyboard

(* The redirection entries, all masked and then all but the keyboard's.     *)
RedirInv ==
    LET line == machine.keyboard - madt.ioapics[1].gsi_base
    IN  /\ redir \in [0 .. machine.redirs - 1 ->
                        [masked : BOOLEAN, vector : {0, KEYBOARD}, dest : Cpus \cup {NONE}]]
        /\ pc[bsp] = "kbd" => \A e \in DOMAIN redir : redir[e].masked
        /\ pc[bsp] \in Late =>
              /\ line \in DOMAIN redir
              /\ \A e \in DOMAIN redir : redir[e].masked <=> e # line
              /\ redir[line].vector = KEYBOARD /\ redir[line].dest = bsp

BootInv == BootTypes /\ Started /\ CpusInv /\ CountInv /\ MadtInv /\ RedirInv

-----------------------------------------------------------------------------
(* What the machine is like.                                                *)
LEMMA MachineFacts ==
  ASSUME machine \in Machines
  PROVE  /\ bsp \in Cpus /\ Cpus = {machine.cpus[i] : i \in 1 .. Len(machine.cpus)}
         /\ Len(machine.cpus) \in Nat /\ DOMAIN machine.cpus = 1 .. Len(machine.cpus)
         /\ \A i, j \in 1 .. Len(machine.cpus) : machine.cpus[i] = machine.cpus[j] => i = j
         /\ MAX_CPUS \in Nat \ {0} /\ NONE \notin 0 .. MAX_CPUS - 1
<1>1. /\ machine.cpus \in Seq(Range(machine.cpus)) /\ IsInjective(machine.cpus)
      /\ machine.bsp \in Range(machine.cpus)
      /\ MAX_CPUS \in Nat \ {0} /\ NONE \notin 0 .. MAX_CPUS - 1
  BY MachinesAssumption
<1>2. Len(machine.cpus) \in Nat /\ DOMAIN machine.cpus = 1 .. Len(machine.cpus)
  BY <1>1
<1>3. Cpus = {machine.cpus[i] : i \in 1 .. Len(machine.cpus)}
  BY <1>2, Zenon DEF Cpus, Range
<1> QED BY <1>1, <1>2, <1>3, Zenon DEF Cpus, bsp, IsInjective

(* The invariant holds when _start is entered.                              *)
LEMMA InitBootInv == Init => BootInv
<1> SUFFICES ASSUME Init PROVE BootInv
  BY Zenon
<1>1. machine \in Machines
  BY Zenon DEF Init
<1>2. BootTypes
  <2>1. /\ pc \in [Cpus -> Stations \cup ApStations] /\ pc[bsp] = "heap"
        /\ \A c \in Cpus \ {bsp} : pc[c] = "limine"
    <3>1. pc = [c \in Cpus |-> IF c = bsp THEN "heap" ELSE "limine"] /\ bsp \in Cpus
      BY <1>1, MachineFacts, Zenon DEF Init
    <3>2. "heap" \in Stations \cup ApStations /\ "limine" \in Stations \cup ApStations
      BY Zenon DEF Stations, ApStations
    <3> QED BY <3>1, <3>2
  <2>2. DOMAIN gs = Cpus /\ DOMAIN cr3 = Cpus /\ DOMAIN slots = 0 .. MAX_CPUS - 1
    BY Zenon DEF Init
  <2>3. extra \in [Cpus -> Nat] /\ goto = {}
    BY DEF Init
  <2> QED BY <1>1, <2>1, <2>2, <2>3, Zenon DEF BootTypes, Stations, ApStations
<1>3. Started
  <2>1. pc[bsp] = "heap" /\ goto = {} /\ at = 1 /\ next_slot = 1
    BY <1>1, MachineFacts, Zenon DEF Init
  <2>2. 1 \in 1 .. Len(machine.cpus) + 1 /\ 1 \in 1 .. MAX_CPUS
    BY <1>1, MachineFacts
  <2> QED BY <2>1, <2>2 DEF Started, Late
<1>4. CpusInv
  <2>1. \A c \in Cpus : gs[c] = NONE /\ (c = bsp => pc[c] = "heap") /\ (c # bsp => pc[c] = "limine")
    BY Zenon DEF Init
  <2>2. bsp \in Cpus
    BY <1>1, MachineFacts, Zenon
  <2> QED BY <2>1, <2>2 DEF CpusInv, Owns, BspDone, ApDone, Trapping, Paged, Ticking, Walked, Slotted, Late
<1>5. CountInv
  <2>1. /\ pc[bsp] = "heap" /\ goto = {} /\ at = 1 /\ next_slot = 1 /\ launched = 0 /\ online = 0
        /\ Halted = {}
    BY <1>1, MachineFacts, Zenon DEF Init, Halted
  <2>2. Cardinality({}) = 0
    BY FS_EmptySet, Zenon
  <2>3. 1 .. at - 1 = {} /\ next_slot = launched + 1
    BY <2>1
  <2> QED BY <2>1, <2>2, <2>3 DEF CountInv
<1>6. MadtInv
  <2>1. pc[bsp] = "heap"
    BY <1>1, MachineFacts, Zenon DEF Init
  <2>2. madt = [cpus |-> {}, ioapics |-> <<>>, overrides |-> <<>>]
    BY Zenon DEF Init
  <2>3. madt \in TableOf(machine)
    BY <2>2 DEF TableOf
  <2> QED BY <2>1, <2>2, <2>3 DEF MadtInv, Walked, Slotted, Late
<1>7. RedirInv
  <2>1. pc[bsp] = "heap"
    BY <1>1, MachineFacts, Zenon DEF Init
  <2>2. redir = [e \in 0 .. machine.redirs - 1 |->
                  [masked |-> e \notin machine.open, vector |-> 0, dest |-> NONE]]
    BY Zenon DEF Init
  <2> DEFINE R == [masked : BOOLEAN, vector : {0, KEYBOARD}, dest : Cpus \cup {NONE}]
  <2>3. \A e : [masked |-> e \notin machine.open, vector |-> 0, dest |-> NONE] \in R
    BY Zenon
  <2> HIDE DEF R
  <2>4. redir \in [0 .. machine.redirs - 1 -> R]
    BY <2>2, <2>3, Zenon
  <2> QED BY <2>1, <2>4 DEF RedirInv, Late, R
<1> QED BY <1>2, <1>3, <1>4, <1>5, <1>6, <1>7, Zenon DEF BootInv

-----------------------------------------------------------------------------
(* The counts by their sets.                                                *)
LEMMA CpusFinite ==
  ASSUME machine \in Machines
  PROVE  IsFiniteSet(Cpus) /\ Cardinality(Cpus) <= Len(machine.cpus)
<1> DEFINE N == 1 .. Len(machine.cpus)
           Img == {machine.cpus[i] : i \in N}
<1>1. Len(machine.cpus) \in Nat /\ Cpus = Img
  BY MachineFacts, Zenon
<1>2. IsFiniteSet(N) /\ Cardinality(N) = Len(machine.cpus)
  <2>1. /\ IsFiniteSet(1 .. Len(machine.cpus))
        /\ Cardinality(1 .. Len(machine.cpus)) =
             IF 1 > Len(machine.cpus) THEN 0 ELSE Len(machine.cpus) - 1 + 1
    <3>1. 1 \in Int /\ Len(machine.cpus) \in Int
      BY <1>1
    <3> QED BY <3>1, FS_Interval, Zenon
  <2> QED BY <1>1, <2>1
<1>3. DOMAIN machine.cpus = N
  BY MachineFacts, Zenon
<1> HIDE DEF N
<1>4. IsFiniteSet(Img) /\ Cardinality(Img) <= Cardinality(N)
  <2> DEFINE f == [i \in N |-> machine.cpus[i]]
  <2>1. f \in Surjection(N, Img)
    BY Zenon DEF Surjection
  <2> HIDE DEF f, Img
  <2> QED BY <1>2, <2>1, FS_Surjection
<1> QED BY <1>1, <1>2, <1>4

(* Before smp::init no AP has left Limine's loop.                           *)
LEMMA NobodyStarted ==
  ASSUME BootInv, pc[bsp] \notin Late
  PROVE  /\ goto = {} /\ Halted = {}
         /\ \A c \in Cpus \ {bsp} : pc[c] = "limine" /\ gs[c] = NONE
BY Zenon DEF BootInv, Started, CpusInv, ApDone, Owns, Halted

(* A step of the BSP before smp::init, which leaves the slots alone.        *)
Early(l) ==
    /\ pc[bsp] \notin Late
    /\ l \in Stations /\ l \notin {"goto", "wait", "up"}
    /\ pc' = [pc EXCEPT ![bsp] = l]
    /\ UNCHANGED <<machine, slotVars, smpVars>>
    /\ DOMAIN cr3' = Cpus
    /\ BspDone'

LEMMA EarlyKeeps ==
  ASSUME BootInv, NEW l, Early(l)
  PROVE  BootTypes' /\ Started' /\ CpusInv' /\ CountInv'
<1>1. /\ UNCHANGED <<machine, gs, slots, at, next_slot, launched, extra, goto, online>>
      /\ bsp' = bsp /\ Cpus' = Cpus
  BY Zenon DEF Early, slotVars, smpVars, bsp, Cpus
<1>2. machine \in Machines /\ bsp \in Cpus /\ pc \in [Cpus -> Stations \cup ApStations]
  BY MachineFacts, Zenon DEF BootInv, BootTypes
<1>3. l \in Stations \cup ApStations
  BY Zenon DEF Early
<1>4. pc'[bsp] = l /\ pc' \in [Cpus -> Stations \cup ApStations] /\ \A c \in Cpus \ {bsp} : pc'[c] = pc[c]
  BY <1>2, <1>3, Zenon DEF Early
<1>5. goto = {} /\ Halted = {} /\ \A c \in Cpus \ {bsp} : pc[c] = "limine" /\ gs[c] = NONE
  BY NobodyStarted, Zenon DEF Early
<1>6. BootTypes'
  BY <1>1, <1>4, Zenon DEF BootInv, BootTypes, Early
<1>7. Started'
  BY <1>1, <1>4, <1>5, Zenon DEF BootInv, Started, Early
<1>8. CpusInv'
  <2>1. BspDone'
    BY Zenon DEF Early
  <2>2. \A c \in Cpus \ {bsp} : ApDone(c)'
    BY <1>1, <1>4, <1>5 DEF ApDone
  <2>3. \A c \in Cpus : Owns(c)'
    BY <1>1, Zenon DEF BootInv, CpusInv, Owns, SlotOf
  <2> QED BY <1>1, <2>1, <2>2, <2>3, Zenon DEF CpusInv
<1>9. CountInv'
  <2>1. Halted' = Halted
    BY <1>1, <1>5, Zenon DEF Halted
  <2> QED BY <1>1, <1>4, <2>1, Zenon DEF BootInv, CountInv, Early
<1> QED BY <1>6, <1>7, <1>8, <1>9, Zenon

(* A step that leaves the tables alone and does not enter a stage at which  *)
(* more is known of them.                                                   *)
Enters(S) == pc'[bsp] \in S /\ pc[bsp] \notin S
TablesAlone ==
    /\ UNCHANGED <<machine, cursor, madt, redir>>
    /\ ~Enters(Walked) /\ ~Enters({"madt"}) /\ ~Enters({"kbd"}) /\ ~Enters(Late)
    /\ pc[bsp] \in Walked \cup {"madt", "panic"} => pc'[bsp] \in Walked \cup {"madt", "panic"}

LEMMA TablesKept ==
  ASSUME MadtInv, RedirInv, TablesAlone
  PROVE  MadtInv' /\ RedirInv'
<1>1. UNCHANGED <<machine, cursor, madt, redir>> /\ bsp' = bsp /\ Cpus' = Cpus
  BY Zenon DEF TablesAlone, bsp, Cpus
<1>2. Passed' = Passed /\ Overs' = Overs /\ KbdGsi' = KbdGsi
  BY <1>1, Zenon DEF Passed, Overs, KbdGsi
<1>3. MadtInv'
  BY <1>1, <1>2, Zenon DEF MadtInv, TablesAlone, Enters
<1>4. RedirInv'
  BY <1>1, Zenon DEF RedirInv, TablesAlone, Enters
<1> QED BY <1>3, <1>4, Zenon

(* The stages by name.                                                      *)
LEMMA StageSets ==
  /\ \A l \in {"heap", "idt", "lidt", "panic"} :
        l \in Stations /\ l \notin Trapping /\ l \notin Paged /\ l \notin Ticking /\ l \notin Walked
        /\ l \notin Slotted /\ l \notin Late
  /\ \A l \in {"frames", "paging"} :
        l \in Stations /\ l \in Trapping /\ l \notin Paged /\ l \notin Ticking /\ l \notin Walked
        /\ l \notin Slotted /\ l \notin Late
  /\ "apic" \in Stations /\ "apic" \in Trapping /\ "apic" \in Paged /\ "apic" \notin Ticking
  /\ "apic" \notin Walked /\ "apic" \notin Slotted /\ "apic" \notin Late
  /\ \A l \in {"acpi", "madt"} :
        l \in Stations /\ l \in Trapping /\ l \in Paged /\ l \in Ticking /\ l \notin Walked
        /\ l \notin Slotted /\ l \notin Late
  /\ "gs" \in Stations /\ "gs" \in Trapping /\ "gs" \in Paged /\ "gs" \in Ticking
  /\ "gs" \in Walked /\ "gs" \notin Slotted /\ "gs" \notin Late
  /\ \A l \in {"ioapic", "kbd"} :
        l \in Stations /\ l \in Trapping /\ l \in Paged /\ l \in Ticking /\ l \in Walked
        /\ l \in Slotted /\ l \notin Late
  /\ \A l \in Late :
        l \in Stations /\ l \in Trapping /\ l \in Paged /\ l \in Ticking /\ l \in Walked
        /\ l \in Slotted /\ l \notin {"heap", "idt", "lidt", "panic", "frames", "paging", "apic", "acpi",
                                      "madt", "gs", "ioapic", "kbd"}
BY DEF Stations, Trapping, Paged, Ticking, Walked, Slotted, Late

(* The steps up to the page tables.                                         *)
LEMMA FirstSteps ==
  ASSUME BootInv, InitHeap \/ FramesInit \/ PagingInit
  PROVE  BootInv'
<1> USE StageSets
<1>0. /\ machine \in Machines /\ bsp \in Cpus /\ DOMAIN cr3 = Cpus /\ BspDone /\ MadtInv /\ RedirInv
      /\ pc \in [Cpus -> Stations \cup ApStations]
  BY MachineFacts, Zenon DEF BootInv, BootTypes, CpusInv
<1>1. \E l : Early(l) /\ TablesAlone
  <2>1. CASE InitHeap
    <3>1. PICK l \in {"panic", "idt"} : pc' = [pc EXCEPT ![bsp] = l]
      BY <2>1, Zenon DEF InitHeap, Panic, Goto
    <3>2. /\ pc[bsp] = "heap" /\ pc'[bsp] = l
          /\ UNCHANGED <<machine, slotVars, smpVars, cr3, cursor, madt, redir>> /\ bsp' = bsp
      BY <1>0, <2>1, <3>1, Zenon DEF InitHeap, irqVars, bsp
    <3> QED BY <1>0, <3>1, <3>2, Zenon DEF Early, TablesAlone, Enters, BspDone
  <2>2. CASE FramesInit
    <3>1. PICK l \in {"panic", "paging"} : pc' = [pc EXCEPT ![bsp] = l]
      BY <2>2, Zenon DEF FramesInit, Panic, Goto
    <3>2. /\ pc[bsp] = "frames" /\ pc'[bsp] = l
          /\ UNCHANGED <<machine, slotVars, smpVars, cr3, idtr, cursor, madt, redir>> /\ bsp' = bsp
      BY <1>0, <2>2, <3>1, Zenon DEF FramesInit, irqVars, idtVars, pagingVars, bsp
    <3> QED BY <1>0, <3>1, <3>2, Zenon DEF Early, TablesAlone, Enters, BspDone
  <2>3. CASE PagingInit
    <3>1. /\ pc[bsp] = "paging" /\ bsp' = bsp
          /\ UNCHANGED <<machine, slotVars, smpVars, idtr, cursor, madt, redir>>
      BY <2>3, Zenon DEF PagingInit, irqVars, idtVars, bsp
    <3>2. \/ pc' = [pc EXCEPT ![bsp] = "panic"] /\ UNCHANGED cr3
          \/ /\ pc' = [pc EXCEPT ![bsp] = "apic"]
             /\ \E r : cr3' = [cr3 EXCEPT ![bsp] = r] /\ kernel_pml4' = r
      BY <2>3, Zenon DEF PagingInit, Panic, Goto
    <3>3. PICK l \in {"panic", "apic"} : pc' = [pc EXCEPT ![bsp] = l]
      BY <3>2, Zenon
    <3>4. pc'[bsp] = l /\ DOMAIN cr3' = Cpus /\ (l = "apic" => cr3'[bsp] = kernel_pml4')
      BY <1>0, <3>2, <3>3
    <3> QED BY <1>0, <3>1, <3>3, <3>4, Zenon DEF Early, TablesAlone, Enters, BspDone
  <2> QED BY <2>1, <2>2, <2>3, Zenon
<1> QED BY <1>0, <1>1, EarlyKeeps, TablesKept, Zenon DEF BootInv

(* map_mmio goes on or panics.                                              *)
LEMMA MapGoes ==
  ASSUME NEW region, NEW after, MapMmio(region, after)
  PROVE  pc' = [pc EXCEPT ![bsp] = after] \/ pc' = [pc EXCEPT ![bsp] = "panic"]
BY SMT DEF MapMmio, Panic, Goto

(* apic::init.                                                              *)
LEMMA ApicStep ==
  ASSUME BootInv, ApicInit
  PROVE  BootInv'
<1> USE StageSets
<1>0. /\ machine \in Machines /\ bsp \in Cpus /\ DOMAIN cr3 = Cpus /\ BspDone /\ MadtInv /\ RedirInv
      /\ pc \in [Cpus -> Stations \cup ApStations]
  BY MachineFacts, Zenon DEF BootInv, BootTypes, CpusInv
<1>1. \/ pc' = [pc EXCEPT ![bsp] = "panic"]
      \/ pc' = [pc EXCEPT ![bsp] = "acpi"] /\ lapic' = lapic \cup {bsp}
  BY MapGoes, Zenon DEF ApicInit, Panic, Goto
<1>2. PICK l \in {"panic", "acpi"} :
         pc' = [pc EXCEPT ![bsp] = l] /\ (l = "acpi" => lapic' = lapic \cup {bsp})
  BY <1>1, Zenon
<1>3. /\ pc[bsp] = "apic" /\ pc'[bsp] = l
      /\ UNCHANGED <<machine, slotVars, smpVars, cr3, kernel_pml4, idtr, cursor, madt, redir>> /\ bsp' = bsp
  BY <1>0, <1>2, Zenon DEF ApicInit, idtVars, bsp
<1>4. Early(l) /\ TablesAlone
  BY <1>0, <1>2, <1>3, Zenon DEF Early, TablesAlone, Enters, BspDone
<1> QED BY <1>0, <1>4, EarlyKeeps, TablesKept, Zenon DEF BootInv

(* acpi::init up to the MADT.                                               *)
LEMMA AcpiStep ==
  ASSUME BootInv, AcpiInit
  PROVE  BootInv'
<1> USE StageSets
<1>0. /\ machine \in Machines /\ bsp \in Cpus /\ DOMAIN cr3 = Cpus /\ BspDone /\ MadtInv /\ RedirInv
      /\ pc \in [Cpus -> Stations \cup ApStations]
  BY MachineFacts, Zenon DEF BootInv, BootTypes, CpusInv
<1>1. \/ pc' = [pc EXCEPT ![bsp] = "panic"]
      \/ pc' = [pc EXCEPT ![bsp] = "madt"] /\ cursor' = 44
  BY MapGoes, Zenon DEF AcpiInit, Panic, Goto
<1>2. PICK l \in {"panic", "madt"} :
         pc' = [pc EXCEPT ![bsp] = l] /\ (l = "madt" => cursor' = 44)
  BY <1>1, Zenon
<1>3. /\ pc[bsp] = "acpi" /\ pc'[bsp] = l /\ bsp' = bsp /\ Cpus' = Cpus
      /\ UNCHANGED <<machine, slotVars, smpVars, cr3, kernel_pml4, idtr, lapic, madt, redir>>
  BY <1>0, <1>2, Zenon DEF AcpiInit, idtVars, bsp, Cpus
<1>4. Early(l)
  <2>1. BspDone'
    BY <1>0, <1>3, Zenon DEF BspDone
  <2> QED BY <1>0, <1>2, <1>3, <2>1, Zenon DEF Early
<1>5. RedirInv'
  BY <1>0, <1>3, Zenon DEF RedirInv
<1>6. MadtInv'
  <2>1. madt.overrides = <<>> /\ madt' \in TableOf(machine')
    BY <1>0, <1>3, Zenon DEF MadtInv
  <2>2. CASE l = "madt"
    <3>1. cursor' = 44 /\ cursor' \in Nat /\ cursor' >= 44
      BY <1>2, <2>2
    <3>2. 44 \in DOMAIN machine.madt.at \/ 44 + 2 > machine.madt.length
      <4>1. machine.madt.length \in Nat /\ (46 <= machine.madt.length => 44 \in DOMAIN machine.madt.at)
        BY <1>0, MachinesAssumption
      <4> QED BY <4>1
    <3>3. Overs' = {}
      BY <1>3, <2>1 DEF Overs
    <3>4. Passed' = {}
      <4>1. \A o \in DOMAIN machine.madt.at : o \in Nat /\ 44 <= o
        BY <1>0, MachinesAssumption
      <4> QED BY <1>3, <3>1, <4>1 DEF Passed, KbdOverrides
    <3> QED BY <1>3, <2>1, <2>2, <3>1, <3>2, <3>3, <3>4, Zenon DEF MadtInv
  <2>3. CASE l = "panic"
    BY <1>3, <2>1, <2>3, Zenon DEF MadtInv
  <2> QED BY <2>2, <2>3, Zenon
<1> QED BY <1>4, <1>5, <1>6, EarlyKeeps, Zenon DEF BootInv

(* ioapic::init.                                                            *)
LEMMA IoapicStep ==
  ASSUME BootInv, IoapicInit
  PROVE  BootInv'
<1> USE StageSets
<1>0. /\ machine \in Machines /\ bsp \in Cpus /\ DOMAIN cr3 = Cpus /\ BspDone /\ MadtInv /\ RedirInv
      /\ pc \in [Cpus -> Stations \cup ApStations]
  BY MachineFacts, Zenon DEF BootInv, BootTypes, CpusInv
<1> DEFINE New(e) == IF e <= machine.redirs - 1 THEN [redir[e] EXCEPT !.masked = TRUE] ELSE redir[e]
           D == DOMAIN redir
<1>1. \/ pc' = [pc EXCEPT ![bsp] = "panic"] /\ UNCHANGED redir
      \/ pc' = [pc EXCEPT ![bsp] = "panic"] /\ redir' = [e \in D |-> New(e)]
      \/ pc' = [pc EXCEPT ![bsp] = "kbd"] /\ redir' = [e \in D |-> New(e)]
  BY MapGoes, SMT DEF IoapicInit, Panic, Goto
<1> HIDE DEF New, D
<1>2. PICK l \in {"panic", "kbd"} :
         /\ pc' = [pc EXCEPT ![bsp] = l]
         /\ redir' = redir \/ redir' = [e \in D |-> New(e)]
         /\ l = "kbd" => redir' = [e \in D |-> New(e)]
  BY <1>1, Zenon
<1>3. /\ pc[bsp] = "ioapic" /\ pc'[bsp] = l /\ bsp' = bsp /\ Cpus' = Cpus
      /\ UNCHANGED <<machine, slotVars, gs, smpVars, cr3, kernel_pml4, idtr, lapic, cursor, madt>>
  BY <1>0, <1>2, SMT DEF IoapicInit, idtVars, slotVars, bsp, Cpus
<1>4. Early(l)
  <2>1. BspDone'
    BY <1>0, <1>3, Zenon DEF BspDone
  <2> QED BY <1>0, <1>2, <1>3, <2>1, Zenon DEF Early
<1>5. RedirInv'
  <2> DEFINE R == [masked : BOOLEAN, vector : {0, KEYBOARD}, dest : Cpus \cup {NONE}]
  <2>1. redir \in [0 .. machine.redirs - 1 -> R] /\ D = 0 .. machine.redirs - 1
    BY <1>0, Zenon DEF RedirInv, D
  <2>2. \A e \in D : New(e) \in R /\ New(e).masked
    <3> SUFFICES ASSUME NEW e \in D PROVE New(e) \in R /\ New(e).masked
      BY Zenon
    <3>1. redir[e] \in R /\ e <= machine.redirs - 1
      <4>1. redir[e] \in R
        BY <2>1, Zenon
      <4>2. e <= machine.redirs - 1
        BY <2>1
      <4> QED BY <4>1, <4>2
    <3>2. New(e) = [redir[e] EXCEPT !.masked = TRUE]
      BY <3>1, SMT DEF New
    <3> QED BY <3>1, <3>2
  <2> HIDE DEF R
  <2>3. redir' \in [0 .. machine.redirs - 1 -> R]
    BY <1>2, <2>1, <2>2, Zenon
  <2>4. l = "kbd" => \A e \in DOMAIN redir' : redir'[e].masked
    BY <1>2, <2>2, Zenon
  <2> QED BY <1>3, <2>3, <2>4, Zenon DEF RedirInv, R
<1>6. MadtInv'
  <2>1. KbdGsi' = KbdGsi /\ (pc[bsp] \in Walked => KbdGsi = machine.keyboard) /\ madt \in TableOf(machine)
    BY <1>0, <1>3, Zenon DEF KbdGsi, MadtInv
  <2> QED BY <1>3, <2>1, Zenon DEF MadtInv
<1> QED BY <1>4, <1>5, <1>6, EarlyKeeps, Zenon DEF BootInv

(* kbd::init_irq.                                                           *)
LEMMA KbdStep ==
  ASSUME BootInv, KbdInitIrq
  PROVE  BootInv'
<1> USE StageSets
<1>0. /\ machine \in Machines /\ bsp \in Cpus /\ DOMAIN cr3 = Cpus /\ BspDone /\ MadtInv /\ RedirInv
      /\ pc \in [Cpus -> Stations \cup ApStations]
  BY MachineFacts, Zenon DEF BootInv, BootTypes, CpusInv
<1> DEFINE line == machine.keyboard - madt.ioapics[1].gsi_base
           entry == [masked |-> FALSE, vector |-> KEYBOARD, dest |-> bsp]
<1>l. "smp" \in Late
  BY DEF Late
<1>1. pc[bsp] = "kbd" /\ KbdGsi = machine.keyboard
  BY <1>0, Zenon DEF KbdInitIrq, MadtInv
<1>2. PICK l \in {"panic", "smp"} :
         /\ pc' = [pc EXCEPT ![bsp] = l]
         /\ redir' = redir \/ (line \in DOMAIN redir /\ redir' = [redir EXCEPT ![line] = entry])
         /\ l = "smp" => line \in DOMAIN redir /\ redir' = [redir EXCEPT ![line] = entry]
  BY <1>1, Zenon DEF KbdInitIrq, Panic, Goto
<1>3. /\ pc'[bsp] = l /\ bsp' = bsp /\ Cpus' = Cpus
      /\ UNCHANGED <<machine, slotVars, gs, smpVars, cr3, kernel_pml4, idtr, lapic, cursor, madt>>
  BY <1>0, <1>2, Zenon DEF KbdInitIrq, idtVars, pagingVars, slotVars, bsp, Cpus
<1>4. Early(l)
  <2>1. BspDone'
    BY <1>0, <1>1, <1>3, Zenon DEF BspDone
  <2> QED BY <1>0, <1>l, <1>1, <1>2, <1>3, <2>1, Zenon DEF Early
<1>5. RedirInv'
  <2> DEFINE R == [masked : BOOLEAN, vector : {0, KEYBOARD}, dest : Cpus \cup {NONE}]
  <2>1. redir \in [0 .. machine.redirs - 1 -> R] /\ \A e \in DOMAIN redir : redir[e].masked
    BY <1>0, <1>1, Zenon DEF RedirInv
  <2>2. entry \in R /\ ~entry.masked /\ entry.vector = KEYBOARD /\ entry.dest = bsp
    BY <1>0, Zenon
  <2>3. line' = line
    BY <1>3, Zenon
  <2> HIDE DEF R, entry, line
  <2>4. redir' \in [0 .. machine.redirs - 1 -> R] /\ DOMAIN redir' = DOMAIN redir
    BY <1>2, <2>1, <2>2, Zenon
  <2>5. l = "smp" => /\ line \in DOMAIN redir'
                     /\ \A e \in DOMAIN redir' : redir'[e].masked <=> e # line
                     /\ redir'[line].vector = KEYBOARD /\ redir'[line].dest = bsp
    BY <1>2, <2>1, <2>2, Zenon
  <2> QED BY <1>3, <2>3, <2>4, <2>5, Zenon DEF RedirInv, R, line
<1>6. MadtInv'
  <2>1. KbdGsi' = KbdGsi /\ madt \in TableOf(machine)
    BY <1>0, <1>3, Zenon DEF KbdGsi, MadtInv
  <2> QED BY <1>l, <1>1, <1>3, <2>1, Zenon DEF MadtInv
<1> QED BY <1>4, <1>5, <1>6, EarlyKeeps, Zenon DEF BootInv

-----------------------------------------------------------------------------
(* The least of a set of numbers.                                           *)
LEMMA MinIs ==
  ASSUME NEW S, S \subseteq Nat, S # {}
  PROVE  Min(S) \in S /\ \A y \in S : Min(S) <= y
<1>1. PICK x \in S : \A y \in S : <<y, x>> \notin OpToRel(<, Nat)
  BY NatLessThanWellFounded, WFMin, Zenon
<1>2. ASSUME NEW y \in S PROVE x <= y
  <2>1. x \in Nat /\ y \in Nat
    BY Zenon
  <2>2. ~(y < x)
    BY <1>1, <2>1 DEF OpToRel
  <2> QED BY <2>1, <2>2
<1> QED BY <1>2, Zenon DEF Min

LEMMA MinUnique ==
  ASSUME NEW S, S \subseteq Nat, NEW x \in S, \A y \in S : x <= y
  PROVE  Min(S) = x
<1>1. Min(S) \in S /\ Min(S) <= x /\ x <= Min(S)
  BY MinIs, Zenon
<1>2. Min(S) \in Nat /\ x \in Nat
  BY <1>1, Zenon
<1> QED BY <1>1, <1>2

(* A greater number leaves the least as it was.                             *)
LEMMA MinAdd ==
  ASSUME NEW S, S \subseteq Nat, NEW n \in Nat, \A x \in S : x < n
  PROVE  Min(S \cup {n}) = IF S = {} THEN n ELSE Min(S)
<1>1. S \cup {n} \subseteq Nat
  BY Zenon
<1>2. CASE S = {}
  <2>1. \A y \in S \cup {n} : n <= y
    BY <1>2
  <2> QED BY <1>1, <1>2, <2>1, MinUnique, Zenon
<1>3. CASE S # {}
  <2>1. Min(S) \in S /\ \A y \in S : Min(S) <= y
    BY <1>3, MinIs, Zenon
  <2>2. ASSUME NEW y \in S \cup {n} PROVE Min(S) <= y
    <3>1. CASE y \in S
      BY <2>1, <3>1, Zenon
    <3>2. CASE y = n
      <4>1. Min(S) < n /\ Min(S) \in Nat
        BY <2>1, Zenon
      <4> QED BY <3>2, <4>1
    <3> QED BY <3>1, <3>2, Zenon
  <2> QED BY <1>1, <1>3, <2>1, <2>2, MinUnique, Zenon
<1> QED BY <1>2, <1>3, Zenon

(* What the firmware's MADT is like at an entry.                            *)
LEMMA EntryFacts ==
  ASSUME machine \in Machines, NEW o \in DOMAIN machine.madt.at
  PROVE  /\ o \in Nat /\ machine.madt.at[o].len \in Nat /\ machine.madt.length \in Nat
         /\ 44 <= o /\ o + 2 <= machine.madt.length
         /\ machine.madt.at[o].len >= 2 /\ o + machine.madt.at[o].len + 2 <= machine.madt.length
               => o + machine.madt.at[o].len \in DOMAIN machine.madt.at
         /\ \A p \in DOMAIN machine.madt.at : o < p => o + machine.madt.at[o].len <= p
BY MachinesAssumption, Zenon

(* What is kept of an entry is a table of such entries, and its overrides   *)
(* are as they were but for the entry's own.                                *)
LEMMA FoundIs ==
  ASSUME machine \in Machines, madt \in TableOf(machine), NEW o \in DOMAIN machine.madt.at
  PROVE  LET e == machine.madt.at[o]
             m == Found(madt, e)
             over == [source |-> e.source, gsi |-> e.gsi]
         IN  /\ m \in TableOf(machine)
             /\ e.type = 2 /\ e.len >= 10 => m.overrides = Append(madt.overrides, over)
             /\ ~(e.type = 2 /\ e.len >= 10) => m.overrides = madt.overrides
<1> DEFINE e == machine.madt.at[o]
           m == Found(madt, e)
           over == [source |-> e.source, gsi |-> e.gsi]
           A == {x.apic_id : x \in Entries(machine, 0)}
           I == {[base |-> x.base, gsi_base |-> x.gsi_base] : x \in Entries(machine, 1)}
           O == {[source |-> x.source, gsi |-> x.gsi] : x \in Entries(machine, 2)}
<1>1. /\ e.type = 0 => e.apic_id \in A
      /\ e.type = 1 => [base |-> e.base, gsi_base |-> e.gsi_base] \in I
      /\ e.type = 2 => over \in O
  BY Zenon DEF Entries
<1>2. TableOf(machine) = [cpus : SUBSET A, ioapics : Seq(I), overrides : Seq(O)]
  BY Zenon DEF TableOf
<1> HIDE DEF A, I, O
<1>3. madt \in [cpus : SUBSET A, ioapics : Seq(I), overrides : Seq(O)]
  BY <1>2, Zenon
<1> DEFINE c == e.apic_id
           i == [base |-> e.base, gsi_base |-> e.gsi_base]
<1>4. CASE e.type = 0 /\ e.len >= 8
  <2>1. m = [madt EXCEPT !.cpus = @ \cup {c}] /\ e.type # 2
    BY <1>4 DEF Found
  <2>2. c \in A
    BY <1>1, <1>4, Zenon
  <2> HIDE DEF m, c, e
  <2>3. m \in [cpus : SUBSET A, ioapics : Seq(I), overrides : Seq(O)] /\ m.overrides = madt.overrides
    BY <1>3, <2>1, <2>2
  <2> QED BY <1>2, <2>1, <2>3, Zenon DEF m, e
<1>5. CASE ~(e.type = 0 /\ e.len >= 8) /\ e.type = 1 /\ e.len >= 12
  <2>1. m = [madt EXCEPT !.ioapics = Append(@, i)] /\ e.type # 2
    BY <1>5 DEF Found
  <2>2. i \in I
    BY <1>1, <1>5, Zenon
  <2> HIDE DEF m, i, e
  <2>3. m \in [cpus : SUBSET A, ioapics : Seq(I), overrides : Seq(O)] /\ m.overrides = madt.overrides
    <3> DEFINE v == Append(madt.ioapics, i)
    <3>1. v \in Seq(I)
      BY <1>3, <2>2
    <3>2. m = [madt EXCEPT !.ioapics = v]
      BY <2>1, Zenon
    <3> HIDE DEF v
    <3> QED BY <1>3, <3>1, <3>2
  <2> QED BY <1>2, <2>1, <2>3, Zenon DEF m, e
<1>6. CASE ~(e.type = 0 /\ e.len >= 8) /\ ~(e.type = 1 /\ e.len >= 12) /\ e.type = 2 /\ e.len >= 10
  <2>1. m = [madt EXCEPT !.overrides = Append(@, over)]
    BY <1>6, Zenon DEF Found
  <2>2. over \in O
    BY <1>1, <1>6, Zenon
  <2> HIDE DEF m, over, e
  <2>3. /\ m \in [cpus : SUBSET A, ioapics : Seq(I), overrides : Seq(O)]
        /\ m.overrides = Append(madt.overrides, over)
    <3> DEFINE v == Append(madt.overrides, over)
    <3>1. v \in Seq(O)
      BY <1>3, <2>2
    <3>2. m = [madt EXCEPT !.overrides = v]
      BY <2>1, Zenon
    <3> HIDE DEF v
    <3>3. m \in [cpus : SUBSET A, ioapics : Seq(I), overrides : Seq(O)] /\ m.overrides = v
      BY <1>3, <3>1, <3>2
    <3> QED BY <3>3, Zenon DEF v
  <2> QED BY <1>2, <1>6, <2>3, Zenon DEF m, e, over
<1>7. CASE ~(e.type = 0 /\ e.len >= 8) /\ ~(e.type = 1 /\ e.len >= 12) /\ ~(e.type = 2 /\ e.len >= 10)
  <2>1. m = madt
    BY <1>7, Zenon DEF Found
  <2> QED BY <1>7, <2>1, Zenon
<1>8. (e.type = 2 => e.type # 0 /\ e.type # 1)
  OBVIOUS
<1> QED BY <1>4, <1>5, <1>6, <1>7, <1>8, Zenon

(* An entry of the walk.                                                    *)
LEMMA WalkOn ==
  ASSUME machine \in Machines, MadtInv, pc[bsp] = "madt", UNCHANGED <<machine, pc>>,
         cursor + 2 <= machine.madt.length, machine.madt.at[cursor].len >= 2,
         madt' = Found(madt, machine.madt.at[cursor]),
         cursor' = cursor + machine.madt.at[cursor].len
  PROVE  MadtInv'
<1> DEFINE e == machine.madt.at[cursor]
           ov == madt.overrides
           T == machine.madt
           E == Entries(machine, 2)
           O == {[source |-> x.source, gsi |-> x.gsi] : x \in E}
<1>0. bsp' = bsp /\ pc'[bsp] = "madt" /\ "madt" \notin Walked
  BY StageSets, Zenon DEF bsp
<1>1. /\ madt \in TableOf(machine) /\ cursor \in Nat
      /\ cursor \in DOMAIN T.at \/ cursor + 2 > T.length
      /\ Overs = {} <=> Passed = {}
      /\ Passed # {} => KbdGsi = T.at[Min(Passed)].gsi
  BY Zenon DEF MadtInv
<1>2. cursor \in DOMAIN T.at
  <2>1. CASE cursor \in DOMAIN T.at
    BY <2>1
  <2>2. CASE cursor + 2 > T.length
    <3>1. T.length \in Nat
      BY MachinesAssumption, Zenon
    <3> QED BY <1>1, <2>2, <3>1
  <2> QED BY <1>1, <2>1, <2>2, Zenon
<1>3. /\ e.len \in Nat /\ T.length \in Nat /\ 44 <= cursor
      /\ cursor + e.len + 2 <= T.length => cursor + e.len \in DOMAIN T.at
      /\ \A p \in DOMAIN T.at : p \in Nat
      /\ \A p \in DOMAIN T.at : cursor < p => cursor + e.len <= p
  BY <1>2, EntryFacts, Zenon
<1>4. /\ madt' \in TableOf(machine')
      /\ e.type = 2 /\ e.len >= 10 =>
            madt'.overrides = Append(ov, [source |-> e.source, gsi |-> e.gsi])
      /\ ~(e.type = 2 /\ e.len >= 10) => madt'.overrides = ov
  BY <1>1, <1>2, FoundIs, Zenon
<1>5. /\ cursor' \in Nat /\ cursor' >= 44
      /\ cursor' \in DOMAIN T.at \/ cursor' + 2 > T.length
  <2>1. cursor' = cursor + e.len
    BY Zenon
  <2> HIDE DEF e
  <2> QED BY <1>1, <1>3, <2>1
<1>6. \A p \in DOMAIN T.at : p < cursor' <=> (p < cursor \/ p = cursor)
  <2> SUFFICES ASSUME NEW p \in DOMAIN T.at PROVE p < cursor' <=> (p < cursor \/ p = cursor)
    BY Zenon
  <2>1. p \in Nat /\ (cursor < p => cursor + e.len <= p) /\ cursor' = cursor + e.len /\ e.len >= 2
    BY <1>3, Zenon
  <2> HIDE DEF e
  <2> QED BY <1>1, <1>3, <2>1
<1>7. KbdOverrides(T) \subseteq DOMAIN T.at /\ KbdOverrides(T)' = KbdOverrides(T)
  BY Zenon DEF KbdOverrides
<1>8. Passed' = IF cursor \in KbdOverrides(T) THEN Passed \cup {cursor} ELSE Passed
  <2>1. \A p \in KbdOverrides(T) : p < cursor' <=> (p < cursor \/ p = cursor)
    BY <1>6, <1>7, Zenon
  <2>2. Passed = {p \in KbdOverrides(T) : p < cursor} /\ Passed' = {p \in KbdOverrides(T) : p < cursor'}
    BY <1>7, Zenon DEF Passed
  <2> HIDE DEF T
  <2> QED BY <2>1, <2>2, Zenon
<1>9. ov \in Seq(O)
  BY <1>1 DEF TableOf
<1>10. Passed \subseteq Nat /\ \A p \in Passed : p < cursor
  BY <1>3, <1>7, Zenon DEF Passed
<1>11. CASE cursor \in KbdOverrides(T)
  <2> DEFINE new == [source |-> e.source, gsi |-> e.gsi]
             n == Len(ov) + 1
  <2>1. e.type = 2 /\ e.len >= 10 /\ e.source = 1
    BY <1>11, Zenon DEF KbdOverrides
  <2>2. madt'.overrides = Append(ov, new) /\ new.source = 1 /\ new.gsi = e.gsi
    BY <1>4, <2>1, Zenon
  <2>3. Passed' = Passed \cup {cursor}
    BY <1>8, <1>11, Zenon
  <2> DEFINE ov2 == madt'.overrides
  <2>4. /\ DOMAIN ov = 1 .. Len(ov) /\ Len(ov) \in Nat /\ DOMAIN ov2 = 1 .. n
        /\ ov2[n] = new /\ \A i \in 1 .. Len(ov) : ov2[i] = ov[i]
    <3> HIDE DEF new, O, ov
    <3> QED BY <1>9, <2>2
  <2>5. Overs = {i \in 1 .. Len(ov) : ov[i].source = 1} /\ Overs' = {i \in 1 .. n : ov2[i].source = 1}
    BY <2>4, Zenon DEF Overs
  <2>6. Overs' = Overs \cup {n} /\ Overs \subseteq Nat /\ n \in Nat /\ \A i \in Overs : i < n
    <3> HIDE DEF new, ov, ov2
    <3> QED BY <2>2, <2>4, <2>5
  <2>7. Min(Overs') = (IF Overs = {} THEN n ELSE Min(Overs))
    <3> HIDE DEF n
    <3> QED BY <2>6, MinAdd, Zenon
  <2>8. Min(Passed') = IF Passed = {} THEN cursor ELSE Min(Passed)
    BY <1>1, <1>10, <2>3, MinAdd, Zenon
  <2>9. KbdGsi' = ov2[Min(Overs')].gsi
    <3>1. Overs' # {}
      BY <2>6, Zenon
    <3> QED BY <3>1, Zenon DEF KbdGsi, Overs
  <2>10. KbdGsi' = T.at[Min(Passed')].gsi
    <3>1. CASE Passed = {}
      BY <1>1, <2>2, <2>4, <2>7, <2>8, <2>9, <3>1, Zenon
    <3>2. CASE Passed # {}
      <4>1. Min(Overs) \in Overs
        BY <1>1, <2>6, <3>2, MinIs, Zenon
      <4>2. ov2[Min(Overs)] = ov[Min(Overs)]
        BY <2>4, <2>5, <4>1, Zenon
      <4>3. KbdGsi = ov[Min(Overs)].gsi
        BY <4>1, Zenon DEF KbdGsi, Overs
      <4> QED BY <1>1, <2>7, <2>8, <2>9, <3>2, <4>2, <4>3, Zenon
    <3> QED BY <3>1, <3>2, Zenon
  <2> QED BY <1>0, <1>4, <1>5, <2>3, <2>6, <2>10, Zenon DEF MadtInv
<1>12. CASE cursor \notin KbdOverrides(T)
  <2>1. Passed' = Passed
    BY <1>8, <1>12, Zenon
  <2>2. Overs' = Overs /\ KbdGsi' = KbdGsi
    <3>1. CASE ~(e.type = 2 /\ e.len >= 10)
      BY <1>4, <3>1, Zenon DEF Overs, KbdGsi
    <3>2. CASE e.type = 2 /\ e.len >= 10
      <4> DEFINE new == [source |-> e.source, gsi |-> e.gsi]
                 n == Len(ov) + 1
                 ov2 == madt'.overrides
      <4>1. ov2 = Append(ov, new) /\ new.source # 1
        BY <1>2, <1>4, <1>12, <3>2, Zenon DEF KbdOverrides
      <4>2. /\ DOMAIN ov = 1 .. Len(ov) /\ Len(ov) \in Nat /\ DOMAIN ov2 = 1 .. n
            /\ ov2[n] = new /\ \A i \in 1 .. Len(ov) : ov2[i] = ov[i]
        <5> HIDE DEF new, O, ov
        <5> QED BY <1>9, <4>1
      <4>3. Overs = {i \in 1 .. Len(ov) : ov[i].source = 1} /\ Overs' = {i \in 1 .. n : ov2[i].source = 1}
        BY <4>2, Zenon DEF Overs
      <4>4. Overs' = Overs /\ Overs \subseteq Nat
        <5> HIDE DEF new, ov, ov2
        <5> QED BY <4>1, <4>2, <4>3
      <4>5. CASE Overs = {}
        BY <4>4, <4>5, Zenon DEF KbdGsi, Overs
      <4>6. CASE Overs # {}
        <5>1. Min(Overs) \in Overs
          BY <4>4, <4>6, MinIs, Zenon
        <5>2. ov2[Min(Overs)] = ov[Min(Overs)]
          BY <4>2, <4>3, <5>1, Zenon
        <5>3. KbdGsi = ov[Min(Overs)].gsi /\ KbdGsi' = ov2[Min(Overs')].gsi
          BY <4>4, <4>6, Zenon DEF KbdGsi, Overs
        <5> QED BY <4>4, <5>2, <5>3, Zenon
      <4> QED BY <4>4, <4>5, <4>6, Zenon
    <3> QED BY <3>1, <3>2, Zenon
  <2> QED BY <1>0, <1>1, <1>4, <1>5, <2>1, <2>2, Zenon DEF MadtInv
<1> QED BY <1>11, <1>12, Zenon

(* At the end of the walk the first override of line 1 is known.            *)
LEMMA WalkEnds ==
  ASSUME machine \in Machines, MadtInv, pc[bsp] = "madt", ~(cursor + 2 <= machine.madt.length)
  PROVE  KbdGsi = machine.keyboard
<1> DEFINE over == KbdOverrides(machine.madt)
<1>1. /\ cursor \in Nat /\ (Overs = {} <=> Passed = {})
      /\ Passed # {} => KbdGsi = machine.madt.at[Min(Passed)].gsi
  BY Zenon DEF MadtInv
<1>2. \A o \in DOMAIN machine.madt.at : o < cursor
  <2> SUFFICES ASSUME NEW o \in DOMAIN machine.madt.at PROVE o < cursor
    BY Zenon
  <2>1. o \in Nat /\ o + 2 <= machine.madt.length /\ machine.madt.length \in Nat
    BY EntryFacts, Zenon
  <2> QED BY <1>1, <2>1
<1>3. Passed = over
  BY <1>2, Zenon DEF Passed, KbdOverrides
<1>4. machine.keyboard = IF over = {} THEN 1 ELSE machine.madt.at[Min(over)].gsi
  BY MachinesAssumption, Zenon
<1> HIDE DEF over
<1>5. Overs = {} => KbdGsi = 1
  BY Zenon DEF KbdGsi, Overs
<1> QED BY <1>1, <1>3, <1>4, <1>5, Zenon

(* acpi::init: a step of the walk.                                          *)
LEMMA MadtStep ==
  ASSUME BootInv, MadtWalk
  PROVE  BootInv'
<1> USE StageSets
<1>0. /\ machine \in Machines /\ bsp \in Cpus /\ DOMAIN cr3 = Cpus /\ BspDone /\ MadtInv /\ RedirInv
      /\ pc \in [Cpus -> Stations \cup ApStations]
  BY MachineFacts, Zenon DEF BootInv, BootTypes, CpusInv
<1>1. /\ pc[bsp] = "madt" /\ bsp' = bsp /\ Cpus' = Cpus
      /\ UNCHANGED <<machine, slotVars, gs, smpVars, cr3, kernel_pml4, idtr, lapic, redir>>
  BY Zenon DEF MadtWalk, idtVars, pagingVars, slotVars, bsp, Cpus
<1>2. ASSUME NEW l \in {"panic", "madt", "gs"}, pc' = [pc EXCEPT ![bsp] = l], MadtInv'
      PROVE  BootInv'
  <2>1. pc'[bsp] = l
    BY <1>0, <1>2, Zenon
  <2>2. BspDone'
    BY <1>0, <1>1, <2>1, Zenon DEF BspDone
  <2>3. Early(l)
    BY <1>0, <1>1, <1>2, <2>2, Zenon DEF Early
  <2>4. RedirInv'
    BY <1>0, <1>1, <2>1, Zenon DEF RedirInv
  <2> QED BY <1>2, <2>3, <2>4, EarlyKeeps, Zenon DEF BootInv
<1>3. CASE cursor + 2 <= machine.madt.length
  <2> DEFINE e == machine.madt.at[cursor]
  <2>1. CASE e.len >= 2 /\ cursor + e.len <= machine.madt.length
    <3>1. madt' = Found(madt, e) /\ cursor' = cursor + e.len /\ UNCHANGED pc
      BY <1>3, <2>1, Zenon DEF MadtWalk
    <3>2. MadtInv'
      BY <1>0, <1>1, <1>3, <2>1, <3>1, WalkOn, Zenon
    <3>3. pc' = [pc EXCEPT ![bsp] = "madt"]
      BY <1>0, <1>1, <3>1, Zenon
    <3> QED BY <1>2, <3>2, <3>3, Zenon
  <2>2. CASE ~(e.len >= 2 /\ cursor + e.len <= machine.madt.length)
    <3>1. pc' = [pc EXCEPT ![bsp] = "panic"] /\ UNCHANGED <<madt, cursor>>
      BY <1>3, <2>2, Zenon DEF MadtWalk, Panic, Goto
    <3>2. pc'[bsp] = "panic"
      BY <1>0, <3>1, Zenon
    <3>3. MadtInv'
      BY <1>0, <1>1, <3>1, <3>2, Zenon DEF MadtInv
    <3> QED BY <1>2, <3>1, <3>3, Zenon
  <2> QED BY <2>1, <2>2, Zenon
<1>4. CASE ~(cursor + 2 <= machine.madt.length)
  <2>1. PICK l \in {"panic", "gs"} : pc' = [pc EXCEPT ![bsp] = l]
    BY <1>4, Zenon DEF MadtWalk, Panic, Goto
  <2>2. UNCHANGED <<madt, cursor>> /\ pc'[bsp] = l
    BY <1>0, <1>4, <2>1, Zenon DEF MadtWalk
  <2>3. KbdGsi = machine.keyboard /\ KbdGsi' = KbdGsi
    BY <1>0, <1>1, <1>4, <2>2, WalkEnds, Zenon DEF KbdGsi
  <2>4. MadtInv'
    BY <1>0, <1>1, <2>2, <2>3, Zenon DEF MadtInv
  <2> QED BY <1>2, <2>1, <2>4, Zenon
<1> QED BY <1>3, <1>4, Zenon

-----------------------------------------------------------------------------
(* A step of an AP on its way: what smp::init and the tables say stands.    *)
ApMoves(c, l) ==
    /\ c \in Cpus \ {bsp} /\ pc[c] # "hlt"
    /\ l \in ApStations /\ l # "hlt"
    /\ pc' = [pc EXCEPT ![c] = l]
    /\ UNCHANGED <<machine, smpVars, cursor, madt, redir, kernel_pml4>>
    /\ DOMAIN gs' = DOMAIN gs /\ DOMAIN slots' = DOMAIN slots /\ DOMAIN cr3' = DOMAIN cr3

LEMMA ApKeeps ==
  ASSUME BootInv, NEW c, NEW l, ApMoves(c, l), CpusInv'
  PROVE  BootInv'
<1>1. /\ UNCHANGED <<machine, at, next_slot, launched, extra, goto, online>>
      /\ bsp' = bsp /\ Cpus' = Cpus
  BY Zenon DEF ApMoves, smpVars, bsp, Cpus
<1>2. machine \in Machines /\ bsp \in Cpus /\ pc \in [Cpus -> Stations \cup ApStations]
  BY MachineFacts, Zenon DEF BootInv, BootTypes
<1>3. /\ pc' \in [Cpus -> Stations \cup ApStations] /\ pc'[bsp] = pc[bsp] /\ pc'[c] = l
      /\ \A d \in Cpus \ {c} : pc'[d] = pc[d]
  BY <1>2, Zenon DEF ApMoves
<1>4. BootTypes'
  BY <1>1, <1>2, <1>3, Zenon DEF BootInv, BootTypes, ApMoves
<1>5. Started'
  BY <1>1, <1>3, Zenon DEF BootInv, Started
<1>6. CountInv'
  <2>1. Halted' = Halted
    <3>1. goto \subseteq Cpus
      BY Zenon DEF BootInv, BootTypes
    <3> QED BY <1>1, <1>3, <3>1, Zenon DEF Halted, ApMoves
  <2> QED BY <1>1, <1>3, <2>1, Zenon DEF BootInv, CountInv
<1>7. MadtInv' /\ RedirInv'
  <2>1. TablesAlone
    BY <1>3, Zenon DEF TablesAlone, Enters, ApMoves
  <2> QED BY <2>1, TablesKept, Zenon DEF BootInv
<1> QED BY <1>4, <1>5, <1>6, <1>7, Zenon DEF BootInv

(* What the BSP and the other APs have done stands too.                     *)
LEMMA OthersDone ==
  ASSUME BootInv, NEW c, NEW l, ApMoves(c, l), idtr \subseteq idtr', lapic \subseteq lapic',
         \A d \in Cpus \ {c} : cr3'[d] = cr3[d] /\ gs'[d] = gs[d]
  PROVE  BspDone' /\ \A d \in Cpus \ {bsp, c} : ApDone(d)'
<1>1. /\ UNCHANGED <<machine, goto, kernel_pml4>>
      /\ bsp' = bsp /\ Cpus' = Cpus
  BY Zenon DEF ApMoves, smpVars, bsp, Cpus
<1>2. machine \in Machines /\ bsp \in Cpus /\ pc \in [Cpus -> Stations \cup ApStations]
  BY MachineFacts, Zenon DEF BootInv, BootTypes
<1>3. bsp # c /\ \A d \in Cpus \ {c} : pc'[d] = pc[d]
  BY <1>2, Zenon DEF ApMoves
<1>4. BspDone /\ \A d \in Cpus \ {bsp} : ApDone(d)
  BY Zenon DEF BootInv, CpusInv
<1>5. BspDone'
  BY <1>1, <1>2, <1>3, <1>4, Zenon DEF BspDone
<1>6. \A d \in Cpus \ {bsp, c} : ApDone(d)'
  BY <1>1, <1>3, <1>4, Zenon DEF ApDone
<1> QED BY <1>5, <1>6, Zenon

(* The processors' common facts at a step of an AP.                         *)
LEMMA ApFacts ==
  ASSUME BootInv, NEW c \in Cpus \ {bsp}
  PROVE  /\ machine \in Machines /\ bsp \in Cpus /\ pc \in [Cpus -> Stations \cup ApStations]
         /\ DOMAIN cr3 = Cpus /\ DOMAIN gs = Cpus /\ DOMAIN slots = 0 .. MAX_CPUS - 1
         /\ ApDone(c) /\ \A d \in Cpus : Owns(d)
         /\ pc[c] # "limine" => c \in goto
BY MachineFacts, Zenon DEF BootInv, BootTypes, CpusInv, ApDone

(* idt::init on an AP.                                                      *)
LEMMA ApIdt ==
  ASSUME BootInv, NEW c \in Cpus \ {bsp}, IdtLock(c) \/ IdtLoad(c)
  PROVE  BootInv'
<1>0. /\ machine \in Machines /\ bsp \in Cpus /\ pc \in [Cpus -> Stations \cup ApStations]
      /\ DOMAIN cr3 = Cpus /\ DOMAIN gs = Cpus /\ DOMAIN slots = 0 .. MAX_CPUS - 1
      /\ ApDone(c) /\ \A d \in Cpus : Owns(d)
  BY ApFacts, Zenon
<1>1. /\ bsp' = bsp /\ Cpus' = Cpus
      /\ UNCHANGED <<machine, gs, slots, extra, goto, smpVars, cr3, kernel_pml4, lapic, cursor, madt, redir>>
  BY Zenon DEF IdtLock, IdtLoad, pagingVars, irqVars, slotVars, smpVars, bsp, Cpus
<1>2. PICK l \in {"lidt", "lapic"} : pc' = [pc EXCEPT ![c] = l]
  BY Zenon DEF IdtLock, IdtLoad, Goto
<1>3. /\ pc[c] \in {"idt", "lidt"} /\ idtr \subseteq idtr' /\ (pc'[c] = "lapic" => c \in idtr')
      /\ pc'[c] = l
  BY <1>0, <1>2, Zenon DEF IdtLock, IdtLoad, Goto
<1>4. ApMoves(c, l)
  BY <1>0, <1>1, <1>2, <1>3, Zenon DEF ApMoves, ApStations
<1>5. ApDone(c)'
  BY <1>0, <1>1, <1>3, Zenon DEF ApDone
<1>6. \A d \in Cpus : Owns(d)'
  BY <1>0, <1>1, Zenon DEF Owns, SlotOf
<1>7. CpusInv'
  BY <1>1, <1>3, <1>4, <1>5, <1>6, OthersDone, Zenon DEF CpusInv
<1> QED BY <1>4, <1>7, ApKeeps, Zenon

(* A started AP has a slot of its own, which is not the BSP's.              *)
LEMMA OwnSlot ==
  ASSUME BootInv, NEW c \in goto
  PROVE  /\ extra[c] \in 1 .. MAX_CPUS - 1 /\ extra[c] # 0 /\ extra[c] # NONE
         /\ \A d \in goto : d # c => extra[d] # extra[c]
<1>1. /\ next_slot \in 1 .. MAX_CPUS /\ extra[c] \in 1 .. next_slot - 1
      /\ \A d \in goto : extra[c] = extra[d] => c = d
  BY Zenon DEF BootInv, Started
<1>2. MAX_CPUS \in Nat /\ NONE \notin 0 .. MAX_CPUS - 1
  BY MachineFacts, Zenon DEF BootInv, BootTypes
<1>3. extra[c] \in 1 .. MAX_CPUS - 1 /\ extra[c] # 0 /\ extra[c] \in 0 .. MAX_CPUS - 1
  BY <1>1, <1>2
<1> QED BY <1>1, <1>2, <1>3, Zenon

(* init_ap.                                                                 *)
LEMMA ApSlot ==
  ASSUME BootInv, NEW c \in Cpus \ {bsp}, InitSlot(c)
  PROVE  BootInv'
<1>0. /\ machine \in Machines /\ bsp \in Cpus /\ pc \in [Cpus -> Stations \cup ApStations]
      /\ DOMAIN cr3 = Cpus /\ DOMAIN gs = Cpus /\ DOMAIN slots = 0 .. MAX_CPUS - 1
      /\ ApDone(c) /\ \A d \in Cpus : Owns(d)
  BY ApFacts, Zenon
<1>1. /\ bsp' = bsp /\ Cpus' = Cpus /\ pc[c] = "gs" /\ c \in goto
      /\ UNCHANGED <<machine, extra, goto, smpVars, cr3, kernel_pml4, idtr, lapic, cursor, madt, redir>>
  BY <1>0, Zenon DEF InitSlot, idtVars, pagingVars, irqVars, smpVars, bsp, Cpus, ApDone
<1> DEFINE s == extra[c]
<1>2. /\ s \in 1 .. MAX_CPUS - 1 /\ s # 0 /\ s # NONE
      /\ \A d \in goto : d # c => extra[d] # s
  BY <1>1, OwnSlot, Zenon
<1>3. s < MAX_CPUS /\ s \in 0 .. MAX_CPUS - 1
  <2>1. MAX_CPUS \in Nat
    BY <1>0, MachineFacts, Zenon
  <2> QED BY <1>2, <2>1
<1>4. /\ gs' = [gs EXCEPT ![c] = s] /\ slots' = [slots EXCEPT ![s] = c]
      /\ pc' = [pc EXCEPT ![c] = "idt"]
  BY <1>3, Zenon DEF InitSlot, Goto
<1> HIDE DEF s
<1>5. ApMoves(c, "idt")
  BY <1>0, <1>1, <1>4, Zenon DEF ApMoves, ApStations
<1>6. gs'[c] = s /\ slots'[s] = c /\ \A d \in Cpus \ {c} : gs'[d] = gs[d]
  BY <1>0, <1>3, <1>4, Zenon
<1>7. pc'[c] = "idt"
  BY <1>0, <1>4, Zenon
<1>8. ApDone(c)'
  BY <1>0, <1>1, <1>2, <1>6, <1>7, Zenon DEF ApDone
<1>9. ASSUME NEW d \in Cpus PROVE Owns(d)'
  <2>1. SlotOf(d)' = SlotOf(d)
    BY <1>1, Zenon DEF SlotOf
  <2>2. CASE d = c
    BY <1>1, <1>3, <1>6, <2>1, <2>2, Zenon DEF Owns, SlotOf, s
  <2>3. CASE d # c /\ gs[d] # NONE
    <3>1. SlotOf(d) # s
      BY <1>0, <1>2, <2>3, Zenon DEF Owns, SlotOf
    <3>2. slots'[SlotOf(d)] = slots[SlotOf(d)]
      BY <1>0, <1>4, <2>3, <3>1, Zenon DEF Owns
    <3> QED BY <1>0, <1>1, <1>6, <2>1, <2>3, <3>2, Zenon DEF Owns
  <2>4. CASE d # c /\ gs[d] = NONE
    BY <1>6, <2>4, Zenon DEF Owns
  <2> QED BY <2>2, <2>3, <2>4, Zenon
<1>10. CpusInv'
  <2>1. BspDone' /\ \A d \in Cpus \ {bsp, c} : ApDone(d)'
    BY <1>1, <1>5, <1>6, OthersDone, Zenon
  <2> QED BY <1>1, <1>8, <1>9, <2>1, Zenon DEF CpusInv
<1> QED BY <1>5, <1>10, ApKeeps, Zenon

(* ap_entry up to its page tables.                                          *)
LEMMA ApEnters ==
  ASSUME BootInv, NEW c \in Cpus \ {bsp}, ApEntry(c)
  PROVE  BootInv'
<1>0. /\ machine \in Machines /\ bsp \in Cpus /\ pc \in [Cpus -> Stations \cup ApStations]
      /\ DOMAIN cr3 = Cpus /\ DOMAIN gs = Cpus /\ DOMAIN slots = 0 .. MAX_CPUS - 1
      /\ ApDone(c) /\ \A d \in Cpus : Owns(d)
  BY ApFacts, Zenon
<1>1. /\ bsp' = bsp /\ Cpus' = Cpus /\ pc[c] = "limine" /\ c \in goto
      /\ UNCHANGED <<machine, gs, slots, extra, goto, smpVars, kernel_pml4, idtr, lapic, cursor, madt, redir>>
  BY <1>0, Zenon DEF ApEntry, idtVars, irqVars, slotVars, smpVars, bsp, Cpus
<1>2. cr3' = [cr3 EXCEPT ![c] = kernel_pml4] /\ pc' = [pc EXCEPT ![c] = "gs"]
  BY Zenon DEF ApEntry, Goto
<1>3. ApMoves(c, "gs")
  BY <1>0, <1>1, <1>2, Zenon DEF ApMoves, ApStations
<1>4. pc'[c] = "gs" /\ cr3'[c] = kernel_pml4 /\ \A d \in Cpus \ {c} : cr3'[d] = cr3[d]
  BY <1>0, <1>2, Zenon
<1>5. ApDone(c)'
  BY <1>0, <1>1, <1>4, Zenon DEF ApDone
<1>6. \A d \in Cpus : Owns(d)'
  BY <1>0, <1>1, Zenon DEF Owns, SlotOf
<1>7. CpusInv'
  BY <1>0, <1>1, <1>3, <1>4, <1>5, <1>6, OthersDone, Zenon DEF CpusInv
<1> QED BY <1>3, <1>7, ApKeeps, Zenon

(* apic::ap_init writes into the slot the id that is there already.         *)
LEMMA ApLapicOn ==
  ASSUME BootInv, NEW c \in Cpus \ {bsp}, ApLapic(c)
  PROVE  BootInv'
<1>0. /\ machine \in Machines /\ bsp \in Cpus /\ pc \in [Cpus -> Stations \cup ApStations]
      /\ DOMAIN cr3 = Cpus /\ DOMAIN gs = Cpus /\ DOMAIN slots = 0 .. MAX_CPUS - 1
      /\ ApDone(c) /\ \A d \in Cpus : Owns(d)
  BY ApFacts, Zenon
<1>1. /\ bsp' = bsp /\ Cpus' = Cpus /\ pc[c] = "lapic"
      /\ UNCHANGED <<machine, gs, extra, goto, smpVars, cr3, kernel_pml4, idtr, cursor, madt, redir>>
  BY Zenon DEF ApLapic, idtVars, pagingVars, smpVars, bsp, Cpus
<1>2. PICK l \in {"online", "fault"} : pc' = [pc EXCEPT ![c] = l]
  BY Zenon DEF ApLapic, Goto
<1>3. pc'[c] = l
  BY <1>0, <1>2, Zenon
<1>4. lapic \subseteq lapic' /\ (l = "online" => c \in lapic')
  BY <1>0, <1>3, Zenon DEF ApLapic, Goto
<1>5. DOMAIN slots' = DOMAIN slots /\ \A x \in DOMAIN slots : slots'[x] = slots[x]
  <2>1. slots' = slots \/ slots' = [slots EXCEPT ![gs[c]] = c]
    BY Zenon DEF ApLapic
  <2>2. slots[gs[c]] = c
    BY <1>0, <1>1, Zenon DEF ApDone, Owns
  <2> QED BY <2>1, <2>2, Zenon
<1>6. ApMoves(c, l)
  BY <1>0, <1>1, <1>2, <1>5, Zenon DEF ApMoves, ApStations
<1>7. ApDone(c)'
  BY <1>0, <1>1, <1>3, <1>4, Zenon DEF ApDone
<1>8. \A d \in Cpus : Owns(d)'
  BY <1>0, <1>1, <1>5, Zenon DEF Owns, SlotOf
<1>9. CpusInv'
  BY <1>0, <1>1, <1>4, <1>6, <1>7, <1>8, OthersDone, Zenon DEF CpusInv
<1> QED BY <1>6, <1>9, ApKeeps, Zenon

(* The sets that are counted are finite.                                    *)
LEMMA CountsFinite ==
  ASSUME BootInv
  PROVE  /\ IsFiniteSet(goto) /\ IsFiniteSet(Halted) /\ Halted \subseteq goto
         /\ Cardinality(goto) \in Nat /\ Cardinality(Halted) \in Nat
<1>1. IsFiniteSet(Cpus) /\ goto \subseteq Cpus /\ Halted \subseteq goto
  BY CpusFinite, Zenon DEF BootInv, BootTypes, Halted
<1>2. IsFiniteSet(goto) /\ IsFiniteSet(Halted)
  BY <1>1, FS_Subset, Zenon
<1> QED BY <1>1, <1>2, FS_CardinalityType, Zenon

(* An AP counts itself.                                                     *)
LEMMA ApCounts ==
  ASSUME BootInv, NEW c \in Cpus \ {bsp}, ApOnline(c)
  PROVE  BootInv'
<1>0. /\ machine \in Machines /\ bsp \in Cpus /\ pc \in [Cpus -> Stations \cup ApStations]
      /\ DOMAIN cr3 = Cpus /\ DOMAIN gs = Cpus /\ DOMAIN slots = 0 .. MAX_CPUS - 1
      /\ ApDone(c) /\ \A d \in Cpus : Owns(d)
  BY ApFacts, Zenon
<1>1. /\ bsp' = bsp /\ Cpus' = Cpus /\ pc[c] = "online" /\ online' = online + 1
      /\ pc' = [pc EXCEPT ![c] = "hlt"]
      /\ UNCHANGED <<machine, gs, slots, at, next_slot, launched, extra, goto, cr3, kernel_pml4, idtr,
                     lapic, cursor, madt, redir>>
  BY Zenon DEF ApOnline, Goto, idtVars, irqVars, pagingVars, slotVars, bsp, Cpus
<1>2. c \in goto /\ c \notin Halted /\ c # bsp
  BY <1>0, <1>1, Zenon DEF ApDone, Halted
<1>3. /\ pc' \in [Cpus -> Stations \cup ApStations] /\ pc'[bsp] = pc[bsp] /\ pc'[c] = "hlt"
      /\ \A d \in Cpus \ {c} : pc'[d] = pc[d]
  BY <1>0, <1>1, Zenon DEF ApStations
<1>4. BootTypes'
  BY <1>0, <1>1, <1>2, <1>3, Zenon DEF BootInv, BootTypes, ApStations
<1>5. Started'
  BY <1>1, <1>3, Zenon DEF BootInv, Started
<1>6. CpusInv'
  <2>1. BspDone /\ \A d \in Cpus \ {bsp} : ApDone(d)
    BY Zenon DEF BootInv, CpusInv
  <2>2. BspDone'
    BY <1>1, <1>3, <2>1, Zenon DEF BspDone
  <2>3. \A d \in Cpus \ {bsp} : ApDone(d)'
    BY <1>1, <1>3, <2>1, Zenon DEF ApDone
  <2>4. \A d \in Cpus : Owns(d)'
    BY <1>0, <1>1, Zenon DEF Owns, SlotOf
  <2> QED BY <1>1, <2>2, <2>3, <2>4, Zenon DEF CpusInv
<1>7. CountInv'
  <2>1. Halted' = Halted \cup {c}
    <3>1. goto \subseteq Cpus
      BY Zenon DEF BootInv, BootTypes
    <3> QED BY <1>1, <1>2, <1>3, <3>1, Zenon DEF Halted
  <2>2. Cardinality(Halted') = Cardinality(Halted) + 1
    BY <1>2, <2>1, CountsFinite, FS_AddElement, Zenon
  <2>3. online = Cardinality(Halted) /\ pc[bsp] # "up"
    BY <1>2, Zenon DEF BootInv, CountInv
  <2> QED BY <1>1, <1>3, <2>2, <2>3, Zenon DEF BootInv, CountInv
<1>8. MadtInv' /\ RedirInv'
  <2>1. TablesAlone
    BY <1>1, <1>3, Zenon DEF TablesAlone, Enters
  <2> QED BY <2>1, TablesKept, Zenon DEF BootInv
<1> QED BY <1>4, <1>5, <1>6, <1>7, <1>8, Zenon DEF BootInv

(* idt::init on the BSP.                                                    *)
LEMMA BspIdt ==
  ASSUME BootInv, IdtLock(bsp) \/ IdtLoad(bsp)
  PROVE  BootInv'
<1> USE StageSets
<1>0. /\ machine \in Machines /\ bsp \in Cpus /\ DOMAIN cr3 = Cpus /\ BspDone /\ MadtInv /\ RedirInv
      /\ pc \in [Cpus -> Stations \cup ApStations]
  BY MachineFacts, Zenon DEF BootInv, BootTypes, CpusInv
<1>1. PICK l \in {"lidt", "frames"} : pc' = [pc EXCEPT ![bsp] = l]
  BY Zenon DEF IdtLock, IdtLoad, Goto
<1>2. /\ pc[bsp] \in {"idt", "lidt"} /\ pc'[bsp] = l /\ bsp' = bsp
      /\ UNCHANGED <<machine, slotVars, smpVars, cr3, cursor, madt, redir>>
  BY <1>0, <1>1, Zenon DEF IdtLock, IdtLoad, irqVars, pagingVars, bsp
<1>3. pc'[bsp] = "frames" => bsp \in idtr'
  BY <1>0, Zenon DEF IdtLock, IdtLoad, Goto
<1>4. BspDone'
  BY <1>0, <1>2, <1>3, Zenon DEF BspDone
<1>5. Early(l) /\ TablesAlone
  BY <1>0, <1>1, <1>2, <1>4, Zenon DEF Early, TablesAlone, Enters
<1> QED BY <1>0, <1>5, EarlyKeeps, TablesKept, Zenon DEF BootInv

(* init_bsp.                                                                *)
LEMMA BspSlot ==
  ASSUME BootInv, InitSlot(bsp)
  PROVE  BootInv'
<1> USE StageSets
<1>0. /\ machine \in Machines /\ bsp \in Cpus /\ BspDone /\ MadtInv /\ RedirInv
      /\ pc \in [Cpus -> Stations \cup ApStations]
      /\ DOMAIN cr3 = Cpus /\ DOMAIN gs = Cpus /\ DOMAIN slots = 0 .. MAX_CPUS - 1
  BY MachineFacts, Zenon DEF BootInv, BootTypes, CpusInv
<1>1. 0 < MAX_CPUS /\ 0 \in 0 .. MAX_CPUS - 1 /\ 0 # NONE
  <2>1. MAX_CPUS \in Nat \ {0} /\ NONE \notin 0 .. MAX_CPUS - 1
    BY <1>0, MachineFacts, Zenon
  <2>2. 0 < MAX_CPUS /\ 0 \in 0 .. MAX_CPUS - 1
    BY <2>1
  <2> QED BY <2>1, <2>2, Zenon
<1>2. /\ bsp' = bsp /\ Cpus' = Cpus /\ pc[bsp] = "gs"
      /\ UNCHANGED <<machine, at, next_slot, launched, extra, goto, online, cr3, kernel_pml4, idtr,
                     lapic, cursor, madt, redir>>
  BY Zenon DEF InitSlot, idtVars, irqVars, pagingVars, smpVars, bsp, Cpus
<1>3. /\ gs' = [gs EXCEPT ![bsp] = 0] /\ slots' = [slots EXCEPT ![0] = bsp]
      /\ pc' = [pc EXCEPT ![bsp] = "ioapic"]
  BY <1>1, Zenon DEF InitSlot, Goto
<1>4. goto = {} /\ Halted = {} /\ \A c \in Cpus \ {bsp} : pc[c] = "limine" /\ gs[c] = NONE
  BY <1>2, NobodyStarted, Zenon
<1>5. /\ pc' \in [Cpus -> Stations \cup ApStations] /\ pc'[bsp] = "ioapic"
      /\ gs'[bsp] = 0 /\ slots'[0] = bsp
      /\ DOMAIN gs' = Cpus /\ DOMAIN slots' = 0 .. MAX_CPUS - 1
      /\ \A c \in Cpus \ {bsp} : pc'[c] = pc[c] /\ gs'[c] = gs[c]
  BY <1>0, <1>1, <1>3, Zenon
<1>6. BootTypes'
  BY <1>0, <1>2, <1>5, Zenon DEF BootInv, BootTypes
<1>7. Started'
  BY <1>2, <1>4, <1>5, Zenon DEF BootInv, Started
<1>8. CpusInv'
  <2>1. BspDone'
    BY <1>0, <1>1, <1>2, <1>5, Zenon DEF BspDone
  <2>2. \A c \in Cpus \ {bsp} : ApDone(c)'
    BY <1>2, <1>4, <1>5, Zenon DEF ApDone
  <2>3. \A c \in Cpus : Owns(c)'
    BY <1>1, <1>2, <1>4, <1>5, Zenon DEF Owns, SlotOf
  <2> QED BY <1>2, <2>1, <2>2, <2>3, Zenon DEF CpusInv
<1>9. CountInv'
  <2>1. Halted' = Halted
    BY <1>2, <1>4, Zenon DEF Halted
  <2> QED BY <1>2, <1>5, <2>1, Zenon DEF BootInv, CountInv
<1>10. MadtInv' /\ RedirInv'
  <2>1. TablesAlone
    BY <1>2, <1>5, Zenon DEF TablesAlone, Enters
  <2> QED BY <1>0, <2>1, TablesKept, Zenon
<1> QED BY <1>6, <1>7, <1>8, <1>9, <1>10, Zenon DEF BootInv

-----------------------------------------------------------------------------
(* A step of smp::init: the tables stand, and so does what each processor   *)
(* has done.                                                                *)
SmpMoves(l) ==
    /\ pc[bsp] \in Late /\ l \in Late
    /\ pc' = [pc EXCEPT ![bsp] = l]
    /\ UNCHANGED <<machine, cr3, kernel_pml4, idtr, lapic, gs, slots, cursor, madt, redir>>
    /\ goto \subseteq goto'
    /\ \A c \in Cpus : gs[c] # NONE => extra'[c] = extra[c]

LEMMA SmpKeeps ==
  ASSUME BootInv, NEW l, SmpMoves(l)
  PROVE  /\ CpusInv' /\ MadtInv' /\ RedirInv' /\ bsp' = bsp /\ Cpus' = Cpus /\ bsp \in Cpus
         /\ machine \in Machines /\ pc'[bsp] = l /\ \A c \in Cpus \ {bsp} : pc'[c] = pc[c]
         /\ extra' \in [Cpus -> Nat] /\ goto' \subseteq Cpus \ {bsp} => BootTypes'
<1> USE StageSets
<1>0. /\ machine \in Machines /\ bsp \in Cpus /\ BspDone /\ MadtInv /\ RedirInv
      /\ pc \in [Cpus -> Stations \cup ApStations] /\ bsp' = bsp /\ Cpus' = Cpus
      /\ \A c \in Cpus : Owns(c)
      /\ \A c \in Cpus \ {bsp} : ApDone(c)
  BY MachineFacts, Zenon DEF BootInv, BootTypes, CpusInv, SmpMoves, bsp, Cpus
<1>1. /\ pc' \in [Cpus -> Stations \cup ApStations] /\ pc'[bsp] = l
      /\ \A c \in Cpus \ {bsp} : pc'[c] = pc[c]
  BY <1>0, Zenon DEF SmpMoves
<1>2. BspDone'
  BY <1>0, <1>1, Zenon DEF BspDone, SmpMoves
<1>3. \A c \in Cpus \ {bsp} : ApDone(c)'
  BY <1>0, <1>1, Zenon DEF ApDone, SmpMoves
<1>4. \A c \in Cpus : Owns(c)'
  BY <1>0, Zenon DEF Owns, SlotOf, SmpMoves
<1>5. TablesAlone
  BY <1>1, Zenon DEF TablesAlone, Enters, SmpMoves
<1>6. extra' \in [Cpus -> Nat] /\ goto' \subseteq Cpus \ {bsp} => BootTypes'
  BY <1>0, <1>1, Zenon DEF BootInv, BootTypes, SmpMoves
<1> QED BY <1>0, <1>1, <1>2, <1>3, <1>4, <1>5, <1>6, TablesKept, Zenon DEF CpusInv

(* The processor that smp::init looks at has not been started.              *)
LEMMA NotYet ==
  ASSUME BootInv, at <= Len(machine.cpus)
  PROVE  /\ at \in 1 .. Len(machine.cpus) /\ machine.cpus[at] \in Cpus /\ machine.cpus[at] \notin goto
         /\ machine.cpus[at] # bsp => gs[machine.cpus[at]] = NONE /\ pc[machine.cpus[at]] = "limine"
<1> DEFINE c == machine.cpus[at]
<1>1. /\ machine \in Machines /\ at \in 1 .. Len(machine.cpus) + 1
      /\ \A d \in goto : \E i \in 1 .. at - 1 : d = machine.cpus[i]
      /\ \A d \in Cpus : Owns(d)
      /\ \A d \in Cpus \ {bsp} : ApDone(d)
  BY Zenon DEF BootInv, BootTypes, Started, CpusInv
<1>2. /\ Cpus = {machine.cpus[i] : i \in 1 .. Len(machine.cpus)} /\ Len(machine.cpus) \in Nat
      /\ \A i, j \in 1 .. Len(machine.cpus) : machine.cpus[i] = machine.cpus[j] => i = j
  BY <1>1, MachineFacts, Zenon
<1>3. at \in 1 .. Len(machine.cpus) /\ \A i \in 1 .. at - 1 : i \in 1 .. Len(machine.cpus) /\ i # at
  BY <1>1, <1>2
<1>4. c \in Cpus /\ c \notin goto
  BY <1>1, <1>2, <1>3, Zenon
<1>5. c # bsp => gs[c] = NONE /\ pc[c] = "limine"
  BY <1>1, <1>4, Zenon DEF Owns, ApDone
<1> QED BY <1>3, <1>4, <1>5, Zenon

(* The end of the list.                                                     *)
LEMMA ListDone ==
  ASSUME BootInv, SmpStash, at > Len(machine.cpus)
  PROVE  BootInv'
<1>1. SmpMoves("wait") /\ UNCHANGED <<at, next_slot, launched, extra, goto, online>>
  BY Zenon DEF SmpStash, SmpStashWith, SmpMoves, Goto, Late, pagingVars, idtVars, irqVars, slotVars
<1>2. /\ CpusInv' /\ MadtInv' /\ RedirInv' /\ pc[bsp] = "smp" /\ pc'[bsp] = "wait" /\ bsp \in Cpus
      /\ bsp' = bsp /\ Cpus' = Cpus /\ machine' = machine /\ machine \in Machines
      /\ \A c \in Cpus \ {bsp} : pc'[c] = pc[c]
  BY <1>1, SmpKeeps, Zenon DEF SmpMoves, SmpStash, SmpStashWith
<1>3. BootTypes'
  BY <1>1, SmpKeeps, Zenon DEF BootInv, BootTypes
<1>4. Started'
  BY <1>1, <1>2, Zenon DEF BootInv, Started, Late
<1>5. CountInv'
  <2>1. Halted' = Halted
    BY <1>1, <1>2, Zenon DEF Halted, BootInv, BootTypes
  <2>2. at = Len(machine.cpus) + 1
    <3>1. at \in 1 .. Len(machine.cpus) + 1 /\ Len(machine.cpus) \in Nat
      BY <1>2, MachineFacts, Zenon DEF BootInv, Started
    <3> QED BY <3>1
  <2> QED BY <1>1, <1>2, <2>1, <2>2, Zenon DEF BootInv, CountInv
<1> QED BY <1>2, <1>3, <1>4, <1>5, Zenon DEF BootInv

(* Where there is a slot for every processor, none is left out for want of  *)
(* one: with next_slot used up, more processors than MAX_CPUS are there.    *)
LEMMA SkippedForCause ==
  ASSUME BootInv, at <= Len(machine.cpus), machine.cpus[at] # bsp, next_slot >= MAX_CPUS
  PROVE  Len(machine.cpus) > MAX_CPUS
<1> DEFINE c == machine.cpus[at]
           G == goto \cup {bsp}
<1>1. c \in Cpus /\ c \notin G
  BY NotYet, Zenon
<1>2. /\ machine \in Machines /\ launched = Cardinality(goto) /\ next_slot = launched + 1
      /\ goto \subseteq Cpus \ {bsp} /\ bsp \in Cpus /\ MAX_CPUS \in Nat /\ Len(machine.cpus) \in Nat
  BY MachineFacts, Zenon DEF BootInv, BootTypes, CountInv
<1>3. IsFiniteSet(goto) /\ Cardinality(goto) \in Nat
  BY CountsFinite, Zenon
<1>4. IsFiniteSet(G) /\ Cardinality(G) = Cardinality(goto) + 1
  <2>1. bsp \notin goto
    BY <1>2, Zenon
  <2> QED BY <1>3, <2>1, FS_AddElement, Zenon
<1>5. G \cup {c} \subseteq Cpus
  BY <1>1, <1>2, Zenon
<1> HIDE DEF G, c
<1>6. Cardinality(G \cup {c}) = Cardinality(G) + 1
  BY <1>1, <1>4, FS_AddElement, Zenon
<1>7. /\ IsFiniteSet(Cpus) /\ Cardinality(Cpus) <= Len(machine.cpus)
      /\ Cardinality(G \cup {c}) <= Cardinality(Cpus)
  BY <1>2, <1>5, CpusFinite, FS_Subset, Zenon
<1>8. Cardinality(Cpus) \in Nat
  BY <1>7, FS_CardinalityType, Zenon
<1> QED BY <1>2, <1>3, <1>4, <1>6, <1>7, <1>8

(* A processor that is passed over.                                         *)
LEMMA PassedOver ==
  ASSUME BootInv, SmpStash, at <= Len(machine.cpus), machine.cpus[at] = bsp \/ next_slot >= MAX_CPUS
  PROVE  BootInv'
<1> DEFINE c == machine.cpus[at]
<1>0. /\ at \in 1 .. Len(machine.cpus) + 1 /\ Len(machine.cpus) \in Nat /\ launched \in Nat
      /\ pc \in [Cpus -> Stations \cup ApStations] /\ bsp \in Cpus
  BY CountsFinite, MachineFacts, Zenon DEF BootInv, BootTypes, Started, CountInv
<1>1. ~(at > Len(machine.cpus))
  BY <1>0
<1>2. /\ pc[bsp] = "smp" /\ at' = at + 1 /\ UNCHANGED <<pc, extra, next_slot, goto, online>>
      /\ launched' = IF c = bsp THEN launched ELSE launched + 0
      /\ UNCHANGED <<machine, cr3, kernel_pml4, idtr, lapic, gs, slots, cursor, madt, redir>>
  BY <1>1, Zenon DEF SmpStash, SmpStashWith, pagingVars, idtVars, irqVars, slotVars
<1>3. SmpMoves("smp")
  BY <1>0, <1>2, Zenon DEF SmpMoves, Late
<1>4. /\ CpusInv' /\ MadtInv' /\ RedirInv' /\ bsp' = bsp /\ Cpus' = Cpus
  BY <1>3, SmpKeeps, Zenon
<1>5. BootTypes'
  BY <1>2, <1>3, SmpKeeps, Zenon DEF BootInv, BootTypes
<1>6. /\ at' \in 1 .. Len(machine.cpus) + 1 /\ launched' = launched
      /\ \A i \in 1 .. at' - 1 : i \in 1 .. at - 1 \/ i = at
      /\ \A i \in 1 .. at - 1 : i \in 1 .. at' - 1
  BY <1>0, <1>1, <1>2
<1>7. Started'
  <2>1. \A d \in goto : \E i \in 1 .. at' - 1 : d = machine.cpus[i]
    BY <1>6, Zenon DEF BootInv, Started
  <2>2. pc'[bsp] = "smp" /\ "smp" \in Late
    BY <1>2, Zenon DEF Late
  <2> QED BY <1>2, <1>4, <1>6, <2>1, <2>2, Zenon DEF BootInv, Started
<1>8. CountInv'
  <2>1. Halted' = Halted
    BY <1>2, Zenon DEF Halted
  <2>2. Len(machine.cpus) <= MAX_CPUS => \A i \in 1 .. at' - 1 : machine.cpus[i] \in goto \cup {bsp}
    <3>1. Len(machine.cpus) <= MAX_CPUS => c = bsp
      <4>1. MAX_CPUS \in Nat
        BY MachineFacts, Zenon DEF BootInv, BootTypes
      <4>2. c = bsp \/ Len(machine.cpus) > MAX_CPUS
        BY SkippedForCause, Zenon
      <4> QED BY <1>0, <4>1, <4>2
    <3> QED BY <1>6, <3>1, Zenon DEF BootInv, CountInv
  <2> QED BY <1>2, <1>4, <1>6, <2>1, <2>2, Zenon DEF BootInv, CountInv
<1> QED BY <1>4, <1>5, <1>7, <1>8, Zenon DEF BootInv

(* A processor that is given its slot.                                      *)
LEMMA GivenSlot ==
  ASSUME BootInv, SmpStash, at <= Len(machine.cpus), machine.cpus[at] # bsp, ~(next_slot >= MAX_CPUS)
  PROVE  BootInv'
<1> DEFINE c == machine.cpus[at]
<1>0. /\ at \in 1 .. Len(machine.cpus) + 1 /\ Len(machine.cpus) \in Nat /\ next_slot \in 1 .. MAX_CPUS
      /\ MAX_CPUS \in Nat /\ extra \in [Cpus -> Nat] /\ goto \subseteq Cpus \ {bsp}
  BY MachineFacts, Zenon DEF BootInv, BootTypes, Started
<1>1. ~(at > Len(machine.cpus)) /\ next_slot < MAX_CPUS /\ next_slot \in Nat
  BY <1>0
<1>2. /\ pc[bsp] = "smp" /\ extra' = [extra EXCEPT ![c] = next_slot]
      /\ pc' = [pc EXCEPT ![bsp] = "goto"]
      /\ UNCHANGED <<at, launched, next_slot, goto, online>>
      /\ UNCHANGED <<machine, cr3, kernel_pml4, idtr, lapic, gs, slots, cursor, madt, redir>>
  BY <1>1, Zenon DEF SmpStash, SmpStashWith, Goto, pagingVars, idtVars, irqVars, slotVars
<1>3. c \in Cpus /\ c \notin goto /\ gs[c] = NONE
  BY NotYet, Zenon
<1> HIDE DEF c
<1>4. extra' \in [Cpus -> Nat] /\ extra'[c] = next_slot /\ \A d \in Cpus \ {c} : extra'[d] = extra[d]
  BY <1>0, <1>1, <1>2, <1>3, Zenon
<1>5. SmpMoves("goto")
  BY <1>2, <1>3, <1>4, Zenon DEF SmpMoves, Late
<1>6. /\ CpusInv' /\ MadtInv' /\ RedirInv' /\ bsp' = bsp /\ Cpus' = Cpus /\ pc'[bsp] = "goto"
      /\ bsp \in Cpus /\ \A d \in Cpus \ {bsp} : pc'[d] = pc[d]
  BY <1>5, SmpKeeps, Zenon
<1>7. BootTypes'
  BY <1>0, <1>2, <1>4, <1>5, SmpKeeps, Zenon
<1>8. \A d \in goto : extra'[d] = extra[d]
  BY <1>0, <1>3, <1>4, Zenon
<1>9. Started'
  <2>1. /\ at' <= Len(machine'.cpus) /\ machine'.cpus[at'] # bsp' /\ next_slot' < MAX_CPUS
        /\ extra'[machine'.cpus[at']] = next_slot' /\ "goto" \in Late
    BY <1>1, <1>2, <1>4, <1>6, Zenon DEF c, Late
  <2>2. /\ \A d \in goto : \E i \in 1 .. at - 1 : d = machine.cpus[i]
        /\ \A d \in goto : extra'[d] \in 1 .. next_slot - 1
        /\ \A d, e \in goto : extra'[d] = extra'[e] => d = e
    BY <1>8, Zenon DEF BootInv, Started
  <2>3. /\ at' \in 1 .. Len(machine'.cpus) + 1 /\ next_slot' \in 1 .. MAX_CPUS /\ pc'[bsp'] = "goto"
        /\ \A d \in goto' : \E i \in 1 .. at' - 1 : d = machine'.cpus[i]
        /\ \A d \in goto' : extra'[d] \in 1 .. next_slot' - 1
        /\ \A d, e \in goto' : extra'[d] = extra'[e] => d = e
    BY <1>0, <1>2, <1>6, <2>2, SMT
  <2> QED BY <2>1, <2>3, Zenon DEF Started
<1>10. CountInv'
  <2>1. Halted' = Halted
    BY <1>0, <1>2, <1>6, Zenon DEF Halted
  <2> QED BY <1>2, <1>6, <2>1, Zenon DEF BootInv, CountInv
<1> QED BY <1>6, <1>7, <1>9, <1>10, Zenon DEF BootInv

(* The processor is started.                                                *)
LEMMA GotoStep ==
  ASSUME BootInv, SmpGoto
  PROVE  BootInv'
<1> DEFINE c == machine.cpus[at]
<1>0. /\ at \in 1 .. Len(machine.cpus) + 1 /\ Len(machine.cpus) \in Nat /\ next_slot \in 1 .. MAX_CPUS
      /\ MAX_CPUS \in Nat /\ extra \in [Cpus -> Nat] /\ goto \subseteq Cpus \ {bsp}
      /\ \A d \in goto : \E i \in 1 .. at - 1 : d = machine.cpus[i]
      /\ \A d \in goto : extra[d] \in 1 .. next_slot - 1
      /\ \A d, e \in goto : extra[d] = extra[e] => d = e
      /\ launched = Cardinality(goto) /\ next_slot = launched + 1 /\ online = Cardinality(Halted)
  BY MachineFacts, Zenon DEF BootInv, BootTypes, Started, CountInv
<1>1. /\ pc[bsp] = "goto" /\ goto' = goto \cup {c} /\ at' = at + 1 /\ next_slot' = next_slot + 1
      /\ launched' = launched + 1 /\ pc' = [pc EXCEPT ![bsp] = "smp"]
      /\ UNCHANGED <<extra, online>>
      /\ UNCHANGED <<machine, cr3, kernel_pml4, idtr, lapic, gs, slots, cursor, madt, redir>>
  BY Zenon DEF SmpGoto, Goto, pagingVars, idtVars, irqVars, slotVars
<1>2. at <= Len(machine.cpus) /\ c # bsp /\ next_slot < MAX_CPUS /\ extra[c] = next_slot
  BY <1>1, Zenon DEF BootInv, Started
<1>3. c \in Cpus /\ c \notin goto /\ pc[c] = "limine"
  BY <1>2, NotYet, Zenon
<1>4. SmpMoves("smp")
  BY <1>1, Zenon DEF SmpMoves, Late
<1>5. /\ CpusInv' /\ MadtInv' /\ RedirInv' /\ bsp' = bsp /\ Cpus' = Cpus /\ pc'[bsp] = "smp"
      /\ bsp \in Cpus /\ \A d \in Cpus \ {bsp} : pc'[d] = pc[d]
  BY <1>4, SmpKeeps, Zenon
<1>6. BootTypes'
  BY <1>0, <1>1, <1>2, <1>3, <1>4, SmpKeeps, Zenon
<1>7. /\ at' \in 1 .. Len(machine.cpus) + 1 /\ next_slot' \in 1 .. MAX_CPUS
      /\ next_slot \in 1 .. next_slot' - 1 /\ at \in 1 .. at' - 1 /\ next_slot \notin 1 .. next_slot - 1
      /\ \A i \in 1 .. at - 1 : i \in 1 .. at' - 1
      /\ \A i \in 1 .. at' - 1 : i \in 1 .. at - 1 \/ i = at
      /\ \A i \in 1 .. next_slot - 1 : i \in 1 .. next_slot' - 1
  BY <1>0, <1>1, <1>2
<1>8. Started'
  <2>1. \A d \in goto' : \E i \in 1 .. at' - 1 : d = machine.cpus[i]
    BY <1>0, <1>1, <1>7, Zenon DEF c
  <2>2. \A d \in goto' : extra[d] \in 1 .. next_slot' - 1
    BY <1>0, <1>1, <1>2, <1>7, Zenon
  <2>3. \A d, e \in goto' : extra[d] = extra[e] => d = e
    <3>1. ASSUME NEW d \in goto PROVE extra[d] # extra[c]
      <4>1. extra[d] \in 1 .. next_slot - 1
        BY <1>0, Zenon
      <4>2. extra[c] = next_slot /\ next_slot \notin 1 .. next_slot - 1
        BY <1>2, <1>7, Zenon
      <4> QED BY <4>1, <4>2, Zenon
    <3>2. \A d \in goto' : d \in goto \/ d = c
      BY <1>1, Zenon
    <3> QED BY <1>0, <3>1, <3>2, Zenon
  <2>4. pc'[bsp'] = "smp" /\ "smp" \in Late
    BY <1>5, Zenon DEF Late
  <2> QED BY <1>1, <1>7, <2>1, <2>2, <2>3, <2>4, Zenon DEF Started
<1>9. CountInv'
  <2>1. Halted' = Halted
    BY <1>0, <1>1, <1>3, <1>5, Zenon DEF Halted
  <2>2. Cardinality(goto') = Cardinality(goto) + 1 /\ Cardinality(goto) \in Nat
    BY <1>1, <1>3, CountsFinite, FS_AddElement, Zenon
  <2>3. launched' = Cardinality(goto') /\ next_slot' = launched' + 1
    BY <1>0, <1>1, <2>2
  <2>4. Len(machine.cpus) <= MAX_CPUS => \A i \in 1 .. at' - 1 : machine.cpus[i] \in goto' \cup {bsp}
    <3>1. Len(machine.cpus) <= MAX_CPUS => \A i \in 1 .. at - 1 : machine.cpus[i] \in goto \cup {bsp}
      BY Zenon DEF BootInv, CountInv
    <3> QED BY <1>1, <1>7, <3>1, Zenon
  <2> QED BY <1>0, <1>1, <1>5, <2>1, <2>3, <2>4, Zenon DEF CountInv
<1> QED BY <1>5, <1>6, <1>8, <1>9, Zenon DEF BootInv

(* The wait is over when all that were started have counted themselves.     *)
LEMMA WaitStep ==
  ASSUME BootInv, SmpWait
  PROVE  BootInv'
<1>1. /\ pc[bsp] = "wait" /\ online >= launched /\ pc' = [pc EXCEPT ![bsp] = "up"]
      /\ UNCHANGED <<machine, at, next_slot, launched, extra, goto, online, cr3, kernel_pml4, idtr, lapic,
                     gs, slots, cursor, madt, redir>>
  BY Zenon DEF SmpWait, Goto, pagingVars, idtVars, irqVars, slotVars, smpVars
<1>2. SmpMoves("up")
  BY <1>1, Zenon DEF SmpMoves, Late
<1>3. /\ CpusInv' /\ MadtInv' /\ RedirInv' /\ bsp' = bsp /\ Cpus' = Cpus /\ pc'[bsp] = "up"
      /\ bsp \in Cpus /\ \A d \in Cpus \ {bsp} : pc'[d] = pc[d]
  BY <1>2, SmpKeeps, Zenon
<1>4. BootTypes'
  BY <1>1, <1>2, SmpKeeps, Zenon DEF BootInv, BootTypes
<1>5. Started'
  BY <1>1, <1>3, Zenon DEF BootInv, Started, Late
<1>6. CountInv'
  <2>1. Halted' = Halted
    BY <1>1, <1>3, Zenon DEF Halted, BootInv, BootTypes
  <2>2. Halted = goto
    <3>1. /\ IsFiniteSet(goto) /\ Halted \in SUBSET goto
          /\ Cardinality(goto) \in Nat /\ Cardinality(Halted) \in Nat
          /\ launched = Cardinality(goto) /\ online = Cardinality(Halted)
      BY CountsFinite, Zenon DEF BootInv, CountInv
    <3>2. Cardinality(Halted) <= Cardinality(goto) /\ (Cardinality(goto) = Cardinality(Halted) => goto = Halted)
      BY <3>1, FS_Subset, Zenon
    <3>3. Cardinality(goto) = Cardinality(Halted)
      BY <1>1, <3>1, <3>2
    <3> QED BY <3>2, <3>3, Zenon
  <2> QED BY <1>1, <1>3, <2>1, <2>2, Zenon DEF BootInv, CountInv
<1> QED BY <1>3, <1>4, <1>5, <1>6, Zenon DEF BootInv

-----------------------------------------------------------------------------
(* No step of any processor or of the balloon breaks the invariant.         *)
LEMMA StepKeepsBootInv == BootInv /\ [Next]_vars => BootInv'
<1> SUFFICES ASSUME BootInv, [Next]_vars PROVE BootInv'
  BY Zenon
<1>1. CASE BspStep
  <2>1. CASE SmpStash
    <3>1. machine \in Machines /\ at \in 1 .. Len(machine.cpus) + 1 /\ Len(machine.cpus) \in Nat
      BY MachineFacts, Zenon DEF BootInv, BootTypes, Started
    <3>2. at > Len(machine.cpus) \/ at <= Len(machine.cpus)
      BY <3>1
    <3> QED BY <2>1, <3>2, ListDone, PassedOver, GivenSlot, Zenon
  <2> QED BY <1>1, <2>1, FirstSteps, ApicStep, AcpiStep, MadtStep, IoapicStep, KbdStep, GotoStep, WaitStep,
             Zenon DEF BspStep
<1>2. ASSUME NEW c \in Cpus, CpuStep(c) PROVE BootInv'
  <2>1. CASE c = bsp
    BY <1>2, <2>1, BspIdt, BspSlot, Zenon DEF CpuStep
  <2>2. CASE c # bsp
    BY <1>2, <2>2, ApIdt, ApSlot, Zenon DEF CpuStep
  <2> QED BY <2>1, <2>2, Zenon
<1>3. ASSUME NEW c \in Cpus, c # bsp, ApStep(c) PROVE BootInv'
  BY <1>3, ApEnters, ApLapicOn, ApCounts, Zenon DEF ApStep
<1>4. CASE UNCHANGED bootVars
  <2>1. /\ UNCHANGED <<machine, pc, cr3, kernel_pml4, idtr, lapic, cursor, madt, redir, gs, slots>>
        /\ UNCHANGED <<at, next_slot, launched, extra, goto, online>> /\ bsp' = bsp /\ Cpus' = Cpus
    BY <1>4, Zenon DEF bootVars, pagingVars, idtVars, irqVars, slotVars, smpVars, bsp, Cpus
  <2>2. BootTypes'
    BY <2>1, Zenon DEF BootInv, BootTypes
  <2>3. Started'
    BY <2>1, Zenon DEF BootInv, Started
  <2>4. CpusInv'
    BY <2>1, Zenon DEF BootInv, CpusInv, Owns, SlotOf, BspDone, ApDone
  <2>5. CountInv'
    <3>1. Halted' = Halted
      BY <2>1, Zenon DEF Halted
    <3> QED BY <2>1, <3>1, Zenon DEF BootInv, CountInv
  <2>6. MadtInv' /\ RedirInv'
    <3>1. TablesAlone
      BY <2>1, Zenon DEF TablesAlone, Enters
    <3> QED BY <3>1, TablesKept, Zenon DEF BootInv
  <2> QED BY <2>2, <2>3, <2>4, <2>5, <2>6, Zenon DEF BootInv
<1> QED BY <1>1, <1>2, <1>3, <1>4, Zenon DEF Next, vars

(* The invariant of the boot: who was started has a slot of its own, the    *)
(* two counts of smp::init count their sets, each processor has done what   *)
(* it has passed, the MADT walk knows the keyboard's first override once it *)
(* is past one, and the IOAPIC's lines are masked before one is opened.     *)
THEOREM BootInvariant == Spec => []BootInv
<1> QED BY InitBootInv, StepKeepsBootInv, PTL DEF Spec

(* For any machine and any number of processors and slots, however the APs  *)
(* interleave: no two processors share a slot of CPUS, and the slot that a  *)
(* processor uses holds its own id.                                         *)
THEOREM CpuSlotsApart == Spec => []SlotsApart
<1>1. BootInv => SlotsApart
  <2> SUFFICES ASSUME BootInv, NEW c \in Cpus, gs[c] # NONE
               PROVE  slots[gs[c]] = c /\ \A d \in Cpus \ {c} : gs[d] # gs[c]
    BY Zenon DEF SlotsApart
  <2>1. \A d \in Cpus : gs[d] # NONE => slots[gs[d]] = d
    BY Zenon DEF BootInv, CpusInv, Owns
  <2> QED BY <2>1, Zenon
<1> QED BY <1>1, BootInvariant, PTL

(* When smp::init returns, every processor it started, and every one there  *)
(* is where MAX_CPUS slots are enough, has its slot, its interrupt table,   *)
(* its LAPIC and the kernel's page tables, and the keyboard's line alone is *)
(* open, whatever the firmware had left open.                               *)
THEOREM UpMeansReady == Spec => []UpIsReady
<1>1. BootInv => UpIsReady
  <2> SUFFICES ASSUME BootInv, pc[bsp] = "up" PROVE UpIsReady
    BY Zenon DEF UpIsReady
  <2> DEFINE line == machine.keyboard - madt.ioapics[1].gsi_base
  <2>1. /\ machine \in Machines /\ Halted = goto /\ BspDone /\ goto \subseteq Cpus \ {bsp}
        /\ \A c \in Cpus \ {bsp} : ApDone(c)
        /\ at = Len(machine.cpus) + 1
        /\ Len(machine.cpus) <= MAX_CPUS => \A i \in 1 .. at - 1 : machine.cpus[i] \in goto \cup {bsp}
    BY Zenon DEF BootInv, BootTypes, CpusInv, CountInv
  <2>2. "up" \in Late
    BY DEF Late
  <2>3. \A c \in goto : c \in idtr \cap lapic /\ gs[c] # NONE /\ cr3[c] = kernel_pml4
    BY <2>1, Zenon DEF Halted, ApDone
  <2>4. bsp \in idtr \cap lapic /\ gs[bsp] # NONE /\ cr3[bsp] = kernel_pml4
    BY <2>1, <2>2, StageSets, Zenon DEF BspDone
  <2>5. Len(machine.cpus) <= MAX_CPUS => goto = Cpus \ {bsp}
    <3>1. /\ Cpus = {machine.cpus[i] : i \in 1 .. Len(machine.cpus)} /\ Len(machine.cpus) \in Nat
      BY <2>1, MachineFacts, Zenon
    <3>2. at - 1 = Len(machine.cpus)
      BY <2>1, <3>1
    <3> QED BY <2>1, <3>1, <3>2, Zenon
  <2>6. /\ line \in DOMAIN redir /\ \A e \in DOMAIN redir : redir[e].masked <=> e # line
        /\ redir[line].vector = KEYBOARD /\ redir[line].dest = bsp
    BY <2>2, Zenon DEF BootInv, RedirInv
  <2>7. {e \in DOMAIN redir : ~redir[e].masked} = {line}
    <3> HIDE DEF line
    <3> QED BY <2>6, Zenon
  <2> QED BY <2>3, <2>4, <2>5, <2>6, <2>7, Zenon DEF UpIsReady
<1> QED BY <1>1, BootInvariant, PTL
=============================================================================
