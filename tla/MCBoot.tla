------------------------------- MODULE MCBoot --------------------------------
(* Machines to boot: two that are as they should be, one with a balloon and *)
(* little memory, and one for each way in which the others can be wrong.    *)
EXTENDS Boot, TLC

Region(type, base, length) == [type |-> type, base |-> base, length |-> length]
Entry(type, len) == [type |-> type, len |-> len]
CpuEntry(id) == Entry(0, 8) @@ [apic_id |-> id]
IoapicEntry(base) == Entry(1, 12) @@ [base |-> 0, gsi_base |-> base]
Override(source, gsi) == Entry(2, 10) @@ [source |-> source, gsi |-> gsi]

(* A region of one frame, the tables' frames, and a longer region, whose    *)
(* first two frames are the heap.                                           *)
Plain ==
    [map |-> <<Region("RESERVED", 0, 2), Region("USABLE", 2, 2),
               Region("RECLAIMABLE", 4, 6), Region("USABLE", 10, 16)>>,
     tables |-> <<[frame |-> 4, kids |-> {2, 3}], [frame |-> 6, kids |-> {}],
                  [frame |-> 8, kids |-> {}]>>,
     apic |-> {"LAPIC_ENABLE", "BSP"}, ticks |-> 625000,
     acpi |-> [rsdp |-> "RSD PTR ", revision |-> 2, sdt |-> "XSDT",
               entries |-> <<"FACP", "APIC">>],
     madt |-> [length |-> 44 + 8 + 6 + 12 + 10 + 10 + 1,
               at |-> 44 :> CpuEntry(1) @@ 52 :> Entry(4, 6) @@ 58 :> IoapicEntry(0)
                      @@ 70 :> Override(0, 2) @@ 80 :> Override(1, 3)],
     cpus |-> <<7, 1, 5>>, bsp |-> 1,
     redirs |-> 4, open |-> {0, 3}, keyboard |-> 3, balloon |-> FALSE]

(* The last entry of the IOAPIC is the one that the firmware left open, and *)
(* the keyboard is on its own line; with a balloon, and one AP.             *)
Ballooned ==
    [Plain EXCEPT !.balloon = TRUE, !.cpus = <<1, 5>>, !.madt =
       [length |-> 64, at |-> 44 :> IoapicEntry(0) @@ 56 :> CpuEntry(1)], !.keyboard = 1]

FourCpus == [Plain EXCEPT !.cpus = <<1, 5, 7, 9>>]

Bad == {[Plain EXCEPT !.apic = {"LAPIC_ENABLE"}],
        [Plain EXCEPT !.apic = @ \cup {"X2APIC_ENABLE"}],
        [Plain EXCEPT !.ticks = 12],
        [Plain EXCEPT !.acpi.revision = 0],
        [Plain EXCEPT !.acpi.entries = <<"FACP">>],
        [Plain EXCEPT !.madt.length = 85],
        [Plain EXCEPT !.madt.at[52] = Entry(4, 1)],
        [Plain EXCEPT !.madt.at[44] = CpuEntry(9)],
        [Plain EXCEPT !.madt.at[58] = Entry(9, 12)],
        [Plain EXCEPT !.madt.at[58] = IoapicEntry(24)],
        [Plain EXCEPT !.map = <<Region("RESERVED", 0, 2), Region("RECLAIMABLE", 4, 6)>>],
        [Plain EXCEPT !.map = <<Region("RECLAIMABLE", 4, 6), Region("USABLE", 10, 4)>>],
        [Plain EXCEPT !.map = <<Region("RECLAIMABLE", 4, 6), Region("USABLE", 10, 8)>>],
        [Plain EXCEPT !.map = <<Region("RECLAIMABLE", 4, 6), Region("USABLE", 10, 10)>>]}

SomeMachines == {Plain, FourCpus, Ballooned} \cup Bad
SomePages == {2 * i : i \in 1 .. 12}
=============================================================================
