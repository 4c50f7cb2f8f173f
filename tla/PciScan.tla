------------------------------- MODULE PciScan --------------------------------
(***************************************************************************)
(* How the kernel's drivers find a function on the PCI bus: brute force    *)
(* over devices, function 0 first, functions 1 to 7 when function 0 has    *)
(* the multi-function bit.  A read of an absent function returns all ones, *)
(* so the bit reads as set when function 0 is absent.  xhci.rs does not    *)
(* look at the bit and tries all eight functions.                          *)
(*                                                                         *)
(* A bus maps <<device, function>> to a record [class, multi, bar]; the    *)
(* bus number is part of the device.  bar is 0 when BAR 0 (or the BAR the  *)
(* driver needs) is absent or an I/O BAR.                                  *)
(***************************************************************************)
EXTENDS Integers

Present(bus, d, f) == <<d, f>> \in DOMAIN bus

(* bit 7 of the header type of function 0, as config_read32 returns it      *)
HeaderMulti(bus, d) == Present(bus, d, 0) => bus[<<d, 0>>].multi

Visited(bus) == {p \in DOMAIN bus : p[2] = 0 \/ HeaderMulti(bus, p[1])}

(* pci::scan does not look behind an absent function 0.                     *)
Scanned(bus) == {p \in Visited(bus) : Present(bus, p[1], 0)}

Before(p, r) == p[1] < r[1] \/ (p[1] = r[1] /\ p[2] < r[2])

(* check_function: the class matches and the BAR has an address.            *)
Usable(bus, p, class) == bus[p].class = class /\ bus[p].bar # 0

(* The first function among places that check_function accepts, as a set    *)
(* of at most one element.                                                  *)
FirstAmong(bus, places, class) ==
    LET found == {p \in places : Usable(bus, p, class)}
    IN {p \in found : \A r \in found \ {p} : Before(p, r)}

(* find_controller of nvme.rs and of xhci.rs.                               *)
FirstOf(bus, class) == FirstAmong(bus, Visited(bus), class)
FirstOfAll(bus, class) == FirstAmong(bus, DOMAIN bus, class)
=============================================================================
