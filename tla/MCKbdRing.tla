----------------------------- MODULE MCKbdRing -----------------------------
(* Small instances of KbdRing: one printable key, a ring of three slots (it *)
(* holds two bytes), a line of two bytes.                                   *)
EXTENDS KbdRing

CONSTANTS k1, Hid

MCKeys == {k1}
UsbOnly == {Hid}
Ps2AndUsb == {Irq, Hid}
=============================================================================
