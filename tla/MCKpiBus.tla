------------------------------ MODULE MCKpiBus --------------------------------
(* KpiBus for TLC: five small machines.                                     *)
EXTENDS KpiBus, TLC

All == {"common", "notify", "isr", "device"}
Fn(kind, pci, subsys, qmax) ==
    [kind |-> kind, pci |-> pci, subsys |-> subsys, multi |-> FALSE, caps |-> All,
     offers |-> {"version_1"}, msix |-> "ok", qmax |-> qmax]

BlkFn == Fn("blk", 4097, 2, <<256>>)
NetFn == Fn("net", 4096, 1, <<256, 16>>)
GpuFn == Fn("gpu", 4176, 0, <<64>>)
RngFn == Fn("rng", 4101, 4, <<8, 8, 8>>)
Ball(irq, qmax) ==
    [Fn("balloon", 4165, 0, qmax) EXCEPT !.msix = irq, !.offers = {"version_1", "stats", "poison", "hint"}]

(* transitional net and rng beside a balloon whose queue is long       *)
Full == (<<0, 0>> :> Ball("ok", <<300, 128, 5>>)) @@ (<<1, 0>> :> RngFn) @@ (<<2, 0>> :> NetFn)
(* a multi-function device; the balloon's MSI-X table has no BAR            *)
Multi == (<<0, 0>> :> [GpuFn EXCEPT !.multi = TRUE]) @@ (<<0, 3>> :> Ball("nobar", <<64, 64, 64>>))
         @@ (<<1, 0>> :> NetFn)
(* the balloon lacks its second queue and does not echo its vector          *)
Broken == (<<0, 0>> :> Ball("deaf", <<64, 0>>)) @@ (<<1, 0>> :> BlkFn)
          @@ (<<2, 0>> :> [NetFn EXCEPT !.qmax = <<256, 8>>])
(* no MSI-X, and a device without a configuration capability                *)
Partial == (<<0, 0>> :> Ball("none", <<64, 64>>))
           @@ (<<1, 0>> :> [RngFn EXCEPT !.caps = {"common", "notify"}])
Lone == <<0, 0>> :> NetFn

FiveMachines == {Full, Multi, Broken, Partial, Lone}
Places == UNION {DOMAIN b : b \in FiveMachines}
=============================================================================
