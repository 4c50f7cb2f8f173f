------------------------------- MODULE MCNvme --------------------------------
(* Nvme for TLC: a machine with an NVMe function behind others, one with    *)
(* none, and one whose first NVMe function has no BAR.                      *)
EXTENDS Nvme, TLC

Fn(c, m, b) == [class |-> c, multi |-> m, bar |-> b]

ThreeBuses ==
    { (<<0, 0>> :> Fn("bridge", FALSE, 0)) @@ (<<1, 0>> :> Fn("other", TRUE, 1)) @@ (<<1, 2>> :> Fn("nvme", FALSE, 2)),
      (<<0, 0>> :> Fn("bridge", FALSE, 0)),
      (<<0, 0>> :> Fn("nvme", FALSE, 0)) @@ (<<1, 0>> :> Fn("nvme", FALSE, 3)) }

FiveFrames == <<1, 2, 3, 4, 5>>
=============================================================================
