------------------------------- MODULE MCXhci --------------------------------
(* Xhci for TLC: a disk before a keyboard, a composite device before one, a *)
(* keyboard with a broken descriptor, a controller that wants scratchpad    *)
(* buffers, and one without a BAR.  The keyboard is the last device that is *)
(* enumerated.                                                              *)
EXTENDS Xhci, TLC

Ctrl == <<1, 1>> :> [class |-> "xhci", multi |-> FALSE, bar |-> 1]
Machine(b, on, s, c) == [bus |-> b, on |-> on, scratch |-> s, cfgs |-> c]

Keyboard == <<"keyboard", "int_in">>
Disk == <<"storage", "bulk_in", "bulk_out">>

FiveMachines ==
    { Machine(Ctrl, TRUE, FALSE, <<Disk, Keyboard>>),
      Machine(Ctrl, FALSE, FALSE, <<<<"hub", "keyboard", "int_in">>, None, Keyboard>>),
      Machine(Ctrl, FALSE, FALSE, <<<<"keyboard", "bad", "int_in">>>>),
      Machine(Ctrl, FALSE, TRUE, <<Keyboard>>),
      Machine(<<1, 1>> :> [class |-> "xhci", multi |-> FALSE, bar |-> 0], FALSE, FALSE, <<Keyboard>>) }
=============================================================================
