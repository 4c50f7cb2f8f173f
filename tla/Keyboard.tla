----------------------------- MODULE Keyboard ------------------------------
(***************************************************************************)
(* From a key stroke to a decoded byte: the i8042 with its one-byte output *)
(* buffer, the edge-triggered route through the IOAPIC, kbd::init_irq and  *)
(* kbd::init in the order main.rs calls them, keyboard_handler and its     *)
(* scancode decoder.                                                       *)
(*                                                                         *)
(* Scancodes are kept by class: the prefixes E0 and E1, press and release  *)
(* of the two shift keys, "key" (a press the tables map to a character),   *)
(* "other" (a press they map to 0) and "rel" (any other release).  A       *)
(* character is the column of the table it comes from.                     *)
(***************************************************************************)
EXTENDS Integers, Sequences

CONSTANTS DrainBudget,  \* INIT_DRAIN_BUDGET
          MaxStrokes    \* bound: how many key strokes the user makes

ASSUME BoundsAssumption == DrainBudget \in Nat /\ MaxStrokes \in Nat

Scancodes == {"E0", "E1", "LSP", "LSR", "RSP", "RSR", "key", "other", "rel"}

VARIABLES
    wire,      \* scancodes the keyboard has sent and the i8042 holds back
    obf, data, \* STATUS_OBF and the byte port 0x60 reads as
    masked,    \* the keyboard's redirection entry is masked
    irr,       \* vector 0x21 is pending in the LAPIC
    stage,     \* how far main has come: "early", "routed", "drained", "up"
    drained,   \* the count in kbd::init
    decoder,   \* IN_E0_SEQUENCE, IN_E1_SEQUENCE_REMAINING, LSHIFT_DOWN, RSHIFT_DOWN
    out,       \* the bytes given to ring_push, in order
    held,      \* the shift keys the user holds down
    typed,     \* history: the characters the user typed, in order
    ahead,     \* history: a stroke was made before the kernel was up
    strokes    \* bound: strokes made so far

keyboardVars ==
    <<wire, obf, data, masked, irr, stage, drained, decoder, out, held, typed, ahead, strokes>>
deviceVars == <<wire, obf, data, irr>>
userVars == <<held, typed, ahead, strokes>>

KeyboardInit ==
    /\ wire = <<>>
    /\ obf = FALSE
    /\ data = "rel"
    /\ masked = TRUE
    /\ irr = FALSE
    /\ stage = "early"
    /\ drained = 0
    /\ decoder = [e0 |-> FALSE, e1 |-> 0, l |-> FALSE, r |-> FALSE]
    /\ out = <<>>
    /\ held = {}
    /\ typed = <<>>
    /\ ahead = FALSE
    /\ strokes = 0

-----------------------------------------------------------------------------
(* The keyboard, scancode set 1.  An arrow or keypad key is sent with E0,   *)
(* wrapped in fake shift codes while a shift key is down; Pause is six      *)
(* bytes and has no release.                                                *)
Extended(sh) == IF sh = {} THEN <<"E0", "key", "E0", "rel">>
                ELSE <<"E0", "LSR", "E0", "key", "E0", "rel", "E0", "LSP">>
Pause == <<"E1", "other", "other", "E1", "rel", "rel">>

Char(shifted) == IF shifted THEN "upper" ELSE "lower"

Stroke(codes, sh, text) ==
    /\ strokes < MaxStrokes
    /\ ahead' = (ahead \/ stage # "up")
    /\ strokes' = strokes + 1
    /\ wire' = wire \o codes
    /\ held' = sh
    /\ typed' = typed \o text
    /\ UNCHANGED <<obf, data, masked, irr, stage, drained, decoder, out>>

UserTypes ==
    \/ Stroke(<<"key", "rel">>, held, <<Char(held # {})>>)
    \/ Stroke(<<"other", "rel">>, held, <<>>)
    \/ Stroke(Extended(held), held, <<>>)
    \/ Stroke(Pause, held, <<>>)
    \/ "L" \notin held /\ Stroke(<<"LSP">>, held \cup {"L"}, <<>>)
    \/ "L" \in held /\ Stroke(<<"LSR">>, held \ {"L"}, <<>>)
    \/ "R" \notin held /\ Stroke(<<"RSP">>, held \cup {"R"}, <<>>)
    \/ "R" \in held /\ Stroke(<<"RSR">>, held \ {"R"}, <<>>)

(* The controller puts the next byte into its empty output buffer and       *)
(* raises IRQ1; the edge is lost while the redirection entry is masked.     *)
LoadByte ==
    /\ ~obf
    /\ wire # <<>>
    /\ obf' = TRUE
    /\ data' = Head(wire)
    /\ wire' = Tail(wire)
    /\ irr' = (irr \/ ~masked)
    /\ UNCHANGED <<masked, stage, drained, decoder, out, userVars>>

-----------------------------------------------------------------------------
(* kbd::init_irq: program the route to vector 0x21.                         *)
InitIrq ==
    /\ stage = "early"
    /\ masked' = FALSE
    /\ stage' = "routed"
    /\ UNCHANGED <<deviceVars, drained, decoder, out, userVars>>

(* One round of kbd::init's loop: read and discard a byte.                  *)
Drain ==
    /\ stage = "routed"
    /\ drained < DrainBudget
    /\ obf
    /\ obf' = FALSE
    /\ drained' = drained + 1
    /\ UNCHANGED <<wire, data, irr, masked, stage, decoder, out, userVars>>

DrainEnds ==
    /\ stage = "routed"
    /\ ~obf \/ drained = DrainBudget
    /\ stage' = "drained"
    /\ UNCHANGED <<deviceVars, masked, drained, decoder, out, userVars>>

(* The rest of the boot, up to the first moment IF = 1.                     *)
Up ==
    /\ stage = "drained"
    /\ stage' = "up"
    /\ UNCHANGED <<deviceVars, masked, drained, decoder, out, userVars>>

(* Mutant of Boot: the order the comment on kbd::init describes, init       *)
(* first and init_irq after it.                                             *)
BootDrainsFirst ==
    \/ /\ stage = "early"
       /\ \/ obf /\ drained < DrainBudget /\ obf' = FALSE /\ drained' = drained + 1
             /\ UNCHANGED stage
          \/ (~obf \/ drained = DrainBudget) /\ stage' = "routed" /\ UNCHANGED <<obf, drained>>
       /\ UNCHANGED <<wire, data, irr, masked, decoder, out, userVars>>
    \/ /\ stage = "routed"
       /\ masked' = FALSE
       /\ stage' = "drained"
       /\ UNCHANGED <<deviceVars, drained, decoder, out, userVars>>
    \/ Up

Boot == InitIrq \/ Drain \/ DrainEnds \/ Up

-----------------------------------------------------------------------------
(* Mutant of Decode: shift codes are matched before absorption.             *)
DecodeShiftFirst(d, sc) ==
    CASE sc = "LSP" -> [d EXCEPT !.l = TRUE]
      [] sc = "LSR" -> [d EXCEPT !.l = FALSE]
      [] sc = "RSP" -> [d EXCEPT !.r = TRUE]
      [] sc = "RSR" -> [d EXCEPT !.r = FALSE]
      [] sc = "E0" /\ ~d.e0 -> [d EXCEPT !.e0 = TRUE]
      [] sc = "E1" -> [d EXCEPT !.e1 = 2]
      [] sc \in {"key", "other", "rel"} /\ d.e1 > 0 -> [d EXCEPT !.e1 = @ - 1]
      [] sc \in {"key", "other", "rel"} /\ d.e0 -> [d EXCEPT !.e0 = FALSE]
      [] OTHER -> d

(* decode_scancode's effect on the decoder: absorption of the bytes after   *)
(* a prefix comes before any other reading of the byte.                     *)
Decode(d, sc) ==
    CASE d.e1 > 0 -> [d EXCEPT !.e1 = @ - 1]
      [] d.e1 = 0 /\ d.e0 -> [d EXCEPT !.e0 = FALSE]
      [] d.e1 = 0 /\ ~d.e0 /\ sc = "E0" -> [d EXCEPT !.e0 = TRUE]
      [] d.e1 = 0 /\ ~d.e0 /\ sc = "E1" -> [d EXCEPT !.e1 = 2]
      [] d.e1 = 0 /\ ~d.e0 /\ sc = "LSP" -> [d EXCEPT !.l = TRUE]
      [] d.e1 = 0 /\ ~d.e0 /\ sc = "LSR" -> [d EXCEPT !.l = FALSE]
      [] d.e1 = 0 /\ ~d.e0 /\ sc = "RSP" -> [d EXCEPT !.r = TRUE]
      [] d.e1 = 0 /\ ~d.e0 /\ sc = "RSR" -> [d EXCEPT !.r = FALSE]
      [] OTHER -> d

(* decode_scancode's result: a byte for a mapped press outside a sequence.  *)
Decoded(d, sc) ==
    IF d.e1 = 0 /\ ~d.e0 /\ sc = "key" THEN <<Char(d.l \/ d.r)>> ELSE <<>>

(* keyboard_handler: one read of port 0x60, which empties the buffer, the   *)
(* decoder, ring_push and EOI.                                              *)
KeyboardHandler ==
    /\ stage = "up"
    /\ irr
    /\ irr' = FALSE
    /\ obf' = FALSE
    /\ decoder' = Decode(decoder, data)
    /\ out' = out \o Decoded(decoder, data)
    /\ UNCHANGED <<wire, data, masked, stage, drained, userVars>>

KeyboardNext == UserTypes \/ LoadByte \/ Boot \/ KeyboardHandler

KeyboardSpec == KeyboardInit /\ [][KeyboardNext]_keyboardVars

(* The controller and the boot go on, and a pending interrupt is taken.     *)
KeyboardFairSpec ==
    /\ KeyboardSpec
    /\ WF_keyboardVars(LoadByte) /\ WF_keyboardVars(Boot) /\ WF_keyboardVars(KeyboardHandler)

-----------------------------------------------------------------------------
Quiet == wire = <<>> /\ ~obf /\ ~irr

(* decode_scancode hands the shell exactly the characters that were typed,  *)
(* in order and in the right case, nothing from extended keys or Pause, and *)
(* once every byte has been handled LSHIFT_DOWN and RSHIFT_DOWN are the     *)
(* shift keys the user holds and no prefix is left over, whatever fake      *)
(* shifts came in between.  kbd::init may cut a sequence typed before the   *)
(* kernel is up.                                                            *)
TextIsWhatWasTyped ==
    ~ahead => /\ Len(out) <= Len(typed)
              /\ out = SubSeq(typed, 1, Len(out))
              /\ Quiet => /\ out = typed
                          /\ decoder = [e0 |-> FALSE, e1 |-> 0,
                                        l |-> "L" \in held, r |-> "R" \in held]

(* The keyboard never wedges: a byte left in the output buffer holds back   *)
(* all later ones and their interrupts, so each one must be read in the     *)
(* end, also when keys are pressed while the kernel boots.                  *)
NeverWedged == (obf \/ wire # <<>>) ~> Quiet
=============================================================================
