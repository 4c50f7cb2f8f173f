----------------------------- MODULE MCKeyboard ----------------------------
(* Small instances of Keyboard: four strokes, a drain budget of two.        *)
EXTENDS Keyboard
=============================================================================
