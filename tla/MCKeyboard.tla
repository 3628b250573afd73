---------------------------- MODULE MCKeyboard ----------------------------
EXTENDS Keyboard

(* A parameter may look like a length, or be none; a message may eat two.   *)
MCFrames == {<<1>>, <<1, 1, 1, 0, 2>>}
=============================================================================
