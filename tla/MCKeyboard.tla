----------------------------- MODULE MCKeyboard -----------------------------
(* Small keyboards for TLC: a, 1, an arrow and the modifiers. *)
EXTENDS Keyboard
MCKeys == {shift_l_make, ctrl_r_make, alt_l_make, caps_lock_make, \h1e, \h02, \he048}
MCRepeats == {shift_l_make, \h1e}
=============================================================================
