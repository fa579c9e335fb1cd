---------------------------- MODULE MCInterrupts ----------------------------
(***************************************************************************)
(* A test pattern of 4 by 8 pixels with characters of 2 by 3, on screens   *)
(* with and without padding, and on two that are too small for it; a line  *)
(* is wider than the screen.                                               *)
(***************************************************************************)
EXTENDS Interrupts

Screen(w, h, l) == [width |-> w, height |-> h, pixels_per_line |-> l]
MCScreens == { Screen(7, 14, 7), Screen(9, 11, 12), Screen(4, 14, 7), Screen(9, 7, 9) }
=============================================================================
