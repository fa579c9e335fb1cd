--------------------------- MODULE MCCommandRing ---------------------------
(* A ring of five TRBs: every lap is short. *)
EXTENDS CommandRing
MCBodies == {"a", "b"}
=============================================================================
