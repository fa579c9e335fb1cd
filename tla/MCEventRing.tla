---------------------------- MODULE MCEventRing ----------------------------
(* A ring of four TRBs: the xHC laps it while pop is between two steps.    *)
EXTENDS EventRing
MCBodies == {"a", "b"}
=============================================================================
