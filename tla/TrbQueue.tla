------------------------------ MODULE TrbQueue ------------------------------
(***************************************************************************)
(* What a ring of TRBs promises the two sides that share it, the driver    *)
(* and the xHC: a bounded first-in first-out queue.  Every TRB pushed is   *)
(* delivered once, whole, in order, and in the end.                        *)
(***************************************************************************)
EXTENDS Naturals, Sequences

CONSTANTS
  Bodies,    \* contents of a TRB
  Capacity   \* TRBs the ring can hold

VARIABLES
  queue,     \* pushed and not yet delivered
  out        \* the TRB delivered last

vars == <<queue, out>>

Init == queue = << >> /\ out \in Bodies

Push(body) ==
  /\ Len(queue) < Capacity
  /\ queue' = Append(queue, body)
  /\ UNCHANGED out

Pop ==
  /\ queue # << >>
  /\ out' = Head(queue)
  /\ queue' = Tail(queue)

Next == Pop \/ \E body \in Bodies : Push(body)

Spec == Init /\ [][Next]_vars /\ WF_vars(Pop)
=============================================================================
