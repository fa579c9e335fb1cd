------------------------------ MODULE EventRing ------------------------------
(***************************************************************************)
(* The ring the xHC produces and the driver consumes: EventRing over       *)
(* TrbRing (xhci.rs).  There is no Link: both sides wrap after the last    *)
(* TRB and toggle their cycle state.  The xHC learns from the ERDP         *)
(* register which TRBs it may write again; EventRing::pop writes there the *)
(* address of the TRB it has just read, not of the next one.               *)
(***************************************************************************)
EXTENDS Integers, Sequences

CONSTANTS
  NUM_TRB,   \* TrbRing::NUM_TRB
  Bodies     \* contents of the events

\* With two TRBs the xHC would wait for ever for the one ERDP points to.
ASSUME RingAssumption == NUM_TRB \in Nat /\ NUM_TRB >= 3 /\ Bodies # {}

Zero == "zero"
ASSUME BodyAssumption == Zero \notin Bodies

Slots == 0..(NUM_TRB - 1)

VARIABLES
  trb,                \* TrbRing::trb
  current_index,      \* TrbRing::current_index
  cycle_state_ours,   \* EventRing::cycle_state_ours
  erdp,               \* the slot the ERDP register points to
  pc,                 \* where pop is
  e, eptr,            \* pop's copy of the TRB, and its slot
  err,                \* pop returned Err
  out,                \* the event pop returned last
  hw_index, hw_pcs    \* the xHC's enqueue pointer and producer cycle state

driver == <<current_index, cycle_state_ours, erdp, pc, e, eptr, err, out>>
hw == <<hw_index, hw_pcs>>
vars == <<trb, driver, hw>>

\* EventRing::new() and init_irs().
Init ==
  /\ trb = [i \in Slots |-> [body |-> Zero, cycle |-> FALSE]]
  /\ current_index = 0
  /\ cycle_state_ours = TRUE
  /\ erdp = 0
  /\ pc = "idle" /\ eptr = 0
  /\ e \in Bodies /\ out \in Bodies
  /\ err = FALSE
  /\ hw_index = 0 /\ hw_pcs = TRUE

-----------------------------------------------------------------------------
(* The xHC: an event is posted unless the enqueue pointer would reach the  *)
(* TRB that ERDP points to.                                                *)
HwPost(body) ==
  /\ (hw_index + 1) % NUM_TRB # erdp
  /\ trb' = [trb EXCEPT ![hw_index] = [body |-> body, cycle |-> hw_pcs]]
  /\ hw_index' = (hw_index + 1) % NUM_TRB
  /\ hw_pcs' = IF hw_index = NUM_TRB - 1 THEN ~hw_pcs ELSE hw_pcs
  /\ UNCHANGED driver

-----------------------------------------------------------------------------
(* EventRing::pop.                                                         *)
has_next_event == trb[current_index].cycle = cycle_state_ours

\* pop returns None when there is no event; otherwise it copies the TRB.
PopRead ==
  /\ pc = "idle" /\ ~err
  /\ has_next_event
  /\ e' = trb[current_index].body
  /\ eptr' = current_index
  /\ pc' = "advance"
  /\ UNCHANGED <<trb, current_index, cycle_state_ours, erdp, err, out, hw>>

\* advance_index_notoggle checks the cycle bit again.
PopAdvance ==
  /\ pc = "advance"
  /\ IF has_next_event
     THEN /\ current_index' = (current_index + 1) % NUM_TRB
          /\ pc' = "erdp"
          /\ UNCHANGED err
     ELSE pc' = "idle" /\ err' = TRUE /\ UNCHANGED current_index
  /\ UNCHANGED <<trb, cycle_state_ours, erdp, e, eptr, out, hw>>

\* Mutant: the cycle state is not toggled on a wrap.
PopFinishNoToggle ==
  /\ pc = "erdp"
  /\ erdp' = eptr
  /\ out' = e
  /\ pc' = "idle"
  /\ UNCHANGED <<trb, current_index, cycle_state_ours, e, eptr, err, hw>>

\* write_volatile(erdp, eptr | ..), toggle on a wrap, Ok(Some(e)).
PopFinish ==
  /\ pc = "erdp"
  /\ erdp' = eptr
  /\ cycle_state_ours' = IF current_index = 0 THEN ~cycle_state_ours ELSE cycle_state_ours
  /\ out' = e
  /\ pc' = "idle"
  /\ UNCHANGED <<trb, current_index, e, eptr, err, hw>>

Pop == PopRead \/ PopAdvance \/ PopFinish

Next == Pop \/ \E body \in Bodies : HwPost(body)

\* The task that polls the event ring is polled again and again.
Spec == Init /\ [][Next]_vars /\ WF_vars(Pop)

-----------------------------------------------------------------------------
(* Properties.                                                             *)

\* The events posted and not returned, from the one pop is busy with.
Oldest == IF pc = "erdp" THEN eptr ELSE current_index
Posted(k) ==
  trb[(Oldest + k) % NUM_TRB].cycle =
    (IF Oldest + k >= NUM_TRB THEN ~cycle_state_ours ELSE cycle_state_ours)
Events ==
  LET n == CHOOSE m \in 0..NUM_TRB :
             /\ \A k \in 0..(m - 1) : Posted(k)
             /\ m < NUM_TRB => ~Posted(m)
  IN  [k \in 1..n |-> trb[(Oldest + k - 1) % NUM_TRB].body]

Queue == INSTANCE TrbQueue WITH queue <- Events, Capacity <- NUM_TRB - 1

\* The ring is a FIFO queue: over any number of laps, whatever the xHC posts
\* between two steps of pop, every event is returned exactly once, in order
\* and in the end; none is overwritten before it is read, although ERDP runs
\* one TRB behind.
IsQueue == Queue!Spec
=============================================================================
