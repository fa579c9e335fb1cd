----------------------------- MODULE CommandRing -----------------------------
(***************************************************************************)
(* The rings the driver produces and the xHC consumes: CommandRing over    *)
(* TrbRing (xhci.rs), used for commands and for the control endpoint.      *)
(*                                                                         *)
(* The ring is shared memory and the xHC reads it at any time after a      *)
(* doorbell, so the steps of CommandRing::push that the xHC can tell apart *)
(* are steps here: the two halves of the 16 byte write_volatile, the flip  *)
(* of the cycle bit, and the flip of the Link TRB's.  A request pushes     *)
(* its TRBs (one for send_command, two or three for the request_*          *)
(* functions), rings the doorbell, and waits.                              *)
(***************************************************************************)
EXTENDS Integers, Sequences

CONSTANTS
  NUM_TRB,         \* TrbRing::NUM_TRB; the last TRB is the Link
  Bodies,          \* contents of the TRBs requests push
  MaxBatch,        \* TRBs of one request
  MaxOutstanding   \* TRBs not yet taken that the requests of the driver leave
                   \* on the ring at a time

ASSUME RingAssumption ==
  /\ NUM_TRB \in Nat /\ NUM_TRB >= 2
  /\ MaxBatch \in Nat \ {0}
  /\ MaxOutstanding \in Nat \ {0}
  /\ Bodies # {}

(* The driver has at most four TRBs of a ring of sixteen outstanding       *)
(* (FewOutstanding of Xhci): one TRB stays free besides the Link.          *)
ASSUME OutstandingAssumption == MaxOutstanding <= NUM_TRB - 2

Link == "link"   \* TrbType::Link
Torn == "torn"   \* a TRB of which only one half is written
Zero == "zero"   \* IoBox::new() zeroes the ring
ASSUME BodyAssumption == {Link, Torn, Zero} \cap Bodies = {}

Slots == 0..(NUM_TRB - 1)
LinkSlot == NUM_TRB - 1

VARIABLES
  trb,                \* TrbRing::trb, each with its cycle bit
  current_index,      \* TrbRing::current_index
  cycle_state_ours,   \* CommandRing::cycle_state_ours
  pc,                 \* where the driver is in a request
  left,               \* TRBs the request has still to push
  src,                \* the TRB being pushed
  err,                \* a push returned Err
  rung,               \* the doorbell was rung and the xHC runs the ring
  hw_index, hw_ccs,   \* the xHC's dequeue pointer and consumer cycle state
  out,                \* the TRB the xHC took last
  outstanding         \* TRBs published and not taken

driver == <<current_index, cycle_state_ours, pc, left, src, err>>
hw == <<hw_index, hw_ccs, out>>
vars == <<trb, driver, rung, hw, outstanding>>

(* CommandRing::default(), and the address and cycle state given to the    *)
(* xHC: set_cmd_ring_ctrl sets CCS, new_control_endpoint sets DCS.         *)
Init ==
  /\ trb = [i \in Slots |-> [body |-> IF i = LinkSlot THEN Link ELSE Zero, cycle |-> FALSE]]
  /\ current_index = 0
  /\ cycle_state_ours = FALSE
  /\ pc = "idle" /\ left = 0
  /\ src \in Bodies
  /\ err = FALSE
  /\ rung = FALSE
  /\ hw_index = 0 /\ hw_ccs = TRUE
  /\ out \in Bodies
  /\ outstanding = 0

-----------------------------------------------------------------------------
(* The driver.                                                             *)

\* A request of n TRBs starts; the driver awaits one before the next.
StartRequest(n) ==
  /\ pc = "idle" /\ ~err
  /\ outstanding + n <= MaxOutstanding
  /\ pc' = "push" /\ left' = n
  /\ UNCHANGED <<trb, current_index, cycle_state_ours, src, err, rung, hw, outstanding>>

\* `?` on an Err: the request returns without ringing the doorbell.
Fail == pc' = "idle" /\ err' = TRUE

\* Mutant: the TRB is written with the cycle bit it shall end up with.
PushCheckPublishes(body) ==
  /\ pc = "push"
  /\ src' = body
  /\ trb' = [trb EXCEPT ![current_index].cycle = ~cycle_state_ours]
  /\ pc' = "write"
  /\ UNCHANGED <<current_index, cycle_state_ours, left, err, rung, hw, outstanding>>

\* push: the "Command Ring is Full" check.
PushCheck(body) ==
  /\ pc = "push"
  /\ src' = body
  /\ IF trb[current_index].cycle # cycle_state_ours
     THEN Fail
     ELSE pc' = "write" /\ UNCHANGED err
  /\ UNCHANGED <<trb, current_index, cycle_state_ours, left, rung, hw, outstanding>>

(* ring.write_current(src): write_volatile of a 16 byte struct is not one  *)
(* store.  src carries the cycle bit that is in the slot already.          *)
WriteFirstHalf ==
  /\ pc = "write"
  /\ trb' = [trb EXCEPT ![current_index] = [body |-> Torn, cycle |-> cycle_state_ours]]
  /\ pc' = "write2"
  /\ UNCHANGED <<current_index, cycle_state_ours, left, src, err, rung, hw, outstanding>>

WriteSecondHalf ==
  /\ pc = "write2"
  /\ trb' = [trb EXCEPT ![current_index].body = src]
  /\ pc' = "advance"
  /\ UNCHANGED <<current_index, cycle_state_ours, left, src, err, rung, hw, outstanding>>

\* TrbRing::advance_index(new_cycle) where it does not return Err.
CanAdvance(new_cycle) == trb[current_index].cycle # new_cycle

advance_index(new_cycle) ==
  /\ trb' = [trb EXCEPT ![current_index].cycle = new_cycle]
  /\ current_index' = (current_index + 1) % NUM_TRB

\* The next TRB of the request, or the doorbell after the last.
AfterPush ==
  /\ left' = left - 1
  /\ pc' = IF left = 1 THEN "notify" ELSE "push"

\* The flip of the cycle bit hands the TRB to the xHC.
Publish ==
  /\ pc = "advance"
  /\ IF CanAdvance(~cycle_state_ours)
     THEN /\ advance_index(~cycle_state_ours)
          /\ outstanding' = outstanding + 1
          /\ UNCHANGED err
          /\ IF trb'[current_index'].body = Link
             THEN pc' = "link" /\ UNCHANGED left
             ELSE AfterPush
     ELSE Fail /\ UNCHANGED <<trb, current_index, outstanding, left>>
  /\ UNCHANGED <<cycle_state_ours, src, rung, hw>>

\* Mutant: the Link is skipped and the cycle not toggled.
SkipLinkNoToggle ==
  /\ pc = "link"
  /\ IF CanAdvance(~cycle_state_ours)
     THEN /\ advance_index(~cycle_state_ours)
          /\ AfterPush
          /\ UNCHANGED <<cycle_state_ours, err>>
     ELSE Fail /\ UNCHANGED <<trb, current_index, cycle_state_ours, left>>
  /\ UNCHANGED <<src, rung, hw, outstanding>>

\* "Reached to Link TRB. Let's skip it and toggle the cycle."
SkipLink ==
  /\ pc = "link"
  /\ IF CanAdvance(~cycle_state_ours)
     THEN /\ advance_index(~cycle_state_ours)
          /\ cycle_state_ours' = ~cycle_state_ours
          /\ AfterPush
          /\ UNCHANGED err
     ELSE Fail /\ UNCHANGED <<trb, current_index, cycle_state_ours, left>>
  /\ UNCHANGED <<src, rung, hw, outstanding>>

\* notify_xhc, notify_ep; then the request waits for its event.
Notify ==
  /\ pc = "notify"
  /\ rung' = TRUE
  /\ pc' = "idle"
  /\ UNCHANGED <<trb, current_index, cycle_state_ours, left, src, err, hw, outstanding>>

-----------------------------------------------------------------------------
(* The xHC.  It takes the TRBs whose cycle bit is its own, follows a Link  *)
(* with the toggle cycle flag, and stops where the bit differs until the   *)
(* next doorbell.                                                          *)
HwOwns == trb[hw_index].cycle = hw_ccs

HwTake ==
  /\ rung /\ HwOwns
  /\ trb[hw_index].body # Link
  /\ out' = trb[hw_index].body
  /\ hw_index' = hw_index + 1
  /\ outstanding' = outstanding - 1
  /\ UNCHANGED <<trb, driver, rung, hw_ccs>>

HwFollowLink ==
  /\ rung /\ HwOwns
  /\ trb[hw_index].body = Link
  /\ hw_index' = 0
  /\ hw_ccs' = ~hw_ccs
  /\ UNCHANGED <<trb, driver, rung, out, outstanding>>

HwStop ==
  /\ rung /\ ~HwOwns
  /\ rung' = FALSE
  /\ UNCHANGED <<trb, driver, hw, outstanding>>

-----------------------------------------------------------------------------
DriverStep ==
  \/ \E body \in Bodies : PushCheck(body)
  \/ WriteFirstHalf \/ WriteSecondHalf
  \/ Publish \/ SkipLink \/ Notify

HwStep == HwTake \/ HwFollowLink \/ HwStop

Next ==
  \/ \E n \in 1..MaxBatch : StartRequest(n)
  \/ DriverStep
  \/ HwStep

\* A request runs without an await from its first push to the doorbell, and
\* the xHC runs a ring whose doorbell was rung.
Spec == Init /\ [][Next]_vars /\ WF_vars(DriverStep) /\ WF_vars(HwStep)

-----------------------------------------------------------------------------
(* Properties.                                                             *)

Usable == NUM_TRB - 1

(* The TRBs the xHC would take if the driver stopped now: those in front   *)
(* of its dequeue pointer, over the Link, until a cycle bit says stop.     *)
Handed(k) ==
  LET wraps == hw_index + k >= Usable
      at    == trb[(hw_index + k) % Usable]
  IN  /\ wraps => trb[LinkSlot].cycle = hw_ccs
      /\ at.cycle = (IF wraps THEN ~hw_ccs ELSE hw_ccs)

HandedOver ==
  LET n == CHOOSE m \in 0..Usable :
             /\ \A k \in 0..(m - 1) : Handed(k)
             /\ m < Usable => ~Handed(m)
  IN  [k \in 1..n |-> trb[(hw_index + k - 1) % Usable].body]

Queue == INSTANCE TrbQueue WITH queue <- HandedOver, Capacity <- Usable

\* The ring is a FIFO queue: through every lap and every interleaving of the
\* two halves of a write, the cycle bit flips, the Link and the doorbell with
\* the xHC's reads, each TRB pushed is taken exactly once, whole, in order,
\* and in the end.
IsQueue == Queue!Spec

\* push and advance_index never return Err ("Command Ring is Full", "cycle
\* state does not change"), so no request is abandoned half pushed.
NoPushFails == ~err
=============================================================================
