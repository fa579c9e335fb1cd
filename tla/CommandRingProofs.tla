------------------------- MODULE CommandRingProofs -------------------------
(***************************************************************************)
(* CommandRing::push never fails, and the ring is a FIFO queue of whole    *)
(* TRBs as long as the requests leave one TRB free, for a ring of any size *)
(* and requests of any length.                                             *)
(***************************************************************************)
EXTENDS CommandRing, SequenceTheorems, TLAPS

AnyBody == Bodies \cup {Link, Torn, Zero}
TrbType == [body : AnyBody, cycle : BOOLEAN]
Pushing == {"push", "write", "write2", "advance", "link"}

TypeOK ==
  /\ trb \in [Slots -> TrbType]
  /\ current_index \in Slots /\ hw_index \in Slots
  /\ cycle_state_ours \in BOOLEAN /\ hw_ccs \in BOOLEAN /\ err \in BOOLEAN
  /\ pc \in Pushing \cup {"idle", "notify"}
  /\ left \in Int /\ outstanding \in Int
  /\ src \in Bodies /\ out \in AnyBody

\* The Link stays where CommandRing::default() put it, and nowhere else.
LinkPlace == \A s \in Slots : (trb[s].body = Link) <=> (s = LinkSlot)

\* The slots published in this lap differ from the driver's cycle state; only
\* the driver writes them.
CycleBits == \A s \in Slots : (trb[s].cycle # cycle_state_ours) <=> (s < current_index)

\* push does not return before it has skipped the Link.
AtLink == (current_index = LinkSlot) <=> (pc = "link")

\* What makes push succeed, whatever the xHC does.
ProducerInv == TypeOK /\ ~err /\ LinkPlace /\ CycleBits /\ AtLink

\* The TRB of a request that push is busy with is whole when it is published.
RequestState ==
  /\ IF pc \in Pushing THEN left >= 1 ELSE left = 0
  /\ pc = "advance" => trb[current_index].body = src

\* What the request adds to the ring stays within the driver's limit.
WithinLimit == outstanding + (IF pc = "link" THEN left - 1 ELSE left) <= MaxOutstanding

\* The xHC is in the driver's lap or in the one before; the TRBs outstanding
\* are those between the two indices.
Laps ==
  \/ /\ hw_ccs # cycle_state_ours
     /\ hw_index <= current_index
     /\ outstanding = current_index - hw_index
  \/ /\ hw_ccs = cycle_state_ours
     /\ outstanding = LinkSlot - hw_index + current_index

\* The inductive invariant.
IInv == ProducerInv /\ RequestState /\ WithinLimit /\ Laps

\* The TRBs handed over, counted by the driver.
Wrap(i) == IF i < Usable THEN i ELSE i - Usable
Contents == [k \in 1..outstanding |-> trb[Wrap(hw_index + k - 1)].body]

-----------------------------------------------------------------------------
(* push never fails.                                                       *)

\* Slots are numbered from 0, the Link is the last.
LEMMA SlotFacts ==
  /\ NUM_TRB \in Nat /\ NUM_TRB >= 2
  /\ \A s : s \in Slots <=> s \in Int /\ 0 <= s /\ s <= NUM_TRB - 1
  /\ LinkSlot = NUM_TRB - 1 /\ LinkSlot \in Slots /\ 0 \in Slots
  BY RingAssumption DEF Slots, LinkSlot

\* The kinds of TRB contents are distinct.
LEMMA BodiesDiffer ==
  /\ Link # Torn /\ Link # Zero /\ Torn # Zero
  /\ \A b \in Bodies : b # Link /\ b # Torn /\ b # Zero
  BY BodyAssumption DEF Link, Torn, Zero

\* The index moves to the next slot and, after the Link, to the first.
LEMMA IncIndex ==
  ASSUME NEW i \in Slots
  PROVE  (i + 1) % NUM_TRB = IF i = LinkSlot THEN 0 ELSE i + 1
<1>1. NUM_TRB \in Nat /\ NUM_TRB >= 2 /\ i \in Nat /\ i <= NUM_TRB - 1 /\ LinkSlot = NUM_TRB - 1
  BY SlotFacts
<1>2. CASE i = NUM_TRB - 1
  <2>1. i + 1 = NUM_TRB
    BY <1>1, <1>2
  <2>2. NUM_TRB % NUM_TRB = 0
    BY <1>1, Z3T(30)
  <2> QED
    BY <1>1, <1>2, <2>1, <2>2
<1>3. CASE i < NUM_TRB - 1
  <2>1. (i + 1) % NUM_TRB = i + 1
    BY <1>1, <1>3, Z3T(30)
  <2> QED
    BY <1>1, <1>3, <2>1
<1> QED
  BY <1>1, <1>2, <1>3

\* Two cycle bits that differ from a third are equal.
LEMMA CycleBitIsBoolean ==
  ASSUME NEW a \in BOOLEAN, NEW b \in BOOLEAN
  PROVE  /\ (~a) \in BOOLEAN /\ ~a # a
         /\ (b = ~a) <=> (b # a)
         /\ \A c \in BOOLEAN : a # b /\ c # b => a = c
  OBVIOUS

\* The slot of the driver carries its cycle state: the check for a full ring
\* and the check of advance_index both pass.
LEMMA ChecksPass ==
  ASSUME ProducerInv
  PROVE  trb[current_index].cycle = cycle_state_ours /\ CanAdvance(~cycle_state_ours)
<1>1. trb[current_index].cycle = cycle_state_ours
  BY SlotFacts DEF ProducerInv, TypeOK, CycleBits
<1> QED
  BY <1>1, CycleBitIsBoolean DEF ProducerInv, TypeOK, CanAdvance

\* A new ring.
LEMMA InitProducer == Init => ProducerInv
<1> SUFFICES ASSUME Init PROVE ProducerInv
  OBVIOUS
<1>1. \A s \in Slots : trb[s].body = (IF s = LinkSlot THEN Link ELSE Zero) /\ trb[s].cycle = FALSE
  BY DEF Init
<1>2. TypeOK /\ ~err
  BY SlotFacts DEF Init, TypeOK, TrbType, AnyBody, Pushing
<1>3. LinkPlace
  BY <1>1, BodiesDiffer DEF LinkPlace
<1>4. CycleBits
  <2>1. \A s \in Slots : trb[s].cycle = cycle_state_ours
    BY <1>1 DEF Init
  <2>2. \A s \in Slots : ~(s < current_index)
    BY SlotFacts DEF Init
  <2> QED
    BY <2>1, <2>2 DEF CycleBits
<1>5. AtLink
  BY SlotFacts DEF Init, AtLink
<1> QED
  BY <1>2, <1>3, <1>4, <1>5 DEF ProducerInv

\* The steps that write no TRB and leave the driver's index alone.
LEMMA QuietProducer ==
  ASSUME ProducerInv, UNCHANGED <<trb, current_index, cycle_state_ours, err>>,
         pc' \in (Pushing \cup {"idle", "notify"}) \ {"link"}, pc # "link",
         hw_index' \in Slots, hw_ccs' \in BOOLEAN, left' \in Int, outstanding' \in Int,
         src' \in Bodies, out' \in AnyBody
  PROVE  ProducerInv'
  BY DEF ProducerInv, TypeOK, LinkPlace, CycleBits, AtLink

\* The full check of push passes.
LEMMA PushCheckProducer ==
  ASSUME ProducerInv, NEW body \in Bodies, PushCheck(body)
  PROVE  ProducerInv' /\ pc' = "write"
<1>1. pc' = "write" /\ UNCHANGED <<trb, current_index, cycle_state_ours, err>>
  BY ChecksPass DEF PushCheck
<1> QED
  BY <1>1, QuietProducer DEF ProducerInv, TypeOK, PushCheck, hw, Pushing

\* Writing the TRB keeps its cycle bit.
LEMMA WriteProducer ==
  ASSUME ProducerInv, WriteFirstHalf \/ WriteSecondHalf
  PROVE  ProducerInv'
<1>1. /\ current_index \in Slots /\ current_index # LinkSlot
      /\ trb \in [Slots -> TrbType] /\ cycle_state_ours \in BOOLEAN /\ src \in Bodies
  BY DEF ProducerInv, TypeOK, AtLink, WriteFirstHalf, WriteSecondHalf
<1>2. /\ trb' \in [Slots -> TrbType]
      /\ trb'[current_index].body # Link /\ trb'[current_index].cycle = cycle_state_ours
      /\ \A s \in Slots : s # current_index => trb'[s] = trb[s]
  <2>1. CASE WriteFirstHalf
    BY <1>1, <2>1, BodiesDiffer DEF WriteFirstHalf, TrbType, AnyBody
  <2>2. CASE WriteSecondHalf
    <3>1. trb' = [trb EXCEPT ![current_index] = [trb[current_index] EXCEPT !.body = src]]
      BY <2>2 DEF WriteSecondHalf
    <3>2. trb[current_index].cycle = cycle_state_ours
      BY ChecksPass
    <3> QED
      BY <1>1, <3>1, <3>2, BodiesDiffer DEF TrbType, AnyBody
  <2> QED
    BY <2>1, <2>2
<1>3. /\ UNCHANGED <<current_index, cycle_state_ours, left, src, err, rung, hw, outstanding>>
      /\ pc \in {"write", "write2"} /\ pc' \in {"write2", "advance"}
  BY DEF WriteFirstHalf, WriteSecondHalf
<1>4. TypeOK' /\ ~err' /\ AtLink'
  BY <1>2, <1>3 DEF ProducerInv, TypeOK, AtLink, Pushing, hw
<1>5. LinkPlace'
  BY <1>1, <1>2 DEF ProducerInv, LinkPlace
<1>6. CycleBits'
  <2>1. trb[current_index].cycle = cycle_state_ours
    BY ChecksPass
  <2> QED
    BY <1>1, <1>2, <1>3, <2>1 DEF ProducerInv, CycleBits
<1> QED
  BY <1>4, <1>5, <1>6 DEF ProducerInv

\* What the flip of a cycle bit does to the ring.
LEMMA AdvanceIndex ==
  ASSUME ProducerInv, advance_index(~cycle_state_ours)
  PROVE  /\ trb' \in [Slots -> TrbType]
         /\ \A s \in Slots : trb'[s].body = trb[s].body
         /\ trb'[current_index].cycle = ~cycle_state_ours
         /\ \A s \in Slots : s # current_index => trb'[s] = trb[s]
         /\ current_index' = IF current_index = LinkSlot THEN 0 ELSE current_index + 1
         /\ current_index' \in Slots
<1>1. current_index \in Slots /\ trb \in [Slots -> TrbType] /\ (~cycle_state_ours) \in BOOLEAN
  BY DEF ProducerInv, TypeOK
<1>2. trb' = [trb EXCEPT ![current_index] = [trb[current_index] EXCEPT !.cycle = ~cycle_state_ours]]
  BY DEF advance_index
<1>3. /\ trb' \in [Slots -> TrbType]
      /\ \A s \in Slots : trb'[s].body = trb[s].body
      /\ trb'[current_index].cycle = ~cycle_state_ours
      /\ \A s \in Slots : s # current_index => trb'[s] = trb[s]
  BY <1>1, <1>2 DEF TrbType
<1>4. current_index' = IF current_index = LinkSlot THEN 0 ELSE current_index + 1
  BY <1>1, IncIndex DEF advance_index
<1>5. current_index' \in Slots
  BY <1>1, <1>4, SlotFacts
<1> QED
  BY <1>3, <1>4, <1>5

\* Publishing a TRB: the index moves on, to the Link only after the last slot.
LEMMA PublishProducer ==
  ASSUME ProducerInv, Publish
  PROVE  /\ ProducerInv' /\ advance_index(~cycle_state_ours)
         /\ current_index' = current_index + 1
         /\ outstanding' = outstanding + 1
         /\ IF current_index' = LinkSlot THEN pc' = "link" /\ UNCHANGED left ELSE AfterPush
<1>1. /\ advance_index(~cycle_state_ours) /\ outstanding' = outstanding + 1 /\ UNCHANGED err
      /\ IF trb'[current_index'].body = Link THEN pc' = "link" /\ UNCHANGED left ELSE AfterPush
  BY ChecksPass DEF Publish
<1>2. UNCHANGED <<cycle_state_ours, src, rung, hw>> /\ pc = "advance"
  BY DEF Publish
<1>3. current_index \in Slots /\ current_index # LinkSlot /\ left \in Int /\ outstanding \in Int
  BY <1>2 DEF ProducerInv, TypeOK, AtLink
<1>4. current_index' = current_index + 1 /\ current_index' \in Slots
  BY <1>1, <1>3, AdvanceIndex
<1>5. (trb'[current_index'].body = Link) <=> (current_index' = LinkSlot)
  BY <1>1, <1>4, AdvanceIndex DEF ProducerInv, LinkPlace
<1>6. TypeOK' /\ ~err' /\ AtLink'
  <2>1. trb' \in [Slots -> TrbType]
    BY <1>1, AdvanceIndex
  <2>2. left' \in Int /\ pc' \in {"link", "notify", "push"} /\ (pc' = "link" <=> current_index' = LinkSlot)
    BY <1>1, <1>3, <1>5 DEF AfterPush
  <2> QED
    BY <1>1, <1>2, <1>3, <1>4, <2>1, <2>2 DEF ProducerInv, TypeOK, AtLink, Pushing, hw
<1>7. LinkPlace'
  BY <1>1, AdvanceIndex DEF ProducerInv, LinkPlace
<1>8. CycleBits'
  <2> SUFFICES ASSUME NEW s \in Slots
               PROVE  (trb'[s].cycle # cycle_state_ours) <=> (s < current_index + 1)
    BY <1>2, <1>4 DEF CycleBits
  <2>1. CASE s = current_index
    <3>1. trb'[s].cycle # cycle_state_ours
      BY <1>1, <2>1, AdvanceIndex, CycleBitIsBoolean DEF ProducerInv, TypeOK
    <3> QED
      BY <1>3, <2>1, <3>1, SlotFacts
  <2>2. CASE s # current_index
    <3>1. trb'[s] = trb[s]
      BY <1>1, <2>2, AdvanceIndex
    <3> QED
      BY <1>3, <2>2, <3>1, SlotFacts DEF ProducerInv, CycleBits
  <2> QED
    BY <2>1, <2>2
<1> QED
  BY <1>1, <1>4, <1>5, <1>6, <1>7, <1>8 DEF ProducerInv

\* Skipping the Link: every slot is published, and the toggled cycle state
\* says that none is.
LEMMA SkipLinkProducer ==
  ASSUME ProducerInv, SkipLink
  PROVE  /\ ProducerInv' /\ advance_index(~cycle_state_ours)
         /\ current_index = LinkSlot /\ current_index' = 0
         /\ cycle_state_ours' = ~cycle_state_ours
         /\ AfterPush
<1>1. /\ advance_index(~cycle_state_ours) /\ UNCHANGED err
      /\ cycle_state_ours' = ~cycle_state_ours /\ AfterPush
  BY ChecksPass DEF SkipLink
<1>2. UNCHANGED <<src, rung, hw, outstanding>> /\ pc = "link"
  BY DEF SkipLink
<1>3. current_index = LinkSlot /\ current_index \in Slots /\ left \in Int
  BY <1>2 DEF ProducerInv, TypeOK, AtLink
<1>4. current_index' = 0 /\ 0 \in Slots /\ LinkSlot # 0
  BY <1>1, <1>3, AdvanceIndex, SlotFacts
<1>5. cycle_state_ours \in BOOLEAN /\ cycle_state_ours' \in BOOLEAN
      /\ cycle_state_ours' # cycle_state_ours
  BY <1>1, CycleBitIsBoolean DEF ProducerInv, TypeOK
<1>6. TypeOK' /\ ~err' /\ AtLink'
  <2>1. trb' \in [Slots -> TrbType]
    BY <1>1, AdvanceIndex
  <2>2. left' \in Int /\ pc' \in {"notify", "push"}
    BY <1>1, <1>3 DEF AfterPush
  <2> QED
    BY <1>1, <1>2, <1>4, <1>5, <2>1, <2>2 DEF ProducerInv, TypeOK, AtLink, Pushing, hw
<1>7. LinkPlace'
  BY <1>1, AdvanceIndex DEF ProducerInv, LinkPlace
<1>8. CycleBits'
  <2> SUFFICES ASSUME NEW s \in Slots
               PROVE  trb'[s].cycle = cycle_state_ours'
    BY <1>4, SlotFacts DEF CycleBits
  <2>1. CASE s = LinkSlot
    BY <1>1, <1>3, <2>1, AdvanceIndex
  <2>2. CASE s # LinkSlot
    <3>1. trb'[s] = trb[s] /\ trb[s].cycle \in BOOLEAN
      BY <1>1, <1>3, <2>2, AdvanceIndex DEF ProducerInv, TypeOK, TrbType
    <3>2. trb[s].cycle # cycle_state_ours
      BY <1>3, <2>2, SlotFacts DEF ProducerInv, CycleBits
    <3> QED
      BY <1>5, <3>1, <3>2, CycleBitIsBoolean, Zenon
  <2> QED
    BY <2>1, <2>2
<1> QED
  BY <1>1, <1>3, <1>4, <1>6, <1>7, <1>8 DEF ProducerInv

\* The steps of the xHC, and those that start and end a request.
LEMMA OtherProducer ==
  ASSUME ProducerInv,
         (\E n \in 1..MaxBatch : StartRequest(n)) \/ Notify \/ HwStep \/ UNCHANGED vars
  PROVE  ProducerInv'
<1>1. CASE \E n \in 1..MaxBatch : StartRequest(n)
  <2>1. PICK n \in 1..MaxBatch : StartRequest(n)
    BY <1>1
  <2>2. n \in Int
    BY RingAssumption
  <2> QED
    BY <2>1, <2>2, QuietProducer DEF ProducerInv, TypeOK, StartRequest, hw, Pushing
<1>2. CASE Notify
  BY <1>2, QuietProducer DEF ProducerInv, TypeOK, Notify, hw, Pushing
<1>3. CASE HwTake
  <2>1. hw_index \in Slots /\ hw_index # LinkSlot /\ trb[hw_index].body \in AnyBody
    BY <1>3 DEF ProducerInv, TypeOK, TrbType, LinkPlace, HwTake
  <2>2. hw_index + 1 \in Slots
    BY <2>1, SlotFacts
  <2> QED
    BY <1>3, <2>1, <2>2 DEF ProducerInv, TypeOK, LinkPlace, CycleBits, AtLink, HwTake, driver
<1>4. CASE HwFollowLink
  <2>1. (~hw_ccs) \in BOOLEAN
    BY DEF ProducerInv, TypeOK
  <2> QED
    BY <1>4, <2>1, SlotFacts DEF ProducerInv, TypeOK, LinkPlace, CycleBits, AtLink, HwFollowLink, driver
<1>5. CASE HwStop \/ UNCHANGED vars
  BY <1>5 DEF ProducerInv, TypeOK, LinkPlace, CycleBits, AtLink, HwStop, driver, hw, vars
<1> QED
  BY <1>1, <1>2, <1>3, <1>4, <1>5 DEF HwStep

\* Every step keeps what makes push succeed.
LEMMA NextProducer == ProducerInv /\ [Next]_vars => ProducerInv'
<1> SUFFICES ASSUME ProducerInv, [Next]_vars PROVE ProducerInv'
  OBVIOUS
<1>1. CASE \E body \in Bodies : PushCheck(body)
  BY <1>1, PushCheckProducer
<1>2. CASE WriteFirstHalf \/ WriteSecondHalf
  BY <1>2, WriteProducer
<1>3. CASE Publish
  BY <1>3, PublishProducer
<1>4. CASE SkipLink
  BY <1>4, SkipLinkProducer
<1> QED
  BY <1>1, <1>2, <1>3, <1>4, OtherProducer DEF Next, DriverStep

\* push and advance_index never return Err, for a ring of any size and however
\* many TRBs the requests leave on it.
THEOREM PushNeverFails == Spec => []NoPushFails
<1>1. Spec => []ProducerInv
  BY InitProducer, NextProducer, PTL DEF Spec
<1>2. ProducerInv => NoPushFails
  BY DEF ProducerInv, NoPushFails
<1> QED
  BY <1>1, <1>2, PTL

-----------------------------------------------------------------------------
(* The two indices.                                                        *)

\* One TRB stays free, so that a driver a lap ahead stays behind the xHC; while
\* it writes a TRB there is another one between them.
LEMMA Room ==
  ASSUME IInv
  PROVE  /\ NUM_TRB \in Nat /\ NUM_TRB >= 2 /\ LinkSlot = NUM_TRB - 1 /\ Usable = NUM_TRB - 1
         /\ current_index \in Int /\ 0 <= current_index /\ current_index <= LinkSlot
         /\ hw_index \in Int /\ 0 <= hw_index /\ hw_index <= LinkSlot
         /\ outstanding \in Int /\ 0 <= outstanding /\ outstanding < Usable
         /\ hw_ccs = cycle_state_ours => current_index < hw_index
<1>1. /\ NUM_TRB \in Nat /\ NUM_TRB >= 2 /\ LinkSlot = NUM_TRB - 1 /\ Usable = NUM_TRB - 1
      /\ current_index \in Int /\ 0 <= current_index /\ current_index <= LinkSlot
      /\ hw_index \in Int /\ 0 <= hw_index /\ hw_index <= LinkSlot
      /\ outstanding \in Int /\ left \in Int
  BY SlotFacts DEF IInv, ProducerInv, TypeOK, Usable
<1>2. outstanding <= LinkSlot - 1
  BY <1>1, OutstandingAssumption, RingAssumption DEF IInv, RequestState, WithinLimit, Pushing
<1> QED
  BY <1>1, <1>2 DEF IInv, Laps

\* What the xHC owns: a TRB in front of the driver's index, or the Link when
\* the driver is a lap ahead.
LEMMA HwOwnsOnlyHanded ==
  ASSUME IInv, HwOwns
  PROVE  hw_ccs # cycle_state_ours => hw_index < current_index
<1>1. (trb[hw_index].cycle # cycle_state_ours) <=> (hw_index < current_index)
  BY DEF IInv, ProducerInv, TypeOK, CycleBits
<1> QED
  BY <1>1 DEF HwOwns

\* The steps of the driver keep the inductive invariant.
LEMMA DriverIInv ==
  ASSUME IInv, ProducerInv', DriverStep
  PROVE  IInv'
<1> USE Room
<1>1. left \in Int /\ cycle_state_ours \in BOOLEAN /\ hw_ccs \in BOOLEAN
  BY DEF IInv, ProducerInv, TypeOK
<1>2. CASE \E body \in Bodies : PushCheck(body)
  <2>1. PICK body \in Bodies : PushCheck(body)
    BY <1>2
  <2>2. /\ pc = "push" /\ pc' = "write"
        /\ UNCHANGED <<trb, current_index, cycle_state_ours, left, hw, outstanding>>
    BY <2>1, PushCheckProducer DEF PushCheck, IInv
  <2> QED
    BY <2>2 DEF IInv, RequestState, WithinLimit, Laps, Pushing, hw
<1>3. CASE WriteFirstHalf
  BY <1>3 DEF WriteFirstHalf, IInv, RequestState, WithinLimit, Laps, Pushing, hw
<1>4. CASE WriteSecondHalf
  <2>1. trb' = [trb EXCEPT ![current_index] = [trb[current_index] EXCEPT !.body = src]]
        /\ UNCHANGED <<src, current_index>>
    BY <1>4 DEF WriteSecondHalf
  <2>2. trb'[current_index'].body = src'
    BY <2>1 DEF IInv, ProducerInv, TypeOK, TrbType
  <2>3. RequestState'
    BY <1>4, <2>2 DEF WriteSecondHalf, IInv, RequestState, Pushing
  <2> QED
    BY <1>4, <2>3 DEF WriteSecondHalf, IInv, WithinLimit, Laps, hw
<1>5. CASE Publish
  <2>1. /\ current_index' = current_index + 1 /\ outstanding' = outstanding + 1
        /\ IF current_index' = LinkSlot THEN pc' = "link" /\ UNCHANGED left ELSE AfterPush
    BY <1>5, PublishProducer DEF IInv
  <2>2. pc = "advance" /\ UNCHANGED <<cycle_state_ours, hw>>
    BY <1>5 DEF Publish
  <2>3. left >= 1 /\ outstanding + left <= MaxOutstanding
    BY <2>2 DEF IInv, RequestState, WithinLimit, Pushing
  <2>4. RequestState'
    BY <1>1, <2>1, <2>3 DEF RequestState, AfterPush, Pushing
  <2>5. WithinLimit'
    BY <1>1, <2>1, <2>3, RingAssumption DEF WithinLimit, AfterPush
  <2>6. Laps'
    BY <2>1, <2>2 DEF IInv, Laps, hw
  <2> QED
    BY <2>4, <2>5, <2>6 DEF IInv
<1>6. CASE SkipLink
  <2>1. /\ current_index = LinkSlot /\ current_index' = 0
        /\ cycle_state_ours' = ~cycle_state_ours /\ AfterPush
    BY <1>6, SkipLinkProducer DEF IInv
  <2>2. pc = "link" /\ UNCHANGED <<hw, outstanding>>
    BY <1>6 DEF SkipLink
  <2>3. left >= 1 /\ outstanding + left - 1 <= MaxOutstanding
    BY <1>1, <2>2 DEF IInv, RequestState, WithinLimit, Pushing
  <2>4. RequestState'
    BY <1>1, <2>1, <2>3 DEF RequestState, AfterPush, Pushing
  <2>5. WithinLimit'
    BY <1>1, <2>1, <2>2, <2>3, RingAssumption DEF WithinLimit, AfterPush
  <2>6. hw_ccs # cycle_state_ours
    BY <2>1
  <2>7. outstanding = LinkSlot - hw_index
    BY <2>1, <2>6 DEF IInv, Laps
  <2>8. hw_ccs = cycle_state_ours'
    BY <1>1, <2>1, <2>6, CycleBitIsBoolean, Zenon
  <2>9. Laps'
    BY <2>1, <2>2, <2>7, <2>8 DEF Laps, hw
  <2> QED
    BY <2>4, <2>5, <2>9 DEF IInv
<1>7. CASE Notify
  BY <1>7 DEF Notify, IInv, RequestState, WithinLimit, Laps, Pushing, hw
<1> QED
  BY <1>2, <1>3, <1>4, <1>5, <1>6, <1>7 DEF DriverStep

\* So do those of the xHC and the start of a request.
LEMMA OtherIInv ==
  ASSUME IInv, ProducerInv',
         (\E n \in 1..MaxBatch : StartRequest(n)) \/ HwStep \/ UNCHANGED vars
  PROVE  IInv'
<1> USE Room
<1>1. left \in Int /\ cycle_state_ours \in BOOLEAN /\ hw_ccs \in BOOLEAN
  BY DEF IInv, ProducerInv, TypeOK
<1>2. CASE \E n \in 1..MaxBatch : StartRequest(n)
  <2>1. PICK n \in 1..MaxBatch : StartRequest(n)
    BY <1>2
  <2>2. n \in Int /\ n >= 1
    BY RingAssumption
  <2> QED
    BY <2>1, <2>2 DEF StartRequest, IInv, RequestState, WithinLimit, Laps, Pushing, hw
<1>3. CASE HwTake
  <2>1. /\ hw_index' = hw_index + 1 /\ outstanding' = outstanding - 1
        /\ UNCHANGED <<trb, driver, hw_ccs>> /\ HwOwns
    BY <1>3 DEF HwTake
  <2>2. RequestState'
    BY <2>1 DEF IInv, RequestState, driver
  <2>3. WithinLimit'
    BY <1>1, <2>1, RingAssumption DEF IInv, WithinLimit, driver
  <2>4. Laps'
    BY <2>1, HwOwnsOnlyHanded DEF IInv, Laps, driver
  <2> QED
    BY <2>2, <2>3, <2>4 DEF IInv
<1>4. CASE HwFollowLink
  <2>1. /\ hw_index' = 0 /\ hw_ccs' = ~hw_ccs
        /\ UNCHANGED <<trb, driver, outstanding>> /\ HwOwns
    BY <1>4 DEF HwFollowLink
  <2>2. hw_index = LinkSlot
    BY <1>4 DEF HwFollowLink, IInv, ProducerInv, TypeOK, LinkPlace
  <2>3. hw_ccs = cycle_state_ours
    BY <2>1, <2>2, HwOwnsOnlyHanded
  <2>4. outstanding = current_index
    BY <2>2, <2>3 DEF IInv, Laps
  <2>5. hw_ccs' # cycle_state_ours
    BY <1>1, <2>1, <2>3, CycleBitIsBoolean, Zenon
  <2>6. Laps'
    BY <2>1, <2>4, <2>5 DEF Laps, driver
  <2> QED
    BY <2>1, <2>6 DEF IInv, RequestState, WithinLimit, driver
<1>5. CASE HwStop \/ UNCHANGED vars
  BY <1>5 DEF HwStop, vars, driver, hw, IInv, RequestState, WithinLimit, Laps
<1> QED
  BY <1>2, <1>3, <1>4, <1>5 DEF HwStep

\* A new ring satisfies the invariant.
LEMMA InitIInv == Init => IInv
<1> SUFFICES ASSUME Init PROVE IInv
  OBVIOUS
<1>1. Laps
  <2>1. hw_ccs # cycle_state_ours
    BY Zenon DEF Init
  <2>2. hw_index = 0 /\ current_index = 0 /\ outstanding = 0
    BY Zenon DEF Init
  <2> QED
    BY <2>1, <2>2 DEF Laps
<1>2. RequestState /\ WithinLimit
  BY RingAssumption DEF Init, RequestState, WithinLimit, Pushing
<1> QED
  BY <1>1, <1>2, InitProducer DEF IInv

\* Every reachable state satisfies it.
THEOREM SpecIInv == Spec => []IInv
<1>1. IInv /\ [Next]_vars => IInv'
  BY NextProducer, DriverIInv, OtherIInv DEF IInv, Next
<1> QED
  BY <1>1, InitIInv, PTL DEF Spec

-----------------------------------------------------------------------------
(* The refinement.                                                         *)

\* An index in the lap after this one is reduced by one subtraction.
LEMMA WrapIsMod ==
  ASSUME NEW i \in 0..(2 * Usable - 1)
  PROVE  i % Usable = Wrap(i) /\ Wrap(i) \in 0..(Usable - 1)
<1>1. Usable \in Nat \ {0} /\ i \in Nat
  BY RingAssumption DEF Usable
<1>2. i = Usable * (i \div Usable) + (i % Usable) /\ (i % Usable) \in 0..(Usable - 1)
      /\ i \div Usable \in Int
  BY <1>1, SMT
<1>3. i \div Usable \in {0, 1}
  <2> DEFINE q == i \div Usable
  <2> HIDE DEF q
  <2>1. q \in Int /\ Usable * q > - Usable /\ Usable * q < 2 * Usable
    BY <1>1, <1>2, SMT DEF q
  <2>2. q > -1 /\ q < 2
    BY <1>1, <2>1, Z3T(30)
  <2> QED
    BY <2>1, <2>2 DEF q
<1> QED
  BY <1>1, <1>2, <1>3 DEF Wrap

\* The cycle bits tell the xHC exactly the TRBs that are outstanding.
LEMMA HandedIff ==
  ASSUME IInv, NEW k \in 0..(Usable - 1)
  PROVE  Handed(k) <=> k < outstanding
<1> DEFINE s == Wrap(hw_index + k)
<1>1. k \in Int /\ 0 <= k /\ k < Usable
  BY Room
<1>2. (hw_index + k) % Usable = s /\ s \in 0..(Usable - 1)
  <2>1. hw_index + k \in 0..(2 * Usable - 1)
    BY <1>1, Room
  <2> QED
    BY <2>1, WrapIsMod
<1>3. s \in Slots /\ LinkSlot \in Slots
  BY <1>2, Room, SlotFacts
<1>4. /\ (trb[s].cycle # cycle_state_ours) <=> (s < current_index)
      /\ trb[LinkSlot].cycle = cycle_state_ours
  BY <1>3, Room DEF IInv, ProducerInv, CycleBits
<1>5. trb[s].cycle \in BOOLEAN /\ cycle_state_ours \in BOOLEAN /\ hw_ccs \in BOOLEAN
  BY <1>3 DEF IInv, ProducerInv, TypeOK, TrbType
<1>6. CASE hw_index + k < Usable
  <2>1. s = hw_index + k
    BY <1>6 DEF Wrap
  <2>2. Handed(k) <=> trb[s].cycle = hw_ccs
    BY <1>1, <1>2, <1>6, Room DEF Handed
  <2>3. CASE hw_ccs # cycle_state_ours
    <3>1. trb[s].cycle = hw_ccs <=> trb[s].cycle # cycle_state_ours
      BY <1>5, <2>3, CycleBitIsBoolean, Zenon
    <3>2. outstanding = current_index - hw_index
      BY <2>3 DEF IInv, Laps
    <3> QED
      BY <1>1, <1>4, <2>1, <2>2, <3>1, <3>2, Room
  <2>4. CASE hw_ccs = cycle_state_ours
    <3>1. outstanding = LinkSlot - hw_index + current_index
      BY <2>4 DEF IInv, Laps
    <3> QED
      BY <1>1, <1>4, <1>6, <2>1, <2>2, <2>4, <3>1, Room
  <2> QED
    BY <2>3, <2>4
<1>7. CASE hw_index + k >= Usable
  <2>1. s = hw_index + k - Usable
    BY <1>1, <1>7, Room DEF Wrap
  <2>2. Handed(k) <=> trb[LinkSlot].cycle = hw_ccs /\ trb[s].cycle = ~hw_ccs
    BY <1>2, <1>7 DEF Handed
  <2>3. CASE hw_ccs # cycle_state_ours
    <3>1. outstanding = current_index - hw_index
      BY <2>3 DEF IInv, Laps
    <3>2. ~(k < outstanding)
      BY <1>1, <1>7, <3>1, Room
    <3> QED
      BY <1>4, <2>2, <2>3, <3>2
  <2>4. CASE hw_ccs = cycle_state_ours
    <3>1. trb[s].cycle = ~hw_ccs <=> trb[s].cycle # cycle_state_ours
      BY <1>5, <2>4, CycleBitIsBoolean, Zenon
    <3>2. outstanding = LinkSlot - hw_index + current_index
      BY <2>4 DEF IInv, Laps
    <3>3. k < outstanding <=> s < current_index
      BY <1>1, <2>1, <3>2, Room
    <3> QED
      BY <1>4, <2>2, <2>4, <3>1, <3>3
  <2> QED
    BY <2>3, <2>4
<1> QED
  BY <1>1, <1>6, <1>7, Room

\* So what the xHC would take is what the driver counts as outstanding.
LEMMA HandedOverIsContents == IInv => HandedOver = Contents
<1> SUFFICES ASSUME IInv PROVE HandedOver = Contents
  OBVIOUS
<1> DEFINE IsNumber(m) ==
      /\ \A k \in 0..(m - 1) : Handed(k)
      /\ m < Usable => ~Handed(m)
<1> DEFINE n == CHOOSE m \in 0..Usable : IsNumber(m)
<1>1. Usable \in Nat /\ outstanding \in 0..(Usable - 1)
  BY Room
<1>2. \A k \in 0..(Usable - 1) : Handed(k) <=> k < outstanding
  BY HandedIff
<1>3. IsNumber(outstanding)
  BY <1>1, <1>2
<1>4. ASSUME NEW m \in 0..Usable, IsNumber(m)
      PROVE  m = outstanding
  <2>1. CASE m < outstanding
    BY <1>1, <1>2, <1>4, <2>1
  <2>2. CASE m > outstanding
    <3>1. outstanding \in 0..(m - 1)
      BY <1>1, <2>2
    <3> QED
      BY <1>1, <1>2, <1>4, <3>1
  <2> QED
    BY <1>1, <2>1, <2>2
<1>5. n = outstanding
  <2>1. outstanding \in 0..Usable
    BY <1>1
  <2> HIDE DEF IsNumber
  <2>2. n \in 0..Usable /\ IsNumber(n)
    BY <1>3, <2>1
  <2> QED
    BY <1>4, <2>2
<1>6. HandedOver = [k \in 1..n |-> trb[(hw_index + k - 1) % Usable].body]
  BY Zenon DEF HandedOver
<1>7. ASSUME NEW k \in 1..outstanding
      PROVE  (hw_index + k - 1) % Usable = Wrap(hw_index + k - 1)
  <2>1. hw_index + k - 1 \in 0..(2 * Usable - 1)
    BY <1>1, Room
  <2> QED
    BY <2>1, WrapIsMod
<1> HIDE DEF n
<1> QED
  BY <1>5, <1>6, <1>7 DEF Contents

\* A sequence with one more element is the one Append makes.
LEMMA AppendIs ==
  ASSUME NEW S, NEW s \in Seq(S), NEW x \in S, NEW n \in Nat, Len(s) = n,
         NEW f \in [1..(n + 1) -> S],
         \A k \in 1..n : f[k] = s[k], f[n + 1] = x
  PROVE  f = Append(s, x)
<1>1. f \in Seq(S) /\ Len(f) = n + 1
  OBVIOUS
<1>2. /\ Append(s, x) \in Seq(S) /\ Len(Append(s, x)) = n + 1
      /\ \A k \in 1..n : Append(s, x)[k] = s[k]
      /\ Append(s, x)[n + 1] = x
  BY AppendProperties
<1>3. \A k \in 1..(n + 1) : f[k] = Append(s, x)[k]
  BY <1>2
<1> QED
  BY <1>1, <1>2, <1>3, SeqEqual

\* A sequence without its first element is the one Tail makes.
LEMMA TailIs ==
  ASSUME NEW S, NEW s \in Seq(S), NEW n \in Nat, n >= 1, Len(s) = n,
         NEW f \in [1..(n - 1) -> S],
         \A k \in 1..(n - 1) : f[k] = s[k + 1]
  PROVE  s # << >> /\ Head(s) = s[1] /\ f = Tail(s)
<1>1. f \in Seq(S) /\ Len(f) = n - 1
  <2>1. n - 1 \in Nat
    OBVIOUS
  <2> QED
    BY <2>1
<1>2. s # << >> /\ Head(s) = s[1]
  OBVIOUS
<1>3. /\ Tail(s) \in Seq(S) /\ Len(Tail(s)) = n - 1
      /\ \A k \in 1..(n - 1) : Tail(s)[k] = s[k + 1]
  BY <1>2, HeadTailProperties
<1>4. \A k \in 1..(n - 1) : f[k] = Tail(s)[k]
  BY <1>3
<1> QED
  BY <1>1, <1>2, <1>3, <1>4, SeqEqual

\* The contents are a sequence; their slots are not the one the driver writes.
LEMMA ContentsType ==
  ASSUME IInv
  PROVE  /\ Contents \in Seq(AnyBody) /\ Len(Contents) = outstanding
         /\ \A k \in 1..outstanding :
              /\ Contents[k] = trb[Wrap(hw_index + k - 1)].body
              /\ Wrap(hw_index + k - 1) \in Slots
              /\ Wrap(hw_index + k - 1) # current_index
         /\ current_index # LinkSlot => Wrap(hw_index + outstanding) = current_index
<1>1. ASSUME NEW k \in 1..outstanding
      PROVE  Wrap(hw_index + k - 1) \in Slots /\ Wrap(hw_index + k - 1) # current_index
  <2>1. Wrap(hw_index + k - 1) \in Slots
    BY Room, SlotFacts DEF Wrap
  <2>2. Wrap(hw_index + k - 1) # current_index
    BY Room DEF Wrap, IInv, Laps
  <2> QED
    BY <2>1, <2>2
<1>2. Contents \in [1..outstanding -> AnyBody]
  BY <1>1 DEF Contents, IInv, ProducerInv, TypeOK, TrbType
<1>3. Contents \in Seq(AnyBody) /\ Len(Contents) = outstanding
  BY <1>2, Room
<1>4. current_index # LinkSlot => Wrap(hw_index + outstanding) = current_index
  BY Room DEF Wrap, IInv, Laps
<1> QED
  BY <1>1, <1>3, <1>4 DEF Contents

\* The flip of the cycle bit pushes the TRB that was written, whole.
LEMMA PublishPushes ==
  ASSUME IInv, Publish, IInv'
  PROVE  /\ Len(Contents) < Usable
         /\ Contents' = Append(Contents, src) /\ src \in Bodies
         /\ UNCHANGED out
<1>1. /\ outstanding' = outstanding + 1 /\ advance_index(~cycle_state_ours)
      /\ UNCHANGED <<hw_index, out>> /\ pc = "advance"
  BY PublishProducer DEF IInv, Publish, hw
<1>2. \A s \in Slots : trb'[s].body = trb[s].body
  BY <1>1, AdvanceIndex DEF IInv
<1>3. current_index # LinkSlot /\ current_index \in Slots
      /\ trb[current_index].body = src /\ src \in Bodies
  BY <1>1 DEF IInv, ProducerInv, TypeOK, AtLink, RequestState
<1>4. Contents' = [k \in 1..(outstanding + 1) |-> trb'[Wrap(hw_index + k - 1)].body]
  BY <1>1 DEF Contents, Wrap, Usable
<1>5. \A k \in 1..outstanding : Contents'[k] = Contents[k]
  <2> SUFFICES ASSUME NEW k \in 1..outstanding PROVE Contents'[k] = Contents[k]
    OBVIOUS
  <2>1. k \in 1..(outstanding + 1) /\ Wrap(hw_index + k - 1) \in Slots
        /\ Contents[k] = trb[Wrap(hw_index + k - 1)].body
    BY Room, ContentsType
  <2> QED
    BY <1>2, <1>4, <2>1
<1>6. Contents'[outstanding + 1] = src
  <2>1. outstanding + 1 \in 1..(outstanding + 1)
        /\ hw_index + (outstanding + 1) - 1 = hw_index + outstanding
    BY Room
  <2> QED
    BY <1>2, <1>3, <1>4, <2>1, ContentsType
<1>7. Contents' \in [1..(outstanding + 1) -> AnyBody]
  <2>1. ASSUME NEW k \in 1..(outstanding + 1)
        PROVE  trb'[Wrap(hw_index + k - 1)].body \in AnyBody
    <3>1. CASE k \in 1..outstanding
      <4>1. Wrap(hw_index + k - 1) \in Slots
        BY <3>1, ContentsType
      <4> QED
        BY <4>1 DEF IInv, ProducerInv, TypeOK, TrbType
    <3>2. CASE k = outstanding + 1
      BY <1>3, <1>4, <1>6, <3>2 DEF AnyBody
    <3> QED
      BY Room, <3>1, <3>2
  <2> QED
    BY <1>4, <2>1
<1>8. Contents' = Append(Contents, src)
  <2>1. outstanding \in Nat /\ src \in AnyBody
    BY <1>3, Room DEF AnyBody
  <2> QED
    BY <1>5, <1>6, <1>7, <2>1, ContentsType, AppendIs
<1> QED
  BY <1>1, <1>3, <1>8, ContentsType, Room

\* Taking a TRB pops it.
LEMMA HwTakePops ==
  ASSUME IInv, HwTake, IInv'
  PROVE  /\ Contents # << >>
         /\ out' = Head(Contents)
         /\ Contents' = Tail(Contents)
<1>1. /\ outstanding' = outstanding - 1 /\ hw_index' = hw_index + 1
      /\ trb' = trb /\ out' = trb[hw_index].body
  BY DEF HwTake
<1>2. outstanding \in Nat /\ outstanding >= 1
  <2>1. hw_index # LinkSlot
    BY DEF HwTake, IInv, ProducerInv, TypeOK, LinkPlace
  <2>2. hw_ccs # cycle_state_ours => hw_index < current_index
    BY HwOwnsOnlyHanded DEF HwTake
  <2> QED
    BY <2>1, <2>2, Room DEF IInv, Laps
<1>3. hw_index < Usable
  BY Room, SlotFacts DEF HwTake, IInv, ProducerInv, TypeOK, LinkPlace
<1>4. Contents[1] = trb[hw_index].body
  <2>1. hw_index + 1 - 1 = hw_index /\ Wrap(hw_index) = hw_index /\ 1 \in 1..outstanding
    BY <1>2, <1>3, Room DEF Wrap
  <2> QED
    BY <2>1, ContentsType
<1>5. Contents' = [k \in 1..(outstanding - 1) |-> trb[Wrap(hw_index + 1 + k - 1)].body]
  BY <1>1 DEF Contents, Wrap, Usable
<1>6. ASSUME NEW k \in 1..(outstanding - 1)
      PROVE  trb[Wrap(hw_index + 1 + k - 1)].body = Contents[k + 1] /\ Contents[k + 1] \in AnyBody
  <2>1. k + 1 \in 1..outstanding /\ hw_index + 1 + k - 1 = hw_index + (k + 1) - 1
    BY <1>2, Room
  <2>2. Contents[k + 1] = trb[Wrap(hw_index + (k + 1) - 1)].body
        /\ Wrap(hw_index + (k + 1) - 1) \in Slots
    BY <2>1, ContentsType
  <2> QED
    BY <2>1, <2>2 DEF IInv, ProducerInv, TypeOK, TrbType
<1>7. /\ Contents' \in [1..(outstanding - 1) -> AnyBody]
      /\ \A k \in 1..(outstanding - 1) : Contents'[k] = Contents[k + 1]
  BY <1>5, <1>6
<1>8. /\ Contents \in Seq(AnyBody) /\ Len(Contents) = outstanding
  BY ContentsType
<1>9. Contents # << >> /\ Head(Contents) = Contents[1] /\ Contents' = Tail(Contents)
  BY <1>2, <1>7, <1>8, TailIs
<1> QED
  BY <1>1, <1>4, <1>9

\* Nothing else changes the queue: not the halves of a write, not the Link.
LEMMA OtherStutters ==
  ASSUME IInv, IInv',
         \/ \E n \in 1..MaxBatch : StartRequest(n)
         \/ \E body \in Bodies : PushCheck(body)
         \/ WriteFirstHalf \/ WriteSecondHalf \/ SkipLink \/ Notify
         \/ HwFollowLink \/ HwStop \/ UNCHANGED vars
  PROVE  Contents' = Contents /\ out' = out
<1>1. UNCHANGED <<outstanding, out>>
  BY DEF StartRequest, PushCheck, WriteFirstHalf, WriteSecondHalf, SkipLink, Notify,
         HwFollowLink, HwStop, vars, hw
<1> SUFFICES \A k \in 1..outstanding :
               trb'[Wrap(hw_index' + k - 1)].body = trb[Wrap(hw_index + k - 1)].body
  BY <1>1 DEF Contents, Wrap, Usable
<1> TAKE k \in 1..outstanding
<1> DEFINE s == Wrap(hw_index + k - 1)
<1>2. s \in Slots /\ s # current_index
  BY ContentsType
<1>3. CASE WriteFirstHalf \/ WriteSecondHalf
  <2>1. hw_index' = hw_index /\ trb'[s] = trb[s]
    BY <1>2, <1>3 DEF WriteFirstHalf, WriteSecondHalf, hw, IInv, ProducerInv, TypeOK
  <2> QED
    BY <2>1
<1>4. CASE SkipLink
  <2>1. hw_index' = hw_index /\ advance_index(~cycle_state_ours)
    BY <1>4, SkipLinkProducer DEF SkipLink, hw, IInv
  <2>2. trb'[s].body = trb[s].body
    BY <1>2, <2>1, AdvanceIndex DEF IInv
  <2> QED
    BY <2>1, <2>2
<1>5. CASE HwFollowLink
  <2>1. hw_index' = 0 /\ trb' = trb /\ hw_index = LinkSlot
    BY <1>5 DEF HwFollowLink, IInv, ProducerInv, TypeOK, LinkPlace
  <2>2. Wrap(0 + k - 1) = s
    BY <2>1, Room DEF Wrap
  <2> QED
    BY <2>1, <2>2
<1>6. CASE \/ \E n \in 1..MaxBatch : StartRequest(n)
           \/ \E body \in Bodies : PushCheck(body)
           \/ Notify \/ HwStop \/ UNCHANGED vars
  <2>1. hw_index' = hw_index /\ trb' = trb
    BY <1>6 DEF StartRequest, PushCheck, Notify, HwStop, vars, hw
  <2> QED
    BY <2>1
<1> QED
  BY <1>3, <1>4, <1>5, <1>6

\* The safety part of IsQueue: each TRB pushed is taken once, whole, in order.
THEOREM RingImplementsQueue == Spec => Queue!Init /\ [][Queue!Next]_(Queue!vars)
<1>1. Init => Queue!Init
  <2> SUFFICES ASSUME Init PROVE Queue!Init
    OBVIOUS
  <2>1. HandedOver = Contents
    BY InitIInv, HandedOverIsContents
  <2>2. outstanding = 0 /\ out \in Bodies
    BY Zenon DEF Init
  <2>3. Contents = << >>
    BY <2>2 DEF Contents
  <2> QED
    BY <2>1, <2>2, <2>3 DEF Queue!Init
<1>2. IInv => HandedOver = Contents
  BY HandedOverIsContents
<1>3. IInv' => (HandedOver = Contents)'
  BY <1>2, PTL
<1>4. IInv /\ IInv' /\ [Next]_vars => [Queue!Next]_(Queue!vars)
  <2> SUFFICES ASSUME IInv, IInv', [Next]_vars
               PROVE  [Queue!Next]_(Queue!vars)
    OBVIOUS
  <2>1. HandedOver = Contents /\ HandedOver' = Contents'
    BY <1>2, <1>3
  <2>2. CASE Publish
    BY <2>1, <2>2, PublishPushes DEF Queue!Push, Queue!Next
  <2>3. CASE HwTake
    BY <2>1, <2>3, HwTakePops DEF Queue!Pop, Queue!Next
  <2>4. CASE \/ \E n \in 1..MaxBatch : StartRequest(n)
             \/ \E body \in Bodies : PushCheck(body)
             \/ WriteFirstHalf \/ WriteSecondHalf \/ SkipLink \/ Notify
             \/ HwFollowLink \/ HwStop \/ UNCHANGED vars
    BY <2>1, <2>4, OtherStutters DEF Queue!vars
  <2> QED
    BY <2>2, <2>3, <2>4 DEF Next, DriverStep, HwStep
<1> QED
  BY <1>1, <1>4, SpecIInv, PTL DEF Spec
=============================================================================
