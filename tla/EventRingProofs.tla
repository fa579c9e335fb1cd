-------------------------- MODULE EventRingProofs --------------------------
(***************************************************************************)
(* The event ring is a FIFO queue, for a ring of any size: every step of   *)
(* the xHC and of EventRing::pop is a step of TrbQueue or leaves the queue *)
(* as it is, and pop never fails.                                          *)
(***************************************************************************)
EXTENDS EventRing, SequenceTheorems, TLAPS

TrbType == [body : Bodies \cup {Zero}, cycle : BOOLEAN]

TypeOK ==
  /\ trb \in [Slots -> TrbType]
  /\ current_index \in Slots /\ erdp \in Slots /\ eptr \in Slots /\ hw_index \in Slots
  /\ cycle_state_ours \in BOOLEAN /\ hw_pcs \in BOOLEAN /\ err \in BOOLEAN
  /\ pc \in {"idle", "advance", "erdp"}
  /\ e \in Bodies \cup {Zero} /\ out \in Bodies \cup {Zero}

\* The slots the xHC has written in this lap carry its cycle state, the
\* others still that of the lap before.
CycleBits == \A s \in Slots : (trb[s].cycle = hw_pcs) <=> (s < hw_index)

\* The xHC is in pop's lap or, behind pop's place, in the next one.
SameLap == (hw_pcs = cycle_state_ours) <=> (Oldest <= hw_index)

\* The slot after i.
NextSlot(i) == IF i = NUM_TRB - 1 THEN 0 ELSE i + 1

\* What pop has read stays in its slot until pop is done with it.
PopBusy ==
  /\ pc # "idle" => e = trb[eptr].body /\ hw_index # eptr
  /\ pc = "advance" => eptr = current_index
  /\ pc = "erdp" => current_index = NextSlot(eptr)

\* ERDP points to the TRB before the oldest event, which the xHC has left, or,
\* before the first pop is done, to the oldest one.
ErdpBehind ==
  \/ erdp = Oldest
  \/ Oldest = NextSlot(erdp) /\ hw_index # erdp

\* The inductive invariant.
IInv == TypeOK /\ ~err /\ CycleBits /\ SameLap /\ PopBusy /\ ErdpBehind

\* The events in the ring, counted from the two indices.
Wrap(i) == IF i < NUM_TRB THEN i ELSE i - NUM_TRB
Count == IF Oldest <= hw_index THEN hw_index - Oldest ELSE hw_index - Oldest + NUM_TRB
Contents == [k \in 1..Count |-> trb[Wrap(Oldest + k - 1)].body]

-----------------------------------------------------------------------------
(* Arithmetic of the ring.                                                 *)

\* An index in the lap after this one is reduced by one subtraction.
LEMMA WrapIsMod ==
  ASSUME NEW i \in 0..(2 * NUM_TRB - 1)
  PROVE  i % NUM_TRB = Wrap(i) /\ Wrap(i) \in Slots
<1>1. NUM_TRB \in Nat \ {0} /\ i \in Nat
  BY RingAssumption
<1>2. i = NUM_TRB * (i \div NUM_TRB) + (i % NUM_TRB) /\ (i % NUM_TRB) \in 0..(NUM_TRB - 1)
      /\ i \div NUM_TRB \in Int
  BY <1>1, SMT
<1>3. i \div NUM_TRB \in {0, 1}
  <2> DEFINE q == i \div NUM_TRB
  <2> HIDE DEF q
  <2>1. q \in Int /\ NUM_TRB * q > - NUM_TRB /\ NUM_TRB * q < 2 * NUM_TRB
    BY <1>1, <1>2, SMT DEF q
  <2>2. q > -1 /\ q < 2
    BY <1>1, <2>1, Z3T(30)
  <2> QED
    BY <2>1, <2>2 DEF q
<1> QED
  BY <1>1, <1>2, <1>3 DEF Wrap, Slots

\* An index moves to the next slot.
LEMMA IncIsNextSlot ==
  ASSUME NEW i \in Slots
  PROVE  (i + 1) % NUM_TRB = NextSlot(i) /\ NextSlot(i) \in Slots
<1>1. i + 1 \in 0..(2 * NUM_TRB - 1) /\ i \in 0..(NUM_TRB - 1)
  BY RingAssumption DEF Slots
<1>2. (i + 1) % NUM_TRB = Wrap(i + 1) /\ Wrap(i + 1) \in Slots
  BY <1>1, WrapIsMod
<1>3. Wrap(i + 1) = NextSlot(i)
  BY <1>1, RingAssumption DEF Wrap, NextSlot
<1> QED
  BY <1>2, <1>3

\* Of two cycle bits that differ from a third neither differs from the other.
LEMMA CycleBitIsBoolean ==
  ASSUME NEW a \in BOOLEAN, NEW b \in BOOLEAN
  PROVE  /\ (~a) \in BOOLEAN
         /\ (~a = b) <=> (a # b)
         /\ \A c \in BOOLEAN : a # b /\ c # b => a = c
  OBVIOUS

\* pop finds an event in its slot exactly if the xHC's index is elsewhere.
LEMMA HasNextEvent ==
  ASSUME IInv, pc # "erdp"
  PROVE  has_next_event <=> hw_index # current_index
<1>1. /\ Oldest = current_index /\ current_index \in Slots /\ hw_index \in Slots
      /\ current_index \in Int /\ hw_index \in Int
  BY RingAssumption DEF IInv, TypeOK, Oldest, Slots
<1>2. /\ trb[current_index].cycle \in BOOLEAN
      /\ cycle_state_ours \in BOOLEAN /\ hw_pcs \in BOOLEAN
  BY <1>1 DEF IInv, TypeOK, TrbType
<1>3. (trb[current_index].cycle = hw_pcs) <=> (current_index < hw_index)
  BY <1>1 DEF IInv, CycleBits
<1>4. (hw_pcs = cycle_state_ours) <=> (current_index <= hw_index)
  BY <1>1 DEF IInv, SameLap
<1>5. CASE hw_index = current_index
  <2>1. trb[current_index].cycle # hw_pcs /\ hw_pcs = cycle_state_ours
    BY <1>1, <1>3, <1>4, <1>5
  <2> QED
    BY <1>5, <2>1, Zenon DEF has_next_event
<1>6. CASE current_index < hw_index
  <2>1. trb[current_index].cycle = hw_pcs /\ hw_pcs = cycle_state_ours /\ hw_index # current_index
    BY <1>1, <1>3, <1>4, <1>6
  <2> QED
    BY <2>1, Zenon DEF has_next_event
<1>7. CASE hw_index < current_index
  <2>1. trb[current_index].cycle # hw_pcs /\ cycle_state_ours # hw_pcs /\ hw_index # current_index
    BY <1>1, <1>3, <1>4, <1>7
  <2>2. trb[current_index].cycle = cycle_state_ours
    BY <1>2, <2>1, CycleBitIsBoolean, Zenon
  <2> QED
    BY <2>1, <2>2, Zenon DEF has_next_event
<1> QED
  BY <1>1, <1>5, <1>6, <1>7

-----------------------------------------------------------------------------
(* The inductive invariant.                                                *)

\* A new ring: no slot written, both sides at the first one.
LEMMA InitIInv == Init => IInv
<1> SUFFICES ASSUME Init PROVE IInv
  OBVIOUS
<1>1. 0 \in Slots /\ \A s \in Slots : s \in Int /\ ~(s < 0)
  BY RingAssumption DEF Slots
<1>2. TypeOK /\ ~err
  BY <1>1 DEF Init, TypeOK, TrbType
<1>3. \A s \in Slots : trb[s].cycle = FALSE
  BY DEF Init
<1>4. CycleBits
  BY <1>1, <1>3 DEF Init, CycleBits
<1>5. SameLap /\ PopBusy /\ ErdpBehind
  BY <1>1 DEF Init, SameLap, PopBusy, ErdpBehind, Oldest
<1> QED
  BY <1>2, <1>4, <1>5 DEF IInv

\* The xHC's index stays short of the oldest event when it moves on, whichever
\* of the two slots ERDP points to.
LEMMA RoomToPost ==
  ASSUME IInv, (hw_index + 1) % NUM_TRB # erdp
  PROVE  NextSlot(hw_index) # erdp /\ NextSlot(hw_index) # Oldest
<1>1. hw_index \in Slots /\ erdp \in Slots /\ Oldest \in Slots
  BY DEF IInv, TypeOK, Oldest
<1>2. NextSlot(hw_index) # erdp
  BY <1>1, IncIsNextSlot
<1>3. CASE erdp = Oldest
  BY <1>2, <1>3
<1>4. CASE Oldest = NextSlot(erdp) /\ hw_index # erdp
  BY <1>1, <1>2, <1>4, RingAssumption DEF NextSlot, Slots
<1> QED
  BY <1>2, <1>3, <1>4 DEF IInv, ErdpBehind

\* HwPost keeps the invariant: it writes a slot pop is not busy with.
LEMMA HwPostIInv ==
  ASSUME IInv, NEW body \in Bodies, HwPost(body)
  PROVE  IInv'
<1>1. /\ trb \in [Slots -> TrbType] /\ hw_index \in Slots /\ hw_pcs \in BOOLEAN
      /\ Oldest \in Slots /\ erdp \in Slots /\ eptr \in Slots
  BY DEF IInv, TypeOK, Oldest
<1>2. UNCHANGED driver /\ Oldest' = Oldest
  BY DEF HwPost, driver, Oldest
<1>3. trb' = [trb EXCEPT ![hw_index] = [body |-> body, cycle |-> hw_pcs]]
  BY DEF HwPost
<1>4. hw_index' = NextSlot(hw_index) /\ hw_index' \in Slots
  BY <1>1, IncIsNextSlot DEF HwPost
<1>5. hw_pcs' = IF hw_index = NUM_TRB - 1 THEN ~hw_pcs ELSE hw_pcs
  BY DEF HwPost
<1>6. /\ trb'[hw_index].cycle = hw_pcs /\ trb'[hw_index].body = body
      /\ \A s \in Slots : s # hw_index => trb'[s] = trb[s]
  BY <1>1, <1>3
<1>7. \A s \in Slots : s \in Int /\ 0 <= s /\ s <= NUM_TRB - 1
  BY RingAssumption DEF Slots
<1>8. hw_index' # erdp /\ hw_index' # Oldest
  BY <1>4, RoomToPost DEF HwPost
<1>9. TypeOK' /\ ~err'
  <2>1. trb' \in [Slots -> TrbType]
    BY <1>1, <1>3 DEF TrbType
  <2>2. hw_pcs' \in BOOLEAN
    BY <1>1, <1>5
  <2> QED
    BY <1>2, <1>4, <2>1, <2>2 DEF IInv, TypeOK, driver
<1>10. CycleBits'
  <2> SUFFICES ASSUME NEW s \in Slots
               PROVE  (trb'[s].cycle = hw_pcs') <=> (s < hw_index')
    BY DEF CycleBits
  <2>1. (trb'[s].cycle = hw_pcs) <=> (s < hw_index + 1)
    BY <1>1, <1>6, <1>7 DEF IInv, CycleBits
  <2>2. CASE hw_index = NUM_TRB - 1
    <3>1. trb'[s].cycle = hw_pcs
      BY <1>1, <1>7, <2>1, <2>2
    <3>2. hw_index' = 0 /\ ~(s < hw_index')
      BY <1>4, <1>7, <2>2 DEF NextSlot
    <3>3. hw_pcs' # hw_pcs
      BY <1>1, <1>5, <2>2, Zenon
    <3> QED
      BY <3>1, <3>2, <3>3
  <2>3. CASE hw_index # NUM_TRB - 1
    BY <1>4, <1>5, <2>1, <2>3 DEF NextSlot
  <2> QED
    BY <2>2, <2>3
<1>11. SameLap'
  <2>1. (hw_pcs = cycle_state_ours) <=> (Oldest <= hw_index)
    BY DEF IInv, SameLap
  <2>2. CASE hw_index = NUM_TRB - 1
    <3>1. hw_pcs = cycle_state_ours
      BY <1>1, <1>7, <2>1, <2>2
    <3>2. hw_pcs' # hw_pcs
      BY <1>1, <1>5, <2>2, Zenon
    <3>3. ~(Oldest <= hw_index')
      BY <1>1, <1>4, <1>7, <1>8, <2>2 DEF NextSlot
    <3> QED
      BY <1>2, <3>1, <3>2, <3>3 DEF SameLap, driver
  <2>3. CASE hw_index # NUM_TRB - 1
    <3>1. (Oldest <= hw_index) <=> (Oldest <= hw_index')
      BY <1>1, <1>4, <1>7, <1>8, <2>3 DEF NextSlot
    <3> QED
      BY <1>2, <1>5, <2>1, <2>3, <3>1 DEF SameLap, driver
  <2> QED
    BY <2>2, <2>3
<1>12. PopBusy'
  <2>1. pc # "idle" => eptr = Oldest /\ hw_index # eptr
    BY DEF IInv, PopBusy, Oldest, TypeOK
  <2>2. pc # "idle" => trb'[eptr].body = trb[eptr].body /\ hw_index' # eptr
    BY <1>1, <1>6, <1>8, <2>1
  <2> QED
    BY <1>2, <2>2 DEF IInv, PopBusy, driver
<1>13. ErdpBehind'
  BY <1>2, <1>8 DEF IInv, ErdpBehind, driver
<1> QED
  BY <1>9, <1>10, <1>11, <1>12, <1>13 DEF IInv

\* pop's copy of the TRB keeps the invariant.
LEMMA PopReadIInv ==
  ASSUME IInv, PopRead
  PROVE  IInv'
<1>1. hw_index # current_index
  BY HasNextEvent DEF PopRead
<1>2. Oldest' = Oldest
  BY DEF PopRead, Oldest
<1>3. current_index \in Slots /\ trb[current_index].body \in Bodies \cup {Zero}
  BY DEF IInv, TypeOK, TrbType
<1>4. TypeOK' /\ ~err'
  BY <1>3 DEF IInv, TypeOK, PopRead, hw
<1>5. CycleBits' /\ SameLap' /\ ErdpBehind'
  BY <1>2 DEF IInv, CycleBits, SameLap, ErdpBehind, PopRead, hw
<1>6. PopBusy'
  BY <1>1 DEF PopBusy, PopRead, hw
<1> QED
  BY <1>4, <1>5, <1>6 DEF IInv

\* advance_index_notoggle finds the event pop has read still there.
LEMMA PopAdvanceIInv ==
  ASSUME IInv, PopAdvance
  PROVE  IInv' /\ Oldest' = Oldest
<1>1. has_next_event
  BY HasNextEvent DEF IInv, PopBusy, PopAdvance
<1>2. /\ current_index' = NextSlot(current_index) /\ current_index' \in Slots
      /\ pc' = "erdp" /\ UNCHANGED err
  BY <1>1, IncIsNextSlot DEF PopAdvance, IInv, TypeOK
<1>3. Oldest' = Oldest
  BY <1>2 DEF IInv, PopBusy, PopAdvance, Oldest
<1>4. TypeOK' /\ ~err'
  BY <1>2 DEF IInv, TypeOK, PopAdvance, hw
<1>5. CycleBits' /\ SameLap' /\ ErdpBehind'
  BY <1>3 DEF IInv, CycleBits, SameLap, ErdpBehind, PopAdvance, hw
<1>6. PopBusy'
  BY <1>2 DEF IInv, PopBusy, PopAdvance, hw
<1> QED
  BY <1>3, <1>4, <1>5, <1>6 DEF IInv

\* The end of pop: ERDP moves to the event returned, the cycle state changes
\* with the lap.
LEMMA PopFinishIInv ==
  ASSUME IInv, PopFinish
  PROVE  IInv' /\ Oldest' = NextSlot(Oldest)
<1>1. /\ current_index = NextSlot(eptr) /\ hw_index # eptr /\ Oldest = eptr
      /\ eptr \in Slots /\ hw_index \in Slots /\ current_index \in Slots
  BY DEF IInv, TypeOK, PopBusy, PopFinish, Oldest
<1>2. Oldest' = current_index
  BY DEF PopFinish, Oldest
<1>3. \A s \in Slots : s \in Int /\ 0 <= s /\ s <= NUM_TRB - 1
  BY RingAssumption DEF Slots
<1>4. TypeOK' /\ ~err'
  <2>1. cycle_state_ours' \in BOOLEAN
    BY DEF IInv, TypeOK, PopFinish
  <2> QED
    BY <2>1 DEF IInv, TypeOK, PopFinish, hw
<1>5. CycleBits'
  BY DEF IInv, CycleBits, PopFinish, hw
<1>6. SameLap'
  <2>1. (hw_pcs = cycle_state_ours) <=> (eptr <= hw_index)
    BY <1>1 DEF IInv, SameLap
  <2>2. hw_pcs' = hw_pcs /\ hw_index' = hw_index
    BY DEF PopFinish, hw
  <2>3. CASE eptr = NUM_TRB - 1
    <3>1. current_index = 0 /\ hw_pcs # cycle_state_ours /\ current_index <= hw_index
      BY <1>1, <1>3, <2>1, <2>3 DEF NextSlot
    <3>2. cycle_state_ours' = ~cycle_state_ours
      BY <3>1 DEF PopFinish
    <3>3. cycle_state_ours \in BOOLEAN /\ hw_pcs \in BOOLEAN
      BY DEF IInv, TypeOK
    <3>4. cycle_state_ours' = hw_pcs
      BY <3>1, <3>2, <3>3, CycleBitIsBoolean, Zenon
    <3> QED
      BY <1>2, <2>2, <3>1, <3>4 DEF SameLap
  <2>4. CASE eptr # NUM_TRB - 1
    <3>1. current_index # 0 /\ (current_index <= hw_index <=> eptr <= hw_index)
      BY <1>1, <1>3, <2>4 DEF NextSlot
    <3>2. cycle_state_ours' = cycle_state_ours
      BY <3>1 DEF PopFinish
    <3> QED
      BY <1>2, <2>1, <2>2, <3>1, <3>2 DEF SameLap
  <2> QED
    BY <2>3, <2>4
<1>7. PopBusy'
  BY DEF PopBusy, PopFinish
<1>8. ErdpBehind'
  BY <1>1, <1>2 DEF ErdpBehind, PopFinish, hw
<1> QED
  BY <1>1, <1>2, <1>4, <1>5, <1>6, <1>7, <1>8 DEF IInv

\* Every step keeps the invariant.
LEMMA NextIInv == IInv /\ [Next]_vars => IInv'
<1> SUFFICES ASSUME IInv, [Next]_vars PROVE IInv'
  OBVIOUS
<1>1. CASE \E body \in Bodies : HwPost(body)
  BY <1>1, HwPostIInv
<1>2. CASE PopRead
  BY <1>2, PopReadIInv
<1>3. CASE PopAdvance
  BY <1>3, PopAdvanceIInv
<1>4. CASE PopFinish
  BY <1>4, PopFinishIInv
<1>5. CASE UNCHANGED vars
  <2>1. Oldest' = Oldest
    BY <1>5 DEF vars, driver, Oldest
  <2> QED
    BY <1>5, <2>1 DEF vars, driver, hw, IInv, TypeOK, CycleBits, SameLap, PopBusy, ErdpBehind
<1> QED
  BY <1>1, <1>2, <1>3, <1>4, <1>5 DEF Next, Pop

-----------------------------------------------------------------------------
(* The refinement.                                                         *)

\* The ring holds between 0 and NUM_TRB - 1 events.
LEMMA CountType ==
  ASSUME IInv
  PROVE  Count \in 0..(NUM_TRB - 1) /\ Oldest \in 0..(NUM_TRB - 1) /\ hw_index \in 0..(NUM_TRB - 1)
<1>1. Oldest \in Slots /\ hw_index \in Slots
  BY DEF IInv, TypeOK, Oldest
<1> QED
  BY <1>1, RingAssumption DEF Count, Slots

\* The cycle bits tell exactly the events the xHC has posted.
LEMMA PostedIff ==
  ASSUME IInv, NEW k \in 0..(NUM_TRB - 1)
  PROVE  Posted(k) <=> k < Count
<1> DEFINE s == Wrap(Oldest + k)
<1>1. /\ NUM_TRB \in Nat /\ Oldest \in Int /\ Oldest >= 0 /\ Oldest < NUM_TRB
      /\ hw_index \in Int /\ hw_index >= 0 /\ hw_index < NUM_TRB
      /\ k \in Int /\ k >= 0 /\ k < NUM_TRB
  BY CountType, RingAssumption
<1>2. (Oldest + k) % NUM_TRB = s /\ s \in Slots
  BY <1>1, WrapIsMod
<1>3. (trb[s].cycle = hw_pcs) <=> (s < hw_index)
  BY <1>2 DEF IInv, CycleBits
<1>4. (hw_pcs = cycle_state_ours) <=> (Oldest <= hw_index)
  BY DEF IInv, SameLap
<1>5. trb[s].cycle \in BOOLEAN /\ hw_pcs \in BOOLEAN /\ cycle_state_ours \in BOOLEAN
  BY <1>2 DEF IInv, TypeOK, TrbType
<1>6. CASE Oldest + k < NUM_TRB
  <2>1. s = Oldest + k
    BY <1>6 DEF Wrap
  <2>2. Posted(k) <=> trb[s].cycle = cycle_state_ours
    BY <1>1, <1>2, <1>6 DEF Posted
  <2>3. CASE Oldest <= hw_index
    <3>1. k < Count <=> s < hw_index
      BY <1>1, <2>1, <2>3 DEF Count
    <3> QED
      BY <1>3, <1>4, <2>2, <2>3, <3>1
  <2>4. CASE hw_index < Oldest
    <3>1. k < Count /\ ~(s < hw_index)
      BY <1>1, <1>6, <2>1, <2>4 DEF Count
    <3>2. trb[s].cycle # hw_pcs /\ hw_pcs # cycle_state_ours
      BY <1>1, <1>3, <1>4, <2>4, <3>1
    <3>3. trb[s].cycle = cycle_state_ours
      BY <1>5, <3>2, CycleBitIsBoolean, Zenon
    <3> QED
      BY <2>2, <3>1, <3>3
  <2> QED
    BY <1>1, <2>3, <2>4
<1>7. CASE Oldest + k >= NUM_TRB
  <2>1. s = Oldest + k - NUM_TRB
    BY <1>1, <1>7 DEF Wrap
  <2>2. Posted(k) <=> trb[s].cycle = ~cycle_state_ours
    BY <1>2, <1>7 DEF Posted
  <2>3. CASE Oldest <= hw_index
    <3>1. ~(k < Count) /\ s < hw_index
      BY <1>1, <1>7, <2>1, <2>3 DEF Count
    <3>2. trb[s].cycle = cycle_state_ours
      BY <1>3, <1>4, <2>3, <3>1
    <3>3. trb[s].cycle # ~cycle_state_ours
      BY <1>5, <3>2, Zenon
    <3> QED
      BY <2>2, <3>1, <3>3
  <2>4. CASE hw_index < Oldest
    <3>1. k < Count <=> s < hw_index
      BY <1>1, <1>7, <2>1, <2>4 DEF Count
    <3>2. hw_pcs # cycle_state_ours
      BY <1>1, <1>4, <2>4
    <3>3. hw_pcs = ~cycle_state_ours
      BY <1>5, <3>2, CycleBitIsBoolean, Zenon
    <3> QED
      BY <1>3, <2>2, <3>1, <3>3
  <2> QED
    BY <1>1, <2>3, <2>4
<1> QED
  BY <1>1, <1>6, <1>7

\* So the events the queue is made of are those between the two indices.
LEMMA EventsAreContents == IInv => Events = Contents
<1> SUFFICES ASSUME IInv PROVE Events = Contents
  OBVIOUS
<1> DEFINE IsNumber(m) ==
      /\ \A k \in 0..(m - 1) : Posted(k)
      /\ m < NUM_TRB => ~Posted(m)
<1> DEFINE n == CHOOSE m \in 0..NUM_TRB : IsNumber(m)
<1>1. NUM_TRB \in Nat /\ Count \in 0..(NUM_TRB - 1)
  BY CountType, RingAssumption
<1>2. \A k \in 0..(NUM_TRB - 1) : Posted(k) <=> k < Count
  BY PostedIff
<1>3. IsNumber(Count)
  BY <1>1, <1>2
<1>4. ASSUME NEW m \in 0..NUM_TRB, IsNumber(m)
      PROVE  m = Count
  <2>1. CASE m < Count
    BY <1>1, <1>2, <1>4, <2>1
  <2>2. CASE m > Count
    <3>1. Count \in 0..(m - 1)
      BY <1>1, <2>2
    <3> QED
      BY <1>1, <1>2, <1>4, <3>1
  <2> QED
    BY <1>1, <2>1, <2>2
<1>5. n = Count
  <2>1. Count \in 0..NUM_TRB
    BY <1>1
  <2> HIDE DEF IsNumber
  <2>2. n \in 0..NUM_TRB /\ IsNumber(n)
    BY <1>3, <2>1
  <2> QED
    BY <1>4, <2>2
<1>6. Events = [k \in 1..n |-> trb[(Oldest + k - 1) % NUM_TRB].body]
  BY Zenon DEF Events
<1>7. ASSUME NEW k \in 1..Count
      PROVE  (Oldest + k - 1) % NUM_TRB = Wrap(Oldest + k - 1)
  <2>1. Oldest + k - 1 \in 0..(2 * NUM_TRB - 1)
    BY <1>1, CountType
  <2> QED
    BY <2>1, WrapIsMod
<1> HIDE DEF n
<1> QED
  BY <1>5, <1>6, <1>7 DEF Contents

\* The contents are a sequence of Count TRBs.
LEMMA ContentsType ==
  ASSUME IInv
  PROVE  /\ Contents \in Seq(Bodies \cup {Zero})
         /\ Len(Contents) = Count
         /\ \A k \in 1..Count : Contents[k] = trb[Wrap(Oldest + k - 1)].body
<1>1. Count \in Nat
  BY CountType, RingAssumption
<1>2. ASSUME NEW k \in 1..Count
      PROVE  trb[Wrap(Oldest + k - 1)].body \in Bodies \cup {Zero}
  <2>1. Oldest + k - 1 \in 0..(2 * NUM_TRB - 1)
    BY CountType, RingAssumption
  <2> QED
    BY <2>1, WrapIsMod DEF IInv, TypeOK, TrbType
<1>3. Contents \in [1..Count -> Bodies \cup {Zero}]
  BY <1>2 DEF Contents
<1> QED
  BY <1>1, <1>3 DEF Contents

\* HwPost pushes its event.
LEMMA HwPostPushes ==
  ASSUME IInv, NEW body \in Bodies, HwPost(body), IInv'
  PROVE  /\ Len(Contents) < NUM_TRB - 1
         /\ Contents' = Append(Contents, body)
         /\ UNCHANGED out
<1>1. /\ NUM_TRB \in Nat /\ Count \in 0..(NUM_TRB - 1) /\ Oldest \in 0..(NUM_TRB - 1)
      /\ hw_index \in 0..(NUM_TRB - 1)
  BY CountType, RingAssumption
<1>2. /\ hw_index' = NextSlot(hw_index) /\ Oldest' = Oldest /\ UNCHANGED out
      /\ trb' = [trb EXCEPT ![hw_index] = [body |-> body, cycle |-> hw_pcs]]
  BY IncIsNextSlot DEF HwPost, IInv, TypeOK, driver, Oldest
<1>3. NextSlot(hw_index) # Oldest
  BY RoomToPost DEF HwPost
<1>4. Count < NUM_TRB - 1 /\ Count' = Count + 1 /\ Wrap(Oldest + Count) = hw_index
  BY <1>1, <1>2, <1>3 DEF Count, NextSlot, Wrap
<1>5. /\ Contents \in Seq(Bodies \cup {Zero}) /\ Len(Contents) = Count
      /\ \A k \in 1..Count : Contents[k] = trb[Wrap(Oldest + k - 1)].body
  BY ContentsType
<1>6. \A k \in 1..Count : Wrap(Oldest + k - 1) # hw_index /\ Wrap(Oldest + k - 1) \in Slots
  BY <1>1, <1>4 DEF Wrap, Slots
<1>7. trb \in [Slots -> TrbType] /\ hw_index \in Slots
  BY DEF IInv, TypeOK
<1>8. Contents' = [k \in 1..(Count + 1) |-> trb'[Wrap(Oldest + k - 1)].body]
  BY <1>2, <1>4 DEF Contents, Wrap
<1>9. ASSUME NEW k \in 1..Count
      PROVE  trb'[Wrap(Oldest + k - 1)].body = Contents[k]
  <2>1. trb'[Wrap(Oldest + k - 1)] = trb[Wrap(Oldest + k - 1)]
    BY <1>2, <1>6, <1>7
  <2> QED
    BY <1>5, <2>1
<1>10. trb'[Wrap(Oldest + Count)].body = body
  BY <1>2, <1>4, <1>7
<1>11. Contents' = [k \in 1..(Count + 1) |-> IF k <= Count THEN Contents[k] ELSE body]
  <2>1. ASSUME NEW k \in 1..(Count + 1)
        PROVE  trb'[Wrap(Oldest + k - 1)].body = IF k <= Count THEN Contents[k] ELSE body
    <3>1. CASE k <= Count
      BY <1>1, <1>9, <3>1
    <3>2. CASE k = Count + 1
      <4>1. Oldest + k - 1 = Oldest + Count /\ ~(k <= Count)
        BY <1>1, <3>2
      <4> QED
        BY <1>10, <4>1
    <3> QED
      BY <1>1, <3>1, <3>2
  <2> QED
    BY <1>8, <2>1
<1>12. Append(Contents, body) = [k \in 1..(Count + 1) |-> IF k <= Count THEN Contents[k] ELSE body]
  <2> DEFINE t == [k \in 1..(Count + 1) |-> IF k <= Count THEN Contents[k] ELSE body]
  <2>1. t \in Seq(Bodies \cup {Zero}) /\ Len(t) = Count + 1
    BY <1>1, <1>5
  <2>2. /\ Append(Contents, body) \in Seq(Bodies \cup {Zero})
        /\ Len(Append(Contents, body)) = Count + 1
        /\ \A k \in 1..Count : Append(Contents, body)[k] = Contents[k]
        /\ Append(Contents, body)[Count + 1] = body
    BY <1>5, AppendProperties
  <2>3. \A k \in 1..(Count + 1) : t[k] = Append(Contents, body)[k]
    BY <1>1, <2>2
  <2> HIDE DEF t
  <2>4. t = Append(Contents, body)
    BY <2>1, <2>2, <2>3, SeqEqual
  <2> QED
    BY <2>4 DEF t
<1> QED
  BY <1>2, <1>4, <1>5, <1>11, <1>12

\* The end of pop returns the first event and removes it.
LEMMA PopFinishPops ==
  ASSUME IInv, PopFinish, IInv'
  PROVE  /\ Contents # << >>
         /\ out' = Head(Contents)
         /\ Contents' = Tail(Contents)
<1>1. /\ NUM_TRB \in Nat /\ Count \in 0..(NUM_TRB - 1) /\ Oldest \in 0..(NUM_TRB - 1)
      /\ hw_index \in 0..(NUM_TRB - 1)
  BY CountType, RingAssumption
<1>2. /\ Oldest' = NextSlot(Oldest) /\ hw_index' = hw_index /\ trb' = trb
      /\ out' = trb[Oldest].body /\ hw_index # Oldest
  BY PopFinishIInv DEF IInv, PopBusy, PopFinish, hw, Oldest
<1>3. Count > 0 /\ Count' = Count - 1
  BY <1>1, <1>2 DEF Count, NextSlot
<1>4. /\ Contents \in Seq(Bodies \cup {Zero}) /\ Len(Contents) = Count
      /\ \A k \in 1..Count : Contents[k] = trb[Wrap(Oldest + k - 1)].body
  BY ContentsType
<1>5. Contents # << >> /\ Head(Contents) = Contents[1]
  BY <1>3, <1>4
<1>6. Wrap(Oldest + 1 - 1) = Oldest
  BY <1>1 DEF Wrap
<1>7. \A k \in 1..(Count - 1) : Wrap(NextSlot(Oldest) + k - 1) = Wrap(Oldest + (k + 1) - 1)
  BY <1>1 DEF Wrap, NextSlot
<1>8. Contents' = [k \in 1..(Count - 1) |-> Contents[k + 1]]
  <2>1. Contents' = [k \in 1..(Count - 1) |-> trb[Wrap(NextSlot(Oldest) + k - 1)].body]
    BY <1>2, <1>3 DEF Contents, Wrap
  <2>2. \A k \in 1..(Count - 1) : trb[Wrap(NextSlot(Oldest) + k - 1)].body = Contents[k + 1]
    BY <1>1, <1>4, <1>7
  <2> QED
    BY <2>1, <2>2
<1>9. Tail(Contents) = [k \in 1..(Count - 1) |-> Contents[k + 1]]
  <2> DEFINE t == [k \in 1..(Count - 1) |-> Contents[k + 1]]
  <2>1. t \in Seq(Bodies \cup {Zero}) /\ Len(t) = Count - 1
    BY <1>1, <1>3, <1>4
  <2>2. /\ Tail(Contents) \in Seq(Bodies \cup {Zero})
        /\ Len(Tail(Contents)) = Count - 1
        /\ \A k \in 1..(Count - 1) : Tail(Contents)[k] = Contents[k + 1]
    BY <1>4, <1>5, HeadTailProperties
  <2>3. \A k \in 1..(Count - 1) : t[k] = Tail(Contents)[k]
    BY <2>2
  <2> HIDE DEF t
  <2>4. t = Tail(Contents)
    BY <2>1, <2>2, <2>3, SeqEqual
  <2> QED
    BY <2>4 DEF t
<1> QED
  BY <1>1, <1>2, <1>3, <1>4, <1>5, <1>6, <1>8, <1>9

\* The first two steps of pop leave the queue alone.
LEMMA PopStutters ==
  ASSUME IInv, PopRead \/ PopAdvance \/ UNCHANGED vars
  PROVE  Contents' = Contents /\ out' = out
<1>1. Oldest' = Oldest
  BY PopAdvanceIInv DEF PopRead, vars, driver, Oldest
<1>2. UNCHANGED <<trb, hw_index, out>>
  BY DEF PopRead, PopAdvance, vars, driver, hw
<1> QED
  BY <1>1, <1>2 DEF Contents, Count, Wrap

\* Every reachable state satisfies the inductive invariant.
THEOREM SpecIInv == Spec => []IInv
<1> QED
  BY InitIInv, NextIInv, PTL DEF Spec

\* EventRing::pop never returns Err: the cycle bit advance_index_notoggle
\* checks again is still the one has_next_event saw.
THEOREM PopNeverFails == Spec => []~err
<1>1. IInv => ~err
  BY DEF IInv
<1> QED
  BY <1>1, SpecIInv, PTL

\* The safety part of IsQueue, for a ring of any size: the events posted are
\* returned once each, whole and in the order they were posted, and none is
\* overwritten before it is read.
THEOREM RingImplementsQueue == Spec => Queue!Init /\ [][Queue!Next]_(Queue!vars)
<1>1. Init => Queue!Init
  <2> SUFFICES ASSUME Init PROVE Queue!Init
    OBVIOUS
  <2>1. Events = Contents
    BY InitIInv, EventsAreContents
  <2>2. Contents = << >>
    BY DEF Init, Contents, Count, Oldest
  <2> QED
    BY <2>1, <2>2 DEF Init, Queue!Init
<1>2. IInv => Events = Contents
  BY EventsAreContents
<1>3. IInv' => (Events = Contents)'
  BY <1>2, PTL
<1>4. IInv /\ IInv' /\ [Next]_vars => [Queue!Next]_(Queue!vars)
  <2> SUFFICES ASSUME IInv, IInv', [Next]_vars
               PROVE  [Queue!Next]_(Queue!vars)
    OBVIOUS
  <2>1. Events = Contents /\ Events' = Contents'
    BY <1>2, <1>3
  <2>2. ASSUME NEW body \in Bodies, HwPost(body)
        PROVE  Queue!Push(body)
    BY <2>1, <2>2, HwPostPushes DEF Queue!Push
  <2>3. CASE PopFinish
    BY <2>1, <2>3, PopFinishPops DEF Queue!Pop, Queue!Next
  <2>4. CASE PopRead \/ PopAdvance \/ UNCHANGED vars
    BY <2>1, <2>4, PopStutters DEF Queue!vars
  <2> QED
    BY <2>2, <2>3, <2>4 DEF Next, Pop, Queue!Next
<1> QED
  BY <1>1, <1>4, SpecIInv, PTL DEF Spec
=============================================================================
