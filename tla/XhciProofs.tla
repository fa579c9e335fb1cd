----------------------------- MODULE XhciProofs -----------------------------
(***************************************************************************)
(* A request of the driver gets the event of its own TRB and no other, for *)
(* rings of any size from 4, any number of events the xHC may hold, and    *)
(* any number of requests: addresses are used again in each lap, errors    *)
(* leave TRBs and events behind, and the waiters of earlier requests stay  *)
(* in the list for a while.                                                *)
(***************************************************************************)
EXTENDS Xhci, SequenceTheorems, FiniteSetTheorems, TLAPS

\* The ring of the request, the TRBs on it, and the place of the awaited one,
\* counted from the end of the ring.
Ring == RingOf(kind)
Length == Len(ring[Ring])
Place == pushed + 1 - Awaited(kind)

\* The TRBs of a request.
Size(k) ==
  IF k = "none" THEN 0 ELSE IF k \in Commands THEN 1 ELSE IF k = "set protocol" THEN 2 ELSE 3

\* The address d TRBs before the next one of a ring.
Back(r, n, d) == <<r, (n + Usable - d) % Usable>>
AddrBack(r, d) == Back(r, next[r], d)

Active == {"push", "notify", "register", "await"}
Finished == {"start", "failed", "done"}

\* A TRB that asks for no event and has no buffer.
Quiet(t) ==
  /\ INTERRUPT_ON_COMPLETION \notin t.control /\ INTERRUPT_ON_SHORT_PACKET \notin t.control
  /\ trb_type(t) # TrbType.DataStage

Addresses == Rings \X (0..(Usable - 1)) \cup {NoAddr}
Words == SUBSET Int
PlacedTrb == [addr : Addresses, req : Nat, option : Words, control : Words]
Waiter == [addr : Addresses, req : Nat]

TypeOK ==
  /\ pc \in Active \cup Finished
  /\ req \in Nat /\ kind \in Kinds \cup {"none"} /\ pushed \in 0..3
  /\ waiting \in Addresses /\ wait_list \in Seq(Waiter)
  /\ next \in [Rings -> 0..(Usable - 1)]
  /\ ring \in [Rings -> Seq(PlacedTrb)]
  /\ halted \in [Rings -> BOOLEAN]
  /\ events \in Seq(PlacedTrb) /\ trbs \in Seq(PlacedTrb)

\* How far the request is.
RequestState ==
  /\ kind = "none" => pc \in {"start", "done"}
  /\ pushed <= Size(kind)
  /\ pc = "push" => pushed < Size(kind)
  /\ pc # "push" => pushed = Size(kind)

\* The TRBs on the ring are the last ones pushed.  Of earlier requests a status
\* stage may be left, and when the request has its event all up to the awaited
\* TRB are gone.  The other ring is empty.  Only the awaited TRB asks for an
\* event.
RingState ==
  /\ \A r \in Rings \ {Ring} : ring[r] = << >> /\ ~halted[r]
  /\ Length <= IF kind \in Commands \cup {"none"} THEN pushed ELSE pushed + 1
  /\ kind \in Commands \cup {"none"} => ~halted[Ring]
  /\ pc \in Finished /\ kind # "none" => Length < Place
  /\ \A i \in 1..Length :
       /\ ring[Ring][i].addr = AddrBack(Ring, Length + 1 - i)
       /\ IF Length + 1 - i = Place THEN ring[Ring][i].req = req ELSE Quiet(ring[Ring][i])

WaitingState == Place >= 1 => waiting = AddrBack(Ring, Place)

\* The event of the request: it is posted once.
OwnEvent(e) ==
  /\ pc \in Active /\ Place >= 1 /\ Length < Place /\ trbs = << >>
  /\ e.addr = waiting /\ e.req = req

\* The event of a TRB that is not awaited: it failed and was the last to run.
StaleEvent(e) ==
  /\ halted[Ring] /\ Length <= pushed /\ Length + 1 # Place
  /\ e.addr = AddrBack(Ring, Length + 1)

EventState ==
  /\ \A i \in 1..Len(events) :
       events[i].addr = NoAddr \/ OwnEvent(events[i]) \/ StaleEvent(events[i])
  /\ \A i, j \in 1..Len(events) : OwnEvent(events[i]) /\ OwnEvent(events[j]) => i = j

\* What the request has been given.
TrbsState ==
  /\ Len(trbs) <= 1
  /\ trbs # << >> =>
       /\ pc = "await" /\ Length < Place
       /\ trbs[1].req = req /\ trbs[1].addr = waiting
       /\ turn # "cleanup" => \A k \in DOMAIN wait_list : wait_list[k].req = req

\* The awaited request has its waiter, and at most one more is in the list: that
\* of an earlier request is dropped before this one goes on with its event.
\* While waiters are removed, the places still to be removed are right.
WaitState ==
  /\ \A k \in DOMAIN wait_list : wait_list[k].req <= req
  /\ pc \in {"push", "notify", "register"} => \A k \in DOMAIN wait_list : wait_list[k].req < req
  /\ pc = "await" => /\ \E k \in DOMAIN wait_list : wait_list[k].req = req
                     /\ \A k \in DOMAIN wait_list : wait_list[k].req = req => wait_list[k].addr = waiting
  /\ \A j, k \in DOMAIN wait_list : (IsAlive(wait_list[j]) <=> IsAlive(wait_list[k])) => j = k
  /\ stale = IF turn = "cleanup" THEN stale_waiter_indices(wait_list) ELSE {}

\* The inductive invariant.
IInv == TypeOK /\ RequestState /\ RingState /\ WaitingState /\ EventState /\ TrbsState /\ WaitState

-----------------------------------------------------------------------------
(* Addresses.                                                              *)

\* Counting back from an address, at most one lap.
LEMMA BackOne ==
  ASSUME NEW u \in Nat, u >= 4, NEW n \in 0..(u - 1), NEW d \in 0..(u - 1)
  PROVE  /\ (((n + 1) % u) + u - (d + 1)) % u = (n + u - d) % u
         /\ (n + 1) % u \in 0..(u - 1)
<1>1. \A x \in 0..(2 * u - 1) : x % u = IF x < u THEN x ELSE x - u
  <2>1. ASSUME NEW x \in 0..(2 * u - 1), x < u PROVE x % u = x
    BY <2>1
  <2>2. ASSUME NEW x \in 0..(2 * u - 1), x >= u PROVE x % u = x - u
    BY <2>2, Z3T(30)
  <2> QED
    BY <2>1, <2>2
<1>2. CASE n + 1 < u
  <2>1. (n + 1) % u = n + 1
    BY <1>1, <1>2
  <2>2. (n + 1) + u - (d + 1) = n + u - d
    OBVIOUS
  <2> QED
    BY <1>2, <2>1, <2>2
<1>3. CASE n + 1 = u
  <2>1. (n + 1) % u = 0
    BY <1>1, <1>3
  <2>2. 0 + u - (d + 1) \in 0..(u - 1) /\ n + u - d = (0 + u - (d + 1)) + u
    BY <1>3
  <2>3. (0 + u - (d + 1)) % u = 0 + u - (d + 1) /\ (n + u - d) % u = 0 + u - (d + 1)
    BY <1>1, <2>2
  <2> QED
    BY <2>1, <2>3
<1> QED
  BY <1>2, <1>3

\* The addresses of a lap are distinct.
LEMMA BackInjective ==
  ASSUME NEW u \in Nat, u >= 4, NEW n \in 0..(u - 1), NEW d \in 1..u, NEW e \in 1..u,
         (n + u - d) % u = (n + u - e) % u
  PROVE  d = e
<1>1. \A x \in 0..(2 * u - 1) : x % u = IF x < u THEN x ELSE x - u
  <2>1. ASSUME NEW x \in 0..(2 * u - 1), x < u PROVE x % u = x
    BY <2>1
  <2>2. ASSUME NEW x \in 0..(2 * u - 1), x >= u PROVE x % u = x - u
    BY <2>2, Z3T(30)
  <2> QED
    BY <2>1, <2>2
<1>2. n + u - d \in 0..(2 * u - 1) /\ n + u - e \in 0..(2 * u - 1)
  OBVIOUS
<1>3. /\ (n + u - d) % u = IF n + u - d < u THEN n + u - d ELSE n + u - d - u
      /\ (n + u - e) % u = IF n + u - e < u THEN n + u - e ELSE n + u - e - u
  BY <1>1, <1>2
<1> QED
  BY <1>3

\* The address of a place on the ring is that of no other.
LEMMA AddrDistinct ==
  ASSUME TypeOK, NEW r \in Rings, NEW d \in 1..4, NEW e \in 1..4,
         AddrBack(r, d) = AddrBack(r, e)
  PROVE  d = e
<1>1. next[r] \in 0..(Usable - 1) /\ Usable \in Nat /\ Usable >= 4
  BY SizeAssumption DEF TypeOK
<1>2. (next[r] + Usable - d) % Usable = (next[r] + Usable - e) % Usable
  BY DEF AddrBack, Back
<1> QED
  BY <1>1, <1>2, BackInjective

\* An address of a ring.
LEMMA AddrType ==
  ASSUME TypeOK, NEW r \in Rings, NEW d \in 1..4
  PROVE  AddrBack(r, d) \in Addresses /\ AddrBack(r, d) # NoAddr
<1>1. next[r] \in 0..(Usable - 1) /\ Usable \in Nat /\ Usable >= 4
  BY SizeAssumption DEF TypeOK
<1>2. next[r] + Usable - d \in Nat
  BY <1>1
<1>3. (next[r] + Usable - d) % Usable \in 0..(Usable - 1)
  BY <1>1, <1>2
<1>4. r # "port"
  BY DEF Rings, Command, Control
<1> QED
  BY <1>3, <1>4 DEF AddrBack, Back, Addresses, NoAddr

-----------------------------------------------------------------------------
(* Requests.                                                               *)

\* What the kinds of requests have in common.
LEMMA KindFacts ==
  ASSUME NEW k \in Kinds \cup {"none"}
  PROVE  /\ RingOf(k) \in Rings /\ Awaited(k) \in 1..2 /\ Size(k) \in 0..3
         /\ k \in Commands => RingOf(k) = Command /\ Awaited(k) = 1 /\ Size(k) = 1
         /\ k \notin Commands => RingOf(k) = Control /\ Awaited(k) = 2
         /\ k \notin Commands /\ k # "none" => Size(k) \in 2..3
         /\ k = "none" => k \notin Commands /\ Size(k) = 0
         /\ Command # Control /\ Rings = {Command, Control}
<1>1. Command # Control /\ Rings = {Command, Control} /\ "none" \notin Commands
  BY DEF Rings, Command, Control, Commands
<1>2. RingOf(k) = IF k \in Commands THEN Command ELSE Control
  BY DEF RingOf
<1>3. Awaited(k) = IF k \in Commands THEN 1 ELSE 2
  BY DEF Awaited
<1>4. Size(k) = IF k = "none" THEN 0 ELSE IF k \in Commands THEN 1
                ELSE IF k = "set protocol" THEN 2 ELSE 3
  BY DEF Size
<1>5. CASE k \in Commands
  <2>1. k # "none" /\ RingOf(k) = Command /\ Awaited(k) = 1 /\ Size(k) = 1
    BY <1>1, <1>2, <1>3, <1>4, <1>5, Zenon
  <2> QED
    BY <1>1, <1>5, <2>1
<1>6. CASE k = "none"
  <2>1. k \notin Commands /\ RingOf(k) = Control /\ Awaited(k) = 2 /\ Size(k) = 0
    BY <1>1, <1>2, <1>3, <1>4, <1>6, Zenon
  <2> QED
    BY <1>1, <1>6, <2>1
<1>7. CASE k \notin Commands /\ k # "none"
  <2>1. RingOf(k) = Control /\ Awaited(k) = 2 /\ (Size(k) = 2 \/ Size(k) = 3)
    BY <1>1, <1>2, <1>3, <1>4, <1>7, Zenon
  <2> QED
    BY <1>1, <1>7, <2>1
<1> QED
  BY <1>5, <1>6, <1>7, Zenon

\* The order of the requests: control transfers come after the commands.
LEMMA Order ==
  ASSUME NEW k \in Kinds \cup {"none"}, NEW j \in Kinds,
         j \in AfterOk(k) \/ j \in AfterErr(k)
  PROVE  /\ k = "none" => j \in Commands
         /\ j \in Commands => k \in Commands \cup {"none"}
<1>1. CASE j \in AfterOk(k)
  BY <1>1 DEF AfterOk, Kinds, Commands
<1>2. CASE j \in AfterErr(k)
  BY <1>2 DEF AfterErr, Kinds, Commands
<1> QED
  BY <1>1, <1>2

\* The fields of a TRB are words.
LEMMA WordFacts ==
  /\ \A n : Bin(n) \in Words /\ Bin(n) \subseteq Nat
  /\ \A w, n, m : Shl(w, n, m) \in Words
  /\ \A w, n, m : w \in Words => \A x : (x \cup w) \in Words <=> x \in Words
<1>1. \A n : Mask(n) \in Words
  BY DEF Mask, Words
<1> QED
  BY <1>1 DEF Words, Bin, Shl
\* Shifted bits are not below the shift.
LEMMA ShlLow ==
  ASSUME NEW n, NEW s \in Nat, NEW b \in Nat, b < s
  PROVE  b \notin Shl(Bin(n), s, 32)
<1>1. \A c \in Bin(n) : c \in Nat
  BY WordFacts
<1>2. \A c \in Bin(n) : c + s # b
  BY <1>1
<1> QED
  BY <1>2 DEF Shl

\* The stages of a control transfer that are not awaited ask for no event.
LEMMA StageBits ==
  /\ \A q, n : /\ SetupStageTrb(q, n).option \in Words /\ SetupStageTrb(q, n).control \in Words
               /\ 5 \notin SetupStageTrb(q, n).control /\ 2 \notin SetupStageTrb(q, n).control
  /\ \A n : DataStageTrb_new_in(n).option \in Words /\ DataStageTrb_new_in(n).control \in Words
  /\ StatusStageTrb_new_out.option \in Words /\ StatusStageTrb_new_out.control \in Words
  /\ 5 \notin StatusStageTrb_new_out.control /\ 2 \notin StatusStageTrb_new_out.control
  /\ StatusStageTrb_new_in.option \in Words /\ StatusStageTrb_new_in.control \in Words
<1>1. \A n : /\ TypeField(n) \in Words /\ 5 \notin TypeField(n) /\ 2 \notin TypeField(n)
  <2>1. \A n : 5 \notin Shl(Bin(n), 10, 32) /\ 2 \notin Shl(Bin(n), 10, 32)
    BY ShlLow
  <2> QED
    BY <2>1, WordFacts DEF TypeField
<1>2. \A n : Shl(Bin(n), 16, 32) \in Words /\ 5 \notin Shl(Bin(n), 16, 32) /\ 2 \notin Shl(Bin(n), 16, 32)
  <2>1. \A n : 5 \notin Shl(Bin(n), 16, 32) /\ 2 \notin Shl(Bin(n), 16, 32)
    BY ShlLow
  <2> QED
    BY <2>1, WordFacts
<1>3. \A n : Bin(n) \in Words
  BY WordFacts
<1>4. {} \in Words /\ {IMMEDIATE_DATA} \in Words
      /\ {DATA_DIR_IN, INTERRUPT_ON_COMPLETION, INTERRUPT_ON_SHORT_PACKET} \in Words
      /\ IMMEDIATE_DATA # 5 /\ IMMEDIATE_DATA # 2
  BY DEF Words, IMMEDIATE_DATA, DATA_DIR_IN, INTERRUPT_ON_COMPLETION, INTERRUPT_ON_SHORT_PACKET
<1>5. \A x, y : x \in Words /\ y \in Words => x \cup y \in Words
  BY DEF Words
<1>6. ASSUME NEW q, NEW n
      PROVE  /\ SetupStageTrb(q, n).option \in Words /\ SetupStageTrb(q, n).control \in Words
             /\ 5 \notin SetupStageTrb(q, n).control /\ 2 \notin SetupStageTrb(q, n).control
  <2>1. /\ SetupStageTrb(q, n).option = Bin(8)
        /\ SetupStageTrb(q, n).control = Shl(Bin(TransferType(q, n)), 16, 32)
              \cup TypeField(TrbType.SetupStage) \cup {IMMEDIATE_DATA}
    BY DEF SetupStageTrb, Trb
  <2> DEFINE x == Shl(Bin(TransferType(q, n)), 16, 32)
  <2> DEFINE y == TypeField(TrbType.SetupStage)
  <2>2. /\ x \in Words /\ 5 \notin x /\ 2 \notin x
        /\ y \in Words /\ 5 \notin y /\ 2 \notin y
    BY <1>1, <1>2, Zenon
  <2> HIDE DEF x, y
  <2>3. /\ (x \cup y \cup {IMMEDIATE_DATA}) \in Words
        /\ 5 \notin x \cup y \cup {IMMEDIATE_DATA} /\ 2 \notin x \cup y \cup {IMMEDIATE_DATA}
    BY <1>4, <1>5, <2>2, Zenon
  <2> QED
    BY <1>3, <2>1, <2>3 DEF x, y
<1>7. ASSUME NEW n
      PROVE  DataStageTrb_new_in(n).option \in Words /\ DataStageTrb_new_in(n).control \in Words
  BY <1>1, <1>3, <1>4, <1>5 DEF DataStageTrb_new_in, Trb
<1>8. /\ StatusStageTrb_new_out.option = {} /\ StatusStageTrb_new_in.option = {}
      /\ StatusStageTrb_new_out.control = TypeField(TrbType.StatusStage)
      /\ StatusStageTrb_new_in.control = TypeField(TrbType.StatusStage)
           \cup {DATA_DIR_IN, INTERRUPT_ON_COMPLETION, INTERRUPT_ON_SHORT_PACKET}
  BY DEF StatusStageTrb_new_out, StatusStageTrb_new_in, Trb
<1> QED
  BY <1>1, <1>4, <1>5, <1>6, <1>7, <1>8

\* The TRBs of a request.
LEMMA TrbFacts ==
  ASSUME NEW k \in Kinds, NEW id, NEW i \in 1..Size(k)
  PROVE  /\ Len(Trbs(k, id)) = Size(k)
         /\ Trbs(k, id)[i].option \in Words /\ Trbs(k, id)[i].control \in Words
         /\ k \notin Commands /\ i # Awaited(k) => Quiet(Trbs(k, id)[i])
<1>1. ASSUME NEW w \in Words, NEW a, NEW b, NEW v PROVE write_bits(w, 32, a, b, v) \in Words
  <2>1. Shl(v, a, 32) \in Words
    BY WordFacts
  <2> QED
    BY <2>1 DEF write_bits, Words
<1>2. CASE k \in Commands
  <2>1. i = 1 /\ Size(k) = 1
    BY <1>2, KindFacts
  <2>2. /\ cmd_enable_slot = [option |-> {}, control |-> write_bits({}, 32, 10, 6, Bin(9))]
        /\ cmd_address_device(id) =
             [option |-> {},
              control |-> write_bits(write_bits({}, 32, 10, 6, Bin(11)), 32, 24, 8, Bin(id))]
    <3>1. TrbType.EnableSlotCommand = 9 /\ TrbType.AddressDeviceCommand = 11
      BY DEF TrbType
    <3>2. \A w, n : set_trb_type([option |-> {}, control |-> w], n) =
                      [option |-> {}, control |-> write_bits(w, 32, 10, 6, Bin(n))]
      BY DEF set_trb_type
    <3>3. \A w, n : set_slot_id([option |-> {}, control |-> w], n) =
                      [option |-> {}, control |-> write_bits(w, 32, 24, 8, Bin(n))]
      BY DEF set_slot_id
    <3>4. \A n : set_trb_type(Trb({}, {}), n) =
                   [option |-> {}, control |-> write_bits({}, 32, 10, 6, Bin(n))]
      BY <3>2, Zenon DEF Trb
    <3>5. cmd_enable_slot = [option |-> {}, control |-> write_bits({}, 32, 10, 6, Bin(9))]
      BY <3>1, <3>4 DEF cmd_enable_slot
    <3> DEFINE c == write_bits({}, 32, 10, 6, Bin(11))
    <3>6. set_trb_type(Trb({}, {}), TrbType.AddressDeviceCommand) = [option |-> {}, control |-> c]
      BY <3>1, <3>4
    <3> HIDE DEF c
    <3>7. set_slot_id([option |-> {}, control |-> c], id) =
            [option |-> {}, control |-> write_bits(c, 32, 24, 8, Bin(id))]
      BY <3>3
    <3>8. cmd_address_device(id) = [option |-> {}, control |-> write_bits(c, 32, 24, 8, Bin(id))]
      BY <3>6, <3>7 DEF cmd_address_device
    <3> QED
      BY <3>5, <3>8 DEF c
  <2>3. {} \in Words
    BY DEF Words
  <2>4. /\ cmd_enable_slot.option \in Words /\ cmd_enable_slot.control \in Words
        /\ cmd_address_device(id).option \in Words /\ cmd_address_device(id).control \in Words
    BY <1>1, <2>2, <2>3
  <2>5. Trbs(k, id) = << cmd_enable_slot >> \/ Trbs(k, id) = << cmd_address_device(id) >>
    BY <1>2 DEF Trbs, Commands
  <2> HIDE DEF Trbs
  <2> QED
    BY <1>2, <2>1, <2>4, <2>5
<1>3. CASE k \notin Commands
  <2>1. \/ k = "set protocol" /\ Trbs(k, id) = request_set_protocol
        \/ k # "set protocol" /\ Trbs(k, id) \in
             { request_device_descriptor, request_string_descriptor_zero, request_string_descriptor,
               request_config_descriptor, request_config_and_rest, request_hid_report,
               request_hid_report_descriptor }
    BY <1>3 DEF Trbs, Kinds
  <2>2. Trbs(k, id) = Trbs(k, 0)
    BY <1>3 DEF Trbs, Kinds, Commands
  <2>3. k = "set protocol" => Size(k) = 2
    BY <1>3 DEF Size, Commands
  <2>4. k # "set protocol" => Size(k) = 3
    BY <1>3 DEF Size, Kinds, Commands
  <2>5. Awaited(k) = 2
    BY <1>3 DEF Awaited
  <2> DEFINE Stages(s) ==
        /\ Len(s) = Size(k) /\ DOMAIN s = 1..Size(k)
        /\ s[i].option \in Words /\ s[i].control \in Words
        /\ i # 2 => 5 \notin s[i].control /\ 2 \notin s[i].control
  <2>6. ASSUME k = "set protocol" PROVE Stages(Trbs(k, id))
    <3>1. Size(k) = 2 /\ (i = 1 \/ i = 2)
      <4>1. Size(k) = 2
        BY <2>3, <2>6
      <4> QED
        BY <4>1
    <3>2. ASSUME NEW a, NEW b, a.option \in Words, a.control \in Words, b.option \in Words,
                 b.control \in Words, 5 \notin a.control, 2 \notin a.control
          PROVE  Stages(<< a, b >>)
      BY <3>1, <3>2
    <3>3. Stages(<< SetupStageTrb(REQ_SET_PROTOCOL, 0), StatusStageTrb_new_in >>)
      BY <3>2, StageBits, Zenon
    <3> QED
      BY <2>1, <2>6, <3>3, Zenon DEF request_set_protocol
  <2>7. ASSUME k # "set protocol" PROVE Stages(Trbs(k, id))
    <3>1. Size(k) = 3 /\ (i = 1 \/ i = 2 \/ i = 3)
      <4>1. Size(k) = 3
        BY <2>4, <2>7
      <4> QED
        BY <4>1
    <3>2. ASSUME NEW a, NEW b, NEW c, a.option \in Words, a.control \in Words, b.option \in Words,
                 b.control \in Words, c.option \in Words, c.control \in Words,
                 5 \notin a.control, 2 \notin a.control, 5 \notin c.control, 2 \notin c.control
          PROVE  Stages(<< a, b, c >>)
      BY <3>1, <3>2
    <3>3. \A q, n : Stages(InTransfer(q, n))
      BY <3>2, StageBits, Zenon DEF InTransfer
    <3> HIDE DEF Stages
    <3>4. /\ Stages(request_device_descriptor) /\ Stages(request_string_descriptor_zero)
          /\ Stages(request_string_descriptor) /\ Stages(request_config_descriptor)
          /\ Stages(request_config_and_rest) /\ Stages(request_hid_report)
          /\ Stages(request_hid_report_descriptor)
      BY <3>3 DEF request_device_descriptor, request_string_descriptor_zero,
                request_string_descriptor, request_config_descriptor, request_config_and_rest,
                request_hid_report, request_hid_report_descriptor
    <3> QED
      BY <2>1, <2>7, <3>4, Zenon
  <2>8. Stages(Trbs(k, id))
    BY <2>6, <2>7
  <2>9. i # Awaited(k) => trb_type(Trbs(k, id)[i]) # TrbType.DataStage
    BY <1>3, <2>2, <2>8, StageAssumption
  <2> QED
    BY <1>3, <2>5, <2>8, <2>9 DEF Quiet, INTERRUPT_ON_COMPLETION, INTERRUPT_ON_SHORT_PACKET
<1> QED
  BY <1>2, <1>3

-----------------------------------------------------------------------------
(* The steps.                                                              *)

\* How much is on the ring.
LEMMA Bounds ==
  ASSUME IInv
  PROVE  /\ Ring \in Rings /\ ring[Ring] \in Seq(PlacedTrb)
         /\ Length \in Nat /\ Length <= pushed + 1 /\ Length <= 4
         /\ pushed \in 0..3 /\ pushed <= Size(kind)
         /\ Place \in Int /\ Place <= 3 /\ Place <= pushed
         /\ kind \in Kinds \cup {"none"} /\ Awaited(kind) \in 1..2
         /\ Place = pushed + 1 - Awaited(kind)
<1>1. /\ Ring \in Rings /\ Awaited(kind) \in 1..2 /\ kind \in Kinds \cup {"none"}
      /\ pushed \in 0..3
  BY KindFacts DEF Ring, IInv, TypeOK
<1>2. ring[Ring] \in Seq(PlacedTrb)
  BY <1>1 DEF IInv, TypeOK
<1>3. Length \in Nat
  BY <1>2, LenProperties DEF Length
<1>4. Length <= pushed + 1
  BY <1>1, <1>3 DEF IInv, RingState
<1>5. Place \in Int /\ Place <= 3 /\ Place <= pushed
  BY <1>1 DEF Place
<1> QED
  BY <1>1, <1>2, <1>3, <1>4, <1>5 DEF IInv, RequestState, Place

\* The invariant holds initially.
LEMMA InitIInv == Init => IInv
<1> SUFFICES ASSUME Init PROVE IInv
  OBVIOUS
<1>1. /\ kind = "none" /\ pc = "start" /\ pushed = 0 /\ req = 0 /\ waiting = NoAddr
      /\ wait_list = << >> /\ trbs = << >> /\ events = << >> /\ stale = {} /\ turn = "run"
      /\ next = [r \in Rings |-> 0] /\ ring = [r \in Rings |-> << >>]
  BY DEF Init
<1>2. halted = [r \in Rings |-> FALSE]
  BY Zenon DEF Init
<1>3. Ring = Control /\ Size(kind) = 0 /\ Awaited(kind) = 2 /\ kind \notin Commands /\ Control \in Rings
  BY <1>1, KindFacts DEF Ring
<1>4. Length = 0 /\ Place = -1
  BY <1>1, <1>3 DEF Length, Place
<1>5. TypeOK
  <2>1. << >> \in Seq(PlacedTrb) /\ << >> \in Seq(Waiter) /\ 0 \in 0..(Usable - 1)
    BY SizeAssumption
  <2>2. halted \in [Rings -> BOOLEAN]
    BY <1>2, Zenon
  <2> QED
    BY <1>1, <2>1, <2>2 DEF TypeOK, Finished, Addresses
<1>6. RingState
  <2>1. \A r \in Rings : ring[r] = << >>
    BY <1>1
  <2>2. \A r \in Rings : ~halted[r]
    BY <1>2, Zenon
  <2> QED
    BY <1>1, <1>3, <1>4, <2>1, <2>2 DEF RingState
<1> QED
  BY <1>1, <1>3, <1>4, <1>5, <1>6 DEF IInv, RequestState, WaitingState, EventState, TrbsState, WaitState

\* A request starts when the one before has its event; what that has left on
\* its ring is at most a status stage.
LEMMA StartIInv ==
  ASSUME IInv, NEW k \in Kinds, StartRequest(k)
  PROVE  IInv'
<1>1. /\ turn = "run" /\ pc \in {"start", "failed"} /\ k \in AfterOk(kind) \cup AfterErr(kind)
      /\ req' = req + 1 /\ kind' = k /\ pushed' = 0 /\ pc' = "push"
      /\ UNCHANGED <<turn, waiting, wait_list, stale, trbs, next, ring, halted, events>>
  BY DEF StartRequest, waiters, xhc
<1>2. /\ k = "none" => FALSE
      /\ kind = "none" => k \in Commands
      /\ k \in Commands => kind \in Commands \cup {"none"}
  <2>1. kind \in Kinds \cup {"none"}
    BY Bounds
  <2>2. k # "none"
    BY DEF Kinds, Commands
  <2> QED
    BY <1>1, <2>1, <2>2, Order
<1>3. /\ Ring' = RingOf(k) /\ RingOf(k) \in Rings /\ Awaited(k) \in 1..2 /\ Size(k) \in 1..3
      /\ k \in Commands => RingOf(k) = Command
      /\ k \notin Commands => RingOf(k) = Control
      /\ Rings = {Command, Control} /\ Command # Control
  BY <1>1, <1>2, KindFacts DEF Ring
<1>4. /\ kind \in Commands => Ring = Command /\ Awaited(kind) = 1 /\ Size(kind) = 1
      /\ kind \notin Commands => Ring = Control /\ Awaited(kind) = 2
      /\ kind = "none" => Size(kind) = 0 /\ kind \notin Commands
      /\ Size(kind) \in 0..3
  BY Bounds, KindFacts DEF Ring
<1>5. pushed = Size(kind) /\ req \in Nat /\ Length \in Nat
  BY <1>1, Bounds DEF IInv, RequestState, TypeOK
<1>6. /\ kind # "none" => Length < Place
      /\ Place = pushed + 1 - Awaited(kind)
      /\ kind \in Commands \cup {"none"} => Length <= pushed
  BY <1>1 DEF IInv, RingState, Place, Finished
<1>7. Place' <= 0 /\ Place' \in Int
  BY <1>1, <1>3 DEF Place
<1>8. trbs = << >>
  BY <1>1 DEF IInv, TrbsState
<1>9. \A e : ~OwnEvent(e)
  BY <1>1 DEF OwnEvent, Active
<1>10. TypeOK'
  <2>1. Active \cup Finished = {"push", "notify", "register", "await", "start", "failed", "done"}
    BY DEF Active, Finished
  <2> QED
    BY <1>1, <1>5, <2>1 DEF IInv, TypeOK
<1>11. RequestState'
  BY <1>1, <1>2, <1>3 DEF RequestState
<1>12. kind \in Commands \cup {"none"} =>
         /\ Length = 0 /\ ~halted[Ring] /\ ring[Ring] = << >>
         /\ \A r \in Rings : ring[r] = << >> /\ ~halted[r]
         /\ \A i \in 1..Len(events) : events[i].addr = NoAddr
  <2> SUFFICES ASSUME kind \in Commands \cup {"none"}
               PROVE  /\ Length = 0 /\ ~halted[Ring] /\ ring[Ring] = << >>
                      /\ \A r \in Rings : ring[r] = << >> /\ ~halted[r]
                      /\ \A i \in 1..Len(events) : events[i].addr = NoAddr
    OBVIOUS
  <2>1. Length = 0
    BY <1>4, <1>5, <1>6
  <2>2. ring[Ring] = << >>
    BY <2>1, Bounds, EmptySeq DEF Length
  <2>3. ~halted[Ring] /\ \A r \in Rings \ {Ring} : ring[r] = << >> /\ ~halted[r]
    BY Zenon DEF IInv, RingState
  <2>4. \A i \in 1..Len(events) : events[i].addr = NoAddr
    BY <1>9, <2>3 DEF IInv, EventState, StaleEvent
  <2>5. \A r \in Rings : ring[r] = << >> /\ ~halted[r]
    BY <2>2, <2>3, Zenon
  <2> QED
    BY <2>1, <2>2, <2>3, <2>4, <2>5, Zenon
<1>13. WaitingState'
  BY <1>7 DEF WaitingState
<1>14. TrbsState'
  BY <1>1, <1>8 DEF TrbsState
<1>15. WaitState'
  <2>1. \A k1 \in DOMAIN wait_list : wait_list[k1].req \in Nat /\ wait_list[k1].req <= req
    <3>1. \A k1 \in DOMAIN wait_list : wait_list[k1] \in Waiter
      BY ElementOfSeq, LenProperties DEF IInv, TypeOK
    <3> QED
      BY <3>1 DEF IInv, WaitState, Waiter
  <2>2. \A k1 \in DOMAIN wait_list : wait_list[k1].req < req + 1 /\ wait_list[k1].req <= req + 1
    BY <1>5, <2>1
  <2>3. (\A j, k1 \in DOMAIN wait_list : j = k1) /\ stale = {}
    BY <1>1 DEF IInv, WaitState, IsAlive
  <2> QED
    BY <1>1, <2>2, <2>3 DEF WaitState
<1>16. CASE kind \in Commands \cup {"none"}
  <2>1. Length' = 0 /\ ring'[Ring'] = << >>
    BY <1>1, <1>3, <1>12, <1>16 DEF Length
  <2>2. RingState'
    <3>1. \A r \in Rings : ring'[r] = << >>
      BY <1>1, <1>12, <1>16
    <3>2. \A r \in Rings : ~halted'[r]
      BY <1>1, <1>12, <1>16, Zenon
    <3> QED
      BY <1>1, <1>3, <2>1, <3>1, <3>2 DEF RingState, Finished
  <2>3. EventState'
    BY <1>1, <1>7, <1>12, <1>16 DEF EventState, OwnEvent
  <2> QED
    BY <1>10, <1>11, <1>13, <1>14, <1>15, <2>2, <2>3 DEF IInv
<1>17. CASE kind \notin Commands \cup {"none"}
  <2>1. k \notin Commands /\ Ring' = Ring /\ Length' = Length
    BY <1>1, <1>2, <1>3, <1>4, <1>17 DEF Length
  <2>2. Length <= 1 /\ Place <= 2
    BY <1>4, <1>5, <1>6, <1>17
  <2>3. RingState'
    <3>1. \A r \in Rings \ {Ring'} : ring'[r] = << >>
      BY <1>1, <2>1 DEF IInv, RingState
    <3>2. \A r \in Rings \ {Ring'} : ~halted'[r]
      BY <1>1, <2>1, Zenon DEF IInv, RingState
    <3>3. ASSUME NEW i \in 1..Length
          PROVE  ring'[Ring'][i].addr = AddrBack(Ring, Length + 1 - i)' /\ Quiet(ring'[Ring'][i])
                 /\ Length + 1 - i # Place'
      <4>1. Length + 1 - i # Place /\ Length + 1 - i # Place'
        BY <1>4, <1>5, <1>6, <1>7, <1>17
      <4> QED
        BY <1>1, <2>1, <4>1 DEF IInv, RingState, AddrBack
    <3>4. \A i \in 1..Length' :
             /\ ring'[Ring'][i].addr = AddrBack(Ring, Length + 1 - i)'
             /\ IF Length' + 1 - i = Place' THEN ring'[Ring'][i].req = req'
                ELSE Quiet(ring'[Ring'][i])
      BY <2>1, <3>3 DEF AddrBack
    <3>5. Length' <= pushed' + 1
      BY <1>1, <2>1, <2>2
    <3>6. k # "none"
      BY <1>2
    <3> QED
      BY <1>1, <2>1, <3>1, <3>2, <3>4, <3>5, <3>6 DEF RingState, Finished, Quiet
  <2>4. EventState'
    <3>1. \A e : ~OwnEvent(e)'
      BY <1>7 DEF OwnEvent
    <3>2. ASSUME NEW i \in 1..Len(events), events[i].addr # NoAddr PROVE StaleEvent(events[i])'
      <4>1. StaleEvent(events[i])
        BY <1>9, <3>2 DEF IInv, EventState
      <4>2. Length + 1 # Place
        BY <4>1 DEF StaleEvent
      <4>3. Length = 0
        BY <1>5, <1>6, <1>17, <2>2, <4>2, Bounds
      <4>4. Length' <= pushed' /\ Length' + 1 # Place'
        BY <1>1, <1>7, <2>1, <4>3
      <4> QED
        BY <1>1, <2>1, <4>1, <4>4 DEF StaleEvent, AddrBack
    <3> QED
      BY <1>1, <3>1, <3>2 DEF EventState
  <2> QED
    BY <1>10, <1>11, <1>13, <1>14, <1>15, <2>3, <2>4 DEF IInv
<1> QED
  BY <1>16, <1>17

\* A TRB is pushed: everything on the ring is one place further from its end.
LEMMA PushIInv ==
  ASSUME IInv, Push
  PROVE  IInv'
<1> DEFINE t == Trbs(kind, slot)[pushed + 1]
<1> DEFINE a == <<Ring, next[Ring]>>
<1> DEFINE p == Placed(t, a, req)
<1>1. /\ turn = "run" /\ pc = "push"
      /\ ring' = [ring EXCEPT ![Ring] = Append(@, p)]
      /\ next' = [next EXCEPT ![Ring] = (@ + 1) % Usable]
      /\ waiting' = IF pushed + 1 = Awaited(kind) THEN a ELSE waiting
      /\ pushed' = pushed + 1
      /\ pc' = IF pushed + 1 = Len(Trbs(kind, slot)) THEN "notify" ELSE "push"
      /\ UNCHANGED <<turn, req, kind, wait_list, stale, trbs, halted, events>>
  BY DEF Push, Ring, waiters, xhc
<1>2. /\ Ring \in Rings /\ ring[Ring] \in Seq(PlacedTrb) /\ Length \in Nat /\ Length <= pushed + 1
      /\ pushed \in 0..3 /\ Place \in Int /\ Awaited(kind) \in 1..2
      /\ Place = pushed + 1 - Awaited(kind) /\ kind \in Kinds \cup {"none"}
  BY Bounds
<1>3. /\ pushed < Size(kind) /\ Size(kind) \in 0..3 /\ kind # "none" /\ kind \in Kinds /\ pushed \in 0..2
  <2>1. pushed < Size(kind) /\ Size(kind) \in 0..3 /\ (kind = "none" => Size(kind) = 0)
    BY <1>1, <1>2, KindFacts DEF IInv, RequestState
  <2> QED
    BY <1>2, <2>1
<1>4. pushed + 1 \in 1..Size(kind)
  BY <1>3
<1>5. /\ Len(Trbs(kind, slot)) = Size(kind) /\ t.option \in Words /\ t.control \in Words
      /\ kind \notin Commands /\ pushed + 1 # Awaited(kind) => Quiet(t)
  BY <1>3, <1>4, TrbFacts
<1>6. next[Ring] \in 0..(Usable - 1) /\ Usable \in Nat /\ Usable >= 4
  BY <1>2, SizeAssumption DEF IInv, TypeOK
<1>7. /\ Ring' = Ring /\ Awaited(kind)' = Awaited(kind) /\ Place' = Place + 1
      /\ Size(kind)' = Size(kind)
  BY <1>1, <1>2 DEF Ring, RingOf, Awaited, Place, Size
<1>8. next' \in [Rings -> 0..(Usable - 1)] /\ next'[Ring] = (next[Ring] + 1) % Usable
  <2>1. 0 \in 0..(Usable - 1)
    BY <1>6
  <2>2. (next[Ring] + 1) % Usable \in 0..(Usable - 1)
    BY <1>6, <2>1, BackOne
  <2> QED
    BY <1>1, <1>2, <2>2 DEF IInv, TypeOK
<1>9. ASSUME NEW d \in 0..3 PROVE Back(Ring, next'[Ring], d + 1) = Back(Ring, next[Ring], d)
  <2>1. d \in 0..(Usable - 1)
    BY <1>6
  <2>2. (((next[Ring] + 1) % Usable) + Usable - (d + 1)) % Usable = (next[Ring] + Usable - d) % Usable
    BY <1>6, <2>1, BackOne
  <2> QED
    BY <1>8, <2>2 DEF Back
<1>10. a = Back(Ring, next'[Ring], 1) /\ a \in Addresses
  <2>1. (next[Ring] + Usable - 0) % Usable = next[Ring]
    BY <1>6
  <2>2. Back(Ring, next[Ring], 0) = a
    BY <2>1 DEF Back
  <2>3. 0 \in 0..3 /\ 0 + 1 = 1
    OBVIOUS
  <2>4. Back(Ring, next'[Ring], 0 + 1) = Back(Ring, next[Ring], 0)
    BY <1>9, <2>3
  <2> QED
    BY <1>2, <1>6, <2>2, <2>3, <2>4 DEF Addresses
<1>11. p \in PlacedTrb /\ p.addr = a /\ p.req = req /\ p.control = t.control
  BY <1>5, <1>10 DEF Placed, PlacedTrb, IInv, TypeOK
<1> HIDE DEF t, a, p
<1>12. /\ ring'[Ring] = Append(ring[Ring], p) /\ ring' \in [Rings -> Seq(PlacedTrb)]
       /\ \A r \in Rings \ {Ring} : ring'[r] = ring[r]
  <2>1. Append(ring[Ring], p) \in Seq(PlacedTrb)
    BY <1>2, <1>11, AppendProperties
  <2> QED
    BY <1>1, <1>2, <2>1 DEF IInv, TypeOK
<1>13. /\ Length' = Length + 1 /\ ring'[Ring][Length + 1] = p
       /\ \A i \in 1..Length : ring'[Ring][i] = ring[Ring][i]
  <2>1. /\ Len(Append(ring[Ring], p)) = Len(ring[Ring]) + 1
        /\ Append(ring[Ring], p)[Len(ring[Ring]) + 1] = p
        /\ \A i \in 1..Len(ring[Ring]) : Append(ring[Ring], p)[i] = ring[Ring][i]
    BY <1>2, <1>11, AppendProperties
  <2> QED
    BY <1>7, <1>12, <2>1 DEF Length
<1>14. trbs = << >>
  BY <1>1 DEF IInv, TrbsState
<1>15. TypeOK'
  <2>1. pc' \in Active \cup Finished /\ pushed' \in 0..3
    BY <1>1, <1>3 DEF Active
  <2>2. waiting' \in Addresses
    BY <1>1, <1>10 DEF IInv, TypeOK
  <2> QED
    BY <1>1, <1>8, <1>12, <2>1, <2>2 DEF IInv, TypeOK
<1>16. RequestState'
  BY <1>1, <1>3, <1>5, <1>7 DEF RequestState
<1>17. RingState'
  <2>1. \A r \in Rings \ {Ring'} : ring'[r] = << >>
    BY <1>7, <1>12 DEF IInv, RingState
  <2>2. /\ \A r \in Rings \ {Ring'} : ~halted'[r]
        /\ kind' \in Commands \cup {"none"} => ~halted'[Ring']
    BY <1>1, <1>7, Zenon DEF IInv, RingState
  <2>3. Length' <= IF kind' \in Commands \cup {"none"} THEN pushed' ELSE pushed' + 1
    BY <1>1, <1>2, <1>13 DEF IInv, RingState
  <2>4. ASSUME NEW i \in 1..Length'
        PROVE  /\ ring'[Ring'][i].addr = Back(Ring, next'[Ring], Length' + 1 - i)
               /\ IF Length' + 1 - i = Place' THEN ring'[Ring'][i].req = req'
                  ELSE Quiet(ring'[Ring'][i])
    <3>1. CASE i = Length + 1
      <4>1. Length' + 1 - i = 1
        BY <1>2, <1>13, <3>1
      <4>2. ring'[Ring'][i] = p
        BY <1>7, <1>13, <3>1
      <4>3. ASSUME 1 # Place' PROVE Quiet(p)
        <5>1. pushed + 1 # Awaited(kind)
          BY <1>2, <1>7, <4>3
        <5>2. kind \notin Commands
          <6>1. ASSUME kind \in Commands PROVE FALSE
            <7>1. Size(kind) = 1 /\ Awaited(kind) = 1
              BY <1>2, <6>1, KindFacts
            <7> QED
              BY <1>3, <5>1, <7>1
          <6> QED
            BY <6>1
        <5> QED
          BY <1>5, <1>11, <5>1, <5>2 DEF Quiet, trb_type
      <4> QED
        BY <1>1, <1>7, <1>10, <1>11, <4>1, <4>2, <4>3
    <3>2. CASE i \in 1..Length
      <4> DEFINE d == Length + 1 - i
      <4>1. d \in 1..3 /\ d \in 0..3 /\ Length' + 1 - i = d + 1
        BY <1>2, <1>3, <1>13, <3>2
      <4>2. ring'[Ring'][i] = ring[Ring][i]
        BY <1>7, <1>13, <3>2
      <4>3. /\ ring[Ring][i].addr = AddrBack(Ring, d)
            /\ IF d = Place THEN ring[Ring][i].req = req ELSE Quiet(ring[Ring][i])
        BY <3>2 DEF IInv, RingState
      <4> HIDE DEF d
      <4>4. Back(Ring, next'[Ring], d + 1) = Back(Ring, next[Ring], d)
        BY <1>9, <4>1
      <4>5. d + 1 = Place' <=> d = Place
        BY <1>2, <1>7, <4>1
      <4> QED
        BY <1>1, <4>1, <4>2, <4>3, <4>4, <4>5 DEF AddrBack
    <3> QED
      BY <1>2, <1>13, <3>1, <3>2
  <2>5. pc' \notin Finished
    BY <1>1 DEF Finished
  <2> QED
    BY <1>7, <2>1, <2>2, <2>3, <2>4, <2>5 DEF RingState, AddrBack
<1>18. WaitingState'
  <2>1. CASE pushed + 1 = Awaited(kind)
    <3>1. Place' = 1
      BY <1>2, <1>7, <2>1
    <3> QED
      BY <1>1, <1>7, <1>10, <2>1, <3>1 DEF WaitingState, AddrBack
  <2>2. CASE pushed + 1 # Awaited(kind) /\ Place' >= 1
    <3>1. Place \in 1..3 /\ Place \in 0..3
      BY <1>2, <1>3, <1>7, <2>2
    <3>2. waiting' = Back(Ring, next[Ring], Place)
      BY <1>1, <2>2, <3>1 DEF IInv, WaitingState, AddrBack
    <3>3. Back(Ring, next'[Ring], Place + 1) = Back(Ring, next[Ring], Place)
      BY <1>9, <3>1
    <3> QED
      BY <1>7, <3>2, <3>3 DEF WaitingState, AddrBack
  <2> QED
    BY <2>1, <2>2 DEF WaitingState
<1>19. EventState'
  <2>1. ASSUME NEW e, OwnEvent(e)' PROVE OwnEvent(e) /\ waiting' = waiting
    <3>1. Length' < Place' /\ Place' >= 1
      BY <2>1 DEF OwnEvent
    <3>2. Place > 0 /\ Length < Place
      BY <1>2, <1>7, <1>13, <3>1
    <3>3. pushed + 1 # Awaited(kind)
      BY <1>2, <3>2
    <3> QED
      BY <1>1, <1>2, <1>14, <2>1, <3>2, <3>3 DEF OwnEvent, Active
  <2>2. ASSUME NEW e, OwnEvent(e) PROVE OwnEvent(e)'
    <3>1. Place >= 1 /\ Length < Place
      BY <2>2 DEF OwnEvent
    <3>2. pushed + 1 # Awaited(kind) /\ Place' >= 1 /\ Length' < Place'
      BY <1>2, <1>7, <1>13, <3>1
    <3> QED
      BY <1>1, <1>14, <2>2, <3>2 DEF OwnEvent, Active
  <2>3. ASSUME NEW e, StaleEvent(e) PROVE StaleEvent(e)'
    <3>1. Length <= pushed /\ Length + 1 # Place /\ e.addr = Back(Ring, next[Ring], Length + 1)
      BY <2>3 DEF StaleEvent, AddrBack
    <3>2. Length' <= pushed' /\ Length' + 1 # Place' /\ Length + 1 \in 0..3
      BY <1>1, <1>2, <1>3, <1>7, <1>13, <3>1
    <3>3. e.addr = Back(Ring, next'[Ring], Length' + 1)
      BY <1>9, <1>13, <3>1, <3>2
    <3>4. halted'[Ring']
      BY <1>1, <1>7, <2>3, Zenon DEF StaleEvent
    <3> QED
      BY <1>7, <3>2, <3>3, <3>4 DEF StaleEvent, AddrBack
  <2> QED
    BY <1>1, <2>1, <2>2, <2>3, Zenon DEF IInv, EventState
<1>20. TrbsState'
  BY <1>1, <1>14 DEF TrbsState
<1>21. WaitState'
  <2>1. \A w : ~IsAlive(w)
    BY <1>1 DEF IsAlive
  <2>2. pc' \in {"push", "notify"}
    BY <1>1
  <2>3. (\A j, k \in DOMAIN wait_list : j = k) /\ stale = {}
    BY <1>1, <2>1 DEF IInv, WaitState
  <2> QED
    BY <1>1, <2>2, <2>3 DEF IInv, WaitState
<1> QED
  BY <1>15, <1>16, <1>17, <1>18, <1>19, <1>20, <1>21 DEF IInv

\* Steps that leave the request, the rings and the events alone.
LEMMA FrameIInv ==
  ASSUME IInv,
         UNCHANGED <<req, kind, pushed, waiting, wait_list, stale, trbs, next, ring, halted, events>>,
         turn' = turn \/ (turn # "cleanup" /\ turn' # "cleanup") \/ PollReturns,
         \/ pc' = pc
         \/ pc = "notify" /\ pc' = "register"
         \/ pc \in {"start", "failed"} /\ pc' = "done"
  PROVE  IInv'
<1>0. /\ Ring' = Ring /\ Length' = Length /\ Place' = Place
      /\ pc \in Active \cup Finished
  BY DEF Ring, Length, Place, IInv, TypeOK
<1>1. /\ pc' \in Active \cup Finished /\ (pc' \in Active <=> pc \in Active)
      /\ (pc' \in Finished <=> pc \in Finished) /\ (pc' = "await" <=> pc = "await")
      /\ (pc' = "push" <=> pc = "push")
      /\ (kind = "none" => pc' \in {"start", "done"})
      /\ (pc' \in {"push", "notify", "register"} <=> pc \in {"push", "notify", "register"})
  <2>1. kind = "none" => pc \in {"start", "done"}
    BY DEF IInv, RequestState
  <2> QED
    BY <1>0, <2>1 DEF Active, Finished
<1>2. TypeOK'
  BY <1>1 DEF IInv, TypeOK
<1>3. RequestState'
  BY <1>1 DEF IInv, RequestState
<1>4. RingState'
  BY <1>0, <1>1 DEF IInv, RingState, AddrBack
<1>5. WaitingState'
  BY <1>0 DEF IInv, WaitingState, AddrBack
<1>6. \A e : (OwnEvent(e)' <=> OwnEvent(e)) /\ (StaleEvent(e)' <=> StaleEvent(e))
  BY <1>0, <1>1 DEF OwnEvent, StaleEvent, AddrBack
<1>7. EventState'
  BY <1>6 DEF IInv, EventState
<1>8. TrbsState'
  <2>1. CASE PollReturns
    <3>1. pc = "await" => \A k \in DOMAIN wait_list : wait_list[k].req = req
      BY <2>1 DEF PollReturns, IInv, WaitState, stale_waiter_indices, IsAlive
    <3> QED
      BY <1>0, <1>1, <3>1 DEF IInv, TrbsState
  <2> QED
    BY <1>0, <1>1, <2>1 DEF IInv, TrbsState
<1>9. WaitState'
  <2>1. \A w : IsAlive(w)' <=> IsAlive(w)
    BY <1>1 DEF IsAlive
  <2>2. stale' = IF turn' = "cleanup" THEN stale_waiter_indices(wait_list') ELSE {}
    BY <1>1 DEF IInv, WaitState, PollReturns
  <2>3. stale_waiter_indices(wait_list)' = stale_waiter_indices(wait_list)
    BY <1>1 DEF stale_waiter_indices, IsAlive
  <2> QED
    BY <1>1, <2>2, <2>3 DEF IInv, WaitState, IsAlive
<1> QED
  BY <1>2, <1>3, <1>4, <1>5, <1>7, <1>8, <1>9 DEF IInv

\* The waiter of the request joins at most one that is stale.
LEMMA RegisterIInv ==
  ASSUME IInv, RegisterWaiter
  PROVE  IInv'
<1> DEFINE w0 == [addr |-> waiting, req |-> req]
<1>1. /\ turn = "run" /\ pc = "register" /\ pc' = "await"
      /\ wait_list' = Append(wait_list, w0) /\ trbs' = << >>
      /\ UNCHANGED <<turn, req, kind, pushed, waiting, stale, next, ring, halted, events>>
  BY DEF RegisterWaiter, xhc
<1>2. trbs = << >>
  BY <1>1 DEF IInv, TrbsState
<1>3. /\ Ring' = Ring /\ Length' = Length /\ Place' = Place
  BY <1>1 DEF Ring, Length, Place
<1>4. w0 \in Waiter /\ w0.req = req /\ w0.addr = waiting /\ req \in Nat
  BY DEF IInv, TypeOK, Waiter
<1> HIDE DEF w0
<1> DEFINE n == Len(wait_list)
<1>13. /\ wait_list \in Seq(Waiter) /\ n \in Nat /\ DOMAIN wait_list = 1..n
       /\ wait_list' \in Seq(Waiter) /\ DOMAIN wait_list' = 1..(n + 1)
       /\ wait_list'[n + 1] = w0 /\ \A k \in 1..n : wait_list'[k] = wait_list[k]
  BY <1>1, <1>4, AppendProperties, LenProperties DEF IInv, TypeOK
<1> HIDE DEF n
<1>5. TypeOK'
  BY <1>1, <1>13 DEF IInv, TypeOK, Active
<1>6. RequestState'
  BY <1>1 DEF IInv, RequestState
<1>7. RingState'
  BY <1>1, <1>3 DEF IInv, RingState, AddrBack, Finished
<1>8. WaitingState'
  BY <1>1, <1>3 DEF IInv, WaitingState, AddrBack
<1>9. \A e : (OwnEvent(e)' <=> OwnEvent(e)) /\ (StaleEvent(e)' <=> StaleEvent(e))
  BY <1>1, <1>2, <1>3 DEF OwnEvent, StaleEvent, AddrBack, Active
<1>10. EventState'
  BY <1>1, <1>9 DEF IInv, EventState
<1>11. TrbsState'
  BY <1>1 DEF TrbsState
<1>12. WaitState'
  <2>1. \A k \in 1..n : wait_list[k].req \in Nat /\ wait_list[k].req < req
    <3>1. \A k \in 1..n : wait_list[k] \in Waiter
      BY <1>13, ElementOfSeq DEF n
    <3> QED
      BY <1>1, <1>13, <3>1 DEF IInv, WaitState, Waiter
  <2>2. (\A j, k \in 1..n : j = k) /\ stale = {}
    BY <1>1, <1>13 DEF IInv, WaitState, IsAlive
  <2>3. \A k \in 1..(n + 1) : k \in 1..n \/ k = n + 1
    BY <1>13
  <2>4. \A k \in 1..(n + 1) :
          /\ wait_list'[k].req <= req
          /\ IF k = n + 1 THEN wait_list'[k] = w0 ELSE k \in 1..n /\ wait_list'[k].req # req
    BY <1>4, <1>13, <2>1, <2>3
  <2>5. \A k \in 1..(n + 1) : IsAlive(wait_list[k])' <=> k = n + 1
    BY <1>1, <1>4, <2>4 DEF IsAlive
  <2>6. n + 1 \in 1..(n + 1)
    BY <1>13
  <2>7. \A j, k \in 1..(n + 1) : (IsAlive(wait_list[j])' <=> IsAlive(wait_list[k])') => j = k
    BY <2>2, <2>4, <2>5
  <2> QED
    BY <1>1, <1>4, <1>13, <2>2, <2>4, <2>6, <2>7 DEF WaitState
<1> QED
  BY <1>5, <1>6, <1>7, <1>8, <1>10, <1>11, <1>12 DEF IInv

\* The request returns with its event; its waiter is the one that is stale now.
LEMMA ReadyIInv ==
  ASSUME IInv, AwaitReady
  PROVE  IInv'
<1>1. /\ turn = "run" /\ pc = "await" /\ trbs # << >> /\ trbs' = Tail(trbs)
      /\ pc' \in {"start", "failed"}
      /\ UNCHANGED <<turn, req, kind, pushed, waiting, wait_list, stale, next, ring, halted, events>>
  BY DEF AwaitReady, waiters, xhc
<1>2. Length < Place /\ Len(trbs) <= 1 /\ \A k \in DOMAIN wait_list : wait_list[k].req = req
  BY <1>1 DEF IInv, TrbsState
<1>3. trbs' = << >>
  <2>1. trbs \in Seq(PlacedTrb) /\ Len(trbs) \in Nat \ {0}
    BY <1>1, EmptySeq DEF IInv, TypeOK
  <2>2. Len(trbs) = 1
    <3> DEFINE n == Len(trbs)
    <3>1. n \in Nat \ {0} /\ n <= 1
      BY <1>2, <2>1
    <3> HIDE DEF n
    <3>2. n = 1
      BY <3>1
    <3> QED
      BY <3>2 DEF n
  <2>3. Tail(trbs) \in Seq(PlacedTrb) /\ Len(Tail(trbs)) = 0
    BY <1>1, <2>1, <2>2, HeadTailProperties
  <2> QED
    BY <1>1, <2>3, EmptySeq
<1>4. /\ Ring' = Ring /\ Length' = Length /\ Place' = Place
  BY <1>1 DEF Ring, Length, Place
<1>5. TypeOK'
  <2>1. << >> \in Seq(PlacedTrb)
    OBVIOUS
  <2> QED
    BY <1>1, <1>3, <2>1 DEF IInv, TypeOK, Finished
<1>6. RequestState'
  BY <1>1 DEF IInv, RequestState
<1>7. RingState'
  BY <1>1, <1>2, <1>4 DEF IInv, RingState, AddrBack
<1>8. WaitingState'
  BY <1>1, <1>4 DEF IInv, WaitingState, AddrBack
<1>9. \A e : ~OwnEvent(e)' /\ ~OwnEvent(e) /\ (StaleEvent(e)' <=> StaleEvent(e))
  BY <1>1, <1>4 DEF OwnEvent, StaleEvent, AddrBack, Active
<1>10. EventState'
  BY <1>1, <1>9 DEF IInv, EventState
<1>11. TrbsState'
  BY <1>3 DEF TrbsState
<1>12. WaitState'
  <2>1. \A k \in DOMAIN wait_list : IsAlive(wait_list[k])
    BY <1>1, <1>2 DEF IsAlive
  <2>2. (\A j, k \in DOMAIN wait_list : j = k) /\ stale = {}
    BY <1>1, <2>1 DEF IInv, WaitState
  <2> QED
    BY <1>1, <2>2 DEF IInv, WaitState
<1> QED
  BY <1>5, <1>6, <1>7, <1>8, <1>10, <1>11, <1>12 DEF IInv

\* An event goes to the request only if it is its own.
LEMMA PollIInv ==
  ASSUME IInv, PollEvents
  PROVE  IInv'
<1> DEFINE e == Head(events)
<1> DEFINE taken == \E k \in DOMAIN wait_list : IsAlive(wait_list[k]) /\ matches(wait_list[k], e)
<1>1. turn = "events" /\ UNCHANGED <<pc, req, kind, pushed, waiting, wait_list, next, ring, halted>>
  BY DEF PollEvents, driver, xhc
<1>2. CASE events = << >>
  <2>1. turn' = "run" /\ UNCHANGED <<events, trbs, stale>>
    BY <1>2 DEF PollEvents
  <2> QED
    BY <1>1, <2>1, FrameIInv
<1>3. CASE events # << >>
  <2>1. /\ events' = Tail(events) /\ trbs' = (IF taken THEN Append(trbs, e) ELSE trbs)
        /\ turn' = "cleanup" /\ stale' = stale_waiter_indices(wait_list)
    BY <1>3 DEF PollEvents
  <2>2. events \in Seq(PlacedTrb) /\ trbs \in Seq(PlacedTrb) /\ Len(events) \in Nat \ {0}
    BY <1>3, EmptySeq DEF IInv, TypeOK
  <2>3. /\ e = events[1] /\ e \in PlacedTrb /\ events' \in Seq(PlacedTrb)
        /\ Len(events') = Len(events) - 1
        /\ \A i \in 1..Len(events') : events'[i] = events[i + 1]
    BY <1>3, <2>1, <2>2, HeadTailProperties, ElementOfSeq
  <2>4. 1 \in 1..Len(events) /\ \A i \in 1..Len(events') : i + 1 \in 1..Len(events) /\ i + 1 # 1
    BY <2>2, <2>3
  <2>5. /\ Ring' = Ring /\ Length' = Length /\ Place' = Place
    BY <1>1 DEF Ring, Length, Place
  <2> HIDE DEF e
  <2>6. ASSUME taken PROVE OwnEvent(e) /\ pc = "await"
    <3>1. PICK k \in DOMAIN wait_list : IsAlive(wait_list[k]) /\ matches(wait_list[k], e)
      BY <2>6
    <3>2. pc = "await" /\ e.addr = waiting
      BY <3>1 DEF IsAlive, matches, IInv, WaitState
    <3>3. Place \in 1..3 /\ Ring \in Rings
      <4>1. pushed = Size(kind) /\ kind # "none"
        BY <3>2 DEF IInv, RequestState
      <4>2. Size(kind) >= Awaited(kind)
        BY <4>1, Bounds, KindFacts
      <4> QED
        BY <4>1, <4>2, Bounds
    <3>4. waiting = AddrBack(Ring, Place)
      BY <3>3 DEF IInv, WaitingState
    <3>5. e.addr # NoAddr
      BY <3>2, <3>3, <3>4, AddrType DEF IInv
    <3>6. ~StaleEvent(e)
      <4>1. ASSUME StaleEvent(e) PROVE FALSE
        <5>1. /\ Length + 1 \in 1..4 /\ Length + 1 # Place /\ Place \in 1..4
              /\ AddrBack(Ring, Length + 1) = AddrBack(Ring, Place)
          BY <3>2, <3>3, <3>4, <4>1, Bounds DEF StaleEvent
        <5> QED
          BY <3>3, <5>1, AddrDistinct DEF IInv
      <4> QED
        BY <4>1
    <3> QED
      BY <2>3, <2>4, <3>2, <3>5, <3>6 DEF IInv, EventState
  <2>7. taken => trbs = << >> /\ trbs' = << e >>
    <3> SUFFICES ASSUME taken PROVE trbs = << >> /\ trbs' = << e >>
      OBVIOUS
    <3>1. trbs = << >>
      BY <2>6, Zenon DEF OwnEvent
    <3>2. trbs' = Append(<< >>, e)
      BY <2>1, <3>1, Zenon
    <3>3. Append(<< >>, e) = << e >>
      OBVIOUS
    <3> QED
      BY <3>1, <3>2, <3>3, Zenon
  <2>8. TypeOK'
    <3>1. trbs' \in Seq(PlacedTrb)
      BY <2>1, <2>2, <2>3, AppendProperties
    <3> QED
      BY <1>1, <2>1, <2>3, <3>1 DEF IInv, TypeOK
  <2>9. RequestState'
    BY <1>1 DEF IInv, RequestState
  <2>10. RingState'
    BY <1>1, <2>5 DEF IInv, RingState, AddrBack
  <2>11. WaitingState'
    BY <1>1, <2>5 DEF IInv, WaitingState, AddrBack
  <2>12. \A x : StaleEvent(x)' <=> StaleEvent(x)
    BY <1>1, <2>5 DEF StaleEvent, AddrBack
  <2>13. EventState'
    <3>1. CASE taken
      <4>1. \A i \in 1..Len(events') : ~OwnEvent(events'[i])
        BY <2>3, <2>4, <2>6, <3>1 DEF IInv, EventState
      <4>2. \A x : ~OwnEvent(x)'
        BY <2>7, <3>1 DEF OwnEvent
      <4> QED
        BY <2>3, <2>4, <2>12, <4>1, <4>2 DEF IInv, EventState
    <3>2. CASE ~taken
      <4>1. \A x : OwnEvent(x)' <=> OwnEvent(x)
        BY <1>1, <2>1, <2>5, <3>2 DEF OwnEvent
      <4>2. \A i \in 1..Len(events') :
              events'[i].addr = NoAddr \/ OwnEvent(events'[i]) \/ StaleEvent(events'[i])
        BY <2>3, <2>4 DEF IInv, EventState
      <4>3. ASSUME NEW i \in 1..Len(events'), NEW j \in 1..Len(events'),
                   OwnEvent(events'[i]), OwnEvent(events'[j])
            PROVE  i = j
        <5>1. i + 1 = j + 1
          BY <2>3, <2>4, <4>3 DEF IInv, EventState
        <5> QED
          BY <2>3, <5>1
      <4>4. \A i \in 1..Len(events') : /\ (OwnEvent(events[i]))' <=> OwnEvent(events'[i])
                                       /\ (StaleEvent(events[i]))' <=> StaleEvent(events'[i])
        BY <1>1, <2>1, <2>5, <3>2 DEF OwnEvent, StaleEvent, AddrBack
      <4> QED
        BY <4>2, <4>3, <4>4 DEF EventState
    <3> QED
      BY <3>1, <3>2
  <2>14. TrbsState'
    <3>1. CASE taken
      <4>1. Len(trbs') = 1 /\ trbs'[1] = e
        BY <2>7, <3>1
      <4> QED
        BY <1>1, <2>1, <2>5, <2>6, <3>1, <4>1 DEF TrbsState, OwnEvent
    <3>2. CASE ~taken
      BY <1>1, <2>1, <2>5, <3>2 DEF IInv, TrbsState
    <3> QED
      BY <3>1, <3>2
  <2>15. WaitState'
    <3>1. stale_waiter_indices(wait_list)' = stale_waiter_indices(wait_list)
      BY <1>1 DEF stale_waiter_indices, IsAlive
    <3> QED
      BY <1>1, <2>1, <3>1 DEF IInv, WaitState, IsAlive
  <2> QED
    BY <2>8, <2>9, <2>10, <2>11, <2>13, <2>14, <2>15 DEF IInv
<1> QED
  BY <1>2, <1>3

\* The place that is removed is the stale waiter's: the other one stays, and is
\* at the first place now.
LEMMA RemoveIInv ==
  ASSUME IInv, RemoveStale
  PROVE  IInv'
<1> DEFINE m == Max(stale)
<1> DEFINE n == Len(wait_list)
<1>1. /\ turn = "cleanup" /\ stale # {} /\ wait_list' = RemoveAt(wait_list, m) /\ stale' = stale \ {m}
      /\ UNCHANGED <<turn, pc, req, kind, pushed, waiting, trbs, next, ring, halted, events>>
  BY DEF RemoveStale, driver, xhc
<1>2. wait_list \in Seq(Waiter) /\ n \in Nat /\ DOMAIN wait_list = 1..n
  BY LenProperties DEF IInv, TypeOK
<1>3. stale = { k \in 1..n : ~IsAlive(wait_list[k]) }
  BY <1>1, <1>2 DEF IInv, WaitState, stale_waiter_indices
<1>4. PICK k0 \in 1..n : stale = {k0} /\ ~IsAlive(wait_list[k0])
  <2>1. PICK k0 \in stale : TRUE
    BY <1>1
  <2>2. \A k \in stale : k = k0
    BY <1>2, <1>3, <2>1 DEF IInv, WaitState
  <2> QED
    BY <1>3, <2>1, <2>2
<1>5. m = k0
  BY <1>2, <1>4 DEF Max
<1> HIDE DEF m
<1>6. \A k \in 1..n : IsAlive(wait_list[k]) <=> k # k0
  BY <1>3, <1>4
<1>7. /\ wait_list' = SubSeq(wait_list, 1, k0 - 1) \o SubSeq(wait_list, k0 + 1, n)
      /\ stale' = {}
  BY <1>1, <1>4, <1>5 DEF RemoveAt
<1>8. n = 1 \/ n = 2
  <2>1. \A j, k \in (1..n) \ {k0} : j = k
    BY <1>2, <1>6 DEF IInv, WaitState
  <2> QED
    BY <1>2, <1>4, <2>1
<1>9. /\ wait_list' \in Seq(Waiter)
      /\ n = 1 => DOMAIN wait_list' = {}
      /\ n = 2 => /\ DOMAIN wait_list' = {1}
                  /\ 3 - k0 \in 1..n /\ 3 - k0 # k0 /\ wait_list'[1] = wait_list[3 - k0]
  <2> DEFINE s == SubSeq(wait_list, 1, k0 - 1)
  <2> DEFINE t == SubSeq(wait_list, k0 + 1, n)
  <2>1. /\ s \in Seq(Waiter) /\ Len(s) = k0 - 1 /\ \A i \in 1..(k0 - 1) : s[i] = wait_list[i]
        /\ t \in Seq(Waiter) /\ Len(t) = n - k0 /\ \A i \in 1..(n - k0) : t[i] = wait_list[k0 + i]
    <3>1. \A i \in 1..n : wait_list[i] \in Waiter
      BY <1>2, ElementOfSeq
    <3> HIDE DEF n
    <3>2. /\ \A i \in 1..(k0 - 1) : wait_list[i] \in Waiter
          /\ \A i \in (k0 + 1)..n : wait_list[i] \in Waiter
          /\ k0 - 1 \in Nat /\ n - k0 \in Nat /\ k0 \in Int /\ n \in Int
      BY <1>2, <1>4, <3>1
    <3>3. /\ s \in Seq(Waiter) /\ Len(s) = IF 1 <= k0 - 1 THEN k0 - 1 - 1 + 1 ELSE 0
          /\ \A i \in 1..(k0 - 1 - 1 + 1) : s[i] = wait_list[1 + i - 1]
      BY <3>2, SubSeqProperties
    <3>4. /\ t \in Seq(Waiter) /\ Len(t) = IF k0 + 1 <= n THEN n - (k0 + 1) + 1 ELSE 0
          /\ \A i \in 1..(n - (k0 + 1) + 1) : t[i] = wait_list[k0 + 1 + i - 1]
      BY <3>2, SubSeqProperties
    <3> HIDE DEF s, t
    <3> QED
      BY <3>2, <3>3, <3>4
  <2> HIDE DEF s, t
  <2>2. /\ wait_list' \in Seq(Waiter) /\ Len(wait_list') = n - 1
        /\ \A i \in 1..(n - 1) : wait_list'[i] = IF i <= k0 - 1 THEN s[i] ELSE t[i - (k0 - 1)]
    <3>1. wait_list' = s \o t
      BY <1>7 DEF s, t
    <3>2. /\ s \o t \in Seq(Waiter) /\ Len(s \o t) = Len(s) + Len(t)
          /\ \A i \in 1..(Len(s) + Len(t)) :
               (s \o t)[i] = IF i <= Len(s) THEN s[i] ELSE t[i - Len(s)]
      BY <2>1, ConcatProperties
    <3>3. Len(s) + Len(t) = n - 1 /\ Len(s) = k0 - 1
      BY <1>2, <1>4, <2>1
    <3> QED
      BY <3>1, <3>2, <3>3
  <2>3. DOMAIN wait_list' = 1..(n - 1)
    BY <2>2, LenProperties
  <2> HIDE DEF n
  <2>4. ASSUME n = 2
        PROVE  3 - k0 \in 1..n /\ 3 - k0 # k0 /\ wait_list'[1] = wait_list[3 - k0]
    <3>1. k0 = 1 \/ k0 = 2
      BY <1>4, <2>4
    <3>2. CASE k0 = 1
      BY <2>1, <2>2, <2>4, <3>2
    <3>3. CASE k0 = 2
      BY <2>1, <2>2, <2>4, <3>3
    <3> QED
      BY <3>1, <3>2, <3>3
  <2> QED
    BY <1>8, <2>2, <2>3, <2>4
<1>10. TypeOK'
  BY <1>1, <1>9 DEF IInv, TypeOK
<1>11. /\ Ring' = Ring /\ Length' = Length /\ Place' = Place
  BY <1>1 DEF Ring, Length, Place
<1>12. RequestState' /\ RingState' /\ WaitingState'
  BY <1>1, <1>11 DEF IInv, RequestState, RingState, WaitingState, AddrBack
<1>13. EventState'
  <2>1. \A x : (OwnEvent(x)' <=> OwnEvent(x)) /\ (StaleEvent(x)' <=> StaleEvent(x))
    BY <1>1, <1>11 DEF OwnEvent, StaleEvent, AddrBack
  <2> QED
    BY <1>1, <2>1 DEF IInv, EventState
<1>14. TrbsState'
  BY <1>1, <1>11 DEF IInv, TrbsState
<1>15. WaitState'
  <2>1. \A w : IsAlive(w)' <=> IsAlive(w)
    BY <1>1 DEF IsAlive
  <2>2. ASSUME NEW k \in DOMAIN wait_list'
        PROVE  /\ k = 1 /\ n = 2 /\ wait_list'[k] = wait_list[3 - k0]
               /\ 3 - k0 \in 1..n /\ IsAlive(wait_list[3 - k0])
    BY <1>6, <1>8, <1>9
  <2>3. stale_waiter_indices(wait_list)' = {}
    BY <1>1, <2>2 DEF stale_waiter_indices, IsAlive
  <2>4. ASSUME pc' = "await" PROVE \E k \in DOMAIN wait_list' : wait_list'[k].req = req'
    <3>1. PICK k1 \in 1..n : wait_list[k1].req = req
      BY <1>1, <1>2, <2>4 DEF IInv, WaitState
    <3>2. k1 # k0
      BY <1>1, <1>4, <2>4, <3>1 DEF IsAlive
    <3>3. n = 2 /\ k1 = 3 - k0
      BY <1>4, <1>8, <3>1, <3>2
    <3> QED
      BY <1>1, <1>9, <3>1, <3>3
  <2>5. \A k \in DOMAIN wait_list' :
          /\ wait_list'[k].req <= req
          /\ pc \in {"push", "notify", "register"} => wait_list'[k].req < req
          /\ pc = "await" /\ wait_list'[k].req = req => wait_list'[k].addr = waiting
    BY <1>2, <2>2 DEF IInv, WaitState
  <2> QED
    BY <1>1, <1>7, <2>2, <2>3, <2>4, <2>5 DEF WaitState
<1> QED
  BY <1>10, <1>12, <1>13, <1>14, <1>15 DEF IInv

\* An event has the address and the request it is made with.
LEMMA EventFacts ==
  ASSUME NEW type, NEW code, NEW s, NEW a \in Addresses, NEW n \in Nat
  PROVE  /\ Event(type, code, s, a, n) \in PlacedTrb
         /\ Event(type, code, s, a, n).addr = a /\ Event(type, code, s, a, n).req = n
<1>1. Shl(Bin(code), 24, 32) \in Words /\ TypeField(type) \in Words /\ Shl(Bin(s), 24, 32) \in Words
  BY WordFacts DEF TypeField
<1>2. TypeField(type) \cup Shl(Bin(s), 24, 32) \in Words
  BY <1>1 DEF Words
<1> QED
  BY <1>1, <1>2 DEF Event, Placed, Trb, PlacedTrb

\* A port's event answers nobody.
LEMMA PortIInv ==
  ASSUME IInv, HwPortStatusChange
  PROVE  IInv'
<1> DEFINE c == Event(TrbType.PortStatusChangeEvent, Success, 0, NoAddr, 0)
<1>1. /\ events' = Append(events, c)
      /\ UNCHANGED <<turn, pc, req, kind, pushed, waiting, wait_list, stale, trbs, next, ring, halted>>
  BY DEF HwPortStatusChange, waiters, driver
<1>2. c \in PlacedTrb /\ c.addr = NoAddr
  <2>1. NoAddr \in Addresses /\ 0 \in Nat
    BY DEF Addresses
  <2> QED
    BY <2>1, EventFacts
<1> HIDE DEF c
<1>3. /\ events \in Seq(PlacedTrb) /\ events' \in Seq(PlacedTrb) /\ Len(events) \in Nat
      /\ Len(events') = Len(events) + 1 /\ events'[Len(events) + 1] = c
      /\ \A i \in 1..Len(events) : events'[i] = events[i]
  BY <1>1, <1>2, AppendProperties, LenProperties DEF IInv, TypeOK
<1>4. /\ Ring' = Ring /\ Length' = Length /\ Place' = Place
  BY <1>1 DEF Ring, Length, Place
<1>5. TypeOK' /\ RequestState'
  BY <1>1, <1>3 DEF IInv, TypeOK, RequestState
<1>6. RingState'
  BY <1>1, <1>4 DEF IInv, RingState, AddrBack
<1>7. WaitingState'
  BY <1>1, <1>4 DEF IInv, WaitingState, AddrBack
<1>8. \A x : (OwnEvent(x)' <=> OwnEvent(x)) /\ (StaleEvent(x)' <=> StaleEvent(x))
  BY <1>1, <1>4 DEF OwnEvent, StaleEvent, AddrBack
<1>9. ~OwnEvent(c)
  <2>1. ASSUME OwnEvent(c) PROVE FALSE
    <3>1. Place \in 1..4 /\ Ring \in Rings /\ waiting = NoAddr
      BY <1>2, <2>1, Bounds DEF OwnEvent
    <3>2. waiting = AddrBack(Ring, Place)
      BY <3>1 DEF IInv, WaitingState
    <3> QED
      BY <3>1, <3>2, AddrType DEF IInv
  <2> QED
    BY <2>1
<1>10. EventState'
  <2>1. \A i \in 1..Len(events') : i \in 1..Len(events) \/ i = Len(events) + 1
    BY <1>3
  <2>2. \A i \in 1..Len(events') :
          events'[i].addr = NoAddr \/ OwnEvent(events'[i]) \/ StaleEvent(events'[i])
    BY <1>2, <1>3, <2>1 DEF IInv, EventState
  <2>3. \A i, j \in 1..Len(events') : OwnEvent(events'[i]) /\ OwnEvent(events'[j]) => i = j
    BY <1>3, <1>9, <2>1 DEF IInv, EventState
  <2>4. \A i \in 1..Len(events') : /\ (OwnEvent(events[i]))' <=> OwnEvent(events'[i])
                                   /\ (StaleEvent(events[i]))' <=> StaleEvent(events'[i])
    BY <1>1, <1>4 DEF OwnEvent, StaleEvent, AddrBack
  <2> QED
    BY <2>2, <2>3, <2>4 DEF EventState
<1>11. TrbsState' /\ WaitState'
  BY <1>1, <1>4 DEF IInv, TrbsState, WaitState, stale_waiter_indices, IsAlive
<1> QED
  BY <1>5, <1>6, <1>7, <1>10, <1>11 DEF IInv

\* The xHC runs the oldest TRB of the ring.  It posts the event of the awaited
\* one; any other event is an error and ends the ring.
LEMMA HwRunIInv ==
  ASSUME IInv, NEW r \in Rings, NEW code, HwRun(r, code)
  PROVE  IInv'
<1> DEFINE t == Head(ring[r])
<1> DEFINE c == Completion(r, t, code)
<1>1. /\ ~halted[r] /\ ring[r] # << >>
      /\ IF r = Command \/ AsksForEvent(t, code) \/ code = Failure
         THEN events' = Append(events, c) ELSE UNCHANGED events
      /\ ring' = [ring EXCEPT ![r] = Tail(@)]
      /\ UNCHANGED <<turn, pc, req, kind, pushed, waiting, wait_list, stale, trbs, next>>
  BY DEF HwRun, waiters, driver
<1>2. halted' = [halted EXCEPT ![r] = code = Failure /\ r = Control]
  BY DEF HwRun
<1>3. r = Ring
  BY <1>1 DEF IInv, RingState
<1>4. /\ ring[r] \in Seq(PlacedTrb) /\ Length = Len(ring[r]) /\ Length \in Nat \ {0}
      /\ pushed \in 0..3 /\ Length <= pushed + 1 /\ Place \in Int /\ Place <= 3 /\ Length <= 4
      /\ Ring \in Rings
  BY <1>1, <1>3, Bounds, EmptySeq DEF Length
<1>5. /\ t = ring[r][1] /\ t \in PlacedTrb
      /\ Tail(ring[r]) \in Seq(PlacedTrb) /\ Len(Tail(ring[r])) = Length - 1
      /\ \A i \in 1..(Length - 1) : Tail(ring[r])[i] = ring[r][i + 1]
  <2>1. 1 \in 1..Len(ring[r])
    BY <1>4
  <2> QED
    BY <1>1, <1>4, <2>1, HeadTailProperties, ElementOfSeq
<1>6. /\ ring' \in [Rings -> Seq(PlacedTrb)] /\ ring'[r] = Tail(ring[r])
      /\ \A q \in Rings \ {r} : ring'[q] = ring[q]
  BY <1>1, <1>5 DEF IInv, TypeOK
<1>7. /\ Ring' = Ring /\ Length' = Length - 1 /\ Place' = Place
  BY <1>1, <1>3, <1>5, <1>6 DEF Ring, Length, Place
<1>8. /\ halted' \in [Rings -> BOOLEAN]
      /\ halted'[r] <=> (code = Failure /\ r = Control)
      /\ \A q \in Rings \ {r} : halted'[q] <=> halted[q]
  BY <1>2, Zenon DEF IInv, TypeOK
<1>9. c \in PlacedTrb /\ c.addr = t.addr /\ c.req = t.req
  <2>1. t.addr \in Addresses /\ t.req \in Nat
    BY <1>5 DEF PlacedTrb
  <2> HIDE DEF t
  <2> QED
    BY <2>1, EventFacts DEF Completion
<1>10. t.addr = AddrBack(r, Length) /\ IF Length = Place THEN t.req = req ELSE Quiet(t)
  <2>1. 1 \in 1..Length /\ Length + 1 - 1 = Length
    BY <1>4
  <2>2. /\ ring[r][1].addr = AddrBack(r, Length + 1 - 1)
        /\ IF Length + 1 - 1 = Place THEN ring[r][1].req = req ELSE Quiet(ring[r][1])
    BY <1>3, <2>1 DEF IInv, RingState
  <2> QED
    BY <1>5, <2>1, <2>2
<1>11. Length = Place \/ r = Control
  <2>1. ASSUME r = Command PROVE Length = Place
    <3>1. kind \in Commands /\ Size(kind) = 1 /\ Awaited(kind) = 1
      BY <1>3, <2>1, KindFacts DEF Ring, IInv, TypeOK
    <3>2. Length <= pushed /\ pushed <= 1
      BY <3>1 DEF IInv, RingState, RequestState
    <3> QED
      BY <1>4, <3>1, <3>2 DEF Place
  <2> QED
    BY <2>1, KindFacts DEF Rings
<1>12. Length # Place =>
         (events' = Append(events, c) /\ halted'[r]) \/ events' = events
  BY <1>1, <1>8, <1>10, <1>11 DEF AsksForEvent, Quiet, INTERRUPT_ON_COMPLETION,
                                  INTERRUPT_ON_SHORT_PACKET, Rings, Command, Control
<1>13. events' = Append(events, c) \/ events' = events
  BY <1>1
<1> HIDE DEF t, c
<1>14. /\ events \in Seq(PlacedTrb) /\ Len(events) \in Nat
       /\ events' = Append(events, c) =>
            /\ events' \in Seq(PlacedTrb)
            /\ Len(events') = Len(events) + 1 /\ events'[Len(events) + 1] = c
            /\ \A i \in 1..Len(events) : events'[i] = events[i]
  <2>1. events \in Seq(PlacedTrb)
    BY DEF IInv, TypeOK
  <2>2. Len(events) \in Nat
    BY <2>1, LenProperties
  <2>3. /\ Append(events, c) \in Seq(PlacedTrb)
        /\ Len(Append(events, c)) = Len(events) + 1 /\ Append(events, c)[Len(events) + 1] = c
        /\ \A i \in 1..Len(events) : Append(events, c)[i] = events[i]
    BY <1>9, <2>1, AppendProperties
  <2> QED
    BY <2>1, <2>2, <2>3, Zenon
<1>15. TypeOK' /\ RequestState'
  BY <1>1, <1>6, <1>8, <1>13, <1>14 DEF IInv, TypeOK, RequestState
<1>16. RingState'
  <2>1. \A q \in Rings \ {Ring'} : ring'[q] = << >>
    BY <1>3, <1>6, <1>7 DEF IInv, RingState
  <2>2. \A q \in Rings \ {Ring'} : ~halted'[q]
    BY <1>3, <1>7, <1>8, Zenon DEF IInv, RingState
  <2>3. kind' \in Commands \cup {"none"} => ~halted'[Ring']
    <3>1. kind \in Commands => r = Command
      BY <1>3, KindFacts DEF Ring, IInv, TypeOK
    <3>2. kind # "none"
      <4>1. ASSUME kind = "none" PROVE FALSE
        <5>1. Length <= pushed /\ pushed <= 0
          BY <4>1, KindFacts DEF IInv, RingState, RequestState, TypeOK
        <5> QED
          BY <1>4, <5>1
      <4> QED
        BY <4>1
    <3>3. r = Command => ~halted'[r]
      BY <1>8 DEF Command, Control
    <3> QED
      BY <1>1, <1>3, <1>7, <3>1, <3>2, <3>3, Zenon
  <2>4. Length' <= IF kind' \in Commands \cup {"none"} THEN pushed' ELSE pushed' + 1
    BY <1>1, <1>4, <1>7 DEF IInv, RingState
  <2>5. pc' \in Finished /\ kind' # "none" => Length' < Place'
    BY <1>1, <1>4, <1>7 DEF IInv, RingState
  <2>6. ASSUME NEW i \in 1..Length'
        PROVE  /\ ring'[Ring'][i].addr = Back(Ring, next[Ring], Length' + 1 - i)
               /\ IF Length' + 1 - i = Place' THEN ring'[Ring'][i].req = req'
                  ELSE Quiet(ring'[Ring'][i])
    <3>1. i + 1 \in 1..Length /\ i \in 1..(Length - 1) /\ Length' + 1 - i = Length + 1 - (i + 1)
      <4> DEFINE n == Length
      <4> DEFINE m == Length'
      <4>1. n \in Nat \ {0} /\ m = n - 1 /\ i \in 1..m
        BY <1>4, <1>7
      <4> HIDE DEF n, m
      <4>2. i + 1 \in 1..n /\ i \in 1..(n - 1) /\ m + 1 - i = n + 1 - (i + 1)
        BY <4>1
      <4> QED
        BY <4>2 DEF n, m
    <3>2. ring'[Ring'][i] = ring[Ring][i + 1]
      BY <1>3, <1>5, <1>6, <1>7, <3>1
    <3> QED
      BY <1>1, <1>7, <3>1, <3>2 DEF IInv, RingState, AddrBack
  <2> QED
    BY <1>1, <1>7, <2>1, <2>2, <2>3, <2>4, <2>5, <2>6 DEF RingState, AddrBack
<1>17. WaitingState'
  BY <1>1, <1>7 DEF IInv, WaitingState, AddrBack
<1>18. \A i \in 1..Len(events) : events[i].addr = NoAddr \/ OwnEvent(events[i])
  BY <1>1, <1>3 DEF IInv, EventState, StaleEvent
<1>19. Place >= 1 => waiting = AddrBack(r, Place) /\ waiting # NoAddr
  <2>1. Place >= 1 => Place \in 1..4
    BY <1>4
  <2> QED
    BY <1>3, <2>1, AddrType DEF IInv, WaitingState
<1> DEFINE Own2(x) ==
      /\ pc \in Active /\ Place >= 1 /\ Length - 1 < Place /\ trbs = << >>
      /\ x.addr = waiting /\ x.req = req
<1> DEFINE Stale2(x) ==
      /\ halted'[r] /\ Length - 1 <= pushed /\ Length # Place /\ x.addr = AddrBack(r, Length)
<1>20. ASSUME Length = Place
       PROVE  /\ \A i \in 1..Len(events') : events'[i].addr = NoAddr \/ Own2(events'[i]) \/ Stale2(events'[i])
              /\ \A i, j \in 1..Len(events') : Own2(events'[i]) /\ Own2(events'[j]) => i = j
  <2>1. \A i \in 1..Len(events) : events[i].addr = NoAddr /\ ~Own2(events[i])
    BY <1>4, <1>18, <1>19, <1>20 DEF OwnEvent
  <2>2. Own2(c)
    <3>1. trbs = << >>
      BY <1>4, <1>20 DEF IInv, TrbsState
    <3>2. pc \in Active
      <4>1. kind = "none" => Length <= 0
        <5>1. kind = "none" => pushed <= 0 /\ Length <= pushed
          BY KindFacts DEF IInv, RingState, RequestState, TypeOK
        <5> QED
          BY <1>4, <5>1
      <4>2. pc \notin Finished
        BY <1>4, <1>20, <4>1 DEF IInv, RingState
      <4> QED
        BY <4>2 DEF IInv, TypeOK
    <3> QED
      BY <1>4, <1>9, <1>10, <1>19, <1>20, <3>1, <3>2
  <2> HIDE DEF Own2, Stale2
  <2>3. \A i \in 1..Len(events') :
          \/ i \in 1..Len(events) /\ events'[i] = events[i]
          \/ i = Len(events) + 1 /\ events'[i] = c
    BY <1>13, <1>14
  <2> QED
    BY <1>14, <2>1, <2>2, <2>3
<1>21. ASSUME Length # Place
       PROVE  /\ \A i \in 1..Len(events') : events'[i].addr = NoAddr \/ Own2(events'[i]) \/ Stale2(events'[i])
              /\ \A i, j \in 1..Len(events') : Own2(events'[i]) /\ Own2(events'[j]) => i = j
  <2>1. \A x : Own2(x) <=> OwnEvent(x)
    BY <1>4, <1>21 DEF OwnEvent
  <2>2. Length - 1 <= pushed /\ c.addr = AddrBack(r, Length)
    BY <1>4, <1>9, <1>10
  <2>3. ~Own2(c)
    <3>1. ASSUME Own2(c) PROVE FALSE
      <4>1. Place \in 1..4 /\ Length \in 1..4 /\ AddrBack(r, Length) = AddrBack(r, Place)
        <5>1. Place >= 1 /\ c.addr = waiting
          BY <3>1, Zenon
        <5>2. Place \in 1..4 /\ Length \in 1..4
          <6> DEFINE n == Length
          <6> DEFINE m == Place
          <6>1. n \in Nat \ {0} /\ n <= 4 /\ m \in Int /\ m <= 3 /\ m >= 1
            BY <1>4, <5>1, Zenon
          <6> HIDE DEF n, m
          <6>2. m \in 1..4 /\ n \in 1..4
            BY <6>1
          <6> QED
            BY <6>2 DEF n, m
        <5> QED
          BY <1>19, <2>2, <5>1, <5>2, Zenon
      <4> QED
        BY <1>21, <4>1, AddrDistinct DEF IInv
    <3> QED
      BY <3>1
  <2>4. events' = Append(events, c) \/ events' = events
    BY <1>13
  <2>5. events' # events => Stale2(c)
    BY <1>12, <1>21, <2>2, Zenon
  <2> HIDE DEF Own2, Stale2
  <2>6. CASE events' = events
    BY <1>18, <2>1, <2>6 DEF IInv, EventState
  <2>7. CASE events' = Append(events, c) /\ Stale2(c)
    <3>1. \A i \in 1..Len(events') :
            \/ i \in 1..Len(events) /\ events'[i] = events[i]
            \/ i = Len(events) + 1 /\ events'[i] = c
      BY <1>14, <2>7
    <3>2. \A i, j \in 1..Len(events) : Own2(events[i]) /\ Own2(events[j]) => i = j
      BY <2>1 DEF IInv, EventState
    <3>3. \A i \in 1..Len(events) : events[i].addr = NoAddr \/ Own2(events[i])
      BY <1>18, <2>1
    <3>4. \A i \in 1..Len(events') : events'[i].addr = NoAddr \/ Own2(events'[i]) \/ Stale2(events'[i])
      BY <2>7, <3>1, <3>3, Zenon
    <3>5. \A i, j \in 1..Len(events') : Own2(events'[i]) /\ Own2(events'[j]) => i = j
      BY <2>3, <3>1, <3>2, Zenon
    <3> QED
      BY <3>4, <3>5
  <2> QED
    BY <2>4, <2>5, <2>6, <2>7, Zenon
<1>22. EventState'
  <2>1. \A i \in 1..Len(events') : (OwnEvent(events[i]))' <=> Own2(events'[i])
    BY <1>1, <1>7 DEF OwnEvent
  <2>2. \A i \in 1..Len(events') : (StaleEvent(events[i]))' <=> Stale2(events'[i])
    <3>1. Length' + 1 = Length
      BY <1>4, <1>7
    <3> QED
      BY <1>1, <1>3, <1>7, <3>1 DEF StaleEvent, AddrBack
  <2> HIDE DEF Own2, Stale2
  <2> QED
    BY <1>20, <1>21, <2>1, <2>2 DEF EventState
<1>23. TrbsState' /\ WaitState'
  BY <1>1, <1>4, <1>7 DEF IInv, TrbsState, WaitState, stale_waiter_indices, IsAlive
<1> QED
  BY <1>15, <1>16, <1>17, <1>22, <1>23 DEF IInv

\* Every step keeps the invariant.
LEMMA NextIInv == IInv /\ [Next]_vars => IInv'
<1> SUFFICES ASSUME IInv, [Next]_vars PROVE IInv'
  OBVIOUS
<1>1. CASE \E k \in Kinds : StartRequest(k)
  BY <1>1, StartIInv
<1>2. CASE Notify \/ AwaitPending \/ PortNotReady \/ RunReturns \/ RunIsOver \/ PollReturns
  BY <1>2, FrameIInv
     DEF Notify, AwaitPending, PortNotReady, RunReturns, RunIsOver, PollReturns, driver, waiters, xhc
<1>3. CASE \E r \in Rings : HwStep(r)
  <2>1. ASSUME NEW r \in Rings, HwStop(r) PROVE IInv'
    BY <2>1, FrameIInv DEF HwStop, driver, waiters
  <2>2. ASSUME NEW r \in Rings, NEW code, HwRun(r, code) PROVE IInv'
    BY <2>2, HwRunIInv
  <2> QED
    BY <1>3, <2>1, <2>2 DEF HwStep
<1>4. CASE UNCHANGED vars
  BY <1>4, FrameIInv DEF vars, driver, waiters, xhc
<1> QED
  BY <1>1, <1>2, <1>3, <1>4, PushIInv, RegisterIInv, ReadyIInv, PollIInv, RemoveIInv, PortIInv
     DEF Next, CpuStep

-----------------------------------------------------------------------------
(* The theorems.                                                           *)

\* The state of the request, of its ring, of the events and of the waiters fit
\* together in every reachable state, for any number of requests.
THEOREM SpecIInv == Spec => []IInv
  BY InitIInv, NextIInv, PTL DEF Spec

\* What a request is given is the event of its own TRB, in this lap, and only
\* once: EventWaitInfo::matches compares addresses, which come back in every
\* lap, and that is enough.
THEOREM RequestGetsOwnEvent == Spec => []OwnCompletion
<1>1. IInv => OwnCompletion
  <2> SUFFICES ASSUME IInv PROVE OwnCompletion
    OBVIOUS
  <2>1. trbs \in Seq(PlacedTrb) /\ (trbs # << >> => Head(trbs) = trbs[1])
    BY HeadTailProperties DEF IInv, TypeOK
  <2> QED
    BY <2>1 DEF IInv, TrbsState, OwnCompletion
<1> QED
  BY <1>1, SpecIInv, PTL

\* No data stage is on the ring when its request has returned and its buffer
\* is gone.
THEOREM NoDmaAfterReturn == Spec => []BufferOutlivesDma
<1>1. IInv => BufferOutlivesDma
  <2> SUFFICES ASSUME IInv, NEW i \in DOMAIN ring[Control],
                      trb_type(ring[Control][i]) = TrbType.DataStage
               PROVE  ring[Control][i].req = req /\ pc \notin {"start", "failed", "done"}
    BY DEF BufferOutlivesDma
  <2>1. ring[Control] # << >> /\ Control \in Rings
    BY KindFacts DEF Rings
  <2>2. Ring = Control
    BY <2>1 DEF IInv, RingState
  <2>3. i \in 1..Length /\ Length \in Nat /\ Place \in Int /\ pushed \in Nat
    BY <2>2, Bounds, LenProperties DEF Length
  <2>4. Length + 1 - i = Place /\ ring[Control][i].req = req
    BY <2>2, <2>3 DEF IInv, RingState, Quiet
  <2>5. kind # "none"
    <3>1. kind = "none" => Length <= pushed /\ pushed <= 0
      BY KindFacts DEF IInv, RingState, RequestState, TypeOK
    <3> QED
      BY <2>3, <3>1
  <2>6. ~(Length < Place)
    BY <2>3, <2>4
  <2> QED
    BY <2>4, <2>5, <2>6 DEF IInv, RingState, Finished
<1> QED
  BY <1>1, SpecIInv, PTL

\* The awaited request has one waiter in the list, and at most one other is in
\* it, however many requests there have been: removal by index takes the right
\* ones.
THEOREM WaitersAreKept == Spec => []WaitListExact
<1>1. IInv => WaitListExact
  <2> SUFFICES ASSUME IInv PROVE WaitListExact
    OBVIOUS
  <2> DEFINE G == stale_waiter_indices(wait_list)
  <2> DEFINE A == DOMAIN wait_list \ G
  <2>1. (\A j, k \in G : j = k) /\ (\A j, k \in A : j = k)
    BY DEF IInv, WaitState, stale_waiter_indices
  <2>2. Cardinality(G) <= 1
    <3>1. CASE G = {}
      <4>1. Cardinality(G) = 0
        BY <3>1, FS_EmptySet
      <4> QED
        BY <4>1
    <3>2. CASE G # {}
      <4>1. PICK k \in G : TRUE
        BY <3>2
      <4>2. G = {k}
        BY <2>1, <4>1
      <4>3. Cardinality(G) = 1
        BY <4>2, FS_Singleton
      <4> QED
        BY <4>3
    <3> QED
      BY <3>1, <3>2
  <2>3. ASSUME pc = "await" PROVE Cardinality(A) = 1
    <3>1. PICK k \in DOMAIN wait_list : wait_list[k].req = req
      BY <2>3 DEF IInv, WaitState
    <3>2. A = {k}
      BY <2>1, <2>3, <3>1 DEF stale_waiter_indices, IsAlive
    <3> QED
      BY <3>2, FS_Singleton
  <2> QED
    BY <2>2, <2>3 DEF WaitListExact
<1> QED
  BY <1>1, SpecIInv, PTL

\* A ring holds at most the TRBs of one request and a status stage: what
\* CommandRing assumes of its requests (OutstandingAssumption).
THEOREM FewAreOutstanding == Spec => []FewOutstanding
<1>1. IInv => FewOutstanding
  <2> SUFFICES ASSUME IInv, NEW r \in Rings PROVE Len(ring[r]) <= 4
    BY DEF FewOutstanding
  <2>1. CASE r = Ring
    BY <2>1, Bounds DEF Length
  <2>2. CASE r # Ring
    <3>1. ring[r] = << >>
      BY <2>2 DEF IInv, RingState
    <3> QED
      BY <3>1
  <2> QED
    BY <2>1, <2>2
<1> QED
  BY <1>1, SpecIInv, PTL
=============================================================================
