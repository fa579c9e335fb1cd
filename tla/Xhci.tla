-------------------------------- MODULE Xhci --------------------------------
(***************************************************************************)
(* Requests of the xHCI driver and their completion events (xhci.rs).      *)
(*                                                                         *)
(* Two tasks of the executor share the event ring: the one that brings up  *)
(* the device (PciXhciDriver::run, which ends in the loop of the keyboard) *)
(* and the one that polls for events.  A task runs until it awaits what is *)
(* not there; then it is the other one's turn.  The xHC runs all the time. *)
(*                                                                         *)
(* The rings are the FIFO queues that CommandRing and EventRing implement; *)
(* what is kept of a TRB is its address, which is used again in the next   *)
(* lap, and the fields the xHC looks at (Trb).                             *)
(***************************************************************************)
EXTENDS Trb, Sequences, SequencesExt, FiniteSetsExt

CONSTANTS
  Usable,          \* TRBs of a lap of a command or transfer ring
  EventCapacity,   \* events the event ring holds
  MaxRequests,     \* bound: requests the driver makes
  MaxPortEvents,   \* bound: events that answer no request
  EnableSlotMayFail

ASSUME SizeAssumption ==
  /\ Usable \in Nat /\ Usable >= 4
  /\ EventCapacity \in Nat \ {0}
  /\ MaxRequests \in Nat /\ MaxRequests >= 2
  /\ MaxPortEvents \in Nat
  /\ EnableSlotMayFail \in BOOLEAN

Command == "command"
Control == "control"
Rings == {Command, Control}
NoAddr == <<"port", 0>>   \* data() of a PortStatusChangeEvent is no TRB address

REQ_GET_REPORT == 1
REQ_GET_DESCRIPTOR == 6
REQ_SET_PROTOCOL == 11

\* request_descriptor, request_report_bytes, request_descriptor_for_interface
InTransfer(request, length) ==
  << SetupStageTrb(request, length), DataStageTrb_new_in(length), StatusStageTrb_new_out >>

request_set_protocol == << SetupStageTrb(REQ_SET_PROTOCOL, 0), StatusStageTrb_new_in >>

(* The requests of usb.rs, each with the bytes of its buffer.  A device    *)
(* that says so has 32 bytes of descriptors.                               *)
request_device_descriptor == InTransfer(REQ_GET_DESCRIPTOR, 18)
request_string_descriptor_zero == InTransfer(REQ_GET_DESCRIPTOR, 16)
request_string_descriptor == InTransfer(REQ_GET_DESCRIPTOR, 128)
request_config_descriptor == InTransfer(REQ_GET_DESCRIPTOR, 9)
request_config_and_rest == InTransfer(REQ_GET_DESCRIPTOR, 32)
request_hid_report == InTransfer(REQ_GET_REPORT, 8)
request_hid_report_descriptor == InTransfer(REQ_GET_DESCRIPTOR, 4096)

\* The TRBs of a request, for a device with this slot id.
Trbs(k, id) ==
  CASE k = "enable slot"       -> << cmd_enable_slot >>
    [] k = "address device"    -> << cmd_address_device(id) >>
    [] k = "device"            -> request_device_descriptor
    [] k = "string zero"       -> request_string_descriptor_zero
    [] k = "string"            -> request_string_descriptor
    [] k = "config"            -> request_config_descriptor
    [] k = "config and rest"   -> request_config_and_rest
    [] k = "set protocol"      -> request_set_protocol
    [] k = "report"            -> request_hid_report
    [] k = "report descriptor" -> request_hid_report_descriptor

Commands == {"enable slot", "address device"}
Kinds == Commands \cup {"device", "string zero", "string", "config", "config and rest",
                        "set protocol", "report", "report descriptor"}

\* trb_ptr_waiting is the address push returned for this TRB.
Awaited(k) == IF k \in Commands THEN 1 ELSE 2

\* The data stage of a transfer is the TRB that is awaited.
ASSUME StageAssumption ==
  \A k \in Kinds \ Commands : \A i \in DOMAIN Trbs(k, 0) :
    trb_type(Trbs(k, 0)[i]) = TrbType.DataStage => i = Awaited(k)

RingOf(k) == IF k \in Commands THEN Command ELSE Control

(* What run asks for next.  A device names up to three strings; here any   *)
(* number.  The keyboard's driver sets the protocol and asks for reports   *)
(* in a loop; when it fails or finds no interface, the tablet's asks for   *)
(* the report descriptor of its own.                                       *)
AfterOk(k) ==
  CASE k = "none"                     -> {"enable slot"}
    [] k = "enable slot"              -> {"address device"}
    [] k = "address device"           -> {"device"}
    [] k = "device"                   -> {"string zero"}
    [] k \in {"string zero", "string"}  -> {"string", "config"}
    [] k = "config"                   -> {"config and rest"}
    [] k = "config and rest"          -> {"set protocol", "report descriptor"}
    [] k \in {"set protocol", "report"} -> {"report"}
    [] k = "report descriptor"        -> {}
AfterErr(k) == IF k \in {"set protocol", "report"} THEN {"report descriptor"} ELSE {}

VARIABLES
  turn,        \* the task the executor polls: "run" or "events"; "cleanup" is
               \* the end of EventRing::poll in the latter
  pc,          \* where the driver is in its request
  req, kind,   \* number and kind of the request
  pushed,      \* TRBs of it that are on the ring
  waiting,     \* trb_ptr_waiting
  wait_list,   \* EventRing::wait_list: condition and owner of each waiter
  stale,       \* stale_waiter_indices that are still to be removed
  trbs,        \* EventWaitInfo::trbs of the request's waiter
  slot,        \* slot id of the device
  panicked,
  next,        \* next TRB address of each ring
  ring,        \* TRBs on each ring that the xHC has not taken
  rung,        \* the xHC runs the ring
  halted,      \* the xHC stopped the ring for an error
  events,      \* posted and not popped
  port_events  \* bound

driver == <<pc, req, kind, pushed, waiting, slot, panicked>>
waiters == <<wait_list, stale>>
xhc == <<rung, halted, port_events>>
vars == <<turn, driver, waiters, trbs, next, ring, xhc, events>>

Init ==
  /\ turn = "run"
  /\ pc = "start" /\ req = 0 /\ kind = "none" /\ pushed = 0
  /\ waiting = NoAddr
  /\ wait_list = << >> /\ stale = {} /\ trbs = << >>
  /\ slot = 0 /\ panicked = FALSE
  /\ next = [r \in Rings |-> 0]
  /\ ring = [r \in Rings |-> << >>]
  /\ rung = [r \in Rings |-> FALSE]
  /\ halted = [r \in Rings |-> FALSE]
  /\ events = << >>
  /\ port_events = 0

-----------------------------------------------------------------------------
(* The task that makes requests.                                           *)
StartRequest(k) ==
  /\ turn = "run" /\ ~panicked
  /\ req < MaxRequests
  /\ \/ pc = "start" /\ k \in AfterOk(kind)
     \/ pc = "failed" /\ k \in AfterErr(kind)
  /\ req' = req + 1 /\ kind' = k /\ pushed' = 0
  /\ pc' = "push"
  /\ UNCHANGED <<turn, waiting, slot, panicked, waiters, trbs, next, ring, xhc, events>>

\* A TRB at its address, with the request it belongs to.
Placed(t, a, n) == [addr |-> a, req |-> n, option |-> t.option, control |-> t.control]

\* CommandRing::push, once for each TRB of the request.
Push ==
  LET r == RingOf(kind)
      t == Trbs(kind, slot)[pushed + 1]
      a == <<r, next[r]>>
  IN  /\ turn = "run" /\ pc = "push"
      /\ ring' = [ring EXCEPT ![r] = Append(@, Placed(t, a, req))]
      /\ next' = [next EXCEPT ![r] = (@ + 1) % Usable]
      /\ waiting' = IF pushed + 1 = Awaited(kind) THEN a ELSE waiting
      /\ pushed' = pushed + 1
      /\ pc' = IF pushed' = Len(Trbs(kind, slot)) THEN "notify" ELSE "push"
      /\ UNCHANGED <<turn, req, kind, slot, panicked, waiters, trbs, xhc, events>>

\* Mutant: an await between the doorbell and the registration.
NotifyThenYield ==
  /\ turn = "run" /\ pc = "notify"
  /\ rung' = [rung EXCEPT ![RingOf(kind)] = TRUE]
  /\ pc' = "register"
  /\ turn' = "events"
  /\ UNCHANGED <<req, kind, pushed, waiting, slot, panicked, waiters, trbs, next, ring,
                 halted, port_events, events>>

\* notify_xhc, notify_ep.  (XhciBringUp models a slot without a doorbell.)
Notify ==
  /\ turn = "run" /\ pc = "notify"
  /\ rung' = [rung EXCEPT ![RingOf(kind)] = TRUE]
  /\ pc' = "register"
  /\ UNCHANGED <<turn, req, kind, pushed, waiting, slot, panicked, waiters, trbs, next,
                 ring, halted, port_events, events>>

\* EventFuture::new_for_trb: the xHC runs already, the event task does not.
RegisterWaiter ==
  /\ turn = "run" /\ pc = "register"
  /\ wait_list' = Append(wait_list, [addr |-> waiting, req |-> req])
  /\ trbs' = << >>
  /\ pc' = "await"
  /\ UNCHANGED <<turn, req, kind, pushed, waiting, slot, panicked, stale, next, ring, xhc, events>>

\* Mutant: the request returns at once, without its event.
AwaitNothing ==
  /\ turn = "run" /\ pc = "await"
  /\ trbs = << >>
  /\ pc' = "start"
  /\ UNCHANGED <<turn, req, kind, pushed, waiting, slot, panicked, waiters, trbs, next,
                 ring, xhc, events>>

\* EventFuture::poll, nothing there: Poll::Pending.
AwaitPending ==
  /\ turn = "run" /\ pc = "await"
  /\ trbs = << >>
  /\ turn' = "events"
  /\ UNCHANGED <<driver, waiters, trbs, next, ring, xhc, events>>

result_ok(k, e) == IF k \in Commands THEN cmd_result_ok(e) ELSE transfer_result_ok(e)

(* The event is there; the future and with it the waiter are dropped.      *)
(* init_port takes the slot id of whatever event answered Enable Slot, and *)
(* set_output_context(slot) computes slot - 1; everything later checks the *)
(* completion code.                                                        *)
AwaitReady ==
  /\ turn = "run" /\ pc = "await"
  /\ trbs # << >>
  /\ LET e == Head(trbs)
     IN  IF kind = "enable slot"
         THEN /\ slot' = slot_id(e)
              /\ panicked' = (slot' = 0)
              /\ pc' = "start"
         ELSE /\ pc' = IF result_ok(kind, e) THEN "start" ELSE "failed"
              /\ UNCHANGED <<slot, panicked>>
  /\ trbs' = Tail(trbs)
  /\ UNCHANGED <<turn, req, kind, pushed, waiting, waiters, next, ring, xhc, events>>

\* The yield_execution() of reset_port: the port is not ready yet.
PortNotReady ==
  /\ turn = "run" /\ pc = "start" /\ req = 0
  /\ turn' = "events"
  /\ UNCHANGED <<driver, waiters, trbs, next, ring, xhc, events>>

\* The task returns: no port, or none that is enabled; no driver for the
\* device; all descriptors read; a request failed and nothing else is tried.
\* Or the bound on requests is reached.
RunReturns ==
  /\ turn = "run" /\ ~panicked
  /\ \/ pc = "start" /\ (kind \in {"none", "config and rest", "report descriptor"} \/ req = MaxRequests)
     \/ pc = "failed"
  /\ pc' = "done"
  /\ UNCHANGED <<turn, req, kind, pushed, waiting, slot, panicked, waiters, trbs, next,
                 ring, xhc, events>>

\* The task has left the executor's queue: only the event task is polled.
RunIsOver ==
  /\ turn = "run" /\ pc = "done"
  /\ turn' = "events"
  /\ UNCHANGED <<driver, waiters, trbs, next, ring, xhc, events>>

-----------------------------------------------------------------------------
(* The task that polls for events.                                         *)

\* Weak::strong_count() > 0: the future of the request is still awaited.
IsAlive(w) == pc = "await" /\ w.req = req

\* Mutant: a waiter takes any event.
matches_any(w, e) == TRUE

\* EventWaitInfo::matches: only trb_addr is ever set in the condition.
matches(w, e) == w.addr = e.addr

\* Mutant: .rev().enumerate(): the places are counted from the end.
stale_waiter_indices_rev(list) ==
  { Len(list) + 1 - k : k \in { i \in DOMAIN list : ~IsAlive(list[i]) } }

\* The places of the waiters nobody awaits.
stale_waiter_indices(list) == { k \in DOMAIN list : ~IsAlive(list[k]) }

(* EventRing::poll: one event goes to every waiter that matches it, or is  *)
(* reported as unhandled.  The request has one waiter.  Without an event   *)
(* the task is at its yield_execution() at once.                           *)
PollEvents ==
  /\ turn = "events" /\ ~panicked
  /\ IF events = << >>
     THEN turn' = "run" /\ UNCHANGED <<events, trbs, stale>>
     ELSE LET e == Head(events)
              taken == \E k \in DOMAIN wait_list : IsAlive(wait_list[k]) /\ matches(wait_list[k], e)
          IN  /\ turn' = "cleanup"
              /\ events' = Tail(events)
              /\ trbs' = IF taken THEN Append(trbs, e) ELSE trbs
              /\ stale' = stale_waiter_indices(wait_list)
  /\ UNCHANGED <<driver, wait_list, next, ring, xhc>>

\* wait_list.remove(k), from the last place to the first: every waiter behind
\* the one removed moves up.
RemoveStale ==
  /\ turn = "cleanup" /\ stale # {}
  /\ wait_list' = RemoveAt(wait_list, Max(stale))
  /\ stale' = stale \ {Max(stale)}
  /\ UNCHANGED <<turn, driver, trbs, next, ring, xhc, events>>

\* poll returns, and the task is at its yield_execution().
PollReturns ==
  /\ turn = "cleanup" /\ stale = {}
  /\ turn' = "run"
  /\ UNCHANGED <<driver, waiters, trbs, next, ring, xhc, events>>

-----------------------------------------------------------------------------
(* The xHC.  A TRB that asks for an event gets one; an error is reported   *)
(* for the TRB it hits, whatever that asks for, and stops a transfer ring. *)
(* Nothing in the driver starts a stopped ring again.                      *)
Failure == 4   \* any code that is neither Success nor ShortPacket
Codes(t) ==
  {Success}
  \cup (IF trb_type(t) = TrbType.DataStage THEN {ShortPacket} ELSE {})
  \cup (IF trb_type(t) # TrbType.EnableSlotCommand \/ EnableSlotMayFail THEN {Failure} ELSE {})

AsksForEvent(t, code) ==
  \/ INTERRUPT_ON_COMPLETION \in t.control
  \/ INTERRUPT_ON_SHORT_PACKET \in t.control /\ code = ShortPacket

\* The first bytes of the event are the address of the TRB it answers.
Event(type, code, s, a, n) ==
  Placed(Trb(Shl(Bin(code), 24, 32), TypeField(type) \cup Shl(Bin(s), 24, 32)), a, n)

\* The slot of the device is 1; a command always gets its event.
Completion(r, t, code) ==
  IF r = Control
  THEN Event(TrbType.TransferEvent, code, 1, t.addr, t.req)
  ELSE Event(TrbType.CommandCompletionEvent, code, IF code = Success THEN 1 ELSE slot_id(t),
             t.addr, t.req)

HwRun(r, code) ==
  /\ rung[r] /\ ~halted[r]
  /\ ring[r] # << >>
  /\ LET t == Head(ring[r])
     IN  /\ code \in Codes(t)
         /\ IF r = Command \/ AsksForEvent(t, code) \/ code = Failure
            THEN Len(events) < EventCapacity /\ events' = Append(events, Completion(r, t, code))
            ELSE UNCHANGED events
         /\ halted' = [halted EXCEPT ![r] = code = Failure /\ r = Control]
  /\ ring' = [ring EXCEPT ![r] = Tail(@)]
  /\ UNCHANGED <<turn, driver, waiters, trbs, next, rung, port_events>>

HwStop(r) ==
  /\ rung[r]
  /\ ring[r] = << >> \/ halted[r]
  /\ rung' = [rung EXCEPT ![r] = FALSE]
  /\ UNCHANGED <<turn, driver, waiters, trbs, next, ring, halted, port_events, events>>

\* Something happened on a port.
HwPortStatusChange ==
  /\ port_events < MaxPortEvents
  /\ Len(events) < EventCapacity
  /\ port_events' = port_events + 1
  /\ events' = Append(events, Event(TrbType.PortStatusChangeEvent, Success, 0, NoAddr, 0))
  /\ UNCHANGED <<turn, driver, waiters, trbs, next, ring, rung, halted>>

-----------------------------------------------------------------------------
CpuStep ==
  \/ \E k \in Kinds : StartRequest(k)
  \/ Push \/ Notify \/ RegisterWaiter \/ AwaitPending \/ AwaitReady
  \/ PortNotReady \/ RunReturns \/ RunIsOver
  \/ PollEvents \/ RemoveStale \/ PollReturns

HwStep(r) == HwStop(r) \/ \E code \in {Success, ShortPacket, Failure} : HwRun(r, code)

Next ==
  \/ CpuStep
  \/ \E r \in Rings : HwStep(r)
  \/ HwPortStatusChange

\* The CPU polls its tasks and the xHC runs a rung ring.
Spec == Init /\ [][Next]_vars /\ WF_vars(CpuStep) /\ \A r \in Rings : WF_vars(HwStep(r))

-----------------------------------------------------------------------------
(* Properties.                                                             *)

\* What a request gets is the event of its own TRB, of this lap: not an older
\* one for the same address, not a port's, and never two.
OwnCompletion ==
  /\ Len(trbs) <= 1
  /\ trbs # << >> => Head(trbs).req = req /\ Head(trbs).addr = waiting

\* The xHC writes into the buffer of a data stage only while the request that
\* owns the buffer is under way: no data stage outlives its request.
BufferOutlivesDma ==
  \A i \in DOMAIN ring[Control] :
    (trb_type(ring[Control][i]) = TrbType.DataStage /\ ~halted[Control]) =>
      ring[Control][i].req = req /\ pc \notin {"start", "failed", "done"}

\* The waiter of the awaited request is in the list, once, whatever the removal
\* of others makes of the places; and waiters do not pile up, however many
\* requests the keyboard loop makes: at most one is stale.
WaitListExact ==
  LET gone == stale_waiter_indices(wait_list)
  IN  /\ Cardinality(gone) <= 1
      /\ pc = "await" => Cardinality(DOMAIN wait_list \ gone) = 1

\* Because a request is awaited before the next, a ring never holds more than
\* its TRBs and one status stage: the bound CommandRing relies on.
FewOutstanding == \A r \in Rings : Len(ring[r]) <= 4

\* The xHC stopped the ring for an error before it came to the awaited TRB.
\* Its event carries the address of another TRB, which nobody waits for.
StoppedBeforeAwaited ==
  /\ halted[Control]
  /\ \E i \in DOMAIN ring[Control] : ring[Control][i].addr = waiting

\* Every request returns, with its result or with an error: the completion is
\* never missed, even when the xHC posts it before the waiter is registered.
\* The one way to wait for ever is an error in front of the awaited TRB: in
\* its setup stage, or in a stage of an earlier request, because nothing
\* starts the ring again.
RequestsReturn == pc = "await" ~> (pc # "await" \/ StoppedBeforeAwaited)

\* No output context is set for slot 0, which is the scratchpad's.
NoContextForSlotZero == ~panicked
=============================================================================
