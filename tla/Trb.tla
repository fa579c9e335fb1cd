-------------------------------- MODULE Trb --------------------------------
(***************************************************************************)
(* The TRBs of commands, control transfers and events, bit by bit          *)
(* (xhci.rs).  The first 8 bytes of a TRB, which are the setup packet or   *)
(* an address, go to the device unseen and are left out.                   *)
(***************************************************************************)
EXTENDS Bits

TrbType ==
  [SetupStage |-> 2, DataStage |-> 3, StatusStage |-> 4,
   EnableSlotCommand |-> 9, AddressDeviceCommand |-> 11,
   TransferEvent |-> 32, CommandCompletionEvent |-> 33, PortStatusChangeEvent |-> 34]

INTERRUPT_ON_SHORT_PACKET == 2
INTERRUPT_ON_COMPLETION == 5
IMMEDIATE_DATA == 6
DATA_DIR_IN == 16

(* GenericTrbEntry *)
Trb(option, control) == [option |-> option, control |-> control]
set_trb_type(trb, type) == [trb EXCEPT !.control = write_bits(@, 32, 10, 6, Bin(type))]
set_slot_id(trb, slot) == [trb EXCEPT !.control = write_bits(@, 32, 24, 8, Bin(slot))]
trb_type(trb) == Num(read_bits(trb.control, 10, 6))
slot_id(trb) == Num(read_bits(trb.control, 24, 8))
completion_code(trb) == Num(read_bits(trb.option, 24, 8))

cmd_enable_slot == set_trb_type(Trb({}, {}), TrbType.EnableSlotCommand)
cmd_address_device(slot) ==
  set_slot_id(set_trb_type(Trb({}, {}), TrbType.AddressDeviceCommand), slot)

Success == 1
ShortPacket == 13
cmd_result_ok(trb) ==
  trb_type(trb) = TrbType.CommandCompletionEvent /\ completion_code(trb) = Success
transfer_result_ok(trb) ==
  trb_type(trb) = TrbType.TransferEvent /\ completion_code(trb) \in {Success, ShortPacket}

(* The stages of a control transfer.  The transfer type of the setup stage *)
(* depends on bit 7 of the request, which no request has: the direction is *)
(* bit 7 of the request type.                                              *)
TypeField(type) == Shl(Bin(type), 10, 32)
TransferType(request, length) ==
  CASE length = 0 -> 0
    [] length # 0 /\ 7 \in Bin(request) -> 3
    [] length # 0 /\ 7 \notin Bin(request) -> 2

SetupStageTrb(request, length) ==
  Trb(Bin(8), Shl(Bin(TransferType(request, length)), 16, 32)
              \cup TypeField(TrbType.SetupStage) \cup {IMMEDIATE_DATA})

DataStageTrb_new_in(length) ==
  Trb(Bin(length), TypeField(TrbType.DataStage)
                   \cup {DATA_DIR_IN, INTERRUPT_ON_COMPLETION, INTERRUPT_ON_SHORT_PACKET})

StatusStageTrb_new_out == Trb({}, TypeField(TrbType.StatusStage))
StatusStageTrb_new_in ==
  Trb({}, TypeField(TrbType.StatusStage)
          \cup {DATA_DIR_IN, INTERRUPT_ON_COMPLETION, INTERRUPT_ON_SHORT_PACKET})
=============================================================================
