---------------------------- MODULE XhciBringUp ----------------------------
(***************************************************************************)
(* Bringing up the xHC and the device on its last connected port (xhci.rs):*)
(* Controller::new over the operational and runtime registers, then        *)
(* PciXhciDriver::run up to the first doorbell of the device's slot, with  *)
(* PORTSC and the input context bit by bit.                                *)
(*                                                                         *)
(* The xHC is external.  The firmware has left it running with structures  *)
(* of its own.  A reset clears its registers; it obeys Run/Stop and reset  *)
(* in its own time; devices come and go on its ports.                      *)
(***************************************************************************)
EXTENDS Bits, Sequences

CONSTANTS
  Ports, Slots,   \* MaxPorts and MaxSlots of the xHC
  Scratchpads,    \* scratchpad buffers it needs
  PageSizes,      \* values its PAGESIZE register may have
  Speeds,         \* protocol speed ids of the devices that are plugged in
  MaxPlugs        \* bound: devices that come or go

ASSUME XhcAssumption ==
  /\ Ports \in 1..127 /\ Slots \in 1..255
  /\ Scratchpads \in 0..1023
  /\ MaxPlugs \in Nat

VARIABLES
  dpc,         \* where the driver is
  usbcmd,      \* "run" and "reset", the two bits of USBCMD that are used
  halted,      \* HCHalted of USBSTS
  pagesize,    \* PAGESIZE
  regs,        \* CONFIG, DCBAAP, CRCR and interrupter 0
  scratch,     \* buffers in the scratchpad table
  doorbells,   \* the indices of doorbell_regs
  portsc,      \* PORTSC of each port
  plugs,       \* bound
  port,        \* the port scan, then the port that is brought up
  connected,   \* connected_port, 0 for None
  slot,        \* the slot Enable Slot returned
  context      \* the input context

setup == <<scratch, doorbells>>
device == <<port, connected, slot, context>>
ports == <<pagesize, portsc, plugs>>
driverVars == <<dpc, setup, device>>
xhcVars == <<usbcmd, halted, regs, ports>>
bringUpVars == <<driverVars, xhcVars>>

-----------------------------------------------------------------------------
(* CapabilityRegisters.                                                    *)
HcsParams1 == Bin(Slots) \cup Shl(Bin(Ports), 24, 32) \cup {8}   \* one interrupter
HcsParams2 == Shl(Bin(Scratchpads \div 32), 21, 32) \cup Shl(Bin(Scratchpads % 32), 27, 32)

num_of_device_slots == Num(extract_bits(HcsParams1, 0, 8))
num_of_ports == Num(extract_bits(HcsParams1, 24, 8))
num_scratchpad_bufs ==
  Num(Shl(extract_bits(HcsParams2, 21, 5), 5, 32) \cup extract_bits(HcsParams2, 27, 5))

\* The registers as the firmware left them, after a reset, and as the driver
\* means them.
FirmwareRegs == [config |-> 1, dcbaap |-> "firmware", crcr |-> "firmware", irs |-> "firmware"]
ResetRegs == [config |-> 0, dcbaap |-> "null", crcr |-> "null", irs |-> "null"]
DriverRegs == [config |-> Slots, dcbaap |-> "dcbaa", crcr |-> "command ring", irs |-> "event ring"]

-----------------------------------------------------------------------------
(* PORTSC.                                                                 *)
CCS == 0    PED == 1    PR == 4    PP == 9    SpeedShift == 10
CSC == 17   PRC == 21
ChangeBits == 17..23

\* Mutant: the bits as they are read.
PreserveAll == 0..31

PRESERVE_MASK == {0, 3} \cup 5..16 \cup 24..27 \cup {30}

\* What a write to PORTSC does: 1 to PED disables the port and 1 to a change
\* bit clears it; PP is written; PR starts a reset.
PortWrite(old, new) ==
  LET kept == (old \ {PP}) \ (new \cap (ChangeBits \cup {PED}))
  IN  (IF PR \in new THEN kept \ {PED} ELSE kept) \cup (new \cap {PP, PR})

assert_bit(p, pos) ==
  portsc' = [portsc EXCEPT ![p] = PortWrite(@, (@ \cap PRESERVE_MASK) \cup {pos})]

is_enabled(p) == {PP, CCS, PED} \subseteq portsc[p] /\ PR \notin portsc[p]

port_speed(p) == Num(extract_bits(portsc[p], SpeedShift, 4))
MaxPacketSize == << 8, 8, 64, 512 >>   \* by port_speed, the protocol speed id

-----------------------------------------------------------------------------
(* The input context.  psi is shifted the wrong way, so that it never gets *)
(* into the word.                                                          *)
set_port_speed(word, psi) == (word \ 20..23) \cup Shr(Bin(psi), 20)
set_last_valid_dci(word, dci) == (word \ 27..31) \cup Shl(Bin(dci), 27, 32)

\* Mutant: another field.
set_root_hub_port_number_low(word, p) == (word \ 16..23) \cup Bin(p)

set_root_hub_port_number(word, p) == (word \ 16..23) \cup Shl(Bin(p), 16, 32)

\* EndpointContext::new_control_endpoint: data[1] and tr_dequeue_ptr.
Control == 4
new_control_endpoint(max_packet_size, ring) ==
  [ data1 |-> Shl(Bin(Control), 3, 32) \cup Shl(Bin(3), 1, 32)
                \cup Shl(Bin(max_packet_size), 16, 32),
    tr_dequeue_ptr |-> write_bits(write_bits({}, 64, 0, 1, {0}), 64, 4, 60, Shr(ring, 4)) ]

CtrlEpRing == {12, 20}   \* ring_phys_addr: some page
NoContext == [add |-> {}, slot0 |-> {}, slot1 |-> {},
              ep |-> [data1 |-> {}, tr_dequeue_ptr |-> {}]]

NewContext(p) ==
  [ add |-> {0, 1},
    slot1 |-> set_root_hub_port_number({}, p),
    slot0 |-> set_port_speed(set_last_valid_dci({}, 1), port_speed(p)),
    ep |-> new_control_endpoint(MaxPacketSize[port_speed(p)], CtrlEpRing) ]

-----------------------------------------------------------------------------
PortStates == { {PP}, {} } \cup { {PP, CCS, CSC} \cup Shl(Bin(s), SpeedShift, 32) : s \in Speeds }

BringUpInit ==
  /\ dpc = "absent"
  /\ usbcmd = {"run"} /\ halted = FALSE
  /\ pagesize \in PageSizes
  /\ regs = FirmwareRegs
  /\ scratch = 0 /\ doorbells = {}
  /\ portsc \in [1..Ports -> PortStates]
  /\ plugs = 0
  /\ port = 1 /\ connected = 0 /\ slot = 0
  /\ context = NoContext

At(from, to) == dpc = from /\ dpc' = to

-----------------------------------------------------------------------------
(* setup_xhc_registers and Controller::new.                                *)
setup_xhc_registers ==
  /\ At("registers", "stop")
  /\ doorbells' = 0..num_of_ports
  /\ UNCHANGED <<scratch, device, xhcVars>>

StopXhc ==
  /\ At("stop", "wait halted")
  /\ usbcmd' = usbcmd \ {"run"}
  /\ UNCHANGED <<setup, device, halted, regs, ports>>

\* Mutant: the wait for HCHalted is left out.
MayReset_unchecked == TRUE
MayReset == halted

ResetXhc ==
  /\ At("wait halted", "wait reset")
  /\ MayReset
  /\ usbcmd' = usbcmd \cup {"reset"}
  /\ UNCHANGED <<setup, device, halted, regs, ports>>

\* page_size wants one bit.
HasPageSize == Cardinality(pagesize \cap Mask(16)) = 1

\* ScratchpadBuffers::alloc.
AllocScratchpads ==
  /\ dpc = "wait reset" /\ "reset" \notin usbcmd
  /\ IF HasPageSize
     THEN dpc' = "irs" /\ scratch' = Max({num_scratchpad_bufs, 1})
     ELSE dpc' = "attach failed" /\ UNCHANGED scratch
  /\ UNCHANGED <<doorbells, device, xhcVars>>

init_irs ==
  /\ At("irs", "slots")
  /\ regs' = [regs EXCEPT !.irs = "event ring"]
  /\ UNCHANGED <<setup, device, usbcmd, halted, ports>>

init_slots_and_contexts ==
  /\ At("slots", "command ring")
  /\ regs' = [regs EXCEPT !.config = num_of_device_slots, !.dcbaap = "dcbaa"]
  /\ UNCHANGED <<setup, device, usbcmd, halted, ports>>

init_command_ring ==
  /\ At("command ring", "start")
  /\ regs' = [regs EXCEPT !.crcr = "command ring"]
  /\ UNCHANGED <<setup, device, usbcmd, halted, ports>>

start_xhc ==
  /\ At("start", "wait running")
  /\ usbcmd' = usbcmd \cup {"run"}
  /\ UNCHANGED <<setup, device, halted, regs, ports>>

\* Controller::new returns and attach spawns run.
XhcStarted ==
  /\ At("wait running", "scan")
  /\ ~halted
  /\ UNCHANGED <<setup, device, xhcVars>>

Attach ==
  \/ setup_xhc_registers \/ StopXhc \/ ResetXhc \/ AllocScratchpads \/ init_irs
  \/ init_slots_and_contexts \/ init_command_ring \/ start_xhc \/ XhcStarted

-----------------------------------------------------------------------------
(* PciXhciDriver::run, a task.  It takes the last port that is connected.  *)
ScanPort ==
  /\ dpc = "scan" /\ port <= Ports
  /\ connected' = IF CCS \in portsc[port] THEN port ELSE connected
  /\ port' = port + 1
  /\ UNCHANGED <<dpc, setup, slot, context, xhcVars>>

ScanEnd ==
  /\ dpc = "scan" /\ port > Ports
  /\ IF connected = 0 THEN dpc' = "done" /\ UNCHANGED port
     ELSE dpc' = "power" /\ port' = connected
  /\ UNCHANGED <<setup, connected, slot, context, xhcVars>>

\* reset_port: a wait is a loop of yield_execution.
assert_pp ==
  /\ At("power", "wait power")
  /\ assert_bit(port, PP)
  /\ UNCHANGED <<setup, device, usbcmd, halted, pagesize, regs, plugs>>

assert_pr ==
  /\ At("wait power", "wait port reset")
  /\ PP \in portsc[port]
  /\ assert_bit(port, PR)
  /\ UNCHANGED <<setup, device, usbcmd, halted, pagesize, regs, plugs>>

\* is_enabled, whose four reads of PORTSC are one here: a device may as well go
\* after the last of them.  Then Enable Slot, which the xHC answers with any
\* free slot.  (Xhci models a failure of the command.)
EnableSlot ==
  /\ dpc = "wait port reset" /\ PR \notin portsc[port]
  /\ IF is_enabled(port)
     THEN dpc' = "address device" /\ slot' \in 1..Slots
     ELSE dpc' = "done" /\ UNCHANGED slot
  /\ UNCHANGED <<setup, port, connected, context, xhcVars>>

\* address_device: max_packet_size refuses a speed id it does not know, and the
\* xHC may refuse the command.
AddressDevice ==
  /\ dpc = "address device"
  /\ IF port_speed(port) \in DOMAIN MaxPacketSize
     THEN dpc' \in {"addressed", "done"} /\ context' = NewContext(port)
     ELSE dpc' = "done" /\ UNCHANGED context
  /\ UNCHANGED <<setup, port, connected, slot, xhcVars>>

\* The doorbell of the slot, for the first descriptor: they are counted by
\* ports, so a slot above the number of ports has none.
notify_ep ==
  /\ dpc = "addressed"
  /\ dpc' = IF slot \in doorbells THEN "descriptors" ELSE "done"
  /\ UNCHANGED <<setup, device, xhcVars>>

Run ==
  \/ ScanPort \/ ScanEnd \/ assert_pp \/ assert_pr \/ EnableSlot \/ AddressDevice \/ notify_ep

-----------------------------------------------------------------------------
(* The xHC and its ports.                                                  *)
HwHalt ==
  /\ "run" \notin usbcmd /\ ~halted
  /\ halted' = TRUE
  /\ UNCHANGED <<driverVars, usbcmd, regs, ports>>

\* A reset while the xHC runs leaves it running with what it has of its
\* registers.
HwReset ==
  /\ "reset" \in usbcmd
  /\ usbcmd' = usbcmd \ {"reset"}
  /\ regs' = ResetRegs
  /\ UNCHANGED <<driverVars, halted, ports>>

HwStart ==
  /\ "run" \in usbcmd /\ halted
  /\ halted' = FALSE
  /\ UNCHANGED <<driverVars, usbcmd, regs, ports>>

HwPortReset(p) ==
  /\ PR \in portsc[p]
  /\ portsc' = [portsc EXCEPT ![p] = (@ \ {PR}) \cup {PRC} \cup (IF CCS \in @ THEN {PED} ELSE {})]
  /\ UNCHANGED <<driverVars, usbcmd, halted, pagesize, regs, plugs>>

HwPlug(p) ==
  /\ plugs < MaxPlugs
  /\ plugs' = plugs + 1
  /\ LET old == portsc[p] \ ({CCS, PED} \cup 10..13)
     IN  portsc' \in IF CCS \in portsc[p] THEN { [portsc EXCEPT ![p] = old \cup {CSC}] }
                     ELSE { [portsc EXCEPT ![p] = old \cup {CCS, CSC} \cup Shl(Bin(s), SpeedShift, 32)]
                            : s \in Speeds }
  /\ UNCHANGED <<driverVars, usbcmd, halted, pagesize, regs>>

Hw == HwHalt \/ HwReset \/ HwStart \/ \E p \in 1..Ports : HwPortReset(p)
Plug == \E p \in 1..Ports : HwPlug(p)

-----------------------------------------------------------------------------
\* What the driver does to a port is what it means: assert_bit clears no change
\* bit and touches no other port, and it disables the port only by resetting
\* it.  (PORTSC is read, masked and written back; a 1 in PED or in a change bit
\* is a command.)
PortKept ==
  [][ dpc' # dpc =>
        \A p \in 1..Ports :
          /\ portsc[p] \cap ChangeBits = portsc'[p] \cap ChangeBits
          /\ portsc'[p] # portsc[p] => p = connected
          /\ PED \in portsc[p] \ portsc'[p] => PR \in portsc'[p] ]_bringUpVars

\* What Address Device tells the xHC, read back by the positions the xHCI
\* specification gives, is the port that was reset, one endpoint context, a
\* control endpoint with the packet size of the device that is there, and the
\* ring with cycle state 1; and a slot up to the number of ports has a doorbell.
\* (The speed is left out: see set_port_speed.)
DeviceReachable ==
  [][ dpc = "address device" /\ dpc' = "addressed" =>
        LET field(word, low, width) == Num(Shr(word, low) \cap 0..(width - 1))
        IN  /\ context'.add = {0, 1}
            /\ field(context'.slot1, 16, 8) = connected
            /\ field(context'.slot0, 27, 5) = 1
            /\ field(context'.ep.data1, 3, 3) = 4
            /\ field(context'.ep.data1, 16, 16) =
                 CASE field(portsc[connected], 10, 4) \in {1, 2} -> 8
                   [] field(portsc[connected], 10, 4) = 3 -> 64
                   [] field(portsc[connected], 10, 4) = 4 -> 512
            /\ context'.ep.tr_dequeue_ptr = CtrlEpRing \cup {0}
            /\ slot <= Ports => slot \in doorbells ]_bringUpVars
=============================================================================
