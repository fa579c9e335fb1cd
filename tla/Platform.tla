------------------------------ MODULE Platform ------------------------------
(***************************************************************************)
(* Finding the hardware: the ACPI tables (acpi.rs, uefi.rs), the HPET      *)
(* (hpet.rs), and the PCI functions (pci.rs) with the sizing of BAR0 and   *)
(* the attachment of the xHC that XhciBringUp goes on with.                *)
(*                                                                         *)
(* A machine is what the firmware leaves: its tables, the capabilities of  *)
(* the HPET, the PCI functions (at most one xHC), and the xHC's BAR0.      *)
(***************************************************************************)
EXTENDS XhciBringUp

CONSTANTS
  Machines,
  MaxId,       \* the last BusDeviceFunction, 0xffff
  BarBits,     \* the xHC decodes a window of 2^BarBits bytes
  MaxCount     \* bound: the HPET counts up to here

ASSUME PlatformAssumption ==
  /\ MaxId \in Nat /\ BarBits \in 4..63 /\ MaxCount \in Nat \ {0}

\* A window lies at a multiple of its size.
ASSUME BarAssumption == \A m \in Machines : m.bar \subseteq 0..3 \cup BarBits..63

VARIABLES
  machine,
  stage,         \* where efi_main is
  hpet,          \* HpetRegisters: configuration, main_counter_value, timers
  timer,         \* the timer that is being quieted
  global_hpet,   \* HPET is Some
  bdf,           \* BusDeviceFunctionIterator::next_id
  command,       \* the xHC's command and status register
  bar,           \* the xHC's BAR0
  bar0, size,    \* locals of try_bar0_mem64
  io             \* the range disable_cache has mapped uncached

pciVars == <<bdf, command, bar, bar0, size, io>>
hpetVars == <<hpet, timer, global_hpet>>
platformVars == <<machine, stage, hpetVars, pciVars>>

Stage(from, to) == stage = from /\ stage' = to

-----------------------------------------------------------------------------
(* Tables.  0 stands for None.                                             *)
First(indices) == IF indices = {} THEN 0 ELSE Min(indices)

lookup_config_table(guid) == First({ i \in DOMAIN machine.config : machine.config[i] = guid })

num_of_entries(table, header_size, entry_size) == (table.length - header_size) \div entry_size

find_table(sig) ==
  First({ i \in 1..num_of_entries(machine.xsdt, 36, 8) : machine.xsdt.entry[i].signature = sig })

acpi_table ==
  /\ stage = "acpi"
  /\ stage' = IF lookup_config_table("ACPI") = 0 THEN "stopped" ELSE "boot"
  /\ UNCHANGED <<machine, hpetVars, pciVars, bringUpVars>>

-----------------------------------------------------------------------------
(* init_hpet: Hpet::new divides by the period and panics when it is 0.     *)
fs_per_count == Shr(machine.hpet, 32)
num_of_timers == Num(Shr(machine.hpet, 8) \cap Mask(5)) + 1
INT_ENABLE == 2
USE_PERIODIC == 3

address_in_memory_space(table) == table.address_space_id = 0
globally_disable(configuration) == configuration \ {0, 1}

init_hpet ==
  /\ stage = "hpet"
  /\ LET i == find_table("HPET")
     IN  IF i # 0 /\ address_in_memory_space(machine.xsdt.entry[i]) /\ fs_per_count # {}
         THEN stage' = "timers" /\ hpet' = [hpet EXCEPT !.configuration = globally_disable(@)]
         ELSE stage' = "stopped" /\ UNCHANGED hpet
  /\ UNCHANGED <<machine, timer, global_hpet, pciVars, bringUpVars>>

QuietTimer ==
  /\ stage = "timers" /\ timer <= num_of_timers
  /\ hpet' = [hpet EXCEPT !.timers[timer] = @ \ ({INT_ENABLE, USE_PERIODIC} \cup 9..13)]
  /\ timer' = timer + 1
  /\ UNCHANGED <<machine, stage, global_hpet, pciVars, bringUpVars>>

ResetCounter ==
  /\ Stage("timers", "enable") /\ timer > num_of_timers
  /\ hpet' = [hpet EXCEPT !.counter = 0]
  /\ UNCHANGED <<machine, timer, global_hpet, pciVars, bringUpVars>>

\* Mutant: the bit of the legacy routing.
globally_enable_legacy(configuration) == configuration \cup {1}
globally_enable(configuration) == configuration \cup {0}

set_global_hpet ==
  /\ Stage("enable", "pci")
  /\ hpet' = [hpet EXCEPT !.configuration = globally_enable(@)]
  /\ global_hpet' = TRUE
  /\ UNCHANGED <<machine, timer, pciVars, bringUpVars>>

\* The HPET counts.
Tick ==
  /\ 0 \in hpet.configuration /\ hpet.counter < MaxCount
  /\ hpet' = [hpet EXCEPT !.counter = @ + 1]
  /\ UNCHANGED <<machine, stage, timer, global_hpet, pciVars, bringUpVars>>

-----------------------------------------------------------------------------
(* init_pci and probe_devices.                                             *)
init_pci ==
  /\ stage = "pci"
  /\ LET i == find_table("MCFG")
     IN  stage' = IF i = 0 THEN "executor"
                  ELSE IF num_of_entries(machine.xsdt.entry[i], 44, 16) = 1 THEN "probe"
                  ELSE "stopped"
  /\ UNCHANGED <<machine, hpetVars, pciVars, bringUpVars>>

\* read_vendor_id_and_device_id gives None when both read as 0xffff.
NoFunction == << 65535, 65535 >>
supports(vd) == vd \in { <<6966, 13>>, <<32902, 12712>>, <<32902, 749>> }

ProbeDevice ==
  /\ stage = "probe" /\ bdf <= MaxId
  /\ IF machine.functions[bdf] # NoFunction /\ supports(machine.functions[bdf])
     THEN stage' = "attach" /\ dpc' = "interrupt" /\ UNCHANGED bdf
     ELSE bdf' = bdf + 1 /\ UNCHANGED <<stage, dpc>>
  /\ UNCHANGED <<machine, hpetVars, command, bar, bar0, size, io, setup, device, xhcVars>>

\* An error of attach is printed and the search goes on.
Attached ==
  /\ Stage("attach", "probe") /\ dpc \in {"scan", "attach failed"}
  /\ bdf' = bdf + 1
  /\ UNCHANGED <<machine, hpetVars, command, bar, bar0, size, io, bringUpVars>>

ProbeEnd ==
  /\ Stage("probe", "executor") /\ bdf > MaxId
  /\ UNCHANGED <<machine, hpetVars, pciVars, bringUpVars>>

-----------------------------------------------------------------------------
(* PciXhciDriver::attach up to setup_xhc_registers.                        *)

\* What a write of the command and status register does: a 1 in an error bit
\* of the status clears it.
CommandWrite(new) ==
  command' = (new \cap 0..15) \cup ((command \cap 16..31) \ (new \cap ({24} \cup 27..31)))

set_command_and_status_flags(flags) == CommandWrite(flags \cup command)

disable_interrupt ==
  /\ At("interrupt", "bus master")
  /\ set_command_and_status_flags({10})
  /\ UNCHANGED <<machine, stage, hpetVars, bdf, bar, bar0, size, io, setup, device, xhcVars>>

enable_bus_master ==
  /\ At("bus master", "bar")
  /\ set_command_and_status_flags({2})
  /\ UNCHANGED <<machine, stage, hpetVars, bdf, bar, bar0, size, io, setup, device, xhcVars>>

\* The xHC keeps the low bits of BAR0, type and flags.
LowHalf == 0..31
BarWrite(old, half, new) ==
  (old \ half) \cup (new \cap half \cap BarBits..63) \cup (old \cap half \cap 0..3)

\* Mutant: the high half is left out.
write_register_u64_low(old, new) == BarWrite(old, LowHalf, new)

write_register_u64(old, new) == BarWrite(BarWrite(old, LowHalf, new), 32..63, new)

\* try_bar0_mem64: read, write ones and read the size, restore.
ReadBar ==
  /\ dpc = "bar"
  /\ bar0' = bar
  /\ dpc' = IF bar \cap 0..2 = {2} THEN "size" ELSE "attach failed"
  /\ UNCHANGED <<machine, stage, hpetVars, bdf, command, bar, size, io, setup, device, xhcVars>>

SizeBar ==
  /\ At("size", "restore")
  /\ bar' = write_register_u64(bar, 0..63)
  /\ size' = Negate(bar' \ 0..3)
  /\ UNCHANGED <<machine, stage, hpetVars, bdf, command, bar0, io, setup, device, xhcVars>>

RestoreBar ==
  /\ At("restore", "cache")
  /\ bar' = write_register_u64(bar, bar0)
  /\ UNCHANGED <<machine, stage, hpetVars, bdf, command, bar0, size, io, setup, device, xhcVars>>

\* Paging models create_mapping.
disable_cache ==
  /\ At("cache", "registers")
  /\ io' = [start |-> bar0 \ 0..3, size |-> size]
  /\ UNCHANGED <<machine, stage, hpetVars, bdf, command, bar, bar0, size, setup, device, xhcVars>>

PciAttach == disable_interrupt \/ enable_bus_master \/ ReadBar \/ SizeBar \/ RestoreBar \/ disable_cache

-----------------------------------------------------------------------------
PlatformInit ==
  /\ machine \in Machines
  /\ hpet \in { [configuration |-> c, counter |-> 0, timers |-> [i \in 1..32 |-> {2, 3, 9, 15}]]
                : c \in {{}, {0, 1}} }
  /\ timer = 1 /\ global_hpet = FALSE
  /\ bdf = 0
  /\ command = {0, 1, 20, 29}
  /\ bar = machine.bar
  /\ bar0 = {} /\ size = {}
  /\ io = [start |-> {}, size |-> {}]

-----------------------------------------------------------------------------
\* Sizing BAR0 moves the window away for two writes; at every other time the xHC
\* answers where the firmware put it, and the range that is mapped uncached
\* before the first access is that window, start and size.
BarIsWindow ==
  /\ dpc # "restore" => bar = machine.bar
  /\ dpc \notin {"absent", "interrupt", "bus master", "bar", "size", "restore", "cache", "attach failed"} =>
       io = [start |-> machine.bar \ 0..3, size |-> {BarBits}]

\* Whenever the xHC runs, it runs on the firmware's structures or on the
\* driver's, all of them and with bus mastering on: never after a reset with
\* registers that are not written yet, and never with half of each.
XhcRunsConfigured ==
  \/ halted
  \/ regs = FirmwareRegs
  \/ regs = DriverRegs /\ scratch >= Scratchpads /\ 2 \in command
=============================================================================
