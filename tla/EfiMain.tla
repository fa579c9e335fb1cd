------------------------------ MODULE EfiMain ------------------------------
(***************************************************************************)
(* efi_main (main.rs, init.rs): the protocols and the ACPI table while the *)
(* boot services are there, leaving them (Boot), then the HPET and the PCI *)
(* functions (Platform), at last the executor with the xHC's driver as a   *)
(* task (XhciBringUp).  The firmware, the HPET, the xHC and the people who *)
(* plug devices in work beside all of it.                                  *)
(***************************************************************************)
EXTENDS Boot, Platform

bootVars == vars
mainVars == <<bootVars, platformVars, bringUpVars>>

MainInit == Init /\ PlatformInit /\ BringUpInit /\ stage = "protocols"

-----------------------------------------------------------------------------
\* locate_loaded_image_protocol and locate_graphic_protocol: a protocol that is
\* not there leaves a null pointer, and the status that says so may compare as
\* Success; what is then read through the pointer is undefined.
LocateProtocols ==
  /\ stage = "protocols"
  /\ \E status \in {Success, InvalidParameter} :
       \E equal \in IsSuccess(status) :
         stage' \in IF ~equal THEN {"stopped"}
                    ELSE IF status = Success THEN {"acpi"}
                    ELSE {"acpi", "stopped"}
  /\ UNCHANGED <<bootVars, machine, hpetVars, pciVars, bringUpVars>>

\* init_basic_runtime.  Exceptions and paging, which come next, are Interrupts
\* and Paging.
InitBasicRuntime ==
  /\ stage = "boot"
  /\ \/ Cpu /\ UNCHANGED stage
     \/ /\ pc \in {"running", "panic"}
        /\ stage' = IF pc = "running" THEN "hpet" ELSE "stopped"
        /\ UNCHANGED bootVars
  /\ UNCHANGED <<machine, hpetVars, pciVars, bringUpVars>>

AttachXhc ==
  /\ stage = "attach"
  /\ \/ PciAttach
     \/ Attach /\ UNCHANGED platformVars

RunTask == stage = "executor" /\ Run /\ UNCHANGED platformVars

Main ==
  \/ LocateProtocols \/ InitBasicRuntime
  \/ UNCHANGED bootVars /\
     ( \/ acpi_table \/ init_hpet \/ QuietTimer \/ ResetCounter \/ set_global_hpet
       \/ init_pci \/ ProbeDevice \/ Attached \/ ProbeEnd \/ AttachXhc \/ RunTask )

Firmware == FirmwareChangesMap /\ UNCHANGED <<platformVars, bringUpVars>>
Xhc == Hw /\ UNCHANGED <<bootVars, platformVars>>
\* Devices that come or go before the driver looks are in the initial state.
User == stage \in {"attach", "executor"} /\ Plug /\ UNCHANGED <<bootVars, platformVars>>
Clock == Tick /\ UNCHANGED bootVars

\* The executor polls its tasks for ever.
Idle == stage \in {"stopped", "executor"} /\ UNCHANGED mainVars

MainNext == Main \/ Firmware \/ Xhc \/ User \/ Clock \/ Idle

MainSpec ==
  /\ MainInit /\ [][MainNext]_mainVars
  /\ WF_mainVars(Main) /\ WF_mainVars(Xhc) /\ WF_mainVars(Clock)

-----------------------------------------------------------------------------
\* Booting ends.  The kernel stops, or it reaches the executor with the HPET
\* counting and none of its timers interrupting, so that sleeping tasks wake:
\* neither the firmware's refusals nor a wait for the xHC nor one for the HPET
\* lasts for ever.
TimeAdvances ==
  <>( \/ stage = "stopped"
      \/ /\ stage = "executor"
         /\ global_hpet /\ hpet.counter > 0
         /\ \A i \in 1..num_of_timers : INT_ENABLE \notin hpet.timers[i] )
=============================================================================
