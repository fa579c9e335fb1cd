-------------------------------- MODULE Boot --------------------------------
(***************************************************************************)
(* Leaving the UEFI boot services (uefi.rs, init.rs): the loop of          *)
(* exit_from_efi_boot_services around get_memory_map, which is told how    *)
(* large the buffer is and answers in the same variable how much it used,  *)
(* and exit_boot_services, which refuses the key of a map that is out of   *)
(* date; then the walk of MemoryMapIterator that fills the heap.           *)
(*                                                                         *)
(* Until boot services are gone, callbacks of the firmware allocate and    *)
(* free memory at any time.                                                *)
(*                                                                         *)
(* EfiStatus has one variant, Success.  Every other status the firmware    *)
(* returns is not a value of the type, and what a comparison with it gives *)
(* is undefined; the comparison derived for one variant is always true.    *)
(***************************************************************************)
EXTENDS Integers, Sequences, SequencesExt

CONSTANTS
  BufferSize,   \* MEMORY_MAP_BUFFER_SIZE, in descriptors
  Maps,         \* the memory maps the firmware may have
  MaxChanges    \* bound: changes of the map

Unwritten == "zero"   \* a descriptor of the buffer as MemoryMapHolder::new made it
NoKey == 0

ASSUME BootAssumption ==
  /\ BufferSize \in Nat \ {0}
  /\ \A m \in Maps : m \in Seq(Range(m)) /\ Len(m) \in 1..BufferSize
  /\ MaxChanges \in Nat

VARIABLES
  fw_map, fw_key,    \* the firmware's memory map and its key
  fw_exited,         \* boot services have ended
  buffer,            \* MemoryMapHolder: memory_map_buffer,
  memory_map_size,   \* memory_map_size in descriptors,
  map_key,           \* map_key
  ofs,               \* MemoryMapIterator::ofs
  heap,              \* the descriptors init_with_mmap took
  pc

holder == <<buffer, memory_map_size, map_key>>
firmware == <<fw_map, fw_key, fw_exited>>
vars == <<firmware, holder, ofs, heap, pc>>

Success == "Success"
BufferTooSmall == "BufferTooSmall"
InvalidParameter == "InvalidParameter"

\* status == EfiStatus::Success
IsSuccess(status) == IF status = Success THEN {TRUE} ELSE BOOLEAN

Init ==
  /\ fw_map \in Maps
  /\ fw_key = 1
  /\ fw_exited = FALSE
  /\ buffer = [i \in 1..BufferSize |-> Unwritten]
  /\ memory_map_size = BufferSize
  /\ map_key = NoKey
  /\ ofs = 0
  /\ heap = << >>
  /\ pc = "get_memory_map"

-----------------------------------------------------------------------------
\* The firmware allocates or frees memory.
FirmwareChangesMap ==
  /\ ~fw_exited
  /\ fw_key <= MaxChanges
  /\ fw_map' \in Maps \ {fw_map}
  /\ fw_key' = fw_key + 1
  /\ UNCHANGED <<fw_exited, holder, ofs, heap, pc>>

\* Mutant: the firmware is given a copy of the size.
get_memory_map_copy(status) ==
  /\ status = Success
  /\ buffer' = [i \in DOMAIN buffer |-> IF i <= Len(fw_map) THEN fw_map[i] ELSE buffer[i]]
  /\ map_key' = fw_key
  /\ UNCHANGED memory_map_size

(* The size is written in both cases, the buffer and the key only when     *)
(* the map fits into the size given.                                       *)
get_memory_map(status) ==
  /\ memory_map_size' = Len(fw_map)
  /\ IF Len(fw_map) <= memory_map_size
     THEN /\ status = Success
          /\ buffer' = [i \in DOMAIN buffer |->
                          IF i <= Len(fw_map) THEN fw_map[i] ELSE buffer[i]]
          /\ map_key' = fw_key
     ELSE /\ status = BufferTooSmall
          /\ UNCHANGED <<buffer, map_key>>

exit_boot_services(status) ==
  status = IF map_key = fw_key THEN Success ELSE InvalidParameter

\* The loop, up to and including the assertion.
GetMemoryMap ==
  /\ pc = "get_memory_map"
  /\ \E status \in {Success, BufferTooSmall} :
       /\ get_memory_map(status)
       /\ \E equal \in IsSuccess(status) : pc' = IF equal THEN "exit" ELSE "panic"
  /\ UNCHANGED <<firmware, ofs, heap>>

ExitBootServices ==
  /\ pc = "exit"
  /\ \E status \in {Success, InvalidParameter} :
       /\ exit_boot_services(status)
       /\ fw_exited' = (status = Success)
       /\ \E equal \in IsSuccess(status) : pc' = IF equal THEN "heap" ELSE "get_memory_map"
  /\ UNCHANGED <<fw_map, fw_key, holder, ofs, heap>>

\* init_with_mmap: MemoryMapIterator::next.
MapNext ==
  /\ pc = "heap"
  /\ ofs < memory_map_size
  /\ heap' = Append(heap, buffer[ofs + 1])
  /\ ofs' = ofs + 1
  /\ UNCHANGED <<firmware, holder, pc>>

MapEnd ==
  /\ pc = "heap"
  /\ ofs >= memory_map_size
  /\ pc' = "running"
  /\ UNCHANGED <<firmware, holder, ofs, heap>>

Cpu == GetMemoryMap \/ ExitBootServices \/ MapNext \/ MapEnd

-----------------------------------------------------------------------------
\* Once boot services are gone, what init_with_mmap gives to the heap is the
\* firmware's last map, descriptor for descriptor: no memory it has meanwhile
\* given to somebody else, and nothing of a longer map read earlier.
HeapGetsLastMap ==
  /\ fw_exited => IsPrefix(heap, fw_map)
  /\ fw_exited /\ pc = "running" => heap = fw_map
=============================================================================
