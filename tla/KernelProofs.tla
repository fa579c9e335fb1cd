---------------------------- MODULE KernelProofs ----------------------------
(***************************************************************************)
(* Proofs about efi_main and what interrupts it, in two parts that share   *)
(* the words of Bits and nothing else.                                     *)
(*                                                                         *)
(* Booting (EfiMain), for every set of memory maps, every machine and      *)
(* every number of ports, slots and scratchpads: what the heap gets, where *)
(* BAR0 is, what the xHC runs with, what is done to a port and what        *)
(* Address Device says.  The order of efi_main is shared but no data, so   *)
(* each has an invariant of its own: HolderState of the memory map,        *)
(* BarState of the PCI function, XhcState and DeviceState of the driver.   *)
(*                                                                         *)
(* Printing and exceptions (Interrupts), for every screen, every size of   *)
(* characters and every set of vectors: what is drawn, what inthandler is  *)
(* told, and how the code that was interrupted goes on.  TrapState says    *)
(* what is on the stack and in the registers at each instruction, and      *)
(* FrameState which handlers return.                                       *)
(***************************************************************************)
EXTENDS EfiMain, Interrupts, SequenceTheorems, TLAPS

Descriptors == (UNION { Range(m) : m \in Maps }) \cup {Unwritten}

\* The buffer of descriptors, the map in it and the walk over it.
BootType ==
  /\ fw_map \in Maps
  /\ fw_key \in Nat \ {0} /\ map_key \in Nat /\ map_key <= fw_key
  /\ fw_exited \in BOOLEAN
  /\ buffer \in [1..BufferSize -> Descriptors]
  /\ memory_map_size \in 0..BufferSize
  /\ ofs \in 0..memory_map_size
  /\ heap \in Seq(Descriptors)
  /\ pc \in {"get_memory_map", "exit", "panic", "heap", "running"}

\* A key that is up to date stands for a buffer that is; the services are only
\* left with such a key; what is walked is the front of the buffer.
HolderState ==
  /\ map_key = fw_key =>
       /\ memory_map_size = Len(fw_map)
       /\ \A i \in 1..Len(fw_map) : buffer[i] = fw_map[i]
  /\ fw_exited => map_key = fw_key /\ pc \in {"heap", "running"}
  /\ pc \notin {"heap", "running"} => heap = << >> /\ ofs = 0
  /\ pc = "running" => ofs = memory_map_size
  /\ Len(heap) = ofs
  /\ \A i \in 1..ofs : heap[i] = buffer[i]

\* Outside of attach and of the executor the driver does nothing.
PlaceState ==
  stage \notin {"attach", "executor"} => dpc \in {"absent", "scan", "attach failed"}

\* BAR0 and what the driver remembers of it while it finds out its size.
BarState ==
  /\ machine \in Machines
  /\ dpc \in {"size", "restore", "cache"} => bar0 = machine.bar
  /\ dpc \in {"restore", "cache"} => size = {BarBits}
  /\ dpc = "restore" => bar = BarBits..63 \cup (machine.bar \cap 0..3)
  /\ BarIsWindow

Configured ==
  \/ regs = FirmwareRegs
  \/ regs = DriverRegs /\ scratch >= Scratchpads /\ 2 \in command

Registers ==
  [ config : Nat,
    dcbaap : {"firmware", "null", "dcbaa"},
    crcr : {"firmware", "null", "command ring"},
    irs : {"firmware", "null", "event ring"} ]

\* The xHC runs, or is told to run, with complete structures only; it is reset
\* and its registers are written while it stands.
XhcState ==
  /\ regs \in Registers
  /\ scratch \in Nat
  /\ halted \in BOOLEAN
  /\ halted \/ Configured
  /\ "run" \in usbcmd => Configured
  /\ "reset" \in usbcmd => dpc = "wait reset"
  /\ dpc = "wait halted" => "run" \notin usbcmd
  /\ dpc \in {"wait reset", "irs", "slots", "command ring", "start"} =>
       halted /\ "run" \notin usbcmd
  /\ dpc \in {"irs", "slots", "command ring", "start"} => scratch >= Scratchpads
  /\ dpc \in {"slots", "command ring", "start"} => regs.irs = "event ring"
  /\ dpc \in {"command ring", "start"} => regs.config = Slots /\ regs.dcbaap = "dcbaa"
  /\ dpc = "start" => regs.crcr = "command ring"
  /\ dpc \notin {"absent", "interrupt", "bus master"} => 2 \in command

Word32 == SUBSET (0..31)

BeforeRegisters ==
  {"absent", "interrupt", "bus master", "bar", "size", "restore", "cache", "registers", "attach failed"}

\* The port that is brought up is the connected one.
DeviceState ==
  /\ portsc \in [1..Ports -> Word32]
  /\ port \in Nat \ {0} /\ connected \in 0..Ports /\ slot \in 0..Slots
  /\ dpc \in {"power", "wait power", "wait port reset", "address device", "addressed"} =>
       port = connected
  /\ dpc \notin BeforeRegisters => doorbells = 0..Ports

IInv == BootType /\ HolderState /\ PlaceState /\ BarState /\ XhcState /\ DeviceState

-----------------------------------------------------------------------------
(* Leaving the boot services.                                              *)

\* A map is a sequence of descriptors that fits the buffer.
LEMMA MapFacts ==
  ASSUME NEW m \in Maps
  PROVE  /\ m \in Seq(Descriptors)
         /\ Len(m) \in 1..BufferSize
         /\ \A i \in 1..Len(m) : m[i] \in Descriptors
<1>1. m \in Seq(Range(m)) /\ Len(m) \in 1..BufferSize
  BY BootAssumption
<1>2. Range(m) \subseteq Descriptors
  BY DEF Descriptors
<1>3. m \in Seq(Descriptors)
  BY <1>1, <1>2, SeqMonotonic
<1> QED
  BY <1>1, <1>3, ElementOfSeq

\* The initial state: no key, an empty walk.
LEMMA BootInit ==
  ASSUME Init
  PROVE  BootType /\ HolderState
<1>1. Unwritten \in Descriptors
  BY DEF Descriptors
<1>2. << >> \in Seq(Descriptors) /\ Len(<< >>) = 0
  BY EmptySeq
<1>3. buffer \in [1..BufferSize -> Descriptors]
  BY <1>1 DEF Init
<1>4. BufferSize \in Nat
  BY BootAssumption
<1>5. BootType
  <2>1. fw_map \in Maps /\ fw_exited \in BOOLEAN /\ heap \in Seq(Descriptors)
    BY <1>2 DEF Init
  <2>2. fw_key \in Nat \ {0} /\ map_key \in Nat /\ map_key <= fw_key
    BY DEF Init, NoKey
  <2>3. memory_map_size \in 0..BufferSize /\ ofs \in 0..memory_map_size /\ pc = "get_memory_map"
    BY <1>4 DEF Init
  <2> QED
    BY <1>3, <2>1, <2>2, <2>3 DEF BootType
<1>6. HolderState
  BY <1>2 DEF Init, HolderState, NoKey
<1> QED
  BY <1>5, <1>6

\* The firmware changes its map: the key in the buffer is out of date.
LEMMA FirmwareStep ==
  ASSUME BootType, HolderState, FirmwareChangesMap
  PROVE  BootType' /\ HolderState'
<1> USE DEF FirmwareChangesMap, holder
<1>1. BootType'
  BY DEF BootType
<1>2. map_key' # fw_key' /\ ~fw_exited'
  BY DEF BootType
<1>3. HolderState'
  BY <1>2 DEF HolderState
<1> QED
  BY <1>1, <1>3

\* get_memory_map: with a map that fits, buffer, size and key agree; with one
\* that does not, the key was out of date and stays so.
LEMMA GetMemoryMapStep ==
  ASSUME BootType, HolderState, GetMemoryMap
  PROVE  BootType' /\ HolderState'
<1> USE DEF GetMemoryMap, firmware
<1>1. PICK status \in {Success, BufferTooSmall} :
        /\ get_memory_map(status)
        /\ \E equal \in IsSuccess(status) : pc' = IF equal THEN "exit" ELSE "panic"
  OBVIOUS
<1>2. pc' \in {"exit", "panic"} /\ UNCHANGED <<fw_map, fw_key, fw_exited, ofs, heap>>
  BY <1>1
<1>3. ~fw_exited /\ heap = << >> /\ ofs = 0
  BY DEF HolderState
<1>4. fw_map \in Maps /\ Len(fw_map) \in 1..BufferSize /\ \A i \in 1..Len(fw_map) : fw_map[i] \in Descriptors
  BY MapFacts DEF BootType
<1>5. memory_map_size' = Len(fw_map)
  BY <1>1 DEF get_memory_map
<1>6. CASE Len(fw_map) <= memory_map_size
  <2>1. /\ buffer' = [i \in DOMAIN buffer |-> IF i <= Len(fw_map) THEN fw_map[i] ELSE buffer[i]]
        /\ map_key' = fw_key
    BY <1>1, <1>6 DEF get_memory_map
  <2>2. DOMAIN buffer = 1..BufferSize /\ BufferSize \in Nat
    BY BootAssumption DEF BootType
  <2>3. buffer' \in [1..BufferSize -> Descriptors]
    BY <2>1, <2>2, <1>4 DEF BootType
  <2>4. \A i \in 1..Len(fw_map) : buffer'[i] = fw_map[i]
    BY <2>1, <2>2, <1>4
  <2>5. BootType'
    BY <2>1, <2>3, <1>2, <1>3, <1>4, <1>5 DEF BootType
  <2>6. HolderState'
    BY <2>1, <2>4, <1>2, <1>3, <1>5, EmptySeq DEF HolderState
  <2> QED
    BY <2>5, <2>6
<1>7. CASE ~(Len(fw_map) <= memory_map_size)
  <2>1. UNCHANGED <<buffer, map_key>>
    BY <1>1, <1>7 DEF get_memory_map
  <2>2. map_key # fw_key
    BY <1>7, <1>4 DEF HolderState, BootType
  <2>3. BootType'
    BY <2>1, <1>2, <1>3, <1>4, <1>5 DEF BootType
  <2>4. HolderState'
    BY <2>1, <2>2, <1>2, <1>3, EmptySeq DEF HolderState
  <2> QED
    BY <2>3, <2>4
<1> QED
  BY <1>6, <1>7

\* exit_boot_services: the firmware accepts no key but its own.
LEMMA ExitStep ==
  ASSUME BootType, HolderState, ExitBootServices
  PROVE  BootType' /\ HolderState'
<1> USE DEF ExitBootServices, holder
<1>1. PICK status \in {Success, InvalidParameter} :
        /\ exit_boot_services(status)
        /\ fw_exited' = (status = Success)
        /\ \E equal \in IsSuccess(status) : pc' = IF equal THEN "heap" ELSE "get_memory_map"
  OBVIOUS
<1>2. fw_exited' => map_key = fw_key /\ pc' = "heap"
  BY <1>1 DEF exit_boot_services, IsSuccess, Success, InvalidParameter
<1>3. pc' \in {"heap", "get_memory_map"} /\ fw_exited' \in BOOLEAN
  BY <1>1
<1>4. BootType'
  BY <1>3 DEF BootType
<1>5. HolderState'
  BY <1>2, <1>3 DEF HolderState
<1> QED
  BY <1>4, <1>5

\* MemoryMapIterator::next appends the next descriptor of the buffer.
LEMMA WalkStep ==
  ASSUME BootType, HolderState, MapNext \/ MapEnd
  PROVE  BootType' /\ HolderState'
<1>1. CASE MapNext
  <2> USE <1>1 DEF MapNext, firmware, holder
  <2> DEFINE d == buffer[ofs + 1]
  <2>1. ofs + 1 \in 1..BufferSize /\ ofs \in Nat /\ ofs + 1 \in 0..memory_map_size
    BY BootAssumption DEF BootType
  <2>2. d \in Descriptors
    BY <2>1 DEF BootType
  <2> HIDE DEF d
  <2>3. heap \in Seq(Descriptors) /\ heap' = Append(heap, d) /\ Len(heap) = ofs
    BY DEF BootType, HolderState, d
  <2>4. /\ heap' \in Seq(Descriptors) /\ Len(heap') = ofs + 1
        /\ \A i \in 1..ofs : heap'[i] = heap[i]
        /\ heap'[ofs + 1] = d
    BY <2>2, <2>3, AppendProperties
  <2>5. \A i \in 1..(ofs + 1) : heap'[i] = buffer[i]
    BY <2>1, <2>4 DEF HolderState, d
  <2>6. BootType'
    BY <2>1, <2>4 DEF BootType
  <2>7. HolderState'
    BY <2>1, <2>4, <2>5 DEF HolderState
  <2> QED
    BY <2>6, <2>7
<1>2. CASE MapEnd
  BY <1>2 DEF MapEnd, firmware, holder, BootType, HolderState
<1> QED
  BY <1>1, <1>2

\* Nothing but the firmware and init_basic_runtime touches the map.
LEMMA BootStep ==
  ASSUME BootType, HolderState, [MainNext]_mainVars
  PROVE  BootType' /\ HolderState'
<1>1. Cpu \/ FirmwareChangesMap \/ UNCHANGED bootVars
  BY DEF MainNext, Main, LocateProtocols, InitBasicRuntime, Firmware, Xhc, User, Clock, Idle, mainVars
<1>2. CASE Cpu
  BY <1>2, GetMemoryMapStep, ExitStep, WalkStep DEF Cpu
<1>3. CASE FirmwareChangesMap
  BY <1>3, FirmwareStep
<1>4. CASE UNCHANGED bootVars
  BY <1>4 DEF bootVars, vars, firmware, holder, BootType, HolderState
<1> QED
  BY <1>1, <1>2, <1>3, <1>4

\* The safety property from the invariant.
LEMMA LastMap ==
  ASSUME BootType, HolderState
  PROVE  HeapGetsLastMap
<1> SUFFICES ASSUME fw_exited
             PROVE  IsPrefix(heap, fw_map) /\ (pc = "running" => heap = fw_map)
  BY DEF HeapGetsLastMap
<1>1. /\ memory_map_size = Len(fw_map)
      /\ \A i \in 1..Len(fw_map) : buffer[i] = fw_map[i]
  BY DEF HolderState
<1>2. heap \in Seq(Descriptors) /\ fw_map \in Seq(Descriptors) /\ Len(heap) \in Nat /\ Len(fw_map) \in Nat
  BY MapFacts, LenProperties DEF BootType
<1>3. Len(heap) = ofs /\ ofs <= Len(fw_map) /\ \A i \in 1..ofs : heap[i] = fw_map[i]
  BY <1>1, <1>2 DEF HolderState, BootType
<1>4. IsPrefix(heap, fw_map)
  <2> DEFINE n == Len(heap)
  <2>1. /\ n \in Nat /\ n <= Len(heap) /\ n <= Len(fw_map) /\ 1 \in 1..(Len(heap) + 1)
        /\ 1 \in 1..(Len(fw_map) + 1)
        /\ n \in 0..Len(heap) /\ n \in 0..Len(fw_map)
    BY <1>2, <1>3
  <2>2. /\ SubSeq(heap, 1, n) \in Seq(Descriptors) /\ Len(SubSeq(heap, 1, n)) = n
        /\ \A i \in 1..n : SubSeq(heap, 1, n)[i] = heap[i]
    BY <1>2, <2>1, SubSeqProperties
  <2>3. /\ SubSeq(fw_map, 1, n) \in Seq(Descriptors) /\ Len(SubSeq(fw_map, 1, n)) = n
        /\ \A i \in 1..n : SubSeq(fw_map, 1, n)[i] = fw_map[i]
    BY <1>2, <2>1, SubSeqProperties
  <2>4. SubSeq(heap, 1, n) = SubSeq(fw_map, 1, n)
    BY <2>2, <2>3, <1>3, SeqEqual
  <2> QED
    BY <2>4, <1>3 DEF IsPrefix
<1>5. ASSUME pc = "running" PROVE heap = fw_map
  <2>1. Len(heap) = Len(fw_map)
    BY <1>1, <1>3, <1>5 DEF HolderState
  <2> QED
    BY <2>1, <1>2, <1>3, SeqEqual
<1> QED
  BY <1>4, <1>5

-----------------------------------------------------------------------------
(* The xHC's PCI function.                                                 *)

\* What a word that is written to BAR0 leaves there, both halves together.
LEMMA BarWritten ==
  ASSUME NEW old \in SUBSET (0..63), NEW new \in SUBSET (0..63)
  PROVE  write_register_u64(old, new) = (new \cap BarBits..63) \cup (old \cap 0..3)
<1>1. BarBits \in 4..63
  BY PlatformAssumption
<1> DEFINE w == BarWrite(old, LowHalf, new)
<1>2. w = (old \cap 32..63) \cup (new \cap BarBits..31) \cup (old \cap 0..3)
  <2> DEFINE v == (old \cap 32..63) \cup (new \cap BarBits..31) \cup (old \cap 0..3)
  <2>1. ASSUME NEW b \in 0..63 PROVE b \in w <=> b \in v
    BY <1>1 DEF BarWrite, LowHalf
  <2>2. w \subseteq 0..63 /\ v \subseteq 0..63
    BY <1>1 DEF BarWrite, LowHalf
  <2> QED
    BY <2>1, <2>2
<1> HIDE DEF w
<1>3. BarWrite(w, 32..63, new) = (w \ 32..63) \cup (new \cap 32..63 \cap BarBits..63)
  BY <1>1, <1>2 DEF BarWrite
<1>4. w \ 32..63 = (new \cap BarBits..31) \cup (old \cap 0..3)
  BY <1>1, <1>2
<1> QED
  BY <1>1, <1>3, <1>4 DEF write_register_u64, w

\* 1 + !x of what BAR0 reads as after ones were written is the size.
LEMMA SizeOfBar ==
  ASSUME NEW low \in SUBSET (0..3)
  PROVE  Negate((BarBits..63 \cup low) \ 0..3) = {BarBits}
<1>1. BarBits \in 4..63
  BY PlatformAssumption
<1> DEFINE w == (BarBits..63 \cup low) \ 0..3
<1>2. w = BarBits..63
  <2>1. \A x \in low : x \in 0..3
    OBVIOUS
  <2>2. \A x \in BarBits..63 : x \notin 0..3
    BY <1>1
  <2> QED
    BY <2>1, <2>2
<1>3. Min(BarBits..63) = BarBits
  BY <1>1 DEF Min
<1>4. BarBits..63 # {}
  BY <1>1
<1> HIDE DEF w
<1>5. Negate(BarBits..63) = {BarBits} \cup ((BarBits + 1)..63 \ BarBits..63)
  BY <1>3, <1>4 DEF Negate
<1>6. (BarBits + 1)..63 \ BarBits..63 = {}
  BY <1>1
<1> QED
  BY <1>2, <1>5, <1>6 DEF w

\* BAR0 of a machine.
LEMMA BarFacts ==
  ASSUME NEW m \in Machines
  PROVE  /\ m.bar \in SUBSET (0..63)
         /\ (m.bar \cap BarBits..63) \cup (m.bar \cap 0..3) = m.bar
<1> DEFINE b == m.bar
<1>1. b \subseteq 0..3 \cup BarBits..63 /\ BarBits \in 4..63
  BY BarAssumption, PlatformAssumption
<1> HIDE DEF b
<1> QED
  BY <1>1 DEF b

-----------------------------------------------------------------------------
(* Words.                                                                  *)

\* A field of a word, wherever it lies.
LEMMA FieldRead ==
  ASSUME NEW word \in SUBSET Int, NEW n \in Nat, NEW width \in 1..63
  PROVE  Shr(word, n) \cap 0..(width - 1) = { b \in 0..(width - 1) : b + n \in word }
<1>1. ASSUME NEW b \in Shr(word, n) \cap 0..(width - 1) PROVE b + n \in word
  <2>1. PICK c \in word : c >= n /\ b = c - n
    BY <1>1 DEF Shr
  <2>2. b + n = c
    BY <2>1
  <2> QED
    BY <2>1, <2>2
<1>2. ASSUME NEW b \in 0..(width - 1), b + n \in word PROVE b \in Shr(word, n)
  <2>1. b + n >= n /\ (b + n) - n = b
    BY <1>2
  <2> QED
    BY <2>1, <1>2 DEF Shr
<1> QED
  BY <1>1, <1>2

\* What is where after a shift to the left.
LEMMA ShiftedIn ==
  ASSUME NEW word \in SUBSET Int, NEW n \in Nat, NEW size_ \in Nat, NEW b \in Int
  PROVE  b \in Shl(word, n, size_) <=> b - n \in word /\ b \in 0..(size_ - 1)
<1>1. ASSUME b \in Shl(word, n, size_) PROVE b - n \in word /\ b \in 0..(size_ - 1)
  <2>1. PICK c \in word : b = c + n
    BY <1>1 DEF Shl
  <2>2. c = b - n
    BY <2>1
  <2> QED
    BY <2>2, <1>1 DEF Shl, Mask
<1>2. ASSUME b - n \in word, b \in 0..(size_ - 1) PROVE b \in Shl(word, n, size_)
  <2>1. b = (b - n) + n
    OBVIOUS
  <2> QED
    BY <2>1, <1>2 DEF Shl, Mask
<1> QED
  BY <1>1, <1>2

\* extract_bits reads a field of at most 63 bits.
LEMMA ExtractRead ==
  ASSUME NEW word \in SUBSET Int, NEW n \in Nat, NEW width \in 1..63
  PROVE  extract_bits(word, n, width) = { b \in 0..(width - 1) : b + n \in word }
<1>1. Min({63, width}) = width
  BY DEF Min
<1>2. extract_bits(word, n, width) = Shr(word, n) \cap 0..(width - 1)
  BY <1>1 DEF extract_bits, Mask
<1> QED
  BY <1>2, FieldRead

LEMMA BinIsWord ==
  ASSUME NEW n
  PROVE  Bin(n) \in SUBSET Int
BY DEF Bin

\* Scratchpads in two parts.
LEMMA ScratchpadParts ==
  /\ Scratchpads \div 32 \in 0..31 /\ Scratchpads % 32 \in 0..31
  /\ Bin(Scratchpads \div 32) \subseteq 0..4 /\ Bin(Scratchpads % 32) \subseteq 0..4
  /\ Num(Shl(Bin(Scratchpads \div 32), 5, 32) \cup Bin(Scratchpads % 32)) = Scratchpads
<1>1. Scratchpads \in 0..1023
  BY XhcAssumption
<1>2. Scratchpads \div 32 \in 0..31 /\ Scratchpads % 32 \in 0..31
  BY <1>1
<1> QED
  BY <1>1, <1>2, BinaryNotation

\* The driver reads the numbers of slots, ports and scratchpads that the xHC has.
LEMMA CapabilitiesRead ==
  /\ num_of_device_slots = Slots
  /\ num_of_ports = Ports
  /\ num_scratchpad_bufs = Scratchpads
<1>1. Slots \in 0..255 /\ Ports \in 0..127 /\ Ports \in 0..255
  BY XhcAssumption
<1>2. /\ Bin(Slots) \in SUBSET (0..7) /\ Bin(Ports) \in SUBSET (0..7)
      /\ Num(Bin(Slots)) = Slots /\ Num(Bin(Ports)) = Ports
  BY <1>1, BinaryNotation
<1> DEFINE s == Bin(Slots)
           p == Bin(Ports)
           shifted == Shl(p, 24, 32)
           h == s \cup shifted \cup {8}
<1>3. s \in SUBSET (0..7) /\ p \in SUBSET (0..7) /\ p \in SUBSET Int
  BY <1>2
<1>4. HcsParams1 = h
  BY DEF HcsParams1
<1> HIDE DEF s, p
<1>5. shifted \in SUBSET Int /\ \A b \in Int : b \in shifted <=> b - 24 \in p /\ b \in 0..31
  <2>1. \A b \in Int : b \in shifted <=> b - 24 \in p /\ b \in 0..31
    BY <1>3, ShiftedIn
  <2> QED
    BY <2>1 DEF Shl, Mask
<1> HIDE DEF shifted
<1>6. h \in SUBSET Int
  BY <1>3, <1>5
<1> HIDE DEF h
<1>7. extract_bits(h, 0, 8) = s
  <2>1. \A b \in 0..7 : b + 0 \in h <=> b \in s
    BY <1>3, <1>5 DEF h
  <2>2. extract_bits(h, 0, 8) = { b \in 0..7 : b + 0 \in h }
    BY <1>6, ExtractRead
  <2> QED
    BY <2>1, <2>2, <1>3
<1>8. extract_bits(h, 24, 8) = p
  <2>1. \A b \in 0..7 : b + 24 \in h <=> b \in p
    BY <1>3, <1>5 DEF h
  <2>2. extract_bits(h, 24, 8) = { b \in 0..7 : b + 24 \in h }
    BY <1>6, ExtractRead
  <2> QED
    BY <2>1, <2>2, <1>3
<1>9. num_of_device_slots = Slots /\ num_of_ports = Ports
  BY <1>2, <1>4, <1>7, <1>8 DEF num_of_device_slots, num_of_ports, s, p
<1>10. num_scratchpad_bufs = Scratchpads
  <2> DEFINE hi == Bin(Scratchpads \div 32)
             lo == Bin(Scratchpads % 32)
             shi == Shl(hi, 21, 32)
             slo == Shl(lo, 27, 32)
             g == shi \cup slo
  <2>1. hi \in SUBSET (0..4) /\ lo \in SUBSET (0..4) /\ hi \in SUBSET Int /\ lo \in SUBSET Int
    BY ScratchpadParts
  <2>2. HcsParams2 = g
    BY DEF HcsParams2
  <2> HIDE DEF hi, lo
  <2>3. /\ \A b \in Int : b \in shi <=> b - 21 \in hi /\ b \in 0..31
        /\ \A b \in Int : b \in slo <=> b - 27 \in lo /\ b \in 0..31
    BY <2>1, ShiftedIn
  <2>4. g \in SUBSET Int
    BY DEF Shl, Mask
  <2> HIDE DEF shi, slo
  <2> HIDE DEF g
  <2>5. \A b \in 0..4 : b + 21 \in g <=> b \in hi
    BY <2>1, <2>3 DEF g
  <2>6. \A b \in 0..4 : b + 27 \in g <=> b \in lo
    BY <2>1, <2>3 DEF g
  <2>7. /\ extract_bits(g, 21, 5) = { b \in 0..4 : b + 21 \in g }
        /\ extract_bits(g, 27, 5) = { b \in 0..4 : b + 27 \in g }
    BY <2>4, ExtractRead
  <2>8. extract_bits(g, 21, 5) = hi /\ extract_bits(g, 27, 5) = lo
    BY <2>1, <2>5, <2>6, <2>7
  <2> QED
    BY <2>2, <2>8, ScratchpadParts DEF num_scratchpad_bufs, hi, lo
<1> QED
  BY <1>9, <1>10

-----------------------------------------------------------------------------
(* Steps.                                                                  *)

\* What the driver and the xHC share, and BAR0.
deviceVars == <<machine, command, bar, bar0, size, io, bringUpVars>>

\* The steps of efi_main that change something of the xHC or of its driver.
LEMMA StepCases ==
  ASSUME [MainNext]_mainVars
  PROVE  \/ UNCHANGED deviceVars
         \/ ProbeDevice
         \/ PciAttach
         \/ (Attach \/ Run \/ Hw \/ Plug) /\ UNCHANGED platformVars
<1> USE DEF deviceVars
<1>1. CASE MainNext
  <2>1. CASE Main
    <3>1. CASE LocateProtocols \/ InitBasicRuntime
      BY <3>1 DEF LocateProtocols, InitBasicRuntime, pciVars
    <3>2. CASE acpi_table \/ init_hpet \/ QuietTimer
      BY <3>2 DEF acpi_table, init_hpet, QuietTimer, pciVars
    <3>3. CASE ResetCounter \/ set_global_hpet \/ init_pci
      BY <3>3 DEF ResetCounter, set_global_hpet, init_pci, pciVars
    <3>4. CASE Attached \/ ProbeEnd
      BY <3>4 DEF Attached, ProbeEnd, pciVars
    <3>5. CASE ProbeDevice \/ AttachXhc \/ RunTask
      BY <3>5 DEF AttachXhc, RunTask
    <3> QED
      BY <2>1, <3>1, <3>2, <3>3, <3>4, <3>5 DEF Main
  <2>2. CASE Firmware \/ Clock \/ Idle
    BY <2>2 DEF Firmware, Clock, Tick, Idle, mainVars, platformVars, pciVars
  <2>3. CASE Xhc \/ User
    BY <2>3 DEF Xhc, User
  <2> QED
    BY <1>1, <2>1, <2>2, <2>3 DEF MainNext
<1>2. CASE UNCHANGED mainVars
  BY <1>2 DEF mainVars, platformVars, pciVars
<1> QED
  BY <1>1, <1>2

\* The driver moves in attach and in the executor only.
LEMMA PlaceStep ==
  ASSUME PlaceState, [MainNext]_mainVars
  PROVE  PlaceState'
<1> USE DEF PlaceState
<1>1. CASE MainNext
  <2>1. CASE Main
    <3>1. CASE LocateProtocols
      BY <3>1 DEF LocateProtocols, bringUpVars, driverVars
    <3>2. CASE InitBasicRuntime
      BY <3>2 DEF InitBasicRuntime, bringUpVars, driverVars
    <3>3. CASE acpi_table \/ init_hpet \/ QuietTimer
      BY <3>3 DEF acpi_table, init_hpet, QuietTimer, bringUpVars, driverVars
    <3>4. CASE ResetCounter \/ set_global_hpet \/ init_pci
      BY <3>4 DEF ResetCounter, set_global_hpet, init_pci, Stage, bringUpVars, driverVars
    <3>5. CASE Attached \/ ProbeEnd
      BY <3>5 DEF Attached, ProbeEnd, Stage, bringUpVars, driverVars
    <3>6. CASE ProbeDevice
      BY <3>6 DEF ProbeDevice
    <3>7. CASE AttachXhc
      <4>1. stage = "attach" /\ UNCHANGED stage
        BY <3>7 DEF AttachXhc, PciAttach, disable_interrupt, enable_bus_master, ReadBar, SizeBar,
                    RestoreBar, disable_cache, platformVars
      <4> QED
        BY <4>1
    <3>8. CASE RunTask
      BY <3>8 DEF RunTask, platformVars
    <3> QED
      BY <2>1, <3>1, <3>2, <3>3, <3>4, <3>5, <3>6, <3>7, <3>8 DEF Main
  <2>2. CASE Firmware \/ Clock \/ Idle
    BY <2>2 DEF Firmware, Clock, Tick, Idle, mainVars, platformVars, bringUpVars, driverVars
  <2>3. CASE Xhc
    BY <2>3 DEF Xhc, Hw, HwHalt, HwReset, HwStart, HwPortReset, platformVars, driverVars
  <2>4. CASE User
    BY <2>4 DEF User, Plug, HwPlug, platformVars, driverVars
  <2> QED
    BY <1>1, <2>1, <2>2, <2>3, <2>4 DEF MainNext
<1>2. CASE UNCHANGED mainVars
  BY <1>2 DEF mainVars, platformVars, bringUpVars, driverVars
<1> QED
  BY <1>1, <1>2

\* Where the driver's own steps lead: from the registers on, and not back.
LEMMA DriverMoves ==
  ASSUME Attach \/ Run \/ Hw \/ Plug
  PROVE  \/ UNCHANGED dpc
         \/ /\ dpc \notin BeforeRegisters \ {"registers"}
            /\ dpc' \notin BeforeRegisters \ {"attach failed"}
<1> USE DEF BeforeRegisters
<1>1. CASE Attach
  BY <1>1 DEF Attach, setup_xhc_registers, StopXhc, ResetXhc, AllocScratchpads, init_irs,
              init_slots_and_contexts, init_command_ring, start_xhc, XhcStarted, At
<1>2. CASE Run
  BY <1>2 DEF Run, ScanPort, ScanEnd, assert_pp, assert_pr, EnableSlot, AddressDevice, notify_ep, At
<1>3. CASE Hw \/ Plug
  BY <1>3 DEF Hw, HwHalt, HwReset, HwStart, HwPortReset, Plug, HwPlug, driverVars
<1> QED
  BY <1>1, <1>2, <1>3

-----------------------------------------------------------------------------
(* BAR0.                                                                   *)

LEMMA BarInit ==
  ASSUME MainInit
  PROVE  BarState /\ PlaceState
BY DEF MainInit, PlatformInit, BringUpInit, BarState, BarIsWindow, PlaceState

\* Ones are written, the size is read, the address is put back.
LEMMA BarStep ==
  ASSUME BarState, PlaceState, [MainNext]_mainVars
  PROVE  BarState'
<1>1. machine \in Machines /\ machine.bar \in SUBSET (0..63)
  BY BarFacts DEF BarState
<1>2. CASE UNCHANGED deviceVars
  BY <1>2 DEF deviceVars, bringUpVars, driverVars, BarState, BarIsWindow
<1>3. CASE ProbeDevice
  BY <1>3 DEF ProbeDevice, PlaceState, BarState, BarIsWindow
<1>4. CASE (Attach \/ Run \/ Hw \/ Plug) /\ UNCHANGED platformVars
  <2>1. UNCHANGED <<machine, bar, bar0, size, io>>
    BY <1>4 DEF platformVars, pciVars
  <2> QED
    BY <2>1, <1>4, DriverMoves DEF BarState, BarIsWindow, BeforeRegisters
<1>5. CASE disable_interrupt \/ enable_bus_master
  BY <1>5 DEF disable_interrupt, enable_bus_master, At, BarState, BarIsWindow
<1>6. CASE ReadBar
  BY <1>6 DEF ReadBar, BarState, BarIsWindow
<1>7. CASE SizeBar
  <2>1. bar = machine.bar /\ bar0 = machine.bar /\ UNCHANGED <<machine, bar0, io>> /\ dpc' = "restore"
    BY <1>7 DEF SizeBar, At, BarState, BarIsWindow
  <2>2. bar' = BarBits..63 \cup (machine.bar \cap 0..3)
    <3>1. bar' = (0..63 \cap BarBits..63) \cup (machine.bar \cap 0..3)
      BY <1>1, <1>7, <2>1, BarWritten DEF SizeBar
    <3>2. 0..63 \cap BarBits..63 = BarBits..63
      BY PlatformAssumption
    <3> QED
      BY <3>1, <3>2
  <2>3. size' = {BarBits}
    BY <1>7, <2>2, SizeOfBar DEF SizeBar
  <2> QED
    BY <1>1, <2>1, <2>2, <2>3 DEF BarState, BarIsWindow
<1>8. CASE RestoreBar
  <2>1. /\ bar = BarBits..63 \cup (machine.bar \cap 0..3) /\ bar0 = machine.bar /\ size = {BarBits}
        /\ UNCHANGED <<machine, bar0, size, io>> /\ dpc' = "cache"
    BY <1>8 DEF RestoreBar, At, BarState
  <2>2. bar \in SUBSET (0..63) /\ bar \cap 0..3 = machine.bar \cap 0..3
    <3>1. \A x \in BarBits..63 : x \in 0..63 /\ x \notin 0..3
      BY PlatformAssumption
    <3> QED
      BY <3>1, <2>1, <1>1
  <2>3. bar' = (machine.bar \cap BarBits..63) \cup (machine.bar \cap 0..3)
    BY <1>1, <1>8, <2>1, <2>2, BarWritten DEF RestoreBar
  <2>4. bar' = machine.bar
    BY <2>3, <1>1, BarFacts
  <2> QED
    BY <1>1, <2>1, <2>4 DEF BarState, BarIsWindow
<1>9. CASE disable_cache
  BY <1>9 DEF disable_cache, At, BarState, BarIsWindow
<1> QED
  BY StepCases, <1>2, <1>3, <1>4, <1>5, <1>6, <1>7, <1>8, <1>9 DEF PciAttach
-----------------------------------------------------------------------------
(* What the xHC runs with.                                                 *)

LEMMA XhcInit ==
  ASSUME MainInit
  PROVE  XhcState
<1>1. regs \in Registers /\ regs = FirmwareRegs
  BY DEF MainInit, BringUpInit, FirmwareRegs, Registers
<1> QED
  BY <1>1 DEF MainInit, BringUpInit, XhcState, Configured

\* Driver steps that leave registers and scratchpads alone.
XhcKept == UNCHANGED <<scratch, usbcmd, halted, regs>>

\* The command register only gains bits below 16.
LEMMA CommandKept ==
  ASSUME NEW flags, set_command_and_status_flags(flags)
  PROVE  /\ 2 \in command => 2 \in command'
         /\ 2 \in flags => 2 \in command'
BY DEF set_command_and_status_flags, CommandWrite

\* Attaching before the first register of the xHC is touched.
LEMMA XhcPciStep ==
  ASSUME XhcState, PlaceState, UNCHANGED deviceVars \/ ProbeDevice \/ PciAttach
  PROVE  XhcState'
<1>1. XhcKept
  BY DEF XhcKept, deviceVars, bringUpVars, driverVars, setup, xhcVars, ProbeDevice, PciAttach,
         disable_interrupt, enable_bus_master, ReadBar, SizeBar, RestoreBar, disable_cache
<1>2. 2 \in command => 2 \in command'
  BY CommandKept DEF deviceVars, ProbeDevice, PciAttach, disable_interrupt, enable_bus_master,
                     ReadBar, SizeBar, RestoreBar, disable_cache
<1>3. Configured => Configured'
  BY <1>1, <1>2 DEF Configured, XhcKept
<1>4. \/ UNCHANGED dpc
      \/ /\ dpc \notin {"wait reset", "wait halted"}
         /\ dpc' \in {"interrupt", "bus master", "bar", "size", "restore", "cache", "registers", "attach failed"}
  BY DEF deviceVars, bringUpVars, driverVars, ProbeDevice, PlaceState, PciAttach,
         disable_interrupt, enable_bus_master, ReadBar, SizeBar, RestoreBar, disable_cache, At
<1>5. dpc' \notin {"absent", "interrupt", "bus master"} => 2 \in command'
  <2>1. CASE UNCHANGED deviceVars
    BY <2>1 DEF deviceVars, bringUpVars, driverVars, XhcState
  <2>2. CASE enable_bus_master
    BY <2>2, CommandKept DEF enable_bus_master
  <2>3. CASE ProbeDevice
    BY <2>3, <1>2 DEF ProbeDevice, XhcState
  <2>4. CASE disable_interrupt \/ ReadBar \/ SizeBar \/ RestoreBar \/ disable_cache
    BY <2>4, <1>2 DEF disable_interrupt, ReadBar, SizeBar, RestoreBar, disable_cache, At, XhcState
  <2> QED
    BY <2>1, <2>2, <2>3, <2>4 DEF PciAttach
<1> QED
  BY <1>1, <1>3, <1>4, <1>5 DEF XhcKept, XhcState

\* Controller::new.
LEMMA XhcAttachStep ==
  ASSUME XhcState, Attach, UNCHANGED platformVars
  PROVE  XhcState'
<1>1. UNCHANGED command /\ 2 \in command
  BY DEF platformVars, pciVars, Attach, setup_xhc_registers, StopXhc, ResetXhc, AllocScratchpads,
         init_irs, init_slots_and_contexts, init_command_ring, start_xhc, XhcStarted, At, XhcState
<1>2. CASE setup_xhc_registers
  BY <1>1, <1>2 DEF setup_xhc_registers, At, xhcVars, XhcState, Configured
<1>3. CASE StopXhc
  BY <1>1, <1>3 DEF StopXhc, At, setup, XhcState, Configured
<1>4. CASE ResetXhc
  BY <1>1, <1>4 DEF ResetXhc, MayReset, At, setup, XhcState, Configured
<1>5. CASE AllocScratchpads
  <2>1. Scratchpads \in Nat
    BY XhcAssumption
  <2>2. scratch' \in Nat /\ (scratch' >= Scratchpads \/ (scratch' = scratch /\ dpc' = "attach failed"))
    <3> DEFINE most == Max({Scratchpads, 1})
    <3>1. most \in Nat /\ most >= Scratchpads
      BY <2>1 DEF Max
    <3> HIDE DEF most
    <3> QED
      <4>1. CASE HasPageSize
        <5>1. scratch' = Max({num_scratchpad_bufs, 1})
          BY <1>5, <4>1 DEF AllocScratchpads
        <5>2. scratch' = most
          BY <5>1, CapabilitiesRead DEF most
        <5> QED
          BY <2>1, <3>1, <5>2
      <4>2. CASE ~HasPageSize
        BY <1>5, <4>2 DEF AllocScratchpads, XhcState
      <4> QED
        BY <4>1, <4>2
  <2>3. dpc = "wait reset" /\ dpc' \in {"irs", "attach failed"} /\ UNCHANGED <<usbcmd, halted, regs>>
    BY <1>5 DEF AllocScratchpads, xhcVars
  <2>4. "reset" \notin usbcmd
    BY <1>5 DEF AllocScratchpads
  <2>5. halted /\ "run" \notin usbcmd
    BY <2>3 DEF XhcState
  <2> QED
    BY <1>1, <2>1, <2>2, <2>3, <2>4, <2>5 DEF XhcState
<1>6. CASE init_irs
  <2>1. halted /\ "run" \notin usbcmd /\ "reset" \notin usbcmd /\ scratch >= Scratchpads
    BY <1>6 DEF init_irs, At, XhcState
  <2>2. /\ regs' \in Registers
        /\ regs'.irs = "event ring"
    BY <1>6 DEF init_irs, XhcState, Registers
  <2> QED
    BY <1>1, <1>6, <2>1, <2>2 DEF init_irs, At, setup, XhcState
<1>7. CASE init_slots_and_contexts
  <2>1. halted /\ "run" \notin usbcmd /\ "reset" \notin usbcmd /\ scratch >= Scratchpads
    BY <1>7 DEF init_slots_and_contexts, At, XhcState
  <2>2. Slots \in Nat
    BY XhcAssumption
  <2>3. regs' = [regs EXCEPT !.config = Slots, !.dcbaap = "dcbaa"]
    BY <1>7, CapabilitiesRead DEF init_slots_and_contexts
  <2>4. regs.irs = "event ring"
    BY <1>7 DEF init_slots_and_contexts, At, XhcState
  <2>5. /\ regs' \in Registers
        /\ regs'.irs = "event ring" /\ regs'.config = Slots /\ regs'.dcbaap = "dcbaa"
    BY <2>2, <2>3, <2>4 DEF XhcState, Registers
  <2> QED
    BY <1>1, <1>7, <2>1, <2>5 DEF init_slots_and_contexts, At, setup, XhcState
<1>8. CASE init_command_ring
  <2>1. halted /\ "run" \notin usbcmd /\ "reset" \notin usbcmd /\ scratch >= Scratchpads
    BY <1>8 DEF init_command_ring, At, XhcState
  <2>2. regs.irs = "event ring" /\ regs.config = Slots /\ regs.dcbaap = "dcbaa"
    BY <1>8 DEF init_command_ring, At, XhcState
  <2>3. /\ regs' \in Registers
        /\ regs'.irs = "event ring" /\ regs'.config = Slots /\ regs'.dcbaap = "dcbaa"
        /\ regs'.crcr = "command ring"
    BY <1>8, <2>2 DEF init_command_ring, XhcState, Registers
  <2> QED
    BY <1>1, <1>8, <2>1, <2>3 DEF init_command_ring, At, setup, XhcState
<1>9. CASE start_xhc
  <2>1. regs = DriverRegs
    BY <1>9 DEF start_xhc, At, XhcState, DriverRegs, Registers
  <2>2. Configured' /\ halted
    BY <1>1, <1>9, <2>1 DEF start_xhc, At, setup, XhcState, Configured
  <2> QED
    BY <1>1, <1>9, <2>2 DEF start_xhc, At, setup, XhcState
<1>10. CASE XhcStarted
  BY <1>1, <1>10 DEF XhcStarted, At, setup, xhcVars, XhcState, Configured
<1> QED
  BY <1>2, <1>3, <1>4, <1>5, <1>6, <1>7, <1>8, <1>9, <1>10 DEF Attach

\* run and the ports leave the registers alone.
LEMMA XhcRunStep ==
  ASSUME XhcState, Run \/ Plug \/ (\E p \in 1..Ports : HwPortReset(p)), UNCHANGED platformVars
  PROVE  XhcState'
<1>1. XhcKept /\ UNCHANGED command
  BY DEF XhcKept, platformVars, pciVars, Run, ScanPort, ScanEnd, assert_pp, assert_pr, EnableSlot,
         AddressDevice, notify_ep, Plug, HwPlug, HwPortReset, setup, xhcVars, driverVars
<1>2. \/ UNCHANGED dpc
      \/ /\ dpc \in {"scan", "power", "wait power", "wait port reset", "address device", "addressed"}
         /\ dpc' \in {"power", "wait power", "wait port reset", "address device", "addressed",
                      "descriptors", "done"}
  BY DEF Run, ScanPort, ScanEnd, assert_pp, assert_pr, EnableSlot, AddressDevice, notify_ep, At,
         Plug, HwPlug, HwPortReset, driverVars
<1> QED
  BY <1>1, <1>2 DEF XhcKept, XhcState, Configured

\* The xHC obeys.
LEMMA XhcHwStep ==
  ASSUME XhcState, HwHalt \/ HwReset \/ HwStart, UNCHANGED platformVars
  PROVE  XhcState'
<1>1. UNCHANGED <<command, dpc, scratch>>
  BY DEF platformVars, pciVars, HwHalt, HwReset, HwStart, driverVars, setup
<1>2. CASE HwHalt
  BY <1>1, <1>2 DEF HwHalt, XhcState, Configured
<1>3. CASE HwReset
  <2>1. dpc = "wait reset" /\ halted /\ "run" \notin usbcmd
    BY <1>3 DEF HwReset, XhcState
  <2>2. /\ regs' \in Registers
        /\ "run" \notin usbcmd' /\ "reset" \notin usbcmd' /\ UNCHANGED halted
    BY <1>3, <2>1 DEF HwReset, ResetRegs, Registers
  <2> QED
    BY <1>1, <2>1, <2>2 DEF XhcState
<1>4. CASE HwStart
  BY <1>1, <1>4 DEF HwStart, XhcState, Configured
<1> QED
  BY <1>2, <1>3, <1>4

LEMMA XhcStep ==
  ASSUME XhcState, PlaceState, [MainNext]_mainVars
  PROVE  XhcState'
BY StepCases, XhcPciStep, XhcAttachStep, XhcRunStep, XhcHwStep DEF Hw
-----------------------------------------------------------------------------
(* Ports and the device.                                                   *)

LEMMA ShlIsWord ==
  ASSUME NEW word, NEW n
  PROVE  Shl(word, n, 32) \in Word32
BY DEF Shl, Mask, Word32

LEMMA DeviceInit ==
  ASSUME MainInit
  PROVE  DeviceState
<1>1. PortStates \subseteq Word32
  BY ShlIsWord DEF PortStates, PP, CCS, CSC, Word32
<1>2. portsc \in [1..Ports -> Word32]
  BY <1>1 DEF MainInit, BringUpInit
<1>3. Ports \in Nat /\ Slots \in Nat
  BY XhcAssumption
<1> QED
  BY <1>2, <1>3 DEF MainInit, BringUpInit, DeviceState, BeforeRegisters

\* What the driver writes to a port: no change bit, and PED only with PR.
LEMMA PortWritten ==
  ASSUME NEW old \in Word32, NEW pos \in {PP, PR}
  PROVE  LET new == PortWrite(old, (old \cap PRESERVE_MASK) \cup {pos})
         IN  /\ new \in Word32
             /\ new \cap ChangeBits = old \cap ChangeBits
             /\ PED \in old \ new => PR \in new
<1> DEFINE w == (old \cap PRESERVE_MASK) \cup {pos}
           new == PortWrite(old, w)
<1>1. w \in Word32 /\ PED \notin w /\ \A b \in ChangeBits : b \notin w
  BY DEF PRESERVE_MASK, PP, PR, PED, ChangeBits, Word32
<1> HIDE DEF w
<1>2. \A b \in 0..31 :
        b \in new <=> \/ b \in old /\ b # PP /\ (PR \in w => b # PED)
                      \/ b \in w /\ b \in {PP, PR}
  BY <1>1 DEF PortWrite, PP, PR, PED, ChangeBits, Word32
<1>3. new \in Word32
  BY <1>1 DEF PortWrite, PP, PR, PED, Word32
<1> HIDE DEF new
<1>4. new \cap ChangeBits = old \cap ChangeBits
  <2>1. \A b \in ChangeBits : b \in 0..31 /\ b # PP /\ b # PR /\ b # PED
    BY DEF ChangeBits, PP, PR, PED
  <2> QED
    BY <2>1, <1>2
<1>5. PED \in old \ new => PR \in new
  BY <1>2 DEF PP, PR, PED
<1> QED
  BY <1>3, <1>4, <1>5 DEF new, w

\* assert_bit writes one port.
LEMMA AssertBit ==
  ASSUME portsc \in [1..Ports -> Word32], NEW p, NEW pos \in {PP, PR}, assert_bit(p, pos)
  PROVE  /\ portsc' \in [1..Ports -> Word32]
         /\ \A q \in 1..Ports :
              /\ portsc[q] \cap ChangeBits = portsc'[q] \cap ChangeBits
              /\ portsc'[q] # portsc[q] => q = p
              /\ PED \in portsc[q] \ portsc'[q] => PR \in portsc'[q]
<1> DEFINE new(old) == PortWrite(old, (old \cap PRESERVE_MASK) \cup {pos})
<1>1. portsc' = [portsc EXCEPT ![p] = new(portsc[p])]
  BY DEF assert_bit
<1>2. \A old \in Word32 :
        /\ new(old) \in Word32
        /\ new(old) \cap ChangeBits = old \cap ChangeBits
        /\ PED \in old \ new(old) => PR \in new(old)
  BY PortWritten
<1> HIDE DEF new
<1> QED
  BY <1>1, <1>2

\* Devices come and go and ports are reset: the driver's state stays.
LEMMA PortStep ==
  ASSUME DeviceState, NEW p \in 1..Ports, HwPortReset(p) \/ HwPlug(p)
  PROVE  DeviceState'
<1>1. portsc \in [1..Ports -> Word32] /\ portsc[p] \in Word32
  BY DEF DeviceState
<1>2. CASE HwPortReset(p)
  <2>1. PICK new \in Word32 : portsc' = [portsc EXCEPT ![p] = new]
    <3> DEFINE new == (portsc[p] \ {PR}) \cup {PRC} \cup (IF CCS \in portsc[p] THEN {PED} ELSE {})
    <3>1. new \in Word32
      BY <1>1 DEF PRC, PED, Word32
    <3>2. portsc' = [portsc EXCEPT ![p] = new]
      BY <1>2 DEF HwPortReset
    <3> QED
      BY <3>1, <3>2
  <2>2. portsc' \in [1..Ports -> Word32]
    BY <1>1, <2>1
  <2> QED
    BY <1>2, <2>2 DEF HwPortReset, driverVars, device, setup, DeviceState, BeforeRegisters
<1>3. CASE HwPlug(p)
  <2> DEFINE old == portsc[p] \ ({CCS, PED} \cup 10..13)
  <2>1. /\ old \cup {CSC} \in Word32
        /\ \A s \in Speeds : old \cup {CCS, CSC} \cup Shl(Bin(s), SpeedShift, 32) \in Word32
    <3>1. old \in Word32 /\ {CCS, CSC} \in Word32 /\ {CSC} \in Word32
      BY <1>1 DEF CCS, CSC, Word32
    <3>2. \A s \in Speeds : Shl(Bin(s), SpeedShift, 32) \in Word32
      BY ShlIsWord
    <3> HIDE DEF old
    <3> QED
      BY <3>1, <3>2 DEF Word32
  <2>2. PICK new \in Word32 : portsc' = [portsc EXCEPT ![p] = new]
    BY <1>3, <2>1 DEF HwPlug
  <2>3. portsc' \in [1..Ports -> Word32]
    BY <1>1, <2>2
  <2> QED
    BY <1>3, <2>3 DEF HwPlug, driverVars, device, setup, DeviceState, BeforeRegisters
<1> QED
  BY <1>2, <1>3

\* run: the scan ends with the last connected port, which is then brought up.
LEMMA RunStep ==
  ASSUME DeviceState, Run
  PROVE  DeviceState'
<1> USE DEF BeforeRegisters
<1>1. Ports \in Nat /\ Slots \in Nat
  BY XhcAssumption
<1>2. CASE ScanPort
  BY <1>1, <1>2 DEF ScanPort, setup, xhcVars, ports, DeviceState
<1>3. CASE ScanEnd
  <2>1. UNCHANGED <<portsc, connected, slot, doorbells>>
    BY <1>3 DEF ScanEnd, setup, xhcVars, ports
  <2>2. dpc = "scan" /\ ((dpc' = "done" /\ port' = port) \/ (dpc' = "power" /\ port' = connected /\ connected # 0))
    BY <1>3 DEF ScanEnd
  <2>3. port' \in Nat \ {0}
    BY <1>1, <2>2 DEF DeviceState
  <2> QED
    BY <2>1, <2>2, <2>3 DEF DeviceState
<1>4. CASE assert_pp
  BY <1>4, AssertBit DEF assert_pp, At, setup, device, DeviceState
<1>5. CASE assert_pr
  BY <1>5, AssertBit DEF assert_pr, At, setup, device, DeviceState
<1>6. CASE EnableSlot
  <2>1. UNCHANGED <<portsc, port, connected, doorbells>>
    BY <1>6 DEF EnableSlot, setup, xhcVars, ports
  <2>2. dpc = "wait port reset" /\ dpc' \in {"address device", "done"} /\ (slot' = slot \/ slot' \in 1..Slots)
    BY <1>6 DEF EnableSlot
  <2>3. slot' \in 0..Slots
    <3>1. slot \in 0..Slots
      BY DEF DeviceState
    <3>2. 1..Slots \subseteq 0..Slots
      BY <1>1
    <3> QED
      BY <2>2, <3>1, <3>2
  <2> QED
    BY <2>1, <2>2, <2>3 DEF DeviceState
<1>7. CASE AddressDevice
  BY <1>7 DEF AddressDevice, setup, xhcVars, ports, DeviceState
<1>8. CASE notify_ep
  BY <1>8 DEF notify_ep, setup, device, xhcVars, ports, DeviceState
<1> QED
  BY <1>2, <1>3, <1>4, <1>5, <1>6, <1>7, <1>8 DEF Run

\* Controller::new makes a doorbell for every port.
LEMMA DeviceAttachStep ==
  ASSUME DeviceState, Attach
  PROVE  DeviceState'
<1> USE DEF BeforeRegisters
<1>1. CASE setup_xhc_registers
  BY <1>1, CapabilitiesRead DEF setup_xhc_registers, At, device, xhcVars, ports, DeviceState
<1>2. CASE StopXhc \/ ResetXhc
  BY <1>2 DEF StopXhc, ResetXhc, At, setup, device, ports, DeviceState
<1>3. CASE AllocScratchpads
  BY <1>3 DEF AllocScratchpads, device, xhcVars, ports, DeviceState
<1>4. CASE init_irs \/ init_slots_and_contexts \/ init_command_ring
  BY <1>4 DEF init_irs, init_slots_and_contexts, init_command_ring, At, setup, device, ports, DeviceState
<1>5. CASE start_xhc \/ XhcStarted
  BY <1>5 DEF start_xhc, XhcStarted, At, setup, device, xhcVars, ports, DeviceState
<1> QED
  BY <1>1, <1>2, <1>3, <1>4, <1>5 DEF Attach

LEMMA DeviceStep ==
  ASSUME DeviceState, [MainNext]_mainVars
  PROVE  DeviceState'
<1>1. CASE UNCHANGED deviceVars
  BY <1>1 DEF deviceVars, bringUpVars, driverVars, setup, device, xhcVars, ports, DeviceState
<1>2. CASE ProbeDevice
  BY <1>2 DEF ProbeDevice, setup, device, xhcVars, ports, DeviceState, BeforeRegisters
<1>3. CASE PciAttach
  <2>1. UNCHANGED <<portsc, port, connected, slot, doorbells>>
    BY <1>3 DEF PciAttach, disable_interrupt, enable_bus_master, ReadBar, SizeBar, RestoreBar,
                disable_cache, setup, device, xhcVars, ports
  <2>2. dpc' \in BeforeRegisters
    BY <1>3 DEF PciAttach, disable_interrupt, enable_bus_master, ReadBar, SizeBar, RestoreBar,
                disable_cache, At, BeforeRegisters
  <2> QED
    BY <2>1, <2>2 DEF DeviceState, BeforeRegisters
<1>4. CASE Attach \/ Run
  BY <1>4, DeviceAttachStep, RunStep
<1>5. CASE HwHalt \/ HwReset \/ HwStart
  BY <1>5 DEF HwHalt, HwReset, HwStart, driverVars, setup, device, ports, DeviceState
<1>6. CASE Plug \/ \E p \in 1..Ports : HwPortReset(p)
  BY <1>6, PortStep DEF Plug
<1> QED
  BY StepCases, <1>1, <1>2, <1>3, <1>4, <1>5, <1>6 DEF Hw
-----------------------------------------------------------------------------
(* Theorems.                                                               *)

\* The invariant of booting, on every machine and with every memory map.
THEOREM SpecIInv == MainSpec => []IInv
<1>1. MainInit => IInv
  BY BootInit, BarInit, XhcInit, DeviceInit DEF MainInit, IInv
<1>2. IInv /\ [MainNext]_mainVars => IInv'
  BY BootStep, PlaceStep, BarStep, XhcStep, DeviceStep DEF IInv
<1> QED
  BY <1>1, <1>2, PTL DEF MainSpec

\* However often the firmware changes its map, and whatever a failed status
\* compares as: once boot services are gone, init_with_mmap walks the last map.
THEOREM HeapHasLastMap == MainSpec => []HeapGetsLastMap
<1>1. IInv => HeapGetsLastMap
  BY LastMap DEF IInv
<1> QED
  BY <1>1, SpecIInv, PTL

\* BAR0 is where the firmware put it but while its size is found out, and what
\* is mapped uncached is the window, for every address and size of it.
THEOREM BarIsPutBack == MainSpec => []BarIsWindow
<1>1. IInv => BarIsWindow
  BY DEF IInv, BarState
<1> QED
  BY <1>1, SpecIInv, PTL

\* The xHC never runs with half of its structures, for every number of slots
\* and scratchpads.
THEOREM XhcIsConfigured == MainSpec => []XhcRunsConfigured
<1>1. IInv => XhcRunsConfigured
  BY DEF IInv, XhcState, Configured, XhcRunsConfigured
<1> QED
  BY <1>1, SpecIInv, PTL

\* reset_port: only the connected port is written, no change bit is cleared and
\* PED is only lost to a reset, whatever the ports' registers hold.
THEOREM PortsAreKept == MainSpec => PortKept
<1> DEFINE Kept ==
      dpc' # dpc =>
        \A p \in 1..Ports :
          /\ portsc[p] \cap ChangeBits = portsc'[p] \cap ChangeBits
          /\ portsc'[p] # portsc[p] => p = connected
          /\ PED \in portsc[p] \ portsc'[p] => PR \in portsc'[p]
<1>1. ASSUME DeviceState, [MainNext]_mainVars, dpc' # dpc
      PROVE  Kept
  <2>1. CASE UNCHANGED portsc
    BY <2>1
  <2>2. CASE assert_pp
    BY <1>1, <2>2, AssertBit DEF assert_pp, At, DeviceState
  <2>3. CASE assert_pr
    BY <1>1, <2>3, AssertBit DEF assert_pr, At, DeviceState
  <2>4. UNCHANGED portsc \/ assert_pp \/ assert_pr
    <3>1. CASE UNCHANGED deviceVars \/ ProbeDevice
      BY <3>1 DEF deviceVars, ProbeDevice, bringUpVars, xhcVars, ports
    <3>2. CASE PciAttach
      BY <3>2 DEF PciAttach, disable_interrupt, enable_bus_master, ReadBar, SizeBar, RestoreBar,
                  disable_cache, xhcVars, ports
    <3>3. CASE Attach
      BY <3>3 DEF Attach, setup_xhc_registers, StopXhc, ResetXhc, AllocScratchpads, init_irs,
                  init_slots_and_contexts, init_command_ring, start_xhc, XhcStarted, xhcVars, ports
    <3>4. CASE Run
      BY <3>4 DEF Run, ScanPort, ScanEnd, EnableSlot, AddressDevice, notify_ep, xhcVars, ports
    <3>5. CASE Hw \/ Plug
      BY <1>1, <3>5 DEF Hw, HwHalt, HwReset, HwStart, HwPortReset, Plug, HwPlug, driverVars
    <3> QED
      BY <1>1, StepCases, <3>1, <3>2, <3>3, <3>4, <3>5
  <2> QED
    BY <2>1, <2>2, <2>3, <2>4
<1>2. IInv /\ [MainNext]_mainVars => [Kept]_bringUpVars
  BY <1>1 DEF IInv
<1> QED
  BY <1>2, SpecIInv, PTL DEF MainSpec, PortKept
-----------------------------------------------------------------------------
(* The input context.                                                      *)

\* The slot context: the number of the port, and one endpoint context.
LEMMA SlotContext ==
  ASSUME NEW p \in 0..127, NEW k \in 1..4
  PROVE  /\ Num(Shr(set_root_hub_port_number({}, p), 16) \cap 0..(8 - 1)) = p
         /\ Num(Shr(set_port_speed(set_last_valid_dci({}, 1), k), 27) \cap 0..(5 - 1)) = 1
<1>1. /\ Bin(p) \in SUBSET (0..7) /\ Num(Bin(p)) = p
      /\ Bin(k) \in SUBSET (0..4) /\ Num(Bin(1)) = 1 /\ Bin(1) = {0}
  BY BinaryNotation
<1> DEFINE w == Shl(Bin(p), 16, 32)
<1>2. w \in SUBSET Int
  BY ShlIsWord DEF Word32
<1>3. Shr(w, 16) \cap 0..(8 - 1) = Bin(p)
  <2>1. \A b \in Int : b \in w <=> b - 16 \in Bin(p) /\ b \in 0..31
    BY <1>1, ShiftedIn
  <2> HIDE DEF w
  <2>2. \A b \in 0..7 : b + 16 \in w <=> b \in Bin(p)
    BY <1>1, <2>1
  <2>3. Shr(w, 16) \cap 0..(8 - 1) = { b \in 0..7 : b + 16 \in w }
    BY <1>2, FieldRead
  <2> QED
    BY <1>1, <2>2, <2>3
<1>4. Num(Shr(set_root_hub_port_number({}, p), 16) \cap 0..(8 - 1)) = p
  BY <1>1, <1>3 DEF set_root_hub_port_number
<1> DEFINE v == set_port_speed(set_last_valid_dci({}, 1), k)
<1>5. v = {27}
  <2>1. Shr(Bin(k), 20) = {}
    BY <1>1 DEF Shr
  <2>2. \A b \in Int : b \in Shl({0}, 27, 32) <=> b - 27 \in {0} /\ b \in 0..31
    BY ShiftedIn
  <2>3. Shl({0}, 27, 32) = {27}
    BY <2>2, ShlIsWord DEF Word32
  <2> QED
    BY <1>1, <2>1, <2>3 DEF set_port_speed, set_last_valid_dci
<1>6. Shr({27}, 27) \cap 0..(5 - 1) = {0}
  <2>1. Shr({27}, 27) \cap 0..(5 - 1) = { b \in 0..4 : b + 27 \in {27} }
    BY FieldRead
  <2> QED
    BY <2>1
<1> QED
  BY <1>1, <1>4, <1>5, <1>6

\* The endpoint context: type and packet size are where the xHC looks for them,
\* and the dequeue pointer is the ring with cycle state 1.
LEMMA EndpointContext ==
  ASSUME NEW m \in 0..1023
  PROVE  LET ep == new_control_endpoint(m, CtrlEpRing)
         IN  /\ Num(Shr(ep.data1, 3) \cap 0..(3 - 1)) = 4
             /\ Num(Shr(ep.data1, 16) \cap 0..(16 - 1)) = m
             /\ ep.tr_dequeue_ptr = CtrlEpRing \cup {0}
<1>1. /\ Bin(m) \in SUBSET (0..9) /\ Num(Bin(m)) = m
      /\ Bin(3) = {0, 1} /\ Bin(4) = {2} /\ Num(Bin(4)) = 4
  <2>1. \A n \in 0..1023 : Num(Bin(n)) = n /\ Bin(n) \in SUBSET (0..9)
    BY BinaryNotation
  <2>2. 4 \in 0..1023
    OBVIOUS
  <2>3. Num(Bin(4)) = 4
    BY <2>1, <2>2, Zenon
  <2>4. Bin(3) = {0, 1} /\ Bin(4) = {2}
    BY BinaryNotation, Zenon
  <2> QED
    BY <2>1, <2>3, <2>4
<1> DEFINE d == Shl({2}, 3, 32) \cup Shl({0, 1}, 1, 32) \cup Shl(Bin(m), 16, 32)
           t == write_bits(write_bits({}, 64, 0, 1, {0}), 64, 4, 60, Shr(CtrlEpRing, 4))
           ep == new_control_endpoint(m, CtrlEpRing)
<1>2. ep.data1 = d /\ ep.tr_dequeue_ptr = t
  BY <1>1 DEF new_control_endpoint, Control
<1>3. d \in SUBSET Int
  BY ShlIsWord DEF Word32
<1>4. \A b \in 0..31 : b \in d <=> b = 5 \/ b \in {1, 2} \/ b - 16 \in Bin(m)
  <2>1. /\ \A b \in Int : b \in Shl({2}, 3, 32) <=> b - 3 \in {2} /\ b \in 0..31
        /\ \A b \in Int : b \in Shl({0, 1}, 1, 32) <=> b - 1 \in {0, 1} /\ b \in 0..31
        /\ \A b \in Int : b \in Shl(Bin(m), 16, 32) <=> b - 16 \in Bin(m) /\ b \in 0..31
    BY <1>1, ShiftedIn
  <2> QED
    BY <2>1
<1> HIDE DEF d
<1>5. Shr(d, 3) \cap 0..(3 - 1) = {2}
  <2>1. Shr(d, 3) \cap 0..(3 - 1) = { b \in 0..2 : b + 3 \in d }
    BY <1>3, FieldRead
  <2>2. \A b \in 0..2 : b + 3 \in d <=> b = 2
    BY <1>1, <1>4
  <2> QED
    BY <2>1, <2>2
<1>6. Shr(d, 16) \cap 0..(16 - 1) = Bin(m)
  <2>1. Shr(d, 16) \cap 0..(16 - 1) = { b \in 0..15 : b + 16 \in d }
    BY <1>3, FieldRead
  <2>2. \A b \in 0..15 : b + 16 \in d <=> b \in Bin(m)
    BY <1>1, <1>4
  <2> QED
    BY <1>1, <2>1, <2>2
<1>7. t = CtrlEpRing \cup {0}
  <2>1. Shr(CtrlEpRing, 4) = {8, 16}
    BY DEF Shr, CtrlEpRing
  <2>2. write_bits({}, 64, 0, 1, {0}) = {0}
    <3>1. \A b \in Int : b \in Shl({0}, 0, 64) <=> b - 0 \in {0} /\ b \in 0..63
      BY ShiftedIn
    <3>2. Shl({0}, 0, 64) = {0}
      BY <3>1 DEF Shl, Mask
    <3> QED
      BY <3>2 DEF write_bits
  <2>3. Shl({8, 16}, 4, 64) = {12, 20}
    <3>1. \A b \in Int : b \in Shl({8, 16}, 4, 64) <=> b - 4 \in {8, 16} /\ b \in 0..63
      BY ShiftedIn
    <3>2. Shl({8, 16}, 4, 64) \in SUBSET Int
      BY DEF Shl, Mask
    <3> QED
      BY <3>1, <3>2
  <2>4. 0 \notin Shl(Mask(60), 4, 64)
    BY DEF Shl, Mask
  <2> QED
    BY <2>1, <2>2, <2>3, <2>4 DEF write_bits, CtrlEpRing
<1> HIDE DEF t
<1> QED
  BY <1>1, <1>2, <1>5, <1>6, <1>7
\* Address Device describes the device that is there, for every number of
\* ports and whatever the speed field of its port says.
THEOREM DeviceIsReachable == MainSpec => DeviceReachable
<1> DEFINE Reachable ==
      dpc = "address device" /\ dpc' = "addressed" =>
        LET field(word, low, width) == Num(Shr(word, low) \cap 0..(width - 1))
        IN  /\ context'.add = {0, 1}
            /\ field(context'.slot1, 16, 8) = connected
            /\ field(context'.slot0, 27, 5) = 1
            /\ field(context'.ep.data1, 3, 3) = 4
            /\ field(context'.ep.data1, 16, 16) =
                 CASE field(portsc[connected], 10, 4) \in {1, 2} -> 8
                   [] field(portsc[connected], 10, 4) = 3 -> 64
                   [] field(portsc[connected], 10, 4) = 4 -> 512
            /\ context'.ep.tr_dequeue_ptr = CtrlEpRing \cup {0}
            /\ slot <= Ports => slot \in doorbells
<1>1. ASSUME DeviceState, [MainNext]_mainVars, dpc = "address device", dpc' = "addressed"
      PROVE  Reachable
  <2>1. AddressDevice
    <3>1. ~UNCHANGED dpc
      BY <1>1
    <3>2. ~UNCHANGED deviceVars /\ ~ProbeDevice /\ ~PciAttach
      BY <1>1 DEF deviceVars, bringUpVars, driverVars, ProbeDevice, PciAttach, disable_interrupt,
                  enable_bus_master, ReadBar, SizeBar, RestoreBar, disable_cache, At
    <3>3. ~Attach
      BY <1>1 DEF Attach, setup_xhc_registers, StopXhc, ResetXhc, AllocScratchpads, init_irs,
                  init_slots_and_contexts, init_command_ring, start_xhc, XhcStarted, At
    <3>4. ~Hw /\ ~Plug
      BY <3>1 DEF Hw, HwHalt, HwReset, HwStart, HwPortReset, Plug, HwPlug, driverVars
    <3>5. Run
      BY <1>1, StepCases, <3>2, <3>3, <3>4
    <3> QED
      BY <1>1, <3>5 DEF Run, ScanPort, ScanEnd, assert_pp, assert_pr, EnableSlot, notify_ep, At
  <2> DEFINE k == port_speed(port)
             word == portsc[connected]
             speed == Num(Shr(word, 10) \cap 0..(4 - 1))
             m == MaxPacketSize[k]
  <2>2. /\ port = connected /\ port \in 1..Ports /\ port \in 0..127 /\ doorbells = 0..Ports
        /\ slot \in 0..Slots /\ Ports \in Nat /\ Slots \in Nat
    <3>1. Ports \in 1..127 /\ Slots \in Nat
      BY XhcAssumption
    <3>2. /\ port = connected /\ port \in Nat \ {0} /\ connected \in 0..Ports
          /\ doorbells = 0..Ports /\ slot \in 0..Slots
      BY <1>1 DEF DeviceState, BeforeRegisters
    <3> QED
      BY <3>1, <3>2
  <2>3. k \in 1..4 /\ context' = NewContext(port)
    <3>1. DOMAIN MaxPacketSize = 1..4
      BY DEF MaxPacketSize
    <3> HIDE DEF k
    <3>2. k \in DOMAIN MaxPacketSize /\ context' = NewContext(port)
      BY <1>1, <2>1 DEF AddressDevice, k
    <3> QED
      BY <3>1, <3>2
  <2>4. speed = k
    <3>1. word \in SUBSET Int
      <4>1. portsc \in [1..Ports -> Word32]
        BY <1>1 DEF DeviceState
      <4>2. word \in Word32
        BY <2>2, <4>1
      <4>3. Word32 \subseteq SUBSET Int
        BY DEF Word32
      <4> QED
        BY <4>2, <4>3
    <3>2. extract_bits(word, 10, 4) = Shr(word, 10) \cap 0..(4 - 1)
      BY <3>1, ExtractRead, FieldRead
    <3> QED
      BY <3>2, <2>2 DEF port_speed, SpeedShift
  <2>5. m = (CASE k \in {1, 2} -> 8 [] k = 3 -> 64 [] k = 4 -> 512) /\ m \in 0..1023
    BY <2>3 DEF MaxPacketSize
  <2> HIDE DEF k, speed, m
  <2> DEFINE c == NewContext(port)
  <2>6. /\ c.add = {0, 1}
        /\ c.slot1 = set_root_hub_port_number({}, port)
        /\ c.slot0 = set_port_speed(set_last_valid_dci({}, 1), k)
        /\ c.ep = new_control_endpoint(m, CtrlEpRing)
    BY DEF NewContext, k, m
  <2> HIDE DEF c
  <2>7. /\ Num(Shr(c.slot1, 16) \cap 0..(8 - 1)) = connected
        /\ Num(Shr(c.slot0, 27) \cap 0..(5 - 1)) = 1
    BY <2>2, <2>3, <2>6, SlotContext
  <2>8. /\ Num(Shr(c.ep.data1, 3) \cap 0..(3 - 1)) = 4
        /\ Num(Shr(c.ep.data1, 16) \cap 0..(16 - 1)) = m
        /\ c.ep.tr_dequeue_ptr = CtrlEpRing \cup {0}
    <3>1. m \in 0..1023
      BY <2>5
    <3>2. LET ep == new_control_endpoint(m, CtrlEpRing)
          IN  /\ Num(Shr(ep.data1, 3) \cap 0..(3 - 1)) = 4
              /\ Num(Shr(ep.data1, 16) \cap 0..(16 - 1)) = m
              /\ ep.tr_dequeue_ptr = CtrlEpRing \cup {0}
      BY <3>1, EndpointContext, Zenon
    <3>3. c.ep = new_control_endpoint(m, CtrlEpRing)
      BY <2>6
    <3> QED
      BY <3>2, <3>3, Zenon
  <2>9. slot <= Ports => slot \in doorbells
    BY <2>2
  <2>10. m = CASE speed \in {1, 2} -> 8 [] speed = 3 -> 64 [] speed = 4 -> 512
    BY <2>4, <2>5
  <2>11. context' = c
    BY <2>3 DEF c
  <2> HIDE DEF word
  <2> QED
    BY <2>6, <2>7, <2>8, <2>9, <2>10, <2>11 DEF speed, word
<1>2. IInv /\ [MainNext]_mainVars => [Reachable]_bringUpVars
  BY <1>1 DEF IInv
<1> QED
  BY <1>2, SpecIInv, PTL DEF MainSpec, DeviceReachable


-----------------------------------------------------------------------------
(* Printing and exceptions.                                                *)

(* Where the code of an exception is: n is the place in inthandler_common, *)
(* 0 and below in the entry point.                                         *)
EntryLength(v) == IF v \in WithEcode THEN 2 ELSE 3
Place == ip - EntryLength(vector)

\* Words on the stack at place n, of which the first 21 are the frame.
Depth(n) ==
  IF n <= 0 THEN 7 + n ELSE IF n <= 15 THEN 6 + n ELSE IF n <= 24 THEN 86 ELSE 46 - n
Kept(n) == IF n <= 15 THEN Depth(n) ELSE 21

\* The k-th word of the frame.
FrameWord(k) ==
  IF k <= 6 THEN <<1, cause.r["rsp"], 2, 3, cause.rip, cause.error>>[k]
  ELSE cause.r[Greg[22 - k]]

StackTop(v) == Align(Gates[v].stack)

\* The double fault's error code is pushed by the CPU and by its entry point.
Extra == IF vector = 8 THEN 1 ELSE 0

Shape(c) ==
  /\ c = [r |-> c.r, fpu |-> c.fpu, mem |-> c.mem]
  /\ c.r \in [RegisterNames -> Int] /\ c.fpu \in Int

TrapType ==
  /\ ip \in Nat /\ vector \in Nat
  /\ Shape(cpu)
  /\ cause = [r |-> cause.r, fpu |-> cause.fpu, error |-> cause.error, rip |-> cause.rip]
  /\ cause.r \in [RegisterNames -> Int] /\ cause.fpu \in Int
  /\ vector \notin PushesErrorCode => cause.error = 0
  /\ ip > 0 => vector \in Entrypoints \cap (Vectors \cup {13, 14}) /\ Place <= 41

\* The stack of CPU c at place n: the frame is complete down to rsp, and below it
\* is fpu_context.
StackState(c, n) ==
  LET top == StackTop(vector)
  IN  /\ c.r["rsp"] = top - Depth(n) - Extra
      /\ vector # 8 =>
           \A k \in 1..Kept(n) : top - k \in DOMAIN c.mem /\ c.mem[top - k] = FrameWord(k)
      /\ n > 16 => top - 86 \in DOMAIN c.mem /\ c.mem[top - 86] = cause.fpu

\* The registers at place n: on the way to the call, and on the way back.
RegisterState(c, n) ==
  LET bottom == StackTop(vector) - 86
  IN  /\ n <= 17 => \A x \in RegisterNames \ {"rsp", "rcx"} : c.r[x] = cause.r[x]
      /\ n <= 0 => c.r["rcx"] = cause.r["rcx"]
      /\ n \in 1..21 => c.r["rcx"] = vector
      /\ n <= 21 \/ n > 23 => c.fpu = cause.fpu
      /\ n \in 18..21 => c.r["rdi"] = bottom
      /\ n \in 19..22 => c.r["rbp"] = bottom
      /\ n = 21 => c.r["rsi"] = vector
      /\ \A i \in 1..15 : i <= n - 25 => c.r[Greg[i]] = cause.r[Greg[i]]

\* A double fault never gets past fxsave64, and only a breakpoint returns.
WhoIsHere(n) ==
  /\ n > 16 => vector # 8
  /\ n > 21 => vector = 3

TrapState(c, n) == StackState(c, n) /\ RegisterState(c, n) /\ WhoIsHere(n)

CallNames ==
  {"line", "piece", "pattern", "init_display", "set_global_vram", "init_exceptions", "exit_qemu",
   "bytes", "panic", "return"}
FrameType == [calls : Seq(CallNames), at : {"call", "lock", "draw"}]
NoReturn(calls) == \A i \in DOMAIN calls : calls[i] # "return"

\* Only the second frame, a handler that efi_main was interrupted by, may return.
FramesOk(f) ==
  /\ f \in Seq(FrameType) /\ f # << >>
  /\ \A k \in DOMAIN f : f[k].at # "call" => f[k].calls # << >>
  /\ \A k \in DOMAIN f : k # 2 => NoReturn(f[k].calls)

\* A handler that returns is that of a breakpoint, and reads no bytes.
FrameState ==
  /\ FramesOk(frames)
  /\ ip > 0 /\ vector = 3 => Len(frames) = 1
  /\ ~NoReturn(Top.calls) =>
       /\ ip = 0 /\ vector = 3 /\ vector \in Vectors /\ TrapState(cpu, 22)
       /\ \A i \in DOMAIN Top.calls : Top.calls[i] # "bytes"

TrapInv == TrapType /\ (ip > 0 => TrapState(cpu, Place)) /\ FrameState

ConsoleState == screen \in Screens /\ cursor \in [x : Nat, y : Nat] /\ DrawStaysInside

-----------------------------------------------------------------------------
(* Drawing.                                                                *)

\* The visible part of the frame buffer, by offset.
Visible(s) ==
  { p \in 0..((s.height * s.pixels_per_line) - 1) : p % s.pixels_per_line < s.width }

\* Offset y * l + x is column x of line y.
LEMMA ColumnOfOffset ==
  ASSUME NEW l \in Nat, NEW x \in 0..(l - 1), NEW y \in Nat
  PROVE  (y * l + x) % l = x
<1>1. l > 0 /\ x \in Nat /\ x < l
  OBVIOUS
<1> DEFINE p == y * l + x
<1>2. y * l \in Nat
  BY SMT
<1>3. p \in Nat
  BY <1>1, <1>2
<1>4. p = l * (p \div l) + (p % l) /\ p % l \in 0..(l - 1) /\ p \div l \in Int
  BY <1>1, <1>3, SMT
<1> HIDE DEF p
<1>5. PICK q \in Int : q = p \div l
  BY <1>4
<1>6. PICK r \in 0..(l - 1) : r = p % l
  BY <1>4
<1>7. y * l + x = l * q + r
  BY <1>4, <1>5, <1>6 DEF p
<1>8. l * (y - q) = r - x
  BY <1>7, SMT
<1>9. y = q
  <2>1. CASE y > q
    <3>1. l * (y - q) >= l
      BY <2>1, <1>1, SMT
    <3> QED
      BY <3>1, <1>8
  <2>2. CASE y < q
    <3>1. l * (y - q) <= -l
      BY <2>2, <1>1, SMT
    <3> QED
      BY <3>1, <1>8
  <2> QED
    BY <2>1, <2>2, <1>5
<1>10. r = x
  BY <1>7, <1>9, SMT
<1> QED
  BY <1>6, <1>10 DEF p

\* A pixel inside both ranges is visible.
LEMMA PixelVisible ==
  ASSUME NEW s \in [width : Nat, height : Nat, pixels_per_line : Nat],
         NEW x \in Int, NEW y \in Int, is_in_x_range(s, x), is_in_y_range(s, y)
  PROVE  unchecked_pixel_at_mut(s, x, y) \in Visible(s)
<1> DEFINE l == s.pixels_per_line
<1>1. s.width \in Nat /\ s.height \in Nat /\ l \in Nat
  OBVIOUS
<1>2. 0 <= x /\ x < s.width /\ x < l
  BY <1>1 DEF is_in_x_range, Min
<1>3. 0 <= y /\ y < s.height
  BY DEF is_in_y_range
<1> HIDE DEF l
<1> DEFINE h == s.height
<1>4. h \in Nat /\ y < h
  BY <1>1, <1>3
<1> HIDE DEF h
<1>5. (y * l + x) % l = x
  <2>1. x \in 0..(l - 1) /\ y \in Nat
    BY <1>1, <1>2, <1>3
  <2> QED
    BY <1>1, <2>1, ColumnOfOffset
<1>6. y * l + x \in 0..((h * l) - 1)
  <2>1. y + 1 <= h
    BY <1>3, <1>4
  <2>2. (y + 1) * l <= h * l
    BY <2>1, <1>1, <1>3, <1>4, SMT
  <2>3. (y + 1) * l = y * l + l /\ y * l >= 0
    BY <1>1, <1>3, SMT
  <2>4. y * l \in Int /\ h * l \in Int
    BY <1>1, <1>4
  <2> QED
    BY <2>2, <2>3, <2>4, <1>1, <1>2
<1> QED
  BY <1>2, <1>5, <1>6 DEF Visible, unchecked_pixel_at_mut, l, h

\* draw_point checks each point.
LEMMA PointsVisible ==
  ASSUME NEW s \in [width : Nat, height : Nat, pixels_per_line : Nat],
         NEW points, \A p \in points : p[1] \in Int /\ p[2] \in Int
  PROVE  draw_points(s, points) \subseteq Visible(s)
BY PixelVisible DEF draw_points

\* fill_rect checks two corners, and writes unchecked between them.
LEMMA RectVisible ==
  ASSUME NEW s \in [width : Nat, height : Nat, pixels_per_line : Nat],
         NEW px \in Int, NEW py \in Int, NEW w \in Int, NEW h \in Int
  PROVE  fill_rect(s, px, py, w, h).pixels \subseteq Visible(s)
<1>1. CASE is_in_x_range(s, px) /\ is_in_y_range(s, py)
            /\ is_in_x_range(s, px + w - 1) /\ is_in_y_range(s, py + h - 1)
  <2>1. \A x \in px..(px + w - 1) : is_in_x_range(s, x)
    BY <1>1 DEF is_in_x_range, Min
  <2>2. \A y \in py..(py + h - 1) : is_in_y_range(s, y)
    BY <1>1 DEF is_in_y_range
  <2>3. \A x \in px..(px + w - 1), y \in py..(py + h - 1) :
           unchecked_pixel_at_mut(s, x, y) \in Visible(s)
    BY <2>1, <2>2, PixelVisible
  <2>4. fill_rect(s, px, py, w, h).pixels =
          { unchecked_pixel_at_mut(s, x, y) : x \in px..(px + w - 1), y \in py..(py + h - 1) }
    BY <1>1 DEF fill_rect, Drawing
  <2> QED
    BY <2>3, <2>4
<1>2. CASE ~(is_in_x_range(s, px) /\ is_in_y_range(s, py)
              /\ is_in_x_range(s, px + w - 1) /\ is_in_y_range(s, py + h - 1))
  BY <1>2 DEF fill_rect, Drawing
<1> QED
  BY <1>1, <1>2

\* calc_slope_point gives a whole number, if any.
LEMMA SlopeIsInteger ==
  ASSUME NEW da \in Int, NEW db \in Int, NEW ia \in Int
  PROVE  calc_slope_point(da, db, ia) \subseteq Int
<1>1. CASE da < db \/ da = 0
  BY <1>1 DEF calc_slope_point
<1>2. CASE ~(da < db) /\ da # 0 /\ ia \in 0..da
  <2>1. da \in Nat \ {0}
    BY <1>2
  <2>2. 2 * db * ia + da \in Int
    OBVIOUS
  <2>3. ((2 * db * ia) + da) \div da \in Int
    BY <2>1, <2>2, SMT
  <2>4. (((2 * db * ia) + da) \div da) \div 2 \in Int
    BY <2>3, SMT
  <2> QED
    BY <2>4, <1>2 DEF calc_slope_point
<1>3. CASE ~(da < db \/ da = 0) /\ ia \notin 0..da
  BY <1>3 DEF calc_slope_point
<1> QED
  BY <1>1, <1>2, <1>3

\* draw_line draws, if anything, points that are checked one by one.
LEMMA LineVisible ==
  ASSUME NEW s \in [width : Nat, height : Nat, pixels_per_line : Nat],
         NEW x0 \in Int, NEW y0 \in Int, NEW x1 \in Int, NEW y1 \in Int
  PROVE  draw_line(s, x0, y0, x1, y1) \subseteq Visible(s)
<1> DEFINE dx == Abs(x1 - x0)   sx == signum(x1 - x0)
           dy == Abs(y1 - y0)   sy == signum(y1 - y0)
           flat == UNION { { <<rx, ry>> : ry \in calc_slope_point(dx, dy, rx) } : rx \in 0..(dx - 1) }
           steep == UNION { { <<rx, ry>> : rx \in calc_slope_point(dy, dx, ry) } : ry \in 0..(dy - 1) }
           steps == IF dx >= dy THEN flat ELSE steep
<1>1. dx \in Int /\ dy \in Int /\ sx \in Int /\ sy \in Int
  BY DEF Abs, signum
<1> HIDE DEF dx, dy, sx, sy
<1>2. \A p \in flat : p[1] \in Int /\ p[2] \in Int
  BY <1>1, SlopeIsInteger
<1>3. \A p \in steep : p[1] \in Int /\ p[2] \in Int
  BY <1>1, SlopeIsInteger
<1>4. \A p \in steps : p[1] \in Int /\ p[2] \in Int
  BY <1>2, <1>3
<1>5. LinePoints(x0, y0, x1, y1) = { <<x0 + (p[1] * sx), y0 + (p[2] * sy)>> : p \in steps }
  BY DEF LinePoints, dx, dy, sx, sy
<1> HIDE DEF steps
<1>6. \A p \in LinePoints(x0, y0, x1, y1) : p[1] \in Int /\ p[2] \in Int
  BY <1>1, <1>4, <1>5
<1> QED
  BY <1>6, PointsVisible DEF draw_line

\* A string, wherever it begins.
LEMMA StringVisible ==
  ASSUME NEW s \in [width : Nat, height : Nat, pixels_per_line : Nat],
         NEW x \in Int, NEW y \in Int, NEW n \in Nat
  PROVE  draw_str_fg(s, x, y, n) \subseteq Visible(s)
<1>1. ASSUME NEW i \in 0..(n - 1)
      PROVE  draw_font_fg(s, x + (i * GlyphW), y) \subseteq Visible(s)
  <2> DEFINE left == x + (i * GlyphW)
             cell == { <<left + dx, y + dy>> : dx \in 0..(GlyphW - 1), dy \in 0..(GlyphH - 1) }
  <2>1. left \in Int
    BY GraphicsAssumption
  <2> HIDE DEF left
  <2>2. \A p \in cell : p[1] \in Int /\ p[2] \in Int
    BY <2>1
  <2> HIDE DEF cell
  <2>3. draw_points(s, cell) \subseteq Visible(s)
    BY <2>2, PointsVisible
  <2> QED
    BY <2>3 DEF draw_font_fg, cell, left
<1> QED
  BY <1>1 DEF draw_str_fg

\* The test pattern, whether it fits or not.
LEMMA PatternVisible ==
  ASSUME NEW s \in [width : Nat, height : Nat, pixels_per_line : Nat]
  PROVE  draw_test_pattern(s).pixels \subseteq Visible(s)
<1> DEFINE w == 2 * Tile
           left == s.width - w - 1
           tile == [k \in 0..7 |-> fill_rect(s, left + ((k % 2) * Tile), (k \div 2) * Tile, Tile, Tile)]
           fine == { k \in 0..7 : \A j \in 0..k : tile[j].ok }
           tiles == UNION { tile[k].pixels : k \in fine }
           ends == {0, w} \X {0, w}
           lines == UNION { draw_line(s, left + a[1], a[2], left + b[1], b[2]) : a, b \in ends }
           text == draw_str_fg(s, left, Tile * 4, 10) \cup draw_str_fg(s, left, (Tile * 4) + GlyphH, 6)
<1>1. Tile \in Int /\ w \in Int /\ left \in Int /\ GlyphH \in Int
  BY GraphicsAssumption
<1> HIDE DEF w, left
<1>2. \A k \in 0..7 : tile[k].pixels \subseteq Visible(s)
  <2> SUFFICES ASSUME NEW k \in 0..7
               PROVE  tile[k].pixels \subseteq Visible(s)
    OBVIOUS
  <2>1. k % 2 \in Int /\ k \div 2 \in Int
    OBVIOUS
  <2>2. left + ((k % 2) * Tile) \in Int /\ (k \div 2) * Tile \in Int
    BY <1>1, <2>1
  <2> QED
    BY <2>2, <1>1, RectVisible
<1>3. tiles \subseteq Visible(s)
  BY <1>2
<1>4. lines \subseteq Visible(s)
  <2>1. \A a \in ends : left + a[1] \in Int /\ a[2] \in Int
    BY <1>1
  <2> HIDE DEF ends
  <2>2. \A a, b \in ends : draw_line(s, left + a[1], a[2], left + b[1], b[2]) \subseteq Visible(s)
    BY <2>1, LineVisible
  <2> QED
    BY <2>2
<1>5. text \subseteq Visible(s)
  <2>1. Tile * 4 \in Int /\ (Tile * 4) + GlyphH \in Int
    BY <1>1
  <2> QED
    BY <1>1, <2>1, StringVisible
<1> HIDE DEF tiles, lines, text, fine
<1>6. draw_test_pattern(s).pixels \in { tiles \cup lines \cup text, tiles }
  BY DEF draw_test_pattern, Drawing, w, left, tile, tiles, lines, text, fine, ends
<1> QED
  BY <1>3, <1>4, <1>5, <1>6

LEMMA VisibleInside == DrawStaysInside <=> drawn \subseteq Visible(screen)
BY DEF DrawStaysInside, Visible

\* Every step keeps what is drawn inside.
LEMMA ConsoleStateStep ==
  ASSUME ConsoleState, [TrapNext]_kernelVars
  PROVE  ConsoleState'
<1>1. /\ screen \in [width : Nat, height : Nat, pixels_per_line : Nat]
      /\ cursor \in [x : Nat, y : Nat] /\ drawn \subseteq Visible(screen)
      /\ screen \in Screens
  BY ConsoleAssumption, VisibleInside DEF ConsoleState
<1>2. screen' = screen
  BY DEF TrapNext, CpuRuns, KernelTraps, KernelPanics, AtRest, kernelVars, consoleVars, ConsoleStep,
         SendSerial, Lock, write_str, DrawTestPattern, init_display, Draw, set_global_vram,
         init_exceptions, exit_qemu, Deliver, Step, FxsaveFaults, CallInthandler, ReadBytes,
         InthandlerPanics, InthandlerReturns, Iretq
<1>3. cursor' = cursor \/ write_str
  BY DEF TrapNext, CpuRuns, KernelTraps, KernelPanics, AtRest, kernelVars, consoleVars, ConsoleStep,
         SendSerial, Lock, DrawTestPattern, init_display, Draw, set_global_vram,
         init_exceptions, exit_qemu, Deliver, Step, FxsaveFaults, CallInthandler, ReadBytes,
         InthandlerPanics, InthandlerReturns, Iretq
<1>4. drawn' = drawn \/ write_str \/ DrawTestPattern \/ init_display
  BY DEF TrapNext, CpuRuns, KernelTraps, KernelPanics, AtRest, kernelVars, consoleVars, ConsoleStep,
         SendSerial, Lock, set_global_vram,
         init_exceptions, exit_qemu, Deliver, Step, FxsaveFaults, CallInthandler, ReadBytes,
         InthandlerPanics, InthandlerReturns, Iretq
<1>5. cursor' \in [x : Nat, y : Nat]
  <2>1. LineLength * GlyphW \in Nat /\ GlyphH \in Nat
    BY ConsoleAssumption, GraphicsAssumption, SMT
  <2> QED
    BY <1>1, <1>3, <2>1 DEF write_str
<1>6. drawn' \subseteq Visible(screen)
  <2>1. CASE write_str
    BY <2>1, <1>1, StringVisible, ConsoleAssumption DEF write_str
  <2>2. CASE DrawTestPattern
    BY <2>2, <1>1, PatternVisible DEF DrawTestPattern, Draw
  <2>3. CASE init_display
    <3>1. fill_rect(screen, 0, 0, screen.width, screen.height).pixels \subseteq Visible(screen)
      <4>1. screen.width \in Int /\ screen.height \in Int /\ 0 \in Int
        BY <1>1
      <4> QED
        BY <1>1, <4>1, RectVisible
    <3>2. drawn' = fill_rect(screen, 0, 0, screen.width, screen.height).pixels
                     \cup draw_test_pattern(screen).pixels
      BY <2>3 DEF init_display, Draw, Drawing
    <3> QED
      BY <1>1, <3>1, <3>2, PatternVisible
  <2> QED
    BY <1>1, <1>4, <2>1, <2>2, <2>3
<1>7. (DrawStaysInside)'
  <2>1. drawn' \subseteq Visible(screen')
    BY <1>2, <1>6
  <2> QED
    BY <2>1, VisibleInside DEF DrawStaysInside, Visible
<1> QED
  BY <1>1, <1>2, <1>5, <1>7 DEF ConsoleState

\* Whatever is drawn, on every screen and with every size of characters, text
\* and test pattern, stays inside the visible part of the frame buffer.
THEOREM DrawingStaysInside == TrapSpec => []DrawStaysInside
<1>1. TrapInit => ConsoleState
  BY DEF TrapInit, ConsoleInit, ConsoleState, DrawStaysInside
<1>2. ConsoleState /\ [TrapNext]_kernelVars => ConsoleState'
  BY ConsoleStateStep
<1>3. ConsoleState => DrawStaysInside
  BY DEF ConsoleState
<1> QED
  BY <1>1, <1>2, <1>3, PTL DEF TrapSpec

-----------------------------------------------------------------------------
(* What the CPU finds in the tables.                                       *)

LEMMA FieldBit ==
  ASSUME NEW x \in SUBSET Int, NEW at \in Int, NEW b \in Int
  PROVE  b \in Field(x, at) <=> b - at \in x /\ b \in 0..127
<1>1. ASSUME b \in Field(x, at) PROVE b - at \in x /\ b \in 0..127
  BY <1>1 DEF Field, Shl, Mask
<1>2. ASSUME b - at \in x, b \in 0..127 PROVE b \in Field(x, at)
  <2>1. b = (b - at) + at
    OBVIOUS
  <2> QED
    BY <1>2, <2>1 DEF Field, Shl, Mask
<1> QED
  BY <1>1, <1>2

LEMMA CutBit ==
  ASSUME NEW x \in SUBSET Int, NEW from \in Nat, NEW width \in Nat, NEW b \in Int
  PROVE  b \in Cut(x, from, width) <=> b + from \in x /\ b \in 0..(width - 1)
<1>1. ASSUME b \in Cut(x, from, width) PROVE b + from \in x /\ b \in 0..(width - 1)
  BY <1>1 DEF Cut, Shr, Mask
<1>2. ASSUME b + from \in x, b \in 0..(width - 1) PROVE b \in Cut(x, from, width)
  <2>1. b = (b + from) - from /\ b + from >= from
    BY <1>2
  <2> QED
    BY <1>2, <2>1 DEF Cut, Shr, Mask
<1> QED
  BY <1>1, <1>2

\* Words of up to 64 bits shifted left.
LEMMA ShlBit ==
  ASSUME NEW x \in SUBSET Int, NEW n \in Int, NEW b \in Int
  PROVE  b \in Shl(x, n, 64) <=> b - n \in x /\ b \in 0..63
<1>1. ASSUME b \in Shl(x, n, 64) PROVE b - n \in x /\ b \in 0..63
  BY <1>1 DEF Shl, Mask
<1>2. ASSUME b - n \in x, b \in 0..63 PROVE b \in Shl(x, n, 64)
  <2>1. b = (b - n) + n
    OBVIOUS
  <2> QED
    BY <1>2, <2>1 DEF Shl, Mask
<1> QED
  BY <1>1, <1>2

LEMMA CutIsWord ==
  ASSUME NEW x \in SUBSET Int, NEW from \in Nat, NEW width \in Nat
  PROVE  Cut(x, from, width) \in SUBSET Int
BY DEF Cut, Mask

LEMMA SameBits ==
  ASSUME NEW x \in SUBSET Int, NEW y \in SUBSET Int, \A b \in Int : b \in x <=> b \in y
  PROVE  x = y
BY Zenon

\* Which bits of a gate are set.
LEMMA GateBits ==
  ASSUME NEW sel \in SUBSET (0..15), NEW ist \in SUBSET (0..7), NEW attr \in SUBSET (0..7),
         NEW f \in SUBSET (0..63), NEW b \in Int
  PROVE  b \in IdtDescriptor(sel, ist, attr, f) <=>
           \/ b \in 0..15 /\ b \in f
           \/ b \in 16..31 /\ b - 16 \in sel
           \/ b \in 32..39 /\ b - 32 \in ist
           \/ b \in 40..47 /\ b - 40 \in attr
           \/ b \in 48..63 /\ b - 32 \in f
           \/ b \in 64..95 /\ b - 32 \in f
<1>1. f \in SUBSET Int /\ sel \in SUBSET Int /\ ist \in SUBSET Int /\ attr \in SUBSET Int
  OBVIOUS
<1>2. b \in Field(sel, 16) <=> b \in 16..31 /\ b - 16 \in sel
  BY <1>1, FieldBit
<1>3. b \in Field(ist, 32) <=> b \in 32..39 /\ b - 32 \in ist
  BY <1>1, FieldBit
<1>4. b \in Field(attr, 40) <=> b \in 40..47 /\ b - 40 \in attr
  BY <1>1, FieldBit
<1>5. b \in Field(Cut(f, 0, 16), 0) <=> b \in 0..15 /\ b \in f
  <2>1. b \in Field(Cut(f, 0, 16), 0) <=> b - 0 \in Cut(f, 0, 16) /\ b \in 0..127
    BY <1>1, FieldBit, CutIsWord
  <2>2. b - 0 \in Cut(f, 0, 16) <=> b \in f /\ b \in 0..15
    BY <1>1, CutBit
  <2> QED
    BY <2>1, <2>2
<1>6. b \in Field(Cut(f, 16, 16), 48) <=> b \in 48..63 /\ b - 32 \in f
  <2>1. b \in Field(Cut(f, 16, 16), 48) <=> b - 48 \in Cut(f, 16, 16) /\ b \in 0..127
    BY <1>1, FieldBit, CutIsWord
  <2>2. b - 48 \in Cut(f, 16, 16) <=> (b - 48) + 16 \in f /\ b - 48 \in 0..15
    BY <1>1, CutBit
  <2> QED
    BY <2>1, <2>2
<1>7. b \in Field(Cut(f, 32, 32), 64) <=> b \in 64..95 /\ b - 32 \in f
  <2>1. b \in Field(Cut(f, 32, 32), 64) <=> b - 64 \in Cut(f, 32, 32) /\ b \in 0..127
    BY <1>1, FieldBit, CutIsWord
  <2>2. b - 64 \in Cut(f, 32, 32) <=> (b - 64) + 32 \in f /\ b - 64 \in 0..31
    BY <1>1, CutBit
  <2> QED
    BY <2>1, <2>2
<1> QED
  BY <1>2, <1>3, <1>4, <1>5, <1>6, <1>7 DEF IdtDescriptor

\* The CPU reads from a gate what Idt::new has put into it.
LEMMA GateRead ==
  ASSUME NEW sel \in SUBSET (0..15), NEW ist \in SUBSET (0..2), NEW attr \in SUBSET (0..7),
         NEW f \in SUBSET (0..63), NEW g, g = IdtDescriptor(sel, ist, attr, f)
  PROVE  /\ Cut(g, 16, 16) = sel
         /\ Cut(g, 32, 3) = ist
         /\ Cut(g, 40, 4) = attr \cap 0..3
         /\ 47 \in g <=> 7 \in attr
         /\ GateAddress(g) = f
<1>1. ist \in SUBSET (0..7) /\ ist \in SUBSET Int /\ sel \in SUBSET Int /\ f \in SUBSET Int
      /\ attr \cap 0..3 \in SUBSET Int
  OBVIOUS
<1>2. g \in SUBSET Int
  BY DEF IdtDescriptor, Field, Shl, Mask
<1>3. ASSUME NEW b \in Int
      PROVE  b \in g <=> \/ b \in 0..15 /\ b \in f
                         \/ b \in 16..31 /\ b - 16 \in sel
                         \/ b \in 32..39 /\ b - 32 \in ist
                         \/ b \in 40..47 /\ b - 40 \in attr
                         \/ b \in 48..63 /\ b - 32 \in f
                         \/ b \in 64..95 /\ b - 32 \in f
  BY <1>1, GateBits
<1>4. Cut(g, 16, 16) = sel
  <2>1. \A b \in Int : b \in Cut(g, 16, 16) <=> b \in sel
    <3> TAKE b \in Int
    <3>1. b \in Cut(g, 16, 16) <=> b + 16 \in g /\ b \in 0..15
      BY <1>2, CutBit
    <3>2. b + 16 \in Int /\ (b + 16) - 16 = b
      OBVIOUS
    <3>3. b \in 0..15 => (b + 16 \in g <=> b \in sel)
      BY <3>2, <1>3
    <3> QED
      BY <3>1, <3>3
  <2>2. Cut(g, 16, 16) \in SUBSET Int
    BY <1>2, CutIsWord
  <2> QED
    BY <1>1, <2>1, <2>2, SameBits
<1>5. Cut(g, 32, 3) = ist
  <2>1. \A b \in Int : b \in Cut(g, 32, 3) <=> b \in ist
    <3> TAKE b \in Int
    <3>1. b \in Cut(g, 32, 3) <=> b + 32 \in g /\ b \in 0..2
      BY <1>2, CutBit
    <3>2. b + 32 \in Int /\ (b + 32) - 32 = b
      OBVIOUS
    <3>3. b \in 0..2 => (b + 32 \in g <=> b \in ist)
      BY <3>2, <1>3
    <3> QED
      BY <3>1, <3>3
  <2>2. Cut(g, 32, 3) \in SUBSET Int
    BY <1>2, CutIsWord
  <2> QED
    BY <1>1, <2>1, <2>2, SameBits
<1>6. Cut(g, 40, 4) = attr \cap 0..3
  <2>1. \A b \in Int : b \in Cut(g, 40, 4) <=> b \in attr \cap 0..3
    <3> TAKE b \in Int
    <3>1. b \in Cut(g, 40, 4) <=> b + 40 \in g /\ b \in 0..3
      BY <1>2, CutBit
    <3>2. b + 40 \in Int /\ (b + 40) - 40 = b
      OBVIOUS
    <3>3. b \in 0..3 => (b + 40 \in g <=> b \in attr)
      BY <3>2, <1>3
    <3> QED
      BY <3>1, <3>3
  <2>2. Cut(g, 40, 4) \in SUBSET Int
    BY <1>2, CutIsWord
  <2> QED
    BY <1>1, <2>1, <2>2, SameBits
<1>7. 47 \in g <=> 7 \in attr
  BY <1>3
<1>8. GateAddress(g) = f
  <2> DEFINE high == Cut(g, 48, 48)
  <2>1. high \in SUBSET Int
    BY <1>2, CutIsWord
  <2>2. \A b \in Int : b \in GateAddress(g) <=> b \in f
    <3> TAKE b \in Int
    <3>1. b \in Cut(g, 0, 16) <=> b + 0 \in g /\ b \in 0..15
      BY <1>2, CutBit
    <3>2. b \in Shl(high, 16, 64) <=> b - 16 \in high /\ b \in 0..63
      BY <2>1, ShlBit
    <3>3. b - 16 \in high <=> (b - 16) + 48 \in g /\ b - 16 \in 0..47
      BY <1>2, CutBit
    <3>4. (b - 16) + 48 = b + 32 /\ b + 0 = b
      OBVIOUS
    <3>5. b \in 0..15 => (b \in g <=> b \in f)
      BY <1>3
    <3>6. b \in 16..63 => (b + 32 \in g <=> b \in f)
      <4>1. b + 32 \in Int /\ (b + 32) - 32 = b
        OBVIOUS
      <4> QED
        BY <4>1, <1>3
    <3>7. b \in GateAddress(g) <=> (b \in g /\ b \in 0..15) \/ (b + 32 \in g /\ b \in 16..63)
      BY <3>1, <3>2, <3>3, <3>4 DEF GateAddress
    <3> QED
      BY <3>5, <3>6, <3>7
  <2>3. GateAddress(g) \in SUBSET Int
    BY <1>2, CutIsWord DEF GateAddress, Shl, Mask
  <2> QED
    BY <1>1, <2>2, <2>3, SameBits
<1> QED
  BY <1>4, <1>5, <1>6, <1>7, <1>8

\* The base of the task state segment is put together from the parts it was
\* taken apart into.
LEMMA TssFound == BaseOf(Gdt(TSS64_SEL)) = TssAddress
<1> DEFINE a == TssAddress
           d == TaskStateSegment64Descriptor(a)
<1>1. a \in SUBSET (0..63) /\ a \in SUBSET Int
  BY DEF TssAddress
<1> HIDE DEF a
<1>2. d \in SUBSET Int
  BY DEF TaskStateSegment64Descriptor, Field, Shl, Mask
<1>3. ASSUME NEW b \in 16..95
      PROVE  b \in d <=> \/ b \in 16..39 /\ b - 16 \in a
                         \/ b \in {40, 43, 47, 55}
                         \/ b \in 56..95 /\ b - 32 \in a
  <2>1. b \notin Field(Bin(104), 0)
    <3>1. Bin(104) \in SUBSET (0..7)
      BY BinaryNotation
    <3>2. Bin(104) \in SUBSET Int
      BY <3>1
    <3>3. b \in Field(Bin(104), 0) => b - 0 \in Bin(104)
      BY <3>2, FieldBit
    <3> QED
      BY <3>1, <3>3
  <2>2. b \in Field(Cut(a, 0, 16), 16) <=> b \in 16..31 /\ b - 16 \in a
    <3>1. b \in Field(Cut(a, 0, 16), 16) <=> b - 16 \in Cut(a, 0, 16) /\ b \in 0..127
      BY <1>1, FieldBit, CutIsWord
    <3>2. b - 16 \in Cut(a, 0, 16) <=> (b - 16) + 0 \in a /\ b - 16 \in 0..15
      BY <1>1, CutBit
    <3> QED
      BY <3>1, <3>2
  <2>3. b \in Field(Cut(a, 16, 8), 32) <=> b \in 32..39 /\ b - 16 \in a
    <3>1. b \in Field(Cut(a, 16, 8), 32) <=> b - 32 \in Cut(a, 16, 8) /\ b \in 0..127
      BY <1>1, FieldBit, CutIsWord
    <3>2. b - 32 \in Cut(a, 16, 8) <=> (b - 32) + 16 \in a /\ b - 32 \in 0..7
      BY <1>1, CutBit
    <3> QED
      BY <3>1, <3>2
  <2>4. b \in Field({0, 3, 7, 15}, 40) <=> b \in {40, 43, 47, 55}
    <3>1. b \in Field({0, 3, 7, 15}, 40) <=> b - 40 \in {0, 3, 7, 15} /\ b \in 0..127
      BY FieldBit
    <3> QED
      BY <3>1
  <2>5. b \in Field(Cut(a, 24, 8), 56) <=> b \in 56..63 /\ b - 32 \in a
    <3>1. b \in Field(Cut(a, 24, 8), 56) <=> b - 56 \in Cut(a, 24, 8) /\ b \in 0..127
      BY <1>1, FieldBit, CutIsWord
    <3>2. b - 56 \in Cut(a, 24, 8) <=> (b - 56) + 24 \in a /\ b - 56 \in 0..7
      BY <1>1, CutBit
    <3> QED
      BY <3>1, <3>2
  <2>6. b \in Field(Cut(a, 32, 32), 64) <=> b \in 64..95 /\ b - 32 \in a
    <3>1. b \in Field(Cut(a, 32, 32), 64) <=> b - 64 \in Cut(a, 32, 32) /\ b \in 0..127
      BY <1>1, FieldBit, CutIsWord
    <3>2. b - 64 \in Cut(a, 32, 32) <=> (b - 64) + 32 \in a /\ b - 64 \in 0..31
      BY <1>1, CutBit
    <3> QED
      BY <3>1, <3>2
  <2> QED
    BY <2>1, <2>2, <2>3, <2>4, <2>5, <2>6 DEF TaskStateSegment64Descriptor
<1> HIDE DEF d
<1> DEFINE high == Cut(d, 56, 40)
<1>4. high \in SUBSET Int
  BY <1>2, CutIsWord
<1>5. \A b \in Int : b \in BaseOf(d) <=> b \in a
  <2> TAKE b \in Int
  <2>1. b \in Cut(d, 16, 24) <=> b + 16 \in d /\ b \in 0..23
    BY <1>2, CutBit
  <2>2. b \in Shl(high, 24, 64) <=> b - 24 \in high /\ b \in 0..63
    BY <1>4, ShlBit
  <2>3. b - 24 \in high <=> (b - 24) + 56 \in d /\ b - 24 \in 0..39
    BY <1>2, CutBit
  <2>4. (b - 24) + 56 = b + 32 /\ (b + 16) - 16 = b /\ (b + 32) - 32 = b
    OBVIOUS
  <2>5. b \in BaseOf(d) <=> (b + 16 \in d /\ b \in 0..23) \/ (b + 32 \in d /\ b \in 24..63)
    BY <2>1, <2>2, <2>3, <2>4 DEF BaseOf
  <2>6. b \in 0..23 => (b + 16 \in d <=> b \in a)
    BY <2>4, <1>3
  <2>7. b \in 24..63 => (b + 32 \in d <=> b \in a)
    BY <2>4, <1>3
  <2> QED
    BY <2>5, <2>6, <2>7, <1>1
<1>6. BaseOf(d) \in SUBSET Int
  BY <1>2, CutIsWord DEF BaseOf, Shl, Mask
<1>7. BaseOf(d) = a
  BY <1>1, <1>5, <1>6, SameBits
<1>8. Gdt(TSS64_SEL) = d
  BY DEF Gdt, TSS64_SEL, KERNEL_CS, d, a
<1> QED
  BY <1>7, <1>8 DEF a

\* Distinct entry points have distinct addresses below 2^64.
LEMMA AddressFacts ==
  /\ \A e \in 0..255 : AddressOf(e) \in SUBSET (0..63)
  /\ \A e, f \in 0..255 : AddressOf(e) = AddressOf(f) => e = f
<1>1. \A e \in 0..255 : Bin(e) \subseteq 0..7 /\ Num(Bin(e)) = e
  BY BinaryNotation
<1>2. ASSUME NEW e \in 0..255
      PROVE  /\ AddressOf(e) \in SUBSET (0..63)
             /\ \A b \in Int : b \in Bin(e) <=> b \in 0..7 /\ b + 12 \in AddressOf(e)
  <2>1. Bin(e) \subseteq 0..7 /\ Bin(e) \in SUBSET Int
    BY <1>1
  <2>2. ASSUME NEW b \in Int
        PROVE  b \in Bin(e) <=> b \in 0..7 /\ b + 12 \in AddressOf(e)
    <3>1. b + 12 \in Shl(Bin(e), 12, 64) <=> (b + 12) - 12 \in Bin(e) /\ b + 12 \in 0..63
      BY <2>1, ShlBit
    <3>2. b \in 0..7 => b + 12 \notin {21, 34}
      OBVIOUS
    <3> QED
      BY <3>1, <3>2, <2>1 DEF AddressOf
  <2>3. AddressOf(e) \in SUBSET (0..63)
    BY DEF AddressOf, Shl, Mask
  <2> QED
    BY <2>2, <2>3
<1>3. ASSUME NEW e \in 0..255, NEW f \in 0..255, AddressOf(e) = AddressOf(f)
      PROVE  e = f
  <2>1. \A b \in Int : b \in Bin(e) <=> b \in Bin(f)
    BY <1>2, <1>3
  <2>2. Bin(e) \in SUBSET Int /\ Bin(f) \in SUBSET Int
    BY <1>1
  <2>3. Bin(e) = Bin(f)
    BY <2>1, <2>2, SameBits
  <2> QED
    BY <2>3, <1>1
<1> QED
  BY <1>2, <1>3

EntryOf(v) == IF v \in Entrypoints THEN v ELSE 0

\* Every gate is usable, leads to its own entry point and to a stack.
LEMMA GateSound ==
  ASSUME NEW i \in {1, 2}, NEW attr \in {IntGateDPL0, IntGateDPL3}, NEW e \in Entrypoints \cup {0},
         NEW g, g = IdtDescriptor(Bin(KERNEL_CS), Bin(i), attr, AddressOf(e))
  PROVE  IsUsable(g) /\ EntrypointAt(GateAddress(g)) = e /\ StackOf(g) = alloc_interrupt_stack(i)
<1>1. \A d \in Entrypoints \cup {0} : d \in 0..255
  BY DEF Entrypoints
<1>2. Bin(8) = {3} /\ Bin(14) = {1, 2, 3} /\ Bin(1) = {0} /\ Bin(2) = {1}
  BY BinaryNotation, Zenon
<1>3. Num(Bin(8)) = 8 /\ Num(Bin(i)) = i
  <2>1. \A n \in 0..1023 : Num(Bin(n)) = n
    BY BinaryNotation
  <2>2. 8 \in 0..1023
    OBVIOUS
  <2>3. i \in 0..1023
    OBVIOUS
  <2> QED
    BY <2>1, <2>2, <2>3
<1>4. PICK sel, ist, f : sel = Bin(8) /\ ist = Bin(i) /\ f = AddressOf(e)
  OBVIOUS
<1>5. sel \in SUBSET (0..15) /\ ist \in SUBSET (0..2)
  BY <1>2, <1>4
<1>6. attr \in SUBSET (0..7) /\ attr \cap 0..3 = {1, 2, 3} /\ 7 \in attr
  BY DEF IntGateDPL0, IntGateDPL3
<1>7. f \in SUBSET (0..63)
  <2>1. \A d \in 0..255 : AddressOf(d) \in SUBSET (0..63)
    BY AddressFacts
  <2>2. e \in 0..255
    BY <1>1
  <2> QED
    BY <2>1, <2>2, <1>4
<1>8. g = IdtDescriptor(sel, ist, attr, f)
  BY <1>4 DEF KERNEL_CS
<1>9. /\ Cut(g, 16, 16) = sel /\ Cut(g, 32, 3) = ist /\ Cut(g, 40, 4) = attr \cap 0..3
      /\ (47 \in g <=> 7 \in attr) /\ GateAddress(g) = f
  BY <1>5, <1>6, <1>7, <1>8, GateRead
<1>10. IsUsable(g)
  <2>1. Gdt(Num(Cut(g, 16, 16))) = KernelCode
    <3>1. Num(Cut(g, 16, 16)) = 8
      BY <1>9, <1>4, <1>3
    <3>2. Gdt(8) = KernelCode
      BY DEF Gdt, KERNEL_CS, TSS64_SEL
    <3> QED
      BY <3>1, <3>2
  <2>2. 47 \in g /\ Cut(g, 40, 4) = Bin(14)
    BY <1>9, <1>6, <1>2
  <2>3. {43, 44, 47, 53} \subseteq KernelCode
    BY DEF KernelCode
  <2> QED
    BY <2>1, <2>2, <2>3 DEF IsUsable
<1>11. EntrypointAt(GateAddress(g)) = e
  <2>1. \A d \in Entrypoints \cup {0} : AddressOf(d) = AddressOf(e) => d = e
    <3>1. \A d, h \in 0..255 : AddressOf(d) = AddressOf(h) => d = h
      BY AddressFacts
    <3> QED
      BY <3>1, <1>1, Zenon
  <2> QED
    BY <1>9, <1>4, <2>1 DEF EntrypointAt
<1>12. StackOf(g) = alloc_interrupt_stack(i)
  <2>1. StackOf(g) = Tss[36 + 8 * (Num(Cut(g, 32, 3)) - 1)]
    BY TssFound DEF StackOf
  <2>2. 36 + 8 * (Num(Cut(g, 32, 3)) - 1) = IstOffset(i)
    BY <1>9, <1>4, <1>3 DEF IstOffset
  <2>3. i \in 1..7
    OBVIOUS
  <2>4. \A n \in 1..7 : IstOffset(n) = IstOffset(i) => n = i
    BY <2>3 DEF IstOffset
  <2>5. (CHOOSE n \in 1..7 : IstOffset(n) = IstOffset(i)) = i
    BY <2>3, <2>4
  <2>6. Tss[IstOffset(i)] = alloc_interrupt_stack(i)
    BY <2>3, <2>5 DEF Tss
  <2> QED
    BY <2>1, <2>2, <2>6
<1> QED
  BY <1>10, <1>11, <1>12

LEMMA GateFacts ==
  ASSUME NEW v \in 0..255
  PROVE  /\ IsUsable(Idt(v))
         /\ EntrypointAt(GateAddress(Idt(v))) = EntryOf(v)
         /\ StackOf(Idt(v)) = alloc_interrupt_stack(IF v = 8 THEN 2 ELSE 1)
<1>1. PICK i \in {1, 2} : i = IF v = 8 THEN 2 ELSE 1
  OBVIOUS
<1>2. PICK attr \in {IntGateDPL0, IntGateDPL3} : attr = IF v = 3 THEN IntGateDPL3 ELSE IntGateDPL0
  OBVIOUS
<1>3. EntryOf(v) \in Entrypoints \cup {0}
  BY DEF EntryOf
<1>4. Idt(v) = IdtDescriptor(Bin(KERNEL_CS), Bin(i), attr, AddressOf(EntryOf(v)))
  BY <1>1, <1>2 DEF Idt, EntryOf
<1>5. /\ IsUsable(Idt(v)) /\ EntrypointAt(GateAddress(Idt(v))) = EntryOf(v)
      /\ StackOf(Idt(v)) = alloc_interrupt_stack(i)
  BY <1>3, <1>4, GateSound
<1> QED
  BY <1>1, <1>5

\* The same of the gates the CPU uses.
LEMMA GatesRight ==
  ASSUME NEW v \in Vectors \cup {13, 14}
  PROVE  /\ Gates[v].usable /\ Gates[v].entry = EntryOf(v)
         /\ StackTop(v) \in Int /\ StackTop(v) % 2 = 0
<1>1. v \in 0..255
  BY VectorAssumption
<1>2. Gates[v] = [usable |-> IsUsable(Idt(v)), entry |-> EntrypointAt(GateAddress(Idt(v))),
                  stack |-> StackOf(Idt(v))]
  BY DEF Gates
<1>3. Gates[v].stack \in Int
  BY <1>1, <1>2, GateFacts DEF alloc_interrupt_stack
<1>4. StackTop(v) \in Int /\ StackTop(v) % 2 = 0
  BY <1>3 DEF StackTop, Align
<1> QED
  BY <1>1, <1>2, <1>4, GateFacts

-----------------------------------------------------------------------------
(* The code, place by place.                                               *)

IsSequence(s, n) == s \in Seq({ s[i] : i \in 1..n }) /\ Len(s) = n

LEMMA SequenceFrom ==
  ASSUME NEW n \in Nat, NEW s, s = [i \in 1..n |-> s[i]]
  PROVE  IsSequence(s, n)
<1> DEFINE S == { s[i] : i \in 1..n }
<1>1. s \in [1..n -> S]
  OBVIOUS
<1> HIDE DEF S
<1>2. s \in Seq(S) /\ Len(s) = n
  BY <1>1
<1> QED
  BY <1>2 DEF S, IsSequence

\* Concatenation, whatever the elements are.
Joined(c, s, m, t, n) ==
  /\ IsSequence(c, m + n)
  /\ \A i \in 1..m : c[i] = s[i]
  /\ \A i \in 1..n : c[m + i] = t[i]

LEMMA ConcatAt ==
  ASSUME NEW m \in Nat, NEW n \in Nat, NEW s, NEW t, IsSequence(s, m), IsSequence(t, n)
  PROVE  Joined(s \o t, s, m, t, n)
<1> DEFINE S == { s[i] : i \in 1..m }
           T == { t[i] : i \in 1..n }
           U == S \cup T
           c == s \o t
<1>1. s \in Seq(U) /\ t \in Seq(U) /\ Len(s) = m /\ Len(t) = n
  <2>1. s \in Seq(S) /\ t \in Seq(T) /\ Len(s) = m /\ Len(t) = n
    BY DEF IsSequence
  <2> HIDE DEF S, T
  <2> QED
    BY <2>1
<1> HIDE DEF S, T, U
<1>2. /\ c \in Seq(U) /\ Len(c) = m + n
      /\ \A i \in 1..(m + n) : c[i] = IF i <= m THEN s[i] ELSE t[i - m]
  BY <1>1
<1> HIDE DEF c
<1>3. \A i \in 1..n : c[m + i] = t[i]
  <2> TAKE i \in 1..n
  <2>1. m + i \in 1..(m + n) /\ ~(m + i <= m) /\ (m + i) - m = i
    OBVIOUS
  <2> QED
    BY <2>1, <1>2
<1>4. \A i \in 1..m : c[i] = s[i]
  BY <1>2
<1>5. IsSequence(c, m + n)
  <2>1. c = [i \in 1..(m + n) |-> c[i]]
    BY <1>2
  <2>2. m + n \in Nat
    OBVIOUS
  <2> QED
    BY <2>1, <2>2, SequenceFrom
<1>6. Joined(c, s, m, t, n)
  BY <1>3, <1>4, <1>5 DEF Joined
<1> QED
  BY <1>6 DEF c

\* From the allocation of fpu_context to its end.
Middle ==
  << <<"add rsp", -FpuSpace>>, <<"fxsave64">>,
     <<"mov", "rdi", "rsp">>, <<"mov", "rbp", "rsp">>, <<"and rsp, -16">>, <<"mov", "rsi", "rcx">>,
     <<"call">>,
     <<"mov", "rsp", "rbp">>, <<"fxrstor64">>, <<"add rsp", FpuSpace>> >>
Final == << <<"pop", "rcx">>, <<"add rsp", 1>>, <<"iretq">> >>

\* The instruction at place n of inthandler_common.
CommonIs(n, i) ==
  /\ n \in 1..14 => i = <<"push", Greg[15 - n]>>
  /\ n \in 15..24 => i = Middle[n - 14]
  /\ n \in 25..38 => i = <<"pop", Greg[n - 24]>>
  /\ n \in 39..41 => i = Final[n - 38]

LEMMA SavedAt == \A i \in 1..14 : Saved[i] = Greg[i]
BY DEF Saved, Greg

LEMMA CommonCode ==
  IsSequence(inthandler_common, 41) /\ \A n \in 1..41 : CommonIs(n, inthandler_common[n])
<1> DEFINE a == PushAll
<1>1. IsSequence(a, 14) /\ \A n \in 1..14 : a[n] = <<"push", Greg[15 - n]>>
  <2>1. a = [n \in 1..14 |-> a[n]]
    BY DEF PushAll
  <2>2. \A n \in 1..14 : a[n] = <<"push", Greg[15 - n]>>
    <3> TAKE n \in 1..14
    <3>1. a[n] = <<"push", Saved[15 - n]>>
      BY DEF PushAll
    <3>2. 15 - n \in 1..14
      OBVIOUS
    <3> QED
      BY <3>1, <3>2, SavedAt
  <2> QED
    BY <2>1, <2>2, SequenceFrom
<1>2. IsSequence(Restore, 14) /\ \A n \in 1..14 : Restore[n] = <<"pop", Greg[n]>>
  <2>1. Restore = [n \in 1..14 |-> Restore[n]]
    BY DEF Restore, PopAll
  <2>2. \A n \in 1..14 : Restore[n] = <<"pop", Greg[n]>>
    BY SavedAt DEF Restore, PopAll
  <2> QED
    BY <2>1, <2>2, SequenceFrom
<1>3. IsSequence(Middle, 10)
  <2>1. Middle = [n \in 1..10 |-> Middle[n]]
    BY DEF Middle
  <2> QED
    BY <2>1, SequenceFrom
<1>4. IsSequence(Final, 3)
  <2>1. Final = [n \in 1..3 |-> Final[n]]
    BY DEF Final
  <2> QED
    BY <2>1, SequenceFrom
<1> HIDE DEF a
<1> DEFINE b == a \o Middle
           d == b \o Restore
           e == d \o Final
<1>5. Joined(b, a, 14, Middle, 10)
  <2>1. IsSequence(a, 14) /\ IsSequence(Middle, 10)
    BY <1>1, <1>3
  <2> QED
    BY <2>1, ConcatAt
<1>6. Joined(d, b, 24, Restore, 14)
  <2>1. IsSequence(b, 24) /\ IsSequence(Restore, 14)
    BY <1>2, <1>5 DEF Joined
  <2> HIDE DEF b
  <2> QED
    BY <2>1, ConcatAt
<1>7. Joined(e, d, 38, Final, 3)
  <2>1. IsSequence(d, 38) /\ IsSequence(Final, 3)
    BY <1>4, <1>6 DEF Joined
  <2> HIDE DEF d
  <2> QED
    BY <2>1, ConcatAt
<1> HIDE DEF b, d, e
<1>8. ASSUME NEW n \in 1..41
      PROVE  CommonIs(n, e[n])
  <2>1. CASE n \in 1..14
    <3>1. e[n] = a[n]
      BY <2>1, <1>5, <1>6, <1>7 DEF Joined
    <3> QED
      BY <2>1, <3>1, <1>1 DEF CommonIs
  <2>2. CASE n \in 15..24
    <3>1. n - 14 \in 1..10 /\ 14 + (n - 14) = n
      BY <2>2
    <3>2. e[n] = Middle[n - 14]
      BY <2>2, <3>1, <1>5, <1>6, <1>7 DEF Joined
    <3> QED
      BY <2>2, <3>2 DEF CommonIs
  <2>3. CASE n \in 25..38
    <3>1. n - 24 \in 1..14 /\ 24 + (n - 24) = n
      BY <2>3
    <3>2. e[n] = Restore[n - 24]
      BY <2>3, <3>1, <1>6, <1>7 DEF Joined
    <3> QED
      BY <2>3, <3>1, <3>2, <1>2 DEF CommonIs
  <2>4. CASE n \in 39..41
    <3>1. n - 38 \in 1..3 /\ 38 + (n - 38) = n
      BY <2>4
    <3>2. e[n] = Final[n - 38]
      BY <3>1, <1>7 DEF Joined
    <3> QED
      BY <2>4, <3>2 DEF CommonIs
  <2> QED
    BY <2>1, <2>2, <2>3, <2>4
<1>9. inthandler_common = e
  BY DEF inthandler_common, e, d, b, a, Middle, Final
<1> QED
  BY <1>7, <1>8, <1>9 DEF Joined

\* The code of an entry point and of inthandler_common behind it.
InstructionIs(n, v, i) ==
  /\ n = -2 => i = <<"push 0">>
  /\ n = -1 => i = <<"push", "rcx">>
  /\ n = 0 => i = <<"load", "rcx", v>>
  /\ n \in 1..41 => CommonIs(n, i)

LEMMA CodeAt ==
  ASSUME NEW v
  PROVE  /\ IsSequence(Code(v), EntryLength(v) + 41)
         /\ \A n \in (1 - EntryLength(v))..41 : InstructionIs(n, v, Code(v)[EntryLength(v) + n])
<1>1. CASE v \in WithEcode
  <2> DEFINE a == interrupt_entrypoint_with_ecode(v)
             c == a \o inthandler_common
  <2>1. IsSequence(a, 2)
    <3>1. a = [n \in 1..2 |-> a[n]]
      BY DEF interrupt_entrypoint_with_ecode
    <3> QED
      BY <3>1, SequenceFrom
  <2>2. a[1] = <<"push", "rcx">> /\ a[2] = <<"load", "rcx", v>>
    BY DEF interrupt_entrypoint_with_ecode
  <2> HIDE DEF a
  <2>3. Joined(c, a, 2, inthandler_common, 41)
    BY <2>1, CommonCode, ConcatAt
  <2> HIDE DEF c
  <2>4. ASSUME NEW n \in -1..41
        PROVE  InstructionIs(n, v, c[2 + n])
    <3>1. CASE n \in 1..41
      <4>1. c[2 + n] = inthandler_common[n]
        BY <3>1, <2>3 DEF Joined
      <4>2. QED
        <5>1. CommonIs(n, inthandler_common[n])
          BY <3>1, CommonCode
        <5>2. n # -2 /\ n # -1 /\ n # 0
          BY <3>1
        <5> QED
          BY <5>1, <5>2, <4>1, Zenon DEF InstructionIs
    <3>2. CASE n = 0
      <4>1. c[2 + n] = a[2]
        BY <3>2, <2>3 DEF Joined
      <4>2. c[2 + n] = <<"load", "rcx", v>>
        BY <4>1, <2>2
      <4>3. n # -2 /\ n # -1 /\ n \notin 1..41
        BY <3>2
      <4> QED
        BY <4>2, <4>3, Zenon DEF InstructionIs
    <3>3. CASE n = -1
      <4>1. c[2 + n] = a[1]
        BY <3>3, <2>3 DEF Joined
      <4>2. c[2 + n] = <<"push", "rcx">>
        BY <4>1, <2>2
      <4>3. n # -2 /\ n # 0 /\ n \notin 1..41
        BY <3>3
      <4> QED
        BY <4>2, <4>3, Zenon DEF InstructionIs
    <3> QED
      BY <3>1, <3>2, <3>3
  <2>5. Code(v) = c /\ EntryLength(v) = 2
    BY <1>1 DEF Code, EntryLength, c, a
  <2> QED
    BY <2>3, <2>4, <2>5 DEF Joined
<1>2. CASE v \notin WithEcode
  <2> DEFINE a == interrupt_entrypoint(v)
             c == a \o inthandler_common
  <2>1. IsSequence(a, 3)
    <3>1. a = [n \in 1..3 |-> a[n]]
      BY DEF interrupt_entrypoint
    <3> QED
      BY <3>1, SequenceFrom
  <2>2. a[1] = <<"push 0">> /\ a[2] = <<"push", "rcx">> /\ a[3] = <<"load", "rcx", v>>
    BY DEF interrupt_entrypoint
  <2> HIDE DEF a
  <2>3. Joined(c, a, 3, inthandler_common, 41)
    BY <2>1, CommonCode, ConcatAt
  <2> HIDE DEF c
  <2>4. ASSUME NEW n \in -2..41
        PROVE  InstructionIs(n, v, c[3 + n])
    <3>1. CASE n \in 1..41
      <4>1. c[3 + n] = inthandler_common[n]
        BY <3>1, <2>3 DEF Joined
      <4>2. QED
        <5>1. CommonIs(n, inthandler_common[n])
          BY <3>1, CommonCode
        <5>2. n # -2 /\ n # -1 /\ n # 0
          BY <3>1
        <5> QED
          BY <5>1, <5>2, <4>1, Zenon DEF InstructionIs
    <3>2. CASE n = 0
      <4>1. c[3 + n] = a[3]
        BY <3>2, <2>3 DEF Joined
      <4>2. c[3 + n] = <<"load", "rcx", v>>
        BY <4>1, <2>2
      <4>3. n # -2 /\ n # -1 /\ n \notin 1..41
        BY <3>2
      <4> QED
        BY <4>2, <4>3, Zenon DEF InstructionIs
    <3>3. CASE n = -1
      <4>1. c[3 + n] = a[2]
        BY <3>3, <2>3 DEF Joined
      <4>2. c[3 + n] = <<"push", "rcx">>
        BY <4>1, <2>2
      <4>3. n # -2 /\ n # 0 /\ n \notin 1..41
        BY <3>3
      <4> QED
        BY <4>2, <4>3, Zenon DEF InstructionIs
    <3>4. CASE n = -2
      <4>1. c[3 + n] = a[1]
        BY <3>4, <2>3 DEF Joined
      <4>2. c[3 + n] = <<"push 0">>
        BY <4>1, <2>2
      <4>3. n # -1 /\ n # 0 /\ n \notin 1..41
        BY <3>4
      <4> QED
        BY <4>2, <4>3, Zenon DEF InstructionIs
    <3> QED
      BY <3>1, <3>2, <3>3, <3>4
  <2>5. Code(v) = c /\ EntryLength(v) = 3
    BY <1>2 DEF Code, EntryLength, c, a
  <2> QED
    BY <2>3, <2>4, <2>5 DEF Joined
<1> QED
  BY <1>1, <1>2

\* What the CPU executes.
LEMMA CurrentInstruction ==
  ASSUME TrapType, ip > 0
  PROVE  /\ Place \in (1 - EntryLength(vector))..41
         /\ InstructionIs(Place, vector, Instruction)
<1>1. vector \in Entrypoints /\ vector \in Vectors \cup {13, 14} /\ Place <= 41
  BY DEF TrapType
<1>2. Gates[vector].entry = vector
  BY <1>1, GatesRight DEF EntryOf
<1>3. EntryLength(vector) \in {2, 3}
  BY DEF EntryLength
<1>4. Place \in (1 - EntryLength(vector))..41 /\ EntryLength(vector) + Place = ip
  BY <1>1, <1>3 DEF Place, TrapType
<1>5. Instruction = Code(vector)[EntryLength(vector) + Place]
  BY <1>2, <1>4 DEF Instruction
<1> QED
  BY <1>4, <1>5, CodeAt

-----------------------------------------------------------------------------
(* What instructions do.                                                   *)

LEMMA RegisterFacts ==
  /\ \A i \in 1..15 : Greg[i] \in RegisterNames /\ Greg[i] # "rsp"
  /\ \A i, j \in 1..15 : Greg[i] = Greg[j] => i = j
  /\ \A i \in 1..14 : Greg[i] # "rcx"
  /\ Greg[15] = "rcx"
  /\ {"rsp", "rcx", "rdi", "rsi", "rbp"} \subseteq RegisterNames
<1>1. /\ Greg[1] = "rax" /\ Greg[2] = "rdx" /\ Greg[3] = "rbx" /\ Greg[4] = "rbp" /\ Greg[5] = "rsi"
      /\ Greg[6] = "rdi" /\ Greg[7] = "r8" /\ Greg[8] = "r9" /\ Greg[9] = "r10" /\ Greg[10] = "r11"
      /\ Greg[11] = "r12" /\ Greg[12] = "r13" /\ Greg[13] = "r14" /\ Greg[14] = "r15" /\ Greg[15] = "rcx"
      /\ DOMAIN Greg = 1..15
  BY DEF Greg
<1>2. \A i \in 1..15 : Greg[i] # "rsp"
  BY <1>1
<1>3. \A i, j \in 1..15 : Greg[i] = Greg[j] => i = j
  BY <1>1
<1>4. \A i \in 1..14 : Greg[i] # "rcx"
  BY <1>1
<1>5. \A i \in 1..15 : Greg[i] \in RegisterNames
  BY <1>1 DEF RegisterNames
<1>6. {"rsp", "rcx", "rdi", "rsi", "rbp"} \subseteq RegisterNames
  <2>1. Greg[15] \in RegisterNames /\ Greg[4] \in RegisterNames /\ Greg[5] \in RegisterNames /\ Greg[6] \in RegisterNames
    BY <1>5
  <2>2. "rsp" \in RegisterNames
    BY DEF RegisterNames
  <2> QED
    BY <1>1, <2>1, <2>2
<1> QED
  BY <1>1, <1>2, <1>3, <1>4, <1>5, <1>6

LEMMA PushWordIs ==
  ASSUME NEW c, Shape(c), NEW w
  PROVE  LET d == PushWord(c, w)
             a == c.r["rsp"] - 1
         IN  /\ Shape(d) /\ d.fpu = c.fpu
             /\ d.r["rsp"] = a
             /\ \A x \in RegisterNames \ {"rsp"} : d.r[x] = c.r[x]
             /\ a \in DOMAIN d.mem /\ d.mem[a] = w
             /\ \A b \in DOMAIN c.mem : b \in DOMAIN d.mem /\ (b # a => d.mem[b] = c.mem[b])
<1> DEFINE a == c.r["rsp"] - 1
           m == Store(c.mem, a, w)
<1>1. a \in DOMAIN m /\ m[a] = w /\ \A b \in DOMAIN c.mem : b \in DOMAIN m /\ (b # a => m[b] = c.mem[b])
  BY DEF Store
<1>2. "rsp" \in RegisterNames
  BY RegisterFacts
<1>3. c.r["rsp"] \in Int
  BY <1>2 DEF Shape
<1> HIDE DEF m
<1>4. PushWord(c, w) = [r |-> [c.r EXCEPT !["rsp"] = a], fpu |-> c.fpu, mem |-> m]
  <2>1. PICK r, f, mem : r = c.r /\ f = c.fpu /\ mem = c.mem
    OBVIOUS
  <2>2. c = [r |-> r, fpu |-> f, mem |-> mem] /\ r \in [RegisterNames -> Int]
    BY <2>1 DEF Shape
  <2>3. PushWord(c, w) = [c EXCEPT !.r["rsp"] = a, !.mem = m]
    BY <1>2, <2>2 DEF PushWord, m
  <2> QED
    BY <1>2, <2>1, <2>2, <2>3
<1> QED
  BY <1>1, <1>2, <1>3, <1>4 DEF Shape

\* c with register x set to w.
WithRegister(c, x, w) == [c EXCEPT !.r[x] = w]
Loaded(c, x, w, d) ==
  /\ Shape(d) /\ d.fpu = c.fpu /\ d.mem = c.mem
  /\ d.r[x] = w
  /\ \A y \in RegisterNames \ {x} : d.r[y] = c.r[y]

LEMMA LoadedIs ==
  ASSUME NEW c, Shape(c), NEW x \in RegisterNames, NEW w \in Int
  PROVE  Loaded(c, x, w, WithRegister(c, x, w))
<1>1. PICK r, f, mem : r = c.r /\ f = c.fpu /\ mem = c.mem
  OBVIOUS
<1>2. c = [r |-> r, fpu |-> f, mem |-> mem] /\ r \in [RegisterNames -> Int] /\ f \in Int
  BY <1>1 DEF Shape
<1>3. WithRegister(c, x, w) = [r |-> [r EXCEPT ![x] = w], fpu |-> f, mem |-> mem]
  BY <1>2 DEF WithRegister
<1> QED
  BY <1>1, <1>2, <1>3 DEF Loaded, Shape

LEMMA PopIs ==
  ASSUME NEW c, Shape(c), NEW x \in RegisterNames \ {"rsp"}, StackWord(c, 0) \in Int
  PROVE  LET d == Execute(c, <<"pop", x>>)
         IN  /\ Shape(d) /\ d.fpu = c.fpu /\ d.mem = c.mem
             /\ d.r["rsp"] = c.r["rsp"] + 1
             /\ d.r[x] = StackWord(c, 0)
             /\ \A y \in RegisterNames \ {x, "rsp"} : d.r[y] = c.r[y]
<1>1. PICK r, f, mem, w : r = c.r /\ f = c.fpu /\ mem = c.mem /\ w = StackWord(c, 0)
  OBVIOUS
<1>2. c = [r |-> r, fpu |-> f, mem |-> mem] /\ r \in [RegisterNames -> Int] /\ f \in Int /\ w \in Int
  BY <1>1 DEF Shape
<1>3. Execute(c, <<"pop", x>>) = [c EXCEPT !.r[x] = StackWord(c, 0), !.r["rsp"] = @ + 1]
  BY DEF Execute
<1>4. "rsp" \in RegisterNames /\ x # "rsp"
  BY RegisterFacts
<1>5. Execute(c, <<"pop", x>>) = [r |-> [r EXCEPT ![x] = w, !["rsp"] = r["rsp"] + 1], fpu |-> f, mem |-> mem]
  BY <1>1, <1>2, <1>3, <1>4
<1> QED
  BY <1>1, <1>2, <1>4, <1>5 DEF Shape

\* The other instructions.
LEMMA ExecuteIs ==
  ASSUME NEW c, Shape(c)
  PROVE  /\ \A x : Execute(c, <<"push", x>>) = PushWord(c, c.r[x])
         /\ Execute(c, <<"push 0">>) = PushWord(c, 0)
         /\ \A x, w : Execute(c, <<"load", x, w>>) = WithRegister(c, x, w)
         /\ \A x, y : Execute(c, <<"mov", x, y>>) = WithRegister(c, x, c.r[y])
         /\ \A k : Execute(c, <<"add rsp", k>>) = WithRegister(c, "rsp", c.r["rsp"] + k)
         /\ Execute(c, <<"and rsp, -16">>) = WithRegister(c, "rsp", Align(c.r["rsp"]))
         /\ Execute(c, <<"fxsave64">>) = [r |-> c.r, fpu |-> c.fpu, mem |-> Store(c.mem, c.r["rsp"], c.fpu)]
         /\ Execute(c, <<"fxrstor64">>) = [r |-> c.r, fpu |-> StackWord(c, 0), mem |-> c.mem]
<1>1. PICK r, f, mem : r = c.r /\ f = c.fpu /\ mem = c.mem
  OBVIOUS
<1>2. c = [r |-> r, fpu |-> f, mem |-> mem] /\ r \in [RegisterNames -> Int] /\ f \in Int
  BY <1>1 DEF Shape
<1>3. "rsp" \in RegisterNames
  BY RegisterFacts
<1>4. \A x : Execute(c, <<"push", x>>) = PushWord(c, c.r[x])
  BY DEF Execute
<1>5. Execute(c, <<"push 0">>) = PushWord(c, 0)
  BY DEF Execute
<1>6. \A x, w : Execute(c, <<"load", x, w>>) = WithRegister(c, x, w)
  BY DEF Execute, WithRegister
<1>7. \A x, y : Execute(c, <<"mov", x, y>>) = WithRegister(c, x, c.r[y])
  BY DEF Execute, WithRegister
<1>8. \A k : Execute(c, <<"add rsp", k>>) = WithRegister(c, "rsp", c.r["rsp"] + k)
  <2> TAKE k
  <2>1. Execute(c, <<"add rsp", k>>) = [c EXCEPT !.r["rsp"] = @ + k]
    BY DEF Execute
  <2> QED
    BY <1>2, <1>3, <2>1 DEF WithRegister
<1>9. Execute(c, <<"and rsp, -16">>) = WithRegister(c, "rsp", Align(c.r["rsp"]))
  <2>1. Execute(c, <<"and rsp, -16">>) = [c EXCEPT !.r["rsp"] = Align(@)]
    BY DEF Execute
  <2> QED
    BY <1>2, <1>3, <2>1 DEF WithRegister
<1>10. Execute(c, <<"fxsave64">>) = [r |-> c.r, fpu |-> c.fpu, mem |-> Store(c.mem, c.r["rsp"], c.fpu)]
  <2>1. Execute(c, <<"fxsave64">>) = [c EXCEPT !.mem = Store(@, c.r["rsp"], c.fpu)]
    BY DEF Execute
  <2> QED
    BY <1>2, <2>1
<1>11. Execute(c, <<"fxrstor64">>) = [r |-> c.r, fpu |-> StackWord(c, 0), mem |-> c.mem]
  <2>1. Execute(c, <<"fxrstor64">>) = [c EXCEPT !.fpu = StackWord(c, 0)]
    BY DEF Execute
  <2> QED
    BY <1>2, <2>1
<1> QED
  BY <1>4, <1>5, <1>6, <1>7, <1>8, <1>9, <1>10, <1>11

-----------------------------------------------------------------------------
(* One instruction keeps the state of the trap.                            *)

LEMMA StackFacts ==
  ASSUME TrapType, vector \in Vectors \cup {13, 14}
  PROVE  /\ StackTop(vector) \in Int /\ StackTop(vector) % 2 = 0
         /\ Extra \in {0, 1} /\ (vector # 8 => Extra = 0) /\ (vector = 8 => Extra = 1)
         /\ cpu.r["rsp"] \in Int
BY GatesRight, RegisterFacts DEF Extra, TrapType, Shape

\* The next word of the frame is pushed.
LEMMA StackPush ==
  ASSUME TrapType, vector \in Vectors \cup {13, 14}, NEW n \in Int, StackState(cpu, n),
         n \in -2..14, n # 0, NEW w, vector # 8 => w = FrameWord(Depth(n) + 1),
         NEW d, d = PushWord(cpu, w)
  PROVE  /\ Shape(d) /\ StackState(d, n + 1) /\ d.fpu = cpu.fpu
         /\ \A x \in RegisterNames \ {"rsp"} : d.r[x] = cpu.r[x]
<1> DEFINE top == StackTop(vector)
<1>1. /\ top \in Int /\ Extra \in {0, 1} /\ (vector # 8 => Extra = 0) /\ cpu.r["rsp"] \in Int
  BY StackFacts
<1>2. PICK m \in 5..20 : m = Depth(n)
  BY DEF Depth
<1>3. Depth(n + 1) = m + 1 /\ Kept(n) = m /\ Kept(n + 1) = m + 1
  BY <1>2 DEF Depth, Kept
<1>4. /\ cpu.r["rsp"] = top - m - Extra
      /\ vector # 8 =>
           \A k \in 1..m : top - k \in DOMAIN cpu.mem /\ cpu.mem[top - k] = FrameWord(k)
  BY <1>2, <1>3 DEF StackState
<1> DEFINE a == cpu.r["rsp"] - 1
<1>5. /\ Shape(d) /\ d.fpu = cpu.fpu /\ d.r["rsp"] = a
      /\ \A x \in RegisterNames \ {"rsp"} : d.r[x] = cpu.r[x]
      /\ a \in DOMAIN d.mem /\ d.mem[a] = w
      /\ \A b \in DOMAIN cpu.mem : b \in DOMAIN d.mem /\ (b # a => d.mem[b] = cpu.mem[b])
  <2>1. Shape(cpu)
    BY DEF TrapType
  <2> QED
    BY <2>1, PushWordIs
<1>6. a = top - (m + 1) - Extra
  BY <1>1, <1>2, <1>4
<1> HIDE DEF a, top
<1>7. ASSUME vector # 8, NEW k \in 1..(m + 1)
      PROVE  top - k \in DOMAIN d.mem /\ d.mem[top - k] = FrameWord(k)
  <2>1. a = top - (m + 1)
    BY <1>1, <1>2, <1>6, <1>7
  <2>2. CASE k = m + 1
    BY <2>1, <2>2, <1>2, <1>5, <1>7
  <2>3. CASE k \in 1..m
    <3>1. top - k # a
      BY <2>1, <2>3, <1>1, <1>2
    <3> QED
      BY <3>1, <2>3, <1>4, <1>5, <1>7
  <2> QED
    BY <2>2, <2>3, <1>2
<1>8. ~(n + 1 > 16)
  OBVIOUS
<1>9. StackState(d, n + 1)
  BY <1>3, <1>5, <1>6, <1>7, <1>8 DEF StackState, top
<1> QED
  BY <1>5, <1>9

\* The stack is left alone.
LEMMA StackSame ==
  ASSUME NEW n \in Int, StackState(cpu, n), Depth(n + 1) = Depth(n), Kept(n + 1) = Kept(n), n # 16,
         NEW d, d.r["rsp"] = cpu.r["rsp"], d.mem = cpu.mem
  PROVE  StackState(d, n + 1)
BY DEF StackState

\* rsp moves over words that stay.
LEMMA StackMove ==
  ASSUME TrapType, vector \in Vectors \cup {13, 14}, NEW n \in Int, StackState(cpu, n),
         Depth(n) \in Int, Depth(n + 1) \in Int, Kept(n + 1) = Kept(n), n # 16,
         NEW d, d.r["rsp"] = cpu.r["rsp"] + Depth(n) - Depth(n + 1), d.mem = cpu.mem
  PROVE  StackState(d, n + 1)
<1>1. d.r["rsp"] = StackTop(vector) - Depth(n + 1) - Extra
  BY StackFacts DEF StackState
<1> QED
  BY <1>1 DEF StackState

LEMMA MiddleIs ==
  /\ Middle[1] = <<"add rsp", -65>> /\ Middle[2] = <<"fxsave64">>
  /\ Middle[3] = <<"mov", "rdi", "rsp">> /\ Middle[4] = <<"mov", "rbp", "rsp">>
  /\ Middle[5] = <<"and rsp, -16">> /\ Middle[6] = <<"mov", "rsi", "rcx">>
  /\ Middle[7] = <<"call">> /\ Middle[8] = <<"mov", "rsp", "rbp">>
  /\ Middle[9] = <<"fxrstor64">> /\ Middle[10] = <<"add rsp", 65>>
  /\ Final[1] = <<"pop", "rcx">> /\ Final[2] = <<"add rsp", 1>> /\ Final[3] = <<"iretq">>
BY DEF Middle, FpuSpace, Final

\* The entry point.
LEMMA EntryStep ==
  ASSUME TrapType, ip > 0, NEW n \in -2..0, n = Place, TrapState(cpu, n),
         NEW d, d = Execute(cpu, Instruction)
  PROVE  Shape(d) /\ TrapState(d, n + 1)
<1>1. InstructionIs(n, vector, Instruction) /\ n >= 1 - EntryLength(vector)
  BY CurrentInstruction DEF EntryLength
<1>2. Shape(cpu) /\ vector \in Vectors \cup {13, 14} /\ vector \in Nat
  BY DEF TrapType
<1>3. /\ StackState(cpu, n) /\ cpu.r["rcx"] = cause.r["rcx"] /\ cpu.fpu = cause.fpu
      /\ \A x \in RegisterNames \ {"rsp", "rcx"} : cpu.r[x] = cause.r[x]
  BY DEF TrapState, RegisterState
<1>4. WhoIsHere(n + 1)
  BY DEF WhoIsHere
<1>5. CASE n = -2
  <2>1. vector \notin WithEcode
    BY <1>1, <1>5 DEF EntryLength
  <2>2. vector # 8 => FrameWord(Depth(n) + 1) = 0
    <3>1. vector # 8 => cause.error = 0
      BY <2>1 DEF TrapType, WithEcode, PushesErrorCode
    <3>2. Depth(n) + 1 = 6
      BY <1>5 DEF Depth
    <3>3. FrameWord(6) = cause.error
      BY DEF FrameWord
    <3> QED
      BY <3>1, <3>2, <3>3
  <2>3. d = PushWord(cpu, 0)
    <3>1. Instruction = <<"push 0">>
      BY <1>1, <1>5 DEF InstructionIs
    <3> QED
      BY <3>1, <1>2, ExecuteIs
  <2>4. /\ Shape(d) /\ StackState(d, n + 1) /\ d.fpu = cpu.fpu
        /\ \A x \in RegisterNames \ {"rsp"} : d.r[x] = cpu.r[x]
    BY <1>2, <1>3, <1>5, <2>2, <2>3, StackPush
  <2>5. RegisterState(d, n + 1)
    BY <1>3, <1>5, <2>4, RegisterFacts DEF RegisterState
  <2> QED
    BY <2>4, <2>5, <1>4 DEF TrapState
<1>6. CASE n = -1
  <2>1. FrameWord(Depth(n) + 1) = cause.r["rcx"]
    <3>1. Depth(n) + 1 = 7
      BY <1>6 DEF Depth
    <3>2. FrameWord(7) = cause.r[Greg[15]]
      BY DEF FrameWord
    <3> QED
      BY <3>1, <3>2, RegisterFacts
  <2>2. d = PushWord(cpu, cause.r["rcx"])
    <3>1. Instruction = <<"push", "rcx">>
      BY <1>1, <1>6 DEF InstructionIs
    <3>2. Execute(cpu, <<"push", "rcx">>) = PushWord(cpu, cpu.r["rcx"])
      BY <1>2, ExecuteIs, Zenon
    <3> QED
      BY <3>1, <3>2, <1>3
  <2>3. /\ Shape(d) /\ StackState(d, n + 1) /\ d.fpu = cpu.fpu
        /\ \A x \in RegisterNames \ {"rsp"} : d.r[x] = cpu.r[x]
    BY <1>2, <1>3, <1>6, <2>1, <2>2, StackPush
  <2>4. RegisterState(d, n + 1)
    BY <1>3, <1>6, <2>3, RegisterFacts DEF RegisterState
  <2> QED
    BY <2>3, <2>4, <1>4 DEF TrapState
<1>7. CASE n = 0
  <2>1. d = WithRegister(cpu, "rcx", vector)
    <3>1. Instruction = <<"load", "rcx", vector>>
      BY <1>1, <1>7 DEF InstructionIs
    <3>2. Execute(cpu, <<"load", "rcx", vector>>) = WithRegister(cpu, "rcx", vector)
      <4>1. \A x, w : Execute(cpu, <<"load", x, w>>) = WithRegister(cpu, x, w)
        BY <1>2, ExecuteIs
      <4> QED
        BY <4>1, Zenon
    <3> QED
      BY <3>1, <3>2
  <2>2. Loaded(cpu, "rcx", vector, d)
    <3>1. "rcx" \in RegisterNames /\ vector \in Int
      BY <1>2, RegisterFacts
    <3> QED
      BY <3>1, <2>1, <1>2, LoadedIs
  <2>3. "rsp" \in RegisterNames \ {"rcx"}
    BY RegisterFacts
  <2>4. StackState(d, n + 1)
    <3>1. Depth(n + 1) = Depth(n) /\ Kept(n + 1) = Kept(n) /\ n # 16
      BY <1>7 DEF Depth, Kept
    <3>2. d.r["rsp"] = cpu.r["rsp"] /\ d.mem = cpu.mem
      BY <2>2, <2>3 DEF Loaded
    <3> QED
      BY <3>1, <3>2, <1>3, StackSame
  <2>5. RegisterState(d, n + 1)
    BY <1>3, <1>7, <2>2 DEF RegisterState, Loaded
  <2> QED
    BY <2>2, <2>4, <2>5, <1>4 DEF TrapState, Loaded
<1> QED
  BY <1>5, <1>6, <1>7

\* The registers are pushed.
LEMMA SaveStep ==
  ASSUME TrapType, ip > 0, NEW n \in 1..14, n = Place, TrapState(cpu, n),
         NEW d, d = Execute(cpu, Instruction)
  PROVE  Shape(d) /\ TrapState(d, n + 1)
<1>1. Instruction = <<"push", Greg[15 - n]>>
  <2>1. n \in 1..41 /\ n \in 1..14 /\ InstructionIs(n, vector, Instruction)
    BY CurrentInstruction
  <2> QED
    BY <2>1, Zenon DEF InstructionIs, CommonIs
<1>2. Shape(cpu) /\ vector \in Vectors \cup {13, 14}
  BY DEF TrapType
<1>3. /\ StackState(cpu, n) /\ cpu.r["rcx"] = vector /\ cpu.fpu = cause.fpu
      /\ \A x \in RegisterNames \ {"rsp", "rcx"} : cpu.r[x] = cause.r[x]
  BY DEF TrapState, RegisterState
<1>4. WhoIsHere(n + 1)
  BY DEF WhoIsHere
<1> DEFINE x == Greg[15 - n]
<1>5. x \in RegisterNames \ {"rsp", "rcx"}
  <2>1. 15 - n \in 1..14
    OBVIOUS
  <2> QED
    BY <2>1, RegisterFacts
<1>6. FrameWord(Depth(n) + 1) = cause.r[x]
  <2>1. Depth(n) + 1 = 7 + n
    BY DEF Depth
  <2>2. 22 - (7 + n) = 15 - n /\ ~(7 + n <= 6)
    OBVIOUS
  <2> QED
    BY <2>1, <2>2 DEF FrameWord
<1> HIDE DEF x
<1>7. d = PushWord(cpu, cause.r[x])
  <2>1. Execute(cpu, <<"push", x>>) = PushWord(cpu, cpu.r[x])
    BY <1>2, ExecuteIs, Zenon
  <2> QED
    BY <2>1, <1>1, <1>3, <1>5 DEF x
<1>8. /\ Shape(d) /\ StackState(d, n + 1) /\ d.fpu = cpu.fpu
      /\ \A y \in RegisterNames \ {"rsp"} : d.r[y] = cpu.r[y]
  BY <1>2, <1>3, <1>6, <1>7, StackPush
<1>9. RegisterState(d, n + 1)
  BY <1>3, <1>8, RegisterFacts DEF RegisterState
<1> QED
  BY <1>4, <1>8, <1>9 DEF TrapState

\* From the allocation of fpu_context to the call.
LEMMA PrepareStep ==
  ASSUME TrapType, ip > 0, NEW n \in 15..20, n = Place, TrapState(cpu, n), n = 16 => vector # 8,
         NEW d, d = Execute(cpu, Instruction)
  PROVE  Shape(d) /\ TrapState(d, n + 1)
<1>1. Instruction = Middle[n - 14]
  <2>1. n \in 1..41 /\ n \in 15..24 /\ InstructionIs(n, vector, Instruction)
    BY CurrentInstruction
  <2> QED
    BY <2>1, Zenon DEF InstructionIs, CommonIs
<1>2. Shape(cpu) /\ vector \in Vectors \cup {13, 14} /\ vector \in Int
  BY DEF TrapType
<1> DEFINE top == StackTop(vector)
<1>3. /\ top \in Int /\ top % 2 = 0 /\ Extra \in {0, 1} /\ (vector # 8 => Extra = 0)
      /\ cpu.r["rsp"] \in Int
  BY <1>2, StackFacts
<1>4. /\ StackState(cpu, n) /\ cpu.r["rcx"] = vector /\ cpu.fpu = cause.fpu
      /\ n <= 17 => \A x \in RegisterNames \ {"rsp", "rcx"} : cpu.r[x] = cause.r[x]
      /\ n >= 18 => cpu.r["rdi"] = top - 86
      /\ n >= 19 => cpu.r["rbp"] = top - 86
      /\ cpu.r["rsp"] = top - Depth(n) - Extra
  BY DEF TrapState, RegisterState, StackState
<1>5. WhoIsHere(n) /\ WhoIsHere(n + 1)
  BY DEF WhoIsHere, TrapState
<1>6. n >= 16 => Depth(n) = 86
  BY DEF Depth
<1>7. n >= 17 => vector # 8 /\ cpu.r["rsp"] = top - 86
  BY <1>3, <1>4, <1>5, <1>6 DEF WhoIsHere
<1>8. {"rsp", "rcx", "rdi", "rsi", "rbp"} \subseteq RegisterNames
  BY RegisterFacts
<1>9. Kept(n) = 21 /\ Kept(n + 1) = 21 /\ Depth(n + 1) = 86
  BY DEF Kept, Depth
<1> HIDE DEF top
<1>10. CASE n = 15
  <2>1. Instruction = <<"add rsp", -65>>
    <3>1. n - 14 = 1
      BY <1>10
    <3> QED
      BY <3>1, <1>1, MiddleIs, Zenon
  <2>2. d = WithRegister(cpu, "rsp", cpu.r["rsp"] + (-65))
    <3>1. Execute(cpu, <<"add rsp", -65>>) = WithRegister(cpu, "rsp", cpu.r["rsp"] + (-65))
      BY <1>2, ExecuteIs, Zenon
    <3> QED
      BY <2>1, <3>1
  <2>3. Loaded(cpu, "rsp", cpu.r["rsp"] + (-65), d)
    BY <2>2, <1>2, <1>3, <1>8, LoadedIs
  <2>4. StackState(d, n + 1)
    <3>1. Depth(n) = 21
      BY <1>10 DEF Depth
    <3>2. d.r["rsp"] = cpu.r["rsp"] + Depth(n) - Depth(n + 1) /\ d.mem = cpu.mem
      BY <2>3, <3>1, <1>3, <1>9 DEF Loaded
    <3> QED
      BY <3>1, <3>2, <1>2, <1>4, <1>9, <1>10, StackMove
  <2>5. RegisterState(d, n + 1)
    BY <2>3, <1>4, <1>8, <1>10 DEF RegisterState, Loaded
  <2> QED
    BY <2>3, <2>4, <2>5, <1>5 DEF TrapState, Loaded
<1>11. CASE n = 16
  <2>1. Instruction = <<"fxsave64">>
    <3>1. n - 14 = 2
      BY <1>11
    <3> QED
      BY <3>1, <1>1, MiddleIs, Zenon
  <2>2. d = [r |-> cpu.r, fpu |-> cpu.fpu, mem |-> Store(cpu.mem, cpu.r["rsp"], cpu.fpu)]
    BY <2>1, <1>2, ExecuteIs
  <2>3. cpu.r["rsp"] = top - 86
    BY <1>3, <1>4, <1>6, <1>11
  <2>4. /\ top - 86 \in DOMAIN d.mem /\ d.mem[top - 86] = cause.fpu
        /\ \A b \in DOMAIN cpu.mem : b \in DOMAIN d.mem /\ (b # top - 86 => d.mem[b] = cpu.mem[b])
    BY <2>2, <2>3, <1>4 DEF Store
  <2>5. \A k \in 1..21 : top - k \in DOMAIN d.mem /\ d.mem[top - k] = FrameWord(k)
    <3> TAKE k \in 1..21
    <3>1. top - k \in DOMAIN cpu.mem /\ cpu.mem[top - k] = FrameWord(k)
      BY <1>4, <1>9, <1>11 DEF StackState, top
    <3>2. top - k # top - 86
      BY <1>3
    <3> QED
      BY <2>4, <3>1, <3>2
  <2>6. StackState(d, n + 1)
    BY <2>2, <2>3, <2>4, <2>5, <1>3, <1>9, <1>11 DEF StackState, top
  <2>7. RegisterState(d, n + 1) /\ Shape(d)
    BY <2>2, <1>2, <1>4, <1>11 DEF RegisterState, Shape
  <2> QED
    BY <2>6, <2>7, <1>5 DEF TrapState
<1>12. ASSUME n \in {17, 18, 20}, NEW x \in {"rdi", "rbp", "rsi"}, NEW y \in {"rsp", "rcx"},
              Instruction = <<"mov", x, y>>, n = 17 => x = "rdi", n = 18 => x = "rbp", n = 20 => x = "rsi"
       PROVE  Loaded(cpu, x, cpu.r[y], d) /\ StackState(d, n + 1)
  <2>1. Execute(cpu, <<"mov", x, y>>) = WithRegister(cpu, x, cpu.r[y])
    <3>1. \A z, u : Execute(cpu, <<"mov", z, u>>) = WithRegister(cpu, z, cpu.r[u])
      BY <1>2, ExecuteIs
    <3> QED
      BY <3>1, Zenon
  <2>2. cpu.r[y] \in Int /\ x \in RegisterNames
    BY <1>2, <1>8 DEF Shape
  <2>3. Loaded(cpu, x, cpu.r[y], d)
    BY <2>1, <2>2, <1>2, <1>12, LoadedIs
  <2>4. d.r["rsp"] = cpu.r["rsp"] /\ d.mem = cpu.mem
    BY <2>3, <1>8 DEF Loaded
  <2>5. Depth(n) = 86
    BY <1>6, <1>12
  <2> QED
    BY <2>3, <2>4, <2>5, <1>4, <1>9, <1>12, StackSame
<1>13. CASE n = 17
  <2>1. Instruction = <<"mov", "rdi", "rsp">>
    <3>1. n - 14 = 3
      BY <1>13
    <3> QED
      BY <3>1, <1>1, MiddleIs, Zenon
  <2>2. Loaded(cpu, "rdi", cpu.r["rsp"], d) /\ StackState(d, n + 1)
    BY <2>1, <1>12, <1>13
  <2>3. RegisterState(d, n + 1)
    BY <2>2, <1>4, <1>7, <1>8, <1>13 DEF RegisterState, Loaded, top
  <2> QED
    BY <2>2, <2>3, <1>5 DEF TrapState, Loaded
<1>14. CASE n = 18
  <2>1. Instruction = <<"mov", "rbp", "rsp">>
    <3>1. n - 14 = 4
      BY <1>14
    <3> QED
      BY <3>1, <1>1, MiddleIs, Zenon
  <2>2. Loaded(cpu, "rbp", cpu.r["rsp"], d) /\ StackState(d, n + 1)
    BY <2>1, <1>12, <1>14
  <2>3. RegisterState(d, n + 1)
    BY <2>2, <1>4, <1>7, <1>8, <1>14 DEF RegisterState, Loaded, top
  <2> QED
    BY <2>2, <2>3, <1>5 DEF TrapState, Loaded
<1>15. CASE n = 19
  <2>1. Instruction = <<"and rsp, -16">>
    <3>1. n - 14 = 5
      BY <1>15
    <3> QED
      BY <3>1, <1>1, MiddleIs, Zenon
  <2>2. Align(cpu.r["rsp"]) = cpu.r["rsp"]
    BY <1>3, <1>7, <1>15 DEF Align
  <2>3. d = WithRegister(cpu, "rsp", cpu.r["rsp"])
    BY <2>1, <2>2, <1>2, ExecuteIs
  <2>4. Loaded(cpu, "rsp", cpu.r["rsp"], d)
    BY <2>3, <1>2, <1>3, <1>8, LoadedIs
  <2>5. StackState(d, n + 1)
    BY <2>4, <1>4, <1>6, <1>9, <1>15, StackSame DEF Loaded
  <2>6. RegisterState(d, n + 1)
    BY <2>4, <1>4, <1>8, <1>15 DEF RegisterState, Loaded, top
  <2> QED
    BY <2>4, <2>5, <2>6, <1>5 DEF TrapState, Loaded
<1>16. CASE n = 20
  <2>1. Instruction = <<"mov", "rsi", "rcx">>
    <3>1. n - 14 = 6
      BY <1>16
    <3> QED
      BY <3>1, <1>1, MiddleIs, Zenon
  <2>2. Loaded(cpu, "rsi", cpu.r["rcx"], d) /\ StackState(d, n + 1)
    BY <2>1, <1>12, <1>16
  <2>3. RegisterState(d, n + 1)
    BY <2>2, <1>4, <1>8, <1>16 DEF RegisterState, Loaded, top
  <2> QED
    BY <2>2, <2>3, <1>5 DEF TrapState, Loaded
<1> QED
  BY <1>10, <1>11, <1>13, <1>14, <1>15, <1>16

\* From the return of inthandler to the end of fpu_context.
LEMMA UnwindStep ==
  ASSUME TrapType, ip > 0, NEW n \in 22..24, n = Place, TrapState(cpu, n),
         NEW d, d = Execute(cpu, Instruction)
  PROVE  Shape(d) /\ TrapState(d, n + 1)
<1>1. Instruction = Middle[n - 14]
  <2>1. n \in 1..41 /\ n \in 15..24 /\ InstructionIs(n, vector, Instruction)
    BY CurrentInstruction
  <2> QED
    BY <2>1, Zenon DEF InstructionIs, CommonIs
<1>2. Shape(cpu) /\ vector \in Vectors \cup {13, 14} /\ vector = 3
  BY DEF TrapType, TrapState, WhoIsHere
<1> DEFINE top == StackTop(vector)
<1>3. top \in Int /\ Extra = 0 /\ cpu.r["rsp"] \in Int /\ cpu.r["rbp"] \in Int
  BY <1>2, StackFacts, RegisterFacts DEF Shape
<1>4. Depth(n) = 86 /\ Kept(n) = 21 /\ Kept(n + 1) = 21 /\ n # 16
  BY DEF Depth, Kept
<1>5. /\ StackState(cpu, n) /\ cpu.r["rsp"] = top - 86
      /\ top - 86 \in DOMAIN cpu.mem /\ cpu.mem[top - 86] = cause.fpu
      /\ (n = 22 => cpu.r["rbp"] = top - 86) /\ (n > 23 => cpu.fpu = cause.fpu)
  BY <1>3, <1>4 DEF TrapState, RegisterState, StackState
<1>6. WhoIsHere(n + 1)
  BY <1>2 DEF WhoIsHere
<1>7. {"rsp", "rbp"} \subseteq RegisterNames
  BY RegisterFacts
<1> HIDE DEF top
<1>8. CASE n = 22
  <2>1. Instruction = <<"mov", "rsp", "rbp">>
    <3>1. n - 14 = 8
      BY <1>8
    <3> QED
      BY <3>1, <1>1, MiddleIs, Zenon
  <2>2. d = WithRegister(cpu, "rsp", cpu.r["rbp"])
    <3>1. \A z, u : Execute(cpu, <<"mov", z, u>>) = WithRegister(cpu, z, cpu.r[u])
      BY <1>2, ExecuteIs
    <3> QED
      BY <2>1, <3>1, Zenon
  <2>3. Loaded(cpu, "rsp", cpu.r["rbp"], d)
    BY <2>2, <1>2, <1>3, <1>7, LoadedIs
  <2>4. StackState(d, n + 1)
    <3>1. Depth(n + 1) = Depth(n)
      BY <1>8 DEF Depth
    <3>2. d.r["rsp"] = cpu.r["rsp"] /\ d.mem = cpu.mem
      BY <2>3, <1>5, <1>8 DEF Loaded
    <3> QED
      BY <3>1, <3>2, <1>4, <1>5, StackSame
  <2>5. RegisterState(d, n + 1)
    BY <1>8 DEF RegisterState
  <2> QED
    BY <2>3, <2>4, <2>5, <1>6 DEF TrapState, Loaded
<1>9. CASE n = 23
  <2>1. Instruction = <<"fxrstor64">>
    <3>1. n - 14 = 9
      BY <1>9
    <3> QED
      BY <3>1, <1>1, MiddleIs, Zenon
  <2>2. d = [r |-> cpu.r, fpu |-> StackWord(cpu, 0), mem |-> cpu.mem]
    BY <2>1, <1>2, ExecuteIs
  <2>3. StackWord(cpu, 0) = cause.fpu
    BY <1>3, <1>5 DEF StackWord
  <2>4. StackState(d, n + 1)
    <3>1. Depth(n + 1) = Depth(n)
      BY <1>9 DEF Depth
    <3>2. d.r["rsp"] = cpu.r["rsp"] /\ d.mem = cpu.mem
      BY <2>2
    <3> QED
      BY <3>1, <3>2, <1>4, <1>5, StackSame
  <2>5. Shape(d) /\ RegisterState(d, n + 1)
    BY <2>2, <2>3, <1>2, <1>9 DEF RegisterState, Shape, TrapType
  <2> QED
    BY <2>4, <2>5, <1>6 DEF TrapState
<1>10. CASE n = 24
  <2>1. Instruction = <<"add rsp", 65>>
    <3>1. n - 14 = 10
      BY <1>10
    <3> QED
      BY <3>1, <1>1, MiddleIs, Zenon
  <2>2. d = WithRegister(cpu, "rsp", cpu.r["rsp"] + 65)
    <3>1. Execute(cpu, <<"add rsp", 65>>) = WithRegister(cpu, "rsp", cpu.r["rsp"] + 65)
      BY <1>2, ExecuteIs, Zenon
    <3> QED
      BY <2>1, <3>1
  <2>3. Loaded(cpu, "rsp", cpu.r["rsp"] + 65, d)
    BY <2>2, <1>2, <1>3, <1>7, LoadedIs
  <2>4. StackState(d, n + 1)
    <3>1. Depth(n + 1) = 21
      BY <1>10 DEF Depth
    <3>2. d.r["rsp"] = cpu.r["rsp"] + Depth(n) - Depth(n + 1) /\ d.mem = cpu.mem
      BY <2>3, <3>1, <1>3, <1>4 DEF Loaded
    <3> QED
      BY <3>1, <3>2, <1>2, <1>4, <1>5, StackMove
  <2>5. RegisterState(d, n + 1)
    BY <2>3, <1>5, <1>10 DEF RegisterState, Loaded
  <2> QED
    BY <2>3, <2>4, <2>5, <1>6 DEF TrapState, Loaded
<1> QED
  BY <1>8, <1>9, <1>10

\* The registers are popped.
LEMMA RestoreStep ==
  ASSUME TrapType, ip > 0, NEW n \in 25..39, n = Place, TrapState(cpu, n),
         NEW d, d = Execute(cpu, Instruction)
  PROVE  Shape(d) /\ TrapState(d, n + 1)
<1> DEFINE top == StackTop(vector)
           x == Greg[n - 24]
<1>1. Instruction = <<"pop", x>>
  <2>1. n \in 1..41 /\ InstructionIs(n, vector, Instruction)
    BY CurrentInstruction
  <2>2. CommonIs(n, Instruction)
    BY <2>1, Zenon DEF InstructionIs
  <2>3. CASE n \in 25..38
    BY <2>2, <2>3, Zenon DEF CommonIs
  <2>4. CASE n = 39
    <3>1. n \in 39..41 /\ n - 38 = 1 /\ n - 24 = 15
      BY <2>4
    <3>2. Instruction = Final[1]
      BY <2>2, <3>1, Zenon DEF CommonIs
    <3>3. Greg[15] = "rcx"
      BY RegisterFacts
    <3> QED
      BY <3>1, <3>2, <3>3, MiddleIs, Zenon
  <2> QED
    BY <2>3, <2>4
<1>2. Shape(cpu) /\ vector \in Vectors \cup {13, 14} /\ vector = 3
  BY DEF TrapType, TrapState, WhoIsHere
<1>3. top \in Int /\ Extra = 0 /\ cpu.r["rsp"] \in Int
  BY <1>2, StackFacts
<1>4. PICK k \in 7..21 : k = 46 - n
  OBVIOUS
<1>5. Depth(n) = k /\ Depth(n + 1) = k - 1 /\ Kept(n) = 21 /\ Kept(n + 1) = 21 /\ n # 16
  BY <1>4 DEF Depth, Kept
<1>6. /\ StackState(cpu, n) /\ cpu.r["rsp"] = top - k /\ cpu.fpu = cause.fpu
      /\ cpu.mem[top - k] = FrameWord(k)
      /\ \A i \in 1..15 : i <= n - 25 => cpu.r[Greg[i]] = cause.r[Greg[i]]
  BY <1>2, <1>3, <1>4, <1>5 DEF TrapState, RegisterState, StackState
<1>7. WhoIsHere(n + 1)
  BY <1>2 DEF WhoIsHere
<1>8. x \in RegisterNames \ {"rsp"} /\ n - 24 \in 1..15
  <2>1. n - 24 \in 1..15
    OBVIOUS
  <2> QED
    BY <2>1, RegisterFacts
<1>9. FrameWord(k) = cause.r[x]
  <2>1. 22 - k = n - 24 /\ ~(k <= 6)
    BY <1>4
  <2> QED
    BY <2>1 DEF FrameWord
<1> HIDE DEF top
<1>10. StackWord(cpu, 0) = cause.r[x] /\ cause.r[x] \in Int
  <2>1. cpu.r["rsp"] + 0 = top - k
    BY <1>3, <1>6
  <2>2. cause.r[x] \in Int
    BY <1>8 DEF TrapType
  <2> QED
    BY <2>1, <2>2, <1>6, <1>9 DEF StackWord
<1> DEFINE m == n - 24
<1>11. x = Greg[m] /\ m \in 1..15
  BY <1>8
<1> HIDE DEF x
<1>12. /\ Shape(d) /\ d.fpu = cpu.fpu /\ d.mem = cpu.mem
       /\ d.r["rsp"] = cpu.r["rsp"] + 1
       /\ d.r[x] = cause.r[x]
       /\ \A y \in RegisterNames \ {x, "rsp"} : d.r[y] = cpu.r[y]
  BY <1>1, <1>2, <1>8, <1>10, PopIs
<1>13. StackState(d, n + 1)
  <2>1. d.r["rsp"] = cpu.r["rsp"] + Depth(n) - Depth(n + 1)
    BY <1>3, <1>4, <1>5, <1>12
  <2> QED
    BY <2>1, <1>2, <1>4, <1>5, <1>6, <1>12, StackMove
<1>14. \A i \in 1..15 : i <= (n + 1) - 25 => d.r[Greg[i]] = cause.r[Greg[i]]
  <2> SUFFICES ASSUME NEW i \in 1..15, i <= m
               PROVE  d.r[Greg[i]] = cause.r[Greg[i]]
    OBVIOUS
  <2>1. CASE i = m
    BY <2>1, <1>11, <1>12
  <2>2. CASE i # m
    <3>1. Greg[i] # x /\ Greg[i] # "rsp" /\ Greg[i] \in RegisterNames
      BY <2>2, <1>11, RegisterFacts
    <3>2. i <= n - 25
      BY <2>2
    <3> QED
      BY <3>1, <3>2, <1>6, <1>12
  <2> QED
    BY <2>1, <2>2
<1>15. RegisterState(d, n + 1)
  BY <1>6, <1>12, <1>14 DEF RegisterState
<1> QED
  BY <1>7, <1>12, <1>13, <1>15 DEF TrapState

\* The error code is dropped.
LEMMA DropStep ==
  ASSUME TrapType, ip > 0, NEW n \in Int, n = 40, n = Place, TrapState(cpu, n),
         NEW d, d = Execute(cpu, Instruction)
  PROVE  Shape(d) /\ TrapState(d, n + 1)
<1>1. Instruction = <<"add rsp", 1>>
  <2>1. n \in 1..41 /\ n \in 39..41 /\ n - 38 = 2 /\ InstructionIs(n, vector, Instruction)
    BY CurrentInstruction
  <2> QED
    BY <2>1, MiddleIs, Zenon DEF InstructionIs, CommonIs
<1>2. Shape(cpu) /\ vector \in Vectors \cup {13, 14} /\ vector = 3
  BY DEF TrapType, TrapState, WhoIsHere
<1>3. cpu.r["rsp"] \in Int /\ "rsp" \in RegisterNames
  BY <1>2, StackFacts, RegisterFacts
<1>4. Depth(n) = 6 /\ Depth(n + 1) = 5 /\ Kept(n) = Kept(n + 1) /\ n # 16
  BY DEF Depth, Kept
<1>5. d = WithRegister(cpu, "rsp", cpu.r["rsp"] + 1)
  <2>1. Execute(cpu, <<"add rsp", 1>>) = WithRegister(cpu, "rsp", cpu.r["rsp"] + 1)
    BY <1>2, ExecuteIs, Zenon
  <2> QED
    BY <2>1, <1>1
<1>6. Loaded(cpu, "rsp", cpu.r["rsp"] + 1, d)
  BY <1>2, <1>3, <1>5, LoadedIs
<1>7. StackState(d, n + 1)
  <2>1. d.r["rsp"] = cpu.r["rsp"] + Depth(n) - Depth(n + 1) /\ d.mem = cpu.mem
    BY <1>3, <1>4, <1>6 DEF Loaded
  <2> QED
    BY <2>1, <1>2, <1>4, StackMove DEF TrapState
<1>8. RegisterState(d, n + 1)
  <2>1. \A i \in 1..15 : Greg[i] \in RegisterNames \ {"rsp"}
    BY RegisterFacts
  <2>2. cpu.fpu = cause.fpu /\ \A i \in 1..15 : i <= n - 25 => cpu.r[Greg[i]] = cause.r[Greg[i]]
    BY DEF TrapState, RegisterState
  <2> QED
    BY <2>1, <2>2, <1>6 DEF RegisterState, Loaded
<1>9. WhoIsHere(n + 1)
  BY <1>2 DEF WhoIsHere
<1> QED
  BY <1>6, <1>7, <1>8, <1>9 DEF TrapState, Loaded

\* What is true of a CPU is true of it in the next state, if the trap is the same.
LEMMA TrapStateKept ==
  ASSUME NEW c, NEW n, TrapState(c, n), vector' = vector, cause' = cause
  PROVE  TrapState(c, n)'
<1>1. StackState(c, n)'
  BY DEF TrapState, StackState, StackTop, FrameWord, Extra
<1>2. RegisterState(c, n)'
  BY DEF TrapState, RegisterState, StackTop
<1>3. WhoIsHere(n)'
  BY DEF TrapState, WhoIsHere
<1> QED
  BY <1>1, <1>2, <1>3 DEF TrapState

\* A step of the entry point or of inthandler_common.
LEMMA StepKeeps ==
  ASSUME TrapType, ip > 0 => TrapState(cpu, Place), Step
  PROVE  TrapType' /\ TrapState(cpu, Place)' /\ ip' > 0 /\ vector' = vector
<1>1. /\ ip > 0 /\ Instruction[1] \notin {"call", "iretq"} /\ ~Misaligned
      /\ cpu' = Execute(cpu, Instruction) /\ ip' = ip + 1
      /\ vector' = vector /\ cause' = cause
  BY DEF Step
<1>2. PICK n \in Int : n = Place
  BY DEF Place, EntryLength, TrapType
<1>3. TrapState(cpu, n) /\ InstructionIs(n, vector, Instruction)
  BY <1>1, <1>2, CurrentInstruction
<1>4. n \in -2..41
  BY <1>1, <1>2, CurrentInstruction DEF EntryLength
<1>5. n # 21 /\ n # 41
  <2>1. ASSUME n = 21 PROVE FALSE
    <3>1. n \in 1..41 /\ n \in 15..24 /\ n - 14 = 7
      BY <2>1
    <3>2. Instruction = <<"call">>
      BY <3>1, <1>3, MiddleIs, Zenon DEF InstructionIs, CommonIs
    <3> QED
      BY <3>2, <1>1
  <2>2. ASSUME n = 41 PROVE FALSE
    <3>1. n \in 1..41 /\ n \in 39..41 /\ n - 38 = 3
      BY <2>2
    <3>2. Instruction = <<"iretq">>
      BY <3>1, <1>3, MiddleIs, Zenon DEF InstructionIs, CommonIs
    <3> QED
      BY <3>2, <1>1
  <2> QED
    BY <2>1, <2>2
<1>6. n = 16 => vector # 8
  <2> SUFFICES ASSUME n = 16, vector = 8 PROVE FALSE
    OBVIOUS
  <2>1. n \in 1..41 /\ n \in 15..24 /\ n - 14 = 2
    OBVIOUS
  <2>2. Instruction = <<"fxsave64">>
    BY <2>1, <1>3, MiddleIs, Zenon DEF InstructionIs, CommonIs
  <2>3. vector \in Vectors \cup {13, 14}
    BY <1>1 DEF TrapType
  <2>4. cpu.r["rsp"] = StackTop(vector) - 86 - 1
    <3>1. Depth(n) = 86 /\ Extra = 1
      BY DEF Depth, Extra
    <3> QED
      BY <3>1, <1>3 DEF TrapState, StackState
  <2>5. cpu.r["rsp"] % 2 = 1
    <3>1. PICK t \in Int : t = StackTop(vector) /\ t % 2 = 0
      BY <2>3, StackFacts
    <3>2. (t - 86 - 1) % 2 = 1
      BY <3>1
    <3> QED
      BY <3>1, <3>2, <2>4
  <2> QED
    BY <2>2, <2>5, <1>1 DEF Misaligned
<1>7. PICK d : d = cpu'
  OBVIOUS
<1>8. Shape(d) /\ TrapState(d, n + 1)
  <2>1. d = Execute(cpu, Instruction)
    BY <1>1, <1>7
  <2>2. CASE n \in -2..0
    BY <2>1, <2>2, <1>1, <1>2, <1>3, EntryStep
  <2>3. CASE n \in 1..14
    BY <2>1, <2>3, <1>1, <1>2, <1>3, SaveStep
  <2>4. CASE n \in 15..20
    BY <2>1, <2>4, <1>1, <1>2, <1>3, <1>6, PrepareStep
  <2>5. CASE n \in 22..24
    BY <2>1, <2>5, <1>1, <1>2, <1>3, UnwindStep
  <2>6. CASE n \in 25..39
    BY <2>1, <2>6, <1>1, <1>2, <1>3, RestoreStep
  <2>7. CASE n = 40
    BY <2>1, <2>7, <1>1, <1>2, <1>3, DropStep
  <2> QED
    BY <1>4, <1>5, <2>2, <2>3, <2>4, <2>5, <2>6, <2>7
<1>9. Place' = n + 1
  BY <1>1, <1>2 DEF Place, EntryLength, TrapType
<1>10. TrapState(cpu, Place)'
  <2>1. PICK m : m = n + 1
    OBVIOUS
  <2>2. TrapState(d, m)'
    BY <1>1, <1>8, <2>1, TrapStateKept
  <2>3. cpu' = d /\ Place' = m
    BY <1>7, <1>9, <2>1
  <2> QED
    BY <2>2, <2>3
<1>11. TrapType'
  <2>1. Shape(cpu)'
    BY <1>7, <1>8 DEF Shape
  <2>2. Place' <= 41
    BY <1>4, <1>5, <1>9
  <2> QED
    BY <2>1, <2>2, <1>1 DEF TrapType
<1> QED
  BY <1>1, <1>10, <1>11 DEF TrapType

-----------------------------------------------------------------------------
(* The CPU delivers an exception.                                          *)

\* The first m words of w are on the stack that begins at top, and the rest of
\* the CPU is as it was.
OnStack(c, top, w, m) ==
  /\ Shape(c) /\ c.fpu = cpu.fpu
  /\ c.r["rsp"] = top - m
  /\ \A x \in RegisterNames \ {"rsp"} : c.r[x] = cpu.r[x]
  /\ \A k \in 1..m : top - k \in DOMAIN c.mem /\ c.mem[top - k] = w[k]

LEMMA PushOn ==
  ASSUME NEW c, NEW top \in Int, NEW w, NEW m \in Nat, OnStack(c, top, w, m),
         NEW x, x = w[m + 1]
  PROVE  OnStack(PushWord(c, x), top, w, m + 1)
<1>1. PICK d : d = PushWord(c, x)
  OBVIOUS
<1>2. PICK a \in Int : a = c.r["rsp"] - 1 /\ a = top - (m + 1)
  BY DEF OnStack
<1>3. /\ Shape(d) /\ d.fpu = c.fpu /\ d.r["rsp"] = a
      /\ \A y \in RegisterNames \ {"rsp"} : d.r[y] = c.r[y]
      /\ a \in DOMAIN d.mem /\ d.mem[a] = x
      /\ \A b \in DOMAIN c.mem : b \in DOMAIN d.mem /\ (b # a => d.mem[b] = c.mem[b])
  BY <1>1, <1>2, PushWordIs DEF OnStack
<1>4. ASSUME NEW k \in 1..(m + 1)
      PROVE  top - k \in DOMAIN d.mem /\ d.mem[top - k] = w[k]
  <2>1. CASE k = m + 1
    BY <2>1, <1>2, <1>3
  <2>2. CASE k # m + 1
    <3>1. k \in 1..m /\ top - k # a
      BY <2>2, <1>2
    <3> QED
      BY <3>1, <1>3 DEF OnStack
  <2> QED
    BY <2>1, <2>2
<1>5. OnStack(d, top, w, m + 1)
  BY <1>2, <1>3, <1>4 DEF OnStack
<1> QED
  BY <1>1, <1>5

\* The frame of the CPU.
LEMMA CpuPushesIs ==
  ASSUME Shape(cpu), NEW v \in Vectors \cup {13, 14}, NEW rip, NEW error
  PROVE  OnStack(CpuPushes(v, rip, error), StackTop(v), <<1, cpu.r["rsp"], 2, 3, rip, error>>,
                 IF v \in PushesErrorCode THEN 6 ELSE 5)
<1> DEFINE top == StackTop(v)
           s == cpu.r["rsp"]
           w == <<1, s, 2, 3, rip, error>>
           c0 == WithRegister(cpu, "rsp", top)
           c1 == PushWord(c0, 1)
           c2 == PushWord(c1, s)
           c3 == PushWord(c2, 2)
           c4 == PushWord(c3, 3)
           c5 == PushWord(c4, rip)
<1>1. top \in Int /\ "rsp" \in RegisterNames
  BY GatesRight, RegisterFacts
<1>2. CpuPushes(v, rip, error) = IF v \in PushesErrorCode THEN PushWord(c5, error) ELSE c5
  BY DEF CpuPushes, StackTop, WithRegister
<1>3. w[1] = 1 /\ w[2] = s /\ w[3] = 2 /\ w[4] = 3 /\ w[5] = rip /\ w[6] = error
  OBVIOUS
<1> HIDE DEF top, w, s
<1>4. OnStack(c0, top, w, 0)
  <2>1. Loaded(cpu, "rsp", top, c0)
    BY <1>1, LoadedIs
  <2> HIDE DEF c0
  <2> QED
    BY <2>1, <1>1 DEF Loaded, OnStack
<1> HIDE DEF c0
<1>5. OnStack(c1, top, w, 1)
  <2>1. OnStack(PushWord(c0, 1), top, w, 0 + 1)
    BY <1>1, <1>3, <1>4, PushOn
  <2> QED
    BY <2>1
<1> HIDE DEF c1
<1>6. OnStack(c2, top, w, 2)
  <2>1. OnStack(PushWord(c1, s), top, w, 1 + 1)
    BY <1>1, <1>3, <1>5, PushOn
  <2> QED
    BY <2>1
<1> HIDE DEF c2
<1>7. OnStack(c3, top, w, 3)
  <2>1. OnStack(PushWord(c2, 2), top, w, 2 + 1)
    BY <1>1, <1>3, <1>6, PushOn
  <2> QED
    BY <2>1
<1> HIDE DEF c3
<1>8. OnStack(c4, top, w, 4)
  <2>1. OnStack(PushWord(c3, 3), top, w, 3 + 1)
    BY <1>1, <1>3, <1>7, PushOn
  <2> QED
    BY <2>1
<1> HIDE DEF c4
<1>9. OnStack(c5, top, w, 5)
  <2>1. OnStack(PushWord(c4, rip), top, w, 4 + 1)
    BY <1>1, <1>3, <1>8, PushOn
  <2> QED
    BY <2>1
<1> HIDE DEF c5
<1>10. OnStack(PushWord(c5, error), top, w, 6)
  <2>1. OnStack(PushWord(c5, error), top, w, 5 + 1)
    BY <1>1, <1>3, <1>9, PushOn
  <2> QED
    BY <2>1
<1>11. OnStack(CpuPushes(v, rip, error), top, w, IF v \in PushesErrorCode THEN 6 ELSE 5)
  BY <1>2, <1>9, <1>10
<1> QED
  BY <1>11 DEF top, w, s

\* The frame of the CPU is what the entry point expects; that of a double
\* fault is one word lower.
LEMMA DeliverState ==
  ASSUME TrapType, NEW v \in Vectors \cup {13, 14}, NEW rip, NEW error, Deliver(v, rip, error)
  PROVE  /\ TrapType' /\ (ip' > 0 => TrapState(cpu, Place)')
         /\ vector' = v
         /\ ip' > 0 => frames' = frames
         /\ ip' = 0 => panic
<1>1. /\ vector' = v
      /\ cause' = [r |-> cpu.r, fpu |-> cpu.fpu,
                   error |-> IF v \in PushesErrorCode THEN error ELSE 0, rip |-> rip]
      /\ cpu' = CpuPushes(v, rip, error)
      /\ IF Gates[v].entry # 0 THEN ip' = 1 /\ frames' = frames ELSE ip' = 0 /\ panic
  BY DEF Deliver
<1>2. Shape(cpu) /\ v \in Nat
  BY VectorAssumption DEF TrapType
<1>3. Gates[v].entry = EntryOf(v) /\ StackTop(v) \in Int
  BY GatesRight
<1>4. ip' \in {0, 1} /\ (ip' = 1 => v \in Entrypoints /\ frames' = frames) /\ (ip' = 0 => panic)
  BY <1>1, <1>3 DEF EntryOf
<1>5. PICK d : d = cpu'
  OBVIOUS
<1>6. PICK top \in Int : top = StackTop(v)
  BY <1>3
<1>7. PICK m : m = IF v \in PushesErrorCode THEN 6 ELSE 5
  OBVIOUS
<1>8. OnStack(d, top, <<1, cpu.r["rsp"], 2, 3, rip, error>>, m)
  BY <1>1, <1>2, <1>5, <1>6, <1>7, CpuPushesIs
<1>9. TrapType'
  <2>1. Shape(cpu)'
    BY <1>5, <1>8 DEF OnStack, Shape
  <2>2. cpu.r \in [RegisterNames -> Int] /\ cpu.fpu \in Int
    BY <1>2 DEF Shape
  <2>3. /\ cause' = [r |-> cause'.r, fpu |-> cause'.fpu, error |-> cause'.error, rip |-> cause'.rip]
        /\ cause'.r \in [RegisterNames -> Int] /\ cause'.fpu \in Int
        /\ v \notin PushesErrorCode => cause'.error = 0
    BY <1>1, <2>2
  <2>4. ip' = 1 => Place' <= 41
    BY <1>1 DEF Place, EntryLength
  <2> QED
    BY <2>1, <2>3, <2>4, <1>1, <1>2, <1>4 DEF TrapType
<1>10. ASSUME ip' > 0 PROVE TrapState(cpu, Place)'
  <2>1. PICK n \in -2..(-1) : n = Place'
    BY <1>1, <1>4, <1>10 DEF Place, EntryLength
  <2>2. v \in Entrypoints /\ n = 1 - EntryLength(v)
    BY <2>1, <1>1, <1>4, <1>10 DEF Place
  <2>3. Depth(n) = (IF v \in WithEcode THEN 6 ELSE 5) /\ Kept(n) = Depth(n)
    BY <2>2 DEF Depth, Kept, EntryLength
  <2>4. Extra' = IF v = 8 THEN 1 ELSE 0
    BY <1>1 DEF Extra
  <2>5. m = Depth(n) + Extra'
    BY <2>3, <2>4, <1>7 DEF WithEcode, PushesErrorCode
  <2>6. ASSUME v # 8, NEW k \in 1..Kept(n)
        PROVE  FrameWord(k)' = <<1, cpu.r["rsp"], 2, 3, rip, error>>[k] /\ k \in 1..m
    <3>1. k \in 1..m /\ k \in 1..6 /\ (k = 6 => v \in PushesErrorCode)
      BY <2>3, <2>6, <1>7 DEF WithEcode, PushesErrorCode
    <3>2. FrameWord(k)' = <<1, cause'.r["rsp"], 2, 3, cause'.rip, cause'.error>>[k]
      BY <3>1 DEF FrameWord
    <3> QED
      BY <3>1, <3>2, <1>1
  <2>7. StackTop(vector)' = top
    BY <1>1, <1>6 DEF StackTop
  <2>8. StackState(d, n)'
    <3>1. d.r["rsp"] = top - Depth(n) - Extra'
      BY <1>8, <2>3, <2>4, <2>5 DEF OnStack
    <3>2. v # 8 => \A k \in 1..Kept(n) : top - k \in DOMAIN d.mem /\ d.mem[top - k] = FrameWord(k)'
      BY <1>8, <2>6 DEF OnStack
    <3> QED
      BY <3>1, <3>2, <2>7, <1>1 DEF StackState
  <2>9. RegisterState(d, n)'
    <3>1. d.fpu = cause'.fpu /\ \A x \in RegisterNames \ {"rsp"} : d.r[x] = cause'.r[x]
      BY <1>1, <1>8 DEF OnStack
    <3>2. "rcx" \in RegisterNames
      BY RegisterFacts
    <3> QED
      BY <3>1, <3>2 DEF RegisterState
  <2>10. WhoIsHere(n)'
    BY DEF WhoIsHere
  <2>11. TrapState(d, n)'
    BY <2>8, <2>9, <2>10 DEF TrapState
  <2> QED
    BY <2>1, <2>11, <1>5
<1> QED
  BY <1>1, <1>4, <1>9, <1>10

-----------------------------------------------------------------------------
(* The frames.                                                             *)

\* What is left of the calls.
Within(new, old) == \A i \in DOMAIN new : \E j \in DOMAIN old : new[i] = old[j]

\* Printing goes on in the top frame, or in a panic.
Continues ==
  /\ FramesOk(frames')
  /\ NoReturn(Top'.calls) \/ Within(Top'.calls, Top.calls)

LEMMA TopIs ==
  ASSUME FramesOk(frames)
  PROVE  /\ Len(frames) \in Nat /\ Len(frames) \in DOMAIN frames
         /\ Top \in FrameType
         /\ Top.at # "call" => Top.calls # << >>
<1>1. frames \in Seq(FrameType) /\ frames # << >>
  BY DEF FramesOk
<1>2. Len(frames) \in Nat /\ Len(frames) \in DOMAIN frames /\ Top \in FrameType
  BY <1>1 DEF Top
<1> QED
  BY <1>2 DEF FramesOk, Top

LEMMA FramesReplaced ==
  ASSUME FramesOk(frames), NEW f \in FrameType,
         f.at # "call" => f.calls # << >>, Within(f.calls, Top.calls),
         frames' = [frames EXCEPT ![Len(frames)] = f]
  PROVE  Continues
<1>1. Len(frames) \in Nat /\ Len(frames) \in DOMAIN frames
  BY TopIs
<1>2. /\ frames' \in Seq(FrameType) /\ frames' # << >>
      /\ Len(frames') = Len(frames) /\ DOMAIN frames' = DOMAIN frames
      /\ frames'[Len(frames)] = f
      /\ \A k \in DOMAIN frames : k # Len(frames) => frames'[k] = frames[k]
  <2>1. frames \in Seq(FrameType)
    BY DEF FramesOk
  <2>2. frames' \in Seq(FrameType) /\ Len(frames') = Len(frames)
    BY <1>1, <2>1
  <2> QED
    BY <1>1, <2>1, <2>2
<1>3. Top' = f
  BY <1>2 DEF Top
<1>4. NoReturn(Top.calls) => NoReturn(f.calls)
  BY DEF NoReturn, Within
<1>5. \A k \in DOMAIN frames' : k # 2 => NoReturn(frames'[k].calls)
  <2> SUFFICES ASSUME NEW k \in DOMAIN frames, k # 2
               PROVE  NoReturn(frames'[k].calls)
    BY <1>2
  <2>1. NoReturn(frames[k].calls)
    BY DEF FramesOk
  <2>2. CASE k = Len(frames)
    BY <2>1, <2>2, <1>2, <1>4 DEF Top
  <2>3. CASE k # Len(frames)
    BY <2>1, <2>3, <1>2
  <2> QED
    BY <2>2, <2>3
<1>6. \A k \in DOMAIN frames' : frames'[k].at # "call" => frames'[k].calls # << >>
  BY <1>2 DEF FramesOk
<1>7. FramesOk(frames')
  BY <1>2, <1>5, <1>6 DEF FramesOk
<1> QED
  BY <1>3, <1>7 DEF Continues

LEMMA FramesGoTo ==
  ASSUME FramesOk(frames), Top.calls # << >>, NEW where \in {"call", "lock", "draw"}, GoTo(where)
  PROVE  Continues
<1>1. Len(frames) \in DOMAIN frames /\ Top \in FrameType
  BY TopIs
<1>2. PICK f : f = [calls |-> Top.calls, at |-> where]
  OBVIOUS
<1>3. frames' = [frames EXCEPT ![Len(frames)] = f]
  <2>1. [Top EXCEPT !.at = where] = f
    BY <1>1, <1>2 DEF FrameType
  <2>2. frames' = [frames EXCEPT ![Len(frames)] = [frames[Len(frames)] EXCEPT !.at = where]]
    BY DEF GoTo
  <2> QED
    BY <2>1, <2>2 DEF Top
<1>4. Within(f.calls, Top.calls)
  BY <1>2 DEF Within
<1>5. f \in FrameType
  BY <1>1, <1>2 DEF FrameType
<1> QED
  BY <1>2, <1>3, <1>4, <1>5, FramesReplaced

LEMMA FramesDone ==
  ASSUME FramesOk(frames), Top.calls # << >>, Done
  PROVE  Continues
<1>1. Len(frames) \in DOMAIN frames /\ Top \in FrameType
  BY TopIs
<1>2. PICK f : f = [calls |-> Tail(Top.calls), at |-> "call"]
  OBVIOUS
<1>3. frames' = [frames EXCEPT ![Len(frames)] = f]
  BY <1>2 DEF Done, Frame, Top
<1>4. PICK old \in Seq(CallNames) : old = Top.calls /\ old # << >>
  BY <1>1 DEF FrameType
<1>5. PICK new : new = Tail(old)
  OBVIOUS
<1>6. new \in Seq(CallNames) /\ \A i \in DOMAIN new : i + 1 \in DOMAIN old /\ new[i] = old[i + 1]
  BY <1>4, <1>5
<1>7. Within(new, old)
  BY <1>6 DEF Within
<1>8. f \in FrameType /\ f.at = "call" /\ f.calls = new
  BY <1>2, <1>4, <1>5, <1>6 DEF FrameType
<1> QED
  BY <1>3, <1>4, <1>7, <1>8, FramesReplaced

LEMMA FramesPush ==
  ASSUME FramesOk(frames), NEW calls \in Seq(CallNames), Push(calls), Len(frames) = 1 \/ NoReturn(calls)
  PROVE  FramesOk(frames') /\ Top'.calls = calls
<1> DEFINE f == Frame(calls)
           S == FrameType
<1>1. f \in S /\ f.at = "call" /\ f.calls = calls
  BY DEF Frame, FrameType
<1> HIDE DEF f
<1>2. frames \in Seq(S) /\ frames' = Append(frames, f)
  BY DEF FramesOk, Push, f
<1>3. /\ frames' \in Seq(S) /\ frames' # << >> /\ Len(frames') = Len(frames) + 1
      /\ frames'[Len(frames) + 1] = f
      /\ \A k \in DOMAIN frames : frames'[k] = frames[k]
      /\ DOMAIN frames' = DOMAIN frames \cup {Len(frames) + 1}
  <2> HIDE DEF S
  <2> QED
    BY <1>1, <1>2
<1>4. Top' = f
  BY <1>3 DEF Top
<1>5. Len(frames) + 1 # 2 => NoReturn(calls)
  BY TopIs
<1>6. \A k \in DOMAIN frames' : k # 2 => NoReturn(frames'[k].calls)
  BY <1>1, <1>3, <1>5 DEF FramesOk
<1>7. \A k \in DOMAIN frames' : frames'[k].at # "call" => frames'[k].calls # << >>
  BY <1>1, <1>3 DEF FramesOk
<1> QED
  BY <1>1, <1>3, <1>4, <1>6, <1>7 DEF FramesOk

LEMMA PanicContinues ==
  ASSUME FramesOk(frames), panic
  PROVE  Continues /\ NoReturn(Top'.calls)
<1> DEFINE calls == <<"line", "exit_qemu">>
<1>1. calls \in Seq(CallNames) /\ NoReturn(calls)
  BY DEF NoReturn, CallNames
<1>2. Push(calls)
  BY DEF panic
<1> HIDE DEF calls
<1> QED
  BY <1>1, <1>2, FramesPush DEF Continues

LEMMA CallingSome ==
  ASSUME NEW call, Calling(call), call # "none"
  PROVE  Top.calls # << >>
BY DEF Calling, NextCall

\* Printing and drawing only go on or panic.
LEMMA ConsoleContinues ==
  ASSUME FramesOk(frames), ConsoleStep
  PROVE  Continues
<1>1. CASE SendSerial
  <2>1. Top.calls # << >> /\ GoTo("lock")
    BY <1>1, CallingSome DEF SendSerial
  <2> QED
    BY <2>1, FramesGoTo
<1>2. CASE Lock
  <2>1. Top.calls # << >>
    BY <1>2, TopIs DEF Lock
  <2>2. panic \/ GoTo("draw")
    BY <1>2 DEF Lock
  <2> QED
    BY <2>1, <2>2, FramesGoTo, PanicContinues
<1>3. CASE write_str
  <2>1. Top.calls # << >> /\ Done
    BY <1>3, TopIs DEF write_str
  <2> QED
    BY <2>1, FramesDone
<1>4. CASE DrawTestPattern
  <2>1. Top.calls # << >> /\ (Done \/ panic)
    BY <1>4, CallingSome DEF DrawTestPattern, Draw
  <2> QED
    BY <2>1, FramesDone, PanicContinues
<1>5. CASE init_display
  <2>1. Top.calls # << >> /\ (Done \/ panic)
    BY <1>5, CallingSome DEF init_display, Draw
  <2> QED
    BY <2>1, FramesDone, PanicContinues
<1>6. CASE set_global_vram
  <2>1. Top.calls # << >> /\ (Done \/ panic)
    BY <1>6, CallingSome DEF set_global_vram
  <2> QED
    BY <2>1, FramesDone, PanicContinues
<1>7. CASE init_exceptions
  <2>1. Top.calls # << >> /\ Done
    BY <1>7, CallingSome DEF init_exceptions
  <2> QED
    BY <2>1, FramesDone
<1>8. CASE exit_qemu
  BY <1>8 DEF exit_qemu, Continues, Within, Top
<1> QED
  BY <1>1, <1>2, <1>3, <1>4, <1>5, <1>6, <1>7, <1>8 DEF ConsoleStep

\* While the handler runs, the trap waits.
LEMMA ContinuesKeeps ==
  ASSUME TrapInv, ip = 0, Continues, UNCHANGED trapVars
  PROVE  TrapInv'
<1>1. ip' = ip /\ vector' = vector /\ cause' = cause /\ cpu' = cpu
  BY DEF trapVars
<1>2. TrapType'
  BY <1>1 DEF TrapInv, TrapType, Place, EntryLength, Shape
<1>3. ASSUME ~NoReturn(Top'.calls)
      PROVE  /\ ip' = 0 /\ vector' = 3 /\ vector' \in Vectors /\ TrapState(cpu, 22)'
             /\ \A i \in DOMAIN Top'.calls : Top'.calls[i] # "bytes"
  <2>1. Within(Top'.calls, Top.calls)
    BY <1>3 DEF Continues
  <2>2. ~NoReturn(Top.calls)
    BY <2>1, <1>3 DEF Within, NoReturn
  <2>3. /\ vector = 3 /\ vector \in Vectors /\ TrapState(cpu, 22)
        /\ \A i \in DOMAIN Top.calls : Top.calls[i] # "bytes"
    BY <2>2 DEF TrapInv, FrameState
  <2>4. PICK d : d = cpu
    OBVIOUS
  <2>5. TrapState(d, 22)'
    BY <2>3, <2>4, <1>1, TrapStateKept
  <2> QED
    BY <2>1, <2>3, <2>4, <2>5, <1>1 DEF Within
<1>4. FrameState'
  BY <1>1, <1>3 DEF FrameState, Continues
<1> QED
  BY <1>1, <1>2, <1>4 DEF TrapInv

-----------------------------------------------------------------------------
(* The call of inthandler and the way back.                                *)

\* Only place 21 is the call, and only place 41 is iretq.
LEMMA InstructionKind ==
  ASSUME NEW n \in -2..41, NEW v, NEW i, InstructionIs(n, v, i)
  PROVE  /\ n = 21 <=> i[1] = "call"
         /\ n = 21 <=> i = <<"call">>
         /\ n = 41 <=> i[1] = "iretq"
<1>1. n = -2 => i[1] = "push 0"
  <2>1. \A a : <<a>>[1] = a
    OBVIOUS
  <2> QED
    BY <2>1, Zenon DEF InstructionIs
<1>2. n = -1 => i[1] = "push"
  BY DEF InstructionIs
<1>3. n = 0 => i[1] = "load"
  BY DEF InstructionIs
<1>4. n \in 1..14 => i[1] = "push"
  <2> SUFFICES ASSUME n \in 1..14 PROVE i[1] = "push"
    OBVIOUS
  <2>1. n \in 1..41
    OBVIOUS
  <2>2. i = <<"push", Greg[15 - n]>>
    BY <2>1, Zenon DEF InstructionIs, CommonIs
  <2> QED
    BY <2>2
<1>5. n \in 25..38 => i[1] = "pop"
  <2> SUFFICES ASSUME n \in 25..38 PROVE i[1] = "pop"
    OBVIOUS
  <2>1. n \in 1..41
    OBVIOUS
  <2>2. i = <<"pop", Greg[n - 24]>>
    BY <2>1, Zenon DEF InstructionIs, CommonIs
  <2> QED
    BY <2>2
<1>6. n \in 15..24 => i[1] # "iretq" /\ (n = 21 <=> i[1] = "call")
  <2> SUFFICES ASSUME n \in 15..24 PROVE i[1] # "iretq" /\ (n = 21 <=> i[1] = "call")
    OBVIOUS
  <2>1. n \in 1..41
    OBVIOUS
  <2>2. i = Middle[n - 14]
    BY <2>1, Zenon DEF InstructionIs, CommonIs
  <2>3. PICK k \in 1..10 : k = n - 14
    OBVIOUS
  <2>4. /\ Middle[1][1] = "add rsp" /\ Middle[2][1] = "fxsave64" /\ Middle[3][1] = "mov"
        /\ Middle[4][1] = "mov" /\ Middle[5][1] = "and rsp, -16" /\ Middle[6][1] = "mov"
        /\ Middle[7][1] = "call" /\ Middle[8][1] = "mov" /\ Middle[9][1] = "fxrstor64"
        /\ Middle[10][1] = "add rsp"
    <3>1. \A a : <<a>>[1] = a
      OBVIOUS
    <3>2. \A a, b : <<a, b>>[1] = a
      OBVIOUS
    <3>3. /\ <<"mov", "rdi", "rsp">>[1] = "mov" /\ <<"mov", "rbp", "rsp">>[1] = "mov"
          /\ <<"mov", "rsi", "rcx">>[1] = "mov" /\ <<"mov", "rsp", "rbp">>[1] = "mov"
      OBVIOUS
    <3>4. Middle[1][1] = "add rsp"
      BY <3>2, MiddleIs, Zenon
    <3>5. Middle[2][1] = "fxsave64"
      BY <3>1, MiddleIs, Zenon
    <3>6. Middle[3][1] = "mov"
      BY <3>3, MiddleIs, Zenon
    <3>7. Middle[4][1] = "mov"
      BY <3>3, MiddleIs, Zenon
    <3>8. Middle[5][1] = "and rsp, -16"
      BY <3>1, MiddleIs, Zenon
    <3>9. Middle[6][1] = "mov"
      BY <3>3, MiddleIs, Zenon
    <3>10. Middle[7][1] = "call"
      BY <3>1, MiddleIs, Zenon
    <3>11. Middle[8][1] = "mov"
      BY <3>3, MiddleIs, Zenon
    <3>12. Middle[9][1] = "fxrstor64"
      BY <3>1, MiddleIs, Zenon
    <3>13. Middle[10][1] = "add rsp"
      BY <3>2, MiddleIs, Zenon
    <3> QED
      BY <3>4, <3>5, <3>6, <3>7, <3>8, <3>9, <3>10, <3>11, <3>12, <3>13
  <2>5. Middle[k][1] # "iretq" /\ (k = 7 <=> Middle[k][1] = "call")
    <3>1. k = 1 \/ k = 2 \/ k = 3 \/ k = 4 \/ k = 5 \/ k = 6 \/ k = 7 \/ k = 8 \/ k = 9 \/ k = 10
      OBVIOUS
    <3>2. \A x \in {1, 2, 3, 4, 5, 6, 8, 9, 10} : x # 7
      OBVIOUS
    <3> QED
      BY <2>4, <3>1, <3>2, Zenon
  <2> QED
    BY <2>2, <2>3, <2>5
<1>7. n \in 39..41 => i[1] # "call" /\ (n = 41 <=> i[1] = "iretq")
  <2> SUFFICES ASSUME n \in 39..41 PROVE i[1] # "call" /\ (n = 41 <=> i[1] = "iretq")
    OBVIOUS
  <2>1. n \in 1..41
    OBVIOUS
  <2>2. i = Final[n - 38]
    BY <2>1, Zenon DEF InstructionIs, CommonIs
  <2>3. PICK k \in 1..3 : k = n - 38
    OBVIOUS
  <2>4. Final[1][1] = "pop" /\ Final[2][1] = "add rsp" /\ Final[3][1] = "iretq"
    <3>1. \A a : <<a>>[1] = a
      OBVIOUS
    <3>2. \A a, b : <<a, b>>[1] = a
      OBVIOUS
    <3>3. Final[1][1] = "pop"
      BY <3>2, MiddleIs, Zenon
    <3>4. Final[2][1] = "add rsp"
      BY <3>2, MiddleIs, Zenon
    <3>5. Final[3][1] = "iretq"
      BY <3>1, MiddleIs, Zenon
    <3> QED
      BY <3>3, <3>4, <3>5
  <2>5. Final[k][1] # "call" /\ (k = 3 <=> Final[k][1] = "iretq")
    <3>1. k = 1 \/ k = 2 \/ k = 3
      OBVIOUS
    <3>2. 1 # 3 /\ 2 # 3
      OBVIOUS
    <3> QED
      BY <2>4, <3>1, <3>2, Zenon
  <2> QED
    BY <2>2, <2>3, <2>5
<1>8. n \in {-2, -1, 0} \/ n \in 1..14 \/ n \in 15..24 \/ n \in 25..38 \/ n \in 39..41
  OBVIOUS
<1>9. (n = 21 <=> i[1] = "call") /\ (n = 41 <=> i[1] = "iretq")
  <2>1. PICK w : w = i[1]
    OBVIOUS
  <2>2. n \in {-2, -1, 0} => w \in {"push 0", "push", "load"}
    BY <2>1, <1>1, <1>2, <1>3
  <2>3. (n \in 1..14 => w = "push") /\ (n \in 25..38 => w = "pop")
    BY <2>1, <1>4, <1>5
  <2>4. /\ n \in 15..24 => w # "iretq" /\ (n = 21 <=> w = "call")
        /\ n \in 39..41 => w # "call" /\ (n = 41 <=> w = "iretq")
    BY <2>1, <1>6, <1>7
  <2>5. (n = 21 <=> w = "call") /\ (n = 41 <=> w = "iretq")
    <3>1. CASE n \in {-2, -1, 0}
      <4>1. n # 21 /\ n # 41
        BY <3>1
      <4>2. w # "call" /\ w # "iretq"
        BY <3>1, <2>2, Zenon
      <4> QED
        BY <4>1, <4>2
    <3>2. CASE n \in 1..14 \/ n \in 25..38
      BY <3>2, <2>3
    <3>3. CASE n \in 15..24
      BY <3>3, <2>4
    <3>4. CASE n \in 39..41
      BY <3>4, <2>4
    <3> QED
      BY <3>1, <3>2, <3>3, <3>4, <1>8
  <2> QED
    BY <2>1, <2>5
<1>10. n = 21 => i = <<"call">>
  <2> SUFFICES ASSUME n = 21 PROVE i = <<"call">>
    OBVIOUS
  <2>1. n \in 1..41 /\ n \in 15..24 /\ n - 14 = 7
    OBVIOUS
  <2> QED
    BY <2>1, MiddleIs, Zenon DEF InstructionIs, CommonIs
<1>11. i = <<"call">> => i[1] = "call"
  OBVIOUS
<1> QED
  BY <1>9, <1>10, <1>11

LEMMA PlaceOfCall ==
  ASSUME TrapType, ip > 0
  PROVE  /\ Place = 21 <=> Instruction[1] = "call"
         /\ Place = 41 <=> Instruction[1] = "iretq"
<1>1. Place \in -2..41 /\ InstructionIs(Place, vector, Instruction)
  BY CurrentInstruction DEF EntryLength
<1> QED
  BY <1>1, InstructionKind

\* inthandler is told the vector that was taken, and only that of a breakpoint
\* finds its way back.
LEMMA CallInthandlerKeeps ==
  ASSUME TrapInv, CallInthandler
  PROVE  TrapInv' /\ frames' # frames
<1>1. /\ ip > 0 /\ Instruction[1] = "call" /\ Push(HandlerCalls(cpu.r["rsi"])) /\ ip' = 0
      /\ vector' = vector /\ cause' = cause
  BY DEF CallInthandler
<1>2. TrapType /\ TrapState(cpu, 21) /\ FramesOk(frames) /\ (vector = 3 => Len(frames) = 1)
  <2>1. TrapType /\ TrapState(cpu, Place) /\ FrameState
    BY <1>1 DEF TrapInv
  <2>2. Place = 21
    BY <1>1, <2>1, PlaceOfCall
  <2> QED
    BY <1>1, <2>1, <2>2 DEF FrameState
<1>3. cpu.r["rsi"] = vector /\ cpu.r["rbp"] = StackTop(vector) - 86 /\ (vector = 3 => vector \in Vectors)
  BY <1>1, <1>2 DEF TrapState, RegisterState, TrapType
<1>4. PICK calls : calls = HandlerCalls(vector)
  OBVIOUS
<1>5. /\ calls \in Seq(CallNames) /\ (vector # 3 => NoReturn(calls))
      /\ \A i \in DOMAIN calls : vector = 3 => calls[i] # "bytes"
  <2>1. PICK begin : begin = <<"line", "line", "line">>
    OBVIOUS
  <2>2. PICK rest : rest = CASE vector = 3 -> <<"return">>
                             [] vector = 13 -> <<"line", "bytes", "line", "panic">>
                             [] vector = 14 -> <<"line", "line", "panic">>
                             [] OTHER -> <<"panic">>
    OBVIOUS
  <2>3. calls = begin \o rest
    BY <2>1, <2>2, <1>4 DEF HandlerCalls
  <2>4. begin \in Seq(CallNames) /\ \A i \in DOMAIN begin : begin[i] \notin {"return", "bytes"}
    BY <2>1 DEF CallNames
  <2>5. /\ rest \in Seq(CallNames)
        /\ \A i \in DOMAIN rest : rest[i] = "return" => vector = 3
        /\ \A i \in DOMAIN rest : rest[i] = "bytes" => vector # 3
    <3>1. CASE vector = 3
      <4>1. rest = <<"return">>
        BY <2>2, <3>1
      <4> QED
        BY <3>1, <4>1 DEF CallNames
    <3>2. CASE vector = 13
      <4>1. rest = <<"line", "bytes", "line", "panic">>
        BY <2>2, <3>2
      <4> QED
        BY <3>2, <4>1 DEF CallNames
    <3>3. CASE vector = 14
      <4>1. rest = <<"line", "line", "panic">>
        BY <2>2, <3>3
      <4> QED
        BY <3>3, <4>1 DEF CallNames
    <3>4. CASE vector \notin {3, 13, 14}
      <4>1. rest = <<"panic">>
        BY <2>2, <3>4
      <4> QED
        BY <3>4, <4>1 DEF CallNames
    <3> QED
      BY <3>1, <3>2, <3>3, <3>4
  <2>6. calls \in Seq(CallNames) /\ \A i \in DOMAIN calls : \/ \E j \in DOMAIN begin : calls[i] = begin[j]
                                                           \/ \E j \in DOMAIN rest : calls[i] = rest[j]
    <3> HIDE DEF CallNames
    <3>1. PICK m \in Nat, n \in Nat : m = Len(begin) /\ n = Len(rest)
      BY <2>4, <2>5
    <3>2. /\ calls \in Seq(CallNames) /\ DOMAIN calls = 1..(m + n)
          /\ DOMAIN begin = 1..m /\ DOMAIN rest = 1..n
          /\ \A i \in 1..(m + n) : calls[i] = IF i <= m THEN begin[i] ELSE rest[i - m]
      BY <2>3, <2>4, <2>5, <3>1
    <3>3. ASSUME NEW i \in DOMAIN calls
          PROVE  \/ \E j \in DOMAIN begin : calls[i] = begin[j]
                 \/ \E j \in DOMAIN rest : calls[i] = rest[j]
      <4>1. CASE i <= m
        BY <3>2, <4>1
      <4>2. CASE ~(i <= m)
        <5>1. i - m \in 1..n
          BY <3>2, <4>2
        <5> QED
          BY <3>2, <4>2, <5>1
      <4> QED
        BY <4>1, <4>2
    <3> QED
      BY <3>2, <3>3
  <2> QED
    BY <2>4, <2>5, <2>6 DEF NoReturn
<1>6. FramesOk(frames') /\ Top'.calls = calls
  BY <1>1, <1>2, <1>3, <1>4, <1>5, FramesPush
<1>7. frames' # frames
  <2>1. frames \in Seq(FrameType) /\ \E f : frames' = Append(frames, f)
    BY <1>1, <1>2 DEF FramesOk, Push
  <2>2. Len(frames') = Len(frames) + 1 /\ Len(frames) \in Nat
    BY <2>1
  <2> QED
    BY <2>2
<1>8. PICK d : d = cpu'
  OBVIOUS
<1>9. /\ Shape(d) /\ d.mem = cpu.mem
      /\ \A n \in RegisterNames \ CallerSaved : d.r[n] = cpu.r[n]
  <2>1. PICK r, f, mem : r = cpu.r /\ f = cpu.fpu /\ mem = cpu.mem
    OBVIOUS
  <2>2. cpu = [r |-> r, fpu |-> f, mem |-> mem] /\ r \in [RegisterNames -> Int]
    BY <2>1, <1>2 DEF TrapType, Shape
  <2>3. PICK q : q = [n \in RegisterNames |-> IF n \in CallerSaved THEN Clobbered ELSE r[n]]
    OBVIOUS
  <2>4. d = [cpu EXCEPT !.r = q, !.fpu = Clobbered]
    BY <2>1, <2>2, <2>3, <1>8 DEF CallInthandler
  <2>5. d = [r |-> q, fpu |-> Clobbered, mem |-> mem]
    BY <2>2, <2>4
  <2>6. q \in [RegisterNames -> Int]
    BY <2>2, <2>3 DEF Clobbered
  <2> QED
    BY <2>1, <2>3, <2>5, <2>6 DEF Shape, Clobbered
<1>10. vector = 3 => TrapState(d, 22)
  <2> SUFFICES ASSUME vector = 3 PROVE TrapState(d, 22)
    OBVIOUS
  <2>1. {"rsp", "rbp"} \subseteq RegisterNames \ CallerSaved
    BY RegisterFacts DEF CallerSaved
  <2>2. d.r["rsp"] = cpu.r["rsp"] /\ d.r["rbp"] = cpu.r["rbp"]
    BY <2>1, <1>9
  <2>3. Depth(22) = Depth(21) /\ Kept(22) = Kept(21)
    BY DEF Depth, Kept
  <2>4. StackState(d, 22)
    BY <2>2, <2>3, <1>2, <1>9 DEF TrapState, StackState
  <2>5. RegisterState(d, 22)
    BY <2>2, <1>3 DEF RegisterState
  <2> QED
    BY <2>4, <2>5 DEF TrapState, WhoIsHere
<1>11. vector' = 3 => TrapState(cpu, 22)'
  <2>1. vector = 3 => TrapState(d, 22)'
    BY <1>1, <1>10, TrapStateKept
  <2> QED
    BY <2>1, <1>1, <1>8
<1>12. TrapType'
  <2>1. Shape(cpu)'
    BY <1>8, <1>9 DEF Shape
  <2> QED
    BY <2>1, <1>1, <1>2 DEF TrapType
<1>13. FrameState'
  BY <1>1, <1>3, <1>5, <1>6, <1>11 DEF FrameState
<1> QED
  BY <1>1, <1>7, <1>12, <1>13 DEF TrapInv

\* The handler of a breakpoint returns behind the call, to efi_main's frame.
LEMMA InthandlerReturnsKeeps ==
  ASSUME TrapInv, InthandlerReturns
  PROVE  TrapInv'
<1>1. /\ Calling("return") /\ ip = 0 /\ frames' = SubSeq(frames, 1, Len(frames) - 1)
      /\ ip' = 1 + CHOOSE i \in DOMAIN Code(Gates[vector].entry) : Code(Gates[vector].entry)[i] = <<"call">>
      /\ vector' = vector /\ cause' = cause /\ cpu' = cpu
  BY DEF InthandlerReturns
<1>2. TrapType /\ FrameState /\ FramesOk(frames)
  BY DEF TrapInv, FrameState
<1>3. ~NoReturn(Top.calls)
  <2>1. PICK calls \in Seq(CallNames) : calls = Top.calls
    BY <1>2, TopIs DEF FrameType
  <2>2. calls # << >> /\ Head(calls) = "return"
    BY <1>1, <2>1 DEF Calling, NextCall
  <2>3. 1 \in DOMAIN calls /\ calls[1] = "return"
    BY <2>1, <2>2
  <2> QED
    BY <2>1, <2>3 DEF NoReturn
<1>4. vector = 3 /\ TrapState(cpu, 22)
  BY <1>2, <1>3 DEF FrameState
<1>5. Len(frames) = 2
  BY <1>2, <1>3, TopIs DEF FramesOk, Top
<1>6. /\ frames' \in Seq(FrameType) /\ Len(frames') = 1 /\ DOMAIN frames' = {1}
      /\ frames'[1] = frames[1] /\ 1 \in DOMAIN frames
  <2>1. frames \in Seq(FrameType)
    BY <1>2 DEF FramesOk
  <2> QED
    BY <2>1, <1>1, <1>5
<1>7. FramesOk(frames') /\ NoReturn(Top'.calls)
  <2>1. Top' = frames[1]
    BY <1>6 DEF Top
  <2>3. frames' # << >>
    <3>1. DOMAIN << >> = {}
      OBVIOUS
    <3> QED
      BY <3>1, <1>6, Zenon
  <2>2. NoReturn(frames[1].calls) /\ (frames[1].at # "call" => frames[1].calls # << >>)
    BY <1>2, <1>6 DEF FramesOk
  <2> QED
    BY <2>1, <2>2, <2>3, <1>6 DEF FramesOk
<1>8. ip' = 25
  <2>1. vector \in Entrypoints /\ Gates[vector].entry = 3
    <3>1. vector \in Entrypoints
      BY <1>4 DEF Entrypoints
    <3>2. vector \in Vectors
      BY <1>2, <1>3 DEF FrameState
    <3> QED
      BY <3>1, <3>2, <1>4, GatesRight DEF EntryOf
  <2>2. PICK code : code = Code(3)
    OBVIOUS
  <2>3. DOMAIN code = 1..44 /\ \A n \in -2..41 : InstructionIs(n, 3, code[3 + n])
    <3>1. EntryLength(3) = 3
      BY DEF EntryLength, WithEcode
    <3>2. IsSequence(code, 44) /\ \A n \in -2..41 : InstructionIs(n, 3, code[3 + n])
      BY <2>2, <3>1, CodeAt
    <3> QED
      BY <3>2 DEF IsSequence
  <2>4. \A n \in -2..41 : n = 21 <=> code[3 + n] = <<"call">>
    BY <2>3, InstructionKind
  <2>5. \A i \in 1..44 : i = 24 <=> code[i] = <<"call">>
    <3> TAKE i \in 1..44
    <3>1. i - 3 \in -2..41 /\ 3 + (i - 3) = i /\ (i - 3 = 21 <=> i = 24)
      OBVIOUS
    <3> QED
      BY <3>1, <2>4
  <2>6. PICK c : c = CHOOSE i \in DOMAIN code : code[i] = <<"call">>
    OBVIOUS
  <2>7. ip' = 1 + c
    BY <2>1, <2>2, <2>6, <1>1
  <2>8. c \in 1..44 /\ code[c] = <<"call">>
    <3>1. 24 \in DOMAIN code /\ code[24] = <<"call">>
      BY <2>3, <2>5
    <3> QED
      BY <3>1, <2>3, <2>6
  <2> QED
    BY <2>5, <2>7, <2>8
<1>9. Place' = 22
  BY <1>1, <1>4, <1>8 DEF Place, EntryLength, WithEcode
<1>10. TrapState(cpu, Place)'
  <2>1. PICK d : d = cpu
    OBVIOUS
  <2>2. TrapState(d, 22)'
    BY <2>1, <1>1, <1>4, TrapStateKept
  <2> QED
    BY <2>1, <2>2, <1>1, <1>9
<1>11. TrapType'
  <2>1. vector \in Entrypoints /\ vector \in Vectors
    BY <1>2, <1>3, <1>4 DEF Entrypoints, FrameState
  <2> QED
    BY <2>1, <1>1, <1>2, <1>8, <1>9 DEF TrapType, Shape
<1>12. FrameState'
  BY <1>6, <1>7 DEF FrameState
<1> QED
  BY <1>10, <1>11, <1>12 DEF TrapInv

\* iretq finds the frame of the CPU, with every register restored.
LEMMA IretqResumes ==
  ASSUME TrapInv, Iretq
  PROVE  /\ TrapInv'
         /\ cpu'.r = cause.r /\ cpu'.fpu = cause.fpu /\ StackWord(cpu, 0) = cause.rip
<1>1. /\ ip > 0 /\ Instruction[1] = "iretq" /\ ip' = 0 /\ vector' = 0
      /\ cpu' = [cpu EXCEPT !.r["rsp"] = StackWord(cpu, 3), !.mem = << >>]
      /\ frames' = frames /\ cause' = cause
  BY DEF Iretq, consoleVars
<1>2. TrapType /\ FrameState /\ TrapState(cpu, 41)
  <2>1. TrapType /\ TrapState(cpu, Place) /\ FrameState
    BY <1>1 DEF TrapInv
  <2>2. Place = 41
    BY <1>1, <2>1, PlaceOfCall
  <2> QED
    BY <2>1, <2>2
<1>3. vector = 3 /\ vector \in Vectors \cup {13, 14}
  BY <1>1, <1>2 DEF TrapState, WhoIsHere, TrapType
<1>4. PICK top \in Int : top = StackTop(vector)
  BY <1>2, <1>3, StackFacts
<1>5. /\ cpu.r["rsp"] = top - 5
      /\ cpu.mem[top - 5] = FrameWord(5) /\ cpu.mem[top - 2] = FrameWord(2)
  <2>1. Depth(41) = 5 /\ Kept(41) = 21 /\ Extra = 0
    BY <1>3 DEF Depth, Kept, Extra
  <2>2. /\ cpu.r["rsp"] = top - 5
        /\ \A k \in 1..21 : cpu.mem[top - k] = FrameWord(k)
    BY <2>1, <1>2, <1>3, <1>4 DEF TrapState, StackState
  <2> QED
    BY <2>2
<1>6. FrameWord(5) = cause.rip /\ FrameWord(2) = cause.r["rsp"]
  BY DEF FrameWord
<1>7. StackWord(cpu, 0) = cause.rip
  <2>1. cpu.r["rsp"] + 0 = top - 5
    BY <1>5
  <2> QED
    BY <2>1, <1>5, <1>6 DEF StackWord
<1>8. StackWord(cpu, 3) = cause.r["rsp"]
  <2>1. cpu.r["rsp"] + 3 = top - 2
    BY <1>5
  <2> QED
    BY <2>1, <1>5, <1>6 DEF StackWord
<1>9. cpu.fpu = cause.fpu /\ \A i \in 1..15 : cpu.r[Greg[i]] = cause.r[Greg[i]]
  <2>1. 41 > 23 /\ \A i \in 1..15 : i <= 41 - 25
    OBVIOUS
  <2> QED
    BY <2>1, <1>2 DEF TrapState, RegisterState
<1>10. PICK r, f, mem, q : r = cpu.r /\ f = cpu.fpu /\ mem = cpu.mem /\ q = cause.r
  OBVIOUS
<1>11. /\ cpu = [r |-> r, fpu |-> f, mem |-> mem] /\ r \in [RegisterNames -> Int] /\ f \in Int
       /\ q \in [RegisterNames -> Int] /\ "rsp" \in RegisterNames
  BY <1>2, <1>10, RegisterFacts DEF TrapType, Shape
<1>12. cpu' = [r |-> [r EXCEPT !["rsp"] = q["rsp"]], fpu |-> f, mem |-> << >>]
  BY <1>1, <1>8, <1>10, <1>11
<1>13. [r EXCEPT !["rsp"] = q["rsp"]] = q
  <2>1. \A x \in RegisterNames : x # "rsp" => r[x] = q[x]
    <3>1. DOMAIN Greg = 1..15
      BY DEF Greg
    <3> QED
      BY <3>1, <1>9, <1>10 DEF RegisterNames
  <2> QED
    BY <2>1, <1>11
<1>14. cpu' = [r |-> q, fpu |-> f, mem |-> << >>]
  BY <1>12, <1>13
<1>15. TrapType'
  <2>1. Shape(cpu)'
    BY <1>11, <1>14 DEF Shape
  <2>2. cause.error = 0
    BY <1>2, <1>3 DEF TrapType, PushesErrorCode
  <2> QED
    BY <2>1, <2>2, <1>1, <1>2 DEF TrapType
<1>16. FrameState'
  <2>1. NoReturn(Top.calls) /\ Top' = Top
    BY <1>1, <1>2 DEF FrameState, Top
  <2> QED
    BY <2>1, <1>1, <1>2 DEF FrameState
<1>17. TrapInv'
  BY <1>1, <1>15, <1>16 DEF TrapInv
<1>18. cpu'.r = q /\ cpu'.fpu = f
  BY <1>14
<1> QED
  BY <1>7, <1>9, <1>10, <1>17, <1>18

-----------------------------------------------------------------------------
(* Every step keeps the invariant.                                         *)

LEMMA DeliverKeeps ==
  ASSUME TrapInv, NEW v \in Vectors \cup {13, 14}, NEW rip, NEW error, Deliver(v, rip, error),
         NoReturn(Top.calls), v = 3 => Len(frames) = 1
  PROVE  TrapInv'
<1>1. /\ TrapType' /\ (ip' > 0 => TrapState(cpu, Place)') /\ vector' = v
      /\ ip' > 0 => frames' = frames
      /\ ip' = 0 => panic
  BY DeliverState DEF TrapInv
<1>2. FramesOk(frames)
  BY DEF TrapInv, FrameState
<1>3. ip' \in Nat
  BY <1>1 DEF TrapType
<1>4. CASE ip' > 0
  <2>1. Top' = Top /\ frames' = frames
    BY <1>1, <1>4 DEF Top
  <2> QED
    BY <2>1, <1>1, <1>2 DEF TrapInv, FrameState
<1>5. CASE ip' = 0
  <2>1. FramesOk(frames') /\ NoReturn(Top'.calls)
    BY <1>1, <1>2, <1>5, PanicContinues DEF Continues
  <2> QED
    BY <2>1, <1>1, <1>5 DEF TrapInv, FrameState
<1> QED
  BY <1>3, <1>4, <1>5

\* efi_main's own frame has nothing to return to.
LEMMA BottomReturnsNot ==
  ASSUME FramesOk(frames), Len(frames) = 1
  PROVE  NoReturn(Top.calls)
BY TopIs DEF FramesOk, Top

LEMMA TrapInvStep ==
  ASSUME TrapInv, [TrapNext]_kernelVars
  PROVE  TrapInv'
<1>1. TrapType /\ FrameState /\ FramesOk(frames)
  BY DEF TrapInv, FrameState
<1>2. CASE ip = 0 /\ ConsoleStep /\ UNCHANGED trapVars
  BY <1>1, <1>2, ConsoleContinues, ContinuesKeeps
<1>3. CASE Step
  <2>1. TrapType' /\ TrapState(cpu, Place)' /\ ip' > 0 /\ vector' = vector
    BY <1>3, StepKeeps DEF TrapInv
  <2>2. ip > 0 /\ frames' = frames /\ Top' = Top
    BY <1>3 DEF Step, consoleVars, Top
  <2>3. NoReturn(Top.calls)
    BY <1>1, <2>2 DEF FrameState, TrapType
  <2> QED
    BY <1>1, <2>1, <2>2, <2>3 DEF TrapInv, FrameState
<1>4. CASE FxsaveFaults
  <2>1. ip > 0 /\ Deliver(13, ip, 0)
    BY <1>4 DEF FxsaveFaults
  <2>2. NoReturn(Top.calls)
    BY <1>1, <2>1 DEF FrameState, TrapType
  <2> QED
    BY <2>1, <2>2, DeliverKeeps
<1>5. CASE CallInthandler
  BY <1>5, CallInthandlerKeeps
<1>6. CASE ReadBytes
  <2>1. Calling("bytes") /\ ip = 0
    BY <1>6 DEF ReadBytes
  <2>2. Top.calls # << >>
    BY <2>1, CallingSome
  <2>3. NoReturn(Top.calls)
    <3>1. PICK calls \in Seq(CallNames) : calls = Top.calls
      BY <1>1, TopIs DEF FrameType
    <3>2. calls # << >> /\ Head(calls) = "bytes"
      BY <2>1, <3>1 DEF Calling, NextCall
    <3>3. 1 \in DOMAIN calls /\ calls[1] = "bytes"
      BY <3>1, <3>2
    <3> QED
      BY <1>1, <3>1, <3>3 DEF FrameState
  <2>4. CASE Done /\ UNCHANGED trapVars
    BY <2>1, <2>2, <2>4, <1>1, FramesDone, ContinuesKeeps
  <2>5. CASE Deliver(14, KernelRip + 1, 4)
    BY <2>3, <2>5, DeliverKeeps
  <2> QED
    BY <1>6, <2>4, <2>5 DEF ReadBytes
<1>7. CASE InthandlerPanics
  <2>1. ip = 0 /\ panic /\ UNCHANGED trapVars
    BY <1>7 DEF InthandlerPanics
  <2> QED
    BY <2>1, <1>1, PanicContinues, ContinuesKeeps
<1>8. CASE InthandlerReturns
  BY <1>8, InthandlerReturnsKeeps
<1>9. CASE Iretq
  BY <1>9, IretqResumes
<1>10. CASE KernelTraps
  <2>1. PICK v \in Vectors : Len(frames) = 1 /\ Deliver(v, KernelRip, 60)
    BY <1>10 DEF KernelTraps
  <2>2. NoReturn(Top.calls)
    BY <1>1, <2>1, BottomReturnsNot
  <2> QED
    BY <2>1, <2>2, DeliverKeeps
<1>11. CASE ip = 0 /\ KernelPanics /\ UNCHANGED trapVars
  <2>1. panic
    BY <1>11 DEF KernelPanics
  <2> QED
    BY <2>1, <1>1, <1>11, PanicContinues, ContinuesKeeps
<1>12. CASE UNCHANGED kernelVars
  <2>1. UNCHANGED trapVars /\ frames' = frames /\ Top' = Top
    BY <1>12 DEF kernelVars, consoleVars, Top
  <2>2. ip' = ip /\ vector' = vector /\ cause' = cause /\ cpu' = cpu /\ Place' = Place
    BY <2>1 DEF trapVars, Place, EntryLength
  <2>3. TrapType'
    BY <2>2, <1>1 DEF TrapType, Shape
  <2>4. ASSUME NEW n, TrapState(cpu, n) PROVE TrapState(cpu, n)'
    <3>1. PICK d : d = cpu
      OBVIOUS
    <3>2. TrapState(d, n)'
      BY <3>1, <2>2, <2>4, TrapStateKept
    <3> QED
      BY <3>1, <3>2, <2>2
  <2>5. ip' > 0 => TrapState(cpu, Place)'
    <3>1. PICK n : n = Place
      OBVIOUS
    <3>2. ip > 0 => TrapState(cpu, n)'
      BY <3>1, <2>4 DEF TrapInv
    <3> QED
      BY <3>1, <3>2, <2>2
  <2>6. TrapState(cpu, 22) => TrapState(cpu, 22)'
    BY <2>4
  <2>7. FrameState'
    BY <2>1, <2>2, <2>6, <1>1 DEF FrameState
  <2> QED
    BY <2>3, <2>5, <2>7 DEF TrapInv
<1> QED
  BY <1>2, <1>3, <1>4, <1>5, <1>6, <1>7, <1>8, <1>9, <1>10, <1>11, <1>12
     DEF TrapNext, CpuRuns, AtRest

LEMMA TrapInvInit == TrapInit => TrapInv
<1> SUFFICES ASSUME TrapInit PROVE TrapInv
  OBVIOUS
<1>1. /\ cpu = [r |-> Kernel.r, fpu |-> Kernel.fpu, mem |-> << >>]
      /\ ip = 0 /\ vector = 0
      /\ cause = [r |-> Kernel.r, fpu |-> Kernel.fpu, error |-> 0, rip |-> 0]
      /\ frames = <<Frame(EfiMainCalls)>>
  BY DEF TrapInit, ConsoleInit
<1>2. Kernel.r \in [RegisterNames -> Int] /\ Kernel.fpu \in Int
  <2>1. \A n \in RegisterNames : n # "rsp" => (CHOOSE i \in DOMAIN Greg : Greg[i] = n) \in Int
    <3>1. DOMAIN Greg = 1..15
      BY DEF Greg
    <3> QED
      BY <3>1 DEF RegisterNames
  <2> QED
    BY <2>1 DEF Kernel
<1>3. TrapType
  BY <1>1, <1>2 DEF TrapType, Shape
<1>4. EfiMainCalls \in Seq(CallNames) /\ NoReturn(EfiMainCalls)
  BY DEF EfiMainCalls, CallNames, NoReturn
<1>5. FramesOk(frames) /\ NoReturn(Top.calls)
  <2>1. PICK f : f = Frame(EfiMainCalls)
    OBVIOUS
  <2>4. f \in FrameType /\ f.calls = EfiMainCalls /\ f.at = "call"
    BY <2>1, <1>4 DEF Frame, FrameType
  <2>2. frames = <<f>>
    BY <1>1, <2>1
  <2>3. frames \in Seq(FrameType) /\ frames # << >> /\ DOMAIN frames = {1} /\ Len(frames) = 1 /\ frames[1] = f
    BY <2>2, <2>4
  <2> QED
    BY <2>3, <2>4, <1>4 DEF FramesOk, Top
<1> QED
  BY <1>1, <1>3, <1>5 DEF TrapInv, FrameState

\* What an exception has left on its stack and in the registers, instruction by
\* instruction, and who may return: whatever exceptions happen, and when.
THEOREM TrapsAreTracked == TrapSpec => []TrapInv
BY TrapInvInit, TrapInvStep, PTL DEF TrapSpec

LEMMA InfoFromTrap == TrapInv => InfoTellsCause
<1> SUFFICES ASSUME TrapInv, ip > 0, Instruction[1] = "call"
             PROVE  LET word(n) == cpu.mem[cpu.r["rdi"] + n]
                    IN  /\ Gates[vector].usable
                        /\ cpu.r["rsi"] = vector
                        /\ cpu.r["rsp"] % 2 = 0
                        /\ word(0) = cause.fpu
                        /\ \A i \in DOMAIN Greg : word(GregAt + i - 1) = cause.r[Greg[i]]
                        /\ word(ErrorCodeAt) = cause.error
                        /\ \A i \in 1..5 : word(CtxAt + i - 1) = <<cause.rip, 3, 2, cause.r["rsp"], 1>>[i]
  BY DEF InfoTellsCause
<1>1. TrapType /\ TrapState(cpu, 21)
  <2>1. TrapType /\ TrapState(cpu, Place)
    BY DEF TrapInv
  <2>2. Place = 21
    BY <2>1, PlaceOfCall
  <2> QED
    BY <2>1, <2>2
<1>2. vector \in Vectors \cup {13, 14} /\ vector # 8
  BY <1>1 DEF TrapType, TrapState, WhoIsHere
<1>3. PICK top \in Int : top = StackTop(vector) /\ top % 2 = 0
  BY <1>1, <1>2, StackFacts
<1>4. /\ cpu.r["rsp"] = top - 86 /\ cpu.r["rdi"] = top - 86 /\ cpu.r["rsi"] = vector
      /\ cpu.mem[top - 86] = cause.fpu
      /\ \A k \in 1..21 : cpu.mem[top - k] = FrameWord(k)
  <2>1. Depth(21) = 86 /\ Kept(21) = 21 /\ Extra = 0
    BY <1>2 DEF Depth, Kept, Extra
  <2>2. StackState(cpu, 21) /\ RegisterState(cpu, 21)
    BY <1>1 DEF TrapState
  <2> QED
    BY <2>1, <2>2, <1>2, <1>3 DEF StackState, RegisterState
<1> DEFINE word(n) == cpu.mem[cpu.r["rdi"] + n]
<1>5. ASSUME NEW n \in 65..85 PROVE word(n) = FrameWord(86 - n)
  <2>1. cpu.r["rdi"] + n = top - (86 - n) /\ 86 - n \in 1..21
    BY <1>4
  <2> QED
    BY <2>1, <1>4
<1>6. word(0) = cause.fpu
  <2>1. cpu.r["rdi"] + 0 = top - 86
    BY <1>4
  <2> QED
    BY <2>1, <1>4
<1> HIDE DEF word
<1>7. \A i \in DOMAIN Greg : word(GregAt + i - 1) = cause.r[Greg[i]]
  <2>1. DOMAIN Greg = 1..15
    BY DEF Greg
  <2> SUFFICES ASSUME NEW i \in 1..15
               PROVE  word(GregAt + i - 1) = cause.r[Greg[i]]
    BY <2>1
  <2>2. PICK n \in 65..79 : n = GregAt + i - 1 /\ 22 - (86 - n) = i
    BY DEF GregAt
  <2>3. word(n) = FrameWord(86 - n)
    BY <1>5
  <2>4. FrameWord(86 - n) = cause.r[Greg[i]]
    <3>1. ~(86 - n <= 6)
      OBVIOUS
    <3> QED
      BY <3>1, <2>2 DEF FrameWord
  <2> QED
    BY <2>2, <2>3, <2>4
<1>8. word(ErrorCodeAt) = cause.error
  <2>1. word(80) = FrameWord(86 - 80)
    BY <1>5
  <2>2. FrameWord(6) = cause.error
    BY DEF FrameWord
  <2> QED
    BY <2>1, <2>2 DEF ErrorCodeAt
<1>9. \A i \in 1..5 : word(CtxAt + i - 1) = <<cause.rip, 3, 2, cause.r["rsp"], 1>>[i]
  <2>1. ASSUME NEW i \in 1..5
        PROVE  word(CtxAt + i - 1) = <<cause.rip, 3, 2, cause.r["rsp"], 1>>[i]
    <3>1. PICK n \in 81..85 : n = CtxAt + i - 1
      BY DEF CtxAt
    <3>2. PICK k \in 1..5 : k = 6 - i /\ k = 86 - n
      BY <3>1 DEF CtxAt
    <3>3. word(n) = FrameWord(k)
      BY <3>1, <3>2, <1>5
    <3>4. FrameWord(k) = <<1, cause.r["rsp"], 2, 3, cause.rip, cause.error>>[k]
      BY DEF FrameWord
    <3> QED
      BY <3>1, <3>2, <3>3, <3>4
  <2> QED
    BY <2>1
<1>10. Gates[vector].usable
  BY <1>2, GatesRight
<1>11. cpu.r["rsp"] % 2 = 0
  <2>1. (top - 86) % 2 = 0
    BY <1>3
  <2> QED
    BY <2>1, <1>4
<1> QED
  BY <1>4, <1>6, <1>7, <1>8, <1>9, <1>10, <1>11 DEF word

\* inthandler is given the vector that was taken and, whatever was interrupted,
\* its registers, error code and CPU frame, on an aligned stack and by a gate
\* the CPU accepts.
THEOREM CauseIsTold == TrapSpec => []InfoTellsCause
BY TrapsAreTracked, InfoFromTrap, PTL

\* What leaves the code of an exception without a call is iretq.
LEMMA OnlyIretqLeaves ==
  ASSUME TrapInv, [TrapNext]_kernelVars, ip > 0, ip' = 0, frames' = frames
  PROVE  Iretq
<1>1. TrapType
  BY DEF TrapInv
<1>2. ~Step
  BY <1>1 DEF Step, TrapType
<1>3. ~CallInthandler
  BY CallInthandlerKeeps
<1>4. ~FxsaveFaults
  <2> SUFFICES ASSUME FxsaveFaults PROVE FALSE
    OBVIOUS
  <2>1. Gates[13].entry = 13
    BY GatesRight DEF EntryOf, Entrypoints
  <2> QED
    BY <2>1 DEF FxsaveFaults, Deliver
<1>5. ~UNCHANGED kernelVars
  BY DEF kernelVars, trapVars
<1> QED
  BY <1>2, <1>3, <1>4, <1>5
     DEF TrapNext, CpuRuns, KernelTraps, ReadBytes, InthandlerPanics, InthandlerReturns, AtRest

\* A breakpoint is transparent to the code it interrupts.
THEOREM BreakpointIsTransparent == TrapSpec => ResumesIntact
<1>1. TrapInv /\ [TrapNext]_kernelVars =>
        [ ip > 0 /\ ip' = 0 /\ frames' = frames =>
            cpu'.r = cause.r /\ cpu'.fpu = cause.fpu /\ StackWord(cpu, 0) = cause.rip ]_kernelVars
  BY OnlyIretqLeaves, IretqResumes
<1> QED
  BY <1>1, TrapsAreTracked, PTL DEF TrapSpec, ResumesIntact
=============================================================================
