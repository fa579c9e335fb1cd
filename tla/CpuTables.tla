----------------------------- MODULE CpuTables -----------------------------
(***************************************************************************)
(* The tables by which the CPU finds the entry point and the stack of an   *)
(* exception (x86.rs): GDT, task state segment and IDT, bit by bit as they *)
(* lie in memory, and how the CPU reads them.                              *)
(***************************************************************************)
EXTENDS Bits

Field(value, at) == Shl(value, at, 128)
Cut(value, from, width) == Shr(value, from) \cap Mask(width)

(* The GDT.  Selectors are byte offsets.                                   *)
KERNEL_CS == 8
TSS64_SEL == 24

KernelCode == {44, 43} \cup {47} \cup {53} \cup {41}   \* type, present, long mode, readable

\* TaskStateSegment64Descriptor: limit, base in four parts, attributes.
TaskStateSegment64Descriptor(base) ==
  Field(Bin(104), 0) \cup
  Field(Cut(base, 0, 16), 16) \cup Field(Cut(base, 16, 8), 32) \cup
  Field({0, 3, 7, 15}, 40) \cup
  Field(Cut(base, 24, 8), 56) \cup Field(Cut(base, 32, 32), 64)

(* TaskStateSegment64::new.  A stack for rsp0 is allocated first, then     *)
(* those of _ist[1] to _ist[7]; _rsp and _ist follow four reserved bytes.  *)
alloc_interrupt_stack(i) == 3001 + 200 * i   \* ends anywhere: a [u8] is not aligned
IstOffset(n) == 4 + 3 * 8 + 8 * n
TssAddress == {3, 12, 18, 26, 35}
Tss == [o \in { IstOffset(n) : n \in 1..7 } |->
          alloc_interrupt_stack(CHOOSE n \in 1..7 : IstOffset(n) = o)]

Gdt(selector) ==
  CASE selector = KERNEL_CS -> KernelCode
    [] selector = TSS64_SEL -> TaskStateSegment64Descriptor(TssAddress)

(* The IDT.  Entry points are known by their vector; 0 stands for          *)
(* int_handler_unimplemented.                                              *)
Entrypoints == {3, 6, 8, 13, 14, 32}
AddressOf(entry) == {21, 34} \cup Shl(Bin(entry), 12, 64)

IntGateDPL0 == {1, 2, 3} \cup {7}
IntGateDPL3 == IntGateDPL0 \cup {5, 6}

\* offset_low, segment_selector, ist_index, attr, offset_mid, offset_high
IdtDescriptor(selector, ist, attr, f) ==
  Field(Cut(f, 0, 16), 0) \cup Field(selector, 16) \cup Field(ist, 32) \cup Field(attr, 40)
  \cup Field(Cut(f, 16, 16), 48) \cup Field(Cut(f, 32, 32), 64)

\* Idt::new
Idt(v) ==
  IdtDescriptor(Bin(KERNEL_CS),
                Bin(IF v = 8 THEN 2 ELSE 1),
                IF v = 3 THEN IntGateDPL3 ELSE IntGateDPL0,
                AddressOf(IF v \in Entrypoints THEN v ELSE 0))

-----------------------------------------------------------------------------
(* The CPU.                                                                *)

\* An interrupt gate that is present, to a 64-bit code segment that is.
IsUsable(gate) ==
  /\ 47 \in gate /\ Cut(gate, 40, 4) = Bin(14)
  /\ LET code == Gdt(Num(Cut(gate, 16, 16)))
     IN  {43, 44, 47, 53} \subseteq code

GateAddress(gate) == Cut(gate, 0, 16) \cup Shl(Cut(gate, 48, 48), 16, 64)
EntrypointAt(address) == CHOOSE e \in Entrypoints \cup {0} : AddressOf(e) = address

\* The stack of the gate's index; the base of the TSS is in the GDT.
BaseOf(descriptor) == Cut(descriptor, 16, 24) \cup Shl(Cut(descriptor, 56, 40), 24, 64)
StackOf(gate) ==
  LET memory == [a \in {TssAddress} |-> Tss]
  IN  memory[BaseOf(Gdt(TSS64_SEL))][36 + 8 * (Num(Cut(gate, 32, 3)) - 1)]
=============================================================================
