----------------------------- MODULE Interrupts -----------------------------
(***************************************************************************)
(* Exceptions (x86.rs): what the CPU pushes, the entry points and          *)
(* inthandler_common instruction by instruction, the layout of             *)
(* InterruptInfo, and inthandler, which prints and, but for a breakpoint,  *)
(* panics (Console).  Entry point and stack are found through CpuTables.   *)
(*                                                                         *)
(* Addresses and the stack are in words of 8 bytes, so the 16-byte         *)
(* boundary is an even address.  The gates are interrupt gates and the     *)
(* kernel's exceptions come from its own code, so nothing interrupts a     *)
(* handler but its own faults.                                             *)
(***************************************************************************)
EXTENDS Console, CpuTables

CONSTANTS
  Vectors,   \* the exceptions and interrupts that happen
  MaxY       \* bound: no trap once the cursor is below

ASSUME VectorAssumption == Vectors \subseteq 0..255

VARIABLES
  cpu,        \* r: registers, fpu, mem: the interrupt stacks as far as written
  ip,         \* the instruction of Code(vector), 0 outside it
  vector,     \* the interrupt last taken,
  cause,      \* what the CPU was doing: its registers, error code and rip,
  first       \* and the vector kernel code was interrupted with

trapVars == <<cpu, ip, vector, cause, first>>
kernelVars == <<consoleVars, trapVars>>

\* GeneralRegisterContext.
Greg == << "rax", "rdx", "rbx", "rbp", "rsi", "rdi", "r8", "r9", "r10", "r11", "r12",
           "r13", "r14", "r15", "rcx" >>
RegisterNames == { Greg[i] : i \in DOMAIN Greg } \cup {"rsp"}
CallerSaved == {"rax", "rcx", "rdx", "rsi", "rdi", "r8", "r9", "r10", "r11"}
Kernel == [r |-> [n \in RegisterNames |-> IF n = "rsp" THEN 2900 ELSE 1000 + (CHOOSE i \in DOMAIN Greg : Greg[i] = n)],
           fpu |-> 1100]
Clobbered == 7

\* InterruptInfo, in words: fpu_context, _dummy, greg, error_code, ctx.
GregAt == 65
ErrorCodeAt == 80
CtxAt == 81

-----------------------------------------------------------------------------
(* The code.  Stack space in words.                                        *)
Saved == SubSeq(Greg, 1, 14)   \* all but rcx
PopAll == [i \in 1..14 |-> <<"pop", Saved[i]>>]
PushAll == [i \in 1..14 |-> <<"push", Saved[15 - i]>>]

\* Mutant: rcx is saved where the error code belongs.
interrupt_entrypoint_swapped(v) == << <<"push", "rcx">>, <<"push 0">>, <<"load", "rcx", v>> >>

interrupt_entrypoint(v) == << <<"push 0">>, <<"push", "rcx">>, <<"load", "rcx", v>> >>
interrupt_entrypoint_with_ecode(v) == << <<"push", "rcx">>, <<"load", "rcx", v>> >>

\* Mutant: rdx and rax are swapped at the end.
RestoreSwapped == << <<"pop", "rdx">>, <<"pop", "rax">> >> \o SubSeq(PopAll, 3, 14)
Restore == PopAll

FpuSpace == 65   \* 512 + 8 bytes

inthandler_common ==
  PushAll \o
  << <<"add rsp", -FpuSpace>>, <<"fxsave64">>,
     <<"mov", "rdi", "rsp">>, <<"mov", "rbp", "rsp">>, <<"and rsp, -16">>, <<"mov", "rsi", "rcx">>,
     <<"call">>,
     <<"mov", "rsp", "rbp">>, <<"fxrstor64">>, <<"add rsp", FpuSpace>> >>
  \o Restore \o << <<"pop", "rcx">>, <<"add rsp", 1>>, <<"iretq">> >>

WithEcode == {13, 14}
Code(v) == (IF v \in WithEcode THEN interrupt_entrypoint_with_ecode(v) ELSE interrupt_entrypoint(v))
             \o inthandler_common

\* What the CPU finds in the tables for each vector.
Gates == [v \in Vectors \cup {13, 14} |->
            [usable |-> IsUsable(Idt(v)), entry |-> EntrypointAt(GateAddress(Idt(v))),
             stack |-> StackOf(Idt(v))]]
Instruction == Code(Gates[vector].entry)[ip]

-----------------------------------------------------------------------------
(* The CPU.                                                                *)
PushesErrorCode == {8, 13, 14}

Align(rsp) == rsp - (rsp % 2)
Store(memory, a, w) == [b \in DOMAIN memory \cup {a} |-> IF b = a THEN w ELSE memory[b]]
PushWord(c, w) == [c EXCEPT !.r["rsp"] = @ - 1, !.mem = Store(@, c.r["rsp"] - 1, w)]
StackWord(c, n) == c.mem[c.r["rsp"] + n]

\* ss, rsp, rflags, cs, rip and, for some vectors, the error code.
CpuPushes(v, rip, error) ==
  LET top == [cpu EXCEPT !.r["rsp"] = Align(Gates[v].stack)]
      c == PushWord(PushWord(PushWord(PushWord(PushWord(top, 1), cpu.r["rsp"]), 2), 3), rip)
  IN  IF v \in PushesErrorCode THEN PushWord(c, error) ELSE c

Execute(c, i) ==
  CASE i[1] = "push" -> PushWord(c, c.r[i[2]])
    [] i[1] = "push 0" -> PushWord(c, 0)
    [] i[1] = "load" -> [c EXCEPT !.r[i[2]] = i[3]]
    [] i[1] = "mov" -> [c EXCEPT !.r[i[2]] = c.r[i[3]]]
    [] i[1] = "add rsp" -> [c EXCEPT !.r["rsp"] = @ + i[2]]
    [] i[1] = "and rsp, -16" -> [c EXCEPT !.r["rsp"] = Align(@)]
    [] i[1] = "pop" -> [c EXCEPT !.r[i[2]] = StackWord(c, 0), !.r["rsp"] = @ + 1]
    [] i[1] = "fxsave64" -> [c EXCEPT !.mem = Store(@, c.r["rsp"], c.fpu)]
    [] i[1] = "fxrstor64" -> [c EXCEPT !.fpu = StackWord(c, 0)]

-----------------------------------------------------------------------------
(* An interrupt is delivered.  Vectors without an entry point go to        *)
(* int_handler_unimplemented, which panics.                                *)
Deliver(v, rip, error) ==
  /\ vector' = v
  /\ cause' = [r |-> cpu.r, fpu |-> cpu.fpu, error |-> IF v \in PushesErrorCode THEN error ELSE 0, rip |-> rip]
  /\ cpu' = CpuPushes(v, rip, error)
  /\ IF Gates[v].entry # 0 THEN ip' = 1 /\ UNCHANGED frames ELSE ip' = 0 /\ panic
  /\ UNCHANGED <<screen, locked, writer, cursor, drawn, idt, exited>>

\* Kernel code traps: between two calls or in the middle of printing.
KernelRip == 50
KernelTraps ==
  /\ idt /\ ip = 0 /\ Len(frames) = 1 /\ ~exited /\ cursor.y <= MaxY
  /\ \E v \in Vectors : Deliver(v, KernelRip, 60) /\ first' = v

\* fxsave64 and fxrstor64 want 16 bytes.
Misaligned == Instruction[1] \in {"fxsave64", "fxrstor64"} /\ cpu.r["rsp"] % 2 = 1

FxsaveFaults == ip > 0 /\ Misaligned /\ Deliver(13, ip, 0) /\ UNCHANGED first

Step ==
  /\ ip > 0 /\ Instruction[1] \notin {"call", "iretq"} /\ ~Misaligned
  /\ cpu' = Execute(cpu, Instruction)
  /\ ip' = ip + 1
  /\ UNCHANGED <<consoleVars, vector, cause, first>>

\* inthandler by the Int# in rsi; it leaves the caller's registers undefined.
HandlerCalls(index) ==
  <<"line", "line", "line">> \o
  CASE index = 3 -> <<"return">>
    [] index = 13 -> <<"line", "bytes", "line", "panic">>
    [] index = 14 -> <<"line", "line", "panic">>
    [] OTHER -> <<"panic">>

CallInthandler ==
  /\ ip > 0 /\ Instruction[1] = "call"
  /\ Push(HandlerCalls(cpu.r["rsi"]))
  /\ ip' = 0
  /\ cpu' = [cpu EXCEPT !.r = [n \in RegisterNames |-> IF n \in CallerSaved THEN Clobbered ELSE @[n]],
                        !.fpu = Clobbered]
  /\ UNCHANGED <<screen, locked, writer, cursor, drawn, idt, exited, vector, cause, first>>

\* The handler of vector 13 reads 16 bytes at rip, which may fault.
ReadBytes ==
  /\ Calling("bytes") /\ ip = 0
  /\ \/ /\ Done
        /\ UNCHANGED <<screen, locked, writer, cursor, drawn, idt, exited, trapVars>>
     \/ Deliver(14, KernelRip + 1, 4) /\ UNCHANGED first

InthandlerPanics ==
  /\ Calling("panic") /\ ip = 0
  /\ panic
  /\ UNCHANGED <<screen, locked, writer, cursor, drawn, idt, exited, trapVars>>

InthandlerReturns ==
  /\ Calling("return") /\ ip = 0
  /\ frames' = SubSeq(frames, 1, Len(frames) - 1)
  /\ LET code == Code(Gates[vector].entry)
     IN  ip' = 1 + CHOOSE i \in DOMAIN code : code[i] = <<"call">>
  /\ UNCHANGED <<screen, locked, writer, cursor, drawn, idt, exited, cpu, vector, cause, first>>

Iretq ==
  /\ ip > 0 /\ Instruction[1] = "iretq"
  /\ cpu' = [cpu EXCEPT !.r["rsp"] = StackWord(cpu, 3), !.mem = << >>]
  /\ ip' = 0 /\ vector' = 0
  /\ UNCHANGED <<consoleVars, cause, first>>

-----------------------------------------------------------------------------
TrapInit ==
  /\ ConsoleInit
  /\ cpu = [r |-> Kernel.r, fpu |-> Kernel.fpu, mem |-> << >>]
  /\ ip = 0 /\ vector = 0 /\ first = 0
  /\ cause = [r |-> Kernel.r, fpu |-> Kernel.fpu, error |-> 0, rip |-> 0]

CpuRuns ==
  \/ ip = 0 /\ ConsoleStep /\ UNCHANGED trapVars
  \/ Step \/ FxsaveFaults \/ CallInthandler \/ ReadBytes \/ InthandlerPanics \/ InthandlerReturns \/ Iretq

\* Halted, waiting for tasks, or panicking over and over.
AtRest ==
  /\ exited \/ Top.calls = << >> \/ Len(frames) = MaxDepth
  /\ UNCHANGED kernelVars

TrapNext == CpuRuns \/ KernelTraps \/ (ip = 0 /\ KernelPanics /\ UNCHANGED trapVars) \/ AtRest
TrapSpec == TrapInit /\ [][TrapNext]_kernelVars /\ WF_kernelVars(CpuRuns)

-----------------------------------------------------------------------------
\* What inthandler is given: the vector that was taken, and an InterruptInfo in
\* which every general register, the error code and the five words of the CPU
\* are those of the code that was interrupted; on a stack aligned for a call,
\* and by a gate the CPU accepts.
\* (The double fault never gets that far: see FaultIsReported.)
InfoTellsCause ==
  ip > 0 /\ Instruction[1] = "call" =>
    LET word(n) == cpu.mem[cpu.r["rdi"] + n]
    IN  /\ Gates[vector].usable
        /\ cpu.r["rsi"] = vector
        /\ cpu.r["rsp"] % 2 = 0
        /\ word(0) = cause.fpu
        /\ \A i \in DOMAIN Greg : word(GregAt + i - 1) = cause.r[Greg[i]]
        /\ word(ErrorCodeAt) = cause.error
        /\ \A i \in 1..5 : word(CtxAt + i - 1) = <<cause.rip, 3, 2, cause.r["rsp"], 1>>[i]

\* A breakpoint is transparent: when kernel code goes on after iretq, every
\* register, rsp and the floating point state are as they were, and iretq has
\* found the frame the CPU pushed.
ResumesIntact ==
  [][ ip > 0 /\ ip' = 0 /\ frames' = frames =>
        cpu'.r = cause.r /\ cpu'.fpu = cause.fpu /\ StackWord(cpu, 0) = cause.rip ]_kernelVars

\* A trap that does not interrupt printing comes to an end: the kernel goes on,
\* or everything is printed and QEMU is left.  (One that interrupts efi_main while
\* it holds the writer's lock panics over and over: each panic prints.)
PanicEnds ==
  (Len(frames) > 1 /\ frames[1].at # "draw") ~> (exited \/ Len(frames) = 1)

\* The vector kernel code was interrupted with is the one inthandler reports.
FaultIsReported ==
  ip > 0 /\ Instruction[1] = "call" /\ Len(frames) = 1 => cpu.r["rsi"] = first
=============================================================================
