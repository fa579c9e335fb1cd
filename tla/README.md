# WasabiOS in TLA+

A verification project for the kernel in `src/HelloWorld/wasabi`: a small UEFI
operating system in Rust with its own heap, page tables, cooperative executor,
and an xHCI driver that talks to USB keyboards and tablets. All paths below are
relative to `src/HelloWorld/wasabi/src/`.

## 1. The system

The firmware starts `efi_main` (`main.rs`). It leaves the boot services, gives
the conventional memory of the UEFI map to the heap, sets up exceptions, paging,
the HPET and PCI, attaches the xHCI driver, spawns four tasks and enters the
executor, which never returns. There is one CPU. Interrupts are not used for
I/O: everything is polled. So the concurrency of the system is

* between *tasks*, which interleave only where one awaits;
* between the *CPU and the xHC*, which share rings and buffers in memory and
  interleave at every store;
* between kernel code and *exceptions*, which may come at any instruction, print,
  and panic where the code they interrupted was printing.

| part | state | operations | talks to |
|---|---|---|---|
| heap (`allocator.rs`) | list of `Header`s inside the memory they describe | `init_with_mmap`, `alloc`, `dealloc` | everything that allocates |
| executor (`executor.rs`, `mutex.rs`) | queue of tasks under a spin lock | `spawn_global`, `run`; futures `Yield`, `TimeoutFuture` | tasks by `poll`; HPET |
| command and transfer rings (`xhci.rs`) | 16 TRBs, index, cycle state | `CommandRing::push` | xHC through memory and doorbells |
| event ring (`xhci.rs`) | 16 TRBs, index, cycle state, ERDP, wait list | `pop`, `poll`, `register_waiter` | xHC through memory; waiting requests |
| xHCI requests (`xhci.rs`, `usb.rs`) | the request under way, its waiter and buffer | `send_command`, `request_*`, `EventFuture` | rings, executor |
| xHCI bring-up (`xhci.rs`) | registers, device contexts, slots | `attach`, `run`, `init_port`, `address_device` | PCI, requests |
| USB (`usb.rs`, `keyboard.rs`, `tablet.rs`) | descriptors, pressed keys | parse, select interface, report loop | requests |
| paging (`x86.rs`) | page tables, CR3 | `create_mapping`, `init_paging`, `disable_cache` | CPU |
| exceptions (`x86.rs`) | GDT, TSS, IDT, interrupt stacks | entry points, `inthandler` | CPU, output, panic handler |
| boot (`uefi.rs`, `init.rs`) | memory map and its key | `get_memory_map`, `exit_from_efi_boot_services` | firmware |
| PCI, ACPI, HPET (`pci.rs`, `acpi.rs`, `hpet.rs`) | configuration space, tables, a counter | enumeration, BARs, `global_timestamp` | hardware |
| output (`graphics.rs`, `print.rs`, `serial.rs`) | frame buffer, cursor | drawing, printing | hardware |

What is hard to test here, and what would be wrong, is listed line by line under
`hazards` in `PROJECT.json`. In short: splits of the heap that overlap, leak or
lose the list; TRBs seen half written or in the wrong lap; completion events
that come before anybody waits, or answer the wrong request because addresses
repeat; buffers the controller still writes to; tasks lost between poll and
requeue or starved because no waker does anything; a lock held over a poll; page
tables changed under the CPU's feet; a memory map that changes while the kernel
tries to leave the firmware; lengths in descriptors that a device chose; register
bits that a careless write back clears; a controller that is started before it is
set up; a stack frame laid out in four places; a panic while the lock of the
screen is held.

## 2. Modules

| module | models |
|---|---|
| `Allocator` | `FirstFitAllocator`. `heap` maps the address of each `Header` to its fields. `add_free_from_descriptor` is one iteration of `init_with_mmap`; `alloc_with_options` starts a call, and `AllocProvide`, `AllocNextHeader`, `AllocReturnNull` are the three ways its loop goes on; `dealloc` clears the flag. `Carve` is the whole of `Header::provide` after its check. |
| `TrbQueue` | abstract: what a ring promises, a bounded FIFO queue that delivers in the end |
| `CommandRing` | `CommandRing::push` over `TrbRing`, one action per store the xHC can see: both halves of the TRB write, the cycle bit, the Link's cycle bit; then the doorbell. The xHC (external) takes TRBs, follows the Link, stops. |
| `EventRing` | `EventRing::pop` in three steps (copy; check and advance; ERDP and toggle) against an xHC that posts events as far as ERDP lets it |
| `Executor` | `Executor::run`, `spawn_global`, `Mutex::lock`, `Yield`, `TimeoutFuture`; a task is the sequence of awaits and spawns it makes |
| `Xhci` | the requests `run` makes, in their order, from Enable Slot to the reports of a keyboard or the one request of a tablet; `send_command`, the `request_*` functions, `EventFuture`, `EventWaitInfo::matches`, `EventRing::poll` with its cleanup, one step per `wait_list.remove`; the rings are queues here, which the two ring modules justify |
| `Trb` | the TRBs that `Xhci` sends and receives, field by field: types, stages of a control transfer, completion codes, slot id |
| `Paging` | `create_mapping` with its four nested loops as `Descend`, `set_page`, `Leave`; `init_paging`; both `disable_cache` functions on the table in CR3; `TlbFill` is the CPU (external), which may remember any translation it finds |
| `Bits` | words as sets of the positions of their 1 bits, so that 64 bits are exact: `extract_bits`, `read_bits`, `write_bits` |
| `Boot` | `exit_from_efi_boot_services`: `GetMemoryMap` up to its assertion, `ExitBootServices`; `MapNext` is `MemoryMapIterator::next` for `init_with_mmap`; the firmware (external) changes its map at any time. A status other than `Success` is no value of `EfiStatus`, so comparing one gives either answer |
| `XhciBringUp` | `Controller::new` (stop, reset, slots, contexts, scratchpads, rings, start), then `run` up to the device's first doorbell: the connected port, `reset_port`, Enable Slot, the input context bit by bit. The xHC (external) halts, resets and starts in its own time; users plug devices in and out |
| `Platform` | what is between the firmware and the driver: the ACPI tables, the HPET from `globally_disable` to `set_global_hpet`, the PCI probe loop, the command register, BAR0 read, sized and restored |
| `EfiMain` | composes `Boot`, `Platform` and `XhciBringUp` in the order of `efi_main`, with firmware, xHC, users and clock in between |
| `Graphics` | `fill_rect`, `draw_line`, characters and the test pattern as sets of pixel offsets: a pixel past the end of a line is one of the next |
| `Console` | `global_print` (serial port, lock, draw, drop), the cursor of `write_str`, `lock` giving up, `panic` and `exit_qemu`; `frames` is the call stack of those that print |
| `CpuTables` | GDT, TSS and IDT as they lie in memory, and how the CPU (external) reads them: is a gate usable, which entry point, which stack |
| `Interrupts` | composes both: an exception at any point of `efi_main`'s printing or inside a handler; the frame the CPU pushes, the entry points and `inthandler_common` instruction by instruction, `inthandler`, `iretq` |
| `UsbDescriptors` | what precedes a driver: `DescriptorIterator::next` under `collect`, including its panics, then the loop of `pick_interface_with_triple`, one action per arm of its `match` |
| `Keyboard` | `start_usb_keyboard`: `SetProtocol`, one report and its differences per round; `from_usb_key_id` |
| `UsbDrivers` | composes them: the keyboard's driver, and when it gives up the tablet's, over the same descriptors |
| `AllocatorProofs`, `ExecutorProofs`, `EventRingProofs`, `CommandRingProofs`, `XhciProofs`, `PagingProofs`, `UsbDriversProofs` | theorems about the module each is named after and the modules it extends (section 4) |
| `KernelProofs` | theorems about `EfiMain` and about `Interrupts`, which share `Bits` |
| `MC*` | constants for TLC |

Definitions that begin with a comment "Mutant" are not part of the model: they
are plausible mistakes that the runs have been checked to catch.

The xHC, the HPET, the CPU, the firmware and the devices are not in the repository; they
are modelled from what the code relies on. The xHC takes a TRB whose cycle bit equals its
cycle state, toggles at a Link, posts events up to ERDP, stops a transfer ring on an error
and reports the error for the TRB it hit; a 1 written to a change bit of PORTSC clears it.
The CPU remembers translations until CR3 is written, reads its tables by the positions of
the architecture's manual, pushes an error code for some vectors, and faults on an
unaligned `fxsave64`. The keyboard reports the keys held at the moment it is asked.

## 3. What is checked

| run | question | result |
|---|---|---|
| `heap` | Do the blocks always partition the managed memory; are objects apart, aligned and backed; are held blocks left alone; is every Header on the list; can the assert fail; does every call return? Is `round_up_to_nearest_pow2` the nearest power of two for every word, 0 and overflow included, and every block of that size? | holds |
| `heap_reuse` | Can what was freed be allocated again? | **violated** |
| `command_ring` | Does the ring implement `TrbQueue`, with the xHC reading at any time; does `push` ever fail? | holds |
| `event_ring` | Does the ring implement `TrbQueue`, so that what `pop` returns is what was posted, in order, and the xHC can post when all is read? | holds |
| `executor` | Is every task in exactly one place; is the lock free in a poll; is polling round robin; does everything finish or run again and again? | holds |
| `requests` | Does each request get its own completion, and in the end; is no buffer left to the xHC; does the wait list keep the waiter that is awaited, and not pile up others; how many TRBs are outstanding? | holds |
| `enable_slot_fails` | Is an output context ever set for slot 0? | **violated** |
| `paging` | Is exactly the range mapped, whichever tables it crosses; is every page mapped at every moment; is no translation stale afterwards; is all usable memory mapped after `init_paging`; do the loops end? | holds |
| `boot` | Does the heap get the firmware's last map; is BAR0 found, sized and put back; does the xHC only ever run with a complete set of structures; are ports changed only as meant; does Address Device describe the device that is there; does booting end with time advancing? | holds |
| `interrupts` | Is what `inthandler` is told what happened, by a usable gate and on an aligned stack; is a breakpoint transparent; does drawing stay inside the frame buffer; does a panic get as far as leaving QEMU? | holds |
| `double_fault` | Is the exception that is reported the one that happened? | **violated** |
| `usb` | Is every well formed answer parsed; do the configuration, interface and endpoints picked belong together, for both drivers; do the key events add up to the keys held when the last report was made, as far as it has slots for them; is every held key shown? | holds |

### Disagreements found

* **Freed memory is not reusable** (`allocator.rs:60`). `provide` makes a block of
  `size + HEADER_SIZE`; `can_provide` wants `size + 2 * HEADER_SIZE + align`; blocks
  are never merged. Alternating one `alloc` and one `dealloc` uses up the heap.
* **A failed Enable Slot panics the kernel** (`xhci.rs:236`, `595`).
* **A double fault is reported as a general protection fault** (`x86.rs:442`). The CPU
  pushes an error code for vector 8, and so does the entry point; `fxsave64` then meets
  an unaligned stack.

Seen on the way, and modelled as they are, without a run of their own:

* "Command Ring is Full" is never returned (`xhci.rs:1140`): the check compares two bits that
  only `push` changes. The ring is safe up to `NUM_TRB - 2` outstanding TRBs, one fewer
  than its slots: with `NUM_TRB - 1` and the xHC standing on the Link, the push that wraps
  flips the Link's bit back. `FewOutstanding` shows the driver keeps to four of the sixteen.
* An error in front of the awaited TRB leaves a request waiting for ever, as there is no
  timeout, and nothing restarts the endpoint (for example when the tablet's driver is
  tried after a failed keyboard request). `RequestsReturn` names the case.
* `EfiStatus` has one variant (`uefi.rs:47`), so a failure of the firmware is no value of the
  type: the loop around `exit_boot_services` may end with boot services alive, and a failed
  `locate_protocol` may be taken for a success. `memory_map_size` is in and out and never set
  back (`uefi.rs:183`), so a map that grew makes the second round's assertion fail.
* `SetupStageTrb::new` chooses the transfer type from `request`, not from the request type
  (`xhci.rs:1525`): every transfer from a device is announced as one to it. SET_PROTOCOL is
  sent as a standard request, where its number is SET_INTERFACE's, with the number of the
  configuration for the interface (`keyboard.rs:57`).
* `set_port_speed` shifts right (`xhci.rs:531`), so the speed in the slot context is 0.
* Scratchpad buffers are copied into boxes that need not be aligned, and the aligned ones are
  leaked (`xhci.rs:446-456`). Controller Not Ready is not awaited after the reset.
* There are as many doorbells as ports (`xhci.rs:89`), where the comment counts slots.
* Only 0 is filtered from a report (`keyboard.rs:67`). With more keys than slots the rollover code
  is shown as a key, `Unknown(1)`, and every held key as up. `EventsTellKeys` names the case.
* An interface that matches before any configuration makes `pick_interface_with_triple` give up at
  the first configuration, even if a later one has a match (`usb.rs:323`). `PickedBelongTogether`
  names the case.
* The status half of the PCI command register, whose bits a 1 clears, is written back as read.
* The ring of the control endpoint is dropped when `run` returns, while the xHC still has it.
* An exception while the writer's lock is held panics without end and never leaves QEMU.
* The page fault message tests bit 4 of the error code for a write; the CPU uses bit 1. The
  limit of the IDT is one too large.
* `draw_line` leaves out its end point; screens too narrow or too low for the test pattern panic;
  text below the last line is not shown.
* `extract_bits` of width 64 masks 63 bits; no caller asks for it.
* Over a 32-bit HPET that wraps, `global_timestamp() - t0` panics.
* The serial port loses characters that arrive together, because `try_read` clears the FIFO
  (`serial.rs:68`), and stays in loopback mode when its test fails (`serial.rs:54`).

### Bounds

* `heap`: 7 bit addresses, 8 byte pages, 2 byte Headers. The code only uses that the
  Header is a power of two and a page a multiple of it. The map has a region at 0 of
  which two pages are left, one too small, one of another type, and one that ends where
  the address space does. Layouts: below, at and above the Header in size and alignment, so that
  padding occurs and does not. Three objects at a time make a split of a split
  with freed blocks in between.
* `command_ring`: five TRBs, requests of up to three, at most three outstanding: every
  position of a request relative to the Link, on odd and even laps. Behaviours are
  unbounded in length.
* `event_ring`: four TRBs. Two are excluded by an assumption: with ERDP one behind, the
  xHC would wait for ever.
* `executor`: tasks that sleep, yield, spawn and loop, one of each.
* `requests`: `Usable = 4` addresses per lap and ten requests, which is the whole of a
  bring-up, several reports and the tablet after a failed one; the control ring wraps
  many times and every address is used again; events of ports in between; an event ring
  of two.

* `paging`: four levels of two entries, 16 pages of two bytes. Ranges inside one page,
  across tables of levels 1 to 3 at once with a partial last page, up to the last
  address, and an unaligned one. One remembered translation stands for a TLB, as the
  property speaks of each entry by itself.
* `boot`: maps of one to three descriptors in a buffer of three, and one change of the map at
  any point; nine machines: complete, without ACPI, HPET or MCFG, with an HPET in I/O space or
  without a period, with two ECAM windows, without an xHC, with a 32-bit BAR. An xHC with two
  ports, three slots and 33 scratchpads, so that both fields of their number count and a slot
  has no doorbell; a full speed device, a high speed one and one whose speed the driver does not know; one
  device that comes or goes at any point. A counter that has counted once counts.
* `interrupts`: characters of 2 by 3 pixels and a test pattern of 4 by 8 on four screens: with
  and without padding at the end of a line, too narrow, too low. Every vector with an entry
  point and one without. Five frames: `efi_main`, a handler, a fault in it, and two panics.
  Cursor positions past the last line.
* `usb`: all rows of up to four descriptors of six kinds, and of five of the four kinds the
  selection tells apart, which is two configurations with interfaces and an endpoint; all
  byte strings up to four; answers that end in zeroes or in a single byte. Interfaces of a
  keyboard and of a tablet, so that either driver skips the other's. Two keys and
  one slot, so that rollover happens.

### Fairness

* `Allocator`, `CommandRing` (driver), `Executor` (`Step`), `Xhci` (`CpuStep`): weak
  fairness of the code that runs. There is one CPU, it is not preempted, and it does not
  stop.
* `EventRing` (`Pop`): the task that polls is a task of the executor, and `LoopsKeepRunning`
  is the reason it is polled again and again.
* the xHC, per ring: it runs a ring whose doorbell was rung. The HPET counts.
* `Paging` (`Step`), `EfiMain` (`Main`), `Interrupts` (`CpuRuns`), `UsbDrivers` (`Step`): the code
  that runs; for the drivers this includes that a report is answered or fails
  (`RequestsReturn`).
* `EfiMain` also of the xHC, which obeys Run/Stop and reset and ends the reset of a port, and of
  the clock, because the code waits for both without a timeout.
* No fairness of clients, errors, port events, traps, users or changes of the memory map.

## 4. What is proved

`AllocatorProofs` proves the safety of the heap for every word size, Header size, page
size, memory map and set of layouts that satisfy the assumptions of `Allocator`:
`TypeCorrect`, `HeapPartition`, `AssertNeverFails`, `ClientsOwnTheirBlocks`,
`ObjectsNeverOverlap`, `HeldBlocksKept`, `RoundsToNearestPow2`.

*Assumptions.* The Header's size is a power of two and divides a page (asserted in the
code); a layout's size is positive, its alignment a power of two and their sum within half
the address space (what `Layout` guarantees); descriptors are page aligned, disjoint and
within the address space (what the firmware guarantees); `MaxLive` bounds the model, not
the argument. `Pow2Arithmetic` states the facts about `2^i` that the SMT solver does not
know; TLC evaluates it in every run.

*Argument.* No single property is inductive: a split keeps blocks disjoint only because
sizes are whole Headers, covers its bytes only because the object stays inside its block,
keeps the list whole only because links point to Headers, and never touches a held object
only because an allocated block is never split. `IInv` is the conjunction of `TypeOK`,
`HeadersFit`, `BlocksDisjoint`, `BlocksCoverManaged`, `HeadersListed` (together
`HeapIsPartition`), `LiveBacked` and `NoPanic`; but for `TypeOK`, TLC checks all of them in
`heap`. `ProvideGeometry` derives from `can_provide`
where the object, its Header and the padding lie; `CarveShape` says what the heap is after
a split; `NewMemory` that a new region is apart from all others. One lemma per action
(`AddFreeStep`, `ProvideStep`, `DeallocStep`, `WalkStep`) gives `NextIInv`.
`LiveObjectsIntact` follows from `IInv`; `HeldBlocksStable` from `IInv` and one step.
`RoundUpIsNearestPow2` needs that the bit length is the least exponent that suffices
(`BitLengthLeast`) and that a block keeps its size (`BlockSizes`).
`HeadersListed` speaks of closed sets of Headers rather than of paths, so that no
induction over the list is needed.

`ExecutorProofs` proves the safety of the executor for any set of tasks and any programs
of awaits and spawns: `TypeCorrect`, `NoTaskLost`, `LockIsFree`, `RoundRobinPolling`.

*Assumptions.* `ProgramAssumption`: programs are finite and a loop awaits something in each
round. `SpawnAssumption`: every call of `spawn_global` makes a `Task` of its own (it boxes a
new future), so no task is spawned twice; loops do not spawn.

*Argument.* `TasksAccounted` alone is not inductive. That a spawn adds a task that is not
queued already needs `SpawnState`: tasks whose spawn lies ahead in some program have not
been spawned. That `pop_front` removes all there is of a task needs the queue to hold
nothing twice. That `lock()` succeeds in its three places needs `LockState`, which ties the
flag to the place in the code. That a task is not polled again before one that waits needs
`RoundRobin`, which relates the order of the queue to the history of polls. `IInv` is their
conjunction; one lemma per action (`LockStep`, `PopStep`, `RequeueStep`, `SpawnStep`,
`PollStep`, `TickStep`) shows that it is kept.

`EventRingProofs` proves for a ring of any size from 3: `PopNeverFails`, and
`RingImplementsQueue`, that every step of `pop` and of the xHC is a step of `TrbQueue` or
leaves it unchanged (the safety part of `IsQueue`).

*Argument.* `IInv` says which slots carry the cycle state of the current lap (`CycleBits`),
that the xHC is in the lap of `pop` or in the next one (`SameLap`), that what `pop` has copied
stays in its slot (`PopBusy`), and where ERDP is, one behind (`ErdpBehind`). The queue is
then counted from the two indices (`EventsAreContents`): a post appends to it and the end of
`pop` removes its head.

`CommandRingProofs` proves for a ring of any size and requests of any length: `PushNeverFails`
and `RingImplementsQueue`.

*Assumptions.* `OutstandingAssumption`: the driver leaves one slot free besides the Link.
`FewOutstanding`, proved in `XhciProofs`, is why that holds for a ring of sixteen.
`PushNeverFails` does not use it: the full check cannot fire whatever is outstanding, which
is why it protects nothing.

*Argument.* `ProducerInv` is about the driver alone: the Link stays in its slot, the slots
published in this lap have one cycle bit and the others the other one, and `push` leaves the
Link behind before it returns. `Laps` relates the xHC's index and cycle state to the driver's
through the number of TRBs outstanding, so that the xHC never owns a slot that was not handed
over or is half written.

`XhciProofs` proves for rings of any size from 4, any event ring and any number of requests:
`RequestGetsOwnEvent`, `NoDmaAfterReturn`, `WaitersAreKept`, `FewAreOutstanding`.

*Assumptions.* `StageAssumption`: in a control transfer only the awaited TRB is a data stage.
It speaks of definitions only, so that TLC's evaluation is complete.

*Argument.* An event that is late carries an address that a later request may use again.
`IInv` follows every TRB: those on a ring have consecutive addresses that end before the next
one (`RingState`), the awaited one is counted from the end (`WaitingState`), an event belongs to
the request under way or to an address that is not awaited (`EventState`), only one waiter is
alive and at most one stale, so that the index to remove is right when it is used
(`WaitState`). That addresses differ within a lap is `BackInjective`.

`PagingProofs` proves for any number of levels and entries, any page size, memory map and
regions: `MappingExact`, `MappingNeverTransient`, `TranslationNeverStale`, `MemoryIsMapped`.

*Assumptions.* `PagingAssumption`: whole pages from UEFI, and regions that do not start in
page 0, which the heap leaves out and no BAR has. `PowerArithmetic`: the recursion of powers,
of which the provers know nothing.

*Argument.* The four nested loops share one address. `Walked` says that the tables on the way
down to it are there and that `index` is its path, `AddrState` that it is the next address of
the range or the end, `MapState` that the pages before it are mapped as asked and the others as
before. That the path of the next page differs in the last index or in one above it, with
zeroes below, is `TableEnds` and `SameAbove`; that two pages never share a path is
`PathInjective`.

`KernelProofs` proves of booting, for any maps that fit the buffer, any machines, up to 127 ports, 255 slots
and 1023 scratchpads: `HeapHasLastMap`, `BarIsPutBack`, `XhcIsConfigured`, `PortsAreKept`,
`DeviceIsReachable`.

*Assumptions.* `BootAssumption`: a map has a descriptor and fits the buffer.
`BarAssumption`: a window lies at a multiple of its size. `XhcAssumption`: the widths of the
register fields. `BinaryNotation`: binary notation of numbers up to 1023, ground facts that
TLC evaluates completely.

*Argument.* `HolderState`: a key that is up to date stands for a buffer that is. `BarState`:
what sizing has written and what it remembers, at each of its places. `XhcState`: which registers
are written when, with the fields of the capability registers read back as numbers
(`CapabilitiesRead`). `DeviceState`: the port the driver works on and the words of the input
context. `PortsAreKept` and `DeviceIsReachable` follow from `IInv` and one step, bit by bit.

`KernelProofs` proves of printing and exceptions, for any screens, any size of tiles and
characters, any length of lines, any set of vectors and any depth of frames:
`DrawingStaysInside`, `TrapsAreTracked`, `CauseIsTold`, `BreakpointIsTransparent`.

*Assumptions.* `ConsoleAssumption` and `GraphicsAssumption`: sizes are numbers; a screen may be
too small for everything, and `pixels_per_line` less than `width`.
`VectorAssumption`: vectors are bytes. `BinaryNotation`, as above, for the words in the tables.
The addresses of stacks, entry points and TSS are fixed examples in `CpuTables`; the stacks end
unaligned, as those of the code may.

*Argument for drawing.* A character, a line and a string check every point, so that what they
draw is visible wherever they begin (`PixelVisible`, `PointsVisible`): column `x` of line `y` is an
offset whose remainder is `x` only because `x` was checked against the length of a line
(`ColumnOfOffset`). `fill_rect` writes unchecked between two corners that were checked
(`RectVisible`). The cursor needs no bound.

*Argument for exceptions.* The instructions are numbered by their place in `inthandler_common`,
the entry points by 0 and below (`Place`), so that both kinds of entry points meet at the same
depth of the stack. `TrapState` says of every place how deep the stack is (`StackState`), that the
first words of the frame are the CPU's five, the error code and the registers in the order of
`GeneralRegisterContext`, and what the registers that the code has changed or not yet restored
hold (`RegisterState`). The double fault's frame is one word longer than its entry point expects;
`TrapState` carries that word (`Extra`), `fxsave64` then stands on an odd address, and so nothing
is claimed of a call it never reaches (`WhoIsHere`). The way back is only sound because the
handler that returns is the one whose frame is on the stack: all exceptions but one share a
stack, so a fault inside a handler would overwrite that handler's frame. `FrameState` says that only the
second frame may return, that it is the handler of a breakpoint, that it reads no bytes (the one
thing in a handler that may fault), and that its trap is still as `TrapState` has it.
`GatesRight` reads gate, entry point and stack back from GDT, TSS and IDT; `CodeAt` gives the
instruction at each place; there is one lemma per stretch of the code (`EntryStep`, `SaveStep`,
`PrepareStep`, `UnwindStep`, `RestoreStep`, `DropStep`) and one per action
(`DeliverKeeps`, `CallInthandlerKeeps`, `InthandlerReturnsKeeps`, `IretqResumes`,
`ContinuesKeeps`), together `TrapInvStep`.

`UsbDriversProofs` proves for every set of answers, keys and modifiers and any number of slots:
`AnswersAreParsed`, `WellFormedNeverPanics`, `PickIsCoherent`, `EventsAddUp`.

*Assumptions.* `AnswersAssumption`: what well formed means, and a heap that holds the Vec of a
well formed answer. `KeyboardAssumption`: usage ids are bytes from 4 on. `TripleAssumption`: the two
drivers look for different interfaces.

*Argument.* `CollectState`: the iterator stands at the end of as many descriptors as it has given.
`PickedSince(c)`: the loop over the Vec has picked the last configuration `c`, the last match
since then and all endpoints since then, and nothing matched before. `KeyState`: while
differences are shown, the keys shown are those of the new report where the difference has been
dealt with and of the old one elsewhere, and a report tells the keys held when it was made, or
that they are too many (`Told`); that an event is taken back for its own key only is
`EventsDiffer`, that no two usage ids have the same event.

*Induction over data.* The library's induction theorems cannot be used here, because they take an
operator as a parameter. Where a fact needs induction (`SameAbove`, `PathInjective`, what
`round_up_to_nearest_pow2` gives, that the recursion in `FlattenSeq` has a solution and what it
is), the proof looks at the least counterexample, which exists by well-ordering (`LeastNat`).

*Only model-checked:* liveness and fairness, which the provers cannot treat: `AllocReturns`,
`TasksFinish`, `LoopsKeepRunning`, `RequestsReturn`, `MappingReturns`, `TimeAdvances`,
`PanicEnds`, `WellFormedIsSafe`, `HeldKeyIsShown` and the fairness in `IsQueue`. Every other
property of the passing runs is a theorem.

## 5. Not modelled

* `request_set_config`, `request_set_interface` and `block_on`: nothing calls them.
* The serial port (`serial.rs`): bytes to and from I/O ports. What is wrong there is visible in
  one function and needs no interleaving.
* Glyphs (`lookup_font`), `hexdump`, `Display` and `Debug`: layout of text.
* The setup packets' values beyond what the xHC sees: what a device does with a request is not
  in the code.
* Loads of the segment registers, user mode (no code runs there) and a second CPU (none is
  started).
* `mmio.rs`, `pin.rs`, `result.rs`, `test_runner.rs`: type wrappers and test harness.

## 6. Plan

Done: heap and executor; rings with their abstract queue; requests and their TRBs;
paging; booting from the firmware to the first doorbell; exceptions, printing and panics;
descriptors, keyboard and tablet.

Proved: every safety property of the runs that pass.

Left out of reach of the proofs: liveness. For the rest of what is not modelled, see section 5.
