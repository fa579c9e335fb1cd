------------------------------ MODULE Console ------------------------------
(***************************************************************************)
(* Printing and panicking (print.rs, graphics.rs, mutex.rs, qemu.rs and    *)
(* the panic handler of main.rs) on one CPU.                               *)
(*                                                                         *)
(* frames is the call stack, as far as it prints: efi_main at the bottom,  *)
(* then the exception handlers and panic handlers that interrupted each    *)
(* other.  A frame is the calls it still makes and where it is in the      *)
(* first of them.  global_print sends to the serial port, takes the lock   *)
(* of GLOBAL_VRAM_WRITER, draws and drops the lock.  Nobody but a frame    *)
(* below can hold it, so a lock that is taken stays taken, and lock gives  *)
(* up after its 10000 tries with a panic.                                  *)
(***************************************************************************)
EXTENDS Graphics

CONSTANTS
  Screens,      \* the frame buffers a machine may have
  LineLength,   \* characters of a line that is printed
  MaxDepth      \* bound: frames

ASSUME ConsoleAssumption ==
  /\ Screens \subseteq [width : Nat, height : Nat, pixels_per_line : Nat]
  /\ LineLength \in Nat /\ MaxDepth \in Nat

VARIABLES
  screen,           \* VramBufferInfo
  frames,
  locked,           \* is_taken of GLOBAL_VRAM_WRITER's Mutex
  writer,           \* GLOBAL_VRAM_WRITER is Some
  cursor,           \* cursor_x and cursor_y
  drawn,            \* the pixels the last call has drawn
  idt,              \* the interrupt descriptor table is loaded
  exited            \* exit_qemu was reached

consoleVars == <<screen, frames, locked, writer, cursor, drawn, idt, exited>>

Frame(calls) == [calls |-> calls, at |-> "call"]
Top == frames[Len(frames)]
NextCall == IF Top.calls = << >> THEN "none" ELSE Head(Top.calls)
Calling(call) == ~exited /\ Top.at = "call" /\ NextCall = call

GoTo(where) == frames' = [frames EXCEPT ![Len(frames)].at = where]
Done == frames' = [frames EXCEPT ![Len(frames)] = Frame(Tail(@.calls))]
Push(calls) == Len(frames) < MaxDepth /\ frames' = Append(frames, Frame(calls))

\* The panic handler.
panic == Push(<<"line", "exit_qemu">>)

\* efi_main: a few lines, hexdump prints without ending the line.
EfiMainCalls ==
  <<"line", "pattern", "init_display", "set_global_vram", "line", "init_exceptions", "piece", "line">>

ConsoleInit ==
  /\ screen \in Screens
  /\ frames = <<Frame(EfiMainCalls)>>
  /\ locked = FALSE /\ writer = FALSE
  /\ cursor = [x |-> 0, y |-> 0]
  /\ drawn = {}
  /\ idt = FALSE /\ exited = FALSE

-----------------------------------------------------------------------------
(* global_print.                                                           *)
SendSerial ==
  /\ Calling("line") \/ Calling("piece")
  /\ GoTo("lock")
  /\ UNCHANGED <<screen, locked, writer, cursor, drawn, idt, exited>>

\* Mutex::lock.
Lock ==
  /\ Top.at = "lock" /\ ~exited
  /\ IF locked THEN panic /\ UNCHANGED locked ELSE GoTo("draw") /\ locked' = TRUE
  /\ UNCHANGED <<screen, writer, cursor, drawn, idt, exited>>

\* Mutant: the guard is not dropped.
drop_forgotten == TRUE
drop == FALSE   \* is_taken after MutexGuard::drop

\* BitmapTextWriter::write_str, then the guard is dropped.  There is no
\* scrolling: what is below the screen is not drawn.
write_str ==
  /\ Top.at = "draw" /\ ~exited
  /\ IF writer
     THEN /\ drawn' = draw_str_fg(screen, cursor.x, cursor.y, LineLength)
          /\ cursor' = IF NextCall = "line" THEN [x |-> 0, y |-> cursor.y + GlyphH]
                       ELSE [cursor EXCEPT !.x = @ + (LineLength * GlyphW)]
     ELSE UNCHANGED <<drawn, cursor>>
  /\ locked' = drop
  /\ Done
  /\ UNCHANGED <<screen, writer, idt, exited>>

-----------------------------------------------------------------------------
(* The display.                                                            *)
Draw(drawing) ==
  /\ drawn' = drawing.pixels
  /\ IF drawing.ok THEN Done ELSE panic
  /\ UNCHANGED <<screen, locked, writer, cursor, idt, exited>>

DrawTestPattern == Calling("pattern") /\ Draw(draw_test_pattern(screen))

\* init_display clears the screen and draws the pattern again.
init_display ==
  /\ Calling("init_display")
  /\ LET all == fill_rect(screen, 0, 0, screen.width, screen.height)
         pattern == draw_test_pattern(screen)
     IN  Draw(Drawing(all.ok /\ pattern.ok, all.pixels \cup pattern.pixels))

set_global_vram ==
  /\ Calling("set_global_vram")
  /\ IF locked THEN panic /\ UNCHANGED writer ELSE Done /\ writer' = TRUE
  /\ UNCHANGED <<screen, locked, cursor, drawn, idt, exited>>

init_exceptions ==
  /\ Calling("init_exceptions")
  /\ idt' = TRUE /\ Done
  /\ UNCHANGED <<screen, locked, writer, cursor, drawn, exited>>

exit_qemu ==
  /\ Calling("exit_qemu")
  /\ exited' = TRUE
  /\ UNCHANGED <<screen, frames, locked, writer, cursor, drawn, idt>>

\* An assertion, an unwrap or an expect of efi_main or of a task fails.
KernelPanics ==
  /\ Len(frames) = 1 /\ Top.at = "call" /\ ~exited
  /\ panic
  /\ UNCHANGED <<screen, locked, writer, cursor, drawn, idt, exited>>

ConsoleStep ==
  \/ SendSerial \/ Lock \/ write_str \/ DrawTestPattern \/ init_display \/ set_global_vram
  \/ init_exceptions \/ exit_qemu

-----------------------------------------------------------------------------
\* Whatever is drawn, and wherever the cursor has got to, is drawn into the
\* lines of the frame buffer and into their visible part: fill_rect, which
\* checks two corners and writes unchecked, included.
DrawStaysInside ==
  \A p \in drawn : /\ p \in 0..((screen.height * screen.pixels_per_line) - 1)
                   /\ p % screen.pixels_per_line < screen.width
=============================================================================
