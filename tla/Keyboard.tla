------------------------------ MODULE Keyboard ------------------------------
(***************************************************************************)
(* The keyboard driver of keyboard.rs, from the descriptors of the device  *)
(* on (UsbDescriptors): the boot protocol is selected, then reports are    *)
(* asked for in a loop, and every difference to the report before is shown *)
(* as a key event, in the order of a BTreeSet.                             *)
(*                                                                         *)
(* The keyboard (external) reports the keys held down at that moment in    *)
(* any order in the slots of the report, or the rollover code in all of    *)
(* them when there are more keys than slots.                               *)
(***************************************************************************)
EXTENDS UsbDescriptors, FiniteSets

CONSTANTS
  KeyboardTriple, \* (3, 1, 1): a HID in the boot protocol
  Keys,           \* usage ids of the keys
  Modifiers,      \* values of the report's first byte
  Slots           \* 6: keys in a report

RollOver == 1

ASSUME KeyboardAssumption ==
  /\ Keys \subseteq 4..255
  /\ Modifiers \subseteq 0..255
  /\ Slots \in Nat \ {0}

VARIABLES
  held,           \* the keys somebody holds down
  pressed, prev_pressed,
  diff,           \* what is left of the iterator over the difference
  shown,          \* history: the keys down by the events shown
  reported        \* history: the keys held down when the last report was made

answer == <<row, buf, index, descriptors, picked>>
kbdVars == <<held, pressed, prev_pressed, diff, shown, reported>>
vars == <<answer, pc, kbdVars>>

Init ==
  /\ ParseInit(KeyboardTriple)
  /\ held = {}
  /\ pressed = {}
  /\ prev_pressed = {}
  /\ diff = {}
  /\ shown = {}
  /\ reported = {}

-----------------------------------------------------------------------------
Char(code) == [event |-> "Char", value |-> code]
CharOf == [id \in {42, 44, 45, 51, 54, 55, 56} |->
             CASE id = 42 -> 8  [] id = 44 -> 32 [] id = 45 -> 45 [] id = 51 -> 58
               [] id = 54 -> 44 [] id = 55 -> 46 [] id = 56 -> 47]

\* Mutant: digits count from 0.
from_usb_key_id_digits(id) ==
  CASE id = 0 -> [event |-> "None", value |-> 0]
    [] id \in 4..29 -> Char(97 + id - 4)
    [] id \in 30..39 -> Char(48 + ((id + 1) % 9))
    [] id = 40 -> [event |-> "Enter", value |-> 0]
    [] id \in DOMAIN CharOf -> Char(CharOf[id])
    [] OTHER -> [event |-> "Unknown", value |-> id]

from_usb_key_id(id) ==
  CASE id = 0 -> [event |-> "None", value |-> 0]
    [] id \in 4..29 -> Char(97 + id - 4)
    [] id \in 30..39 -> Char(48 + ((id + 1) % 10))
    [] id = 40 -> [event |-> "Enter", value |-> 0]
    [] id \in DOMAIN CharOf -> Char(CharOf[id])
    [] OTHER -> [event |-> "Unknown", value |-> id]

(* The keyboard.  What is pressed before the driver looks makes no         *)
(* difference.                                                             *)

InUse == pc \in {"report", "events"}

Press ==
  /\ InUse
  /\ \E k \in Keys \ held : held' = held \cup {k}
  /\ UNCHANGED <<answer, pressed, prev_pressed, diff, shown, reported, pc>>

Release ==
  /\ InUse
  /\ \E k \in held : held' = held \ {k}
  /\ UNCHANGED <<answer, pressed, prev_pressed, diff, shown, reported, pc>>

\* The slots of a report.
ReportedSlots ==
  { s \in [1..Slots -> held \cup {0, RollOver}] :
      IF Cardinality(held) > Slots THEN ToSet(s) = {RollOver}
                                   ELSE ToSet(s) \ {0} = held }

\* Bytes of the report: modifiers, a reserved byte, the slots.
Report(modifiers, slots) == <<modifiers, 0>> \o slots
Reports == { Report(m, slots) : m \in Modifiers, slots \in ReportedSlots }

(* start_usb_keyboard *)

\* pick_interface_with_triple found an interface; the device may refuse.
SetProtocol ==
  /\ pc = "found" /\ wanted = KeyboardTriple
  /\ pc' \in {"report", "ended"}
  /\ UNCHANGED <<answer, kbdVars>>

\* skip(2), filter(|id| *id != 0)
PressedIn(report) == ToSet(SubSeq(report, 3, Len(report))) \ {0}

SymmetricDifference(s, t) == (s \ t) \cup (t \ s)

\* Mutant: the report is remembered before it is compared.
RequestReportRemembered ==
  /\ pc = "report"
  /\ \E report \in Reports : pressed' = PressedIn(report)
  /\ prev_pressed' = pressed'
  /\ diff' = {}
  /\ reported' = held
  /\ pc' = "events"
  /\ UNCHANGED <<answer, held, shown>>

RequestReport ==
  /\ pc = "report"
  /\ \E report \in Reports : pressed' = PressedIn(report)
  /\ diff' = SymmetricDifference(pressed', prev_pressed)
  /\ reported' = held
  /\ pc' = "events"
  /\ UNCHANGED <<answer, held, prev_pressed, shown>>

\* request_hid_report(..).await? returns the error of the transfer.
ReportFails ==
  /\ pc = "report"
  /\ pc' = "ended"
  /\ UNCHANGED <<answer, kbdVars>>

ShowEvent ==
  /\ pc = "events" /\ diff # {}
  /\ LET id == Min(diff)
         e == from_usb_key_id(id)
     IN  /\ shown' = IF id \in pressed THEN shown \cup {e} ELSE shown \ {e}
         /\ diff' = diff \ {id}
  /\ UNCHANGED <<answer, held, pressed, prev_pressed, reported, pc>>

EndOfRound ==
  /\ pc = "events" /\ diff = {}
  /\ prev_pressed' = pressed
  /\ pc' = "report"
  /\ UNCHANGED <<answer, held, pressed, diff, shown, reported>>

Driver == SetProtocol \/ RequestReport \/ ReportFails \/ ShowEvent \/ EndOfRound

-----------------------------------------------------------------------------
\* What a report can tell of the keys held down.
Told(keys) == IF Cardinality(keys) > Slots THEN {RollOver} ELSE keys

\* Whoever follows the key events knows the keys that were held down when the
\* last report was made, as far as there were slots for them: each key has an
\* event of its own, none is left down, none is missed, and no other byte of
\* the report is taken for one, even where keys go up and down between and
\* during reports.  With more keys than slots that is not so: the rollover code
\* is taken for a key, Unknown(1), and every key is shown as up.
EventsTellKeys ==
  pc = "report" =>
    /\ shown = { from_usb_key_id(k) : k \in Told(reported) }
    /\ Cardinality(shown) = Cardinality(Told(reported))

\* A key that is held is shown in the end and stays so, unless a request fails
\* or there are more keys than slots.
HeldKeyIsShown ==
  \A k \in Keys :
    <>[](k \in held /\ Cardinality(held) <= Slots /\ InUse)
      => <>[](from_usb_key_id(k) \in shown)
=============================================================================
