--------------------------- MODULE UsbDescriptors ---------------------------
(***************************************************************************)
(* What a device says of its configurations, and what the driver makes of  *)
(* it (usb.rs): DescriptorIterator over the bytes of the answer, collected *)
(* into a Vec, and pick_interface_with_triple over that Vec.               *)
(*                                                                         *)
(* This is the part of the USB drivers before one is started; Keyboard     *)
(* extends it with a driver, UsbDrivers with the choice between drivers.   *)
(*                                                                         *)
(* A byte is a small number.  The first two bytes of a descriptor are its  *)
(* length and its type, the next two stand for all of its fields.          *)
(***************************************************************************)
EXTENDS Integers, Sequences, SequencesExt, FiniteSetsExt

CONSTANTS
  Rows,         \* well formed answers: sequences of descriptors, each a row of bytes
  OtherAnswers, \* other bytes a device may answer with
  MaxCollected  \* descriptors a Vec holds before the heap is used up

\* UsbDescriptorType and the size of the struct read for each type (in the
\* code 9, 9 and 7 bytes).
Config == 2
Interface == 4
Endpoint == 5
SizeOf(type) == CASE type \in {Config, Interface} -> 4 [] type = Endpoint -> 3 [] OTHER -> 2

Byte == 0..255

\* A descriptor is at least as long as its struct, and says so.
ASSUME AnswersAssumption ==
  /\ Rows \subseteq Seq(Seq(Byte))
  /\ OtherAnswers \subseteq Seq(Byte)
  /\ \A row \in Rows : \A k \in DOMAIN row :
       Len(row[k]) >= 2 /\ row[k][1] = Len(row[k]) /\ Len(row[k]) >= SizeOf(row[k][2])
  /\ MaxCollected \in Nat
  /\ \A row \in Rows : Len(row) < MaxCollected

None == << >>

VARIABLES
  row,           \* history: the descriptors of a well formed answer
  buf,           \* the answer
  index,         \* DescriptorIterator::index
  descriptors,   \* what has been collected
  wanted,        \* class, subclass and protocol the driver looks for
  next,          \* descriptors the loop of pick_interface_with_triple has seen
  config, interface, ep_list,
  pc

picked == <<wanted, next, config, interface, ep_list>>
parseVars == <<row, buf, index, descriptors, picked, pc>>

\* `first` is the triple of the driver that run tries first.
ParseInit(first) ==
  /\ \/ row \in Rows /\ buf = FlattenSeq(row)
     \/ row = None /\ buf \in OtherAnswers
  /\ index = 0
  /\ descriptors = << >>
  /\ wanted = first
  /\ next = 0
  /\ config = None
  /\ interface = None
  /\ ep_list = << >>
  /\ pc = "collect"

-----------------------------------------------------------------------------
(* DescriptorIterator::next, called by collect *)

Length(i) == buf[i + 1]
Type(i) == buf[i + 2]

\* copy_from_slice fails when the struct is longer than what is left.
TooShort(i) == SizeOf(Type(i)) > Len(buf) - i

\* A descriptor is known by where it begins and what it says.
Descriptor(i) == [at |-> i, type |-> Type(i), fields |-> SubSeq(buf, i + 3, i + SizeOf(Type(i)))]

\* Mutant: the next descriptor begins after the struct.
Advance_struct == index + SizeOf(Type(index))

\* Mutant: the two bytes of the head are not counted.
Advance_payload == index + Max({Length(index) - 2, 0})

Advance == index + Length(index)

CollectNext ==
  /\ pc = "collect"
  /\ index + 1 < Len(buf)
  /\ ~TooShort(index)
  /\ Len(descriptors) < MaxCollected
  /\ descriptors' = Append(descriptors, Descriptor(index))
  /\ index' = Advance
  /\ UNCHANGED <<row, buf, picked, pc>>

\* index >= buf.len(), or a struct that is cut off: the iterator returns None.
CollectEnd ==
  /\ pc = "collect"
  /\ index >= Len(buf) \/ (index + 1 < Len(buf) /\ TooShort(index))
  /\ pc' = "pick"
  /\ UNCHANGED <<row, buf, index, descriptors, picked>>

\* buf[1] of a slice of one byte panics.
CollectPanics ==
  /\ pc = "collect"
  /\ index + 1 = Len(buf)
  /\ pc' = "panic"
  /\ UNCHANGED <<row, buf, index, descriptors, picked>>

\* The heap has no room for the Vec.
CollectExhaustsHeap ==
  /\ pc = "collect"
  /\ index + 1 < Len(buf) /\ ~TooShort(index)
  /\ Len(descriptors) = MaxCollected
  /\ pc' = "panic"
  /\ UNCHANGED <<row, buf, index, descriptors, picked>>

-----------------------------------------------------------------------------
(* pick_interface_with_triple *)

triple(d) == d.fields[1]
Current == descriptors[next + 1]
InLoop(type) == pc = "pick" /\ next < Len(descriptors) /\ Current.type = type

\* Mutant: the endpoints of earlier configurations stay.
PickConfigKeepsEndpoints ==
  /\ InLoop(Config)
  /\ interface = None
  /\ config' = Current
  /\ next' = next + 1
  /\ UNCHANGED <<row, buf, index, descriptors, wanted, interface, ep_list, pc>>

PickConfig ==
  /\ InLoop(Config)
  /\ interface = None
  /\ config' = Current
  /\ ep_list' = << >>
  /\ next' = next + 1
  /\ UNCHANGED <<row, buf, index, descriptors, wanted, interface, pc>>

PickInterface ==
  /\ InLoop(Interface)
  /\ interface' = IF triple(Current) = wanted THEN Current ELSE interface
  /\ next' = next + 1
  /\ UNCHANGED <<row, buf, index, descriptors, wanted, config, ep_list, pc>>

PickEndpoint ==
  /\ InLoop(Endpoint)
  /\ ep_list' = Append(ep_list, Current)
  /\ next' = next + 1
  /\ UNCHANGED <<row, buf, index, descriptors, wanted, config, interface, pc>>

PickOther ==
  /\ pc = "pick" /\ next < Len(descriptors)
  /\ Current.type \notin {Config, Interface, Endpoint}
  /\ next' = next + 1
  /\ UNCHANGED <<row, buf, index, descriptors, wanted, config, interface, ep_list, pc>>

\* The end of the list, or the next configuration after a match.
PickEnd ==
  /\ \/ pc = "pick" /\ next = Len(descriptors)
     \/ InLoop(Config) /\ interface # None
  /\ pc' = IF config # None /\ interface # None THEN "found" ELSE "not found"
  /\ UNCHANGED <<row, buf, index, descriptors, picked>>

Collect == CollectNext \/ CollectEnd \/ CollectPanics \/ CollectExhaustsHeap
Pick == PickConfig \/ PickInterface \/ PickEndpoint \/ PickOther \/ PickEnd
Parse == Collect \/ Pick

-----------------------------------------------------------------------------
\* The iterator gives exactly the descriptors of a well formed answer, in
\* order, also where one is longer than the struct read from it.
ParsesWellFormed ==
  row # None /\ pc # "collect" =>
    /\ Len(descriptors) = Len(row)
    /\ \A k \in DOMAIN row :
         /\ descriptors[k].type = row[k][2]
         /\ descriptors[k].fields = SubSeq(row[k], 3, SizeOf(row[k][2]))

\* Only an answer with a wrong length in it makes the kernel panic: no well
\* formed answer of a device does, and every one is dealt with in the end.
WellFormedIsSafe == row # None /\ pc = "collect" ~> pc \in {"found", "not found"}

(* Reference: the part of the list that belongs to the first configuration *)
(* with an interface of that triple.                                       *)
OfType(type) == { k \in DOMAIN descriptors : descriptors[k].type = type }
Matching == { k \in OfType(Interface) : triple(descriptors[k]) = wanted }
Part(c) == { k \in DOMAIN descriptors :
               k > c /\ OfType(Config) \cap (c + 1)..k = {} }
Owners == { c \in OfType(Config) : Part(c) \cap Matching # {} }
AtFront == { k \in Matching : OfType(Config) \cap 1..k = {} }

\* The interface, the configuration and the endpoints that are picked belong
\* together: the first configuration with a match, its last match, and all
\* of its endpoints and no others.  None is missed, unless an interface before
\* any configuration matches: then the first configuration ends the loop, and
\* nothing is picked although a later configuration may have a match.
PickedBelongTogether ==
  /\ pc = "not found" => Owners = {} \/ AtFront # {}
  /\ pc = "found" =>
       /\ AtFront = {}
       /\ LET c == Min(Owners) IN
          /\ config = descriptors[c]
          /\ interface = descriptors[Max(Part(c) \cap Matching)]
          /\ ToSet(ep_list) = { descriptors[k] : k \in Part(c) \cap OfType(Endpoint) }
=============================================================================
