----------------------------- MODULE MCKeyboard -----------------------------
(***************************************************************************)
(* Every row of up to MaxDescriptors descriptors, and longer ones of the   *)
(* four kinds pick_interface_with_triple tells apart; answers followed by  *)
(* zeroes, when the device answers with less than it said, or by a single  *)
(* byte; and every short row of bytes.  The keys 1 and 0, and a report     *)
(* with one slot.                                                          *)
(***************************************************************************)
EXTENDS UsbDrivers

CONSTANTS MaxDescriptors, MaxBytes

Bytes(k) ==
  CASE k = "config" -> <<4, Config, 1, 0>>
    [] k = "keyboard interface" -> <<4, Interface, KeyboardTriple, 0>>
    [] k = "tablet interface" -> <<4, Interface, TabletTriple, 0>>
    [] k = "endpoint" -> <<3, Endpoint, 1>>
    [] k = "long endpoint" -> <<5, Endpoint, 1, 0, 0>>
    [] k = "unknown" -> <<2, 0>>
    [] k = "zeroes" -> <<0, 0>>
    [] k = "one byte" -> <<4>>

PickKinds == {"config", "keyboard interface", "tablet interface", "endpoint"}
Kinds == PickKinds \cup {"long endpoint", "unknown"}

MCRows == { [i \in DOMAIN kinds |-> Bytes(kinds[i])] :
              kinds \in UNION { [1..n -> Kinds] : n \in 1..MaxDescriptors }
                        \cup [1..(MaxDescriptors + 1) -> PickKinds] }

MCOtherAnswers ==
  { FlattenSeq(<<Bytes("config"), Bytes(k), Bytes(last)>>) :
      k \in Kinds, last \in {"zeroes", "one byte"} }
  \cup UNION { [1..n -> {0, 2, 3, 4, 5}] : n \in 0..MaxBytes }
=============================================================================
