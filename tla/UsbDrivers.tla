----------------------------- MODULE UsbDrivers -----------------------------
(***************************************************************************)
(* How PciXhciDriver::run chooses the driver of a device: the keyboard's   *)
(* (Keyboard), and when that gives up the tablet's (tablet.rs), which goes *)
(* over the same descriptors again.                                        *)
(***************************************************************************)
EXTENDS Keyboard

CONSTANT TabletTriple   \* (3, 0, 0)

ASSUME TripleAssumption == TabletTriple # KeyboardTriple

\* start_usb_keyboard returned an Err: no interface, or a request failed.
KeyboardGaveUp == wanted = KeyboardTriple /\ pc \in {"not found", "ended"}

\* The device descriptor is not that of the one tablet there is a driver for.
NotATablet ==
  /\ KeyboardGaveUp
  /\ pc' = "no driver"
  /\ UNCHANGED <<answer, kbdVars>>

\* It is: pick_interface_with_triple begins again.
PickTablet ==
  /\ KeyboardGaveUp
  /\ wanted' = TabletTriple /\ next' = 0
  /\ config' = None /\ interface' = None /\ ep_list' = << >>
  /\ pc' = "pick"
  /\ UNCHANGED <<row, buf, index, descriptors, kbdVars>>

\* request_hid_report_descriptor, whose answer is printed; it may fail.
ReadTablet ==
  /\ wanted = TabletTriple
  /\ \/ pc = "found" /\ pc' \in {"ok", "no driver"}
     \/ pc = "not found" /\ pc' = "no driver"
  /\ UNCHANGED <<answer, kbdVars>>

\* run returns; the device is left as it is.
RunReturned == pc \in {"ok", "no driver", "panic"} /\ UNCHANGED vars

Step == (Parse /\ UNCHANGED kbdVars) \/ Driver \/ NotATablet \/ PickTablet \/ ReadTablet
Next == Step \/ Press \/ Release \/ RunReturned
Spec == Init /\ [][Next]_vars /\ WF_vars(Step)
=============================================================================
