----------------------------- MODULE MCEfiMain -----------------------------
(***************************************************************************)
(* Memory maps of one to three descriptors in a buffer of three; machines  *)
(* that lack a table, have one that the kernel refuses, have no xHC or one *)
(* with a 32-bit BAR0.                                                     *)
(***************************************************************************)
EXTENDS EfiMain

MCMaps == { <<"free 0-9">>, <<"free 0-5", "used 6-9">>, <<"free 0-3", "used 4-5", "free 6-9">> }

Facp == [signature |-> "FACP", length |-> 276]
Hpet(space) == [signature |-> "HPET", length |-> 56, address_space_id |-> space]
Mcfg(n) == [signature |-> "MCFG", length |-> 44 + 16 * n]
Xsdt(tables) == [length |-> 36 + 8 * Len(tables), entry |-> tables]

\* Two timers that count every 10 000 000 fs.
Caps == {8} \cup { b + 32 : b \in Bin(10000000) }
Functions(f) == [i \in 0..2 |-> CASE i = 0 -> <<32902, 4663>> [] i = 1 -> NoFunction [] i = 2 -> f]
Bar == {2, 14, 31, 33}

Qemu ==
  [ config |-> <<"SMBIOS", "ACPI">>, xsdt |-> Xsdt(<<Facp, Hpet(0), Mcfg(1)>>), hpet |-> Caps,
    functions |-> Functions(<<6966, 13>>), bar |-> Bar ]

MCMachines ==
  { Qemu,
    [Qemu EXCEPT !.config = <<"SMBIOS">>],
    [Qemu EXCEPT !.xsdt = Xsdt(<<Facp, Mcfg(1)>>)],
    [Qemu EXCEPT !.xsdt = Xsdt(<<Hpet(1), Mcfg(1)>>)],
    [Qemu EXCEPT !.xsdt = Xsdt(<<Facp, Hpet(0)>>)],
    [Qemu EXCEPT !.xsdt = Xsdt(<<Mcfg(2), Hpet(0)>>)],
    [Qemu EXCEPT !.hpet = {8}],
    [Qemu EXCEPT !.functions = Functions(<<65535, 13>>)],
    [Qemu EXCEPT !.bar = {14, 31}] }

MCPageSizes == { {0}, {0, 1} }
=============================================================================
