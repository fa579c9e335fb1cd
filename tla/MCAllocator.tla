---------------------------- MODULE MCAllocator ----------------------------
(***************************************************************************)
(* The heap on a toy machine: 7 bit addresses, 8 byte pages, 2 byte        *)
(* Headers.                                                                *)
(***************************************************************************)
EXTENDS Allocator

Descriptor(type, start, pages) ==
  [memory_type |-> type, physical_start |-> start, number_of_pages |-> pages]

\* A region at address 0, one too small to keep, one of another type, and
\* one that ends where the address space does.
SmallMap ==
  << Descriptor("CONVENTIONAL_MEMORY", 0, 3),
     Descriptor("CONVENTIONAL_MEMORY", 24, 1),
     Descriptor("LOADER_DATA", 32, 2),
     Descriptor("CONVENTIONAL_MEMORY", 104, 3) >>

OneRegion == << Descriptor("CONVENTIONAL_MEMORY", 32, 4) >>

Layout(size, align) == [size |-> size, align |-> align]

SmallLayouts == { Layout(1, 1), Layout(3, 4), Layout(5, 8) }
ReuseLayouts == { Layout(4, 2) }
=============================================================================
