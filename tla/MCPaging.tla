------------------------------ MODULE MCPaging ------------------------------
(***************************************************************************)
(* Four levels of tables of two entries, 16 pages of two bytes.            *)
(***************************************************************************)
EXTENDS Paging

Descriptor(type, page, pages) ==
  [type |-> type, physical_start |-> page * PAGE_SIZE, number_of_pages |-> pages]

Region(start, size) == [start |-> start, size |-> size]

\* Memory reaches past MinEnd, a device lies above it.
MCMemoryMap ==
  { Descriptor("CONVENTIONAL_MEMORY", 0, 2),
    Descriptor("LOADER_CODE", 2, 1),
    Descriptor("LOADER_DATA", 6, 5),
    Descriptor("BOOT_SERVICES_DATA", 3, 2),
    Descriptor("RESERVED", 11, 1) }

\* One ring of a page; a buffer over a border of tables of levels 1, 2 and 3
\* that ends within a page; a BAR above all memory, up to the last address;
\* and a BAR smaller than a page.
MCRegions == { Region(6, 2), Region(10, 9), Region(28, 4), Region(21, 1) }
=============================================================================
