------------------------------- MODULE Paging -------------------------------
(***************************************************************************)
(* The page tables of x86.rs: PML4::create_mapping, entry by entry, called *)
(* by init_paging on a table the CPU does not use yet, and by the two      *)
(* disable_cache functions on the table CR3 points to, while the CPU goes  *)
(* on translating addresses with it.                                       *)
(*                                                                         *)
(* A table is known by the indices that lead to it from the root, as every *)
(* call of populate makes a table of its own (see Allocator).  The number  *)
(* of levels, of entries per table and the size of a page are parameters.  *)
(***************************************************************************)
EXTENDS Integers, Sequences, FiniteSetsExt

CONSTANTS
  Levels,        \* 4: PML4, PDPT, PD, PT
  Entries,       \* 512 entries in a table
  PAGE_SIZE,
  MinEnd,        \* 4 GiB, mapped whatever the memory map says
  MemoryMap,     \* descriptors: type, physical_start, number_of_pages
  Regions        \* start and size of what disable_cache is called for

AddressSpace == PAGE_SIZE * Entries^Levels
Pages == 0..(Entries^Levels - 1)

UsableTypes == {"CONVENTIONAL_MEMORY", "LOADER_CODE", "LOADER_DATA"}

\* UEFI describes whole pages; an IoBox starts at a page, a BAR at a multiple
\* of its size, which may be less than a page.  Neither is at page 0, which the
\* heap leaves out (add_free_from_descriptor).
ASSUME PagingAssumption ==
  /\ Levels \in Nat /\ Levels >= 2
  /\ Entries \in Nat /\ Entries >= 2
  /\ PAGE_SIZE \in Nat \ {0}
  /\ MinEnd \in 1..AddressSpace /\ MinEnd % PAGE_SIZE = 0
  /\ \A d \in MemoryMap :
       /\ d.physical_start \in Nat /\ d.physical_start % PAGE_SIZE = 0
       /\ d.number_of_pages \in Nat
       /\ d.physical_start + d.number_of_pages * PAGE_SIZE <= AddressSpace
  /\ \A r \in Regions :
       /\ r.start \in Nat /\ r.start >= PAGE_SIZE
       /\ r.size \in Nat \ {0} /\ r.start + r.size <= AddressSpace

\* What the proofs use of powers, of which the provers know nothing.
ASSUME PowerArithmetic ==
  /\ Entries^0 = 1
  /\ \A n \in 0..Levels :
       /\ Entries^n \in Nat \ {0}
       /\ n < Levels => Entries^(n + 1) = Entries^n * Entries

NotPresent == "NotPresent"
ReadWriteKernel == "ReadWriteKernel"
ReadWriteIo == "ReadWriteIo"

Entry(phys, attr) == [phys |-> phys, attr |-> attr]
ZeroEntry == Entry(0, NotPresent)
NoEntry == [page |-> -1, entry |-> ZeroEntry]

VARIABLES
  populated,   \* paths of the tables below the root
  pte,         \* the entries of level 1 tables, by path
  cr3,         \* whose table the CPU uses: "firmware" or "kernel"
  tlb,         \* a translation the CPU remembers
  stage,       \* how far init_paging is
  pc, level,   \* the loop create_mapping is in, and where in it
  index,       \* `index` of each of the nested loops
  addr,
  call,        \* the arguments of create_mapping
  before, want \* history: the mapping before and after the call

walk == <<pc, level, index, addr>>
vars == <<populated, pte, cr3, tlb, stage, walk, call, before, want>>

-----------------------------------------------------------------------------
\* Entries on a path from the root, and the path of a virtual page.
PathsOf(n) == [1..n -> 0..(Entries - 1)]

calc_index(l, a) == (a \div (PAGE_SIZE * Entries^(l - 1))) % Entries
PathOf(page) == [i \in 1..Levels |-> calc_index(Levels + 1 - i, page * PAGE_SIZE)]
Below(path, table) == \A i \in DOMAIN table : path[i] = table[i]
Prefixes(path) == { SubSeq(path, 1, n) : n \in 1..(Levels - 1) }

(* What the CPU finds when it walks the tables. *)
Translate(page) ==
  IF Prefixes(PathOf(page)) \subseteq populated THEN pte[PathOf(page)] ELSE ZeroEntry

Mapping == [page \in Pages |-> Translate(page)]

\* The entry the loop of level l looks at: the tables it went through are
\* those of the enclosing loops, whatever addr is by now.
Here(l, i) == [j \in 1..(Levels + 1 - l) |-> IF j = Levels + 1 - l THEN i ELSE index[Levels + 1 - j]]

\* The pages that have a byte in [start, end).
PagesOf(start, end) == { p \in Pages : p * PAGE_SIZE < end /\ (p + 1) * PAGE_SIZE > start }

\* Mutant: min for max.
end_of_mem_min ==
  Min({AddressSpace} \cup { d.physical_start + d.number_of_pages * PAGE_SIZE :
                      d \in { m \in MemoryMap : m.type \in UsableTypes } })

end_of_mem ==
  Max({MinEnd} \cup { d.physical_start + d.number_of_pages * PAGE_SIZE :
                      d \in { m \in MemoryMap : m.type \in UsableTypes } })

Call(start, end, phys, attr) ==
  [virt_start |-> start, virt_end |-> end, phys |-> phys, attr |-> attr]

Init ==
  /\ populated = {}
  /\ pte = [path \in PathsOf(Levels) |-> ZeroEntry]
  /\ cr3 = "firmware"
  /\ tlb = NoEntry
  /\ stage = "start"
  /\ pc = "idle"
  /\ level = Levels
  /\ index = [l \in 1..Levels |-> 0]
  /\ addr = 0
  /\ call = Call(0, 0, 0, NotPresent)
  /\ before = [page \in Pages |-> ZeroEntry]
  /\ want = [page \in Pages |-> ZeroEntry]

-----------------------------------------------------------------------------
(* create_mapping *)

create_mapping(c) ==
  /\ pc = "idle"
  /\ call' = c
  /\ pc' = "enter"
  /\ level' = Levels
  /\ addr' = c.virt_start
  /\ before' = Mapping
  /\ want' = [page \in Pages |->
                IF page \in PagesOf(c.virt_start, c.virt_end)
                THEN Entry(c.phys + page * PAGE_SIZE - c.virt_start, c.attr)
                ELSE Mapping[page]]
  /\ UNCHANGED <<populated, pte, index>>

\* A new table, all of its entries zero.
populate(table) ==
  /\ populated' = { t \in populated : Len(t) < Len(table) \/ ~Below(t, table) } \cup {table}
  /\ pte' = [path \in DOMAIN pte |-> IF Below(path, table) THEN ZeroEntry ELSE pte[path]]

\* Mutant: the table is made anew each time.
ensure_populated_always(table) == populate(table)

ensure_populated(table) ==
  IF table \in populated THEN UNCHANGED <<populated, pte>> ELSE populate(table)

\* The head of the loops of levels 4 to 2.
Descend ==
  /\ pc = "enter" /\ level > 1
  /\ index' = [index EXCEPT ![level] = calc_index(level, addr)]
  /\ ensure_populated(Here(level, calc_index(level, addr)))
  /\ level' = level - 1
  /\ UNCHANGED <<cr3, tlb, stage, pc, addr, call, before, want>>

\* Mutant: one page more.
EndOfLoopLate(i, a) == i + 1 >= Entries \/ a > call.virt_end

\* The condition that ends each of the loops.
EndOfLoop(i, a) == i + 1 >= Entries \/ a >= call.virt_end

phys_addr == call.phys + addr - call.virt_start

\* Mutant: the address stays.
next_addr_same == addr

\* wrapping_add; a word has room for the end of the address space.
next_addr == (addr + PAGE_SIZE) % (2 * AddressSpace)

\* The innermost loop.
set_page ==
  /\ pc = "enter" /\ level = 1
  /\ phys_addr % PAGE_SIZE = 0
  /\ LET i == calc_index(1, addr) IN
       /\ index' = [index EXCEPT ![1] = i]
       /\ pte' = [pte EXCEPT ![Here(1, i)] = Entry(phys_addr, call.attr)]
       /\ addr' = next_addr
       /\ IF EndOfLoop(i, next_addr)
          THEN pc' = "leave" /\ level' = 2
          ELSE UNCHANGED <<pc, level>>
  /\ UNCHANGED <<populated, cr3, tlb, stage, call, before, want>>

\* Err("Physical address must be aligned to page size"): expect panics.
set_page_unaligned ==
  /\ pc = "enter" /\ level = 1
  /\ phys_addr % PAGE_SIZE # 0
  /\ pc' = "panic"
  /\ UNCHANGED <<populated, pte, cr3, tlb, stage, level, index, addr, call, before, want>>

\* The foot of the loops of levels 2 to 4.
Leave ==
  /\ pc = "leave"
  /\ IF ~EndOfLoop(index[level], addr)
     THEN pc' = "enter" /\ level' = level
     ELSE IF level < Levels THEN pc' = pc /\ level' = level + 1
                            ELSE pc' = "return" /\ level' = level
  /\ UNCHANGED <<populated, pte, cr3, tlb, stage, index, addr, call, before, want>>

-----------------------------------------------------------------------------
(* The callers *)

\* init_paging: all memory, then page 0 taken out.
init_paging ==
  /\ \/ stage = "start" /\ create_mapping(Call(0, end_of_mem, 0, ReadWriteKernel))
     \/ stage = "mapped" /\ create_mapping(Call(0, PAGE_SIZE, 0, NotPresent))
  /\ UNCHANGED <<cr3, tlb, stage>>

\* disable_cache of an IoBox or of BAR 0, in with_current_page_table.
disable_cache ==
  /\ stage = "done"
  /\ \E r \in Regions : create_mapping(Call(r.start, r.start + r.size, r.start, ReadWriteIo))
  /\ UNCHANGED <<cr3, tlb, stage>>

\* The CPU forgets what it remembers of the old table.
write_cr3 == cr3' = "kernel" /\ tlb' = NoEntry

\* Mutant: the table is the one in CR3, so why write it back?
put_current_page_table_skipped == UNCHANGED <<cr3, tlb>>

put_current_page_table == write_cr3

InitReturn ==
  /\ pc = "return" /\ stage = "start"
  /\ stage' = "mapped"
  /\ pc' = "idle"
  /\ UNCHANGED <<populated, pte, cr3, tlb, level, index, addr, call, before, want>>

InitDone ==
  /\ pc = "return" /\ stage = "mapped"
  /\ stage' = "done"
  /\ pc' = "idle"
  /\ write_cr3
  /\ UNCHANGED <<populated, pte, level, index, addr, call, before, want>>

DisableCacheReturn ==
  /\ pc = "return" /\ stage = "done"
  /\ pc' = "idle"
  /\ put_current_page_table
  /\ UNCHANGED <<populated, pte, stage, level, index, addr, call, before, want>>

\* The panic handler ends the machine.
Halted == pc = "panic" /\ UNCHANGED vars

(* The CPU, at any time: it translates an address and may remember how.    *)
(* One remembered translation stands for each of many.                     *)
TlbFill ==
  /\ cr3 = "kernel"
  /\ \E page \in Pages :
       /\ Translate(page).attr # NotPresent
       /\ tlb' = [page |-> page, entry |-> Translate(page)]
  /\ UNCHANGED <<populated, pte, cr3, stage, walk, call, before, want>>

Step ==
  \/ init_paging \/ Descend \/ set_page \/ set_page_unaligned \/ Leave
  \/ InitReturn \/ InitDone \/ DisableCacheReturn

Next == Step \/ disable_cache \/ TlbFill \/ Halted

Spec == Init /\ [][Next]_vars /\ WF_vars(Step)

-----------------------------------------------------------------------------
\* When create_mapping has returned, every page with a byte in the range is
\* mapped as asked and every other page as before, wherever the range lies
\* relative to the tables of any level.
MappingIsExact == pc = "return" => Mapping = want

\* While create_mapping changes the table the CPU is using, every page is
\* mapped as before the call or as asked: no code, stack or buffer outside
\* the range is unmapped for a moment, and a refused call changes nothing.
NoTransientMapping ==
  /\ pc # "idle" => \A p \in Pages : Mapping[p] \in {before[p], want[p]}
  /\ pc = "panic" => Mapping = before

\* What the CPU remembers when disable_cache has returned is in the table: no
\* access to a ring goes through the cache because of an old translation.
NoStaleTranslation ==
  pc = "idle" /\ tlb # NoEntry => tlb.entry = Translate(tlb.page)

\* After init_paging the null page faults and all memory the heap or the
\* kernel image may lie in is mapped to itself.
UsableMemoryMapped ==
  stage = "done" =>
    /\ Translate(0) = ZeroEntry
    /\ \A d \in MemoryMap : d.type \in UsableTypes =>
         \A p \in PagesOf(d.physical_start, d.physical_start + d.number_of_pages * PAGE_SIZE) \ {0} :
           Translate(p).attr # NotPresent /\ Translate(p).phys = p * PAGE_SIZE

\* The nested loops come to an end, at the last entry of a table too.
MappingReturns == pc = "enter" ~> pc \in {"return", "panic"}
=============================================================================
