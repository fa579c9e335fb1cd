------------------------------ MODULE Allocator ------------------------------
(***************************************************************************)
(* The kernel heap: FirstFitAllocator of allocator.rs.                     *)
(*                                                                         *)
(* The heap is a singly linked list of Headers that live in the memory     *)
(* they describe.  heap maps the address of every Header to its fields, so *)
(* next_header is a pointer as in the code; NULL (address 0) is None.      *)
(* One call of alloc_with_options walks the list one Header per step; the  *)
(* kernel runs on one CPU and holds the RefCell during the walk, so no     *)
(* other operation of the heap happens in between.                         *)
(***************************************************************************)
EXTENDS Integers, FiniteSets, Sequences

CONSTANTS
  WORD_BITS,    \* width of usize
  HEADER_SIZE,  \* size_of::<Header>()
  PAGE_SIZE,    \* page size of the UEFI memory map
  MemoryMap,    \* the descriptors of the UEFI memory map, in order
  Layouts,      \* the Layouts clients ask for
  MaxLive       \* bound on the allocations clients hold at the same time

PowersOfTwo == { 2^i : i \in 0..(WORD_BITS - 1) }
Usize == 0..(2^WORD_BITS - 1)

ASSUME WordAssumption == WORD_BITS \in Nat \ {0}

\* Arithmetic of powers of two, which the SMT solver knows nothing about.
ASSUME Pow2Arithmetic ==
  \A i, j \in 0..WORD_BITS :
    /\ 2^i \in Nat \ {0}
    /\ i <= j => 2^j % 2^i = 0
    /\ i < j => 2^i < 2^j

\* allocator.rs asserts that the size of a Header is a power of two.
ASSUME HeaderAssumption ==
  /\ HEADER_SIZE \in PowersOfTwo
  /\ PAGE_SIZE \in Nat
  /\ PAGE_SIZE >= HEADER_SIZE
  /\ PAGE_SIZE % HEADER_SIZE = 0

\* "All layouts have an associated size and a power-of-two alignment"; the
\* GlobalAlloc contract rules out a size of zero.  A Layout also keeps size
\* plus alignment inside isize, so can_provide adds without overflow.
ASSUME LayoutAssumption ==
  /\ Layouts \subseteq [size : Usize \ {0}, align : PowersOfTwo]
  /\ \A l \in Layouts : l.size + l.align <= 2^(WORD_BITS - 1)
  /\ MaxLive \in Nat \ {0}

Region(d) == d.physical_start .. (d.physical_start + d.number_of_pages * PAGE_SIZE - 1)

\* What the firmware promises of its map: page aligned, inside the address
\* space, and no two descriptors describe the same memory.
ASSUME MemoryMapAssumption ==
  /\ MemoryMap \in Seq([memory_type : STRING, physical_start : Nat, number_of_pages : Nat])
  /\ \A i \in DOMAIN MemoryMap :
       /\ MemoryMap[i].physical_start % PAGE_SIZE = 0
       /\ MemoryMap[i].physical_start + MemoryMap[i].number_of_pages * PAGE_SIZE <= 2^WORD_BITS
  /\ \A i, j \in DOMAIN MemoryMap :
       i # j => Region(MemoryMap[i]) \cap Region(MemoryMap[j]) = {}

VARIABLES
  first_header,  \* FirstFitAllocator::first_header
  heap,          \* the Headers in memory, by address
  mmap_pos,      \* next descriptor init_with_mmap looks at
  request,       \* Layout of the alloc_with_options call in progress, or NoLayout
  header,        \* the Header that call looks at
  live,          \* allocations handed out and not yet given back
  panicked       \* an assert! failed

vars == <<first_header, heap, mmap_pos, request, header, live, panicked>>

NULL == 0
NoLayout == [size |-> 0, align |-> 1]
OutOfRange == -1

Max(a, b) == IF a >= b THEN a ELSE b
\* x & !(align - 1) for a power of two align
AlignDown(x, align) == x - (x % align)

-----------------------------------------------------------------------------
(* usize::BITS - x.leading_zeros() is the number of bits of x, that is the *)
(* number of powers of two that are at most x.                             *)
BitLength(x) == Cardinality({ i \in 0..(WORD_BITS - 1) : 2^i <= x })

\* Mutant: the bits of v itself, so that a power of two is doubled.
round_up_past_pow2(v) ==
  LET shift == BitLength(v) IN IF shift < WORD_BITS THEN 2^shift ELSE OutOfRange

round_up_to_nearest_pow2(v) ==
  LET shift == BitLength((v - 1) % 2^WORD_BITS)      \* v.wrapping_sub(1)
  IN  IF shift < WORD_BITS THEN 2^shift ELSE OutOfRange

\* The exact sum: no machine has memory at the very end of 64 bits, where the
\* end would not be a usize.
end_addr(a) == a + heap[a].size

\* Mutant: the alignment is forgotten.
can_provide_no_align(a, size, align) == heap[a].size >= size + HEADER_SIZE * 2

can_provide(a, size, align) == heap[a].size >= size + HEADER_SIZE * 2 + align

\* Header::provide looks for room for the rounded size and alignment.
Rounded(layout) == Max(round_up_to_nearest_pow2(layout.size), HEADER_SIZE)
Aligned(layout) == Max(layout.align, HEADER_SIZE)

\* Mutant: a block that is held is split.
ProvidesHeld(a, layout) ==
  /\ round_up_to_nearest_pow2(layout.size) # OutOfRange
  /\ can_provide(a, Rounded(layout), Aligned(layout))

Provides(a, layout) ==
  /\ round_up_to_nearest_pow2(layout.size) # OutOfRange
  /\ ~heap[a].is_allocated
  /\ can_provide(a, Rounded(layout), Aligned(layout))

\* Mutants: round the address up; align to the Header, not to the object.
allocated_addr_up(a, layout) ==
  AlignDown(end_addr(a) - Rounded(layout) + Aligned(layout) - 1, Aligned(layout))
allocated_addr_unaligned(a, layout) == AlignDown(end_addr(a) - Rounded(layout), HEADER_SIZE)

allocated_addr(a, layout) == AlignDown(end_addr(a) - Rounded(layout), Aligned(layout))

(* The rest of Header::provide: carve a Header and the object from the end *)
(* of self, put a Header in front of what is left behind the object, link  *)
(* both in between self and the rest of the list, and shrink self.         *)
CarveBefore(rest, a, layout) ==
  LET ptr       == allocated_addr(a, layout)
      allocated == ptr - HEADER_SIZE
      padding   == ptr + Rounded(layout)
      hasPad    == padding # end_addr(a)
      sizeUsed  == end_addr(a) - allocated
  IN [b \in DOMAIN heap \cup {allocated} \cup (IF hasPad THEN {padding} ELSE {}) |->
        CASE b = a -> [size |-> heap[a].size - sizeUsed, is_allocated |-> FALSE,
                       next_header |-> allocated]
          [] b = allocated ->
                      [size |-> Rounded(layout) + HEADER_SIZE, is_allocated |-> TRUE,
                       next_header |-> IF hasPad THEN padding ELSE rest]
          [] hasPad /\ b = padding ->
                      [size |-> end_addr(a) - padding, is_allocated |-> FALSE,
                       next_header |-> rest]
          [] OTHER -> heap[b]]

CarveCycle(a, layout) == CarveBefore(a, a, layout)

\* Mutant: what is left behind the object gets no Header.
CarveLosesPadding(a, layout) ==
  LET padding == allocated_addr(a, layout) + Rounded(layout)
      carved  == CarveBefore(heap[a].next_header, a, layout)
      object  == allocated_addr(a, layout) - HEADER_SIZE
  IN  [b \in DOMAIN carved \ ({padding} \ DOMAIN heap) |->
         IF b = object THEN [carved[b] EXCEPT !.next_header = heap[a].next_header]
                       ELSE carved[b]]

Carve(a, layout) == CarveBefore(heap[a].next_header, a, layout)

\* assert!(self.size >= size_used + HEADER_SIZE)
AssertRoomForSelf(a, layout) ==
  heap[a].size >= (end_addr(a) - (allocated_addr(a, layout) - HEADER_SIZE)) + HEADER_SIZE

-----------------------------------------------------------------------------
Init ==
  /\ first_header = NULL
  /\ heap = [b \in {} |-> NULL]
  /\ mmap_pos = 1
  /\ request = NoLayout
  /\ header = NULL
  /\ live = {}
  /\ panicked = FALSE

\* The memory add_free_from_descriptor keeps of a descriptor.
free_start(d) == IF d.physical_start = 0 THEN PAGE_SIZE ELSE d.physical_start
free_size(d) ==
  LET size == d.number_of_pages * PAGE_SIZE
  IN  IF d.physical_start = 0 THEN Max(size - PAGE_SIZE, 0) ELSE size
IsKept(d) == d.memory_type = "CONVENTIONAL_MEMORY" /\ free_size(d) > PAGE_SIZE

(* One iteration of init_with_mmap: skip the descriptor, or put a Header   *)
(* over its memory at the front of the list.                               *)
add_free_from_descriptor ==
  /\ mmap_pos <= Len(MemoryMap)
  /\ mmap_pos' = mmap_pos + 1
  /\ LET d == MemoryMap[mmap_pos]
     IN  IF IsKept(d)
         THEN /\ heap' = [b \in DOMAIN heap \cup {free_start(d)} |->
                            IF b = free_start(d)
                            THEN [size |-> free_size(d), is_allocated |-> FALSE,
                                  next_header |-> first_header]
                            ELSE heap[b]]
              /\ first_header' = free_start(d)
         ELSE UNCHANGED <<heap, first_header>>
  /\ UNCHANGED <<request, header, live, panicked>>

Ready == mmap_pos > Len(MemoryMap) /\ ~panicked

alloc_with_options(layout) ==
  /\ Ready
  /\ request = NoLayout
  /\ Cardinality(live) < MaxLive
  /\ request' = layout
  /\ header' = first_header
  /\ UNCHANGED <<first_header, heap, mmap_pos, live, panicked>>

\* Some(e) => match e.provide(..) { Some(p) => break p, .. }
AllocProvide ==
  /\ Ready
  /\ request # NoLayout
  /\ header # NULL
  /\ Provides(header, request)
  /\ IF AssertRoomForSelf(header, request)
     THEN /\ heap' = Carve(header, request)
          /\ live' = live \cup
               {[ptr |-> allocated_addr(header, request), layout |-> request]}
          /\ UNCHANGED panicked
     ELSE panicked' = TRUE /\ UNCHANGED <<heap, live>>
  /\ request' = NoLayout
  /\ UNCHANGED <<first_header, mmap_pos, header>>

\* None => header = e.next_header.borrow_mut()
AllocNextHeader ==
  /\ Ready
  /\ request # NoLayout
  /\ header # NULL
  /\ ~Provides(header, request)
  /\ header' = heap[header].next_header
  /\ UNCHANGED <<first_header, heap, mmap_pos, request, live, panicked>>

\* None => break null_mut::<u8>()
AllocReturnNull ==
  /\ Ready
  /\ request # NoLayout
  /\ header = NULL
  /\ request' = NoLayout
  /\ UNCHANGED <<first_header, heap, mmap_pos, header, live, panicked>>

dealloc(a) ==
  /\ Ready
  /\ request = NoLayout
  /\ heap' = [heap EXCEPT ![a.ptr - HEADER_SIZE].is_allocated = FALSE]
  /\ live' = live \ {a}
  /\ UNCHANGED <<first_header, mmap_pos, request, header, panicked>>

AllocStep == AllocProvide \/ AllocNextHeader \/ AllocReturnNull

Next ==
  \/ add_free_from_descriptor
  \/ \E layout \in Layouts : alloc_with_options(layout)
  \/ AllocStep
  \/ \E a \in live : dealloc(a)

\* The walk is a loop of straight-line code: the CPU does not stop in it.
Spec == Init /\ [][Next]_vars /\ WF_vars(AllocStep)

-----------------------------------------------------------------------------
(* Properties.                                                             *)

\* The memory init_with_mmap has handed to the heap so far.
Managed(x) ==
  \E i \in 1..(mmap_pos - 1) :
    /\ IsKept(MemoryMap[i])
    /\ free_start(MemoryMap[i]) <= x
    /\ x < free_start(MemoryMap[i]) + free_size(MemoryMap[i])

\* Types, and every link of the list points to a Header or is None: a
\* next_header never points into memory that is no Header.
TypeOK ==
  /\ DOMAIN heap \subseteq Usize \ {NULL}
  /\ heap \in [DOMAIN heap -> [size : Nat, is_allocated : BOOLEAN,
                               next_header : DOMAIN heap \cup {NULL}]]
  /\ first_header \in DOMAIN heap \cup {NULL}
  /\ mmap_pos \in 1..(Len(MemoryMap) + 1)
  /\ request \in Layouts \cup {NoLayout}
  /\ header \in DOMAIN heap \cup {NULL}
  /\ live \subseteq [ptr : Nat, layout : Layouts]
  /\ panicked \in BOOLEAN

\* A Header fits into the block it heads, whatever was carved from it and
\* whatever padding Header::provide left behind: the Header written at
\* header_for_padding never reaches into the next block or past memory.
HeadersFit ==
  \A a \in DOMAIN heap :
    /\ a % HEADER_SIZE = 0
    /\ end_addr(a) <= 2^WORD_BITS
    /\ heap[a].size % HEADER_SIZE = 0
    /\ heap[a].size >= HEADER_SIZE

\* No two blocks of the list overlap, after any sequence of splits.
BlocksDisjoint ==
  \A a, b \in DOMAIN heap : a < b => end_addr(a) <= b

\* The blocks cover the memory init_with_mmap added and nothing else: no
\* split loses a byte and none reaches outside the UEFI descriptors it came
\* from (address 0 and non-conventional memory are never touched).
BlocksCoverManaged ==
  \A x \in Usize : Managed(x) <=> \E a \in DOMAIN heap : a <= x /\ x < end_addr(a)

\* What a client holds is aligned as it asked, lies in a block of its own
\* marked allocated and large enough, and no allocated block is without an
\* owner (an unowned one could never be freed).
LiveBacked ==
  /\ \A m \in live :
       /\ m.ptr % m.layout.align = 0
       /\ m.ptr - HEADER_SIZE \in DOMAIN heap
       /\ heap[m.ptr - HEADER_SIZE].is_allocated
       /\ heap[m.ptr - HEADER_SIZE].size >= m.layout.size + HEADER_SIZE
  /\ \A m, n \in live : m.ptr = n.ptr => m = n
  /\ \A a \in DOMAIN heap :
       heap[a].is_allocated => \E m \in live : m.ptr = a + HEADER_SIZE

\* "allocated_objects_have_no_overlap": the bytes of two live objects are
\* disjoint, and no Header of the list lies inside a live object, so that
\* neither a client's write nor provide's Header write damages the other.
LiveObjectsIntact ==
  /\ \A m, n \in live :
       m # n => \/ m.ptr + m.layout.size <= n.ptr
                \/ n.ptr + n.layout.size <= m.ptr
  /\ \A m \in live : \A a \in DOMAIN heap :
       a + HEADER_SIZE <= m.ptr \/ m.ptr + m.layout.size <= a

\* Every Header can be reached from first_header: the take() of next_header
\* in provide never loses the tail of the list.  (A set of Headers that
\* holds the first one and is closed under next_header is all of them.)
HeadersListed ==
  \A S \in SUBSET DOMAIN heap :
    (/\ first_header \in S \cup {NULL}
     /\ \A a \in S : heap[a].next_header \in S \cup {NULL})
    => S = DOMAIN heap

\* The Headers partition the managed memory, and all are on the list.
HeapIsPartition == HeadersFit /\ BlocksDisjoint /\ BlocksCoverManaged /\ HeadersListed

\* The assert! that self keeps room for its own Header never fails.
NoPanic == ~panicked

\* The reference for round_up_to_nearest_pow2: the least power of two that
\* is at least v, if a usize can hold it.
NearestPow2(v) ==
  IF v = 0 \/ \A p \in PowersOfTwo : p < v
  THEN OutOfRange
  ELSE CHOOSE p \in PowersOfTwo : p >= v /\ \A q \in PowersOfTwo : q >= v => p <= q

\* round_up_to_nearest_pow2 agrees with its reference on every usize: at 0,
\* at 1, on both sides of every power of two and where the result overflows;
\* and the block provide makes for an object has just that size.
RoundUpIsNearestPow2 ==
  /\ \A v \in Usize : round_up_to_nearest_pow2(v) = NearestPow2(v)
  /\ \A m \in live :
       heap[m.ptr - HEADER_SIZE].size = Max(NearestPow2(m.layout.size), HEADER_SIZE) + HEADER_SIZE

\* Splits and frees never remove a Header ("Header should not be dropped!")
\* and never resize a block a client holds, so the ptr - HEADER_SIZE that
\* dealloc computes later still finds the Header alloc wrote.
HeldBlocksStable ==
  [][\A a \in DOMAIN heap :
       /\ a \in DOMAIN heap'
       /\ heap[a].is_allocated => heap'[a].size = heap[a].size]_vars

\* Every call of alloc returns: the list it walks never becomes a cycle.
AllocReturns == request # NoLayout ~> request = NoLayout

\* An allocation does not fail while no client holds any memory: what was
\* freed can be allocated again.
FreedIsReusable ==
  ~(mmap_pos > Len(MemoryMap) /\ request # NoLayout /\ header = NULL /\ live = {})
=============================================================================
