---------------------------- MODULE PagingProofs ----------------------------
(***************************************************************************)
(* create_mapping maps exactly the pages it is asked for and disturbs no   *)
(* other translation, at any moment, for page tables of any depth and any  *)
(* number of entries, any memory map and any regions; and the CPU remembers*)
(* nothing that is not in the table.                                       *)
(***************************************************************************)
EXTENDS Paging, WellFoundedInduction, TLAPS

Attributes == {NotPresent, ReadWriteKernel, ReadWriteIo}
EntryType == [phys : Int, attr : Attributes]
Tables == UNION { PathsOf(n) : n \in 1..(Levels - 1) }

TypeOK ==
  /\ populated \subseteq Tables
  /\ pte \in [PathsOf(Levels) -> EntryType]
  /\ cr3 \in {"firmware", "kernel"}
  /\ stage \in {"start", "mapped", "done"}
  /\ pc \in {"idle", "enter", "leave", "return", "panic"}
  /\ level \in 1..Levels
  /\ index \in [1..Levels -> 0..(Entries - 1)]
  /\ addr \in Nat
  /\ call \in [virt_start : Nat, virt_end : Nat, phys : Nat, attr : Attributes]
  /\ before \in [Pages -> EntryType]

\* The path to the first n tables.
Cut(path, n) == [i \in 1..n |-> path[i]]

\* Every table but the root is an entry of a table that is there.
Closed == \A t \in populated : \A n \in 1..Len(t) : Cut(t, n) \in populated

\* The path the indices of the loops make; the tables on it are there, as far
\* as the loops have come.
IndexPath == [j \in 1..Levels |-> index[Levels + 1 - j]]
Depth == IF pc = "enter" THEN Levels - level ELSE Levels - 1
Walked == pc \in {"enter", "leave"} => \A n \in 1..Depth : Cut(IndexPath, n) \in populated

\* The arguments of the callers, and the mapping they ask for.
CallState ==
  pc # "idle" =>
    /\ call.virt_start < call.virt_end /\ call.virt_end <= AddressSpace
    /\ call.phys = call.virt_start
    /\ want = [p \in Pages |->
                 IF p \in PagesOf(call.virt_start, call.virt_end)
                 THEN Entry(p * PAGE_SIZE, call.attr) ELSE before[p]]

\* A range that starts within a page is refused at its first page.
Unaligned == addr = call.virt_start /\ addr % PAGE_SIZE # 0 /\ pc \in {"enter", "panic"}

\* Otherwise the indices are those of the address of the loop or, when a loop
\* has ended, of the page before it; then a table ends there or the range.
AtAddress ==
  /\ addr % PAGE_SIZE = 0 /\ call.virt_start <= addr /\ addr <= AddressSpace
  /\ call.virt_start % PAGE_SIZE = 0
  /\ pc = "enter" =>
       /\ addr < call.virt_end
       /\ \A l \in (level + 1)..Levels : index[l] = calc_index(l, addr)
  /\ pc = "leave" =>
       /\ addr >= PAGE_SIZE /\ level >= 2
       /\ \A l \in 1..Levels : index[l] = calc_index(l, addr - PAGE_SIZE)
       /\ addr >= call.virt_end \/ addr % (PAGE_SIZE * Entries^(level - 1)) = 0
  /\ pc = "return" => addr >= call.virt_end
  /\ pc # "panic"

AddrState == pc # "idle" => Unaligned \/ AtAddress

\* The pages the innermost loop has been at are mapped as asked, the others as
\* before the call.
Done(p) ==
  /\ p \in PagesOf(call.virt_start, call.virt_end)
  /\ call.virt_start <= p * PAGE_SIZE /\ p * PAGE_SIZE < addr

MapState ==
  pc # "idle" =>
    \A p \in Pages : Translate(p) = IF Done(p) THEN want[p] ELSE before[p]

\* The inductive invariant of create_mapping.
IInv == TypeOK /\ Closed /\ Walked /\ CallState /\ AddrState /\ MapState

\* The CPU remembers nothing before init_paging is done, and what it remembers
\* while no table is being changed is in the table.
TlbState ==
  /\ stage # "done" => cr3 = "firmware"
  /\ cr3 = "firmware" => tlb = NoEntry
  /\ NoStaleTranslation

\* All memory is mapped to itself: without and with page 0.
Memory(M) == \A p \in Pages : p * PAGE_SIZE < end_of_mem => M[p] = Entry(p * PAGE_SIZE, ReadWriteKernel)
MemoryNull(M) ==
  /\ M[0] = ZeroEntry
  /\ \A p \in Pages \ {0} :
       p * PAGE_SIZE < end_of_mem => M[p].phys = p * PAGE_SIZE /\ M[p].attr # NotPresent

\* What the stages of init_paging have made of the mapping.
StageState ==
  /\ stage = "start" /\ pc # "idle" => call = Call(0, end_of_mem, 0, ReadWriteKernel)
  /\ stage = "mapped" =>
       IF pc = "idle" THEN Memory(Mapping)
       ELSE Memory(before) /\ call = Call(0, PAGE_SIZE, 0, NotPresent)
  /\ stage = "done" =>
       IF pc = "idle" THEN MemoryNull(Mapping)
       ELSE /\ MemoryNull(before)
            /\ call.virt_start >= PAGE_SIZE /\ call.attr = ReadWriteIo

-----------------------------------------------------------------------------
(* Arithmetic.                                                             *)

\* A set of naturals that is not empty has a least element.
LEMMA LeastNat ==
  ASSUME NEW T \in SUBSET Nat, T # {}
  PROVE  \E x \in T : \A y \in T : x <= y
<1> DEFINE R == OpToRel(<, Nat)
<1>1. \E x \in T : \A y \in T : ~(<<y, x>> \in R)
  BY NatLessThanWellFounded, WFMin
<1>2. \A x, y \in Nat : <<y, x>> \in R <=> y < x
  BY Zenon DEF OpToRel
<1> HIDE DEF R
<1>3. \E x \in T : \A y \in T : ~(y < x)
  BY <1>1, <1>2, Zenon
<1> QED
  BY <1>3

\* Dividing twice is dividing by the product.
LEMMA DivDiv ==
  ASSUME NEW a \in Nat, NEW v \in Nat \ {0}, NEW w \in Nat \ {0}
  PROVE  a \div (v * w) = (a \div v) \div w
  BY Z3T(30)

\* A common factor cancels.
LEMMA DivCancel ==
  ASSUME NEW a \in Nat, NEW v \in Nat \ {0}, NEW w \in Nat \ {0}
  PROVE  (a * v) \div (v * w) = a \div w
  BY Z3T(30)

\* Quotient and remainder.
LEMMA DivMod ==
  ASSUME NEW a \in Nat, NEW v \in Nat \ {0}
  PROVE  a \div v \in Nat /\ a % v \in 0..(v - 1) /\ a = v * (a \div v) + (a % v)
<1>1. a % v \in 0..(v - 1)
  OBVIOUS
<1>2. a \div v \in Nat
  OBVIOUS
<1>3. a = v * (a \div v) + (a % v)
  OBVIOUS
<1> QED
  BY <1>1, <1>2, <1>3, Zenon

\* What the size of the tables and of a page are.
LEMMA Sizes ==
  /\ Levels \in Nat /\ Levels >= 2 /\ Entries \in Nat \ {0} /\ Entries >= 2
  /\ PAGE_SIZE \in Nat \ {0}
  /\ Entries^Levels \in Nat \ {0} /\ AddressSpace \in Nat \ {0}
  /\ AddressSpace = Entries^Levels * PAGE_SIZE
  /\ 0 \in Pages /\ \A p \in Pages : p \in Nat
<1>1. Entries^Levels \in Nat \ {0}
  BY PowerArithmetic, PagingAssumption
<1> DEFINE n == Entries^Levels
<1> HIDE DEF n
<1>2. n \in Nat \ {0} /\ PAGE_SIZE \in Nat \ {0}
  BY <1>1, PagingAssumption DEF n
<1>3. PAGE_SIZE * n = n * PAGE_SIZE /\ n * PAGE_SIZE \in Nat \ {0}
  BY <1>2
<1>4. 0 \in 0..(n - 1) /\ \A p \in 0..(n - 1) : p \in Nat
  BY <1>2
<1> QED
  BY <1>1, <1>3, <1>4, PagingAssumption DEF AddressSpace, Pages, n

\* The weight of an index of level l + 1, in pages.
LEMMA Weight ==
  ASSUME NEW l \in 1..Levels
  PROVE  /\ Entries^(l - 1) \in Nat \ {0} /\ Entries^l \in Nat \ {0}
         /\ Entries^l = Entries^(l - 1) * Entries
<1>1. l - 1 \in 0..Levels /\ l - 1 < Levels /\ l \in 0..Levels /\ (l - 1) + 1 = l
  BY Sizes
<1> QED
  BY <1>1, PowerArithmetic

\* An index is an index, of any address.
LEMMA IndexType ==
  ASSUME NEW l \in 1..Levels, NEW a \in Nat
  PROVE  calc_index(l, a) \in 0..(Entries - 1)
<1> DEFINE w == Entries^(l - 1)
<1>1. w \in Nat \ {0} /\ PAGE_SIZE \in Nat \ {0} /\ Entries \in Nat \ {0}
  BY Weight, Sizes
<1> HIDE DEF w
<1>2. PAGE_SIZE * w \in Nat \ {0}
  BY <1>1
<1>3. a \div (PAGE_SIZE * w) \in Nat
  BY <1>2
<1>4. (a \div (PAGE_SIZE * w)) % Entries \in 0..(Entries - 1)
  BY <1>1, <1>3
<1> QED
  BY <1>4 DEF calc_index, w

\* The indices of a page are the digits of its number.
LEMMA IndexIsDigit ==
  ASSUME NEW l \in 1..Levels, NEW p \in Nat
  PROVE  calc_index(l, p * PAGE_SIZE) = (p \div Entries^(l - 1)) % Entries
<1> DEFINE w == Entries^(l - 1)
<1>1. w \in Nat \ {0} /\ PAGE_SIZE \in Nat \ {0}
  BY Weight, Sizes
<1> HIDE DEF w
<1>2. (p * PAGE_SIZE) \div (PAGE_SIZE * w) = p \div w
  BY <1>1, DivCancel
<1> QED
  BY <1>2 DEF calc_index, w

\* The digits above an index, and the index itself, make up the digits from it.
LEMMA DigitStep ==
  ASSUME NEW l \in 1..Levels, NEW p \in Nat
  PROVE  /\ p \div Entries^(l - 1) \in Nat /\ p \div Entries^l \in Nat
         /\ p \div Entries^l = (p \div Entries^(l - 1)) \div Entries
         /\ p \div Entries^(l - 1) =
              Entries * (p \div Entries^l) + ((p \div Entries^(l - 1)) % Entries)
<1> DEFINE w == Entries^(l - 1)
<1> DEFINE v == Entries^l
<1>1. w \in Nat \ {0} /\ v \in Nat \ {0} /\ v = w * Entries /\ Entries \in Nat \ {0}
  BY Weight, Sizes
<1> HIDE DEF w, v
<1> DEFINE d == p \div w
<1>2. d \in Nat /\ p \div (w * Entries) = d \div Entries
  BY <1>1, DivDiv, DivMod, Zenon
<1> HIDE DEF d
<1>3. d \div Entries \in Nat /\ d = Entries * (d \div Entries) + (d % Entries)
  BY <1>1, <1>2, DivMod, Zenon
<1>4. p \div v = d \div Entries
  BY <1>1, <1>2
<1>5. d \in Nat /\ p \div v \in Nat /\ p \div v = d \div Entries
      /\ d = Entries * (p \div v) + (d % Entries)
  BY <1>2, <1>3, <1>4
<1> QED
  BY <1>5 DEF d, w, v

\* Two pages with the same indices are the same page.
LEMMA PathInjective ==
  ASSUME NEW p \in Pages, NEW q \in Pages, PathOf(p) = PathOf(q)
  PROVE  p = q
<1> DEFINE T == { l \in 0..Levels : p \div Entries^l = q \div Entries^l }
<1>1. p \in Nat /\ q \in Nat /\ Levels \in Nat
  BY Sizes
<1>2. Levels \in T
  <2> DEFINE n == Entries^Levels
  <2>1. n \in Nat \ {0} /\ p \in 0..(n - 1) /\ q \in 0..(n - 1)
    BY Sizes DEF Pages
  <2> HIDE DEF n
  <2>2. p \div n = 0 /\ q \div n = 0
    BY <2>1
  <2> QED
    BY <1>1, <2>2 DEF n
<1>3. ASSUME NEW l \in 1..Levels PROVE calc_index(l, p * PAGE_SIZE) = calc_index(l, q * PAGE_SIZE)
  <2>1. Levels + 1 - l \in 1..Levels /\ Levels + 1 - (Levels + 1 - l) = l
    BY <1>1
  <2>2. PathOf(p)[Levels + 1 - l] = PathOf(q)[Levels + 1 - l]
    OBVIOUS
  <2> QED
    BY <2>1, <2>2 DEF PathOf
<1>4. PICK l \in T : \A m \in T : l <= m
  <2>1. T \in SUBSET Nat
    BY <1>1
  <2> HIDE DEF T
  <2> QED
    BY <1>2, <2>1, LeastNat
<1>5. l = 0
  <2>1. ASSUME l # 0 PROVE FALSE
    <3>1. l \in 1..Levels /\ l - 1 \in 0..Levels /\ ~(l <= l - 1)
      BY <1>1, <2>1
    <3>2. (p \div Entries^(l - 1)) % Entries = (q \div Entries^(l - 1)) % Entries
      BY <1>1, <1>3, <3>1, IndexIsDigit
    <3>3. p \div Entries^l = q \div Entries^l
      BY <1>4
    <3>4. /\ p \div Entries^(l - 1) =
               Entries * (p \div Entries^l) + ((p \div Entries^(l - 1)) % Entries)
          /\ q \div Entries^(l - 1) =
               Entries * (q \div Entries^l) + ((q \div Entries^(l - 1)) % Entries)
      BY <1>1, <3>1, DigitStep
    <3>5. p \div Entries^(l - 1) = q \div Entries^(l - 1)
      BY <3>2, <3>3, <3>4, Zenon
    <3> QED
      BY <1>4, <3>1, <3>5
  <2> QED
    BY <2>1
<1>6. p \div 1 = p /\ q \div 1 = q
  BY <1>1
<1> QED
  BY <1>4, <1>5, <1>6, PowerArithmetic

\* A path has one index for each level.
LEMMA PathType ==
  ASSUME NEW p \in Pages
  PROVE  PathOf(p) \in PathsOf(Levels)
<1>1. ASSUME NEW i \in 1..Levels
      PROVE  calc_index(Levels + 1 - i, p * PAGE_SIZE) \in 0..(Entries - 1)
  <2>1. Levels + 1 - i \in 1..Levels /\ p * PAGE_SIZE \in Nat
    BY Sizes
  <2> QED
    BY <2>1, IndexType
<1> QED
  BY <1>1 DEF PathOf, PathsOf

\* One page on, when the weights below l are full: the page after p starts a
\* new table of level l.
LEMMA TableEnds ==
  ASSUME NEW l \in 1..Levels, NEW p \in Nat, (p + 1) % Entries^(l - 1) = 0
  PROVE  /\ ((p \div Entries^(l - 1)) % Entries) + 1 >= Entries => (p + 1) % Entries^l = 0
         /\ ((p \div Entries^(l - 1)) % Entries) + 1 < Entries =>
              (p + 1) \div Entries^l = p \div Entries^l
<1> DEFINE w == Entries^(l - 1)
<1> DEFINE v == Entries^l
<1> DEFINE m == (p + 1) \div w
<1>1. w \in Nat \ {0} /\ v \in Nat \ {0} /\ v = w * Entries /\ Entries \in Nat \ {0} /\ p + 1 \in Nat
  BY Weight, Sizes
<1>2. (p + 1) % w = 0
  OBVIOUS
<1> HIDE DEF w, v
<1>3. m \in Nat /\ p + 1 = w * m + ((p + 1) % w)
  BY <1>1, DivMod, Zenon
<1> HIDE DEF m
<1>4. p + 1 = w * m /\ m >= 1
  BY <1>1, <1>2, <1>3
<1>5. p \div w = m - 1
  <2>1. p = w * (m - 1) + (w - 1) /\ m - 1 \in Nat
    BY <1>1, <1>3, <1>4
  <2>2. \A x \in Nat : (w * x + (w - 1)) \div w = x
    BY <1>1, Z3T(30)
  <2> QED
    BY <2>1, <2>2
<1>6. CASE ((m - 1) % Entries) + 1 >= Entries
  <2> DEFINE k == (m - 1) \div Entries
  <2>1. k \in Nat /\ m - 1 = Entries * k + ((m - 1) % Entries) /\ (m - 1) % Entries \in 0..(Entries - 1)
    <3>1. m - 1 \in Nat
      BY <1>3, <1>4
    <3> QED
      BY <1>1, <3>1, DivMod, Zenon
  <2> HIDE DEF k
  <2>2. m = Entries * (k + 1)
    BY <1>1, <1>3, <1>6, <2>1
  <2>3. p + 1 = v * (k + 1)
    BY <1>1, <1>4, <2>1, <2>2
  <2>4. \A x \in Nat : (v * x) % v = 0
    BY <1>1, Z3T(30)
  <2>5. (p + 1) % v = 0
    BY <2>1, <2>3, <2>4
  <2> QED
    BY <1>1, <1>5, <1>6, <2>5 DEF w, v
<1>7. CASE ((m - 1) % Entries) + 1 < Entries
  <2>1. m \div Entries = (m - 1) \div Entries
    <3> DEFINE k == (m - 1) \div Entries
    <3> DEFINE r == (m - 1) % Entries
    <3>1. k \in Nat /\ m - 1 = Entries * k + r /\ r \in 0..(Entries - 1)
      <4>1. m - 1 \in Nat
        BY <1>3, <1>4
      <4> QED
        BY <1>1, <4>1, DivMod, Zenon
    <3>2. r + 1 < Entries
      BY <1>7
    <3> HIDE DEF k, r
    <3>3. m = Entries * k + (r + 1) /\ r + 1 \in 0..(Entries - 1)
      BY <1>1, <1>3, <3>1, <3>2
    <3>4. \A x \in Nat : \A y \in 0..(Entries - 1) : (Entries * x + y) \div Entries = x
      BY <1>1, Z3T(30)
    <3>5. m \div Entries = k
      BY <3>1, <3>3, <3>4
    <3> QED
      BY <3>5 DEF k
  <2>2. (p + 1) \div v = ((p + 1) \div w) \div Entries /\ p \div v = (p \div w) \div Entries
    BY <1>1, DivDiv
  <2>3. (p + 1) \div v = p \div v
    BY <1>5, <2>1, <2>2 DEF m
  <2>4. (m - 1) % Entries \in Int
    <3>1. m - 1 \in Nat
      BY <1>3, <1>4
    <3> QED
      BY <1>1, <3>1
  <2>5. ~(((m - 1) % Entries) + 1 >= Entries)
    BY <1>1, <1>7, <2>4
  <2> QED
    BY <1>5, <2>3, <2>5 DEF w, v
<1>8. m - 1 \in Nat
  BY <1>3, <1>4
<1>9. (m - 1) % Entries \in Int
  BY <1>1, <1>8
<1> QED
  BY <1>1, <1>6, <1>7, <1>9

\* Equal digits from level l on stay equal above.
LEMMA SameAbove ==
  ASSUME NEW l \in 0..Levels, NEW p \in Nat, NEW q \in Nat,
         p \div Entries^l = q \div Entries^l
  PROVE  \A j \in (l + 1)..Levels : calc_index(j, p * PAGE_SIZE) = calc_index(j, q * PAGE_SIZE)
<1> DEFINE T == { j \in l..Levels : p \div Entries^j # q \div Entries^j }
<1>1. Levels \in Nat /\ l \in Nat /\ T \in SUBSET Nat
  BY Sizes
<1>2. T = {}
  <2>1. ASSUME T # {} PROVE FALSE
    <3>1. PICK j \in T : \A i \in T : j <= i
      <4> HIDE DEF T
      <4> QED
        BY <1>1, <2>1, LeastNat
    <3>2. j \in l..Levels /\ j # l /\ p \div Entries^j # q \div Entries^j
      OBVIOUS
    <3>3. j \in 1..Levels /\ j - 1 \in l..Levels /\ ~(j <= j - 1)
      BY <1>1, <3>2
    <3>4. p \div Entries^(j - 1) = q \div Entries^(j - 1)
      BY <3>1, <3>3
    <3>5. /\ p \div Entries^j = (p \div Entries^(j - 1)) \div Entries
          /\ q \div Entries^j = (q \div Entries^(j - 1)) \div Entries
      BY <3>3, DigitStep
    <3> QED
      BY <3>2, <3>4, <3>5, Zenon
  <2> QED
    BY <2>1
<1>3. ASSUME NEW j \in (l + 1)..Levels
      PROVE  calc_index(j, p * PAGE_SIZE) = calc_index(j, q * PAGE_SIZE)
  <2>1. j \in 1..Levels /\ j - 1 \in l..Levels
    BY <1>1
  <2>2. p \div Entries^(j - 1) = q \div Entries^(j - 1)
    BY <1>2, <2>1
  <2> QED
    BY <2>1, <2>2, IndexIsDigit
<1> QED
  BY <1>3

-----------------------------------------------------------------------------
(* Paths and translations.                                                 *)

\* The tables on the way to an entry are the beginnings of its path.
LEMMA PrefixesAreCuts ==
  ASSUME NEW path \in PathsOf(Levels)
  PROVE  Prefixes(path) = { Cut(path, n) : n \in 1..(Levels - 1) }
<1>1. ASSUME NEW n \in 1..(Levels - 1)
      PROVE  SubSeq(path, 1, n) = Cut(path, n)
  BY Sizes DEF Cut, PathsOf
<1> QED
  BY <1>1 DEF Prefixes

\* A beginning of a path is a path; those of the beginning are its own.
LEMMA CutType ==
  ASSUME NEW n \in 1..Levels, NEW path \in PathsOf(n), NEW k \in 1..n
  PROVE  /\ Cut(path, k) \in PathsOf(k) /\ Len(Cut(path, k)) = k
         /\ DOMAIN Cut(path, k) = 1..k
         /\ \A i \in 1..k : Cut(Cut(path, k), i) = Cut(path, i)
         /\ Len(path) = n /\ Cut(path, n) = path /\ DOMAIN path = 1..n
<1>1. k \in Nat /\ n \in Nat /\ Levels \in Nat
  BY Sizes
<1>2. Cut(path, k) \in [1..k -> 0..(Entries - 1)]
  BY <1>1 DEF Cut, PathsOf
<1>3. \A i \in 1..k : Cut(Cut(path, k), i) = Cut(path, i)
  BY <1>1 DEF Cut, PathsOf
<1>4. Cut(path, n) = path
  BY <1>1 DEF Cut, PathsOf
<1>5. Len(path) = n /\ Len(Cut(path, k)) = k
  BY <1>1, <1>2 DEF PathsOf
<1> QED
  BY <1>2, <1>3, <1>4, <1>5 DEF PathsOf, Cut

\* What a walk finds, table by table.
LEMMA TranslateIs ==
  ASSUME NEW p \in Pages
  PROVE  Translate(p) = IF \A n \in 1..(Levels - 1) : Cut(PathOf(p), n) \in populated
                        THEN pte[PathOf(p)] ELSE ZeroEntry
<1>1. Prefixes(PathOf(p)) = { Cut(PathOf(p), n) : n \in 1..(Levels - 1) }
  BY PathType, PrefixesAreCuts
<1> QED
  BY <1>1 DEF Translate

\* An aligned address is that of a page.
LEMMA AlignedIsPage ==
  ASSUME NEW a \in Nat, a % PAGE_SIZE = 0
  PROVE  \E q \in Nat : a = q * PAGE_SIZE
<1>1. /\ a \div PAGE_SIZE \in Nat /\ PAGE_SIZE \in Nat \ {0}
      /\ a = PAGE_SIZE * (a \div PAGE_SIZE) + (a % PAGE_SIZE)
  BY Sizes, DivMod
<1> DEFINE q == a \div PAGE_SIZE
<1>2. q \in Nat /\ a = PAGE_SIZE * q + 0
  BY <1>1
<1> HIDE DEF q
<1>3. a = q * PAGE_SIZE
  BY <1>1, <1>2
<1> QED
  BY <1>2, <1>3

\* Multiples, in pages and in bytes.
LEMMA ModScale ==
  ASSUME NEW q \in Nat, NEW w \in Nat \ {0}
  PROVE  /\ (q * PAGE_SIZE) % PAGE_SIZE = 0
         /\ (q * PAGE_SIZE) % (PAGE_SIZE * w) = 0 <=> q % w = 0
<1>1. PAGE_SIZE \in Nat \ {0}
  BY Sizes
<1>2. (q * PAGE_SIZE) % PAGE_SIZE = 0
  BY <1>1, Z3T(30)
<1>3. ASSUME q % w = 0 PROVE (q * PAGE_SIZE) % (PAGE_SIZE * w) = 0
  <2>1. q \div w \in Nat /\ q = w * (q \div w) + (q % w)
    BY DivMod
  <2> DEFINE k == q \div w
  <2>2. k \in Nat /\ q = w * k
    BY <1>3, <2>1
  <2> HIDE DEF k
  <2>3. q * PAGE_SIZE = (PAGE_SIZE * w) * k /\ PAGE_SIZE * w \in Nat \ {0}
    BY <1>1, <2>2, Z3T(30)
  <2>4. \A x \in Nat : \A v \in Nat \ {0} : (v * x) % v = 0
    BY Z3T(30)
  <2> QED
    BY <2>2, <2>3, <2>4
<1>4. ASSUME (q * PAGE_SIZE) % (PAGE_SIZE * w) = 0 PROVE q % w = 0
  <2> DEFINE v == PAGE_SIZE * w
  <2> DEFINE k == (q * PAGE_SIZE) \div v
  <2>1. v \in Nat \ {0} /\ q * PAGE_SIZE \in Nat
    BY <1>1
  <2>2. k \in Nat /\ q * PAGE_SIZE = v * k + ((q * PAGE_SIZE) % v)
    BY <2>1, DivMod, Zenon
  <2>3. k \in Nat /\ q * PAGE_SIZE = PAGE_SIZE * w * k
    BY <1>1, <1>4, <2>2
  <2> HIDE DEF v, k
  <2>4. q = w * k
    BY <1>1, <2>3, Z3T(30)
  <2>5. \A x \in Nat : (w * x) % w = 0
    BY Z3T(30)
  <2> QED
    BY <2>3, <2>4, <2>5
<1> QED
  BY <1>2, <1>3, <1>4

\* The last address that init_paging maps.
LEMMA EndOfMem ==
  /\ end_of_mem \in Nat \ {0} /\ end_of_mem <= AddressSpace
  /\ \A d \in MemoryMap : d.type \in UsableTypes =>
       d.physical_start + d.number_of_pages * PAGE_SIZE <= end_of_mem
<1> DEFINE S == {MinEnd} \cup { d.physical_start + d.number_of_pages * PAGE_SIZE :
                      d \in { m \in MemoryMap : m.type \in UsableTypes } }
<1> DEFINE T == { AddressSpace - x : x \in S }
<1>1. ASSUME NEW x \in S PROVE x \in Nat /\ x <= AddressSpace
  <2>1. CASE x = MinEnd
    BY <2>1, Sizes, PagingAssumption
  <2>2. ASSUME NEW d \in MemoryMap, x = d.physical_start + d.number_of_pages * PAGE_SIZE
        PROVE  x \in Nat /\ x <= AddressSpace
    <3>1. /\ d.physical_start \in Nat /\ d.number_of_pages \in Nat
          /\ d.physical_start + d.number_of_pages * PAGE_SIZE <= AddressSpace
      BY PagingAssumption
    <3> QED
      BY <2>2, <3>1, Sizes
  <2> QED
    BY <2>1, <2>2
<1>2. MinEnd \in S /\ MinEnd \in Nat \ {0}
  BY PagingAssumption, Sizes
<1> HIDE DEF S
<1>3. T \in SUBSET Nat /\ T # {}
  BY <1>1, <1>2, Sizes
<1>4. PICK t \in T : \A u \in T : t <= u
  BY <1>3, LeastNat
<1>5. \E x \in S : \A y \in S : x >= y
  <2>1. PICK x \in S : t = AddressSpace - x
    BY <1>4
  <2>2. ASSUME NEW y \in S PROVE x >= y
    <3>1. AddressSpace - x <= AddressSpace - y
      BY <1>4, <2>1
    <3> QED
      BY <1>1, <3>1, Sizes
  <2> QED
    BY <2>1, <2>2
<1>6. end_of_mem \in S /\ \A y \in S : end_of_mem >= y
  <2>1. end_of_mem = CHOOSE x \in S : \A y \in S : x >= y
    BY DEF end_of_mem, Max, S
  <2> QED
    BY <1>5, <2>1
<1>7. end_of_mem \in Nat \ {0} /\ end_of_mem <= AddressSpace
  BY <1>1, <1>2, <1>6
<1>8. ASSUME NEW d \in MemoryMap, d.type \in UsableTypes
      PROVE  d.physical_start + d.number_of_pages * PAGE_SIZE <= end_of_mem
  <2>1. d.physical_start + d.number_of_pages * PAGE_SIZE \in S
    BY <1>8 DEF S
  <2> QED
    BY <1>1, <1>6, <2>1
<1> QED
  BY <1>7, <1>8

-----------------------------------------------------------------------------
(* create_mapping.                                                         *)

\* What the CPU finds is an entry.
LEMMA TranslateType ==
  ASSUME TypeOK, NEW p \in Pages
  PROVE  Translate(p) \in EntryType
<1>1. ZeroEntry \in EntryType
  BY DEF ZeroEntry, Entry, EntryType, Attributes
<1> QED
  BY <1>1, TranslateIs, PathType DEF TypeOK

\* The tables are empty at first.
LEMMA InitIInv == Init => IInv
<1> SUFFICES ASSUME Init PROVE IInv
  OBVIOUS
<1>1. ZeroEntry \in EntryType
  BY DEF ZeroEntry, Entry, EntryType, Attributes
<1>2. 0 \in 0..(Entries - 1) /\ Levels \in 1..Levels
  BY Sizes
<1>3. TypeOK
  BY <1>1, <1>2 DEF Init, TypeOK, Call, Attributes
<1> QED
  BY <1>3 DEF Init, IInv, Closed, Walked, CallState, AddrState, MapState

\* A call starts: nothing is mapped yet.
LEMMA CreateIInv ==
  ASSUME IInv, NEW s \in Nat, NEW x \in Nat, NEW attr \in Attributes,
         s < x, x <= AddressSpace,
         create_mapping(Call(s, x, s, attr)), UNCHANGED <<cr3, tlb, stage>>
  PROVE  /\ IInv' /\ before' = Mapping /\ call' = Call(s, x, s, attr)
         /\ pc = "idle" /\ pc' = "enter"
<1>1. /\ pc = "idle" /\ pc' = "enter" /\ call' = Call(s, x, s, attr)
      /\ level' = Levels /\ addr' = s /\ before' = Mapping
      /\ UNCHANGED <<populated, pte, index>>
  BY DEF create_mapping, Call
<1>2. /\ call'.virt_start = s /\ call'.virt_end = x /\ call'.phys = s /\ call'.attr = attr
  BY <1>1 DEF Call
<1>3. want' = [page \in Pages |->
                 IF page \in PagesOf(s, x) THEN Entry(s + page * PAGE_SIZE - s, attr)
                 ELSE Mapping[page]]
  BY DEF create_mapping, Call
<1>4. TypeOK'
  <2>1. before' \in [Pages -> EntryType]
    BY <1>1, TranslateType DEF IInv, Mapping
  <2>2. call' \in [virt_start : Nat, virt_end : Nat, phys : Nat, attr : Attributes]
    BY <1>1 DEF Call
  <2>3. Levels \in 1..Levels
    BY Sizes
  <2> QED
    BY <1>1, <2>1, <2>2, <2>3 DEF IInv, TypeOK
<1>5. Closed'
  BY <1>1 DEF IInv, Closed
<1>6. Walked'
  BY <1>1, Sizes DEF Walked, Depth
<1>7. CallState'
  <2>1. \A p \in Pages : s + p * PAGE_SIZE - s = p * PAGE_SIZE
    BY Sizes
  <2>2. want' = [p \in Pages |-> IF p \in PagesOf(s, x) THEN Entry(p * PAGE_SIZE, attr) ELSE before'[p]]
    BY <1>1, <1>3, <2>1
  <2> QED
    BY <1>1, <1>2, <2>2 DEF CallState, PagesOf
<1>8. AddrState'
  <2>1. \A l \in (Levels + 1)..Levels : FALSE
    BY Sizes
  <2> QED
    BY <1>1, <1>2, <2>1, Sizes DEF AddrState, Unaligned, AtAddress
<1>9. MapState'
  <2> SUFFICES ASSUME NEW p \in Pages
               PROVE  Translate(p)' = IF Done(p)' THEN want'[p] ELSE before'[p]
    BY DEF MapState
  <2>1. ~Done(p)'
    BY <1>1, <1>2, Sizes DEF Done
  <2>2. Translate(p)' = Translate(p)
    BY <1>1 DEF Translate
  <2> QED
    BY <1>1, <2>1, <2>2 DEF Mapping
<1> QED
  BY <1>1, <1>4, <1>5, <1>6, <1>7, <1>8, <1>9 DEF IInv

\* A table that starts like another lies below it.
LEMMA BelowIsCut ==
  ASSUME NEW k \in 1..Levels, NEW t \in PathsOf(k), NEW n \in 1..k, NEW table \in PathsOf(n)
  PROVE  Below(t, table) <=> Cut(t, n) = table
<1>1. DOMAIN table = 1..n /\ table = [i \in 1..n |-> table[i]]
  BY DEF PathsOf
<1> QED
  BY <1>1 DEF Below, Cut

\* A new table hangs in a table that is there; it changes no translation.
LEMMA EnsurePopulated ==
  ASSUME TypeOK, Closed, NEW n \in 1..(Levels - 1), NEW table \in PathsOf(n),
         \A m \in 1..(n - 1) : Cut(table, m) \in populated,
         ensure_populated(table)
  PROVE  /\ populated' = populated \cup {table} /\ populated' \subseteq Tables
         /\ pte' \in [PathsOf(Levels) -> EntryType]
         /\ Closed'
         /\ \A p \in Pages : Translate(p)' = Translate(p)
<1>0. Levels \in Nat /\ n \in 1..Levels /\ n \in Nat /\ Len(table) = n /\ Cut(table, n) = table
  <2>1. Levels \in Nat /\ n \in 1..Levels /\ n \in 1..n
    BY Sizes
  <2> QED
    BY <2>1, CutType
<1>1. table \in Tables
  BY DEF Tables
<1>2. CASE table \in populated
  <2>1. populated' = populated /\ pte' = pte
    BY <1>2 DEF ensure_populated
  <2> QED
    BY <1>2, <2>1 DEF TypeOK, Closed, Translate
<1>3. CASE table \notin populated
  <2>1. /\ populated' = { t \in populated : Len(t) < Len(table) \/ ~Below(t, table) } \cup {table}
        /\ pte' = [path \in DOMAIN pte |-> IF Below(path, table) THEN ZeroEntry ELSE pte[path]]
    BY <1>3 DEF ensure_populated, populate
  <2>2. ASSUME NEW t \in populated PROVE Len(t) < Len(table) \/ ~Below(t, table)
    <3>1. PICK k \in 1..(Levels - 1) : t \in PathsOf(k)
      BY DEF TypeOK, Tables
    <3>2. k \in 1..Levels /\ Len(t) = k
      <4>1. k \in 1..Levels /\ k \in 1..k
        BY <1>0
      <4> QED
        BY <3>1, <4>1, CutType
    <3>3. CASE k < n
      BY <1>0, <3>2, <3>3
    <3>4. CASE k >= n
      <4>1. n \in 1..k
        BY <1>0, <3>2, <3>4
      <4>2. Cut(t, n) \in populated
        BY <3>2, <4>1 DEF Closed
      <4>3. Cut(t, n) # table
        BY <1>3, <4>2
      <4> QED
        BY <3>1, <3>2, <4>1, <4>3, BelowIsCut
    <3> QED
      BY <1>0, <3>2, <3>3, <3>4
  <2>3. populated' = populated \cup {table}
    BY <2>1, <2>2
  <2>4. populated' \subseteq Tables
    BY <1>1, <2>3 DEF TypeOK
  <2>5. pte' \in [PathsOf(Levels) -> EntryType]
    <3>1. ZeroEntry \in EntryType
      BY DEF ZeroEntry, Entry, EntryType, Attributes
    <3> QED
      BY <2>1, <3>1 DEF TypeOK
  <2>6. Closed'
    <3> SUFFICES ASSUME NEW t \in populated', NEW m \in 1..Len(t)
                 PROVE  Cut(t, m) \in populated'
      BY DEF Closed
    <3>1. CASE t \in populated
      BY <2>3, <3>1 DEF Closed
    <3>2. CASE t = table
      <4>1. m \in 1..n
        BY <1>0, <3>2
      <4>2. m = n \/ m \in 1..(n - 1)
        BY <1>0, <4>1
      <4> QED
        BY <1>0, <2>3, <3>2, <4>2
    <3> QED
      BY <2>3, <3>1, <3>2
  <2>7. ASSUME NEW p \in Pages PROVE Translate(p)' = Translate(p)
    <3> DEFINE path == PathOf(p)
    <3>1. path \in PathsOf(Levels) /\ Levels \in 1..Levels /\ n \in 1..Levels
      BY <1>0, PathType
    <3>2. Prefixes(path) = { Cut(path, m) : m \in 1..(Levels - 1) }
      BY <3>1, PrefixesAreCuts
    <3>3. pte'[path] = IF Cut(path, n) = table THEN ZeroEntry ELSE pte[path]
      BY <2>1, <3>1, BelowIsCut DEF TypeOK
    <3>4. Translate(p) = IF Prefixes(path) \subseteq populated THEN pte[path] ELSE ZeroEntry
      BY DEF Translate
    <3>5. Translate(p)' = IF Prefixes(path) \subseteq populated' THEN pte'[path] ELSE ZeroEntry
      BY DEF Translate
    <3>6. CASE Cut(path, n) = table
      <4>1. Cut(path, n) \in Prefixes(path)
        BY <3>2
      <4> QED
        BY <1>3, <3>3, <3>4, <3>5, <3>6, <4>1
    <3>7. CASE Cut(path, n) # table
      <4>1. ASSUME NEW m \in 1..(Levels - 1) PROVE Cut(path, m) # table
        <5>1. Len(Cut(path, m)) = m
          <6>1. m \in 1..Levels
            BY <1>0
          <6> QED
            BY <3>1, <6>1, CutType
        <5> QED
          BY <1>0, <3>7, <5>1
      <4>2. table \notin Prefixes(path)
        BY <3>2, <4>1
      <4> QED
        BY <2>3, <3>3, <3>4, <3>5, <3>7, <4>2
    <3> QED
      BY <3>6, <3>7
  <2> QED
    BY <2>3, <2>4, <2>5, <2>6, <2>7
<1> QED
  BY <1>2, <1>3

\* One level down: the table that the index leads to is there.
LEMMA DescendIInv ==
  ASSUME IInv, Descend
  PROVE  IInv'
<1> DEFINE n == Levels + 1 - level
<1> DEFINE i == calc_index(level, addr)
<1> DEFINE table == Here(level, i)
<1>1. /\ pc = "enter" /\ level > 1 /\ level' = level - 1 /\ pc' = pc
      /\ index' = [index EXCEPT ![level] = i] /\ ensure_populated(table)
      /\ UNCHANGED <<cr3, stage, addr, call, before, want>>
  BY DEF Descend
<1>2. /\ Levels \in Nat /\ level \in 2..Levels /\ n \in 1..(Levels - 1) /\ n \in Nat
      /\ Levels - level = n - 1 /\ Levels - (level - 1) = n
  BY <1>1, Sizes DEF IInv, TypeOK
<1>3. i \in 0..(Entries - 1)
  BY <1>2, IndexType DEF IInv, TypeOK
<1>4. index' \in [1..Levels -> 0..(Entries - 1)]
  BY <1>1, <1>3 DEF IInv, TypeOK
<1>5. \A l \in 1..Levels : index'[l] = IF l = level THEN i ELSE index[l]
  BY <1>1 DEF IInv, TypeOK
<1> HIDE DEF i
<1>6. table = Cut(IndexPath', n)
  <2>1. \A j \in 1..n : (Levels + 1 - j = level) <=> (j = n)
    BY <1>2
  <2>2. \A j \in 1..n : Levels + 1 - j \in 1..Levels /\ j \in 1..Levels
    BY <1>2
  <2>3. \A j \in 1..n : index'[Levels + 1 - j] = IF j = n THEN i ELSE index[Levels + 1 - j]
    BY <1>5, <2>1, <2>2
  <2> QED
    BY <2>2, <2>3 DEF Here, Cut, IndexPath
<1>7. ASSUME NEW m \in 1..(n - 1) PROVE Cut(IndexPath', m) = Cut(IndexPath, m)
  <2>1. \A j \in 1..m : Levels + 1 - j # level /\ Levels + 1 - j \in 1..Levels /\ j \in 1..Levels
    BY <1>2
  <2> QED
    BY <1>5, <2>1 DEF Cut, IndexPath
<1>8. ASSUME NEW m \in 1..(n - 1) PROVE Cut(IndexPath', m) \in populated
  BY <1>1, <1>2, <1>7 DEF IInv, Walked, Depth
<1>9. IndexPath' \in PathsOf(Levels)
  <2>1. \A j \in 1..Levels : Levels + 1 - j \in 1..Levels
    BY <1>2
  <2> QED
    BY <1>4, <2>1 DEF IndexPath, PathsOf
<1>10. table \in PathsOf(n) /\ \A m \in 1..(n - 1) : Cut(table, m) \in populated
  <2>1. n \in 1..Levels /\ Levels \in 1..Levels /\ 1..(n - 1) \subseteq 1..n
    BY <1>2
  <2>2. table \in PathsOf(n) /\ \A m \in 1..n : Cut(table, m) = Cut(IndexPath', m)
    BY <1>6, <1>9, <2>1, CutType
  <2> QED
    BY <1>8, <2>1, <2>2
<1>11. /\ populated' = populated \cup {table} /\ populated' \subseteq Tables
       /\ pte' \in [PathsOf(Levels) -> EntryType] /\ Closed'
       /\ \A p \in Pages : Translate(p)' = Translate(p)
  <2> HIDE DEF n, table
  <2> QED
    BY <1>1, <1>2, <1>10, EnsurePopulated DEF IInv
<1>12. TypeOK'
  <2>1. level' \in 1..Levels
    BY <1>1, <1>2
  <2> QED
    BY <1>1, <1>4, <1>11, <2>1 DEF IInv, TypeOK
<1>13. Walked'
  <2>1. Depth' = n
    BY <1>1, <1>2 DEF Depth
  <2>2. ASSUME NEW m \in 1..n PROVE Cut(IndexPath', m) \in populated'
    <3>1. m = n \/ m \in 1..(n - 1)
      BY <1>2
    <3> QED
      BY <1>6, <1>8, <1>11, <3>1
  <2> QED
    BY <2>1, <2>2 DEF Walked
<1>14. CallState'
  BY <1>1 DEF IInv, CallState, PagesOf
<1>15. AddrState'
  <2>1. CASE Unaligned
    BY <1>1, <2>1 DEF AddrState, Unaligned
  <2>2. CASE AtAddress
    <3>1. ASSUME NEW l \in (level' + 1)..Levels PROVE index'[l] = calc_index(l, addr)
      <4>1. l \in 1..Levels /\ (l = level \/ l \in (level + 1)..Levels)
        BY <1>1, <1>2
      <4>2. CASE l = level
        BY <1>5, <4>1, <4>2 DEF i
      <4>3. CASE l \in (level + 1)..Levels
        <5>1. l # level
          BY <1>2, <4>3
        <5> QED
          BY <1>1, <1>5, <2>2, <4>1, <4>3, <5>1 DEF AtAddress
      <4> QED
        BY <4>1, <4>2, <4>3
    <3> QED
      BY <1>1, <2>2, <3>1 DEF AddrState, AtAddress, calc_index
  <2> QED
    BY <1>1, <2>1, <2>2 DEF IInv, AddrState
<1>16. MapState'
  BY <1>1, <1>11 DEF IInv, MapState, Done, PagesOf
<1> QED
  BY <1>11, <1>12, <1>13, <1>14, <1>15, <1>16 DEF IInv

\* A refused call has changed nothing.
LEMMA UnalignedIInv ==
  ASSUME IInv, set_page_unaligned
  PROVE  IInv'
<1>1. /\ pc = "enter" /\ pc' = "panic" /\ phys_addr % PAGE_SIZE # 0
      /\ UNCHANGED <<populated, pte, cr3, stage, level, index, addr, call, before, want>>
  BY DEF set_page_unaligned
<1>2. phys_addr = addr
  BY <1>1 DEF IInv, CallState, TypeOK, phys_addr
<1>3. Unaligned
  BY <1>1, <1>2 DEF IInv, AddrState, AtAddress
<1>4. TypeOK'
  BY <1>1 DEF IInv, TypeOK
<1>5. CallState'
  BY <1>1 DEF IInv, CallState, PagesOf
<1>6. AddrState'
  BY <1>1, <1>3 DEF AddrState, Unaligned
<1>7. MapState'
  BY <1>1 DEF IInv, MapState, Done, PagesOf, Translate
<1>8. Closed' /\ Walked'
  BY <1>1 DEF IInv, Closed, Walked
<1> QED
  BY <1>4, <1>5, <1>6, <1>7, <1>8 DEF IInv

\* The page of an address within the address space.
LEMMA PageOfAddress ==
  ASSUME NEW q \in Nat, q * PAGE_SIZE < AddressSpace
  PROVE  q \in Pages /\ (q + 1) * PAGE_SIZE <= AddressSpace
<1> DEFINE n == Entries^Levels
<1>1. n \in Nat /\ PAGE_SIZE \in Nat \ {0} /\ AddressSpace = n * PAGE_SIZE /\ Pages = 0..(n - 1)
  BY Sizes DEF Pages
<1> HIDE DEF n
<1>2. q < n
  BY <1>1, Z3T(30)
<1>3. q + 1 <= n
  BY <1>1, <1>2
<1>4. \A x, y \in Nat : x <= y => x * PAGE_SIZE <= y * PAGE_SIZE
  BY <1>1, Z3T(30)
<1>5. (q + 1) * PAGE_SIZE <= n * PAGE_SIZE
  BY <1>1, <1>3, <1>4
<1> QED
  BY <1>1, <1>2, <1>5

\* The page after q, seen from the loop of level l: the loop is at the end of
\* its table, or its enclosing loops have the indices of the page after.
LEMMA NextPage ==
  ASSUME NEW l \in 1..Levels, NEW q \in Nat, (q + 1) % Entries^(l - 1) = 0
  PROVE  LET i == calc_index(l, q * PAGE_SIZE) IN
           /\ i + 1 >= Entries => ((q + 1) * PAGE_SIZE) % (PAGE_SIZE * Entries^l) = 0
           /\ i + 1 >= Entries => (q + 1) % Entries^l = 0
           /\ i + 1 < Entries =>
                \A j \in (l + 1)..Levels :
                  calc_index(j, q * PAGE_SIZE) = calc_index(j, (q + 1) * PAGE_SIZE)
<1> DEFINE i == calc_index(l, q * PAGE_SIZE)
<1>1. i = (q \div Entries^(l - 1)) % Entries
  BY IndexIsDigit
<1>2. /\ i + 1 >= Entries => (q + 1) % Entries^l = 0
      /\ i + 1 < Entries => (q + 1) \div Entries^l = q \div Entries^l
  BY <1>1, TableEnds
<1>3. Entries^l \in Nat \ {0} /\ q + 1 \in Nat /\ l \in 0..Levels
  BY Weight, Sizes
<1> HIDE DEF i
<1>4. ASSUME i + 1 >= Entries PROVE ((q + 1) * PAGE_SIZE) % (PAGE_SIZE * Entries^l) = 0
  BY <1>2, <1>3, <1>4, ModScale
<1>5. ASSUME i + 1 < Entries
      PROVE  \A j \in (l + 1)..Levels :
               calc_index(j, q * PAGE_SIZE) = calc_index(j, (q + 1) * PAGE_SIZE)
  BY <1>2, <1>3, <1>5, SameAbove
<1> QED
  BY <1>2, <1>4, <1>5 DEF i

\* The innermost loop maps the page of its address.
LEMMA SetPageIInv ==
  ASSUME IInv, set_page
  PROVE  IInv'
<1> DEFINE i == calc_index(1, addr)
<1>1. /\ pc = "enter" /\ level = 1 /\ phys_addr % PAGE_SIZE = 0
      /\ index' = [index EXCEPT ![1] = i]
      /\ pte' = [pte EXCEPT ![Here(1, i)] = Entry(phys_addr, call.attr)]
      /\ addr' = next_addr
      /\ IF EndOfLoop(i, next_addr) THEN pc' = "leave" /\ level' = 2 ELSE UNCHANGED <<pc, level>>
      /\ UNCHANGED <<populated, cr3, stage, call, before, want>>
  BY DEF set_page
<1>2. phys_addr = addr
  BY <1>1 DEF IInv, CallState, TypeOK, phys_addr
<1>3. AtAddress
  BY <1>1, <1>2 DEF IInv, AddrState, Unaligned
<1>4. addr \in Nat /\ addr % PAGE_SIZE = 0
  BY <1>3 DEF AtAddress, IInv, TypeOK
<1>5. PICK q \in Nat : addr = q * PAGE_SIZE
  BY <1>4, AlignedIsPage
<1>6. /\ call.virt_start \in Nat /\ call.virt_end \in Nat
      /\ call.virt_start <= addr /\ addr < call.virt_end /\ call.virt_end <= AddressSpace
  BY <1>1, <1>3 DEF AtAddress, IInv, TypeOK, CallState
<1>7. q * PAGE_SIZE < AddressSpace
  BY <1>4, <1>5, <1>6, Sizes
<1>8. q \in Pages /\ (q + 1) * PAGE_SIZE <= AddressSpace
  BY <1>7, PageOfAddress
<1>9. next_addr = (q + 1) * PAGE_SIZE /\ (q + 1) * PAGE_SIZE = addr + PAGE_SIZE
  <2>1. (q + 1) * PAGE_SIZE = addr + PAGE_SIZE
    BY <1>5, Sizes
  <2> DEFINE x == addr + PAGE_SIZE
  <2>2. x \in Nat /\ x <= AddressSpace /\ AddressSpace \in Nat \ {0}
    BY <1>4, <1>8, <2>1, Sizes
  <2> HIDE DEF x
  <2>3. x % (2 * AddressSpace) = x
    BY <2>2
  <2> QED
    BY <2>1, <2>3 DEF next_addr, x
<1>10. i \in 0..(Entries - 1) /\ i = calc_index(1, q * PAGE_SIZE)
  <2>1. 1 \in 1..Levels
    BY Sizes
  <2> QED
    BY <1>4, <1>5, <2>1, IndexType
<1>11. \A l \in 2..Levels : index[l] = calc_index(l, addr)
  BY <1>1, <1>3 DEF AtAddress
<1>12. /\ index' \in [1..Levels -> 0..(Entries - 1)]
       /\ \A l \in 1..Levels : index'[l] = IF l = 1 THEN i ELSE index[l]
  BY <1>1, <1>10 DEF IInv, TypeOK
<1>13. \A l \in 1..Levels : index'[l] = calc_index(l, q * PAGE_SIZE)
  BY <1>5, <1>10, <1>11, <1>12, Sizes
<1>14. Here(1, i) = PathOf(q) /\ IndexPath' = PathOf(q)
  <2>1. \A j \in 1..Levels : /\ Levels + 1 - j \in 1..Levels
                             /\ (j = Levels) <=> (Levels + 1 - j = 1)
    BY Sizes
  <2>2. \A j \in 1..Levels : index'[Levels + 1 - j] = calc_index(Levels + 1 - j, q * PAGE_SIZE)
    BY <1>13, <2>1
  <2>3. IndexPath' = PathOf(q)
    BY <2>2 DEF IndexPath, PathOf
  <2>4. \A j \in 1..Levels :
          (IF j = Levels THEN i ELSE index[Levels + 1 - j]) = index'[Levels + 1 - j]
    BY <1>12, <2>1
  <2>5. Levels + 1 - 1 = Levels
    BY Sizes
  <2>6. Here(1, i) = [j \in 1..Levels |-> IF j = Levels THEN i ELSE index[Levels + 1 - j]]
    BY <2>5 DEF Here
  <2> HIDE DEF i
  <2>7. Here(1, i) = IndexPath'
    BY <2>4, <2>6 DEF IndexPath
  <2> QED
    BY <2>3, <2>7
<1>15. \A m \in 1..(Levels - 1) : Cut(PathOf(q), m) \in populated
  <2>1. Depth = Levels - 1
    BY <1>1 DEF Depth
  <2> SUFFICES ASSUME NEW m \in 1..(Levels - 1) PROVE Cut(PathOf(q), m) = Cut(IndexPath, m)
    BY <1>1, <2>1 DEF IInv, Walked
  <2>2. \A j \in 1..m : Levels + 1 - j \in 1..Levels /\ Levels + 1 - j # 1 /\ j \in 1..Levels
    BY Sizes
  <2>3. \A j \in 1..m : IndexPath'[j] = IndexPath[j]
    BY <1>12, <2>2 DEF IndexPath
  <2> QED
    BY <1>14, <2>3 DEF Cut
<1>16. pte' = [pte EXCEPT ![PathOf(q)] = Entry(addr, call.attr)]
  BY <1>1, <1>2, <1>14
<1> HIDE DEF i
<1>17. \/ EndOfLoop(i, addr') /\ pc' = "leave" /\ level' = 2
       \/ ~EndOfLoop(i, addr') /\ pc' = "enter" /\ level' = 1
  BY <1>1
<1>18. TypeOK'
  <2>1. Entry(addr, call.attr) \in EntryType
    BY <1>4 DEF Entry, EntryType, IInv, TypeOK
  <2>2. pte' \in [PathsOf(Levels) -> EntryType]
    BY <1>16, <2>1 DEF IInv, TypeOK
  <2>3. level' \in 1..Levels /\ addr' \in Nat
    BY <1>1, <1>4, <1>9, <1>17, Sizes
  <2> QED
    BY <1>1, <1>12, <1>17, <2>2, <2>3 DEF IInv, TypeOK
<1>19. Walked'
  <2>1. Depth' = Levels - 1
    BY <1>17 DEF Depth
  <2> QED
    BY <1>1, <1>14, <1>15, <2>1 DEF Walked
<1>20. CallState'
  BY <1>1 DEF IInv, CallState, PagesOf
<1>21. AddrState'
  <2>1. 1 \in 1..Levels /\ (q + 1) % Entries^(1 - 1) = 0
    <3>1. (q + 1) % 1 = 0 /\ 1 - 1 = 0
      OBVIOUS
    <3> QED
      BY <3>1, PowerArithmetic, Sizes
  <2>2. /\ i + 1 >= Entries => addr' % (PAGE_SIZE * Entries^1) = 0
        /\ i + 1 < Entries =>
             \A j \in (1 + 1)..Levels : calc_index(j, q * PAGE_SIZE) = calc_index(j, addr')
    BY <1>1, <1>9, <1>10, <2>1, NextPage
  <2>3. addr' % PAGE_SIZE = 0
    <3>1. q + 1 \in Nat /\ PAGE_SIZE \in Nat \ {0}
      BY Sizes
    <3> QED
      BY <1>1, <1>9, <3>1, ModScale
  <2>4. /\ addr' = addr + PAGE_SIZE /\ addr' \in Nat /\ addr' <= AddressSpace
        /\ addr' - PAGE_SIZE = addr /\ addr' >= PAGE_SIZE /\ call.virt_start <= addr'
        /\ PAGE_SIZE \in Nat /\ Entries \in Nat /\ i \in Nat
    BY <1>1, <1>4, <1>6, <1>8, <1>9, <1>10, Sizes
  <2>5. call.virt_start % PAGE_SIZE = 0
    BY <1>3 DEF AtAddress
  <2>6. CASE EndOfLoop(i, addr') /\ pc' = "leave" /\ level' = 2
    <3>1. addr' >= call.virt_end \/ addr' % (PAGE_SIZE * Entries^(level' - 1)) = 0
      <4>1. level' - 1 = 1
        BY <2>6
      <4> QED
        BY <2>2, <2>6, <4>1 DEF EndOfLoop
    <3>2. \A l \in 1..Levels : index'[l] = calc_index(l, addr' - PAGE_SIZE)
      BY <1>5, <1>13, <2>4
    <3>3. level' >= 2
      BY <2>6
    <3> QED
      BY <1>1, <2>3, <2>4, <2>5, <2>6, <3>1, <3>2, <3>3 DEF AddrState, AtAddress, calc_index
  <2>7. CASE ~EndOfLoop(i, addr') /\ pc' = "enter" /\ level' = 1
    <3>1. i + 1 < Entries /\ addr' < call.virt_end
      BY <1>6, <2>4, <2>7 DEF EndOfLoop
    <3>2. \A l \in (level' + 1)..Levels : index'[l] = calc_index(l, addr')
      <4>1. \A l \in 2..Levels : l \in 1..Levels /\ 1 + 1 = 2
        BY Sizes
      <4> QED
        BY <1>13, <2>2, <2>7, <3>1, <4>1
    <3> QED
      BY <1>1, <2>3, <2>4, <2>5, <2>7, <3>1, <3>2 DEF AddrState, AtAddress, calc_index
  <2> QED
    BY <1>17, <2>6, <2>7
<1>22. MapState'
  <2> SUFFICES ASSUME NEW p \in Pages
               PROVE  Translate(p)' = IF Done(p)' THEN want'[p] ELSE before'[p]
    BY DEF MapState
  <2>0. p \in Nat /\ PAGE_SIZE \in Nat \ {0}
    BY Sizes
  <2>1. Translate(p)' = IF Prefixes(PathOf(p)) \subseteq populated THEN pte'[PathOf(p)] ELSE ZeroEntry
    BY <1>1 DEF Translate
  <2>2. CASE p = q
    <3>1. Prefixes(PathOf(q)) \subseteq populated
      BY <1>8, <1>15, PathType, PrefixesAreCuts
    <3>2. Translate(p)' = Entry(addr, call.attr)
      BY <1>8, <1>16, <2>1, <2>2, <3>1, PathType DEF IInv, TypeOK
    <3>3. q \in PagesOf(call.virt_start, call.virt_end)
      BY <1>4, <1>5, <1>6, <1>8, <1>9, <2>0 DEF PagesOf
    <3>4. want[q] = Entry(addr, call.attr)
      BY <1>1, <1>5, <1>8, <3>3 DEF IInv, CallState
    <3>5. Done(p)'
      <4>1. q * PAGE_SIZE < addr'
        BY <1>1, <1>4, <1>5, <1>9, <2>0
      <4> QED
        BY <1>1, <1>5, <1>6, <2>2, <3>3, <4>1 DEF Done, PagesOf
    <3> QED
      BY <1>1, <2>2, <3>2, <3>4, <3>5
  <2>3. CASE p # q
    <3>1. Translate(p)' = Translate(p)
      <4>1. PathOf(p) # PathOf(q)
        BY <1>8, <2>3, PathInjective
      <4>2. pte'[PathOf(p)] = pte[PathOf(p)]
        BY <1>8, <1>16, <4>1, PathType DEF IInv, TypeOK
      <4> QED
        BY <2>1, <4>2 DEF Translate
    <3>2. p * PAGE_SIZE < addr' <=> p * PAGE_SIZE < addr
      <4>1. addr' = (q + 1) * PAGE_SIZE
        BY <1>1, <1>9
      <4>2. \A x, y \in Nat : x * PAGE_SIZE < y * PAGE_SIZE <=> x < y
        BY <2>0, Z3T(30)
      <4>3. p * PAGE_SIZE < addr <=> p < q
        BY <1>5, <2>0, <4>2
      <4>4. p * PAGE_SIZE < addr' <=> p < q + 1
        <5>1. q + 1 \in Nat
          OBVIOUS
        <5> QED
          BY <2>0, <4>1, <4>2, <5>1
      <4> QED
        BY <2>0, <2>3, <4>3, <4>4
    <3>3. Done(p)' <=> Done(p)
      BY <1>1, <3>2 DEF Done, PagesOf
    <3> QED
      BY <1>1, <3>1, <3>3 DEF IInv, MapState
  <2> QED
    BY <2>2, <2>3
<1>23. Closed'
  BY <1>1 DEF IInv, Closed
<1> QED
  BY <1>18, <1>19, <1>20, <1>21, <1>22, <1>23 DEF IInv

\* The foot of a loop: the range ends here, the table does, or the loop goes
\* on at the next entry.
LEMMA LeaveIInv ==
  ASSUME IInv, Leave
  PROVE  IInv'
<1>1. /\ pc = "leave"
      /\ UNCHANGED <<populated, pte, cr3, stage, index, addr, call, before, want>>
      /\ \/ ~EndOfLoop(index[level], addr) /\ pc' = "enter" /\ level' = level
         \/ EndOfLoop(index[level], addr) /\ level < Levels /\ pc' = "leave" /\ level' = level + 1
         \/ EndOfLoop(index[level], addr) /\ ~(level < Levels) /\ pc' = "return" /\ level' = level
  BY DEF Leave
<1>2. AtAddress
  BY <1>1 DEF IInv, AddrState, Unaligned
<1>3. /\ Levels \in Nat /\ level \in 2..Levels /\ level \in 1..Levels /\ addr \in Nat
      /\ addr % PAGE_SIZE = 0 /\ addr >= PAGE_SIZE /\ PAGE_SIZE \in Nat \ {0} /\ Entries \in Nat
      /\ call.virt_end \in Nat /\ index[level] \in Nat
  BY <1>1, <1>2, Sizes DEF AtAddress, IInv, TypeOK
<1>4. PICK k \in Nat : addr = k * PAGE_SIZE
  BY <1>3, AlignedIsPage
<1> DEFINE q == k - 1
<1>5. q \in Nat /\ q + 1 = k /\ addr - PAGE_SIZE = q * PAGE_SIZE /\ k >= 1
  <2>1. k # 0
    BY <1>3, <1>4
  <2> QED
    BY <1>3, <1>4, <2>1
<1> HIDE DEF q
<1>6. \A l \in 1..Levels : index[l] = calc_index(l, q * PAGE_SIZE)
  BY <1>1, <1>2, <1>5 DEF AtAddress
<1>7. ASSUME addr < call.virt_end
      PROVE  /\ index[level] + 1 >= Entries => addr % (PAGE_SIZE * Entries^level) = 0
             /\ index[level] + 1 >= Entries => k % Entries^level = 0
             /\ index[level] + 1 < Entries =>
                  \A j \in (level + 1)..Levels : calc_index(j, q * PAGE_SIZE) = calc_index(j, addr)
  <2>1. addr % (PAGE_SIZE * Entries^(level - 1)) = 0
    BY <1>1, <1>2, <1>3, <1>7 DEF AtAddress
  <2>2. (q + 1) % Entries^(level - 1) = 0
    <3>1. Entries^(level - 1) \in Nat \ {0}
      BY <1>3, Weight
    <3> QED
      BY <1>4, <1>5, <2>1, <3>1, ModScale
  <2>3. index[level] = calc_index(level, q * PAGE_SIZE)
    BY <1>3, <1>6
  <2>4. LET i == calc_index(level, q * PAGE_SIZE) IN
          /\ i + 1 >= Entries => ((q + 1) * PAGE_SIZE) % (PAGE_SIZE * Entries^level) = 0
          /\ i + 1 >= Entries => (q + 1) % Entries^level = 0
          /\ i + 1 < Entries =>
               \A j \in (level + 1)..Levels :
                 calc_index(j, q * PAGE_SIZE) = calc_index(j, (q + 1) * PAGE_SIZE)
    BY <1>3, <1>5, <2>2, NextPage, Zenon
  <2>5. q + 1 = k /\ (q + 1) * PAGE_SIZE = addr
    BY <1>4, <1>5
  <2> QED
    BY <2>3, <2>4, <2>5, Zenon
<1>8. TypeOK'
  <2>1. level' \in 1..Levels /\ pc' \in {"enter", "leave", "return"}
    BY <1>1, <1>3
  <2> QED
    BY <1>1, <2>1 DEF IInv, TypeOK
<1>9. Walked'
  <2>1. Depth = Levels - 1
    BY <1>1 DEF Depth
  <2>2. Depth' \in Int /\ Depth' <= Levels - 1
    BY <1>1, <1>3 DEF Depth
  <2>3. \A n \in 1..Depth' : n \in 1..Depth
    BY <1>3, <2>1, <2>2
  <2>4. IndexPath' = IndexPath
    BY <1>1 DEF IndexPath
  <2> QED
    BY <1>1, <2>3, <2>4 DEF IInv, Walked
<1>10. CallState'
  BY <1>1 DEF IInv, CallState, PagesOf
<1>11. AddrState'
  <2>1. CASE ~EndOfLoop(index[level], addr) /\ pc' = "enter" /\ level' = level
    <3>1. addr < call.virt_end /\ index[level] + 1 < Entries
      BY <1>3, <2>1 DEF EndOfLoop
    <3>2. ASSUME NEW l \in (level' + 1)..Levels PROVE index'[l] = calc_index(l, addr)
      <4>1. l \in (level + 1)..Levels /\ l \in 1..Levels
        BY <1>3, <2>1
      <4> QED
        BY <1>1, <1>6, <1>7, <3>1, <4>1
    <3> QED
      BY <1>1, <1>2, <2>1, <3>1, <3>2 DEF AddrState, AtAddress, calc_index
  <2>2. CASE EndOfLoop(index[level], addr) /\ level < Levels /\ pc' = "leave" /\ level' = level + 1
    <3>1. addr >= call.virt_end \/ addr % (PAGE_SIZE * Entries^(level' - 1)) = 0
      <4>1. level' - 1 = level
        BY <1>3, <2>2
      <4>2. CASE addr < call.virt_end
        BY <1>3, <1>7, <2>2, <4>1, <4>2 DEF EndOfLoop
      <4> QED
        BY <1>3, <4>2
    <3>2. level' >= 2
      BY <1>3, <2>2
    <3> QED
      BY <1>1, <1>2, <2>2, <3>1, <3>2 DEF AddrState, AtAddress, calc_index
  <2>3. CASE EndOfLoop(index[level], addr) /\ ~(level < Levels) /\ pc' = "return" /\ level' = level
    <3>1. level = Levels
      BY <1>3, <2>3
    <3>2. addr >= call.virt_end
      <4>1. ASSUME addr < call.virt_end PROVE FALSE
        <5> DEFINE n == Entries^Levels
        <5>1. k % n = 0 /\ n \in Nat \ {0} /\ AddressSpace = n * PAGE_SIZE
          BY <1>3, <1>7, <2>3, <3>1, <4>1, Sizes DEF EndOfLoop
        <5> HIDE DEF n
        <5>2. k >= n
          BY <1>5, <5>1
        <5>3. \A x, y \in Nat : x <= y => x * PAGE_SIZE <= y * PAGE_SIZE
          BY <1>3, Z3T(30)
        <5>4. addr >= AddressSpace
          BY <1>4, <5>1, <5>2, <5>3
        <5>5. call.virt_end <= AddressSpace
          BY <1>1 DEF IInv, CallState
        <5> QED
          BY <1>3, <4>1, <5>4, <5>5, Sizes
      <4> QED
        BY <1>3, <4>1
    <3> QED
      BY <1>1, <1>2, <2>3, <3>2 DEF AddrState, AtAddress
  <2> QED
    BY <1>1, <2>1, <2>2, <2>3
<1>12. MapState'
  BY <1>1 DEF IInv, MapState, Done, PagesOf, Translate
<1>13. Closed'
  BY <1>1 DEF IInv, Closed
<1> QED
  BY <1>8, <1>9, <1>10, <1>11, <1>12, <1>13 DEF IInv

\* The caller goes on.
LEMMA ReturnIInv ==
  ASSUME IInv, InitReturn \/ InitDone \/ DisableCacheReturn
  PROVE  /\ IInv' /\ pc = "return" /\ pc' = "idle"
         /\ UNCHANGED <<populated, pte, call, before, want, addr>>
<1>1. /\ pc = "return" /\ pc' = "idle"
      /\ UNCHANGED <<populated, pte, level, index, addr, call, before, want>>
      /\ stage' \in {"mapped", "done"}
      /\ cr3' \in {"firmware", "kernel"}
  BY DEF InitReturn, InitDone, DisableCacheReturn, write_cr3, put_current_page_table, IInv, TypeOK
<1>2. TypeOK'
  BY <1>1 DEF IInv, TypeOK
<1> QED
  BY <1>1, <1>2 DEF IInv, Closed, Walked, CallState, AddrState, MapState

\* The CPU changes nothing of this.
LEMMA StutterIInv ==
  ASSUME IInv, UNCHANGED <<populated, pte, cr3, stage, walk, call, before, want>>
  PROVE  IInv'
<1>1. UNCHANGED <<populated, pte, cr3, stage, pc, level, index, addr, call, before, want>>
  BY DEF walk
<1> QED
  BY <1>1 DEF IInv, TypeOK, Closed, Walked, Depth, IndexPath, CallState, PagesOf, AddrState,
              Unaligned, AtAddress, MapState, Done, Translate

\* The arguments of the callers.
LEMMA Callers ==
  /\ \A r \in Regions : /\ r.start \in Nat /\ r.start + r.size \in Nat /\ r.start < r.start + r.size
                        /\ r.start + r.size <= AddressSpace /\ r.start >= PAGE_SIZE
  /\ PAGE_SIZE \in Nat /\ 0 < PAGE_SIZE /\ PAGE_SIZE <= AddressSpace
  /\ end_of_mem \in Nat /\ 0 < end_of_mem /\ end_of_mem <= AddressSpace
<1>1. ASSUME NEW r \in Regions
      PROVE  /\ r.start \in Nat /\ r.start + r.size \in Nat /\ r.start < r.start + r.size
             /\ r.start + r.size <= AddressSpace /\ r.start >= PAGE_SIZE
  <2>1. /\ r.start \in Nat /\ r.start >= PAGE_SIZE
        /\ r.size \in Nat \ {0} /\ r.start + r.size <= AddressSpace
    BY PagingAssumption
  <2> QED
    BY <2>1
<1>2. PAGE_SIZE <= AddressSpace
  <2> DEFINE n == Entries^Levels
  <2>1. n \in Nat \ {0} /\ PAGE_SIZE \in Nat /\ AddressSpace = n * PAGE_SIZE
    BY Sizes
  <2> HIDE DEF n
  <2> QED
    BY <2>1, Z3T(30)
<1> QED
  BY <1>1, <1>2, Sizes, EndOfMem

\* Every step keeps the invariant.
LEMMA NextIInv == IInv /\ [Next]_vars => IInv'
<1> SUFFICES ASSUME IInv, [Next]_vars PROVE IInv'
  OBVIOUS
<1>1. CASE init_paging
  <2>0. ReadWriteKernel \in Attributes /\ NotPresent \in Attributes
    BY DEF Attributes
  <2>1. CASE create_mapping(Call(0, end_of_mem, 0, ReadWriteKernel))
    BY <1>1, <2>0, <2>1, Callers, CreateIInv DEF init_paging
  <2>2. CASE create_mapping(Call(0, PAGE_SIZE, 0, NotPresent))
    BY <1>1, <2>0, <2>2, Callers, CreateIInv DEF init_paging
  <2> QED
    BY <1>1, <2>1, <2>2 DEF init_paging
<1>2. CASE disable_cache
  <2>0. ReadWriteIo \in Attributes
    BY DEF Attributes
  <2>1. PICK r \in Regions : create_mapping(Call(r.start, r.start + r.size, r.start, ReadWriteIo))
    BY <1>2 DEF disable_cache
  <2> QED
    BY <1>2, <2>0, <2>1, Callers, CreateIInv DEF disable_cache
<1>3. CASE TlbFill
  BY <1>3, StutterIInv DEF TlbFill
<1>4. CASE Halted \/ UNCHANGED vars
  BY <1>4, StutterIInv DEF Halted, vars
<1> QED
  BY <1>1, <1>2, <1>3, <1>4, DescendIInv, SetPageIInv, UnalignedIInv, LeaveIInv, ReturnIInv
     DEF Next, Step

-----------------------------------------------------------------------------
(* The theorems.                                                           *)

\* create_mapping keeps its invariant, for tables of any depth and size.
THEOREM SpecIInv == Spec => []IInv
  BY InitIInv, NextIInv, PTL DEF Spec

\* What a call has made of the mapping when it returns.
LEMMA ReturnedMapping ==
  ASSUME IInv, pc = "return"
  PROVE  Mapping = want
<1>1. AtAddress /\ addr >= call.virt_end
  BY DEF IInv, AddrState, Unaligned, AtAddress
<1>2. /\ want = [p \in Pages |-> IF p \in PagesOf(call.virt_start, call.virt_end)
                                 THEN Entry(p * PAGE_SIZE, call.attr) ELSE before[p]]
      /\ \A p \in Pages : Translate(p) = IF Done(p) THEN want[p] ELSE before[p]
      /\ addr \in Nat /\ call.virt_end \in Nat /\ call.virt_start \in Nat
      /\ call.virt_start % PAGE_SIZE = 0
  BY <1>1 DEF IInv, CallState, MapState, TypeOK, AtAddress
<1>3. PICK s \in Nat : call.virt_start = s * PAGE_SIZE
  BY <1>2, AlignedIsPage
<1>4. ASSUME NEW p \in PagesOf(call.virt_start, call.virt_end) PROVE Done(p)
  <2>1. p \in Nat /\ PAGE_SIZE \in Nat \ {0}
    BY Sizes DEF PagesOf
  <2>2. p * PAGE_SIZE < call.virt_end /\ (p + 1) * PAGE_SIZE > s * PAGE_SIZE
    BY <1>3 DEF PagesOf
  <2>3. \A x, y \in Nat : (x + 1) * PAGE_SIZE > y * PAGE_SIZE => y * PAGE_SIZE <= x * PAGE_SIZE
    BY <2>1, Z3T(30)
  <2>4. s * PAGE_SIZE <= p * PAGE_SIZE
    BY <2>1, <2>2, <2>3
  <2>5. p * PAGE_SIZE < addr
    BY <1>1, <1>2, <2>1, <2>2
  <2> QED
    BY <1>3, <2>4, <2>5 DEF Done
<1>5. ASSUME NEW p \in Pages PROVE Translate(p) = want[p]
  BY <1>2, <1>4
<1> QED
  BY <1>2, <1>5 DEF Mapping

\* A returned call has mapped every page of its range as asked, and left every
\* other page as it was.
THEOREM MappingExact == Spec => []MappingIsExact
<1>1. IInv => MappingIsExact
  BY ReturnedMapping DEF MappingIsExact
<1> QED
  BY <1>1, SpecIInv, PTL

\* In every state of a call on the table the CPU uses each page is mapped as
\* before or as asked, and a refused call changes nothing.
THEOREM MappingNeverTransient == Spec => []NoTransientMapping
<1>1. IInv => NoTransientMapping
  <2> SUFFICES ASSUME IInv PROVE NoTransientMapping
    OBVIOUS
  <2>1. ASSUME pc # "idle", NEW p \in Pages PROVE Mapping[p] \in {before[p], want[p]}
    BY <2>1 DEF IInv, MapState, Mapping
  <2>2. ASSUME pc = "panic" PROVE Mapping = before
    <3>1. addr = call.virt_start /\ addr \in Nat
      BY <2>2 DEF IInv, AddrState, AtAddress, Unaligned, TypeOK
    <3>2. ASSUME NEW p \in Pages PROVE Translate(p) = before[p]
      <4>1. ~Done(p)
        BY <3>1, Sizes DEF Done
      <4> QED
        BY <2>2, <4>1 DEF IInv, MapState
    <3> QED
      BY <3>2 DEF Mapping, IInv, TypeOK
  <2> QED
    BY <2>1, <2>2 DEF NoTransientMapping
<1> QED
  BY <1>1, SpecIInv, PTL

\* The steps within a call.
LEMMA LoopSteps ==
  ASSUME Descend \/ set_page \/ set_page_unaligned \/ Leave
  PROVE  pc # "idle" /\ pc' # "idle" /\ UNCHANGED <<cr3, tlb, stage, call, before>>
  BY DEF Descend, set_page, set_page_unaligned, Leave

\* What the CPU remembers stays true.
LEMMA NextTlbState == TlbState /\ [Next]_vars => TlbState'
<1> SUFFICES ASSUME TlbState, [Next]_vars PROVE TlbState'
  OBVIOUS
<1>1. CASE init_paging \/ disable_cache
  BY <1>1 DEF init_paging, disable_cache, create_mapping, TlbState, NoStaleTranslation
<1>2. CASE Descend \/ set_page \/ set_page_unaligned \/ Leave
  BY <1>2, LoopSteps DEF TlbState, NoStaleTranslation
<1>3. CASE InitReturn
  BY <1>3 DEF InitReturn, TlbState, NoStaleTranslation
<1>4. CASE InitDone \/ DisableCacheReturn
  BY <1>4 DEF InitDone, DisableCacheReturn, put_current_page_table, write_cr3, TlbState,
              NoStaleTranslation
<1>5. CASE TlbFill
  <2>1. PICK page \in Pages : tlb' = [page |-> page, entry |-> Translate(page)]
    BY <1>5 DEF TlbFill
  <2>2. Translate(page)' = Translate(page) /\ cr3' = cr3 /\ stage' = stage /\ cr3 = "kernel"
    BY <1>5 DEF TlbFill, Translate
  <2>3. (tlb.entry = Translate(tlb.page))'
    BY <2>1, <2>2 DEF Translate
  <2> QED
    BY <2>2, <2>3 DEF TlbState, NoStaleTranslation
<1>6. CASE Halted \/ UNCHANGED vars
  BY <1>6 DEF Halted, vars, walk, TlbState, NoStaleTranslation, Translate
<1> QED
  BY <1>1, <1>2, <1>3, <1>4, <1>5, <1>6 DEF Next, Step

\* When no table is being changed the CPU remembers only what is in the table:
\* put_current_page_table makes it forget the rest.
THEOREM TranslationNeverStale == Spec => []NoStaleTranslation
<1>1. Init => TlbState
  BY DEF Init, TlbState, NoStaleTranslation
<1>2. TlbState => NoStaleTranslation
  BY DEF TlbState
<1> QED
  BY <1>1, <1>2, NextTlbState, PTL DEF Spec

\* Memory that is mapped, and page 0 that is not, when a call is over.
LEMMA WantNull ==
  ASSUME IInv, StageState, pc # "idle", stage = "done"
  PROVE  MemoryNull(want) /\ MemoryNull(before)
<1>1. MemoryNull(before) /\ call.virt_start >= PAGE_SIZE /\ call.attr = ReadWriteIo
  BY DEF StageState
<1>2. /\ want = [p \in Pages |-> IF p \in PagesOf(call.virt_start, call.virt_end)
                                 THEN Entry(p * PAGE_SIZE, call.attr) ELSE before[p]]
      /\ call.virt_start \in Nat
  BY DEF IInv, CallState, TypeOK
<1>3. 0 \notin PagesOf(call.virt_start, call.virt_end) /\ 0 \in Pages
  BY <1>1, <1>2, Sizes DEF PagesOf
<1>4. want[0] = ZeroEntry
  BY <1>1, <1>2, <1>3 DEF MemoryNull
<1>5. ASSUME NEW p \in Pages \ {0}, p * PAGE_SIZE < end_of_mem
      PROVE  want[p].phys = p * PAGE_SIZE /\ want[p].attr # NotPresent
  <2>1. before[p].phys = p * PAGE_SIZE /\ before[p].attr # NotPresent
    BY <1>1, <1>5 DEF MemoryNull
  <2>2. want[p] = Entry(p * PAGE_SIZE, ReadWriteIo) \/ want[p] = before[p]
    BY <1>1, <1>2
  <2> QED
    BY <2>1, <2>2 DEF Entry, ReadWriteIo, NotPresent
<1> QED
  BY <1>1, <1>4, <1>5 DEF MemoryNull

\* The first call maps all memory.
LEMMA WantMemory ==
  ASSUME IInv, StageState, pc # "idle", stage = "start"
  PROVE  Memory(want)
<1>1. /\ call.virt_start = 0 /\ call.virt_end = end_of_mem /\ call.attr = ReadWriteKernel
  BY DEF StageState, Call
<1>2. want = [p \in Pages |-> IF p \in PagesOf(0, end_of_mem)
                              THEN Entry(p * PAGE_SIZE, ReadWriteKernel) ELSE before[p]]
  BY <1>1 DEF IInv, CallState
<1>3. ASSUME NEW p \in Pages, p * PAGE_SIZE < end_of_mem PROVE p \in PagesOf(0, end_of_mem)
  <2>1. p \in Nat /\ PAGE_SIZE \in Nat \ {0}
    BY Sizes
  <2>2. (p + 1) * PAGE_SIZE > 0
    BY <2>1, Z3T(30)
  <2> QED
    BY <1>3, <2>2 DEF PagesOf
<1> QED
  BY <1>2, <1>3 DEF Memory

\* The second takes page 0 out.
LEMMA WantWithoutNull ==
  ASSUME IInv, StageState, pc # "idle", stage = "mapped"
  PROVE  MemoryNull(want)
<1>1. /\ call.virt_start = 0 /\ call.virt_end = PAGE_SIZE /\ call.attr = NotPresent
      /\ Memory(before)
  BY DEF StageState, Call
<1>2. want = [p \in Pages |-> IF p \in PagesOf(0, PAGE_SIZE)
                              THEN Entry(p * PAGE_SIZE, NotPresent) ELSE before[p]]
  BY <1>1 DEF IInv, CallState
<1>3. 0 \in PagesOf(0, PAGE_SIZE) /\ 0 * PAGE_SIZE = 0 /\ 0 \in Pages
  BY Sizes DEF PagesOf
<1>4. want[0] = ZeroEntry
  BY <1>2, <1>3 DEF ZeroEntry
<1>5. ASSUME NEW p \in Pages \ {0}, p * PAGE_SIZE < end_of_mem
      PROVE  want[p].phys = p * PAGE_SIZE /\ want[p].attr # NotPresent
  <2>1. p \in Nat \ {0} /\ PAGE_SIZE \in Nat \ {0}
    BY Sizes
  <2>2. ~(p * PAGE_SIZE < PAGE_SIZE)
    BY <2>1, Z3T(30)
  <2>3. want[p] = before[p]
    BY <1>2, <2>2 DEF PagesOf
  <2>4. want[p] = Entry(p * PAGE_SIZE, ReadWriteKernel)
    BY <1>1, <1>5, <2>3 DEF Memory
  <2> QED
    BY <2>4 DEF Entry, ReadWriteKernel, NotPresent
<1> QED
  BY <1>4, <1>5 DEF MemoryNull

\* Every step keeps what the stages have made.
LEMMA NextStageState == IInv /\ StageState /\ [Next]_vars => StageState'
<1> SUFFICES ASSUME IInv, StageState, [Next]_vars PROVE StageState'
  OBVIOUS
<1>0. stage \in {"start", "mapped", "done"}
  BY DEF IInv, TypeOK
<1>1. CASE init_paging
  <2>1. pc = "idle" /\ pc' = "enter" /\ before' = Mapping /\ stage' = stage
    BY <1>1 DEF init_paging, create_mapping
  <2>2. CASE stage = "start" /\ create_mapping(Call(0, end_of_mem, 0, ReadWriteKernel))
    BY <2>1, <2>2 DEF create_mapping, StageState
  <2>3. CASE stage = "mapped" /\ create_mapping(Call(0, PAGE_SIZE, 0, NotPresent))
    BY <2>1, <2>3 DEF create_mapping, StageState, Memory
  <2> QED
    BY <1>1, <2>2, <2>3 DEF init_paging
<1>2. CASE disable_cache
  <2>1. PICK r \in Regions : create_mapping(Call(r.start, r.start + r.size, r.start, ReadWriteIo))
    BY <1>2 DEF disable_cache
  <2>2. /\ pc = "idle" /\ pc' = "enter" /\ before' = Mapping /\ stage' = stage /\ stage = "done"
        /\ call'.virt_start = r.start /\ call'.attr = ReadWriteIo
    BY <1>2, <2>1 DEF disable_cache, create_mapping, Call
  <2>3. r.start >= PAGE_SIZE
    BY Callers
  <2> QED
    BY <2>2, <2>3 DEF StageState, MemoryNull
<1>3. CASE Descend \/ set_page \/ set_page_unaligned \/ Leave
  BY <1>3, LoopSteps DEF StageState, Memory, MemoryNull
<1>4. CASE InitReturn \/ InitDone \/ DisableCacheReturn
  <2>1. /\ pc = "return" /\ pc' = "idle" /\ UNCHANGED <<populated, pte>>
        /\ \/ stage = "start" /\ stage' = "mapped"
           \/ stage \in {"mapped", "done"} /\ stage' = "done"
    BY <1>4 DEF InitReturn, InitDone, DisableCacheReturn
  <2>2. Mapping' = want
    <3>1. Mapping = want
      BY <2>1, ReturnedMapping
    <3> QED
      BY <2>1, <3>1 DEF Mapping, Translate
  <2>3. CASE stage = "start"
    BY <2>1, <2>2, <2>3, WantMemory DEF StageState, Memory
  <2>4. CASE stage = "mapped"
    BY <2>1, <2>2, <2>4, WantWithoutNull DEF StageState, MemoryNull
  <2>5. CASE stage = "done"
    BY <2>1, <2>2, <2>5, WantNull DEF StageState, MemoryNull
  <2> QED
    BY <1>0, <2>3, <2>4, <2>5
<1>5. CASE TlbFill \/ Halted \/ UNCHANGED vars
  <2>1. UNCHANGED <<populated, pte, stage, pc, call, before>>
    BY <1>5 DEF TlbFill, Halted, vars, walk
  <2>2. Mapping' = Mapping
    BY <2>1 DEF Mapping, Translate
  <2> QED
    BY <2>1, <2>2 DEF StageState, Memory, MemoryNull
<1> QED
  BY <1>1, <1>2, <1>3, <1>4, <1>5 DEF Next, Step

\* After init_paging, and in every state of a later call of disable_cache, the
\* null page faults and all usable memory is mapped to itself.
THEOREM MemoryIsMapped == Spec => []UsableMemoryMapped
<1>1. Init => StageState
  BY DEF Init, StageState
<1>2. ASSUME IInv, StageState PROVE UsableMemoryMapped
  <2> SUFFICES ASSUME stage = "done" PROVE MemoryNull(Mapping)
    <3>1. ASSUME MemoryNull(Mapping), NEW d \in MemoryMap, d.type \in UsableTypes,
                 NEW p \in PagesOf(d.physical_start, d.physical_start + d.number_of_pages * PAGE_SIZE) \ {0}
          PROVE  Translate(p).attr # NotPresent /\ Translate(p).phys = p * PAGE_SIZE
      <4>1. p \in Pages /\ p * PAGE_SIZE < d.physical_start + d.number_of_pages * PAGE_SIZE
        BY DEF PagesOf
      <4>2. /\ d.physical_start \in Nat /\ d.number_of_pages \in Nat
            /\ d.physical_start + d.number_of_pages * PAGE_SIZE <= end_of_mem
        BY <3>1, EndOfMem, PagingAssumption
      <4>3. p * PAGE_SIZE < end_of_mem
        BY <4>1, <4>2, Sizes, EndOfMem
      <4> QED
        BY <3>1, <4>1, <4>3 DEF MemoryNull, Mapping
    <3>2. ASSUME MemoryNull(Mapping) PROVE Translate(0) = ZeroEntry
      BY <3>2, Sizes DEF MemoryNull, Mapping
    <3> QED
      BY <3>1, <3>2 DEF UsableMemoryMapped
  <2>1. CASE pc = "idle"
    BY <1>2, <2>1 DEF StageState
  <2>2. CASE pc # "idle"
    <3>1. MemoryNull(want) /\ MemoryNull(before)
      BY <1>2, <2>2, WantNull
    <3>2. \A p \in Pages : Mapping[p] = want[p] \/ Mapping[p] = before[p]
      BY <1>2, <2>2 DEF IInv, MapState, Mapping
    <3> QED
      BY <3>1, <3>2, Sizes DEF MemoryNull
  <2> QED
    BY <2>1, <2>2
<1>3. IInv /\ StageState => UsableMemoryMapped
  BY <1>2
<1> QED
  BY <1>1, <1>3, InitIInv, NextIInv, NextStageState, PTL DEF Spec
=============================================================================
