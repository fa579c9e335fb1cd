--------------------------- MODULE AllocatorProofs ---------------------------
(***************************************************************************)
(* Proofs about the kernel heap, for every memory map, every set of        *)
(* Layouts, every word width and every power-of-two Header size.           *)
(***************************************************************************)
EXTENDS Allocator, FiniteSetTheorems, TLAPS

(* Arithmetic of the rounding helpers.                                     *)

\* A multiple of h is h times some integer.
LEMMA ModWitness ==
  ASSUME NEW x \in Int, NEW h \in Nat \ {0}, x % h = 0
  PROVE  \E m \in Int : x = h * m
  OBVIOUS

\* h times an integer is a multiple of h.
LEMMA ModMultiple ==
  ASSUME NEW m \in Int, NEW h \in Nat \ {0}
  PROVE  (h * m) % h = 0
  OBVIOUS

\* The remainder is what is left above a multiple.
LEMMA ModQuotient ==
  ASSUME NEW x \in Int, NEW h \in Nat \ {0}
  PROVE  \E m \in Int : x - (x % h) = h * m
<1>1. x \div h \in Int /\ x = h * (x \div h) + (x % h)
  OBVIOUS
<1>2. x - (x % h) = h * (x \div h)
  BY <1>1
<1> QED
  BY <1>1, <1>2

\* Masking an address with !(align - 1) moves it down by less than align to
\* a multiple of align.
LEMMA AlignDownFacts ==
  ASSUME NEW x \in Nat, NEW a \in Nat \ {0}
  PROVE  /\ AlignDown(x, a) \in Nat
         /\ AlignDown(x, a) <= x
         /\ AlignDown(x, a) > x - a
         /\ AlignDown(x, a) % a = 0
<1>1. (x % a) \in 0..(a - 1)
  OBVIOUS
<1>2. (x % a) <= x
  OBVIOUS
<1>3. (x - (x % a)) % a = 0
  BY ModQuotient, ModMultiple
<1> QED
  BY <1>1, <1>2, <1>3 DEF AlignDown

\* Divisibility is transitive.
LEMMA ModTrans ==
  ASSUME NEW x \in Int, NEW a \in Nat \ {0}, NEW h \in Nat \ {0},
         x % a = 0, a % h = 0
  PROVE  x % h = 0
<1>1. PICK m \in Int : x = a * m
  BY ModWitness
<1>2. PICK k \in Int : a = h * k
  BY ModWitness
<1>3. x = h * (k * m) /\ k * m \in Int
  BY <1>1, <1>2
<1> QED
  BY <1>3, ModMultiple

\* Sums and differences of multiples of h are multiples of h.
LEMMA ModSum ==
  ASSUME NEW x \in Int, NEW y \in Int, NEW h \in Nat \ {0},
         x % h = 0, y % h = 0
  PROVE  (x + y) % h = 0 /\ (x - y) % h = 0
<1>1. PICK m \in Int : x = h * m
  BY ModWitness
<1>2. PICK k \in Int : y = h * k
  BY ModWitness
<1>3. /\ x + y = h * (m + k) /\ m + k \in Int
      /\ x - y = h * (m - k) /\ m - k \in Int
  BY <1>1, <1>2
<1> QED
  BY <1>3, ModMultiple

\* A multiple of h that is positive is at least h: there is room for a Header.
LEMMA ModAtLeast ==
  ASSUME NEW x \in Int, NEW h \in Nat \ {0}, x % h = 0, x > 0
  PROVE  x >= h
<1>1. PICK m \in Int : x = h * m
  BY ModWitness
<1>2. m >= 1
  BY <1>1
<1> QED
  BY <1>1, <1>2

\* 2^i grows with i.
LEMMA Pow2Mono ==
  ASSUME NEW i \in 0..WORD_BITS, NEW j \in 0..WORD_BITS, i <= j
  PROVE  2^i \in Nat \ {0} /\ 2^j \in Nat \ {0} /\ 2^i <= 2^j
<1>1. 2^i \in Nat \ {0} /\ 2^j \in Nat \ {0} /\ (2^j) % (2^i) = 0
  BY Pow2Arithmetic
<1> DEFINE p == 2^i
           q == 2^j
<1>2. p \in Nat \ {0} /\ q \in Nat \ {0} /\ q % p = 0
  BY <1>1
<1> HIDE DEF p, q
<1>3. p <= q
  BY <1>2, ModAtLeast
<1> QED
  BY <1>2, <1>3 DEF p, q

\* Powers of two are positive.
LEMMA Pow2Positive ==
  ASSUME NEW p \in PowersOfTwo
  PROVE  p \in Nat \ {0}
<1>1. PICK i \in 0..(WORD_BITS - 1) : p = 2^i
  BY DEF PowersOfTwo
<1>2. i \in 0..WORD_BITS
  BY WordAssumption
<1> QED
  BY <1>1, <1>2, Pow2Arithmetic

\* The larger of two powers of two is a multiple of the smaller.
LEMMA Pow2Divides ==
  ASSUME NEW p \in PowersOfTwo, NEW q \in PowersOfTwo, p <= q
  PROVE  p \in Nat \ {0} /\ q \in Nat \ {0} /\ q % p = 0
<1>1. PICK i \in 0..(WORD_BITS - 1) : p = 2^i
  BY DEF PowersOfTwo
<1>2. PICK j \in 0..(WORD_BITS - 1) : q = 2^j
  BY DEF PowersOfTwo
<1>3. i \in 0..WORD_BITS /\ j \in 0..WORD_BITS
  BY WordAssumption
<1>4. p \in Nat \ {0} /\ q \in Nat \ {0}
  BY Pow2Positive
<1>5. CASE i <= j
  BY <1>1, <1>2, <1>3, <1>4, <1>5, Pow2Arithmetic
<1>6. CASE j < i
  <2>1. q <= p
    BY <1>1, <1>2, <1>3, <1>6, Pow2Mono
  <2>2. p = q
    BY <2>1, <1>4
  <2> QED
    BY <2>2, <1>4
<1> QED
  BY <1>3, <1>5, <1>6

\* 2 to the number of bits of x is larger than x.
LEMMA BitLengthBound ==
  ASSUME NEW x \in Nat
  PROVE  /\ BitLength(x) \in 0..WORD_BITS
         /\ BitLength(x) < WORD_BITS => x < 2^BitLength(x)
<1> DEFINE bits == { i \in 0..(WORD_BITS - 1) : 2^i <= x }
           b == Cardinality(bits)
<1>1. /\ IsFiniteSet(0..(WORD_BITS - 1))
      /\ Cardinality(0..(WORD_BITS - 1)) = WORD_BITS
  BY FS_Interval, WordAssumption
<1>2. bits \subseteq 0..(WORD_BITS - 1)
  OBVIOUS
<1>3. IsFiniteSet(bits) /\ b \in Nat /\ b <= WORD_BITS
  BY <1>1, <1>2, FS_Subset, FS_CardinalityType
<1>4. ASSUME b < WORD_BITS, 2^b <= x PROVE FALSE
  <2>1. ASSUME NEW i \in 0..b PROVE i \in bits
    <3>1. i \in 0..WORD_BITS /\ b \in 0..WORD_BITS /\ i <= b /\ i \in 0..(WORD_BITS - 1)
      BY <1>3, <1>4, WordAssumption
    <3>2. 2^i \in Nat /\ 2^b \in Nat /\ 2^i <= 2^b
      BY <3>1, Pow2Mono
    <3> DEFINE p == 2^i
               q == 2^b
    <3>3. p \in Nat /\ q \in Nat /\ p <= q /\ q <= x
      BY <3>2, <1>4
    <3> HIDE DEF p, q
    <3>4. p <= x
      BY <3>3
    <3> QED
      BY <3>1, <3>4 DEF p
  <2>2. 0..b \subseteq bits
    BY <2>1
  <2>3. Cardinality(0..b) = b + 1
    BY FS_Interval, <1>3
  <2>4. Cardinality(0..b) <= b
    BY <2>2, <1>3, FS_Subset
  <2> QED
    BY <2>3, <2>4, <1>3
<1>5. b < WORD_BITS => x < 2^b
  <2>1. SUFFICES ASSUME b < WORD_BITS PROVE x < 2^b
    OBVIOUS
  <2>2. b \in 0..WORD_BITS
    BY <1>3, WordAssumption
  <2>3. 2^b \in Nat
    BY <2>2, Pow2Arithmetic
  <2>4. ~(2^b <= x)
    BY <2>1, <1>4
  <2> DEFINE q == 2^b
  <2>5. q \in Nat /\ ~(q <= x)
    BY <2>3, <2>4
  <2> HIDE DEF q
  <2>6. x < q
    BY <2>5
  <2> QED
    BY <2>6 DEF q
<1>6. BitLength(x) = b
  BY DEF BitLength
<1> HIDE DEF b
<1> QED
  BY <1>3, <1>5, <1>6, WordAssumption

\* A power of two above x has at least as many places as x has bits.
LEMMA BitLengthLeast ==
  ASSUME NEW x \in Nat, NEW i \in 0..(WORD_BITS - 1), x < 2^i
  PROVE  BitLength(x) <= i
<1> DEFINE bits == { k \in 0..(WORD_BITS - 1) : 2^k <= x }
           q == 2^i
<1>1. i \in 0..WORD_BITS /\ i \in Nat
  BY WordAssumption
<1>2. q \in Nat /\ x < q
  BY <1>1, Pow2Arithmetic
<1>3. ASSUME NEW k \in bits PROVE k \in 0..(i - 1)
  <2>1. k \in 0..WORD_BITS /\ k \in Nat
    BY WordAssumption
  <2>2. ASSUME i <= k PROVE FALSE
    <3> DEFINE p == 2^k
    <3>1. p \in Nat /\ q <= p
      BY <1>1, <2>1, <2>2, Pow2Mono
    <3>2. p <= x
      BY <1>3
    <3> HIDE DEF p, q
    <3> QED
      BY <1>2, <3>1, <3>2
  <2> QED
    BY <1>1, <2>1, <2>2
<1>4. IsFiniteSet(0..(i - 1)) /\ Cardinality(0..(i - 1)) = i
  <2>1. 0 \in Int /\ i - 1 \in Int
    BY <1>1
  <2>2. /\ IsFiniteSet(0..(i - 1))
        /\ Cardinality(0..(i - 1)) = IF 0 > i - 1 THEN 0 ELSE (i - 1) - 0 + 1
    BY <2>1, FS_Interval
  <2> QED
    BY <1>1, <2>2
<1>5. Cardinality(bits) <= i
  BY <1>3, <1>4, FS_Subset
<1> QED
  BY <1>5 DEF BitLength

\* round_up_to_nearest_pow2 returns a power of two that is large enough, for
\* every v it does not refuse.
LEMMA RoundUpFacts ==
  ASSUME NEW v \in Usize \ {0}, round_up_to_nearest_pow2(v) # OutOfRange
  PROVE  /\ round_up_to_nearest_pow2(v) \in PowersOfTwo
         /\ round_up_to_nearest_pow2(v) >= v
<1> DEFINE w == 2^WORD_BITS
           b == BitLength(v - 1)
<1>1. w \in Nat \ {0}
  BY Pow2Arithmetic, WordAssumption
<1>2. v \in Nat \ {0} /\ v - 1 \in Nat /\ v - 1 < w
  BY <1>1 DEF Usize
<1> HIDE DEF w
<1>3. (v - 1) % w = v - 1
  BY <1>1, <1>2
<1>4. round_up_to_nearest_pow2(v) = IF b < WORD_BITS THEN 2^b ELSE OutOfRange
  BY <1>3 DEF round_up_to_nearest_pow2, w
<1>5. b \in 0..WORD_BITS /\ (b < WORD_BITS => v - 1 < 2^b)
  BY <1>2, BitLengthBound
<1> HIDE DEF b
<1>6. b < WORD_BITS /\ round_up_to_nearest_pow2(v) = 2^b
  BY <1>4, <1>5
<1>7. b \in 0..(WORD_BITS - 1) /\ 2^b \in Nat /\ v - 1 < 2^b
  BY <1>5, <1>6, WordAssumption, Pow2Arithmetic
<1> DEFINE r == 2^b
<1>8. r \in Nat /\ v - 1 < r
  BY <1>7
<1>9. r \in PowersOfTwo
  BY <1>7 DEF PowersOfTwo
<1> HIDE DEF r
<1>10. r >= v
  BY <1>8, <1>2
<1> QED
  BY <1>6, <1>9, <1>10 DEF r

\* What provide asks for: the size is large enough for the object and for
\* whole Headers, the alignment serves the Layout and the Headers.
LEMMA RequestFacts ==
  ASSUME NEW l \in Layouts, round_up_to_nearest_pow2(l.size) # OutOfRange
  PROVE  /\ HEADER_SIZE \in Nat \ {0}
         /\ Rounded(l) \in Nat \ {0} /\ Aligned(l) \in Nat \ {0}
         /\ l.size \in Nat \ {0} /\ l.align \in Nat \ {0}
         /\ Rounded(l) >= l.size
         /\ Rounded(l) % HEADER_SIZE = 0
         /\ Aligned(l) % HEADER_SIZE = 0
         /\ Aligned(l) % l.align = 0
<1> DEFINE r == round_up_to_nearest_pow2(l.size)
<1>1. l.size \in Usize \ {0} /\ l.align \in PowersOfTwo
  BY LayoutAssumption
<1>2. r \in PowersOfTwo /\ r >= l.size
  BY <1>1, RoundUpFacts
<1>3. HEADER_SIZE \in PowersOfTwo
  BY HeaderAssumption
<1>4. HEADER_SIZE \in Nat \ {0} /\ r \in Nat \ {0} /\ l.align \in Nat \ {0}
  BY <1>1, <1>2, <1>3, Pow2Positive
<1>5. l.size \in Nat \ {0}
  <2>1. 2^WORD_BITS \in Nat
    BY Pow2Arithmetic, WordAssumption
  <2> QED
    BY <1>1, <2>1 DEF Usize
<1>6. Rounded(l) = Max(r, HEADER_SIZE) /\ Aligned(l) = Max(l.align, HEADER_SIZE)
  BY DEF Rounded, Aligned
<1> HIDE DEF r
<1>7. /\ Rounded(l) \in PowersOfTwo /\ Rounded(l) >= HEADER_SIZE /\ Rounded(l) >= r
      /\ Aligned(l) \in PowersOfTwo /\ Aligned(l) >= HEADER_SIZE /\ Aligned(l) >= l.align
  BY <1>1, <1>2, <1>3, <1>4, <1>6 DEF Max
<1>8. /\ Rounded(l) \in Nat \ {0} /\ Rounded(l) % HEADER_SIZE = 0
      /\ Aligned(l) \in Nat \ {0} /\ Aligned(l) % HEADER_SIZE = 0
      /\ Aligned(l) % l.align = 0
  BY <1>1, <1>3, <1>7, Pow2Divides
<1> QED
  BY <1>2, <1>4, <1>5, <1>7, <1>8

-----------------------------------------------------------------------------
(* What Header::provide does to the list, for a self that passes its test. *)

\* Where the object goes: behind room for self's Header and its own, ending
\* in self, with either nothing or at least a Header's worth behind it.
LEMMA ProvideGeometry ==
  ASSUME TypeOK, HeadersFit,
         NEW a \in DOMAIN heap, NEW l \in Layouts, Provides(a, l)
  PROVE  /\ allocated_addr(a, l) \in Nat
         /\ allocated_addr(a, l) % l.align = 0
         /\ allocated_addr(a, l) % HEADER_SIZE = 0
         /\ a + HEADER_SIZE <= allocated_addr(a, l) - HEADER_SIZE
         /\ allocated_addr(a, l) + Rounded(l) <= end_addr(a)
         /\ allocated_addr(a, l) + Rounded(l) # end_addr(a)
              => end_addr(a) - (allocated_addr(a, l) + Rounded(l)) >= HEADER_SIZE
         /\ (end_addr(a) - (allocated_addr(a, l) + Rounded(l))) % HEADER_SIZE = 0
         /\ (allocated_addr(a, l) - HEADER_SIZE - a) % HEADER_SIZE = 0
         /\ AssertRoomForSelf(a, l)
<1> DEFINE R == Rounded(l)
           A == Aligned(l)
           H == HEADER_SIZE
           e == end_addr(a)
           p == allocated_addr(a, l)
<1>1. /\ R \in Nat \ {0} /\ A \in Nat \ {0} /\ H \in Nat \ {0} /\ l.align \in Nat \ {0}
      /\ R % H = 0 /\ A % H = 0 /\ A % l.align = 0
  BY RequestFacts DEF Provides
<1>2. a \in Nat /\ heap[a].size \in Nat /\ a % H = 0 /\ heap[a].size % H = 0
  <2>1. 2^WORD_BITS \in Nat
    BY Pow2Arithmetic, WordAssumption
  <2> QED
    BY <2>1 DEF TypeOK, HeadersFit, Usize
<1>3. e = a + heap[a].size /\ e \in Nat /\ heap[a].size >= R + H * 2 + A
  BY <1>2 DEF end_addr, Provides, can_provide
<1>4. p = AlignDown(e - R, A)
  BY DEF allocated_addr
<1> HIDE DEF R, A, H, e, p
<1>5. e - R \in Nat
  BY <1>1, <1>2, <1>3
<1>6. p \in Nat /\ p <= e - R /\ p > e - R - A /\ p % A = 0
  BY <1>1, <1>4, <1>5, AlignDownFacts
<1> DEFINE s == heap[a].size
           k == l.align
<1>t. /\ p \in Int /\ e \in Int /\ R \in Int /\ a \in Int /\ s \in Int /\ H \in Int
      /\ p - H \in Int /\ p + R \in Int
  BY <1>1, <1>2, <1>3, <1>6
<1> HIDE DEF s, k
<1>7. p % H = 0 /\ p % k = 0
  <2>1. k \in Nat \ {0} /\ A % k = 0
    BY <1>1 DEF k
  <2> QED
    BY <1>1, <1>6, <1>t, <2>1, ModTrans, Zenon
<1>8. a + H <= p - H /\ p + R <= e /\ heap[a].size >= (e - (p - H)) + H
  BY <1>1, <1>2, <1>3, <1>6
<1>9. e % H = 0
  <2>1. e = a + s /\ a % H = 0 /\ s % H = 0
    BY <1>2, <1>3 DEF s
  <2> QED
    BY <1>1, <1>t, <2>1, ModSum, Zenon
<1>10. (p + R) % H = 0
  BY <1>1, <1>t, <1>7, ModSum, Zenon
<1>11. (e - (p + R)) % H = 0
  BY <1>1, <1>t, <1>9, <1>10, ModSum, Zenon
<1>12. p + R # e => e - (p + R) >= H
  <2>1. e - (p + R) \in Int /\ (p + R # e => e - (p + R) > 0)
    BY <1>8, <1>t
  <2> QED
    BY <1>1, <1>11, <2>1, ModAtLeast, Zenon
<1>13. (p - H - a) % H = 0
  <2>1. H % H = 0
    BY <1>1
  <2>2. (p - H) % H = 0
    BY <1>1, <1>t, <1>7, <2>1, ModSum, Zenon
  <2> QED
    BY <1>1, <1>2, <1>t, <2>2, ModSum, Zenon
<1> QED
  BY <1>6, <1>7, <1>8, <1>11, <1>12, <1>13 DEF R, A, H, e, p, k, AssertRoomForSelf

\* The list after the split: at most two new Headers, at addresses where
\* there was none, and no other Header changed but self.
LEMMA CarveShape ==
  ASSUME TypeOK, HeadersFit, BlocksDisjoint,
         NEW a \in DOMAIN heap, NEW l \in Layouts, Provides(a, l),
         NEW g, g = Carve(a, l),
         NEW al, al = allocated_addr(a, l) - HEADER_SIZE,
         NEW pad, pad = allocated_addr(a, l) + Rounded(l)
  PROVE  /\ DOMAIN g = DOMAIN heap \cup {al} \cup (IF pad # end_addr(a) THEN {pad} ELSE {})
         /\ al \notin DOMAIN heap
         /\ pad # end_addr(a) => pad \notin DOMAIN heap /\ pad # al
         /\ g[a] = [size |-> al - a, is_allocated |-> FALSE, next_header |-> al]
         /\ g[al] = [size |-> pad - al, is_allocated |-> TRUE,
                     next_header |-> IF pad # end_addr(a) THEN pad ELSE heap[a].next_header]
         /\ pad # end_addr(a) =>
              g[pad] = [size |-> end_addr(a) - pad, is_allocated |-> FALSE,
                        next_header |-> heap[a].next_header]
         /\ \A b \in DOMAIN heap \ {a} : g[b] = heap[b]
<1> DEFINE e == end_addr(a)
<1>1. HEADER_SIZE \in Nat \ {0} /\ Rounded(l) \in Nat \ {0}
  BY RequestFacts DEF Provides
<1>2. 2^WORD_BITS \in Nat
  BY Pow2Arithmetic, WordAssumption
<1>3. /\ DOMAIN heap \subseteq Nat
      /\ \A b \in DOMAIN heap : heap[b].size \in Nat
  BY <1>2 DEF TypeOK, Usize
<1>4. /\ al \in Int /\ pad \in Nat /\ e \in Nat /\ e = a + heap[a].size
      /\ a < al /\ al < pad /\ pad <= e
  BY <1>1, <1>3, ProvideGeometry DEF end_addr
<1>5. \A b \in DOMAIN heap : b <= a \/ e <= b
  BY <1>3 DEF BlocksDisjoint
<1>6. al \notin DOMAIN heap /\ (pad # e => pad \notin DOMAIN heap /\ pad # al)
  BY <1>3, <1>4, <1>5
<1>7. heap[a].size - (e - al) = al - a /\ Rounded(l) + HEADER_SIZE = pad - al
  BY <1>1, <1>3, <1>4, ProvideGeometry
<1> QED
  BY <1>4, <1>6, <1>7 DEF Carve, CarveBefore

-----------------------------------------------------------------------------
(* What init_with_mmap adds.                                               *)

\* The memory map is a finite sequence.
LEMMA MapLength ==
  Len(MemoryMap) \in Nat /\ DOMAIN MemoryMap = 1..Len(MemoryMap)
<1> DEFINE D == [memory_type : STRING, physical_start : Nat, number_of_pages : Nat]
<1>1. MemoryMap \in Seq(D)
  BY MemoryMapAssumption
<1> HIDE DEF D
<1> QED
  BY <1>1

\* The memory kept of a descriptor is a nonempty run of whole Headers, off
\* address 0, inside the descriptor.
LEMMA DescriptorFacts ==
  ASSUME NEW i \in 1..Len(MemoryMap), IsKept(MemoryMap[i]),
         NEW s, s = free_start(MemoryMap[i]),
         NEW n, n = free_size(MemoryMap[i])
  PROVE  /\ HEADER_SIZE \in Nat \ {0}
         /\ s \in Nat \ {0} /\ n \in Nat \ {0} /\ n >= HEADER_SIZE
         /\ s % HEADER_SIZE = 0 /\ n % HEADER_SIZE = 0
         /\ s + n <= 2^WORD_BITS
         /\ \A x \in Nat : s <= x /\ x < s + n => x \in Region(MemoryMap[i])
<1> DEFINE b == MemoryMap[i].physical_start
           c == MemoryMap[i].number_of_pages
           t == PAGE_SIZE * c
           W == 2^WORD_BITS
<1>1. HEADER_SIZE \in Nat \ {0}
  BY HeaderAssumption, Pow2Positive
<1>2. PAGE_SIZE \in Nat \ {0} /\ PAGE_SIZE >= HEADER_SIZE /\ PAGE_SIZE % HEADER_SIZE = 0
  BY <1>1, HeaderAssumption
<1>3. /\ MemoryMap[i] \in [memory_type : STRING, physical_start : Nat, number_of_pages : Nat]
      /\ i \in DOMAIN MemoryMap
  <2> DEFINE D == [memory_type : STRING, physical_start : Nat, number_of_pages : Nat]
  <2>1. MemoryMap \in Seq(D)
    BY MemoryMapAssumption
  <2> HIDE DEF D
  <2>2. MemoryMap[i] \in D /\ i \in DOMAIN MemoryMap
    BY <2>1
  <2> QED
    BY <2>2 DEF D
<1>4. b \in Nat /\ c \in Nat /\ t \in Nat /\ W \in Nat
  BY <1>2, <1>3, Pow2Arithmetic, WordAssumption
<1>5. b % PAGE_SIZE = 0 /\ b + t <= W
  <2>1. b % PAGE_SIZE = 0 /\ b + c * PAGE_SIZE <= W
    BY <1>3, MemoryMapAssumption
  <2>2. c * PAGE_SIZE = t
    BY <1>2, <1>4
  <2> QED
    BY <2>1, <2>2
<1>6. /\ s = IF b = 0 THEN PAGE_SIZE ELSE b
      /\ n = IF b = 0 THEN Max(t - PAGE_SIZE, 0) ELSE t
      /\ n > PAGE_SIZE
      /\ Region(MemoryMap[i]) = b..(b + t - 1)
  <2>1. c * PAGE_SIZE = t
    BY <1>2, <1>4
  <2> QED
    BY <2>1 DEF IsKept, free_start, free_size, Region
<1>7. t % PAGE_SIZE = 0
  BY <1>2, <1>4, ModMultiple
<1> HIDE DEF b, c, t, W
<1>8. /\ s = IF b = 0 THEN PAGE_SIZE ELSE b
      /\ n = IF b = 0 THEN t - PAGE_SIZE ELSE t
      /\ n > PAGE_SIZE
  BY <1>2, <1>4, <1>6 DEF Max
<1>9. b % HEADER_SIZE = 0 /\ t % HEADER_SIZE = 0
  <2>1. b \in Int /\ t \in Int
    BY <1>4
  <2> QED
    BY <1>1, <1>2, <1>5, <1>7, <2>1, ModTrans, Zenon
<1>10. s % HEADER_SIZE = 0
  BY <1>2, <1>8, <1>9, Zenon
<1>11. n % HEADER_SIZE = 0
  <2>1. t \in Int /\ PAGE_SIZE \in Int
    BY <1>2, <1>4
  <2>2. (t - PAGE_SIZE) % HEADER_SIZE = 0
    BY <1>1, <1>2, <1>9, <2>1, ModSum, Zenon
  <2> QED
    BY <1>8, <1>9, <2>2, Zenon
<1>12. /\ s \in Nat \ {0} /\ n \in Nat \ {0} /\ n >= HEADER_SIZE /\ s + n <= W
       /\ \A x \in Nat : s <= x /\ x < s + n => x \in b..(b + t - 1)
  BY <1>1, <1>2, <1>4, <1>5, <1>8
<1> QED
  BY <1>1, <1>6, <1>10, <1>11, <1>12 DEF W

\* The memory of a descriptor that was not looked at yet is not managed yet.
LEMMA NewMemory ==
  ASSUME NEW i \in 1..Len(MemoryMap), IsKept(MemoryMap[i]), mmap_pos = i,
         NEW x \in Nat, Managed(x)
  PROVE  ~(/\ free_start(MemoryMap[i]) <= x
           /\ x < free_start(MemoryMap[i]) + free_size(MemoryMap[i]))
<1>1. SUFFICES ASSUME free_start(MemoryMap[i]) <= x,
                      x < free_start(MemoryMap[i]) + free_size(MemoryMap[i])
               PROVE  FALSE
  OBVIOUS
<1>2. x \in Region(MemoryMap[i])
  BY <1>1, DescriptorFacts
<1>3. PICK j \in 1..(i - 1) :
        /\ IsKept(MemoryMap[j])
        /\ free_start(MemoryMap[j]) <= x
        /\ x < free_start(MemoryMap[j]) + free_size(MemoryMap[j])
  BY DEF Managed
<1>4. Len(MemoryMap) \in Nat /\ DOMAIN MemoryMap = 1..Len(MemoryMap)
  BY MapLength
<1>5. j \in 1..Len(MemoryMap) /\ i # j
  BY <1>4
<1>6. x \in Region(MemoryMap[j])
  BY <1>3, <1>5, DescriptorFacts
<1> QED
  BY <1>2, <1>4, <1>5, <1>6, MemoryMapAssumption

-----------------------------------------------------------------------------
(* The inductive invariant: none of its conjuncts but TypeOK is inductive  *)
(* alone.  A split stays in its block only because blocks are disjoint and *)
(* made of whole Headers; the bytes stay covered only because the split    *)
(* stays in its block; a live object keeps its block only because an       *)
(* allocated block is never split.                                         *)
IInv ==
  /\ TypeOK
  /\ HeadersFit
  /\ BlocksDisjoint
  /\ BlocksCoverManaged
  /\ LiveBacked
  /\ HeadersListed
  /\ NoPanic

\* The empty heap of a kernel that has not read its memory map.
LEMMA InitIInv == Init => IInv
<1> SUFFICES ASSUME Init PROVE IInv
  OBVIOUS
<1>1. DOMAIN heap = {} /\ heap = [b \in DOMAIN heap |-> heap[b]]
  BY DEF Init
<1>2. Len(MemoryMap) \in Nat
  BY MapLength
<1>3. TypeOK
  <2>1. heap \in [DOMAIN heap -> [size : Nat, is_allocated : BOOLEAN,
                                 next_header : DOMAIN heap \cup {NULL}]]
    BY <1>1
  <2>2. mmap_pos \in 1..(Len(MemoryMap) + 1)
    BY <1>2 DEF Init
  <2> QED
    BY <1>1, <2>1, <2>2 DEF Init, TypeOK
<1>4. HeadersFit /\ BlocksDisjoint /\ LiveBacked /\ HeadersListed /\ NoPanic
  BY <1>1 DEF Init, HeadersFit, BlocksDisjoint, LiveBacked, HeadersListed, NoPanic
<1>5. BlocksCoverManaged
  BY <1>1 DEF Init, BlocksCoverManaged, Managed
<1> QED
  BY <1>3, <1>4, <1>5 DEF IInv

\* Facts about the types that every step below needs.
LEMMA HeapTypes ==
  ASSUME IInv
  PROVE  /\ HEADER_SIZE \in Nat \ {0}
         /\ 2^WORD_BITS \in Nat
         /\ DOMAIN heap \subseteq Nat \ {0}
         /\ \A b \in DOMAIN heap :
              /\ heap[b].size \in Nat /\ heap[b].size >= HEADER_SIZE
              /\ heap[b].is_allocated \in BOOLEAN
              /\ heap[b].next_header \in DOMAIN heap \cup {NULL}
              /\ end_addr(b) = b + heap[b].size /\ end_addr(b) \in Nat
              /\ end_addr(b) <= 2^WORD_BITS
<1>1. HEADER_SIZE \in Nat \ {0}
  BY HeaderAssumption, Pow2Positive
<1>2. 2^WORD_BITS \in Nat
  BY Pow2Arithmetic, WordAssumption
<1>3. DOMAIN heap \subseteq Nat \ {0}
  BY <1>2 DEF IInv, TypeOK, Usize, NULL
<1> QED
  BY <1>1, <1>2, <1>3 DEF IInv, TypeOK, HeadersFit, end_addr

\* A block of the heap is managed memory, so the memory of a new descriptor
\* lies between the blocks.
LEMMA NewBlockApart ==
  ASSUME IInv, NEW i \in 1..Len(MemoryMap), mmap_pos = i, IsKept(MemoryMap[i]),
         NEW s, s = free_start(MemoryMap[i]),
         NEW n, n = free_size(MemoryMap[i]),
         NEW b \in DOMAIN heap
  PROVE  s # b /\ (b < s => end_addr(b) <= s) /\ (s < b => s + n <= b)
<1> USE HeapTypes
<1>1. s \in Nat \ {0} /\ n \in Nat \ {0} /\ s + n <= 2^WORD_BITS
  BY DescriptorFacts
<1>2. s \in Usize /\ b \in Usize
  BY <1>1 DEF Usize, IInv, TypeOK
<1>3. Managed(b)
  BY <1>2 DEF IInv, BlocksCoverManaged
<1>4. b < s \/ s + n <= b
  BY <1>1, <1>3, NewMemory
<1>5. ~Managed(s)
  BY <1>1, NewMemory
<1>6. ~(b <= s /\ s < end_addr(b))
  BY <1>2, <1>5 DEF IInv, BlocksCoverManaged
<1> QED
  BY <1>1, <1>4, <1>6

\* init_with_mmap adds a block that touches no other.
LEMMA AddFreeStep ==
  ASSUME IInv, add_free_from_descriptor
  PROVE  IInv'
<1> DEFINE d == MemoryMap[mmap_pos]
<1> USE HeapTypes
<1>1. Len(MemoryMap) \in Nat
  BY MapLength
<1>2. mmap_pos \in 1..Len(MemoryMap) /\ mmap_pos' = mmap_pos + 1
  BY <1>1 DEF add_free_from_descriptor, IInv, TypeOK
<1>3. mmap_pos' \in 1..(Len(MemoryMap) + 1)
  BY <1>1, <1>2
<1>4. ASSUME NEW x
      PROVE  Managed(x)' <=> Managed(x) \/ (/\ IsKept(d) /\ free_start(d) <= x
                                            /\ x < free_start(d) + free_size(d))
  <2>1. 1..(mmap_pos' - 1) = (1..(mmap_pos - 1)) \cup {mmap_pos}
    BY <1>2
  <2> QED
    BY <2>1 DEF Managed
<1>5. CASE ~IsKept(d)
  <2>1. UNCHANGED <<heap, first_header, request, header, live, panicked>>
    BY <1>5 DEF add_free_from_descriptor
  <2>2. TypeOK'
    BY <1>3, <2>1 DEF IInv, TypeOK
  <2>3. BlocksCoverManaged'
    BY <1>4, <1>5, <2>1 DEF IInv, BlocksCoverManaged, end_addr
  <2> QED
    BY <2>1, <2>2, <2>3 DEF IInv, HeadersFit, BlocksDisjoint, LiveBacked, HeadersListed,
                            NoPanic, end_addr
<1>6. CASE IsKept(d)
  <2> DEFINE s == free_start(d)
             n == free_size(d)
  <2>1. /\ s \in Nat \ {0} /\ n \in Nat \ {0} /\ n >= HEADER_SIZE
        /\ s % HEADER_SIZE = 0 /\ n % HEADER_SIZE = 0
        /\ s + n <= 2^WORD_BITS
    BY <1>2, <1>6, DescriptorFacts
  <2>2. \A b \in DOMAIN heap :
          s # b /\ (b < s => end_addr(b) <= s) /\ (s < b => s + n <= b)
    BY <1>2, <1>6, NewBlockApart
  <2>3. /\ heap' = [b \in DOMAIN heap \cup {s} |->
                      IF b = s THEN [size |-> n, is_allocated |-> FALSE,
                                     next_header |-> first_header]
                      ELSE heap[b]]
        /\ first_header' = s
        /\ UNCHANGED <<request, header, live, panicked>>
    BY <1>6 DEF add_free_from_descriptor
  <2> HIDE DEF s, n
  <2>4. /\ DOMAIN heap' = DOMAIN heap \cup {s}
        /\ heap'[s] = [size |-> n, is_allocated |-> FALSE, next_header |-> first_header]
        /\ \A b \in DOMAIN heap : heap'[b] = heap[b]
    BY <2>2, <2>3
  <2>5. TypeOK'
    <3>1. s \in Usize \ {NULL}
      BY <2>1 DEF Usize, NULL
    <3>2. heap' \in [DOMAIN heap' -> [size : Nat, is_allocated : BOOLEAN,
                                     next_header : DOMAIN heap' \cup {NULL}]]
      BY <2>1, <2>3 DEF IInv, TypeOK
    <3> QED
      BY <1>3, <2>3, <2>4, <3>1, <3>2 DEF IInv, TypeOK
  <2>6. HeadersFit'
    BY <2>1, <2>4 DEF IInv, HeadersFit, end_addr
  <2>7. BlocksDisjoint'
    BY <2>1, <2>2, <2>4 DEF IInv, BlocksDisjoint, end_addr
  <2>8. BlocksCoverManaged'
    <3>1. ASSUME NEW x \in Usize
          PROVE  (\E b \in DOMAIN heap' : b <= x /\ x < (b + heap'[b].size)) <=>
                 \/ \E b \in DOMAIN heap : b <= x /\ x < end_addr(b)
                 \/ s <= x /\ x < s + n
      BY <2>4 DEF end_addr
    <3>2. ASSUME NEW x \in Usize
          PROVE  Managed(x)' <=> Managed(x) \/ (s <= x /\ x < s + n)
      BY <1>4, <1>6 DEF s, n
    <3> QED
      BY <3>1, <3>2 DEF IInv, BlocksCoverManaged, end_addr
  <2>9. LiveBacked'
    BY <2>3, <2>4 DEF IInv, LiveBacked
  <2>10. HeadersListed'
    <3>1. SUFFICES ASSUME NEW S \in SUBSET DOMAIN heap',
                          first_header' \in S \cup {NULL},
                          \A b \in S : heap'[b].next_header \in S \cup {NULL}
                   PROVE  S = DOMAIN heap'
      BY DEF HeadersListed
    <3> DEFINE T == S \ {s}
    <3>2. s \in S
      BY <2>1, <2>3, <3>1 DEF NULL
    <3>3. T \in SUBSET DOMAIN heap
      BY <2>4
    <3>4. first_header \in T \cup {NULL}
      BY <2>2, <2>4, <3>1, <3>2 DEF IInv, TypeOK
    <3>5. \A b \in T : heap[b].next_header \in T \cup {NULL}
      BY <2>2, <2>4, <3>1, <3>3
    <3>6. T = DOMAIN heap
      BY <3>3, <3>4, <3>5 DEF IInv, HeadersListed
    <3> QED
      BY <2>4, <3>2, <3>6
  <2>11. NoPanic'
    BY <2>3 DEF IInv, NoPanic
  <2> QED
    BY <2>5, <2>6, <2>7, <2>8, <2>9, <2>10, <2>11 DEF IInv
<1> QED
  BY <1>5, <1>6

\* A split: the blocks of self, of the object and of the padding are what
\* self was, the list goes through all three, and no held block is touched.
LEMMA ProvideStep ==
  ASSUME IInv, AllocProvide
  PROVE  /\ IInv'
         /\ \A b \in DOMAIN heap :
              /\ b \in DOMAIN heap'
              /\ heap[b].is_allocated => heap'[b].size = heap[b].size
<1> DEFINE a == header
           l == request
           p == allocated_addr(a, l)
           al == p - HEADER_SIZE
           pad == p + Rounded(l)
           e == end_addr(a)
           H == HEADER_SIZE
<1> USE HeapTypes
<1>1. a \in DOMAIN heap /\ l \in Layouts /\ Provides(a, l) /\ ~heap[a].is_allocated
  BY DEF IInv, TypeOK, AllocProvide, Provides
<1>2. /\ Rounded(l) \in Nat \ {0} /\ Rounded(l) >= l.size /\ l.size \in Nat
      /\ Rounded(l) % H = 0
  BY <1>1, RequestFacts DEF Provides
<1>3. /\ p \in Nat /\ p % l.align = 0 /\ p % H = 0
      /\ a + H <= al /\ pad <= e
      /\ pad # e => e - pad >= H
      /\ (e - pad) % H = 0 /\ (al - a) % H = 0
      /\ AssertRoomForSelf(a, l)
  BY <1>1, ProvideGeometry DEF IInv
<1>4. /\ heap' = Carve(a, l)
      /\ live' = live \cup {[ptr |-> p, layout |-> l]}
      /\ request' = NoLayout
      /\ UNCHANGED <<panicked, first_header, mmap_pos, header>>
  BY <1>3 DEF AllocProvide
<1>5. /\ DOMAIN heap' = DOMAIN heap \cup {al} \cup (IF pad # e THEN {pad} ELSE {})
      /\ al \notin DOMAIN heap
      /\ pad # e => pad \notin DOMAIN heap /\ pad # al
      /\ heap'[a] = [size |-> al - a, is_allocated |-> FALSE, next_header |-> al]
      /\ heap'[al] = [size |-> pad - al, is_allocated |-> TRUE,
                      next_header |-> IF pad # e THEN pad ELSE heap[a].next_header]
      /\ pad # e => heap'[pad] = [size |-> e - pad, is_allocated |-> FALSE,
                                  next_header |-> heap[a].next_header]
      /\ \A b \in DOMAIN heap \ {a} : heap'[b] = heap[b]
  BY <1>1, <1>4, CarveShape DEF IInv
<1>6. heap' = [b \in DOMAIN heap' |-> heap'[b]]
  BY <1>4 DEF Carve, CarveBefore
<1>7. /\ a \in Nat \ {0} /\ al \in Nat \ {0} /\ pad \in Nat \ {0} /\ e \in Nat
      /\ al + H = p /\ pad - al >= l.size + H /\ pad - al >= H /\ al - a >= H
      /\ e <= 2^WORD_BITS /\ e = a + heap[a].size
  <2>1. /\ a \in Nat \ {0} /\ e \in Nat /\ e <= 2^WORD_BITS /\ e = a + heap[a].size
        /\ H \in Nat \ {0}
    BY <1>1
  <2> HIDE DEF p, e, H, l
  <2> QED
    BY <1>2, <1>3, <2>1 DEF H
<1>8. al % H = 0 /\ pad % H = 0 /\ (pad - al) % H = 0
  <2>1. H % H = 0 /\ H \in Int /\ p \in Int /\ Rounded(l) \in Int /\ H \in Nat \ {0}
    BY <1>2, <1>3
  <2>2. al % H = 0 /\ pad % H = 0
    BY <1>2, <1>3, <2>1, ModSum, Zenon
  <2>3. al \in Int /\ pad \in Int
    BY <1>7
  <2> QED
    BY <2>1, <2>2, <2>3, ModSum, Zenon
<1>9. \A b \in DOMAIN heap \ {a} : (b < a => end_addr(b) <= a) /\ (a < b => e <= b)
  BY <1>1 DEF IInv, BlocksDisjoint
<1> HIDE DEF p, al, pad, e
<1>10. TypeOK'
  <2>1. DOMAIN heap' \subseteq Usize \ {NULL}
    <3>1. al \in Usize \ {NULL} /\ (pad # e => pad \in Usize \ {NULL})
      BY <1>2, <1>3, <1>7 DEF Usize, NULL
    <3> QED
      BY <1>5, <3>1 DEF IInv, TypeOK
  <2>2. \A b \in DOMAIN heap' :
          heap'[b] \in [size : Nat, is_allocated : BOOLEAN,
                        next_header : DOMAIN heap' \cup {NULL}]
    <3>1. heap[a].next_header \in DOMAIN heap' \cup {NULL}
      BY <1>1, <1>5
    <3>2. heap'[a] \in [size : Nat, is_allocated : BOOLEAN,
                        next_header : DOMAIN heap' \cup {NULL}]
      BY <1>5, <1>7
    <3>3. heap'[al] \in [size : Nat, is_allocated : BOOLEAN,
                        next_header : DOMAIN heap' \cup {NULL}]
      BY <1>5, <1>7, <3>1
    <3>4. pad # e => heap'[pad] \in [size : Nat, is_allocated : BOOLEAN,
                        next_header : DOMAIN heap' \cup {NULL}]
      <4> SUFFICES ASSUME pad # e
                   PROVE  heap'[pad] \in [size : Nat, is_allocated : BOOLEAN,
                                          next_header : DOMAIN heap' \cup {NULL}]
        OBVIOUS
      <4>1. e - pad \in Nat
        BY <1>3, <1>7
      <4>2. heap'[pad] = [size |-> e - pad, is_allocated |-> FALSE,
                          next_header |-> heap[a].next_header]
        BY <1>5
      <4> QED
        BY <3>1, <4>1, <4>2
    <3>5. \A b \in DOMAIN heap \ {a} :
            heap'[b] \in [size : Nat, is_allocated : BOOLEAN,
                          next_header : DOMAIN heap' \cup {NULL}]
      BY <1>5 DEF IInv, TypeOK
    <3> QED
      BY <1>5, <3>2, <3>3, <3>4, <3>5
  <2>3. heap' \in [DOMAIN heap' -> [size : Nat, is_allocated : BOOLEAN,
                                   next_header : DOMAIN heap' \cup {NULL}]]
    BY <1>6, <2>2
  <2>4. live' \subseteq [ptr : Nat, layout : Layouts]
    BY <1>1, <1>3, <1>4 DEF IInv, TypeOK
  <2> QED
    BY <1>4, <1>5, <2>1, <2>3, <2>4 DEF IInv, TypeOK
<1>11. HeadersFit'
  <2>1. \A b \in DOMAIN heap \ {a} :
          /\ b % H = 0 /\ b + heap'[b].size <= 2^WORD_BITS
          /\ heap'[b].size % H = 0 /\ heap'[b].size >= H
    BY <1>5 DEF IInv, HeadersFit, end_addr
  <2>2. /\ a % H = 0 /\ a + heap'[a].size <= 2^WORD_BITS
        /\ heap'[a].size % H = 0 /\ heap'[a].size >= H
    <3>1. a % H = 0 /\ heap'[a].size = al - a
      BY <1>1, <1>5 DEF IInv, HeadersFit
    <3> QED
      BY <1>3, <1>7, <3>1
  <2>3. /\ al % H = 0 /\ al + heap'[al].size <= 2^WORD_BITS
        /\ heap'[al].size % H = 0 /\ heap'[al].size >= H
    BY <1>3, <1>5, <1>7, <1>8
  <2>4. pad # e => /\ pad % H = 0 /\ pad + heap'[pad].size <= 2^WORD_BITS
                   /\ heap'[pad].size % H = 0 /\ heap'[pad].size >= H
    BY <1>3, <1>5, <1>7, <1>8
  <2> QED
    BY <1>5, <2>1, <2>2, <2>3, <2>4 DEF HeadersFit, end_addr
<1>12. BlocksDisjoint'
  <2>1. \A b, c \in DOMAIN heap \ {a} : b < c => b + heap'[b].size <= c
    BY <1>5 DEF IInv, BlocksDisjoint, end_addr
  <2>2. \A b \in DOMAIN heap \ {a} :
          /\ b \in Nat /\ heap'[b].size \in Nat
          /\ b < a => b + heap'[b].size <= a
          /\ a < b => e <= b
          /\ b # a
    BY <1>5, <1>9
  <2>3. /\ heap'[a].size = al - a /\ heap'[al].size = pad - al
        /\ pad # e => heap'[pad].size = e - pad
    BY <1>5
  <2> QED
    BY <1>3, <1>5, <1>7, <2>1, <2>2, <2>3 DEF BlocksDisjoint, end_addr
<1>13. BlocksCoverManaged'
  <2>1. ASSUME NEW x \in Usize
        PROVE  (\E b \in DOMAIN heap' : b <= x /\ x < b + heap'[b].size) <=>
               (\E b \in DOMAIN heap : b <= x /\ x < end_addr(b))
    <3>1. x \in Nat
      BY DEF Usize
    <3>2. ASSUME NEW b \in DOMAIN heap', b <= x, x < b + heap'[b].size
          PROVE  \E c \in DOMAIN heap : c <= x /\ x < end_addr(c)
      <4>1. CASE b \in DOMAIN heap \ {a}
        BY <1>5, <3>2, <4>1
      <4>2. CASE b \in {a, al} \/ (pad # e /\ b = pad)
        <5>1. a <= x /\ x < e
          BY <1>3, <1>5, <1>7, <3>1, <3>2, <4>2
        <5> QED
          BY <1>1, <5>1 DEF e
      <4> QED
        BY <1>5, <4>1, <4>2
    <3>3. ASSUME NEW c \in DOMAIN heap, c <= x, x < end_addr(c)
          PROVE  \E b \in DOMAIN heap' : b <= x /\ x < b + heap'[b].size
      <4>1. CASE c # a
        BY <1>5, <3>3, <4>1
      <4>2. CASE c = a
        <5>1. a <= x /\ x < e
          BY <3>3, <4>2 DEF e
        <5>2. CASE x < al
          BY <1>1, <1>5, <1>7, <3>1, <5>1, <5>2
        <5>3. CASE al <= x /\ x < pad
          BY <1>1, <1>5, <1>7, <3>1, <5>1, <5>3
        <5>4. CASE pad <= x
          BY <1>1, <1>5, <1>7, <3>1, <5>1, <5>4
        <5> QED
          BY <1>7, <3>1, <5>2, <5>3, <5>4
      <4> QED
        BY <4>1, <4>2
    <3> QED
      BY <3>2, <3>3
  <2>2. ASSUME NEW x PROVE Managed(x)' <=> Managed(x)
    BY <1>4 DEF Managed
  <2> QED
    BY <2>1, <2>2 DEF IInv, BlocksCoverManaged, end_addr
<1>14. LiveBacked'
  <2> DEFINE new == [ptr |-> p, layout |-> l]
  <2>1. new.ptr - H = al /\ new.ptr = p /\ new.layout = l
    BY <1>7 DEF al
  <2>2. \A m \in live : m.ptr - H \in DOMAIN heap \ {a}
    BY <1>1 DEF IInv, LiveBacked
  <2>3. \A m \in live : m.ptr \in Nat
    BY DEF IInv, TypeOK
  <2>4. ASSUME NEW m \in live'
        PROVE  /\ m.ptr % m.layout.align = 0
               /\ m.ptr - H \in DOMAIN heap'
               /\ heap'[m.ptr - H].is_allocated
               /\ heap'[m.ptr - H].size >= m.layout.size + H
    <3>1. CASE m \in live
      BY <1>5, <2>2, <3>1 DEF IInv, LiveBacked
    <3>2. CASE m = new
      BY <1>3, <1>5, <1>7, <2>1, <3>2
    <3> QED
      BY <1>4, <3>1, <3>2
  <2>5. \A m \in live : m.ptr # p
    BY <1>5, <2>1, <2>2
  <2>6. ASSUME NEW m \in live', NEW n \in live', m.ptr = n.ptr
        PROVE  m = n
    BY <1>4, <2>1, <2>5, <2>6 DEF IInv, LiveBacked
  <2>7. ASSUME NEW b \in DOMAIN heap', heap'[b].is_allocated
        PROVE  \E m \in live' : m.ptr = b + H
    <3>1. CASE b \in DOMAIN heap \ {a}
      BY <1>4, <1>5, <2>7, <3>1 DEF IInv, LiveBacked
    <3>2. CASE b = al
      BY <1>4, <1>7, <2>1, <3>2
    <3> QED
      BY <1>5, <2>7, <3>1, <3>2
  <2> QED
    BY <2>4, <2>6, <2>7 DEF LiveBacked
<1>15. HeadersListed'
  <2>1. SUFFICES ASSUME NEW S \in SUBSET DOMAIN heap',
                        first_header' \in S \cup {NULL},
                        \A b \in S : heap'[b].next_header \in S \cup {NULL}
                 PROVE  S = DOMAIN heap'
    BY DEF HeadersListed
  <2> DEFINE T == S \cap DOMAIN heap
  <2>2. al # NULL /\ pad # NULL
    BY <1>7 DEF NULL
  <2>3. a \in S => al \in S /\ (pad # e => pad \in S) /\ heap[a].next_header \in S \cup {NULL}
    <3>1. a \in S => al \in S
      BY <1>5, <2>1, <2>2
    <3>2. al \in S /\ pad # e => pad \in S /\ heap[a].next_header \in S \cup {NULL}
      BY <1>5, <2>1, <2>2
    <3>3. al \in S /\ pad = e => heap[a].next_header \in S \cup {NULL}
      BY <1>5, <2>1
    <3> QED
      BY <3>1, <3>2, <3>3
  <2>4. first_header \in T \cup {NULL}
    BY <1>4, <2>1 DEF IInv, TypeOK
  <2>5. \A b \in T : heap[b].next_header \in T \cup {NULL}
    BY <1>5, <2>1, <2>3
  <2>6. T = DOMAIN heap
    BY <2>4, <2>5 DEF IInv, HeadersListed
  <2> QED
    BY <1>1, <1>5, <2>3, <2>6
<1>16. NoPanic'
  BY <1>4 DEF IInv, NoPanic
<1>17. IInv'
  BY <1>10, <1>11, <1>12, <1>13, <1>14, <1>15, <1>16 DEF IInv
<1>18. ASSUME NEW b \in DOMAIN heap
       PROVE  b \in DOMAIN heap' /\ (heap[b].is_allocated => heap'[b].size = heap[b].size)
  BY <1>1, <1>5
<1> QED
  BY <1>17, <1>18

\* A free: only the flag of the freed block changes.
LEMMA DeallocStep ==
  ASSUME IInv, NEW m \in live, dealloc(m)
  PROVE  IInv'
<1> DEFINE a == m.ptr - HEADER_SIZE
<1> USE HeapTypes
<1>1. a \in DOMAIN heap /\ m.ptr \in Nat
  BY DEF IInv, LiveBacked, TypeOK
<1>2. /\ heap' = [heap EXCEPT ![a].is_allocated = FALSE]
      /\ live' = live \ {m}
      /\ UNCHANGED <<first_header, mmap_pos, request, header, panicked>>
  BY DEF dealloc
<1>3. /\ DOMAIN heap' = DOMAIN heap
      /\ \A b \in DOMAIN heap :
           /\ heap'[b].size = heap[b].size
           /\ heap'[b].next_header = heap[b].next_header
           /\ heap'[b].is_allocated = IF b = a THEN FALSE ELSE heap[b].is_allocated
  BY <1>1, <1>2 DEF IInv, TypeOK
<1>4. TypeOK'
  BY <1>1, <1>2 DEF IInv, TypeOK
<1>5. HeadersFit' /\ BlocksDisjoint'
  BY <1>3 DEF IInv, HeadersFit, BlocksDisjoint, end_addr
<1>6. BlocksCoverManaged'
  BY <1>2, <1>3 DEF IInv, BlocksCoverManaged, Managed, end_addr
<1>7. LiveBacked'
  <2>1. \A n \in live' : n.ptr - HEADER_SIZE # a
    <3>1. \A n \in live : n.ptr \in Nat /\ (n.ptr = m.ptr => n = m)
      BY DEF IInv, TypeOK, LiveBacked
    <3> QED
      BY <1>1, <1>2, <3>1
  <2>2. ASSUME NEW b \in DOMAIN heap', heap'[b].is_allocated
        PROVE  \E n \in live' : n.ptr = b + HEADER_SIZE
    <3>1. b # a /\ heap[b].is_allocated
      BY <1>3, <2>2
    <3>2. PICK n \in live : n.ptr = b + HEADER_SIZE
      BY <1>3, <3>1 DEF IInv, LiveBacked
    <3>3. n # m
      BY <1>1, <1>3, <3>1, <3>2
    <3> QED
      BY <1>2, <3>2, <3>3
  <2> QED
    BY <1>2, <1>3, <2>1, <2>2 DEF IInv, LiveBacked
<1>8. HeadersListed' /\ NoPanic'
  BY <1>2, <1>3 DEF IInv, HeadersListed, NoPanic
<1> QED
  BY <1>4, <1>5, <1>6, <1>7, <1>8 DEF IInv

\* The steps that only move a call along the list, and stuttering.
LEMMA WalkStep ==
  ASSUME IInv,
         \/ \E layout \in Layouts : alloc_with_options(layout)
         \/ AllocNextHeader
         \/ AllocReturnNull
         \/ UNCHANGED vars
  PROVE  IInv'
<1>1. UNCHANGED <<first_header, heap, mmap_pos, live, panicked>>
  BY DEF alloc_with_options, AllocNextHeader, AllocReturnNull, vars
<1>2. request' \in Layouts \cup {NoLayout} /\ header' \in DOMAIN heap \cup {NULL}
  <2>1. ASSUME NEW layout \in Layouts, alloc_with_options(layout)
        PROVE  request' \in Layouts \cup {NoLayout} /\ header' \in DOMAIN heap \cup {NULL}
    BY <2>1 DEF alloc_with_options, IInv, TypeOK
  <2>2. CASE AllocNextHeader
    BY <2>2, HeapTypes DEF AllocNextHeader, IInv, TypeOK
  <2>3. CASE AllocReturnNull
    BY <2>3 DEF AllocReturnNull, IInv, TypeOK
  <2>4. CASE UNCHANGED vars
    BY <2>4 DEF vars, IInv, TypeOK
  <2> QED
    BY <2>1, <2>2, <2>3, <2>4
<1> QED
  BY <1>1, <1>2 DEF IInv, TypeOK, HeadersFit, BlocksDisjoint, BlocksCoverManaged, Managed,
                    LiveBacked, HeadersListed, NoPanic, end_addr

\* Every step of the kernel keeps the inductive invariant.
LEMMA NextIInv == IInv /\ [Next]_vars => IInv'
<1> SUFFICES ASSUME IInv, [Next]_vars PROVE IInv'
  OBVIOUS
<1>1. CASE add_free_from_descriptor
  BY <1>1, AddFreeStep
<1>2. CASE AllocProvide
  BY <1>2, ProvideStep
<1>3. CASE \E m \in live : dealloc(m)
  BY <1>3, DeallocStep
<1>4. CASE \/ \E layout \in Layouts : alloc_with_options(layout)
           \/ AllocNextHeader
           \/ AllocReturnNull
           \/ UNCHANGED vars
  BY <1>4, WalkStep
<1> QED
  BY <1>1, <1>2, <1>3, <1>4 DEF Next, AllocStep

-----------------------------------------------------------------------------
(* The theorems.                                                           *)

\* The inductive invariant holds in every state the kernel reaches.
LEMMA SpecIInv == Spec => []IInv
<1>1. Init => IInv
  BY InitIInv
<1>2. IInv /\ [Next]_vars => IInv'
  BY NextIInv
<1> QED
  BY <1>1, <1>2, PTL DEF Spec

\* Type correctness of the heap: every link of the list is a Header or None,
\* for every memory map.
THEOREM TypeCorrect == Spec => []TypeOK
<1>1. IInv => TypeOK
  BY DEF IInv
<1> QED
  BY <1>1, SpecIInv, PTL

\* The list of Headers partitions the managed memory: Header::provide splits
\* and add_free_from_descriptor adds without overlap, gap or loss, and every
\* Header fits into its block and stays on the list.
THEOREM HeapPartition == Spec => []HeapIsPartition
<1>1. IInv => HeapIsPartition
  BY DEF IInv, HeapIsPartition
<1> QED
  BY <1>1, SpecIInv, PTL

\* The assert! in Header::provide never fails: the rough check of can_provide
\* leaves room for the Header of self, whatever the Layout and the block.
THEOREM AssertNeverFails == Spec => []NoPanic
<1>1. IInv => NoPanic
  BY DEF IInv
<1> QED
  BY <1>1, SpecIInv, PTL

\* What alloc returned stays the client's until it is freed: aligned, backed
\* by a block of its own that is marked allocated and large enough.
THEOREM ClientsOwnTheirBlocks == Spec => []LiveBacked
<1>1. IInv => LiveBacked
  BY DEF IInv
<1> QED
  BY <1>1, SpecIInv, PTL

\* Two live objects never share a byte, and no Header lies in one, so that
\* writes of clients and of the heap never damage each other.
THEOREM ObjectsNeverOverlap == Spec => []LiveObjectsIntact
<1>1. ASSUME IInv PROVE LiveObjectsIntact
  <2> USE HeapTypes
  <2>1. ASSUME NEW m \in live
        PROVE  /\ m.ptr \in Nat /\ m.layout.size \in Nat
               /\ m.ptr - HEADER_SIZE \in DOMAIN heap
               /\ heap[m.ptr - HEADER_SIZE].size >= m.layout.size + HEADER_SIZE
    <3>1. m.ptr \in Nat /\ m.layout \in Layouts
      BY <1>1 DEF IInv, TypeOK
    <3>2. m.layout.size \in Usize
      BY <3>1, LayoutAssumption
    <3> QED
      BY <1>1, <3>1, <3>2 DEF IInv, LiveBacked, Usize
  <2>2. ASSUME NEW m \in live, NEW a \in DOMAIN heap
        PROVE  a + HEADER_SIZE <= m.ptr \/ m.ptr + m.layout.size <= a
    <3> DEFINE h == m.ptr - HEADER_SIZE
    <3>1. h \in DOMAIN heap /\ end_addr(h) >= m.ptr + m.layout.size
      BY <1>1, <2>1
    <3>2. CASE a < h
      BY <1>1, <2>1, <3>1, <3>2 DEF IInv, BlocksDisjoint
    <3>3. CASE a = h
      BY <1>1, <2>1, <3>3
    <3>4. CASE h < a
      BY <1>1, <2>1, <3>1, <3>4 DEF IInv, BlocksDisjoint
    <3> QED
      BY <1>1, <3>1, <3>2, <3>3, <3>4
  <2>3. ASSUME NEW m \in live, NEW n \in live, m # n
        PROVE  m.ptr + m.layout.size <= n.ptr \/ n.ptr + n.layout.size <= m.ptr
    <3> DEFINE hm == m.ptr - HEADER_SIZE
               hn == n.ptr - HEADER_SIZE
    <3>1. m.ptr # n.ptr
      BY <1>1, <2>3 DEF IInv, LiveBacked
    <3>2. /\ hm \in DOMAIN heap /\ end_addr(hm) >= m.ptr + m.layout.size
          /\ hn \in DOMAIN heap /\ end_addr(hn) >= n.ptr + n.layout.size
      BY <1>1, <2>1
    <3>3. hm < hn => end_addr(hm) <= hn
      BY <1>1, <3>2 DEF IInv, BlocksDisjoint
    <3>4. hn < hm => end_addr(hn) <= hm
      BY <1>1, <3>2 DEF IInv, BlocksDisjoint
    <3> QED
      BY <1>1, <2>1, <3>1, <3>2, <3>3, <3>4
  <2> QED
    BY <2>2, <2>3 DEF LiveObjectsIntact
<1> QED
  BY <1>1, SpecIInv, PTL

\* What a step leaves of a block: its Header, and its size while it is held.
Kept ==
  \A a \in DOMAIN heap :
    /\ a \in DOMAIN heap'
    /\ heap[a].is_allocated => heap'[a].size = heap[a].size

LEMMA KeptStep ==
  ASSUME IInv, [Next]_vars
  PROVE  Kept
<1> USE DEF Kept
<1> USE HeapTypes
<1>1. CASE add_free_from_descriptor
  <2>1. CASE IsKept(MemoryMap[mmap_pos])
    <3>1. mmap_pos \in 1..Len(MemoryMap)
      BY <1>1, MapLength DEF add_free_from_descriptor, IInv, TypeOK
    <3>2. \A b \in DOMAIN heap : free_start(MemoryMap[mmap_pos]) # b
      BY <2>1, <3>1, NewBlockApart
    <3> QED
      BY <1>1, <2>1, <3>2 DEF add_free_from_descriptor
  <2>2. CASE ~IsKept(MemoryMap[mmap_pos])
    BY <1>1, <2>2 DEF add_free_from_descriptor
  <2> QED
    BY <2>1, <2>2
<1>2. CASE AllocProvide
  BY <1>2, ProvideStep
<1>3. ASSUME NEW m \in live, dealloc(m) PROVE Kept
  BY <1>3 DEF dealloc
<1>4. CASE \/ \E layout \in Layouts : alloc_with_options(layout)
           \/ AllocNextHeader
           \/ AllocReturnNull
  BY <1>4 DEF alloc_with_options, AllocNextHeader, AllocReturnNull
<1>5. CASE UNCHANGED vars
  BY <1>5 DEF vars
<1> QED
  BY <1>1, <1>2, <1>3, <1>4, <1>5 DEF Next, AllocStep

\* No step removes a Header or resizes a block a client holds.
THEOREM HeldBlocksKept == Spec => HeldBlocksStable
<1>1. IInv /\ [Next]_vars => [Kept]_vars
  BY KeptStep
<1> QED
  BY <1>1, SpecIInv, PTL DEF Spec, HeldBlocksStable, Kept

-----------------------------------------------------------------------------
(* Rounding.                                                               *)

\* round_up_to_nearest_pow2 of what is not 0 is 2 to the bits of v - 1.
LEMMA RoundUpValue ==
  ASSUME NEW v \in Usize
  PROVE  LET x == IF v = 0 THEN 2^WORD_BITS - 1 ELSE v - 1
         IN  /\ x \in Nat /\ x < 2^WORD_BITS
             /\ round_up_to_nearest_pow2(v) =
                  IF BitLength(x) < WORD_BITS THEN 2^BitLength(x) ELSE OutOfRange
<1> DEFINE w == 2^WORD_BITS
           x == IF v = 0 THEN w - 1 ELSE v - 1
<1>1. w \in Nat \ {0}
  BY Pow2Arithmetic, WordAssumption
<1>2. v \in 0..(w - 1)
  BY DEF Usize
<1>3. round_up_to_nearest_pow2(v) =
        IF BitLength((v - 1) % w) < WORD_BITS THEN 2^BitLength((v - 1) % w) ELSE OutOfRange
  BY DEF round_up_to_nearest_pow2
<1> HIDE DEF w
<1>4. (v - 1) % w = x /\ x \in Nat /\ x < w
  BY <1>1, <1>2
<1> HIDE DEF x
<1> QED
  BY <1>3, <1>4 DEF w, x

\* The code agrees with its reference on every usize.
LEMMA RoundUpIsReference ==
  ASSUME NEW v \in Usize
  PROVE  round_up_to_nearest_pow2(v) = NearestPow2(v)
<1> DEFINE x == IF v = 0 THEN 2^WORD_BITS - 1 ELSE v - 1
           b == BitLength(x)
<1>1. /\ x \in Nat /\ x < 2^WORD_BITS
      /\ round_up_to_nearest_pow2(v) = IF b < WORD_BITS THEN 2^b ELSE OutOfRange
  BY RoundUpValue
<1>2. b \in 0..WORD_BITS /\ (b < WORD_BITS => x < 2^b)
  BY <1>1, BitLengthBound
<1>3. \A i \in 0..(WORD_BITS - 1) : x < 2^i => b <= i
  BY <1>1, BitLengthLeast
<1>4. v \in Nat /\ (v # 0 => x = v - 1)
  BY DEF Usize
<1> HIDE DEF b
<1>5. CASE v = 0
  <2>1. ASSUME b < WORD_BITS PROVE FALSE
    <3> DEFINE p == 2^b
               w == 2^WORD_BITS
    <3>1. p \in Nat /\ w \in Nat /\ p < w /\ x = w - 1 /\ x < p
      BY <1>2, <1>5, <2>1, WordAssumption, Pow2Arithmetic
    <3> HIDE DEF p, w
    <3> QED
      BY <3>1
  <2> QED
    BY <1>1, <1>2, <1>5, <2>1, WordAssumption DEF NearestPow2
<1> HIDE DEF x
<1>6. ASSUME v # 0, NEW q \in PowersOfTwo, q >= v
      PROVE  b < WORD_BITS /\ 2^b <= q
  <2>1. PICK i \in 0..(WORD_BITS - 1) : q = 2^i
    BY <1>6 DEF PowersOfTwo
  <2>2. q \in Nat
    BY Pow2Positive
  <2>3. x < q
    BY <1>1, <1>4, <1>6, <2>2
  <2>4. b <= i
    BY <1>3, <2>1, <2>3
  <2>5. i \in 0..WORD_BITS /\ b < WORD_BITS
    BY <1>2, <2>4, WordAssumption
  <2> QED
    BY <1>2, <2>1, <2>4, <2>5, Pow2Mono
<1>7. CASE v # 0 /\ b < WORD_BITS
  <2> DEFINE r == 2^b
  <2>1. r \in PowersOfTwo
    BY <1>2, <1>7, WordAssumption DEF PowersOfTwo
  <2>2. r \in Nat /\ x < r
    BY <1>2, <1>7, <2>1, Pow2Positive
  <2>3. \A q \in PowersOfTwo : q >= v => r <= q
    BY <1>6, <1>7
  <2>4. round_up_to_nearest_pow2(v) = r
    BY <1>1, <1>7
  <2> HIDE DEF r
  <2>5. r >= v
    BY <1>1, <1>4, <1>7, <2>2
  <2>6. ~(\A p \in PowersOfTwo : p < v)
    BY <1>4, <2>1, <2>2, <2>5
  <2>7. \A p \in PowersOfTwo : (p >= v /\ \A q \in PowersOfTwo : q >= v => p <= q) => p = r
    <3>1. \A p \in PowersOfTwo : p \in Nat
      BY Pow2Positive
    <3> QED
      BY <2>1, <2>2, <2>3, <2>5, <3>1
  <2>8. r = CHOOSE p \in PowersOfTwo : p >= v /\ \A q \in PowersOfTwo : q >= v => p <= q
    BY <2>1, <2>3, <2>5, <2>7
  <2> QED
    BY <1>7, <2>4, <2>6, <2>8 DEF NearestPow2
<1>8. CASE v # 0 /\ ~(b < WORD_BITS)
  <2>1. \A p \in PowersOfTwo : p < v
    <3>1. \A p \in PowersOfTwo : p \in Nat
      BY Pow2Positive
    <3> QED
      BY <1>4, <1>6, <1>8, <3>1
  <2> QED
    BY <1>1, <1>8, <2>1 DEF NearestPow2
<1> QED
  BY <1>5, <1>7, <1>8

\* provide writes the Header of the object.
LEMMA CarvedSize ==
  ASSUME NEW a, NEW l, allocated_addr(a, l) - HEADER_SIZE # a,
         allocated_addr(a, l) - HEADER_SIZE # allocated_addr(a, l) + Rounded(l)
  PROVE  Carve(a, l)[allocated_addr(a, l) - HEADER_SIZE].size = Rounded(l) + HEADER_SIZE
<1> DEFINE al == allocated_addr(a, l) - HEADER_SIZE
           pad == allocated_addr(a, l) + Rounded(l)
           hasPad == pad # end_addr(a)
           D == DOMAIN heap \cup {al} \cup (IF hasPad THEN {pad} ELSE {})
           F(b) ==
             CASE b = a -> [size |-> heap[a].size - (end_addr(a) - al), is_allocated |-> FALSE,
                            next_header |-> al]
               [] b = al ->
                           [size |-> Rounded(l) + HEADER_SIZE, is_allocated |-> TRUE,
                            next_header |-> IF hasPad THEN pad ELSE heap[a].next_header]
               [] hasPad /\ b = pad ->
                           [size |-> end_addr(a) - pad, is_allocated |-> FALSE,
                            next_header |-> heap[a].next_header]
               [] OTHER -> heap[b]
<1>1. Carve(a, l) = [b \in D |-> F(b)]
  BY DEF Carve, CarveBefore
<1>2. al \in D /\ al # a /\ al # pad
  OBVIOUS
<1> HIDE DEF D, al, pad, hasPad
<1>3. Carve(a, l)[al] = F(al)
  BY <1>1, <1>2
<1>4. F(al) = [size |-> Rounded(l) + HEADER_SIZE, is_allocated |-> TRUE,
               next_header |-> IF hasPad THEN pad ELSE heap[a].next_header]
  BY <1>2
<1> QED
  BY <1>3, <1>4 DEF al

\* The block of an object has the size that provide asked for.
BlockSizes == \A m \in live : heap[m.ptr - HEADER_SIZE].size = Rounded(m.layout) + HEADER_SIZE

LEMMA BlockSizesStep ==
  ASSUME IInv, BlockSizes, [Next]_vars
  PROVE  BlockSizes'
<1> USE HeapTypes
<1>1. \A m \in live : heap'[m.ptr - HEADER_SIZE].size = heap[m.ptr - HEADER_SIZE].size
  BY KeptStep DEF Kept, IInv, LiveBacked
<1>2. CASE AllocProvide
  <2> DEFINE a == header
             l == request
             p == allocated_addr(a, l)
             al == p - HEADER_SIZE
  <2>1. a \in DOMAIN heap /\ l \in Layouts /\ Provides(a, l)
    BY <1>2 DEF IInv, TypeOK, AllocProvide
  <2>2. AssertRoomForSelf(a, l) /\ p \in Nat /\ Rounded(l) \in Nat /\ HEADER_SIZE \in Nat
    BY <2>1, ProvideGeometry, RequestFacts DEF IInv, Provides
  <2>3. heap' = Carve(a, l) /\ live' = live \cup {[ptr |-> p, layout |-> l]}
    BY <1>2, <2>2 DEF AllocProvide
  <2>4. heap'[al].size = Rounded(l) + HEADER_SIZE
    <3>1. a + HEADER_SIZE <= al /\ a \in Nat /\ HEADER_SIZE \in Nat \ {0}
      BY <2>1, ProvideGeometry, RequestFacts DEF IInv, Provides
    <3>2. al # a /\ al # p + Rounded(l)
      BY <2>2, <3>1
    <3> QED
      BY <2>3, <3>2, CarvedSize
  <2> HIDE DEF a, l, p
  <2> QED
    BY <1>1, <2>3, <2>4 DEF BlockSizes, Rounded
<1>3. CASE live' \subseteq live
  BY <1>1, <1>3 DEF BlockSizes, Rounded
<1> QED
  BY <1>2, <1>3 DEF Next, AllocStep, vars, add_free_from_descriptor, alloc_with_options,
                    AllocNextHeader, AllocReturnNull, dealloc

\* round_up_to_nearest_pow2 is the nearest power of two for every word size, at
\* 0 and at the overflow too, and the block that provide makes has that size.
THEOREM RoundsToNearestPow2 == Spec => []RoundUpIsNearestPow2
<1>1. Init => BlockSizes
  BY DEF Init, BlockSizes
<1>2. IInv /\ BlockSizes /\ [Next]_vars => BlockSizes'
  BY BlockSizesStep
<1>3. IInv /\ BlockSizes => RoundUpIsNearestPow2
  <2>1. \A v \in Usize : round_up_to_nearest_pow2(v) = NearestPow2(v)
    BY RoundUpIsReference
  <2>2. ASSUME IInv, BlockSizes, NEW m \in live
        PROVE  heap[m.ptr - HEADER_SIZE].size = Max(NearestPow2(m.layout.size), HEADER_SIZE) + HEADER_SIZE
    <3>1. m.layout \in Layouts
      BY <2>2 DEF IInv, TypeOK
    <3>2. m.layout.size \in Usize
      BY <3>1, LayoutAssumption
    <3>3. round_up_to_nearest_pow2(m.layout.size) = NearestPow2(m.layout.size)
      BY <2>1, <3>2
    <3> QED
      BY <2>2, <3>3 DEF BlockSizes, Rounded
  <2> QED
    BY <2>1, <2>2 DEF RoundUpIsNearestPow2
<1> QED
  BY <1>1, <1>2, <1>3, SpecIInv, PTL DEF Spec
=============================================================================
