-------------------------------- MODULE Bits --------------------------------
(***************************************************************************)
(* Words as sets of the positions of their 1 bits (bits.rs, volatile.rs).  *)
(* So a word of 64 bits is exact, & is intersection, | is union and & !m   *)
(* is difference.                                                          *)
(***************************************************************************)
EXTENDS Integers, FiniteSets, FiniteSetsExt

Mask(width) == 0..(width - 1)
Shl(word, n, size) == { b + n : b \in word } \cap Mask(size)
Shr(word, n) == { b - n : b \in { c \in word : c >= n } }
Bin(n) == { b \in 0..30 : (n \div 2^b) % 2 = 1 }
Num(word) == SumSet({ 2^b : b \in word })

\* Binary notation of the numbers that the kernel puts into registers and tables, which
\* the provers know nothing about.  It depends on no constant: TLC's evaluation of
\* it is complete.
ASSUME BinaryNotation ==
  /\ \A n \in 0..1023 :
       /\ Num(Bin(n)) = n
       /\ Bin(n) = Shl(Bin(n \div 32), 5, 32) \cup Bin(n % 32)
       /\ Bin(n) \subseteq 0..9
  /\ \A n \in 0..255 : Bin(n) \subseteq 0..7
  /\ \A n \in 0..31 : Bin(n) \subseteq 0..4
  /\ Bin(1) = {0} /\ Bin(2) = {1} /\ Bin(3) = {0, 1} /\ Bin(4) = {2}
  /\ Bin(8) = {3} /\ Bin(14) = {1, 2, 3}

\* 1 + !word: the bits above the lowest 1 are inverted; 1 + !0 wraps to 0.
Negate(word) ==
  IF word = {} THEN {}
  ELSE LET low == Min(word) IN {low} \cup ((low + 1)..63 \ word)

\* checked_shr gives 0 for a shift past the word; the mask has at most 63 bits.
extract_bits(value, shift, width) == Shr(value, shift) \cap Mask(Min({63, width}))

\* Volatile::read_bits
read_bits(word, shift, width) == Shr(word, shift) \cap Mask(width)

\* Volatile::write_bits on a word of `size` bits.  A value that does not fit is
\* refused; every caller's fits.
write_bits(word, size, shift, width, value) ==
  Shl(value, shift, size) \cup (word \ Shl(Mask(width), shift, size))
=============================================================================
