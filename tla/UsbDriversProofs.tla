-------------------------- MODULE UsbDriversProofs --------------------------
(***************************************************************************)
(* What the USB drivers make of descriptors and reports, for every answer  *)
(* a device may give, every set of keys and every number of slots:         *)
(* a well formed answer is parsed as it is and never panics the kernel,    *)
(* what pick_interface_with_triple picks belongs together, and the key     *)
(* events add up to the keys of the last report.                           *)
(*                                                                         *)
(* IInv has one part per stage: ParseType and CollectState for the         *)
(* iterator, LoopState for the loop over the Vec, KeyState for the         *)
(* keyboard's reports.                                                     *)
(***************************************************************************)
EXTENDS UsbDrivers, FiniteSetTheorems, FunctionTheorems, SequenceTheorems,
        NaturalsInduction, WellFoundedInduction, TLAPS

Parsed == [at : Nat, type : Byte, fields : Seq(Byte)]

ParseType ==
  /\ buf \in Seq(Byte)
  /\ index \in Nat
  /\ descriptors \in Seq(Parsed)
  /\ row # None => row \in Rows /\ buf = FlattenSeq(row)

\* Where the k-th descriptor of a row ends in the answer.
EndOf(r, k) == Len(FlattenSeq(SubSeq(r, 1, k)))

\* The iterator stands at the end of a descriptor and has given those before.
CollectState ==
  row # None =>
    /\ Len(descriptors) <= Len(row)
    /\ \A k \in 1..Len(descriptors) :
         /\ descriptors[k].type = row[k][2]
         /\ descriptors[k].fields = SubSeq(row[k], 3, SizeOf(row[k][2]))
    /\ pc = "collect" => index = EndOf(row, Len(descriptors))
    /\ pc # "collect" => Len(descriptors) = Len(row) /\ pc # "panic"

IsMatch(k) == descriptors[k].type = Interface /\ triple(descriptors[k]) = wanted

\* After `next` descriptors: c is the configuration read last (0: none yet),
\* no interface before it matched, the last one that did is `interface`, and
\* the endpoints are the ones since then.
PickedSince(c) ==
  /\ next \in c..Len(descriptors)
  /\ IF c = 0 THEN config = None
              ELSE descriptors[c].type = Config /\ config = descriptors[c]
  /\ \A k \in (c + 1)..next : descriptors[k].type # Config
  /\ \A k \in 1..c : ~IsMatch(k)
  /\ interface = None => \A k \in 1..next : ~IsMatch(k)
  /\ interface # None =>
       \E m \in (c + 1)..next :
         /\ IsMatch(m) /\ interface = descriptors[m]
         /\ \A k \in (m + 1)..next : ~IsMatch(k)
  /\ ep_list \in Seq(Parsed)
  /\ ToSet(ep_list) =
       { descriptors[k] : k \in { j \in (c + 1)..next : descriptors[j].type = Endpoint } }

\* The loop is over.
PickDone ==
  \/ next = Len(descriptors)
  \/ next < Len(descriptors) /\ Current.type = Config /\ interface # None

LoopState ==
  /\ pc = "collect" => next = 0 /\ config = None /\ interface = None /\ ep_list = << >>
  /\ pc = "pick" => \E c \in Nat : PickedSince(c)
  /\ pc = "found" => PickDone /\ interface # None /\ \E c \in Nat : c # 0 /\ PickedSince(c)
  /\ pc = "not found" => PickDone /\ \E c \in Nat : (c = 0 \/ interface = None) /\ PickedSince(c)

KeyOrRollOver == Keys \cup {RollOver}
EventsOf(keys) == { from_usb_key_id(k) : k \in keys }

\* The keys whose differences have been shown are as in the new report, the
\* others as in the one before.
Followed ==
  { k \in pressed \cup prev_pressed : IF k \in diff THEN k \in prev_pressed ELSE k \in pressed }

KeyState ==
  /\ held \subseteq Keys
  /\ pressed \subseteq KeyOrRollOver
  /\ prev_pressed \subseteq KeyOrRollOver
  /\ wanted = KeyboardTriple /\ pc \in {"collect", "pick", "found"} =>
       prev_pressed = {} /\ shown = {} /\ reported = {}
  /\ pc = "report" => shown = EventsOf(prev_pressed) /\ prev_pressed = Told(reported)
  /\ pc = "events" =>
       /\ pressed = Told(reported)
       /\ diff \subseteq SymmetricDifference(pressed, prev_pressed)
       /\ shown = EventsOf(Followed)

IInv == ParseType /\ CollectState /\ LoopState /\ KeyState

-----------------------------------------------------------------------------
(* The answer.  FlattenSeq is defined by recursion; what it gives is shown *)
(* by looking at the least place where it would give something else.       *)

\* A set of naturals that is not empty has a least element.
LEMMA LeastNat ==
  ASSUME NEW T \in SUBSET Nat, T # {}
  PROVE  \E x \in T : \A y \in T : x <= y
<1> DEFINE R == OpToRel(<, Nat)
<1>1. \E x \in T : \A y \in T : ~(<<y, x>> \in R)
  BY NatLessThanWellFounded, WFMin
<1>2. \A x, y \in Nat : <<y, x>> \in R <=> y < x
  BY Zenon DEF OpToRel
<1> HIDE DEF R
<1>3. \E x \in T : \A y \in T : ~(y < x)
  BY <1>1, <1>2, Zenon
<1> QED
  BY <1>3

\* f gives the concatenation of the first i elements of s, for i up to n.
Flattens(f, s, n) == f = [i \in 1..n |-> IF i = 1 THEN s[i] ELSE f[i - 1] \o s[i]]

\* The concatenations of the beginnings of a sequence exist.
LEMMA FlattenExists ==
  ASSUME NEW s, NEW n \in Nat
  PROVE  \E f : Flattens(f, s, n)
<1> DEFINE T == { k \in Nat : ~\E f : Flattens(f, s, k) }
<1>1. SUFFICES ASSUME T # {} PROVE FALSE
  OBVIOUS
<1>2. PICK k \in T : \A j \in T : k <= j
  <2>1. T \in SUBSET Nat
    OBVIOUS
  <2> HIDE DEF T
  <2> QED
    BY <1>1, <2>1, LeastNat
<1>3. k \in Nat /\ ~\E f : Flattens(f, s, k)
  OBVIOUS
<1>4. k # 0
  <2>1. ASSUME k = 0 PROVE FALSE
    <3> DEFINE f == [i \in 1..0 |-> 0]
    <3>1. f = [i \in 1..0 |-> IF i = 1 THEN s[i] ELSE f[i - 1] \o s[i]]
      OBVIOUS
    <3> HIDE DEF f
    <3> QED
      BY <1>3, <2>1, <3>1 DEF Flattens
  <2> QED
    BY <2>1
<1>5. k - 1 \in Nat /\ ~(k <= k - 1)
  BY <1>3, <1>4
<1>6. PICK g : Flattens(g, s, k - 1)
  BY <1>2, <1>5
<1> DEFINE f == [i \in 1..k |-> IF i = 1 THEN s[i] ELSE g[i - 1] \o s[i]]
<1>7. \A i \in 1..(k - 1) : f[i] = g[i]
  <2>1. \A i \in 1..(k - 1) : i \in 1..k
    BY <1>3
  <2>2. \A i \in 1..(k - 1) : g[i] = IF i = 1 THEN s[i] ELSE g[i - 1] \o s[i]
    BY <1>6 DEF Flattens
  <2> QED
    BY <2>1, <2>2
<1>8. \A i \in 1..k : i # 1 => i - 1 \in 1..(k - 1)
  BY <1>3
<1>9. f = [i \in 1..k |-> IF i = 1 THEN s[i] ELSE f[i - 1] \o s[i]]
  <2>1. \A i \in 1..k : (IF i = 1 THEN s[i] ELSE g[i - 1] \o s[i])
                         = (IF i = 1 THEN s[i] ELSE f[i - 1] \o s[i])
    BY <1>7, <1>8, Zenon
  <2> QED
    BY <2>1, Zenon
<1> HIDE DEF f
<1> QED
  BY <1>3, <1>9 DEF Flattens

\* FlattenSeq gives the last of them.
LEMMA FlattenIsLast ==
  ASSUME NEW s, Len(s) \in Nat, Len(s) # 0
  PROVE  \E f : Flattens(f, s, Len(s)) /\ FlattenSeq(s) = f[Len(s)]
<1> DEFINE F == CHOOSE f : f = [i \in 1..Len(s) |-> IF i = 1 THEN s[i] ELSE f[i - 1] \o s[i]]
<1>1. F = [i \in 1..Len(s) |-> IF i = 1 THEN s[i] ELSE F[i - 1] \o s[i]]
  <2>1. \E f : f = [i \in 1..Len(s) |-> IF i = 1 THEN s[i] ELSE f[i - 1] \o s[i]]
    BY FlattenExists DEF Flattens
  <2> QED
    BY <2>1, Zenon
<1>2. FlattenSeq(s) = F[Len(s)]
  BY Zenon DEF FlattenSeq
<1> HIDE DEF F
<1> QED
  BY <1>1, <1>2 DEF Flattens
\* Each is a sequence of bytes, longer than the one before by its descriptor.
LEMMA FlattenStep ==
  ASSUME NEW s \in Seq(Seq(Byte)), NEW n \in Nat, n <= Len(s), NEW f, Flattens(f, s, n)
  PROVE  \A k \in 1..n :
           /\ s[k] \in Seq(Byte) /\ f[k] \in Seq(Byte)
           /\ f[k] = IF k = 1 THEN s[k] ELSE f[k - 1] \o s[k]
<1>1. \A k \in 1..n : s[k] \in Seq(Byte)
  <2>1. \A k \in 1..n : k \in 1..Len(s)
    BY LenProperties
  <2> QED
    BY <2>1, ElementOfSeq
<1>2. \A k \in 1..n : f[k] = IF k = 1 THEN s[k] ELSE f[k - 1] \o s[k]
  BY DEF Flattens
<1> DEFINE T == { k \in 1..n : f[k] \notin Seq(Byte) }
<1>3. ASSUME T # {} PROVE FALSE
  <2>1. PICK k \in T : \A j \in T : k <= j
    <3>1. T \in SUBSET Nat
      OBVIOUS
    <3> HIDE DEF T
    <3> QED
      BY <1>3, <3>1, LeastNat
  <2>2. k \in 1..n /\ f[k] \notin Seq(Byte)
    OBVIOUS
  <2>3. CASE k = 1
    BY <1>1, <1>2, <2>2, <2>3
  <2>4. CASE k # 1
    <3>1. k - 1 \in 1..n /\ ~(k <= k - 1)
      BY <2>2, <2>4
    <3>2. f[k - 1] \in Seq(Byte)
      BY <2>1, <3>1
    <3>3. f[k - 1] \o s[k] \in Seq(Byte)
      BY <1>1, <2>2, <3>2, ConcatProperties
    <3> QED
      BY <1>2, <2>2, <2>4, <3>3
  <2> QED
    BY <2>3, <2>4
<1> QED
  BY <1>1, <1>2, <1>3

\* Two that begin alike agree.
LEMMA FlattenUnique ==
  ASSUME NEW s, NEW t, NEW n \in Nat, NEW k \in Nat, k <= n,
         \A i \in 1..k : s[i] = t[i],
         NEW f, Flattens(f, s, n), NEW g, Flattens(g, t, k)
  PROVE  \A i \in 1..k : f[i] = g[i]
<1>1. \A i \in 1..k : i \in 1..n /\ (i # 1 => i - 1 \in 1..k /\ ~(i <= i - 1))
  OBVIOUS
<1>2. \A i \in 1..n : f[i] = IF i = 1 THEN s[i] ELSE f[i - 1] \o s[i]
  BY DEF Flattens
<1>3. \A i \in 1..k : g[i] = IF i = 1 THEN t[i] ELSE g[i - 1] \o t[i]
  BY DEF Flattens
<1> DEFINE T == { i \in 1..k : f[i] # g[i] }
<1>4. ASSUME T # {} PROVE FALSE
  <2>1. PICK i \in T : \A j \in T : i <= j
    <3>1. T \in SUBSET Nat
      OBVIOUS
    <3> HIDE DEF T
    <3> QED
      BY <1>4, <3>1, LeastNat
  <2>2. i \in 1..k /\ f[i] # g[i]
    OBVIOUS
  <2>3. CASE i = 1
    BY <1>1, <1>2, <1>3, <2>2, <2>3
  <2>4. CASE i # 1
    <3>1. f[i - 1] = g[i - 1]
      BY <1>1, <2>1, <2>2, <2>4
    <3>2. f[i] = f[i - 1] \o s[i] /\ g[i] = g[i - 1] \o t[i] /\ s[i] = t[i]
      BY <1>1, <1>2, <1>3, <2>2, <2>4
    <3> QED
      BY <2>2, <3>1, <3>2
  <2> QED
    BY <2>3, <2>4
<1> QED
  BY <1>4

\* Each is the beginning of the later ones.
LEMMA FlattenPrefix ==
  ASSUME NEW s \in Seq(Seq(Byte)), NEW n \in Nat, n <= Len(s), NEW f, Flattens(f, s, n),
         NEW k \in 1..n
  PROVE  /\ Len(f[k]) <= Len(f[n])
         /\ \A i \in 1..Len(f[k]) : f[n][i] = f[k][i]
<1>1. \A j \in 1..n : /\ s[j] \in Seq(Byte) /\ f[j] \in Seq(Byte)
                      /\ f[j] = IF j = 1 THEN s[j] ELSE f[j - 1] \o s[j]
  BY FlattenStep
<1> DEFINE P(j) == Len(f[k]) <= Len(f[j]) /\ \A i \in 1..Len(f[k]) : f[j][i] = f[k][i]
           T == { j \in k..n : ~P(j) }
<1>2. Len(f[k]) \in Nat
  BY <1>1, LenProperties
<1>3. P(k)
  BY <1>2
<1>4. ASSUME T # {} PROVE FALSE
  <2>1. PICK j \in T : \A i \in T : j <= i
    <3>1. T \in SUBSET Nat
      OBVIOUS
    <3> HIDE DEF T
    <3> QED
      BY <1>4, <3>1, LeastNat
  <2>2. j \in k..n /\ ~P(j)
    OBVIOUS
  <2>3. j # k
    BY <1>3, <2>2
  <2>4. j - 1 \in k..n /\ ~(j <= j - 1) /\ j # 1 /\ j \in 1..n /\ j - 1 \in 1..n
    BY <2>2, <2>3
  <2>5. P(j - 1)
    BY <2>1, <2>4
  <2>6. f[j] = f[j - 1] \o s[j] /\ f[j - 1] \in Seq(Byte) /\ s[j] \in Seq(Byte)
    BY <1>1, <2>4
  <2> DEFINE a == f[j - 1]
             b == s[j]
  <2>7. Len(a) \in Nat /\ Len(b) \in Nat
    BY <2>6, LenProperties
  <2>8. /\ Len(f[j]) = Len(a) + Len(b)
        /\ \A i \in 1..(Len(a) + Len(b)) :
             f[j][i] = IF i <= Len(a) THEN a[i] ELSE b[i - Len(a)]
    <3>1. f[j] = a \o b /\ a \in Seq(Byte) /\ b \in Seq(Byte)
      BY <2>6
    <3> HIDE DEF a, b
    <3> QED
      BY <3>1, ConcatProperties
  <2>9. Len(f[k]) <= Len(a) /\ \A i \in 1..Len(f[k]) : a[i] = f[k][i]
    BY <2>5
  <2> HIDE DEF a, b
  <2>10. ASSUME NEW i \in 1..Len(f[k]) PROVE f[j][i] = f[k][i]
    <3>1. i \in 1..(Len(a) + Len(b)) /\ i <= Len(a)
      BY <1>2, <2>7, <2>9
    <3> QED
      BY <2>8, <2>9, <3>1
  <2>11. Len(f[k]) <= Len(f[j])
    BY <1>2, <2>7, <2>8, <2>9
  <2> QED
    BY <2>2, <2>10, <2>11
<1> HIDE DEF P
<1>5. P(n)
  <2>1. n \in k..n
    OBVIOUS
  <2> QED
    BY <1>4, <2>1
<1> QED
  BY <1>5 DEF P

\* What FlattenSeq gives: the descriptors of a row, one after the other.
LEMMA FlattenArithmetic ==
  ASSUME NEW s \in Seq(Seq(Byte))
  PROVE  /\ FlattenSeq(s) \in Seq(Byte)
         /\ EndOf(s, 0) = 0 /\ EndOf(s, Len(s)) = Len(FlattenSeq(s))
         /\ \A k \in 1..Len(s) :
              /\ EndOf(s, k - 1) \in Nat
              /\ EndOf(s, k) = EndOf(s, k - 1) + Len(s[k])
              /\ EndOf(s, k) <= Len(FlattenSeq(s))
              /\ \A i \in 1..Len(s[k]) : FlattenSeq(s)[EndOf(s, k - 1) + i] = s[k][i]
<1> DEFINE n == Len(s)
<1>1. n \in Nat
  BY LenProperties
<1>2. EndOf(s, 0) = 0
  <2>1. SubSeq(s, 1, 0) = << >>
    BY SubSeqEmpty
  <2>2. FlattenSeq(<< >>) = << >>
    BY Zenon, EmptySeq DEF FlattenSeq
  <2>3. EndOf(s, 0) = Len(FlattenSeq(SubSeq(s, 1, 0)))
    BY Zenon DEF EndOf
  <2>4. EndOf(s, 0) = Len(<< >>)
    BY <2>1, <2>2, <2>3, Zenon
  <2> QED
    BY <2>4
<1>3. SubSeq(s, 1, n) = s
  BY SubSeqFull
<1>4. CASE n = 0
  <2>1. s = << >>
    BY <1>4, EmptySeq
  <2>2. FlattenSeq(s) = << >>
    BY <2>1, Zenon, EmptySeq DEF FlattenSeq
  <2> QED
    BY <1>2, <1>3, <1>4, <2>2 DEF EndOf
<1>5. CASE n # 0
  <2>1. PICK f : Flattens(f, s, n) /\ FlattenSeq(s) = f[n]
    BY <1>1, <1>5, FlattenIsLast
  <2>2. \A k \in 1..n : /\ s[k] \in Seq(Byte) /\ f[k] \in Seq(Byte)
                        /\ f[k] = IF k = 1 THEN s[k] ELSE f[k - 1] \o s[k]
    <3>1. n <= Len(s)
      BY <1>1
    <3> HIDE DEF n
    <3> QED
      BY <1>1, <2>1, <3>1, FlattenStep
  <2>3. ASSUME NEW k \in 1..n PROVE EndOf(s, k) = Len(f[k])
    <3> DEFINE t == SubSeq(s, 1, k)
    <3>1. Len(t) = k /\ \A i \in 1..k : t[i] = s[i]
      <4>1. \A i \in 1..k : i \in 1..Len(s)
        BY <1>1
      <4>2. /\ Len(t) = IF 1 <= k THEN k - 1 + 1 ELSE 0
            /\ \A i \in 1..(k - 1 + 1) : t[i] = s[1 + i - 1]
        BY <1>1, <4>1, SubSeqProperties
      <4> HIDE DEF t
      <4>3. k - 1 + 1 = k /\ 1 <= k /\ \A i \in 1..k : 1 + i - 1 = i
        BY <1>1
      <4> QED
        BY <4>2, <4>3
    <3> HIDE DEF t
    <3>2. k \in Nat /\ k # 0 /\ k <= n
      BY <1>1
    <3>3. PICK g : Flattens(g, t, k) /\ FlattenSeq(t) = g[k]
      BY <3>1, <3>2, FlattenIsLast
    <3>4. \A i \in 1..k : f[i] = g[i]
      <4> HIDE DEF n
      <4>1. \A i \in 1..k : s[i] = t[i]
        BY <3>1
      <4> QED
        BY <1>1, <2>1, <3>2, <3>3, <4>1, FlattenUnique
    <3>5. f[k] = g[k]
      BY <3>2, <3>4
    <3> QED
      BY <3>3, <3>5 DEF t, EndOf
  <2>4. FlattenSeq(s) \in Seq(Byte) /\ EndOf(s, n) = Len(FlattenSeq(s))
    <3>1. n \in 1..n
      BY <1>1, <1>5
    <3> HIDE DEF n
    <3> QED
      BY <2>1, <2>2, <2>3, <3>1
  <2>5. ASSUME NEW k \in 1..n
        PROVE  /\ EndOf(s, k - 1) \in Nat
               /\ EndOf(s, k) = EndOf(s, k - 1) + Len(s[k])
               /\ EndOf(s, k) <= Len(FlattenSeq(s))
               /\ \A i \in 1..Len(s[k]) : FlattenSeq(s)[EndOf(s, k - 1) + i] = s[k][i]
    <3> DEFINE a == EndOf(s, k - 1)
               b == s[k]
    <3>1. /\ a \in Nat /\ Len(f[k]) = a + Len(b) /\ Len(b) \in Nat
          /\ \A i \in 1..Len(b) : f[k][a + i] = b[i]
      <4>1. b \in Seq(Byte) /\ Len(b) \in Nat
        BY <2>2, LenProperties
      <4>2. CASE k = 1
        <5>1. a = 0 /\ f[k] = b
          BY <1>2, <2>2, <4>2
        <5> HIDE DEF a, b
        <5>2. \A i \in 1..Len(b) : a + i = i
          BY <5>1, <4>1
        <5> QED
          BY <4>1, <5>1, <5>2
      <4>3. CASE k # 1
        <5>1. k - 1 \in 1..n
          BY <1>1, <4>3
        <5> DEFINE c == f[k - 1]
        <5>2. a = Len(c) /\ c \in Seq(Byte) /\ Len(c) \in Nat
          BY <2>2, <2>3, <5>1, LenProperties
        <5>3. f[k] = c \o b
          BY <2>2, <4>3
        <5> HIDE DEF a, b, c
        <5>4. /\ Len(c \o b) = Len(c) + Len(b)
              /\ \A i \in 1..(Len(c) + Len(b)) :
                   (c \o b)[i] = IF i <= Len(c) THEN c[i] ELSE b[i - Len(c)]
          BY <4>1, <5>2, ConcatProperties
        <5>5. ASSUME NEW i \in 1..Len(b) PROVE f[k][a + i] = b[i]
          <6>1. /\ Len(c) + i \in 1..(Len(c) + Len(b)) /\ ~(Len(c) + i <= Len(c))
                /\ Len(c) + i - Len(c) = i
            BY <4>1, <5>2
          <6> QED
            BY <5>2, <5>3, <5>4, <6>1
        <5> QED
          BY <4>1, <5>2, <5>3, <5>4, <5>5
      <4> QED
        BY <4>2, <4>3
    <3>2. EndOf(s, k) = Len(f[k])
      BY <2>3
    <3>3. Len(f[k]) <= Len(f[n]) /\ \A i \in 1..Len(f[k]) : f[n][i] = f[k][i]
      <4>1. n <= Len(s)
        BY <1>1
      <4> HIDE DEF n
      <4> QED
        BY <1>1, <2>1, <4>1, FlattenPrefix
    <3> HIDE DEF a, b
    <3>4. ASSUME NEW i \in 1..Len(b) PROVE FlattenSeq(s)[a + i] = b[i]
      <4>1. a + i \in 1..Len(f[k])
        BY <3>1
      <4> QED
        BY <2>1, <3>1, <3>3, <4>1
    <3>5. EndOf(s, k) = a + Len(b) /\ EndOf(s, k) <= Len(FlattenSeq(s))
      BY <2>1, <3>1, <3>2, <3>3
    <3> QED
      BY <3>1, <3>4, <3>5 DEF a, b
  <2> QED
    BY <1>2, <2>4, <2>5
<1> QED
  BY <1>4, <1>5

-----------------------------------------------------------------------------
(* The iterator.                                                           *)

\* The struct of every type has a size, with the head.
LEMMA Sizes == \A t : SizeOf(t) \in 2..4 /\ (t = Interface => SizeOf(t) = 4)
<1>1. ASSUME NEW t PROVE SizeOf(t) \in 2..4 /\ (t = Interface => SizeOf(t) = 4)
  <2>1. CASE t \in {Config, Interface}
    <3>1. SizeOf(t) = 4
      BY <2>1 DEF SizeOf, Config, Interface, Endpoint
    <3> QED
      BY <3>1
  <2>2. CASE t = Endpoint
    <3>1. SizeOf(t) = 3
      BY <2>2 DEF SizeOf, Config, Interface, Endpoint
    <3> QED
      BY <3>1, <2>2 DEF Interface, Endpoint
  <2>3. CASE t \notin {Config, Interface} /\ t # Endpoint
    <3>1. SizeOf(t) = 2
      BY <2>3 DEF SizeOf
    <3> QED
      BY <3>1, <2>3
  <2> QED
    BY <2>1, <2>2, <2>3
<1> QED
  BY <1>1

\* A collected descriptor is one, and the iterator goes on at a natural number.
LEMMA CollectNextType ==
  ASSUME ParseType, CollectNext
  PROVE  /\ Descriptor(index) \in Parsed
         /\ descriptors' \in Seq(Parsed)
         /\ Len(descriptors') = Len(descriptors) + 1
         /\ \A k \in 1..Len(descriptors) : descriptors'[k] = descriptors[k]
         /\ descriptors'[Len(descriptors) + 1] = Descriptor(index)
         /\ index' \in Nat
<1>1. /\ buf \in Seq(Byte) /\ index \in Nat /\ Len(buf) \in Nat
      /\ index + 1 \in 1..Len(buf) /\ index + 2 \in 1..Len(buf)
      /\ descriptors \in Seq(Parsed)
  BY LenProperties DEF ParseType, CollectNext
<1>2. Type(index) \in Byte /\ Length(index) \in Byte
  BY <1>1, ElementOfSeq DEF Type, Length
<1> DEFINE z == SizeOf(Type(index))
<1>3. z \in 2..4 /\ index + z <= Len(buf)
  BY <1>1, Sizes DEF CollectNext, TooShort
<1>4. SubSeq(buf, index + 3, index + z) \in Seq(Byte)
  <2> HIDE DEF z
  <2>1. \A i \in (index + 3)..(index + z) : i \in 1..Len(buf)
    BY <1>1, <1>3
  <2> QED
    BY <1>1, <1>3, <2>1, SubSeqProperties
<1>5. Descriptor(index) \in Parsed
  BY <1>1, <1>2, <1>4 DEF Descriptor, Parsed
<1>6. descriptors' = Append(descriptors, Descriptor(index))
  BY DEF CollectNext
<1>7. index' \in Nat
  <2>1. index' = index + Length(index)
    BY DEF CollectNext, Advance
  <2>2. Length(index) \in Nat
    BY <1>2 DEF Byte
  <2> QED
    BY <1>1, <2>1, <2>2
<1> QED
  BY <1>1, <1>5, <1>6, <1>7, AppendProperties

\* In a well formed answer the iterator meets the next descriptor of the row.
LEMMA AtDescriptor ==
  ASSUME ParseType, CollectState, row # None, pc = "collect",
         Len(descriptors) < Len(row)
  PROVE  LET d == row[Len(descriptors) + 1] IN
         /\ Len(descriptors) + 1 \in DOMAIN row
         /\ d \in Seq(Byte) /\ Len(d) \in Nat /\ Len(d) >= 2
         /\ Length(index) = Len(d)
         /\ Type(index) = d[2]
         /\ SizeOf(d[2]) <= Len(d)
         /\ index + Len(d) <= Len(buf)
         /\ index + Len(d) = EndOf(row, Len(descriptors) + 1)
         /\ \A i \in 1..Len(d) : buf[index + i] = d[i]
<1> DEFINE n == Len(descriptors) + 1
           d == row[n]
<1>1. row \in Rows /\ row \in Seq(Seq(Byte)) /\ buf = FlattenSeq(row)
  BY AnswersAssumption DEF ParseType
<1>2. descriptors \in Seq(Parsed) /\ index \in Nat
  BY DEF ParseType
<1>3. n \in 1..Len(row) /\ n - 1 = Len(descriptors) /\ DOMAIN row = 1..Len(row)
  BY <1>1, <1>2, LenProperties
<1>4. d \in Seq(Byte) /\ Len(d) \in Nat /\ DOMAIN d = 1..Len(d)
  BY <1>1, <1>3, ElementOfSeq, LenProperties
<1>5. index = EndOf(row, n - 1)
  BY <1>3 DEF CollectState
<1>6. Len(d) >= 2 /\ d[1] = Len(d) /\ Len(d) >= SizeOf(d[2])
  BY <1>1, <1>3, AnswersAssumption
<1>7. /\ EndOf(row, n) = EndOf(row, n - 1) + Len(d)
      /\ EndOf(row, n) <= Len(buf)
      /\ \A i \in 1..Len(d) : buf[EndOf(row, n - 1) + i] = d[i]
  BY <1>1, <1>3, FlattenArithmetic
<1>8. \A i \in 1..Len(d) : buf[index + i] = d[i]
  BY <1>4, <1>5, <1>7
<1>9. buf[index + 1] = d[1] /\ buf[index + 2] = d[2]
  BY <1>4, <1>6, <1>8
<1> HIDE DEF d
<1>10. SizeOf(d[2]) <= Len(d)
  BY <1>4, <1>6, Sizes
<1>11. index + Len(d) = EndOf(row, n) /\ index + Len(d) <= Len(buf)
  BY <1>5, <1>7
<1> HIDE DEF n
<1>12. Length(index) = Len(d) /\ Type(index) = d[2]
  BY <1>6, <1>9 DEF Length, Type
<1>13. n = Len(descriptors) + 1 /\ d = row[n]
  BY DEF n, d
<1> QED
  BY <1>3, <1>4, <1>6, <1>8, <1>10, <1>11, <1>12, <1>13

\* At the end of the row there is nothing left to parse.
LEMMA AtRowEnd ==
  ASSUME ParseType, CollectState, row # None, pc = "collect",
         Len(descriptors) >= Len(row)
  PROVE  Len(descriptors) = Len(row) /\ index = Len(buf)
<1>1. row \in Rows /\ row \in Seq(Seq(Byte)) /\ buf = FlattenSeq(row) /\ descriptors \in Seq(Parsed)
  BY AnswersAssumption DEF ParseType
<1>2. Len(descriptors) <= Len(row) /\ index = EndOf(row, Len(descriptors))
  BY DEF CollectState
<1>3. Len(descriptors) = Len(row)
  BY <1>1, <1>2, LenProperties
<1> QED
  BY <1>1, <1>2, <1>3, FlattenArithmetic

\* Between a well formed answer's first and last descriptor the iterator only
\* goes on: it neither ends nor panics.
LEMMA MidRow ==
  ASSUME ParseType, CollectState, row # None, pc = "collect",
         Len(descriptors) < Len(row)
  PROVE  /\ index + 1 < Len(buf) /\ ~TooShort(index)
         /\ Len(descriptors) < MaxCollected
<1> DEFINE d == row[Len(descriptors) + 1]
<1>1. /\ Len(d) \in Nat /\ Len(d) >= 2 /\ Type(index) = d[2]
      /\ SizeOf(d[2]) <= Len(d) /\ index + Len(d) <= Len(buf)
  BY AtDescriptor
<1> HIDE DEF d
<1>2. index \in Nat /\ Len(buf) \in Nat /\ row \in Rows /\ descriptors \in Seq(Parsed)
      /\ row \in Seq(Seq(Byte))
  BY LenProperties, AnswersAssumption DEF ParseType
<1>3. Len(row) < MaxCollected /\ MaxCollected \in Nat /\ Len(row) \in Nat /\ Len(descriptors) \in Nat
  BY <1>2, AnswersAssumption, LenProperties
<1>4. SizeOf(d[2]) \in 2..4
  BY Sizes
<1>5. ~TooShort(index)
  BY <1>1, <1>2, <1>4 DEF TooShort
<1> QED
  BY <1>1, <1>2, <1>3, <1>5
\* CollectNext keeps what is known of the iterator.
LEMMA CollectNextStep ==
  ASSUME ParseType, CollectState, CollectNext
  PROVE  ParseType' /\ CollectState'
<1>1. UNCHANGED <<row, buf, pc>> /\ pc = "collect" /\ index' = index + Length(index)
  BY DEF CollectNext, Advance
<1>2. /\ descriptors' \in Seq(Parsed) /\ index' \in Nat
      /\ Len(descriptors') = Len(descriptors) + 1
      /\ \A k \in 1..Len(descriptors) : descriptors'[k] = descriptors[k]
      /\ descriptors'[Len(descriptors) + 1] = Descriptor(index)
  BY CollectNextType
<1>3. ParseType'
  BY <1>1, <1>2 DEF ParseType
<1>4. ASSUME row # None PROVE CollectState'
  <2>1. /\ Len(descriptors) \in Nat /\ Len(row) \in Nat /\ index \in Nat
        /\ Len(buf) \in Nat /\ buf \in Seq(Byte)
    BY <1>4, LenProperties, AnswersAssumption DEF ParseType
  <2>2. Len(descriptors) < Len(row)
    <3>1. ASSUME Len(descriptors) >= Len(row) PROVE FALSE
      BY <1>1, <1>4, <2>1, <3>1, AtRowEnd DEF CollectNext
    <3> QED
      BY <2>1, <3>1
  <2> DEFINE n == Len(descriptors) + 1
             d == row[n]
  <2>3. /\ d \in Seq(Byte) /\ Len(d) \in Nat /\ Len(d) >= 2
        /\ Length(index) = Len(d) /\ Type(index) = d[2] /\ SizeOf(d[2]) <= Len(d)
        /\ index + Len(d) <= Len(buf) /\ index + Len(d) = EndOf(row, n)
        /\ \A i \in 1..Len(d) : buf[index + i] = d[i]
    BY <1>1, <1>4, <2>2, AtDescriptor
  <2>4. SubSeq(buf, index + 3, index + SizeOf(d[2])) = SubSeq(d, 3, SizeOf(d[2]))
    <3> DEFINE z == SizeOf(d[2])
    <3>1. z \in 2..4 /\ z <= Len(d)
      BY <2>3, Sizes
    <3> HIDE DEF z, d
    <3> DEFINE s == SubSeq(buf, index + 3, index + z)
               t == SubSeq(d, 3, z)
    <3>2. /\ \A i \in (index + 3)..(index + z) : i \in 1..Len(buf)
          /\ \A i \in 3..z : i \in 1..Len(d)
      BY <2>1, <2>3, <3>1
    <3>3. /\ s \in Seq(Byte)
          /\ Len(s) = IF index + 3 <= index + z THEN index + z - (index + 3) + 1 ELSE 0
          /\ \A i \in 1..(index + z - (index + 3) + 1) : s[i] = buf[index + 3 + i - 1]
      BY <2>1, <3>1, <3>2, SubSeqProperties
    <3>4. /\ t \in Seq(Byte)
          /\ Len(t) = IF 3 <= z THEN z - 3 + 1 ELSE 0
          /\ \A i \in 1..(z - 3 + 1) : t[i] = d[3 + i - 1]
      BY <2>3, <3>1, <3>2, SubSeqProperties
    <3> HIDE DEF s, t
    <3>5. Len(s) = Len(t) /\ (Len(t) = z - 2)
      BY <2>1, <3>1, <3>3, <3>4
    <3>6. \A i \in 1..Len(s) : s[i] = t[i]
      <4>1. ASSUME NEW i \in 1..Len(s) PROVE s[i] = t[i]
        <5>1. /\ i \in 1..(index + z - (index + 3) + 1) /\ i \in 1..(z - 3 + 1)
              /\ index + 3 + i - 1 = index + (i + 2) /\ 3 + i - 1 = i + 2
              /\ i + 2 \in 1..Len(d)
          BY <2>1, <2>3, <3>1, <3>5
        <5>2. buf[index + (i + 2)] = d[i + 2]
          BY <2>3, <5>1
        <5> QED
          BY <3>3, <3>4, <5>1, <5>2
      <4> QED
        BY <4>1
    <3>7. s = t
      BY <3>3, <3>4, <3>5, <3>6, SeqEqual
    <3> QED
      BY <3>7 DEF s, t, z
  <2>5. Descriptor(index).type = d[2] /\ Descriptor(index).fields = SubSeq(d, 3, SizeOf(d[2]))
    BY <2>3, <2>4 DEF Descriptor
  <2>6. \A k \in 1..Len(descriptors') :
          /\ descriptors'[k].type = row[k][2]
          /\ descriptors'[k].fields = SubSeq(row[k], 3, SizeOf(row[k][2]))
    <3>1. ASSUME NEW k \in 1..Len(descriptors')
          PROVE  /\ descriptors'[k].type = row[k][2]
                 /\ descriptors'[k].fields = SubSeq(row[k], 3, SizeOf(row[k][2]))
      <4>1. CASE k = n
        BY <1>2, <2>5, <4>1
      <4>2. CASE k # n
        <5>1. k \in 1..Len(descriptors)
          BY <1>2, <2>1, <4>2
        <5> QED
          BY <1>2, <1>4, <5>1 DEF CollectState
      <4> QED
        BY <4>1, <4>2
    <3> QED
      BY <3>1
  <2>7. index' = EndOf(row, Len(descriptors'))
    BY <1>1, <1>2, <2>3
  <2>8. Len(descriptors') <= Len(row)
    BY <1>2, <2>1, <2>2
  <2> QED
    BY <1>1, <2>6, <2>7, <2>8 DEF CollectState
<1>5. ASSUME row = None PROVE CollectState'
  <2>1. row' = None
    BY <1>1, <1>5
  <2> QED
    BY <2>1 DEF CollectState
<1> QED
  BY <1>3, <1>4, <1>5

\* The ways in which collect ends keep it too.
LEMMA CollectLastStep ==
  ASSUME ParseType, CollectState, CollectEnd \/ CollectPanics \/ CollectExhaustsHeap
  PROVE  ParseType' /\ CollectState'
<1>1. UNCHANGED <<row, buf, index, descriptors>> /\ pc = "collect" /\ pc' \in {"pick", "panic"}
  BY DEF CollectEnd, CollectPanics, CollectExhaustsHeap
<1>2. ParseType'
  BY <1>1 DEF ParseType
<1>3. ASSUME row # None PROVE Len(descriptors) = Len(row) /\ pc' # "panic"
  <2>1. Len(descriptors) \in Nat /\ Len(row) \in Nat /\ index \in Nat /\ Len(buf) \in Nat
    BY <1>3, LenProperties, AnswersAssumption DEF ParseType
  <2>2. CASE Len(descriptors) < Len(row)
    <3>1. index + 1 < Len(buf) /\ ~TooShort(index) /\ Len(descriptors) < MaxCollected
      BY <1>1, <1>3, <2>2, MidRow
    <3>2. MaxCollected \in Nat
      BY AnswersAssumption
    <3> QED
      BY <2>1, <3>1, <3>2 DEF CollectEnd, CollectPanics, CollectExhaustsHeap
  <2>3. CASE Len(descriptors) >= Len(row)
    <3>1. Len(descriptors) = Len(row) /\ index = Len(buf)
      BY <1>1, <1>3, <2>3, AtRowEnd
    <3> QED
      BY <2>1, <3>1 DEF CollectEnd, CollectPanics, CollectExhaustsHeap
  <2> QED
    BY <2>1, <2>2, <2>3
<1>4. CollectState'
  <2>1. CASE row = None
    BY <1>1, <2>1 DEF CollectState
  <2>2. CASE row # None
    BY <1>1, <1>3, <2>2 DEF CollectState
  <2> QED
    BY <2>1, <2>2
<1> QED
  BY <1>2, <1>4

\* Steps after collect leave the answer and the Vec alone.
LEMMA AnswerKept ==
  ASSUME ParseType, CollectState, UNCHANGED <<row, buf, index, descriptors>>,
         pc # "collect", pc' \notin {"collect", "panic"} \/ pc' = pc
  PROVE  ParseType' /\ CollectState'
<1>1. ParseType'
  BY DEF ParseType
<1>2. CollectState'
  BY DEF CollectState
<1> QED
  BY <1>1, <1>2
-----------------------------------------------------------------------------
(* The loop over the Vec.                                                  *)

\* A descriptor is not None.
LEMMA DescriptorIsSome == \A d \in Parsed : d # None
<1>1. ASSUME NEW d \in Parsed PROVE d # None
  <2>1. DOMAIN d = {"at", "type", "fields"}
    BY DEF Parsed
  <2>2. "at" \in DOMAIN d
    BY <2>1
  <2>3. DOMAIN None = {}
    BY EmptySeq DEF None
  <2> QED
    BY <2>2, <2>3
<1> QED
  BY <1>1

\* Before the loop begins nothing has been picked.
LEMMA PickBegins ==
  ASSUME ParseType', next' = 0, config' = None, interface' = None, ep_list' = << >>
  PROVE  (PickedSince(0))'
<1>1. Len(descriptors') \in Nat /\ next' \in 0..Len(descriptors')
  BY LenProperties DEF ParseType
<1>2. ep_list' \in Seq(Parsed) /\ DOMAIN ep_list' = {}
  BY EmptySeq
<1>3. ToSet(ep_list') = {}
  BY <1>2 DEF ToSet
<1>4. { descriptors'[k] : k \in { j \in (0 + 1)..next' : descriptors'[j].type = Endpoint } } = {}
  OBVIOUS
<1> QED
  BY <1>1, <1>2, <1>3, <1>4 DEF PickedSince

\* What Append does to the set of a sequence's elements.
LEMMA ToSetAppend ==
  ASSUME NEW S, NEW s \in Seq(S), NEW e \in S
  PROVE  ToSet(Append(s, e)) = ToSet(s) \cup {e} /\ Append(s, e) \in Seq(S)
<1>1. /\ Append(s, e) \in Seq(S) /\ Len(Append(s, e)) = Len(s) + 1 /\ Len(s) \in Nat
      /\ \A i \in 1..Len(s) : Append(s, e)[i] = s[i]
      /\ Append(s, e)[Len(s) + 1] = e
  BY AppendProperties, LenProperties
<1> DEFINE a == Append(s, e)
<1>2. DOMAIN a = 1..(Len(s) + 1) /\ DOMAIN s = 1..Len(s)
  BY <1>1, LenProperties
<1> HIDE DEF a
<1>3. ToSet(a) \subseteq ToSet(s) \cup {e}
  <2>1. ASSUME NEW i \in DOMAIN a PROVE a[i] \in ToSet(s) \cup {e}
    <3>1. CASE i = Len(s) + 1
      BY <1>1, <3>1 DEF a
    <3>2. CASE i # Len(s) + 1
      <4>1. i \in 1..Len(s)
        BY <1>1, <1>2, <3>2
      <4> QED
        BY <1>1, <1>2, <4>1 DEF a, ToSet
    <3> QED
      BY <3>1, <3>2
  <2> QED
    BY <2>1 DEF ToSet
<1>4. e \in ToSet(a)
  <2>1. Len(s) + 1 \in DOMAIN a
    BY <1>1, <1>2
  <2> QED
    BY <1>1, <2>1 DEF a, ToSet
<1>5. ToSet(s) \subseteq ToSet(a)
  <2>1. ASSUME NEW i \in DOMAIN s PROVE s[i] \in ToSet(a)
    <3>1. i \in 1..Len(s) /\ i \in DOMAIN a
      BY <1>1, <1>2
    <3> QED
      BY <1>1, <3>1 DEF a, ToSet
  <2> QED
    BY <2>1 DEF ToSet
<1> QED
  BY <1>1, <1>3, <1>4, <1>5 DEF a

\* What the arms of the match have in common: one descriptor more is seen.
LEMMA InPickLoop ==
  ASSUME ParseType, LoopState, pc = "pick", next < Len(descriptors), next' = next + 1,
         UNCHANGED <<row, buf, index, descriptors, wanted, pc>>
  PROVE  /\ \E c \in Nat : PickedSince(c)
         /\ next \in Nat /\ Len(descriptors) \in Nat /\ next' \in 1..Len(descriptors)
         /\ Current \in Parsed /\ Current # None /\ Current = descriptors[next']
         /\ \A k : (IsMatch(k))' <=> IsMatch(k)
<1>1. PICK c \in Nat : PickedSince(c)
  BY DEF LoopState
<1>2. next \in Nat /\ Len(descriptors) \in Nat /\ next' \in 1..Len(descriptors)
  BY <1>1, LenProperties DEF PickedSince, ParseType
<1>3. Current = descriptors[next']
  BY DEF Current
<1>4. Current \in Parsed
  BY <1>2, <1>3, ElementOfSeq DEF ParseType
<1>5. \A k : (IsMatch(k))' <=> IsMatch(k)
  BY DEF IsMatch, triple
<1> QED
  BY <1>1, <1>2, <1>3, <1>4, <1>5, DescriptorIsSome

\* A configuration begins: all before it is forgotten.
LEMMA PickConfigStep ==
  ASSUME ParseType, LoopState, PickConfig
  PROVE  LoopState'
<1>1. /\ pc = "pick" /\ next < Len(descriptors) /\ next' = next + 1
      /\ UNCHANGED <<row, buf, index, descriptors, wanted, pc>>
      /\ Current.type = Config /\ interface = None /\ interface' = None
      /\ config' = Current /\ ep_list' = << >>
  BY DEF PickConfig, InLoop
<1>2. /\ \E c \in Nat : PickedSince(c)
      /\ next \in Nat /\ Len(descriptors) \in Nat /\ next' \in 1..Len(descriptors)
      /\ Current = descriptors[next']
      /\ \A k : (IsMatch(k))' <=> IsMatch(k)
  BY <1>1, InPickLoop
<1>3. PICK c \in Nat : PickedSince(c)
  BY <1>2
<1>4. \A k \in 1..next : ~IsMatch(k)
  BY <1>1, <1>3 DEF PickedSince
<1>5. ~IsMatch(next')
  BY <1>1, <1>2 DEF IsMatch, Config, Interface
<1>6. \A k \in 1..next' : ~(IsMatch(k))'
  <2>1. \A k \in 1..next' : k \in 1..next \/ k = next'
    BY <1>1, <1>2
  <2> QED
    BY <1>2, <1>4, <1>5, <2>1
<1>7. ep_list' \in Seq(Parsed) /\ ToSet(ep_list)' = {}
  BY <1>1, EmptySeq DEF ToSet
<1>8. PICK n \in Nat : n = next'
  BY <1>2
<1>9. n # 0 /\ (n + 1)..n = {} /\ n \in 1..Len(descriptors)
  <2>1. n # 0 /\ n \in 1..Len(descriptors)
    BY <1>2, <1>8
  <2>2. \A k : k \notin (n + 1)..n
    BY <2>1
  <2> QED
    BY <2>1, <2>2
<1>10. (PickedSince(n))'
  <2>1. { descriptors'[k] : k \in { j \in (n + 1)..n : descriptors'[j].type = Endpoint } } = {}
    BY <1>9
  <2>2. (\A k \in 1..n : ~IsMatch(k))'
    BY <1>6, <1>8
  <2>3. next' \in n..Len(descriptors') /\ descriptors'[n].type = Config /\ config' = descriptors'[n]
    BY <1>1, <1>2, <1>8
  <2>4. \A k \in (n + 1)..next' : descriptors'[k].type # Config
    BY <1>8, <1>9
  <2> QED
    BY <1>1, <1>7, <1>8, <1>9, <2>1, <2>2, <2>3, <2>4 DEF PickedSince
<1> QED
  BY <1>1, <1>10 DEF LoopState

InterfaceSince(c) ==
  /\ interface = None => \A k \in 1..next : ~IsMatch(k)
  /\ interface # None =>
       \E m \in (c + 1)..next :
         /\ IsMatch(m) /\ interface = descriptors[m]
         /\ \A k \in (m + 1)..next : ~IsMatch(k)

EndpointsSince(c) ==
  { descriptors[k] : k \in { j \in (c + 1)..next : descriptors[j].type = Endpoint } }

\* What any other descriptor does: the configuration stays the last one, and
\* its endpoints are the ones before and perhaps this one.
LEMMA OneMoreSeen ==
  ASSUME ParseType, LoopState, pc = "pick", next < Len(descriptors), next' = next + 1,
         UNCHANGED <<row, buf, index, descriptors, wanted, config, pc>>,
         Current.type # Config, NEW c \in Nat, PickedSince(c)
  PROVE  /\ next' \in (c + 1)..Len(descriptors)
         /\ IF c = 0 THEN config' = None
                     ELSE descriptors'[c].type = Config /\ config' = descriptors'[c]
         /\ \A k \in (c + 1)..next' : descriptors'[k].type # Config
         /\ \A k \in 1..c : ~(IsMatch(k))'
         /\ (EndpointsSince(c))' =
              EndpointsSince(c) \cup (IF Current.type = Endpoint THEN {Current} ELSE {})
<1>1. /\ next \in Nat /\ Len(descriptors) \in Nat /\ next' \in 1..Len(descriptors)
      /\ Current = descriptors[next'] /\ \A k : (IsMatch(k))' <=> IsMatch(k)
  BY InPickLoop
<1>2. next \in c..Len(descriptors)
  BY DEF PickedSince
<1>3. \A k \in (c + 1)..next' : k \in (c + 1)..next \/ k = next'
  BY <1>1, <1>2
<1>4. next' \in (c + 1)..Len(descriptors)
  BY <1>1, <1>2
<1>5. IF c = 0 THEN config' = None
               ELSE descriptors'[c].type = Config /\ config' = descriptors'[c]
  BY DEF PickedSince
<1>6. \A k \in (c + 1)..next' : descriptors'[k].type # Config
  BY <1>1, <1>3 DEF PickedSince
<1>7. \A k \in 1..c : ~(IsMatch(k))'
  BY <1>1 DEF PickedSince
<1> DEFINE E == { j \in (c + 1)..next : descriptors[j].type = Endpoint }
           F == { j \in (c + 1)..next' : descriptors[j].type = Endpoint }
<1>8. F = E \cup (IF Current.type = Endpoint THEN {next'} ELSE {})
  <2>1. \A j \in (c + 1)..next : j \in (c + 1)..next'
    BY <1>1, <1>2
  <2>2. next' \in (c + 1)..next'
    BY <1>1, <1>2
  <2> QED
    BY <1>1, <1>3, <2>1, <2>2
<1>9. (EndpointsSince(c))' = { descriptors[k] : k \in F } /\ EndpointsSince(c) = { descriptors[k] : k \in E }
  BY DEF EndpointsSince
<1> HIDE DEF E, F
<1>10. (EndpointsSince(c))' =
         EndpointsSince(c) \cup (IF Current.type = Endpoint THEN {Current} ELSE {})
  BY <1>1, <1>8, <1>9
<1> QED
  BY <1>4, <1>5, <1>6, <1>7, <1>10

\* A descriptor that does not match leaves the last match as it is.
LEMMA NoMatchSeen ==
  ASSUME NEW c \in Nat, next \in c..Len(descriptors), Len(descriptors) \in Nat, next' = next + 1,
         UNCHANGED <<descriptors, wanted, interface>>,
         ~IsMatch(next + 1), InterfaceSince(c)
  PROVE  (InterfaceSince(c))'
<1>1. next \in Nat /\ next' \in Nat
  OBVIOUS
<1>2. \A k : (IsMatch(k))' <=> IsMatch(k)
  BY DEF IsMatch, triple
<1>3. ASSUME interface = None PROVE \A k \in 1..next' : ~(IsMatch(k))'
  <2>1. \A k \in 1..next' : k \in 1..next \/ k = next + 1
    BY <1>1
  <2> QED
    BY <1>2, <1>3, <2>1 DEF InterfaceSince
<1>4. ASSUME interface # None
      PROVE  \E m \in (c + 1)..next' :
               /\ (IsMatch(m))' /\ interface' = descriptors'[m]
               /\ \A k \in (m + 1)..next' : ~(IsMatch(k))'
  <2>1. PICK m \in (c + 1)..next :
          /\ IsMatch(m) /\ interface = descriptors[m]
          /\ \A k \in (m + 1)..next : ~IsMatch(k)
    BY <1>4 DEF InterfaceSince
  <2>2. m \in (c + 1)..next' /\ \A k \in (m + 1)..next' : k \in (m + 1)..next \/ k = next + 1
    BY <1>1
  <2> QED
    BY <1>2, <2>1, <2>2
<1> QED
  BY <1>3, <1>4 DEF InterfaceSince

\* The parts make the whole.
LEMMA PickedParts ==
  \A c : PickedSince(c) <=>
    /\ next \in c..Len(descriptors)
    /\ IF c = 0 THEN config = None
                ELSE descriptors[c].type = Config /\ config = descriptors[c]
    /\ \A k \in (c + 1)..next : descriptors[k].type # Config
    /\ \A k \in 1..c : ~IsMatch(k)
    /\ InterfaceSince(c)
    /\ ep_list \in Seq(Parsed)
    /\ ToSet(ep_list) = EndpointsSince(c)
BY Zenon DEF PickedSince, InterfaceSince, EndpointsSince

\* The other arms of the match.
LEMMA PickOtherSteps ==
  ASSUME ParseType, LoopState, PickInterface \/ PickEndpoint \/ PickOther
  PROVE  LoopState'
<1>1. /\ pc = "pick" /\ next < Len(descriptors) /\ next' = next + 1
      /\ UNCHANGED <<row, buf, index, descriptors, wanted, config, pc>>
      /\ Current.type # Config
  BY DEF PickInterface, PickEndpoint, PickOther, InLoop, Config, Interface, Endpoint
<1>2. /\ \E c \in Nat : PickedSince(c)
      /\ next \in Nat /\ Len(descriptors) \in Nat /\ next' \in 1..Len(descriptors)
      /\ Current \in Parsed /\ Current # None /\ Current = descriptors[next']
      /\ \A k : (IsMatch(k))' <=> IsMatch(k)
  BY <1>1, InPickLoop
<1>3. PICK c \in Nat : PickedSince(c)
  BY <1>2
<1>4. /\ next' \in (c + 1)..Len(descriptors)
      /\ IF c = 0 THEN config' = None
                  ELSE descriptors'[c].type = Config /\ config' = descriptors'[c]
      /\ \A k \in (c + 1)..next' : descriptors'[k].type # Config
      /\ \A k \in 1..c : ~(IsMatch(k))'
      /\ (EndpointsSince(c))' =
           EndpointsSince(c) \cup (IF Current.type = Endpoint THEN {Current} ELSE {})
  BY <1>1, <1>3, OneMoreSeen
<1>5. /\ next \in c..Len(descriptors) /\ InterfaceSince(c)
      /\ ep_list \in Seq(Parsed) /\ ToSet(ep_list) = EndpointsSince(c)
  BY <1>3, PickedParts
<1>6. (InterfaceSince(c))'
  <2>1. CASE PickInterface /\ triple(Current) = wanted
    <3>1. interface' = Current /\ Current.type = Interface
      BY <2>1 DEF PickInterface, InLoop
    <3>2. PICK m \in (c + 1)..next' : m = next'
      BY <1>4
    <3>3. IsMatch(m) /\ descriptors[m] = Current
      BY <1>2, <2>1, <3>1, <3>2 DEF IsMatch
    <3>4. \A k : k \notin (m + 1)..next'
      BY <1>2, <3>2
    <3>5. (IsMatch(m))' /\ interface' = descriptors'[m]
      BY <1>1, <1>2, <3>1, <3>3
    <3>6. interface' # None
      BY <1>2, <3>1
    <3> QED
      BY <3>2, <3>4, <3>5, <3>6 DEF InterfaceSince
  <2>2. CASE ~(PickInterface /\ triple(Current) = wanted)
    <3>1. interface' = interface
      BY <2>2 DEF PickInterface, PickEndpoint, PickOther
    <3>2. ~IsMatch(next + 1)
      BY <1>1, <1>2, <2>2
         DEF PickInterface, PickEndpoint, PickOther, InLoop, IsMatch, Interface, Endpoint, Config
    <3> QED
      BY <1>1, <1>2, <1>5, <3>1, <3>2, NoMatchSeen
  <2> QED
    BY <2>1, <2>2
<1>7. ep_list' \in Seq(Parsed) /\ (ToSet(ep_list))' = (EndpointsSince(c))'
  <2>1. CASE PickEndpoint
    <3>1. ep_list' = Append(ep_list, Current) /\ Current.type = Endpoint
      BY <2>1 DEF PickEndpoint, InLoop
    <3>2. ToSet(ep_list') = ToSet(ep_list) \cup {Current} /\ ep_list' \in Seq(Parsed)
      BY <1>2, <1>5, <3>1, ToSetAppend
    <3> QED
      BY <1>4, <1>5, <3>1, <3>2
  <2>2. CASE PickInterface \/ PickOther
    <3>1. ep_list' = ep_list /\ Current.type # Endpoint
      BY <2>2 DEF PickInterface, PickOther, InLoop, Endpoint, Interface
    <3> QED
      BY <1>4, <1>5, <3>1
  <2> QED
    BY <2>1, <2>2
<1>8. (PickedSince(c))'
  <2>1. next' \in c..Len(descriptors')
    BY <1>1, <1>2, <1>4
  <2> QED
    BY <1>1, <1>4, <1>6, <1>7, <2>1 DEF PickedSince, InterfaceSince, EndpointsSince
<1> QED
  BY <1>1, <1>3, <1>8 DEF LoopState
\* The loop ends, or has not begun, or begins again for the tablet.
LEMMA LoopEdgeSteps ==
  ASSUME ParseType, ParseType', LoopState,
         Collect \/ PickEnd \/ PickTablet
  PROVE  LoopState'
<1>1. CASE CollectNext \/ CollectPanics \/ CollectExhaustsHeap
  <2>1. /\ pc = "collect" /\ pc' \in {"collect", "panic"}
        /\ UNCHANGED <<next, config, interface, ep_list>>
    BY <1>1 DEF CollectNext, CollectPanics, CollectExhaustsHeap, picked
  <2> QED
    BY <2>1 DEF LoopState
<1>2. CASE CollectEnd
  <2>1. pc = "collect" /\ pc' = "pick" /\ UNCHANGED <<next, config, interface, ep_list>>
    BY <1>2 DEF CollectEnd, picked
  <2>2. next' = 0 /\ config' = None /\ interface' = None /\ ep_list' = << >>
    BY <2>1 DEF LoopState
  <2>3. (PickedSince(0))'
    BY <2>2, PickBegins
  <2> QED
    BY <2>1, <2>3 DEF LoopState
<1>3. CASE PickTablet
  <2>1. pc' = "pick" /\ next' = 0 /\ config' = None /\ interface' = None /\ ep_list' = << >>
    BY <1>3 DEF PickTablet
  <2>3. (PickedSince(0))'
    BY <2>1, PickBegins
  <2> QED
    BY <2>1, <2>3 DEF LoopState
<1>4. CASE PickEnd
  <2>1. /\ pc = "pick" /\ PickDone
        /\ UNCHANGED <<descriptors, wanted, next, config, interface, ep_list>>
        /\ pc' = IF config # None /\ interface # None THEN "found" ELSE "not found"
    BY <1>4 DEF PickEnd, InLoop, PickDone, picked
  <2>2. PICK c \in Nat : PickedSince(c)
    BY <2>1 DEF LoopState
  <2>3. config # None <=> c # 0
    <3>1. ASSUME c # 0 PROVE config # None
      <4>1. c \in 1..Len(descriptors) /\ config = descriptors[c]
        BY <2>2, <3>1, LenProperties DEF PickedSince, ParseType
      <4> QED
        BY <4>1, ElementOfSeq, DescriptorIsSome DEF ParseType
    <3> QED
      BY <2>2, <3>1 DEF PickedSince
  <2>4. (PickedSince(c))' /\ PickDone'
    <3>1. PickDone'
      BY <2>1 DEF PickDone, Current
    <3>2. (PickedSince(c))'
      BY <2>1, <2>2 DEF PickedSince, IsMatch, triple
    <3> QED
      BY <3>1, <3>2
  <2>5. CASE pc' = "found"
    <3>1. c # 0 /\ interface' # None
      BY <2>1, <2>3, <2>5
    <3> QED
      BY <2>4, <2>5, <3>1 DEF LoopState
  <2>6. CASE pc' = "not found"
    <3>1. c = 0 \/ interface' = None
      BY <2>1, <2>3, <2>6
    <3> QED
      BY <2>4, <2>6, <3>1 DEF LoopState
  <2> QED
    BY <2>1, <2>5, <2>6
<1> QED
  BY <1>1, <1>2, <1>3, <1>4 DEF Collect

\* Other steps leave what was picked alone.
LEMMA LoopKept ==
  ASSUME LoopState, UNCHANGED <<descriptors, picked>>,
         pc' = pc \/ pc' \notin {"collect", "pick", "found", "not found"}
  PROVE  LoopState'
<1>1. UNCHANGED <<descriptors, wanted, next, config, interface, ep_list>>
  BY DEF picked
<1>2. CASE pc' \notin {"collect", "pick", "found", "not found"}
  BY <1>2 DEF LoopState
<1>3. CASE pc' = pc
  <2>1. ASSUME NEW c \in Nat, PickedSince(c) PROVE (PickedSince(c))'
    BY <1>1, <2>1 DEF PickedSince, IsMatch, triple
  <2>2. PickDone' <=> PickDone
    BY <1>1 DEF PickDone, Current
  <2> QED
    BY <1>1, <1>3, <2>1, <2>2 DEF LoopState
<1> QED
  BY <1>2, <1>3
-----------------------------------------------------------------------------
(* The keyboard.                                                           *)

Others == {42, 44, 45, 51, 54, 55, 56}

\* The key event of every usage id.
LEMMA KeyEvents ==
  \A id \in 1..255 :
    /\ id \in 4..29 => from_usb_key_id(id) = Char(93 + id)
    /\ id \in 30..38 => from_usb_key_id(id) = Char(19 + id)
    /\ id = 39 => from_usb_key_id(id) = Char(48)
    /\ id = 40 => from_usb_key_id(id) = [event |-> "Enter", value |-> 0]
    /\ id \in Others => from_usb_key_id(id) = Char(CharOf[id])
    /\ id \notin (4..40) \cup Others =>
         from_usb_key_id(id) = [event |-> "Unknown", value |-> id]
<1>1. DOMAIN CharOf = Others
  BY DEF CharOf, Others
<1>2. ASSUME NEW id \in 1..255 PROVE
        /\ id \in 4..29 => from_usb_key_id(id) = Char(93 + id)
        /\ id \in 30..38 => from_usb_key_id(id) = Char(19 + id)
        /\ id = 39 => from_usb_key_id(id) = Char(48)
        /\ id = 40 => from_usb_key_id(id) = [event |-> "Enter", value |-> 0]
        /\ id \in Others => from_usb_key_id(id) = Char(CharOf[id])
        /\ id \notin (4..40) \cup Others =>
             from_usb_key_id(id) = [event |-> "Unknown", value |-> id]
  <2>1. CASE id \in 4..29
    <3>1. from_usb_key_id(id) = Char(97 + id - 4)
      BY <1>1, <2>1 DEF from_usb_key_id, Others
    <3>2. 97 + id - 4 = 93 + id
      BY <2>1
    <3> QED
      BY <2>1, <3>1, <3>2 DEF Others
  <2>2. CASE id \in 30..39
    <3>1. from_usb_key_id(id) = Char(48 + ((id + 1) % 10))
      BY <1>1, <2>2 DEF from_usb_key_id, Others
    <3>2. 48 + ((id + 1) % 10) = IF id = 39 THEN 48 ELSE 19 + id
      BY <2>2
    <3> QED
      BY <2>2, <3>1, <3>2 DEF Others
  <2>3. CASE id = 40
    <3>1. from_usb_key_id(id) = [event |-> "Enter", value |-> 0]
      BY <1>1, <2>3 DEF from_usb_key_id, Others
    <3> QED
      BY <2>3, <3>1 DEF Others
  <2>4. CASE id \in Others
    <3>1. from_usb_key_id(id) = Char(CharOf[id])
      BY <1>1, <2>4 DEF from_usb_key_id, Others
    <3> QED
      BY <2>4, <3>1 DEF Others
  <2>5. CASE id \notin (4..40) \cup Others
    <3>1. from_usb_key_id(id) = [event |-> "Unknown", value |-> id]
      BY <1>1, <2>5 DEF from_usb_key_id
    <3> QED
      BY <2>5, <3>1 DEF Others
  <2> QED
    BY <2>1, <2>2, <2>3, <2>4, <2>5
<1> QED
  BY <1>2

\* Every key has an event of its own.
LEMMA EventsDiffer ==
  \A a, b \in 1..255 : from_usb_key_id(a) = from_usb_key_id(b) => a = b
<1> DEFINE V(id) == CASE id \in 4..29 -> 93 + id
                      [] id \in 30..38 -> 19 + id
                      [] id = 39 -> 48
                      [] id = 42 -> 8  [] id = 44 -> 32 [] id = 45 -> 45 [] id = 51 -> 58
                      [] id = 54 -> 44 [] id = 55 -> 46 [] id = 56 -> 47
                      [] OTHER -> id
           CharKeys == (4..39) \cup Others
<1>1. \A id \in 1..255 :
        /\ id \in CharKeys => from_usb_key_id(id) = Char(V(id))
        /\ id = 40 => from_usb_key_id(id) = [event |-> "Enter", value |-> 0]
        /\ id \notin CharKeys \cup {40} => from_usb_key_id(id) = [event |-> "Unknown", value |-> id]
  <2>1. ASSUME NEW id \in Others PROVE CharOf[id] = V(id)
    BY <2>1 DEF CharOf, Others
  <2>2. ASSUME NEW id \in 4..39
        PROVE  V(id) = IF id \in 4..29 THEN 93 + id ELSE IF id \in 30..38 THEN 19 + id ELSE 48
    BY <2>2
  <2>3. \A id \in 1..255 : id \notin CharKeys \cup {40} => id \notin (4..40) \cup Others
    OBVIOUS
  <2>4. Others \cap (4..40) = {}
    BY DEF Others
  <2> HIDE DEF V
  <2>5. ASSUME NEW id \in 1..255, id \in CharKeys PROVE from_usb_key_id(id) = Char(V(id))
    <3>1. CASE id \in Others
      <4>1. CharOf[id] = V(id)
        BY <2>1, <3>1
      <4>2. from_usb_key_id(id) = Char(CharOf[id])
        BY <3>1, KeyEvents
      <4> QED
        BY <4>1, <4>2
    <3>2. CASE id \in 4..29
      <4>1. V(id) = 93 + id
        BY <2>2, <3>2
      <4>2. from_usb_key_id(id) = Char(93 + id)
        BY <3>2, KeyEvents
      <4> QED
        BY <4>1, <4>2
    <3>3. CASE id \in 30..38
      <4>1. V(id) = 19 + id
        BY <2>2, <3>3
      <4>2. from_usb_key_id(id) = Char(19 + id)
        BY <3>3, KeyEvents
      <4> QED
        BY <4>1, <4>2
    <3>4. CASE id = 39
      <4>1. V(id) = 48
        BY <2>2, <3>4
      <4>2. from_usb_key_id(id) = Char(48)
        BY <3>4, KeyEvents
      <4> QED
        BY <4>1, <4>2
    <3> HIDE DEF Others
    <3> QED
      BY <2>5, <3>1, <3>2, <3>3, <3>4
  <2>6. ASSUME NEW id \in 1..255, id \notin CharKeys \cup {40}
        PROVE  from_usb_key_id(id) = [event |-> "Unknown", value |-> id]
    BY <2>3, <2>6, KeyEvents
  <2>7. \A id \in 1..255 : id = 40 => from_usb_key_id(id) = [event |-> "Enter", value |-> 0]
    BY KeyEvents
  <2> HIDE DEF CharKeys
  <2> QED
    BY <2>5, <2>6, <2>7
<1>2. \A a, b \in CharKeys : V(a) = V(b) => a = b
  BY DEF Others
<1> HIDE DEF V, CharKeys
<1>3. ASSUME NEW id \in 1..255, id \notin CharKeys, id # 40
      PROVE  from_usb_key_id(id).event = "Unknown" /\ from_usb_key_id(id).value = id
  <2>1. from_usb_key_id(id) = [event |-> "Unknown", value |-> id]
    BY <1>1, <1>3
  <2> QED
    BY <2>1
<1>4. ASSUME NEW id \in 1..255, id \in CharKeys
      PROVE  from_usb_key_id(id).event = "Char"
  <2>1. from_usb_key_id(id) = Char(V(id))
    BY <1>1, <1>4
  <2>2. Char(V(id)).event = "Char"
    BY DEF Char
  <2> QED
    BY <2>1, <2>2
<1>5. ASSUME NEW a \in 1..255, NEW b \in 1..255, from_usb_key_id(a) = from_usb_key_id(b)
      PROVE  a = b
  <2>1. CASE a \in CharKeys /\ b \in CharKeys
    <3>1. Char(V(a)) = Char(V(b))
      BY <1>1, <1>5, <2>1
    <3>2. V(a) = V(b)
      BY <3>1 DEF Char
    <3> QED
      BY <1>2, <2>1, <3>2
  <2>2. CASE a \in CharKeys /\ b \notin CharKeys
    <3>1. from_usb_key_id(a).event = "Char"
      BY <1>4, <2>2
    <3>2. from_usb_key_id(b).event \in {"Enter", "Unknown"}
      <4>1. CASE b = 40
        BY <1>1, <4>1
      <4>2. CASE b # 40
        BY <1>3, <2>2, <4>2
      <4> QED
        BY <4>1, <4>2
    <3> QED
      BY <1>5, <3>1, <3>2
  <2>3. CASE b \in CharKeys /\ a \notin CharKeys
    <3>1. from_usb_key_id(b).event = "Char"
      BY <1>4, <2>3
    <3>2. from_usb_key_id(a).event \in {"Enter", "Unknown"}
      <4>1. CASE a = 40
        BY <1>1, <4>1
      <4>2. CASE a # 40
        BY <1>3, <2>3, <4>2
      <4> QED
        BY <4>1, <4>2
    <3> QED
      BY <1>5, <3>1, <3>2
  <2>4. CASE a \notin CharKeys /\ b \notin CharKeys
    <3>1. CASE a = 40
      <4>1. from_usb_key_id(a).event = "Enter"
        BY <1>1, <3>1
      <4> QED
        BY <1>5, <1>3, <2>4, <3>1, <4>1
    <3>2. CASE b = 40
      <4>1. from_usb_key_id(b).event = "Enter"
        BY <1>1, <3>2
      <4> QED
        BY <1>5, <1>3, <2>4, <3>2, <4>1
    <3>3. CASE a # 40 /\ b # 40
      BY <1>5, <1>3, <2>4, <3>3
    <3> QED
      BY <3>1, <3>2, <3>3
  <2> QED
    BY <2>1, <2>2, <2>3, <2>4
<1> QED
  BY <1>5

\* What is read from a report are the keys held down, or the rollover code.
LEMMA ReportedKeys ==
  ASSUME held \subseteq Keys, NEW report \in Reports
  PROVE  PressedIn(report) = Told(held) /\ Told(held) \subseteq KeyOrRollOver
<1>1. PICK m \in Modifiers, s \in [1..Slots -> held \cup {0, RollOver}] :
        /\ report = <<m, 0>> \o s
        /\ IF Cardinality(held) > Slots THEN ToSet(s) = {RollOver} ELSE ToSet(s) \ {0} = held
  <2>1. PICK m \in Modifiers, s \in ReportedSlots : report = Report(m, s)
    BY DEF Reports
  <2> QED
    BY <2>1 DEF Report, ReportedSlots
<1>2. Slots \in Nat /\ m \in Byte /\ 0 \in Byte /\ held \cup {0, RollOver} \subseteq Byte
  BY KeyboardAssumption DEF Byte, RollOver
<1>3. s \in Seq(Byte) /\ Len(s) = Slots
  BY <1>2
<1>4. <<m, 0>> \in Seq(Byte) /\ Len(<<m, 0>>) = 2
  BY <1>2
<1>5. /\ report \in Seq(Byte) /\ Len(report) = 2 + Slots
      /\ \A i \in 1..(2 + Slots) : report[i] = IF i <= 2 THEN <<m, 0>>[i] ELSE s[i - 2]
  BY <1>1, <1>3, <1>4, ConcatProperties
<1> DEFINE t == SubSeq(report, 3, Len(report))
<1>6. /\ DOMAIN t = 1..Slots
      /\ \A i \in 1..Slots : t[i] = report[3 + i - 1]
  <2>1. \A i \in 3..(2 + Slots) : i \in 1..Len(report)
    BY <1>2, <1>5
  <2>2. /\ t \in Seq(Byte)
        /\ Len(t) = IF 3 <= 2 + Slots THEN 2 + Slots - 3 + 1 ELSE 0
        /\ \A i \in 1..(2 + Slots - 3 + 1) : t[i] = report[3 + i - 1]
    BY <1>2, <1>5, <2>1, SubSeqProperties
  <2> HIDE DEF t
  <2>3. Len(t) = Slots /\ 2 + Slots - 3 + 1 = Slots
    BY <1>2, <2>2
  <2> QED
    BY <2>2, <2>3, LenProperties
<1> HIDE DEF t
<1>7. \A i \in 1..Slots : t[i] = s[i]
  <2>1. ASSUME NEW i \in 1..Slots PROVE t[i] = s[i]
    <3>1. 3 + i - 1 \in 1..(2 + Slots) /\ ~(3 + i - 1 <= 2) /\ 3 + i - 1 - 2 = i
      BY <1>2
    <3> QED
      BY <1>5, <1>6, <3>1
  <2> QED
    BY <2>1
<1>8. ToSet(t) = ToSet(s)
  <2>1. DOMAIN s = 1..Slots
    OBVIOUS
  <2> QED
    BY <1>6, <1>7, <2>1 DEF ToSet
<1>9. PressedIn(report) = ToSet(t) \ {0}
  BY DEF PressedIn, t
<1>10. ToSet(s) \ {0} = Told(held)
  BY <1>1 DEF Told, RollOver
<1>11. Told(held) \subseteq KeyOrRollOver
  BY DEF Told, KeyOrRollOver
<1> QED
  BY <1>8, <1>9, <1>10, <1>11

\* A key and the rollover code are bytes.
LEMMA KeysAreBytes == KeyOrRollOver \subseteq 1..255
BY KeyboardAssumption DEF KeyOrRollOver, RollOver

\* Min of a set of naturals is one of them.
LEMMA MinIsElement ==
  ASSUME NEW T \in SUBSET Nat, T # {}
  PROVE  Min(T) \in T
BY LeastNat DEF Min

\* One event moves the shown keys one key on.
LEMMA ShowEventStep ==
  ASSUME KeyState, ShowEvent
  PROVE  KeyState'
<1>1. /\ pc = "events" /\ diff # {} /\ pc' = pc
      /\ UNCHANGED <<wanted, held, pressed, prev_pressed, reported>>
  BY DEF ShowEvent, answer, picked
<1> DEFINE id == Min(diff)
           e == from_usb_key_id(id)
           D == SymmetricDifference(pressed, prev_pressed)
<1>2. /\ shown' = IF id \in pressed THEN shown \cup {e} ELSE shown \ {e}
      /\ diff' = diff \ {id}
  BY DEF ShowEvent
<1>3. /\ diff \subseteq D /\ shown = EventsOf(Followed)
      /\ pressed \subseteq KeyOrRollOver /\ prev_pressed \subseteq KeyOrRollOver
  BY <1>1 DEF KeyState
<1>4. id \in diff
  <2>1. diff \in SUBSET Nat
    BY <1>3, KeysAreBytes DEF SymmetricDifference
  <2> QED
    BY <1>1, <2>1, MinIsElement
<1> HIDE DEF id
<1>5. id \in pressed \cup prev_pressed /\ (id \in pressed <=> id \notin prev_pressed)
  BY <1>3, <1>4 DEF SymmetricDifference
<1>6. Followed' = IF id \in pressed THEN Followed \cup {id} ELSE Followed \ {id}
  BY <1>1, <1>2, <1>4, <1>5 DEF Followed
<1>7. shown' = EventsOf(Followed')
  <2>1. Followed \subseteq 1..255 /\ id \in 1..255
    BY <1>3, <1>5, KeysAreBytes DEF Followed
  <2>2. CASE id \in pressed
    BY <1>2, <1>3, <1>6, <2>2 DEF EventsOf
  <2>3. CASE id \notin pressed
    <3>1. \A k \in Followed : from_usb_key_id(k) = e => k = id
      BY <2>1, EventsDiffer
    <3> HIDE DEF e
    <3>2. e = from_usb_key_id(id)
      BY DEF e
    <3>3. shown' = EventsOf(Followed) \ {e} /\ Followed' = Followed \ {id}
      BY <1>2, <1>3, <1>6, <2>3
    <3> QED
      BY <3>1, <3>2, <3>3 DEF EventsOf
  <2> QED
    BY <2>2, <2>3
<1>8. diff' \subseteq SymmetricDifference(pressed, prev_pressed)'
  BY <1>1, <1>2, <1>3 DEF SymmetricDifference
<1>9. (EventsOf(Followed))' = EventsOf(Followed')
  BY DEF EventsOf
<1>10. Told(reported)' = Told(reported)
  BY <1>1 DEF Told
<1> QED
  BY <1>1, <1>7, <1>8, <1>9, <1>10 DEF KeyState

\* A report is compared with the one before.
LEMMA RequestReportStep ==
  ASSUME KeyState, RequestReport
  PROVE  KeyState'
<1>1. /\ pc = "report" /\ pc' = "events"
      /\ UNCHANGED <<wanted, held, prev_pressed, shown>>
      /\ diff' = SymmetricDifference(pressed', prev_pressed) /\ reported' = held
  BY DEF RequestReport, answer, picked
<1>2. held \subseteq Keys /\ prev_pressed \subseteq KeyOrRollOver /\ shown = EventsOf(prev_pressed)
  BY <1>1 DEF KeyState
<1>3. pressed' = Told(held) /\ pressed' \subseteq KeyOrRollOver
  <2>1. PICK report \in Reports : pressed' = PressedIn(report)
    BY DEF RequestReport
  <2> QED
    BY <1>2, <2>1, ReportedKeys
<1>4. Followed' = prev_pressed
  BY <1>1 DEF Followed, SymmetricDifference
<1>5. (EventsOf(Followed))' = EventsOf(Followed')
  BY DEF EventsOf
<1>6. (SymmetricDifference(pressed, prev_pressed))' = SymmetricDifference(pressed', prev_pressed)
  BY <1>1 DEF SymmetricDifference
<1>7. Told(reported)' = Told(held)
  BY <1>1 DEF Told
<1> QED
  BY <1>1, <1>2, <1>3, <1>4, <1>5, <1>6, <1>7 DEF KeyState

\* When all differences have been shown the report becomes the one before.
LEMMA EndOfRoundStep ==
  ASSUME KeyState, EndOfRound
  PROVE  KeyState'
<1>1. /\ pc = "events" /\ diff = {} /\ prev_pressed' = pressed /\ pc' = "report"
      /\ UNCHANGED <<wanted, held, pressed, diff, shown, reported>>
  BY DEF EndOfRound, answer, picked
<1>2. /\ diff \subseteq SymmetricDifference(pressed, prev_pressed) /\ shown = EventsOf(Followed)
      /\ pressed = Told(reported)
  BY <1>1 DEF KeyState
<1>3. Followed = pressed
  BY <1>1, <1>2 DEF Followed
<1>4. (EventsOf(prev_pressed))' = EventsOf(pressed)
  BY <1>1 DEF EventsOf
<1>5. Told(reported)' = Told(reported)
  BY <1>1 DEF Told
<1> QED
  BY <1>1, <1>2, <1>3, <1>4, <1>5 DEF KeyState

\* The other steps do not touch what the driver knows of the keys.
LEMMA KeysKept ==
  ASSUME KeyState, UNCHANGED <<pressed, prev_pressed, diff, shown, reported>>, held' \subseteq Keys,
         pc' # pc \/ wanted' # wanted =>
           /\ wanted' = KeyboardTriple /\ pc' \in {"collect", "pick", "found", "report"} =>
                wanted = KeyboardTriple /\ pc \in {"collect", "pick", "found"}
           /\ pc' # "events"
           /\ pc' = "report" => wanted' = KeyboardTriple
  PROVE  KeyState'
<1>1. (EventsOf(prev_pressed))' = EventsOf(prev_pressed) /\ (EventsOf(Followed))' = EventsOf(Followed)
  BY DEF EventsOf, Followed
<1>2. EventsOf({}) = {}
  BY DEF EventsOf
<1>3. SymmetricDifference(pressed, prev_pressed)' = SymmetricDifference(pressed, prev_pressed)
  BY DEF SymmetricDifference
<1>6. Told(reported)' = Told(reported) /\ Told({}) = {}
  <2>1. ~(Cardinality({}) > Slots)
    BY FS_EmptySet, KeyboardAssumption
  <2> QED
    BY <2>1 DEF Told
<1>4. CASE pc' = pc /\ wanted' = wanted
  BY <1>1, <1>3, <1>4, <1>6 DEF KeyState
<1>5. CASE pc' # pc \/ wanted' # wanted
  <2>1. ASSUME wanted' = KeyboardTriple, pc' \in {"collect", "pick", "found", "report"}
        PROVE  prev_pressed = {} /\ shown = {} /\ reported = {}
    BY <1>5, <2>1 DEF KeyState
  <2>2. pc' # "events" /\ (pc' = "report" => wanted' = KeyboardTriple)
    BY <1>5
  <2> QED
    BY <1>1, <1>2, <1>6, <2>1, <2>2 DEF KeyState
<1> QED
  BY <1>4, <1>5

-----------------------------------------------------------------------------
(* IInv is inductive.                                                      *)

\* At first nothing is parsed, picked or pressed.
LEMMA InitIInv == Init => IInv
<1> SUFFICES ASSUME Init PROVE IInv
  OBVIOUS
<1>1. /\ (row \in Rows /\ buf = FlattenSeq(row)) \/ (row = None /\ buf \in OtherAnswers)
      /\ index = 0 /\ descriptors = << >> /\ wanted = KeyboardTriple
      /\ next = 0 /\ config = None /\ interface = None /\ ep_list = << >> /\ pc = "collect"
  BY DEF Init, ParseInit
<1>2. ParseType
  <2>1. descriptors \in Seq(Parsed)
    BY <1>1, EmptySeq
  <2>2. buf \in Seq(Byte)
    BY <1>1, AnswersAssumption, FlattenArithmetic
  <2> QED
    BY <1>1, <2>1, <2>2 DEF ParseType
<1>3. CollectState
  <2>1. ASSUME row # None PROVE row \in Rows /\ EndOf(row, 0) = 0 /\ Len(row) \in Nat
    BY <1>1, <2>1, FlattenArithmetic, AnswersAssumption, LenProperties
  <2>2. Len(descriptors) = 0
    BY <1>1
  <2> QED
    BY <1>1, <2>1, <2>2 DEF CollectState
<1>4. LoopState
  BY <1>1 DEF LoopState
<1>5. KeyState
  BY <1>1 DEF Init, KeyState
<1> QED
  BY <1>2, <1>3, <1>4, <1>5 DEF IInv

\* Steps of the parser.
LEMMA ParseStep ==
  ASSUME IInv, Parse, UNCHANGED kbdVars
  PROVE  IInv'
<1>1. ParseType /\ CollectState /\ LoopState /\ KeyState
  BY DEF IInv
<1>2. KeyState'
  <2>1. UNCHANGED <<wanted, held, pressed, prev_pressed, diff, shown, reported>>
    BY DEF kbdVars, Parse, Collect, Pick, CollectNext, CollectEnd, CollectPanics,
           CollectExhaustsHeap, PickConfig, PickInterface, PickEndpoint, PickOther, PickEnd, picked
  <2>2. pc \in {"collect", "pick"} /\ pc' \in {"collect", "pick", "panic", "found", "not found"}
    BY DEF Parse, Collect, Pick, CollectNext, CollectEnd, CollectPanics, CollectExhaustsHeap,
           PickConfig, PickInterface, PickEndpoint, PickOther, PickEnd, InLoop
  <2>3. held' \subseteq Keys
    BY <1>1, <2>1 DEF KeyState
  <2> QED
    BY <1>1, <2>1, <2>2, <2>3, KeysKept
<1>3. CASE Collect
  <2>1. ParseType' /\ CollectState'
    BY <1>1, <1>3, CollectNextStep, CollectLastStep DEF Collect
  <2>2. LoopState'
    BY <1>1, <1>3, <2>1, LoopEdgeSteps
  <2> QED
    BY <1>2, <2>1, <2>2 DEF IInv
<1>4. CASE Pick
  <2>1. /\ UNCHANGED <<row, buf, index, descriptors>>
        /\ pc = "pick" /\ pc' \in {"pick", "found", "not found"}
    BY <1>4 DEF Pick, PickConfig, PickInterface, PickEndpoint, PickOther, PickEnd, InLoop
  <2>2. ParseType' /\ CollectState'
    BY <1>1, <2>1, AnswerKept
  <2>3. LoopState'
    BY <1>1, <1>4, <2>2, PickConfigStep, PickOtherSteps, LoopEdgeSteps DEF Pick
  <2> QED
    BY <1>2, <2>2, <2>3 DEF IInv
<1> QED
  BY <1>3, <1>4 DEF Parse

\* The other steps.
LEMMA DriverStep ==
  ASSUME IInv, Driver \/ NotATablet \/ PickTablet \/ ReadTablet \/ Press \/ Release
  PROVE  IInv'
<1>1. ParseType /\ CollectState /\ LoopState /\ KeyState /\ held \subseteq Keys
  BY DEF IInv, KeyState
<1>2. /\ UNCHANGED <<row, buf, index, descriptors>> /\ pc # "collect"
      /\ pc' \notin {"collect", "panic"}
  BY DEF Driver, SetProtocol, RequestReport, ReportFails, ShowEvent, EndOfRound, NotATablet,
         PickTablet, ReadTablet, Press, Release, KeyboardGaveUp, InUse, answer
<1>3. ParseType' /\ CollectState'
  BY <1>1, <1>2, AnswerKept
<1>4. LoopState'
  <2>1. CASE PickTablet
    BY <1>1, <1>3, <2>1, LoopEdgeSteps
  <2>2. CASE ~PickTablet
    <3>1. /\ UNCHANGED <<descriptors, picked>>
          /\ pc' = pc \/ pc' \notin {"collect", "pick", "found", "not found"}
      BY <2>2 DEF Driver, SetProtocol, RequestReport, ReportFails, ShowEvent, EndOfRound,
         NotATablet, ReadTablet, Press, Release, answer
    <3> QED
      BY <1>1, <3>1, LoopKept
  <2> QED
    BY <2>1, <2>2
<1>5. KeyState'
  <2>1. CASE RequestReport \/ ShowEvent \/ EndOfRound
    BY <1>1, <2>1, RequestReportStep, ShowEventStep, EndOfRoundStep
  <2>2. CASE SetProtocol \/ ReportFails
    <3>1. /\ UNCHANGED <<wanted, held, pressed, prev_pressed, diff, shown, reported>>
          /\ \/ pc = "found" /\ wanted = KeyboardTriple /\ pc' \in {"report", "ended"}
             \/ pc' = "ended"
      BY <2>2 DEF SetProtocol, ReportFails, answer, picked, kbdVars
    <3> QED
      BY <1>1, <3>1, KeysKept
  <2>3. CASE NotATablet \/ ReadTablet
    <3>1. /\ UNCHANGED <<wanted, held, pressed, prev_pressed, diff, shown, reported>>
          /\ pc' \in {"no driver", "ok"}
      BY <2>3 DEF NotATablet, ReadTablet, answer, picked, kbdVars
    <3> QED
      BY <1>1, <3>1, KeysKept
  <2>4. CASE PickTablet
    <3>1. /\ UNCHANGED <<held, pressed, prev_pressed, diff, shown, reported>>
          /\ wanted' = TabletTriple /\ wanted' # KeyboardTriple /\ pc' = "pick"
      BY <2>4, TripleAssumption DEF PickTablet, kbdVars
    <3> QED
      BY <1>1, <3>1, KeysKept
  <2>5. CASE Press \/ Release
    <3>1. /\ UNCHANGED <<wanted, pressed, prev_pressed, diff, shown, reported, pc>>
          /\ held' \subseteq Keys
      BY <1>1, <2>5 DEF Press, Release, answer, picked
    <3> QED
      BY <1>1, <3>1, KeysKept
  <2> QED
    BY <2>1, <2>2, <2>3, <2>4, <2>5 DEF Driver
<1> QED
  BY <1>3, <1>4, <1>5 DEF IInv

\* Every step keeps the invariant.
LEMMA NextIInv == IInv /\ [Next]_vars => IInv'
<1> SUFFICES ASSUME IInv, [Next]_vars PROVE IInv'
  OBVIOUS
<1>1. CASE Parse /\ UNCHANGED kbdVars
  BY <1>1, ParseStep
<1>2. CASE Driver \/ NotATablet \/ PickTablet \/ ReadTablet \/ Press \/ Release
  BY <1>2, DriverStep
<1>3. CASE UNCHANGED vars
  <2>1. UNCHANGED <<row, buf, index, descriptors, wanted, next, config, interface, ep_list, pc,
                    held, pressed, prev_pressed, diff, shown, reported>>
    BY <1>3 DEF vars, answer, picked, kbdVars
  <2>2. ParseType' /\ CollectState'
    BY <2>1 DEF IInv, ParseType, CollectState
  <2>3. LoopState'
    BY <2>1, LoopKept DEF IInv, picked
  <2>4. KeyState'
    <3>1. held' \subseteq Keys
      BY <2>1 DEF IInv, KeyState
    <3> QED
      BY <2>1, <3>1, KeysKept DEF IInv
  <2> QED
    BY <2>2, <2>3, <2>4 DEF IInv
<1> QED
  BY <1>1, <1>2, <1>3 DEF Next, Step, RunReturned

\* The invariant holds in every state the drivers reach.
THEOREM SpecIInv == Spec => []IInv
BY InitIInv, NextIInv, PTL DEF Spec
\* The iterator gives the descriptors of a well formed answer, all of them and
\* in their order, however long each one is (DescriptorIterator::next).
THEOREM AnswersAreParsed == Spec => []ParsesWellFormed
<1>1. IInv => ParsesWellFormed
  <2>1. ASSUME IInv, row # None, pc # "collect"
        PROVE  /\ Len(descriptors) = Len(row)
               /\ \A k \in DOMAIN row :
                    /\ descriptors[k].type = row[k][2]
                    /\ descriptors[k].fields = SubSeq(row[k], 3, SizeOf(row[k][2]))
    <3>1. Len(descriptors) = Len(row)
      BY <2>1 DEF IInv, CollectState
    <3>2. DOMAIN row = 1..Len(row)
      BY <2>1, AnswersAssumption, LenProperties DEF IInv, ParseType
    <3> QED
      BY <2>1, <3>1, <3>2 DEF IInv, CollectState
  <2> QED
    BY <2>1 DEF ParsesWellFormed
<1> QED
  BY <1>1, SpecIInv, PTL

\* No well formed answer panics the kernel, in the iterator or for want of
\* memory: the safety half of WellFormedIsSafe.
THEOREM WellFormedNeverPanics == Spec => [](row # None => pc # "panic")
<1>1. IInv => (row # None => pc # "panic")
  BY DEF IInv, CollectState
<1> QED
  BY <1>1, SpecIInv, PTL

\* The least and the greatest element are the only ones of their kind.
LEMMA MinMaxUnique ==
  ASSUME NEW T \in SUBSET Nat, NEW x \in T
  PROVE  /\ (\A y \in T : x <= y) => Min(T) = x
         /\ (\A y \in T : y <= x) => Max(T) = x
<1>1. ASSUME \A y \in T : x <= y PROVE Min(T) = x
  <2>1. Min(T) \in T /\ \A y \in T : Min(T) <= y
    BY <1>1 DEF Min
  <2>2. Min(T) \in Nat /\ x \in Nat /\ x <= Min(T) /\ Min(T) <= x
    BY <1>1, <2>1
  <2> QED
    BY <2>2
<1>2. ASSUME \A y \in T : y <= x PROVE Max(T) = x
  <2>1. Max(T) \in T /\ \A y \in T : y <= Max(T)
    BY <1>2 DEF Max
  <2>2. Max(T) \in Nat /\ x \in Nat /\ x <= Max(T) /\ Max(T) <= x
    BY <1>2, <2>1
  <2> QED
    BY <2>2
<1> QED
  BY <1>1, <1>2

\* When the loop is over, the part of the list from c on is what it has seen
\* since c.
LEMMA PartIsSeen ==
  ASSUME ParseType, PickDone, NEW c \in Nat, PickedSince(c)
  PROVE  /\ Part(c) = (c + 1)..next
         /\ \A k \in DOMAIN descriptors : k \in Matching <=> IsMatch(k)
         /\ DOMAIN descriptors = 1..Len(descriptors) /\ Len(descriptors) \in Nat
         /\ next \in c..Len(descriptors)
<1>1. /\ DOMAIN descriptors = 1..Len(descriptors) /\ Len(descriptors) \in Nat
      /\ next \in c..Len(descriptors) /\ \A k \in (c + 1)..next : descriptors[k].type # Config
  BY LenProperties DEF ParseType, PickedSince
<1>2. \A k \in DOMAIN descriptors : k \in Matching <=> IsMatch(k)
  BY DEF Matching, OfType, IsMatch
<1>3. ASSUME NEW k \in (c + 1)..next PROVE k \in Part(c)
  <2>1. k \in DOMAIN descriptors /\ k > c /\ \A j \in (c + 1)..k : j \in (c + 1)..next
    BY <1>1, <1>3
  <2> QED
    BY <1>1, <2>1 DEF Part, OfType
<1>4. ASSUME NEW k \in Part(c), k \notin (c + 1)..next PROVE FALSE
  <2>1. k \in 1..Len(descriptors) /\ k > c /\ OfType(Config) \cap (c + 1)..k = {}
    BY <1>1, <1>4 DEF Part
  <2>2. k > next
    BY <1>1, <1>4, <2>1
  <2>3. next < Len(descriptors) /\ descriptors[next + 1].type = Config
    <3>1. next # Len(descriptors)
      <4>1. k \in Nat /\ next \in Nat /\ Len(descriptors) \in Nat /\ k <= Len(descriptors)
        BY <1>1, <2>1
      <4> QED
        BY <2>2, <4>1
    <3> QED
      BY <3>1 DEF PickDone, Current
  <2>4. next + 1 \in DOMAIN descriptors /\ next + 1 \in (c + 1)..k
    BY <1>1, <2>1, <2>2, <2>3
  <2>5. next + 1 \in OfType(Config)
    BY <2>3, <2>4 DEF OfType
  <2> QED
    BY <2>1, <2>4, <2>5
<1> QED
  BY <1>1, <1>2, <1>3, <1>4

\* Whatever list of descriptors a device gives, the configuration, interface
\* and endpoints that pick_interface_with_triple returns belong together, and
\* it returns None only where there is no interface to pick, or where one that
\* belongs to no configuration comes first.
THEOREM PickIsCoherent == Spec => []PickedBelongTogether
<1>1. ASSUME IInv, AtFront = {}, pc = "not found" PROVE Owners = {}
  <2>1. ParseType /\ PickDone
    BY <1>1 DEF IInv, LoopState
  <2>2. PICK c \in Nat : (c = 0 \/ interface = None) /\ PickedSince(c)
    BY <1>1 DEF IInv, LoopState
  <2>3. /\ Part(c) = (c + 1)..next
        /\ \A k \in DOMAIN descriptors : k \in Matching <=> IsMatch(k)
        /\ DOMAIN descriptors = 1..Len(descriptors) /\ Len(descriptors) \in Nat
        /\ next \in c..Len(descriptors)
    BY <2>1, <2>2, PartIsSeen
  <2>4. CASE interface = None
    <3>1. next = Len(descriptors)
      BY <2>1, <2>4 DEF PickDone
    <3>2. \A k \in DOMAIN descriptors : k \notin Matching
      BY <2>2, <2>3, <2>4, <3>1 DEF PickedSince
    <3>3. Matching = {}
      BY <3>2 DEF Matching, OfType
    <3> QED
      BY <3>3 DEF Owners
  <2>5. CASE interface # None
    <3>1. c = 0
      BY <2>2, <2>5
    <3>2. PICK m \in (c + 1)..next : IsMatch(m)
      BY <2>2, <2>5 DEF PickedSince
    <3>3. m \in DOMAIN descriptors /\ m \in Matching
      BY <2>3, <3>1, <3>2
    <3>4. PICK b \in OfType(Config) : b \in 1..m
      BY <1>1, <3>3 DEF AtFront
    <3>5. b \in 1..Len(descriptors) /\ descriptors[b].type = Config /\ m >= b
      BY <2>3, <3>4 DEF OfType
    <3>6. b \in (c + 1)..next
      BY <2>3, <3>1, <3>2, <3>5
    <3> QED
      BY <2>2, <3>5, <3>6 DEF PickedSince
  <2> QED
    BY <2>4, <2>5
<1>2. ASSUME IInv, pc = "found"
      PROVE  /\ AtFront = {}
             /\ LET c == Min(Owners) IN
                /\ config = descriptors[c]
                /\ interface = descriptors[Max(Part(c) \cap Matching)]
                /\ ToSet(ep_list) = { descriptors[k] : k \in Part(c) \cap OfType(Endpoint) }
  <2>1. ParseType /\ PickDone /\ interface # None
    BY <1>2 DEF IInv, LoopState
  <2>2. PICK c \in Nat : c # 0 /\ PickedSince(c)
    BY <1>2 DEF IInv, LoopState
  <2>3. /\ Part(c) = (c + 1)..next
        /\ \A k \in DOMAIN descriptors : k \in Matching <=> IsMatch(k)
        /\ DOMAIN descriptors = 1..Len(descriptors) /\ Len(descriptors) \in Nat
        /\ next \in c..Len(descriptors)
    BY <2>1, <2>2, PartIsSeen
  <2>4. /\ descriptors[c].type = Config /\ config = descriptors[c]
        /\ \A k \in 1..c : ~IsMatch(k)
    BY <2>2 DEF PickedSince
  <2>5. PICK m \in (c + 1)..next :
          /\ IsMatch(m) /\ interface = descriptors[m]
          /\ \A k \in (m + 1)..next : ~IsMatch(k)
    BY <2>1, <2>2 DEF PickedSince
  <2>6. c \in DOMAIN descriptors /\ m \in DOMAIN descriptors /\ m \in Nat
    BY <2>2, <2>3, <2>5
  <2>7. c \in Owners
    <3>1. m \in Part(c) \cap Matching
      BY <2>3, <2>5, <2>6
    <3> QED
      BY <2>4, <2>6, <3>1 DEF Owners, OfType
  <2>8. ASSUME NEW b \in Owners PROVE c <= b
    <3>1. b \in 1..Len(descriptors) /\ Part(b) \cap Matching # {}
      BY <2>3 DEF Owners, OfType
    <3>2. PICK k \in DOMAIN descriptors :
            k \in Matching /\ k > b /\ OfType(Config) \cap (b + 1)..k = {}
      BY <3>1 DEF Part
    <3>3. IsMatch(k) /\ k \in 1..Len(descriptors) /\ ~(k \in 1..c)
      BY <2>3, <2>4, <3>2
    <3>4. c \in OfType(Config)
      BY <2>4, <2>6 DEF OfType
    <3>5. ~(c \in (b + 1)..k)
      BY <3>2, <3>4
    <3> QED
      BY <2>3, <3>1, <3>3, <3>5
  <2>9. Min(Owners) = c
    <3>1. Owners \in SUBSET Nat
      BY <2>3 DEF Owners, OfType
    <3> QED
      BY <2>7, <2>8, <3>1, MinMaxUnique
  <2>10. Max(Part(c) \cap Matching) = m
    <3> DEFINE T == Part(c) \cap Matching
    <3>1. T \in SUBSET Nat /\ m \in T
      BY <2>3, <2>5, <2>6
    <3>2. ASSUME NEW k \in T PROVE k <= m
      <4>1. k \in (c + 1)..next /\ k \in DOMAIN descriptors /\ IsMatch(k)
        BY <2>3 DEF Matching, OfType
      <4>2. k \notin (m + 1)..next
        BY <2>5, <4>1
      <4> QED
        BY <2>3, <2>6, <4>1, <4>2
    <3> HIDE DEF T
    <3>3. Max(T) = m
      BY <3>1, <3>2, MinMaxUnique
    <3> QED
      BY <3>3 DEF T
  <2>11. { j \in (c + 1)..next : descriptors[j].type = Endpoint } = Part(c) \cap OfType(Endpoint)
    <3>1. \A j \in (c + 1)..next : j \in DOMAIN descriptors
      BY <2>3
    <3> QED
      BY <2>3, <3>1 DEF OfType
  <2>12. ToSet(ep_list) = { descriptors[k] : k \in Part(c) \cap OfType(Endpoint) }
    BY <2>2, <2>11, Zenon DEF PickedSince
  <2>13. AtFront = {}
    <3>1. ASSUME NEW k \in AtFront PROVE FALSE
      <4>1. k \in DOMAIN descriptors /\ IsMatch(k) /\ OfType(Config) \cap 1..k = {}
        BY DEF AtFront, Matching, OfType, IsMatch
      <4>2. k \in Nat /\ c < k
        BY <2>3, <2>4, <2>6, <4>1
      <4>3. c \in OfType(Config) /\ c \in 1..k
        BY <2>2, <2>4, <2>6, <4>2 DEF OfType
      <4> QED
        BY <4>1, <4>3
    <3> QED
      BY <3>1
  <2> QED
    BY <2>4, <2>5, <2>9, <2>10, <2>12, <2>13
<1>3. IInv => PickedBelongTogether
  BY <1>1, <1>2 DEF PickedBelongTogether
<1> QED
  BY <1>3, SpecIInv, PTL

\* After each report the key events shown since the driver began add up to the
\* keys held down when that report was made, one event for each key, whatever
\* is pressed or released while reports and events are under way; with more
\* keys than slots they add up to the rollover code (start_usb_keyboard).
THEOREM EventsAddUp == Spec => []EventsTellKeys
<1>1. ASSUME IInv, pc = "report"
      PROVE  /\ shown = { from_usb_key_id(k) : k \in Told(reported) }
             /\ Cardinality(shown) = Cardinality(Told(reported))
  <2>1. /\ prev_pressed \subseteq KeyOrRollOver /\ prev_pressed = Told(reported)
        /\ shown = { from_usb_key_id(k) : k \in prev_pressed }
    BY <1>1 DEF IInv, KeyState, EventsOf
  <2>2. prev_pressed \subseteq 1..255
    BY <2>1, KeysAreBytes
  <2>3. IsFiniteSet(prev_pressed)
    <3>1. 1 \in Int /\ 255 \in Int
      OBVIOUS
    <3>2. IsFiniteSet(1..255)
      BY <3>1, FS_Interval, Zenon
    <3> QED
      BY <2>2, <3>2, FS_Subset
  <2> DEFINE f == [k \in prev_pressed |-> from_usb_key_id(k)]
  <2>4. f \in Bijection(prev_pressed, shown)
    <3>1. f \in [prev_pressed -> shown]
      BY <2>1
    <3>2. \A a, b \in prev_pressed : f[a] = f[b] => a = b
      BY <2>2, EventsDiffer
    <3>3. \A e \in shown : \E k \in prev_pressed : f[k] = e
      BY <2>1
    <3> HIDE DEF f
    <3> QED
      BY <3>1, <3>2, <3>3, Fun_IsBij
  <2>5. ExistsBijection(prev_pressed, shown)
    BY <2>4 DEF ExistsBijection
  <2> QED
    BY <2>1, <2>3, <2>5, FS_Bijection
<1>2. IInv => EventsTellKeys
  BY <1>1 DEF EventsTellKeys
<1> QED
  BY <1>2, SpecIInv, PTL
=============================================================================
