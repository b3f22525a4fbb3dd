--------------------------- MODULE StripingProofs ---------------------------
(***************************************************************************)
(* Proofs about the arithmetic of a stripe, for codigotes of every length, *)
(* and about the life of a stripe (StripeLife) for every set of codigotes. *)
(***************************************************************************)
EXTENDS StripeLife, SequenceTheorems, TLAPS

\* The sizes diskWriter gives the three fragments add up to the codigote,
\* and XORrecovery computes the same sizes from the total.
LEMMA CutFacts ==
  ASSUME NEW size \in Nat
  PROVE  /\ Cut(size, 0) = 0
         /\ Cut(size, 3) = size
         /\ \A i \in 0..3 : Cut(size, i) \in 0..size
         /\ \A i \in 1..3 : Cut(size, i) = Cut(size, i - 1) + RealSize(size, i)
         /\ \A i \in 1..3 : RealSize(size, i) \in Nat
         /\ \A i \in 1..3 : RealSize(size, i) \in {RealSize(size, 1), RealSize(size, 1) - 1}
<1> DEFINE p == size \div 3
           e == size % 3
<1>1. p \in Nat /\ e \in 0..2 /\ size = 3 * p + e
  OBVIOUS
<1> HIDE DEF p, e
<1>2. /\ Cut(size, 0) = 0
      /\ Cut(size, 1) = RealSize(size, 1)
      /\ Cut(size, 2) = Cut(size, 1) + RealSize(size, 2)
      /\ Cut(size, 3) = Cut(size, 2) + RealSize(size, 3)
      /\ Cut(size, 3) = size
      /\ RealSize(size, 1) \in Nat
      /\ RealSize(size, 2) \in Nat
      /\ RealSize(size, 3) \in Nat
      /\ RealSize(size, 2) \in {RealSize(size, 1), RealSize(size, 1) - 1}
      /\ RealSize(size, 3) \in {RealSize(size, 1), RealSize(size, 1) - 1}
  <2>1. /\ Cut(size, 0) = 0 * p + Smaller(0, e)
        /\ Cut(size, 1) = 1 * p + Smaller(1, e)
        /\ Cut(size, 2) = 2 * p + Smaller(2, e)
        /\ Cut(size, 3) = 3 * p + Smaller(3, e)
        /\ RealSize(size, 1) = p + (IF 1 <= e THEN 1 ELSE 0)
        /\ RealSize(size, 2) = p + (IF 2 <= e THEN 1 ELSE 0)
        /\ RealSize(size, 3) = p
    BY DEF Cut, RealSize, p, e
  <2>2. QED
    BY <1>1, <2>1 DEF Smaller
<1>3. 0..3 = {0, 1, 2, 3} /\ 1..3 = {1, 2, 3}
  OBVIOUS
<1>4. QED
  BY <1>1, <1>2, <1>3

\* The three strings codigoteSplitter returns are slices of the codigote of
\* the sizes XORrecovery computes, and the first of them is a longest one.
LEMMA SplitFacts ==
  ASSUME NEW c \in Codigote, NEW i \in 1..3
  PROVE  /\ codigoteSplitter(c)[i] = SubSeq(c, Cut(Len(c), i - 1) + 1, Cut(Len(c), i))
         /\ codigoteSplitter(c)[i] \in Codigote
         /\ Len(codigoteSplitter(c)[i]) = RealSize(Len(c), i)
<1> DEFINE lo == Cut(Len(c), i - 1) + 1
           hi == Cut(Len(c), i)
<1>1. codigoteSplitter(c)[i] = SubSeq(c, lo, hi)
  BY DEF codigoteSplitter
<1>2. Len(c) \in Nat /\ \A j \in 1..Len(c) : c[j] \in Bit
  BY ElementOfSeq, LenProperties DEF Codigote
<1>3. /\ hi = lo - 1 + RealSize(Len(c), i)
      /\ RealSize(Len(c), i) \in Nat
      /\ lo \in 1..Len(c) + 1
      /\ hi \in 0..Len(c)
  <2>1. i - 1 \in 0..3 /\ i \in 0..3
    OBVIOUS
  <2>2. /\ Cut(Len(c), i - 1) \in 0..Len(c)
        /\ Cut(Len(c), i) \in 0..Len(c)
        /\ Cut(Len(c), i) = Cut(Len(c), i - 1) + RealSize(Len(c), i)
        /\ RealSize(Len(c), i) \in Nat
    BY <1>2, <2>1, CutFacts
  <2> HIDE DEF lo, hi
  <2>3. QED
    BY <1>2, <2>2 DEF lo, hi
<1> HIDE DEF lo, hi
<1>4. \A j \in lo..hi : c[j] \in Bit
  BY <1>2, <1>3
<1>5. /\ SubSeq(c, lo, hi) \in Seq(Bit)
      /\ Len(SubSeq(c, lo, hi)) = IF lo <= hi THEN hi - lo + 1 ELSE 0
  BY <1>3, <1>4, SubSeqProperties
<1>6. QED
  BY <1>1, <1>3, <1>5 DEF Codigote, lo, hi

\* Joining the three slices gives the codigote back.
LEMMA SplitJoins ==
  ASSUME NEW c \in Codigote
  PROVE  codigoteSplitter(c)[1] \o codigoteSplitter(c)[2] \o codigoteSplitter(c)[3] = c
<1> DEFINE n == Len(c)
           a == Cut(n, 1)
           b == Cut(n, 2)
<1>1. n \in Nat /\ c \in Seq(Bit)
  BY LenProperties DEF Codigote
<1>2. /\ Cut(n, 0) = 0 /\ Cut(n, 3) = n
      /\ a \in 0..n /\ b \in a..n
  <2>1. /\ Cut(n, 0) = 0 /\ Cut(n, 3) = n
        /\ \A i \in 0..3 : Cut(n, i) \in 0..n
        /\ \A i \in 1..3 : Cut(n, i) = Cut(n, i - 1) + RealSize(n, i)
        /\ \A i \in 1..3 : RealSize(n, i) \in Nat
    BY <1>1, CutFacts
  <2>2. b = a + RealSize(n, 2)
    BY <2>1, 2 \in 1..3, 2 - 1 = 1
  <2> HIDE DEF n, a, b
  <2>3. QED
    BY <1>1, <2>1, <2>2, 1 \in 0..3, 2 \in 0..3, 2 \in 1..3 DEF n, a, b
<1>3. /\ codigoteSplitter(c)[1] = SubSeq(c, 1, a)
      /\ codigoteSplitter(c)[2] = SubSeq(c, a + 1, b)
      /\ codigoteSplitter(c)[3] = SubSeq(c, b + 1, n)
  <2>1. \A i \in 1..3 :
          codigoteSplitter(c)[i] = SubSeq(c, Cut(n, i - 1) + 1, Cut(n, i))
    BY SplitFacts
  <2>2. /\ codigoteSplitter(c)[1] = SubSeq(c, Cut(n, 1 - 1) + 1, Cut(n, 1))
        /\ codigoteSplitter(c)[2] = SubSeq(c, Cut(n, 2 - 1) + 1, Cut(n, 2))
        /\ codigoteSplitter(c)[3] = SubSeq(c, Cut(n, 3 - 1) + 1, Cut(n, 3))
    BY <2>1, 1 \in 1..3, 2 \in 1..3, 3 \in 1..3
  <2>3. 1 - 1 = 0 /\ 2 - 1 = 1 /\ 3 - 1 = 2 /\ 0 + 1 = 1
    OBVIOUS
  <2>4. QED
    BY <1>2, <2>2, <2>3
<1> HIDE DEF n, a, b
<1>4. SubSeq(c, 1, a) \o SubSeq(c, a + 1, b) = SubSeq(c, 1, b)
  BY <1>1, <1>2, ConcatAdjacentSubSeq, 1 \in 1..n+1, a \in 1-1..n, b \in a..n DEF n
<1>5. SubSeq(c, 1, b) \o SubSeq(c, b + 1, n) = SubSeq(c, 1, n)
  BY <1>1, <1>2, ConcatAdjacentSubSeq, 1 \in 1..n+1, b \in 1-1..n, n \in b..n DEF n
<1>6. SubSeq(c, 1, n) = c
  BY <1>1, SubSeqFull DEF n
<1>7. QED
  BY <1>3, <1>4, <1>5, <1>6

\* A padded string keeps its bits in front and reaches the longest length.
LEMMA PaddedFacts ==
  ASSUME NEW bits \in Codigote, NEW max \in Nat,
         Len(bits) \in {max, max - 1}
  PROVE  /\ Padded(bits, max) \in Codigote
         /\ Len(Padded(bits, max)) = max
         /\ SubSeq(Padded(bits, max), 1, Len(bits)) = bits
<1>1. bits \in Seq(Bit) /\ Len(bits) \in Nat /\ 0 \in Bit
  BY LenProperties DEF Codigote, Bit
<1>2. CASE Len(bits) = max
  <2>1. Padded(bits, max) = bits
    BY <1>2 DEF Padded
  <2>2. QED
    BY <1>1, <1>2, <2>1, SubSeqFull
<1>3. CASE Len(bits) = max - 1
  <2>1. Padded(bits, max) = Append(bits, 0)
    BY <1>1, <1>3 DEF Padded
  <2>2. /\ Append(bits, 0) \in Seq(Bit)
        /\ Len(Append(bits, 0)) = Len(bits) + 1
        /\ \A j \in 1..Len(bits) : Append(bits, 0)[j] = bits[j]
    BY <1>1, AppendProperties
  <2>3. /\ SubSeq(Append(bits, 0), 1, Len(bits)) \in Seq(Bit)
        /\ Len(SubSeq(Append(bits, 0), 1, Len(bits))) = Len(bits)
        /\ \A j \in 1..Len(bits) : SubSeq(Append(bits, 0), 1, Len(bits))[j] = bits[j]
    <3>1. \A j \in 1..Len(bits) : Append(bits, 0)[j] \in Bit
      BY <1>1, <2>2, ElementOfSeq
    <3> DEFINE t == Append(bits, 0)
    <3>2. /\ SubSeq(t, 1, Len(bits)) \in Seq(Bit)
          /\ Len(SubSeq(t, 1, Len(bits))) = IF 1 <= Len(bits) THEN Len(bits) - 1 + 1 ELSE 0
          /\ \A j \in 1..Len(bits) - 1 + 1 : SubSeq(t, 1, Len(bits))[j] = t[1 + j - 1]
      <4> HIDE DEF t
      <4>1. QED
        BY <1>1, <3>1, SubSeqProperties DEF t
    <3>3. \A j \in 1..Len(bits) : j \in 1..Len(bits) - 1 + 1 /\ 1 + j - 1 = j
      BY <1>1
    <3> HIDE DEF t
    <3>4. QED
      BY <1>1, <2>2, <3>2, <3>3 DEF t
  <2>4. SubSeq(Append(bits, 0), 1, Len(bits)) = bits
    BY <1>1, <2>3, SeqEqual
  <2>5. QED
    BY <1>1, <1>3, <2>1, <2>2, <2>4 DEF Codigote
<1>4. QED
  BY <1>2, <1>3

\* The four files diskWriter stores: three data fragments of the sizes of
\* RealSize, all four of the length of the first.
LEMMA StoredFacts ==
  ASSUME NEW c \in Codigote
  PROVE  LET max == RealSize(Len(c), 1) IN
         /\ max \in Nat
         /\ DOMAIN StoredFrags(c) = 1..4
         /\ \A k \in 1..3 :
              /\ StoredFrags(c)[k] =
                   [size |-> RealSize(Len(c), k),
                    bits |-> Padded(codigoteSplitter(c)[k], max)]
              /\ Padded(codigoteSplitter(c)[k], max) \in Codigote
              /\ Len(Padded(codigoteSplitter(c)[k], max)) = max
              /\ RealBits(StoredFrags(c)[k]) = codigoteSplitter(c)[k]
         /\ StoredFrags(c)[4] =
              [size |-> max,
               bits |-> ParityBits([k \in 1..3 |-> Padded(codigoteSplitter(c)[k], max)], max)]
<1> DEFINE n   == Len(c)
           max == RealSize(n, 1)
           s   == codigoteSplitter(c)
<1>1. n \in Nat
  BY LenProperties DEF Codigote
<1>2. /\ max \in Nat
      /\ \A k \in 1..3 : RealSize(n, k) \in Nat /\ RealSize(n, k) \in {max, max - 1}
  BY <1>1, CutFacts, 1 \in 1..3
<1>3. \A k \in 1..3 : s[k] \in Codigote /\ Len(s[k]) = RealSize(n, k)
  BY SplitFacts
<1> HIDE DEF n, max, s
<1>4. Larger(Len(s[1]), Larger(Len(s[2]), Len(s[3]))) = max
  <2>1. Len(s[1]) = max
    BY <1>3, 1 \in 1..3 DEF max
  <2>2. Len(s[2]) \in Nat /\ Len(s[2]) <= max /\ Len(s[3]) \in Nat /\ Len(s[3]) <= max
    BY <1>2, <1>3, 2 \in 1..3, 3 \in 1..3
  <2>3. QED
    BY <1>2, <2>1, <2>2 DEF Larger
<1>5. StoredFrags(c) =
        [j \in 1..4 |->
           IF j = 4 THEN [size |-> max,
                          bits |-> ParityBits([k \in 1..3 |-> Padded(s[k], max)], max)]
           ELSE [size |-> Len(s[j]), bits |-> [k \in 1..3 |-> Padded(s[k], max)][j]]]
  BY <1>4 DEF StoredFrags, parityCalculator, s
<1>6. ASSUME NEW k \in 1..3
      PROVE  /\ StoredFrags(c)[k] = [size |-> RealSize(n, k), bits |-> Padded(s[k], max)]
             /\ Padded(s[k], max) \in Codigote
             /\ Len(Padded(s[k], max)) = max
             /\ RealBits(StoredFrags(c)[k]) = s[k]
  <2>1. StoredFrags(c)[k] = [size |-> RealSize(n, k), bits |-> Padded(s[k], max)]
    <3>1. k \in 1..4 /\ k # 4
      OBVIOUS
    <3>2. QED
      BY <1>3, <1>5, <3>1
  <2>2. Len(s[k]) \in {max, max - 1} /\ s[k] \in Codigote /\ Len(s[k]) \in Nat
    BY <1>2, <1>3
  <2>3. /\ Padded(s[k], max) \in Codigote
        /\ Len(Padded(s[k], max)) = max
        /\ SubSeq(Padded(s[k], max), 1, Len(s[k])) = s[k]
    BY <1>2, <2>2, PaddedFacts
  <2>4. Smaller(RealSize(n, k), max) = Len(s[k])
    BY <1>2, <1>3, <2>2 DEF Smaller
  <2>5. QED
    BY <2>1, <2>3, <2>4 DEF RealBits
<1>7. StoredFrags(c)[4] =
        [size |-> max, bits |-> ParityBits([k \in 1..3 |-> Padded(s[k], max)], max)]
  BY <1>5
<1>8. QED
  BY <1>2, <1>5, <1>6, <1>7 DEF n, max, s

\* For every codigote, what merge reads of the files diskWriter stored is the
\* codigote itself.
THEOREM MergeStored ==
  ASSUME NEW c \in Codigote
  PROVE  merge(StoredFrags(c)) = c
<1>1. \A k \in 1..3 : RealBits(StoredFrags(c)[k]) = codigoteSplitter(c)[k]
  BY StoredFacts
<1>2. merge(StoredFrags(c)) =
        codigoteSplitter(c)[1] \o codigoteSplitter(c)[2] \o codigoteSplitter(c)[3]
  BY <1>1, 1 \in 1..3, 2 \in 1..3, 3 \in 1..3 DEF merge
<1>3. QED
  BY <1>2, SplitJoins

\* The four stored bit strings have one length, and the fourth is the parity
\* of the others, bit by bit.
LEMMA StoredBits ==
  ASSUME NEW c \in Codigote
  PROVE  LET max == RealSize(Len(c), 1)
             s   == StoredFrags(c)
         IN /\ max \in Nat
            /\ DOMAIN s = 1..4
            /\ \A k \in 1..4 :
                 /\ s[k].bits \in [1..max -> Bit]
                 /\ s[k] = [size |-> IF k < 4 THEN RealSize(Len(c), k) ELSE max,
                            bits |-> s[k].bits]
            /\ s[4].bits = [i \in 1..max |->
                              (s[1].bits[i] + s[2].bits[i] + s[3].bits[i]) % 2]
<1> DEFINE n   == Len(c)
           max == RealSize(n, 1)
           s   == StoredFrags(c)
           p   == [k \in 1..3 |-> Padded(codigoteSplitter(c)[k], max)]
<1>1. /\ max \in Nat
      /\ DOMAIN s = 1..4
      /\ \A k \in 1..3 : /\ s[k] = [size |-> RealSize(n, k), bits |-> p[k]]
                         /\ p[k] \in Codigote
                         /\ Len(p[k]) = max
      /\ s[4] = [size |-> max, bits |-> ParityBits(p, max)]
  <2>1. \A k \in 1..3 : p[k] = Padded(codigoteSplitter(c)[k], max)
    OBVIOUS
  <2>2. QED
    BY <2>1, StoredFacts
<1> HIDE DEF n, max, s, p
<1>2. \A k \in 1..3 : p[k] \in [1..max -> Bit]
  <2>1. ASSUME NEW k \in 1..3 PROVE p[k] \in [1..max -> Bit]
    <3>1. p[k] \in Seq(Bit) /\ Len(p[k]) = max
      BY <1>1 DEF Codigote
    <3>2. QED
      BY <3>1, LenProperties
  <2>2. QED
    BY <2>1
<1>3. ParityBits(p, max) = [i \in 1..max |-> (p[1][i] + p[2][i] + p[3][i]) % 2]
  <2>1. \A k \in 1..3 : \A i \in 1..max : BitAt(p[k], i) = p[k][i]
    BY <1>1 DEF BitAt
  <2>2. QED
    BY <2>1, 1 \in 1..3, 2 \in 1..3, 3 \in 1..3 DEF ParityBits
<1>4. \A k \in 1..3 : s[k].bits = p[k] /\ k < 4
  BY <1>1
<1>5. s[4].bits = [i \in 1..max |-> (p[1][i] + p[2][i] + p[3][i]) % 2]
  BY <1>1, <1>3
<1>6. s[4].bits \in [1..max -> Bit]
  <2>1. \A i \in 1..max : (p[1][i] + p[2][i] + p[3][i]) % 2 \in Bit
    <3>1. ASSUME NEW i \in 1..max PROVE (p[1][i] + p[2][i] + p[3][i]) % 2 \in Bit
      <4>1. p[1][i] \in {0, 1} /\ p[2][i] \in {0, 1} /\ p[3][i] \in {0, 1}
        BY <1>2, 1 \in 1..3, 2 \in 1..3, 3 \in 1..3 DEF Bit
      <4> DEFINE x == p[1][i]
                 y == p[2][i]
                 z == p[3][i]
      <4> HIDE DEF x, y, z
      <4>2. (x + y + z) % 2 \in {0, 1}
        BY <4>1 DEF x, y, z
      <4>3. QED
        BY <4>2 DEF x, y, z, Bit
    <3>2. QED
      BY <3>1
  <2>2. QED
    BY <1>5, <2>1
<1>7. ASSUME NEW k \in 1..4
      PROVE  /\ s[k].bits \in [1..max -> Bit]
             /\ s[k] = [size |-> IF k < 4 THEN RealSize(n, k) ELSE max,
                        bits |-> s[k].bits]
  <2>1. CASE k = 4
    BY <1>1, <1>6, <2>1
  <2>2. CASE k \in 1..3
    BY <1>1, <1>2, <1>4, <2>2
  <2>3. QED
    BY <2>1, <2>2
<1>8. QED
  <2>1. s[4].bits = [i \in 1..max |->
                       (s[1].bits[i] + s[2].bits[i] + s[3].bits[i]) % 2]
    BY <1>4, <1>5, 1 \in 1..3, 2 \in 1..3, 3 \in 1..3
  <2>2. QED
    BY <1>1, <1>7, <2>1 DEF n, max, s

\* parityCalculator on three bit strings of one length: nothing is padded.
LEMMA ParityOfThree ==
  ASSUME NEW max \in Nat, NEW x \in [1..max -> Bit], NEW y \in [1..max -> Bit],
         NEW z \in [1..max -> Bit], NEW codes,
         codes = [i \in 1..3 |-> IF i = 1 THEN x ELSE IF i = 2 THEN y ELSE z]
  PROVE  /\ parityCalculator(codes)[4].bits = [i \in 1..max |-> (x[i] + y[i] + z[i]) % 2]
         /\ Len(parityCalculator(codes)[1].bits) = max
<1>1. /\ codes[1] = x /\ codes[2] = y /\ codes[3] = z
      /\ Len(x) = max /\ Len(y) = max /\ Len(z) = max
  <2>1. x \in Seq(Bit) /\ y \in Seq(Bit) /\ z \in Seq(Bit)
    BY SeqDef
  <2>2. Len(x) = max /\ Len(y) = max /\ Len(z) = max
    BY <2>1, LenProperties
  <2>3. QED
    BY <2>2
<1>2. Larger(Len(codes[1]), Larger(Len(codes[2]), Len(codes[3]))) = max
  BY <1>1 DEF Larger
<1>3. \A j \in 1..3 : Padded(codes[j], max) = codes[j]
  BY <1>1 DEF Padded
<1> DEFINE q == [j \in 1..3 |-> Padded(codes[j], max)]
<1>4. parityCalculator(codes) =
        [j \in 1..4 |-> IF j = 4 THEN [size |-> max, bits |-> ParityBits(q, max)]
                                 ELSE [size |-> Len(codes[j]), bits |-> q[j]]]
  BY <1>2 DEF parityCalculator
<1>5. q[1] = x /\ q[2] = y /\ q[3] = z
  BY <1>1, <1>3, 1 \in 1..3, 2 \in 1..3, 3 \in 1..3
<1> HIDE DEF q
<1>6. ParityBits(q, max) = [i \in 1..max |-> (x[i] + y[i] + z[i]) % 2]
  BY <1>1, <1>5 DEF ParityBits, BitAt
<1>7. QED
  BY <1>1, <1>4, <1>5, <1>6

\* Whichever fragment is missing, XORrecovery writes the file diskWriter
\* stored, size line and padding included.
LEMMA RecoverExact ==
  ASSUME NEW c \in Codigote, NEW k \in 1..4, NEW fs,
         \A j \in 1..4 \ {k} : j \in DOMAIN fs /\ fs[j] = StoredFrags(c)[j]
  PROVE  XORrecovery(fs, k, Len(c)) = StoredFrags(c)[k]
<1> DEFINE n   == Len(c)
           max == RealSize(n, 1)
           b   == [j \in 1..4 |-> StoredFrags(c)[j].bits]
           o   == OtherFrags(k)
           codes == [i \in 1..3 |-> CodeOf(fs, o[i])]
           f   == parityCalculator(codes)
<1>1. /\ max \in Nat
      /\ \A j \in 1..4 : b[j] \in [1..max -> Bit]
      /\ b[4] = [i \in 1..max |-> (b[1][i] + b[2][i] + b[3][i]) % 2]
      /\ StoredFrags(c)[k] = [size |-> IF k < 4 THEN RealSize(n, k) ELSE max,
                              bits |-> b[k]]
  <2>1. \A j \in 1..4 : b[j] = StoredFrags(c)[j].bits
    OBVIOUS
  <2>2. QED
    BY <2>1, StoredBits, 1 \in 1..4, 2 \in 1..4, 3 \in 1..4, 4 \in 1..4
<1>2. /\ \A i \in 1..3 : o[i] \in 1..4 \ {k}
      /\ o[1] = (IF 1 < k THEN 1 ELSE 2)
      /\ o[2] = (IF 2 < k THEN 2 ELSE 3)
      /\ o[3] = (IF 3 < k THEN 3 ELSE 4)
  BY DEF OtherFrags
<1>3. \A i \in 1..3 : CodeOf(fs, o[i]) = b[o[i]]
  BY <1>2 DEF CodeOf
<1>4. codes = [i \in 1..3 |-> IF i = 1 THEN b[o[1]] ELSE IF i = 2 THEN b[o[2]]
                                                              ELSE b[o[3]]]
  BY <1>3
<1>5. XORrecovery(fs, k, n) = [size |-> IF k < 4 THEN RealSize(n, k)
                                                 ELSE Len(f[1].bits),
                               bits |-> f[4].bits]
  BY DEF XORrecovery
<1> HIDE DEF codes, f
<1>6. /\ f[4].bits = [i \in 1..max |-> (b[o[1]][i] + b[o[2]][i] + b[o[3]][i]) % 2]
      /\ Len(f[1].bits) = max
  <2>1. /\ b[o[1]] \in [1..max -> Bit]
        /\ b[o[2]] \in [1..max -> Bit]
        /\ b[o[3]] \in [1..max -> Bit]
    BY <1>1, <1>2, 1 \in 1..3, 2 \in 1..3, 3 \in 1..3
  <2> HIDE DEF b, o, max
  <2>2. \A x, y, z \in [1..max -> Bit] : \A cs :
          cs = [i \in 1..3 |-> IF i = 1 THEN x ELSE IF i = 2 THEN y ELSE z]
          => /\ parityCalculator(cs)[4].bits = [i \in 1..max |-> (x[i] + y[i] + z[i]) % 2]
             /\ Len(parityCalculator(cs)[1].bits) = max
    BY <1>1, ParityOfThree
  <2>3. QED
    BY <1>4, <2>1, <2>2 DEF f
<1>7. ASSUME NEW i \in 1..max
      PROVE  (b[o[1]][i] + b[o[2]][i] + b[o[3]][i]) % 2 = b[k][i]
  <2> DEFINE x == b[1][i]
             y == b[2][i]
             z == b[3][i]
             w == b[4][i]
  <2>1. x \in {0, 1} /\ y \in {0, 1} /\ z \in {0, 1} /\ w = (x + y + z) % 2
    <3> HIDE DEF b, max
    <3>1. QED
      BY <1>1, 1 \in 1..4, 2 \in 1..4, 3 \in 1..4 DEF Bit
  <2>2. /\ b[o[1]][i] = IF 1 < k THEN x ELSE y
        /\ b[o[2]][i] = IF 2 < k THEN y ELSE z
        /\ b[o[3]][i] = IF 3 < k THEN z ELSE w
        /\ b[k][i] = IF k = 1 THEN x ELSE IF k = 2 THEN y ELSE IF k = 3 THEN z ELSE w
    BY <1>2
  <2> HIDE DEF x, y, z, w
  <2>3. /\ (y + z + w) % 2 = x
        /\ (x + z + w) % 2 = y
        /\ (x + y + w) % 2 = z
    BY <2>1
  <2>4. (b[o[1]][i] + b[o[2]][i] + b[o[3]][i]) % 2 =
          IF k = 1 THEN (y + z + w) % 2 ELSE IF k = 2 THEN (x + z + w) % 2
          ELSE IF k = 3 THEN (x + y + w) % 2 ELSE (x + y + z) % 2
    <3> HIDE DEF b, o, max
    <3>1. k = 1 \/ k = 2 \/ k = 3 \/ k = 4
      OBVIOUS
    <3>2. CASE k = 1
      BY <2>2, <3>2
    <3>3. CASE k = 2
      BY <2>2, <3>3
    <3>4. CASE k = 3
      BY <2>2, <3>4
    <3>5. CASE k = 4
      BY <2>2, <3>5
    <3>6. QED
      BY <3>1, <3>2, <3>3, <3>4, <3>5
  <2> HIDE DEF b, o, max
  <2>5. QED
    BY <2>1, <2>2, <2>3, <2>4
<1> HIDE DEF b, o, max
<1>8. f[4].bits = b[k]
  <2>1. b[k] \in [1..max -> Bit]
    BY <1>1
  <2>2. QED
    BY <1>6, <1>7, <2>1
<1>9. QED
  BY <1>1, <1>5, <1>6, <1>8 DEF n
-----------------------------------------------------------------------------
\* What holds whatever fragments are lost and recovered, in any order: of the
\* four files of a stored image three are there at least.
ThreeThere ==
  /\ codigote \in Codigotes
  /\ DOMAIN files \subseteq FragNumbs
  /\ \E k \in FragNumbs : FragNumbs \ {k} \subseteq DOMAIN files

StripeInv == ThreeThere /\ FilesExact

LEMMA StripeInvInit == Init => StripeInv
<1> SUFFICES ASSUME Init PROVE StripeInv
  OBVIOUS
<1>1. codigote \in Codigote /\ codigote \in Codigotes
  BY CodigotesAssumption DEF Init
<1>2. DOMAIN files = FragNumbs
  BY <1>1, StoredBits DEF Init, FragNumbs
<1>3. QED
  BY <1>1, <1>2, 1 \in FragNumbs
     DEF StripeInv, ThreeThere, FilesExact, Init, FragNumbs

LEMMA StripeInvNext == StripeInv /\ [Next]_vars => StripeInv'
<1> SUFFICES ASSUME StripeInv, [Next]_vars PROVE StripeInv'
  OBVIOUS
<1> USE DEF StripeInv
<1>1. codigote \in Codigote
  BY CodigotesAssumption DEF ThreeThere
<1>2. ASSUME NEW c \in Codigotes, Store(c) PROVE StripeInv'
  <2>1. c \in Codigote
    BY CodigotesAssumption
  <2>2. DOMAIN files' = FragNumbs
    BY <1>2, <2>1, StoredBits DEF Store, FragNumbs
  <2>3. QED
    BY <1>2, <2>1, <2>2, 1 \in FragNumbs
       DEF ThreeThere, FilesExact, Store, FragNumbs
<1>3. ASSUME NEW k \in FragNumbs, Lose(k) PROVE StripeInv'
  <2>1. DOMAIN files' = FragNumbs \ {k}
    BY <1>3 DEF Lose
  <2>2. \A j \in FragNumbs \ {k} : files'[j] = files[j] /\ j \in DOMAIN files
    BY <1>3 DEF Lose
  <2>3. codigote' = codigote
    BY <1>3 DEF Lose
  <2>4. QED
    BY <2>1, <2>2, <2>3 DEF ThreeThere, FilesExact
<1>4. ASSUME NEW k \in FragNumbs, Recover(k) PROVE StripeInv'
  <2>1. k \notin DOMAIN files /\ codigote' = codigote
    BY <1>4 DEF Recover
  <2>2. FragNumbs \ {k} \subseteq DOMAIN files
    BY <2>1 DEF ThreeThere
  <2>3. XORrecovery(files, k, Len(codigote)) = StoredFrags(codigote)[k]
    <3>1. \A j \in 1..4 \ {k} : j \in DOMAIN files /\ files[j] = StoredFrags(codigote)[j]
      BY <2>2 DEF FilesExact, FragNumbs
    <3>2. QED
      BY <1>1, <3>1, RecoverExact DEF FragNumbs
  <2>4. DOMAIN files' = DOMAIN files \cup {k}
    BY <1>4 DEF Recover
  <2>5. \A j \in DOMAIN files' : files'[j] = StoredFrags(codigote)[j]
    BY <1>4, <2>3, <2>4 DEF Recover, FilesExact
  <2>6. QED
    BY <1>1, <2>1, <2>2, <2>4, <2>5 DEF ThreeThere, FilesExact
<1>5. CASE UNCHANGED vars
  BY <1>5 DEF vars, ThreeThere, FilesExact
<1>6. QED
  BY <1>2, <1>3, <1>4, <1>5 DEF Next

\* For codigotes of every length: any sequence of losses and XORrecovery
\* calls leaves each existing fragment file as diskWriter wrote it.
THEOREM StripeFilesExact == Spec => []FilesExact
<1>1. StripeInv => FilesExact
  BY DEF StripeInv
<1>2. QED
  BY <1>1, StripeInvInit, StripeInvNext, PTL DEF Spec

\* For codigotes of every length: merge reads the stored codigote back from
\* three data fragments, however many of them XORrecovery wrote.
THEOREM StripeReadsBack == Spec => []ReadsBack
<1>1. StripeInv => ReadsBack
  <2> SUFFICES ASSUME StripeInv, 1..3 \subseteq DOMAIN files
               PROVE  merge(files) = codigote
    BY DEF ReadsBack
  <2>1. /\ files[1] = StoredFrags(codigote)[1]
        /\ files[2] = StoredFrags(codigote)[2]
        /\ files[3] = StoredFrags(codigote)[3]
    BY 1 \in 1..3, 2 \in 1..3, 3 \in 1..3 DEF StripeInv, FilesExact
  <2>2. merge(files) = merge(StoredFrags(codigote))
    BY <2>1 DEF merge
  <2>3. codigote \in Codigote
    BY CodigotesAssumption DEF StripeInv, ThreeThere
  <2>4. QED
    BY <2>2, <2>3, MergeStored
<1>2. QED
  BY <1>1, StripeInvInit, StripeInvNext, PTL DEF Spec
=============================================================================
