------------------------------ MODULE Striping ------------------------------
(***************************************************************************)
(* The arithmetic of a stripe: how RAID_Controller cuts the encoded bits   *)
(* of an image (the "codigote") into three fragments, pads them and adds   *)
(* a parity fragment, how it recomputes one fragment from the other three, *)
(* and how it joins the fragments again.  Source: RAID/RAID_Controller.cpp.*)
(*                                                                         *)
(* A bit is 0 or 1 and a codigote is a sequence of bits (the program keeps *)
(* the characters '0' and '1').  A fragment file is a record with the      *)
(* number on its "Size:" line and the bits on its second line.             *)
(***************************************************************************)
EXTENDS Integers, Sequences

Bit == {0, 1}

Codigote == Seq(Bit)

\* A fragment file, and the struct Frag it is written from.
Frag == [size : Nat, bits : Codigote]

Smaller(a, b) == IF a <= b THEN a ELSE b

Larger(a, b) == IF a >= b THEN a ELSE b

-----------------------------------------------------------------------------
\* How many bits the first i fragments of a codigote of `size' bits hold:
\* each gets size/3 of them and the first size%3 get one more.
Cut(size, i) == i * (size \div 3) + Smaller(i, size % 3)

codigoteSplitter(codigote) ==
  [i \in 1..3 |-> SubSeq(codigote, Cut(Len(codigote), i - 1) + 1,
                                   Cut(Len(codigote), i))]

\* strncpy fills the rest of its buffer with NUL, which is no '1'.
BitAt(bits, k) == IF k <= Len(bits) THEN bits[k] ELSE 0

\* A fragment shorter than the longest one is padded with a single "0".
Padded(bits, max) == IF Len(bits) < max THEN Append(bits, 0) ELSE bits

\* The parity of the first `max' bits of three fragments.
ParityBits(codes, max) ==
  [k \in 1..max |-> (BitAt(codes[1], k) + BitAt(codes[2], k)
                                        + BitAt(codes[3], k)) % 2]

\* The four fragments made of three strings of bits; the fourth is parity.
parityCalculator(codes) ==
  LET max    == Larger(Len(codes[1]), Larger(Len(codes[2]), Len(codes[3])))
      padded == [j \in 1..3 |-> Padded(codes[j], max)]
  IN  [j \in 1..4 |->
         IF j = 4 THEN [size |-> max, bits |-> ParityBits(padded, max)]
                  ELSE [size |-> Len(codes[j]), bits |-> padded[j]]]

\* The four fragment files diskWriter stores for a codigote.
StoredFrags(codigote) == parityCalculator(codigoteSplitter(codigote))

-----------------------------------------------------------------------------
\* Mutant of RealSize: only the fragment at the remainder gets the extra bit.
RealSize_AtRemainder(totalS, k) ==
  (totalS \div 3) + (IF k = totalS % 3 THEN 1 ELSE 0)

\* The size XORrecovery gives to data fragment k, from the TotalSize line:
\* its loop only ever raises the first two entries of `arr'.
RealSize(totalS, k) ==
  (totalS \div 3) + (IF k <= 2 /\ k <= totalS % 3 THEN 1 ELSE 0)

\* The second line of fragment file j, or "" when the file is not there.
CodeOf(files, j) == IF j \in DOMAIN files THEN files[j].bits ELSE <<>>

\* The other three fragments, in the order of their numbers (the program
\* takes them in the order of their disks; XOR does not see the difference).
OtherFrags(k) ==
  [i \in 1..3 |-> IF i < k THEN i ELSE i + 1]

\* The file XORrecovery writes for fragment k of a codigote of totalS bits.
XORrecovery(files, k, totalS) ==
  LET frags == parityCalculator([i \in 1..3 |-> CodeOf(files, OtherFrags(k)[i])])
  IN  [size |-> IF k < 4 THEN RealSize(totalS, k) ELSE Len(frags[1].bits),
       bits |-> frags[4].bits]

\* Mutant of RealBits: the padding is read too.
RealBits_Padded(frag) == frag.bits

\* What merge keeps of a fragment file: substr(0, Size).
RealBits(frag) == SubSeq(frag.bits, 1, Smaller(frag.size, Len(frag.bits)))

merge(files) == RealBits(files[1]) \o RealBits(files[2]) \o RealBits(files[3])
=============================================================================
