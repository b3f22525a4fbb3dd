-------------------------- MODULE ImageTripProofs --------------------------
(***************************************************************************)
(* Proofs about ImageTrip and HuffmanCode, for every picture: the          *)
(* compressor loses nothing, and neither does the stripe it is stored in.  *)
(*                                                                         *)
(* The argument follows the loops of the program.  While compress builds,  *)
(* the list is a forest: whole trees, each byte met so far under one of    *)
(* them.  sort keeps it, because the one statement that cuts the list,     *)
(* setHead(temp->getNext()), runs only with temp at the head: elsewhere    *)
(* temp is no leaf (SameDigit), and the pass before has left it in order.  *)
(* In a whole tree no leaf is above another, so the paths are a prefix     *)
(* code, a line of the tree file puts its leaf back where it was, and the  *)
(* bits lead from byte to byte: e[k], what the first k bytes are encoded   *)
(* to, begins the codigote, and decompress has read e[j] and a walk that   *)
(* begins the code of byte j + 1.  Of the stripe in between StripingProofs *)
(* is cited: what merge reads is what was cut, recovered or not.           *)
(***************************************************************************)
EXTENDS ImageTrip, FiniteSetTheorems, SequenceTheorems, TLAPS

-----------------------------------------------------------------------------
(* Paths.                                                                  *)

\* A path begins another when it is no longer and they agree as far as it goes.
LEMMA PrefixByElements ==
  ASSUME NEW p \in Path, NEW q \in Path
  PROVE  IsPrefix(p, q) <=> Len(p) <= Len(q) /\ \A k \in 1..Len(p) : p[k] = q[k]
<1>1. Len(p) \in Nat /\ Len(q) \in Nat
  BY LenProperties DEF Path
<1>2. SubSeq(p, 1, Len(p)) = p
  BY SubSeqFull DEF Path
<1>3. ASSUME Len(p) <= Len(q)
      PROVE  /\ SubSeq(q, 1, Len(p)) \in Path /\ Len(SubSeq(q, 1, Len(p))) = Len(p)
             /\ \A k \in 1..Len(p) : SubSeq(q, 1, Len(p))[k] = q[k]
  <2>1. \A k \in 1..Len(p) : q[k] \in Bit
    BY <1>1, <1>3, ElementOfSeq DEF Path
  <2>2. QED
    BY <1>1, <2>1, SubSeqProperties DEF Path
<1>4. ASSUME Len(p) <= Len(q)
      PROVE  p = SubSeq(q, 1, Len(p)) <=> \A k \in 1..Len(p) : p[k] = q[k]
  BY <1>1, <1>3, <1>4, SeqEqual DEF Path
<1>5. QED
  BY <1>1, <1>2, <1>4 DEF IsPrefix

\* A path begins itself, the empty one begins any and is begun by none but itself.
LEMMA PrefixReflexive ==
  ASSUME NEW p \in Path
  PROVE  IsPrefix(p, p) /\ IsPrefix(<<>>, p) /\ (IsPrefix(p, <<>>) => p = <<>>)
<1>1. <<>> \in Path /\ Len(<<>>) = 0 /\ Len(p) \in Nat
  BY LenProperties DEF Path
<1>2. Len(p) = 0 => p = <<>>
  BY EmptySeq DEF Path
<1>3. QED
  BY <1>1, <1>2, PrefixByElements

\* What begins a beginning is a beginning.
LEMMA PrefixTransitive ==
  ASSUME NEW p \in Path, NEW q \in Path, NEW r \in Path, IsPrefix(p, q), IsPrefix(q, r)
  PROVE  IsPrefix(p, r)
<1>1. Len(p) \in Nat /\ Len(q) \in Nat /\ Len(r) \in Nat
  BY LenProperties DEF Path
<1>2. QED
  BY <1>1, PrefixByElements

\* Two paths that begin each other are one.
LEMMA PrefixAntisymmetric ==
  ASSUME NEW p \in Path, NEW q \in Path, IsPrefix(p, q), IsPrefix(q, p)
  PROVE  p = q
<1>1. Len(p) \in Nat /\ Len(q) \in Nat
  BY LenProperties DEF Path
<1>2. Len(p) = Len(q) /\ \A k \in 1..Len(p) : p[k] = q[k]
  BY <1>1, PrefixByElements
<1>3. QED
  BY <1>2, SeqEqual DEF Path

\* Two paths that begin a third begin each other.
LEMMA PrefixesCompare ==
  ASSUME NEW p \in Path, NEW q \in Path, NEW r \in Path, IsPrefix(p, r), IsPrefix(q, r)
  PROVE  IsPrefix(p, q) \/ IsPrefix(q, p)
<1>1. Len(p) \in Nat /\ Len(q) \in Nat /\ Len(r) \in Nat
  BY LenProperties DEF Path
<1>2. QED
  BY <1>1, PrefixByElements

\* A path under the bit that leads to it.
Below(c, p) == <<c>> \o p

\* What Below returns, place by place.
LEMMA UnderBit ==
  ASSUME NEW c \in Bit, NEW p \in Path
  PROVE  /\ Below(c, p) \in Path /\ Below(c, p) # <<>> /\ Len(Below(c, p)) = Len(p) + 1
         /\ (Below(c, p))[1] = c /\ \A k \in 1..Len(p) : (Below(c, p))[k + 1] = p[k]
<1>1. <<c>> \in Seq(Bit) /\ p \in Seq(Bit) /\ Len(<<c>>) = 1 /\ <<c>>[1] = c /\ Len(p) \in Nat
  BY LenProperties DEF Path
<1>2. QED
  BY <1>1, ConcatProperties DEF Path, Below

\* Under one bit paths compare as they did; under different bits they do not.
LEMMA PrefixUnderBit ==
  ASSUME NEW c \in Bit, NEW d \in Bit, NEW p \in Path, NEW q \in Path
  PROVE  IsPrefix(Below(c, p), Below(d, q)) <=> c = d /\ IsPrefix(p, q)
<1>1. Len(p) \in Nat /\ Len(q) \in Nat
  BY LenProperties DEF Path
<1>2. PICK s : s = Below(c, p)
  OBVIOUS
<1>3. PICK t : t = Below(d, q)
  OBVIOUS
<1>4. /\ s \in Path /\ Len(s) = Len(p) + 1 /\ s[1] = c /\ \A k \in 1..Len(p) : s[k + 1] = p[k]
      /\ t \in Path /\ Len(t) = Len(q) + 1 /\ t[1] = d /\ \A k \in 1..Len(q) : t[k + 1] = q[k]
  BY <1>2, <1>3, UnderBit
<1>5. ASSUME IsPrefix(s, t) PROVE c = d /\ IsPrefix(p, q)
  <2>1. Len(p) <= Len(q) /\ \A k \in 1..(Len(p) + 1) : s[k] = t[k]
    BY <1>1, <1>4, <1>5, PrefixByElements
  <2>2. ASSUME NEW k \in 1..Len(p) PROVE p[k] = q[k]
    <3>1. k \in 1..Len(q) /\ k + 1 \in 1..(Len(p) + 1)
      BY <1>1, <2>1
    <3>2. QED
      BY <1>4, <2>1, <3>1
  <2>3. c = d
    BY <1>1, <1>4, <2>1
  <2>4. QED
    BY <2>1, <2>2, <2>3, PrefixByElements
<1>6. ASSUME c = d, IsPrefix(p, q) PROVE IsPrefix(s, t)
  <2>1. Len(p) <= Len(q) /\ \A k \in 1..Len(p) : p[k] = q[k]
    BY <1>6, PrefixByElements
  <2>2. ASSUME NEW k \in 1..Len(s) PROVE s[k] = t[k]
    <3>1. CASE k = 1
      BY <1>4, <1>6, <3>1
    <3>2. CASE k # 1
      <4>1. k - 1 \in 1..Len(p) /\ k - 1 \in 1..Len(q) /\ (k - 1) + 1 = k
        BY <1>1, <1>4, <2>1, <3>2
      <4>2. s[k] = p[k - 1] /\ t[k] = q[k - 1]
        BY <1>4, <4>1
      <4>3. QED
        BY <2>1, <4>1, <4>2
    <3>3. QED
      BY <3>1, <3>2
  <2>3. QED
    BY <1>1, <1>4, <2>1, <2>2, PrefixByElements
<1>7. QED
  BY <1>2, <1>3, <1>5, <1>6

\* A path that is not empty is one under its first bit.
LEMMA FirstBit ==
  ASSUME NEW p \in Path, p # <<>>
  PROVE  /\ Head(p) \in Bit /\ Tail(p) \in Path /\ p = Below(Head(p), Tail(p))
         /\ \A b \in Bit : Append(p, b) = Below(Head(p), Append(Tail(p), b))
<1>1. Head(p) \in Bit /\ Tail(p) \in Path
  BY HeadTailProperties DEF Path
<1>2. p = Below(Head(p), Tail(p))
  BY <1>1 DEF Path, Below
<1>3. ASSUME NEW b \in Bit PROVE Append(p, b) = Below(Head(p), Append(Tail(p), b))
  <2>1. Append(p, b) = p \o <<b>> /\ Append(Tail(p), b) = Tail(p) \o <<b>>
    BY <1>1, AppendIsConcat DEF Path
  <2>2. (<<Head(p)>> \o Tail(p)) \o <<b>> = <<Head(p)>> \o (Tail(p) \o <<b>>)
    BY <1>1, ConcatAssociative DEF Path
  <2>3. QED
    BY <1>2, <2>1, <2>2 DEF Below
<1>4. QED
  BY <1>1, <1>2, <1>3

\* The bit after a path leads further along those it begins.
LEMMA OneBitDeeper ==
  ASSUME NEW p \in Path, NEW q \in Path
  PROVE  /\ \A b \in Bit : /\ Append(p, b) \in Path /\ Append(p, b) # <<>> /\ IsPrefix(p, Append(p, b))
                           /\ Append(p, b) # p /\ Len(Append(p, b)) = Len(p) + 1
         /\ IsPrefix(p, q) /\ p # q => \E b \in Bit : IsPrefix(Append(p, b), q) /\ b = q[Len(p) + 1]
<1>1. Len(p) \in Nat /\ Len(q) \in Nat
  BY LenProperties DEF Path
<1>2. ASSUME NEW b \in Bit
      PROVE  /\ Append(p, b) \in Path /\ Append(p, b) # <<>> /\ Len(Append(p, b)) = Len(p) + 1
             /\ \A k \in 1..Len(p) : Append(p, b)[k] = p[k]
             /\ Append(p, b)[Len(p) + 1] = b
  BY AppendProperties DEF Path
<1>3. ASSUME NEW b \in Bit PROVE IsPrefix(p, Append(p, b)) /\ Append(p, b) # p
  <2>1. PICK a : a = Append(p, b)
    OBVIOUS
  <2>2. a \in Path /\ Len(a) = Len(p) + 1 /\ \A k \in 1..Len(p) : a[k] = p[k]
    BY <1>2, <2>1
  <2>3. IsPrefix(p, a) /\ a # p
    BY <1>1, <2>2, PrefixByElements
  <2>4. QED
    BY <2>1, <2>3
<1>4. ASSUME IsPrefix(p, q), p # q
      PROVE  \E b \in Bit : IsPrefix(Append(p, b), q) /\ b = q[Len(p) + 1]
  <2>1. Len(p) <= Len(q) /\ \A k \in 1..Len(p) : p[k] = q[k]
    BY <1>4, PrefixByElements
  <2>2. Len(p) # Len(q)
    BY <1>4, <2>1, SeqEqual DEF Path
  <2>3. Len(p) + 1 \in 1..Len(q)
    BY <1>1, <2>1, <2>2
  <2>4. PICK b : b = q[Len(p) + 1]
    OBVIOUS
  <2>5. b \in Bit
    BY <2>3, <2>4, ElementOfSeq DEF Path
  <2>6. Len(Append(p, b)) <= Len(q) /\ \A k \in 1..Len(Append(p, b)) : Append(p, b)[k] = q[k]
    BY <1>1, <1>2, <2>1, <2>3, <2>4, <2>5
  <2>7. QED
    BY <1>2, <2>4, <2>5, <2>6, PrefixByElements
<1>5. QED
  BY <1>2, <1>3, <1>4

-----------------------------------------------------------------------------
(* Trees.                                                                  *)

\* What the leaves of a whole tree are: no path begins another, no byte is
\* there twice, and a node that is no leaf has both its children.
Tree(t) ==
  /\ t \subseteq Leaf /\ t # {}
  /\ \A l \in t, m \in t : IsPrefix(l[1], m[1]) => l = m
  /\ \A l \in t, m \in t : l[2] = m[2] => l = m
  /\ \A p \in Path : NodeAt(t, p) =>
       LeafAt(t, p) # {} \/ \A b \in Bit : NodeAt(t, Append(p, b))

\* The two parts of a leaf.
LEMMA LeafFields ==
  /\ \A l \in Leaf : l[1] \in Path /\ l[2] \in Bytes /\ l = <<l[1], l[2]>>
  /\ \A p \in Path, b \in Bytes : <<p, b>> \in Leaf /\ <<p, b>>[1] = p /\ <<p, b>>[2] = b
BY DEF Leaf

\* A leaf as the node above sees it, and the leaves that node has on one side.
Raised(c, l) == <<Below(c, l[1]), l[2]>>
Under(c, A) == {Raised(c, l) : l \in A}

\* The two parts of a raised leaf.
LEMMA RaisedFields ==
  ASSUME NEW c \in Bit, NEW l \in Leaf
  PROVE  Raised(c, l)[1] = Below(c, l[1]) /\ Raised(c, l)[2] = l[2] /\ Raised(c, l) \in Leaf
<1>1. Below(c, l[1]) \in Path /\ l[2] \in Bytes
  BY LeafFields, UnderBit
<1>2. QED
  BY <1>1, LeafFields DEF Raised

\* The leaves on one side are the raised ones, and no other.
LEMMA UnderFacts ==
  ASSUME NEW c \in Bit, NEW A, A \subseteq Leaf
  PROVE  /\ \A m \in Under(c, A) : \E l \in A : /\ m[1] = Below(c, l[1]) /\ m[2] = l[2]
                                                /\ m \in Leaf /\ m = Raised(c, l)
         /\ \A l \in A : \E m \in Under(c, A) : /\ m[1] = Below(c, l[1]) /\ m[2] = l[2]
                                                /\ m \in Leaf /\ m = Raised(c, l)
<1>1. ASSUME NEW m \in Under(c, A)
      PROVE  \E l \in A : m[1] = Below(c, l[1]) /\ m[2] = l[2] /\ m \in Leaf /\ m = Raised(c, l)
  <2>1. PICK l \in A : m = Raised(c, l)
    BY DEF Under
  <2>2. QED
    BY <2>1, RaisedFields
<1>2. ASSUME NEW l \in A
      PROVE  \E m \in Under(c, A) : /\ m[1] = Below(c, l[1]) /\ m[2] = l[2]
                                     /\ m \in Leaf /\ m = Raised(c, l)
  <2>1. Raised(c, l) \in Under(c, A)
    BY DEF Under
  <2>2. QED
    BY <2>1, RaisedFields
<1>3. QED
  BY <1>1, <1>2

\* Under the new node, each side has the nodes and leaves it had.
LEMMA NodeUnder ==
  ASSUME NEW A, NEW B, A \subseteq Leaf, B \subseteq Leaf, NEW q \in Path
  PROVE  LET J == Under(1, A) \cup Under(0, B) IN
         /\ NodeAt(J, Below(1, q)) <=> NodeAt(A, q)
         /\ NodeAt(J, Below(0, q)) <=> NodeAt(B, q)
         /\ LeafAt(A, q) # {} => LeafAt(J, Below(1, q)) # {}
         /\ LeafAt(B, q) # {} => LeafAt(J, Below(0, q)) # {}
<1> DEFINE J == Under(1, A) \cup Under(0, B)
<1>1. 0 \in Bit /\ 1 \in Bit /\ 0 # 1
  BY DEF Bit
<1>2. \A l \in A : l[1] \in Path
  BY LeafFields
<1>3. \A l \in B : l[1] \in Path
  BY LeafFields
<1>4. NodeAt(J, Below(1, q)) <=> NodeAt(A, q)
  <2>1. ASSUME NodeAt(J, Below(1, q)) PROVE NodeAt(A, q)
    <3>1. PICK m \in J : IsPrefix(Below(1, q), m[1])
      BY <2>1 DEF NodeAt
    <3>2. CASE m \in Under(1, A)
      BY <1>1, <1>2, <3>1, <3>2, UnderFacts, PrefixUnderBit DEF NodeAt
    <3>3. CASE m \in Under(0, B)
      BY <1>1, <1>3, <3>1, <3>3, UnderFacts, PrefixUnderBit
    <3>4. QED
      BY <3>1, <3>2, <3>3
  <2>2. ASSUME NodeAt(A, q) PROVE NodeAt(J, Below(1, q))
    <3>1. PICK l \in A : IsPrefix(q, l[1])
      BY <2>2 DEF NodeAt
    <3>2. PICK m \in Under(1, A) : m[1] = Below(1, l[1])
      BY <1>1, UnderFacts
    <3>3. IsPrefix(Below(1, q), m[1])
      BY <1>1, <1>2, <3>1, <3>2, PrefixUnderBit
    <3>4. QED
      BY <3>2, <3>3 DEF NodeAt
  <2>3. QED
    BY <2>1, <2>2
<1>5. NodeAt(J, Below(0, q)) <=> NodeAt(B, q)
  <2>1. ASSUME NodeAt(J, Below(0, q)) PROVE NodeAt(B, q)
    <3>1. PICK m \in J : IsPrefix(Below(0, q), m[1])
      BY <2>1 DEF NodeAt
    <3>2. CASE m \in Under(0, B)
      BY <1>1, <1>3, <3>1, <3>2, UnderFacts, PrefixUnderBit DEF NodeAt
    <3>3. CASE m \in Under(1, A)
      BY <1>1, <1>2, <3>1, <3>3, UnderFacts, PrefixUnderBit
    <3>4. QED
      BY <3>1, <3>2, <3>3
  <2>2. ASSUME NodeAt(B, q) PROVE NodeAt(J, Below(0, q))
    <3>1. PICK l \in B : IsPrefix(q, l[1])
      BY <2>2 DEF NodeAt
    <3>2. PICK m \in Under(0, B) : m[1] = Below(0, l[1])
      BY <1>1, UnderFacts
    <3>3. IsPrefix(Below(0, q), m[1])
      BY <1>1, <1>3, <3>1, <3>2, PrefixUnderBit
    <3>4. QED
      BY <3>2, <3>3 DEF NodeAt
  <2>3. QED
    BY <2>1, <2>2
<1>6. LeafAt(A, q) # {} => LeafAt(J, Below(1, q)) # {}
  BY <1>1, UnderFacts DEF LeafAt
<1>7. LeafAt(B, q) # {} => LeafAt(J, Below(0, q)) # {}
  BY <1>1, UnderFacts DEF LeafAt
<1>8. QED
  BY <1>4, <1>5, <1>6, <1>7

\* Two whole trees without a byte in common are one under a new node.
LEMMA JoinedIsTree ==
  ASSUME NEW A, NEW B, Tree(A), Tree(B), BytesUnder(A) \cap BytesUnder(B) = {}
  PROVE  LET J == Under(1, A) \cup Under(0, B) IN
         Tree(J) /\ BytesUnder(J) = BytesUnder(A) \cup BytesUnder(B)
<1> DEFINE J == Under(1, A) \cup Under(0, B)
<1>1. 0 \in Bit /\ 1 \in Bit /\ 0 # 1 /\ A \subseteq Leaf /\ B \subseteq Leaf
  BY DEF Bit, Tree
<1>2. \A m \in Under(1, A) : \E l \in A : /\ m[1] = Below(1, l[1]) /\ m[2] = l[2] /\ m \in Leaf
                                          /\ m = Raised(1, l)
  BY <1>1, UnderFacts
<1>3. \A m \in Under(0, B) : \E l \in B : /\ m[1] = Below(0, l[1]) /\ m[2] = l[2] /\ m \in Leaf
                                          /\ m = Raised(0, l)
  BY <1>1, UnderFacts
<1>4. \A l \in A : \E m \in Under(1, A) : m[1] = Below(1, l[1]) /\ m[2] = l[2]
  BY <1>1, UnderFacts
<1>5. \A l \in B : \E m \in Under(0, B) : m[1] = Below(0, l[1]) /\ m[2] = l[2]
  BY <1>1, UnderFacts
<1>6. (\A l \in A : l[1] \in Path) /\ (\A l \in B : l[1] \in Path)
  BY <1>1, LeafFields
<1>7. \A l \in A, m \in B : l[2] # m[2]
  BY DEF BytesUnder
<1>8. J \subseteq Leaf /\ J # {}
  BY <1>2, <1>3, <1>4 DEF Tree
<1>9. ASSUME NEW l \in J, NEW m \in J, IsPrefix(l[1], m[1]) PROVE l = m
  <2>1. CASE l \in Under(1, A) /\ m \in Under(1, A)
    BY <1>1, <1>2, <1>6, <1>9, <2>1, PrefixUnderBit DEF Tree
  <2>2. CASE l \in Under(0, B) /\ m \in Under(0, B)
    BY <1>1, <1>3, <1>6, <1>9, <2>2, PrefixUnderBit DEF Tree
  <2>3. CASE l \in Under(1, A) /\ m \in Under(0, B)
    BY <1>1, <1>2, <1>3, <1>6, <1>9, <2>3, PrefixUnderBit
  <2>4. CASE l \in Under(0, B) /\ m \in Under(1, A)
    BY <1>1, <1>2, <1>3, <1>6, <1>9, <2>4, PrefixUnderBit
  <2>5. QED
    BY <2>1, <2>2, <2>3, <2>4
<1>10. ASSUME NEW l \in J, NEW m \in J, l[2] = m[2] PROVE l = m
  <2>1. CASE l \in Under(1, A) /\ m \in Under(1, A)
    BY <1>2, <1>10, <2>1 DEF Tree
  <2>2. CASE l \in Under(0, B) /\ m \in Under(0, B)
    BY <1>3, <1>10, <2>2 DEF Tree
  <2>3. CASE (l \in Under(1, A) /\ m \in Under(0, B)) \/ (l \in Under(0, B) /\ m \in Under(1, A))
    BY <1>2, <1>3, <1>7, <1>10, <2>3
  <2>4. QED
    BY <2>1, <2>2, <2>3
<1>11. ASSUME NEW p \in Path, NodeAt(J, p)
       PROVE  LeafAt(J, p) # {} \/ \A b \in Bit : NodeAt(J, Append(p, b))
  <2>1. CASE p = <<>>
    <3>1. <<>> \in Path
      BY <2>1
    <3>2. NodeAt(A, <<>>) /\ NodeAt(B, <<>>)
      BY <1>6, PrefixReflexive DEF NodeAt, Tree
    <3>3. NodeAt(J, Below(1, <<>>)) /\ NodeAt(J, Below(0, <<>>))
      BY <1>1, <3>1, <3>2, NodeUnder
    <3>4. \A b \in Bit : Append(<<>>, b) = Below(b, <<>>)
      BY DEF Below
    <3>5. QED
      BY <2>1, <3>3, <3>4 DEF Bit
  <2>2. CASE p # <<>>
    <3>1. PICK q : q = Tail(p)
      OBVIOUS
    <3>2. PICK c : c = Head(p)
      OBVIOUS
    <3>3. /\ c \in Bit /\ q \in Path /\ p = Below(c, q)
          /\ \A b \in Bit : Append(p, b) = Below(c, Append(q, b)) /\ Append(q, b) \in Path
      BY <2>2, <3>1, <3>2, FirstBit, OneBitDeeper
    <3>4. CASE c = 1
      <4>1. NodeAt(A, q)
        BY <1>1, <1>11, <3>3, <3>4, NodeUnder
      <4>2. LeafAt(A, q) # {} \/ \A b \in Bit : NodeAt(A, Append(q, b))
        BY <3>3, <4>1 DEF Tree
      <4>3. LeafAt(A, q) # {} => LeafAt(J, p) # {}
        BY <1>1, <3>3, <3>4, NodeUnder
      <4>4. ASSUME NEW b \in Bit, NodeAt(A, Append(q, b)) PROVE NodeAt(J, Append(p, b))
        <5>1. PICK r : r = Append(q, b)
          OBVIOUS
        <5>2. r \in Path /\ Append(p, b) = Below(1, r) /\ NodeAt(A, r)
          BY <3>3, <3>4, <4>4, <5>1
        <5>3. NodeAt(J, Below(1, r))
          BY <1>1, <5>2, NodeUnder
        <5>4. QED
          BY <5>2, <5>3, Zenon
      <4>5. QED
        BY <4>2, <4>3, <4>4
    <3>5. CASE c = 0
      <4>1. NodeAt(B, q)
        BY <1>1, <1>11, <3>3, <3>5, NodeUnder
      <4>2. LeafAt(B, q) # {} \/ \A b \in Bit : NodeAt(B, Append(q, b))
        BY <3>3, <4>1 DEF Tree
      <4>3. LeafAt(B, q) # {} => LeafAt(J, p) # {}
        BY <1>1, <3>3, <3>5, NodeUnder
      <4>4. ASSUME NEW b \in Bit, NodeAt(B, Append(q, b)) PROVE NodeAt(J, Append(p, b))
        <5>1. PICK r : r = Append(q, b)
          OBVIOUS
        <5>2. r \in Path /\ Append(p, b) = Below(0, r) /\ NodeAt(B, r)
          BY <3>3, <3>5, <4>4, <5>1
        <5>3. NodeAt(J, Below(0, r))
          BY <1>1, <5>2, NodeUnder
        <5>4. QED
          BY <5>2, <5>3, Zenon
      <4>5. QED
        BY <4>2, <4>3, <4>4
    <3>6. QED
      BY <3>3, <3>4, <3>5 DEF Bit
  <2>3. QED
    BY <2>1, <2>2
<1>12. BytesUnder(J) = BytesUnder(A) \cup BytesUnder(B)
  BY <1>2, <1>3, <1>4, <1>5 DEF BytesUnder
<1>13. QED
  BY <1>8, <1>9, <1>10, <1>11, <1>12 DEF Tree

\* Joined in terms of the two sides.
LEMMA JoinedLeaves ==
  ASSUME NEW a, NEW b
  PROVE  Joined(a, b) = [times |-> a.times + b.times, leaves |-> Under(1, a.leaves) \cup Under(0, b.leaves)]
BY DEF Joined, Under, Raised, Below

\* A leaf alone is a whole tree, and a whole tree of one byte is a leaf alone.
LEMMA LeafIsTree ==
  ASSUME NEW b \in Bytes
  PROVE  Tree({<<<<>>, b>>}) /\ BytesUnder({<<<<>>, b>>}) = {b}
<1> DEFINE l == <<<<>>, b>>
<1>1. <<>> \in Path /\ l \in Leaf /\ l[1] = <<>> /\ l[2] = b
  BY EmptySeq, LeafFields DEF Path
<1>2. ASSUME NEW p \in Path, NodeAt({l}, p) PROVE LeafAt({l}, p) # {}
  BY <1>1, <1>2, PrefixReflexive DEF NodeAt, LeafAt
<1>3. Tree({l})
  BY <1>1, <1>2 DEF Tree
<1>4. QED
  BY <1>1, <1>3 DEF BytesUnder

\* A picture that repeats one byte has a tree that is a leaf: no bit leads there.
LEMMA OneByteOneLeaf ==
  ASSUME NEW t, Tree(t), NEW b, BytesUnder(t) = {b}
  PROVE  t = {<<<<>>, b>>}
<1>1. PICK l \in t : TRUE
  BY DEF Tree
<1>2. t = {l} /\ l[2] = b /\ l \in Leaf
  BY <1>1 DEF Tree, BytesUnder
<1>3. l[1] \in Path /\ l = <<l[1], b>> /\ <<>> \in Path
  BY <1>2, LeafFields, EmptySeq DEF Path
<1>4. NodeAt(t, <<>>)
  BY <1>2, <1>3, PrefixReflexive DEF NodeAt
<1>5. LeafAt(t, <<>>) # {}
  <2>1. SUFFICES ASSUME \A c \in Bit : NodeAt(t, Append(<<>>, c)) PROVE FALSE
    BY <1>3, <1>4 DEF Tree
  <2>2. 0 \in Bit /\ 1 \in Bit /\ <<0>> \in Path /\ <<1>> \in Path
    BY DEF Bit, Path
  <2>3. IsPrefix(<<0>>, l[1]) /\ IsPrefix(<<1>>, l[1])
    <3>1. Append(<<>>, 0) = <<0>> /\ Append(<<>>, 1) = <<1>>
      OBVIOUS
    <3>2. NodeAt(t, <<0>>) /\ NodeAt(t, <<1>>)
      BY <2>1, <2>2, <3>1, Zenon
    <3>3. QED
      BY <1>2, <3>2 DEF NodeAt
  <2>4. <<0>>[1] = l[1][1] /\ <<1>>[1] = l[1][1]
    BY <1>3, <2>2, <2>3, PrefixByElements
  <2>5. QED
    BY <2>4
<1>6. QED
  BY <1>2, <1>3, <1>5 DEF LeafAt

-----------------------------------------------------------------------------
(* Lists of trees.                                                         *)

\* A list of whole trees under which each byte of u is once, and no other.
Forest(s, u) ==
  /\ s \in Seq(Nodes)
  /\ \A k \in 1..Len(s) : Tree(s[k].leaves)
  /\ \A k \in 1..Len(s), l \in 1..Len(s) :
       k # l => BytesUnder(s[k].leaves) \cap BytesUnder(s[l].leaves) = {}
  /\ \A b : b \in u <=> \E k \in 1..Len(s) : b \in BytesUnder(s[k].leaves)

\* The two parts of a node of the list.
LEMMA NodeFields ==
  /\ \A a \in Nodes : a.times \in Nat /\ a.leaves \subseteq Leaf
  /\ \A n \in Nat, t \in SUBSET Leaf : [times |-> n, leaves |-> t] \in Nodes
BY DEF Nodes

\* A list whose elements are those of another in another order.
LEMMA ForestReordered ==
  ASSUME NEW s, NEW u, Forest(s, u), NEW r \in Seq(Nodes), Len(r) = Len(s),
         NEW f \in [1..Len(s) -> 1..Len(s)],
         \A k \in 1..Len(s) : r[k] = s[f[k]] /\ f[f[k]] = k
  PROVE  Forest(r, u)
<1>1. \A k \in 1..Len(r) : f[k] \in 1..Len(s) /\ r[k] = s[f[k]] /\ f[f[k]] = k
  OBVIOUS
<1>2. \A k \in 1..Len(r) : Tree(r[k].leaves)
  BY <1>1 DEF Forest
<1>3. ASSUME NEW k \in 1..Len(r), NEW l \in 1..Len(r), k # l
      PROVE  BytesUnder(r[k].leaves) \cap BytesUnder(r[l].leaves) = {}
  <2>1. f[k] \in 1..Len(s) /\ f[l] \in 1..Len(s) /\ f[k] # f[l]
    BY <1>1, <1>3
  <2>2. BytesUnder(s[f[k]].leaves) \cap BytesUnder(s[f[l]].leaves) = {}
    BY <2>1 DEF Forest
  <2>3. QED
    BY <1>1, <2>2
<1>4. ASSUME NEW b PROVE b \in u <=> \E k \in 1..Len(r) : b \in BytesUnder(r[k].leaves)
  <2>1. (\E k \in 1..Len(s) : b \in BytesUnder(s[k].leaves)) <=>
          \E k \in 1..Len(r) : b \in BytesUnder(r[k].leaves)
    BY <1>1
  <2>2. QED
    BY <2>1 DEF Forest
<1>5. QED
  BY <1>2, <1>3, <1>4 DEF Forest

\* sort's exchange of two neighbours keeps every tree of the list.
LEMMA SwappedForest ==
  ASSUME NEW s, NEW u, Forest(s, u), NEW k \in 1..(Len(s) - 1)
  PROVE  /\ Forest(Swapped(s, k), u) /\ Len(Swapped(s, k)) = Len(s)
         /\ \A j \in 1..Len(s) : Swapped(s, k)[j] = IF j = k THEN s[k + 1]
                                                  ELSE IF j = k + 1 THEN s[k] ELSE s[j]
<1> DEFINE f == [j \in 1..Len(s) |-> IF j = k THEN k + 1 ELSE IF j = k + 1 THEN k ELSE j]
<1>1. s \in Seq(Nodes) /\ Len(s) \in Nat /\ k \in 1..Len(s) /\ k + 1 \in 1..Len(s)
  BY LenProperties DEF Forest
<1>2. s[k] \in Nodes /\ s[k + 1] \in Nodes
  BY <1>1, ElementOfSeq
<1>3. PICK q : q = [s EXCEPT ![k] = s[k + 1]]
  OBVIOUS
<1>4. PICK r : r = [q EXCEPT ![k + 1] = s[k]]
  OBVIOUS
<1>5. /\ q \in Seq(Nodes) /\ Len(q) = Len(s)
      /\ \A j \in 1..Len(s) : q[j] = IF j = k THEN s[k + 1] ELSE s[j]
  BY <1>1, <1>2, <1>3, ExceptSeq
<1>6. /\ r \in Seq(Nodes) /\ Len(r) = Len(s)
      /\ \A j \in 1..Len(s) : r[j] = IF j = k + 1 THEN s[k] ELSE q[j]
  BY <1>1, <1>2, <1>4, <1>5, ExceptSeq
<1>7. Swapped(s, k) = r
  BY <1>3, <1>4 DEF Swapped
<1>8. /\ f \in [1..Len(s) -> 1..Len(s)]
      /\ \A j \in 1..Len(s) : f[j] = IF j = k THEN k + 1 ELSE IF j = k + 1 THEN k ELSE j
  BY <1>1
<1> HIDE DEF f
<1>9. \A j \in 1..Len(s) : r[j] = s[f[j]] /\ f[f[j]] = j
  BY <1>1, <1>5, <1>6, <1>8
<1>10. Forest(r, u)
  BY <1>6, <1>8, <1>9, ForestReordered
<1>11. \A j \in 1..Len(s) : r[j] = IF j = k THEN s[k + 1] ELSE IF j = k + 1 THEN s[k] ELSE s[j]
  BY <1>1, <1>5, <1>6
<1>12. QED
  BY <1>6, <1>7, <1>10, <1>11

\* A new byte is a leaf at the end.
LEMMA LongerForest ==
  ASSUME NEW s, NEW u, Forest(s, u), NEW b \in Bytes, b \notin u, NEW n \in Nat
  PROVE  Forest(Append(s, LeafNode(b, n)), u \cup {b}) /\ Len(Append(s, LeafNode(b, n))) = Len(s) + 1
<1>1. s \in Seq(Nodes) /\ Len(s) \in Nat
  BY LenProperties DEF Forest
<1>2. PICK a : a = LeafNode(b, n)
  OBVIOUS
<1>3. a \in Nodes /\ Tree(a.leaves) /\ BytesUnder(a.leaves) = {b}
  <2>1. a.leaves = {<<<<>>, b>>} /\ a = [times |-> n, leaves |-> {<<<<>>, b>>}]
    BY <1>2 DEF LeafNode
  <2>2. Tree(a.leaves) /\ BytesUnder(a.leaves) = {b}
    BY <2>1, LeafIsTree
  <2>3. QED
    BY <2>1, <2>2, NodeFields DEF Tree
<1>4. PICK r : r = Append(s, a)
  OBVIOUS
<1>5. /\ r \in Seq(Nodes) /\ Len(r) = Len(s) + 1
      /\ \A k \in 1..Len(s) : r[k] = s[k]
      /\ r[Len(s) + 1] = a
  BY <1>1, <1>3, <1>4, AppendProperties
<1>6. \A k \in 1..Len(r) : k \in 1..Len(s) \/ k = Len(s) + 1
  BY <1>1, <1>5
<1>7. \A k \in 1..Len(s) : b \notin BytesUnder(s[k].leaves)
  BY DEF Forest
<1>8. \A k \in 1..Len(r) : Tree(r[k].leaves)
  BY <1>3, <1>5, <1>6 DEF Forest
<1>9. ASSUME NEW k \in 1..Len(r), NEW l \in 1..Len(r), k # l
      PROVE  BytesUnder(r[k].leaves) \cap BytesUnder(r[l].leaves) = {}
  <2>1. CASE k \in 1..Len(s) /\ l \in 1..Len(s)
    BY <1>5, <1>9, <2>1 DEF Forest
  <2>2. CASE k = Len(s) + 1 /\ l \in 1..Len(s)
    BY <1>3, <1>5, <1>7, <2>2
  <2>3. CASE l = Len(s) + 1 /\ k \in 1..Len(s)
    BY <1>3, <1>5, <1>7, <2>3
  <2>4. QED
    BY <1>6, <1>9, <2>1, <2>2, <2>3
<1>10. ASSUME NEW c PROVE c \in u \cup {b} <=> \E k \in 1..Len(r) : c \in BytesUnder(r[k].leaves)
  <2>1. c \in u <=> \E k \in 1..Len(s) : c \in BytesUnder(s[k].leaves)
    BY DEF Forest
  <2>2. \A k \in 1..Len(s) : k \in 1..Len(r)
    BY <1>1, <1>5
  <2>3. Len(s) + 1 \in 1..Len(r)
    BY <1>1, <1>5
  <2>4. QED
    BY <1>3, <1>5, <1>6, <2>1, <2>2, <2>3
<1>11. QED
  BY <1>2, <1>4, <1>5, <1>8, <1>9, <1>10 DEF Forest

\* The first two become one at the end.
LEMMA CombinedForest ==
  ASSUME NEW s, NEW u, Forest(s, u), Len(s) >= 2
  PROVE  LET r == Append(Tail(Tail(s)), Joined(s[1], s[2])) IN
         Forest(r, u) /\ Len(r) = Len(s) - 1
<1>1. s \in Seq(Nodes) /\ Len(s) \in Nat /\ 1 \in 1..Len(s) /\ 2 \in 1..Len(s)
  BY LenProperties DEF Forest
<1>2. PICK j : j = Joined(s[1], s[2])
  OBVIOUS
<1>3. /\ Tree(s[1].leaves) /\ Tree(s[2].leaves) /\ s[1] \in Nodes /\ s[2] \in Nodes
      /\ BytesUnder(s[1].leaves) \cap BytesUnder(s[2].leaves) = {}
  BY <1>1, ElementOfSeq DEF Forest
<1>4. /\ j.leaves = Under(1, s[1].leaves) \cup Under(0, s[2].leaves)
      /\ j = [times |-> s[1].times + s[2].times, leaves |-> j.leaves]
  BY <1>2, JoinedLeaves
<1>5. Tree(j.leaves) /\ BytesUnder(j.leaves) = BytesUnder(s[1].leaves) \cup BytesUnder(s[2].leaves)
  BY <1>3, <1>4, JoinedIsTree
<1>6. j \in Nodes
  <2>1. s[1].times + s[2].times \in Nat
    BY <1>3, NodeFields
  <2>2. j.leaves \in SUBSET Leaf
    BY <1>5 DEF Tree
  <2>3. QED
    BY <1>4, <2>1, <2>2, NodeFields
<1>7. PICK t : t = Tail(Tail(s))
  OBVIOUS
<1>8. t \in Seq(Nodes) /\ Len(t) = Len(s) - 2 /\ \A k \in 1..Len(t) : t[k] = s[k + 2]
  <2>1. PICK v : v = Tail(s)
    OBVIOUS
  <2>2. v \in Seq(Nodes) /\ Len(v) = Len(s) - 1 /\ \A k \in 1..Len(v) : v[k] = s[k + 1]
    <3>1. s # <<>>
      BY <1>1
    <3>2. QED
      BY <1>1, <2>1, <3>1, HeadTailProperties
  <2>3. v # <<>>
    BY <1>1, <2>2
  <2>4. t \in Seq(Nodes) /\ Len(t) = Len(v) - 1 /\ \A k \in 1..Len(t) : t[k] = v[k + 1]
    BY <1>7, <2>1, <2>2, <2>3, HeadTailProperties
  <2>5. ASSUME NEW k \in 1..Len(t) PROVE t[k] = s[k + 2]
    <3>1. k + 1 \in 1..Len(v) /\ (k + 1) + 1 = k + 2
      BY <1>1, <2>2, <2>4
    <3>2. QED
      BY <2>2, <2>4, <3>1
  <2>6. QED
    BY <1>1, <2>2, <2>4, <2>5
<1>9. PICK r : r = Append(t, j)
  OBVIOUS
<1>10. /\ r \in Seq(Nodes) /\ Len(r) = Len(s) - 1
       /\ \A k \in 1..(Len(s) - 2) : r[k] = s[k + 2] /\ k + 2 \in 1..Len(s)
       /\ r[Len(s) - 1] = j
  BY <1>1, <1>6, <1>8, <1>9, AppendProperties
<1>11. \A k \in 1..Len(r) : k \in 1..(Len(s) - 2) \/ k = Len(s) - 1
  BY <1>1, <1>10
<1>12. \A k \in 1..Len(r) : Tree(r[k].leaves)
  BY <1>5, <1>10, <1>11 DEF Forest
<1>13. \A k \in 1..(Len(s) - 2) : BytesUnder(r[k].leaves) \cap BytesUnder(j.leaves) = {}
  <2>1. \A k \in 1..(Len(s) - 2) : k + 2 # 1 /\ k + 2 # 2
    BY <1>1
  <2>2. \A k \in 1..(Len(s) - 2) : /\ BytesUnder(s[k + 2].leaves) \cap BytesUnder(s[1].leaves) = {}
                                   /\ BytesUnder(s[k + 2].leaves) \cap BytesUnder(s[2].leaves) = {}
    BY <1>1, <1>10, <2>1 DEF Forest
  <2>3. QED
    BY <1>5, <1>10, <2>2
<1>14. ASSUME NEW k \in 1..Len(r), NEW l \in 1..Len(r), k # l
       PROVE  BytesUnder(r[k].leaves) \cap BytesUnder(r[l].leaves) = {}
  <2>1. CASE k \in 1..(Len(s) - 2) /\ l \in 1..(Len(s) - 2)
    <3>1. k + 2 # l + 2 /\ k + 2 \in 1..Len(s) /\ l + 2 \in 1..Len(s)
      BY <1>10, <1>14, <2>1
    <3>2. BytesUnder(s[k + 2].leaves) \cap BytesUnder(s[l + 2].leaves) = {}
      BY <3>1 DEF Forest
    <3>3. QED
      BY <1>10, <2>1, <3>2
  <2>2. CASE k = Len(s) - 1 /\ l \in 1..(Len(s) - 2)
    BY <1>10, <1>13, <2>2
  <2>3. CASE l = Len(s) - 1 /\ k \in 1..(Len(s) - 2)
    BY <1>10, <1>13, <2>3
  <2>4. QED
    BY <1>11, <1>14, <2>1, <2>2, <2>3
<1>15. ASSUME NEW b PROVE b \in u <=> \E k \in 1..Len(r) : b \in BytesUnder(r[k].leaves)
  <2>1. b \in u <=> \E k \in 1..Len(s) : b \in BytesUnder(s[k].leaves)
    BY DEF Forest
  <2>2. Len(s) - 1 \in 1..Len(r) /\ \A k \in 1..(Len(s) - 2) : k \in 1..Len(r)
    BY <1>1, <1>10
  <2>3. ASSUME NEW k \in 1..Len(s), b \in BytesUnder(s[k].leaves)
        PROVE  \E l \in 1..Len(r) : b \in BytesUnder(r[l].leaves)
    <3>1. CASE k = 1 \/ k = 2
      BY <1>5, <1>10, <2>2, <2>3, <3>1
    <3>2. CASE k # 1 /\ k # 2
      <4>1. k - 2 \in 1..(Len(s) - 2) /\ (k - 2) + 2 = k
        BY <1>1, <3>2
      <4>2. r[k - 2] = s[k]
        BY <1>10, <4>1
      <4>3. QED
        BY <2>2, <2>3, <4>1, <4>2
    <3>3. QED
      BY <3>1, <3>2
  <2>4. ASSUME NEW k \in 1..Len(r), b \in BytesUnder(r[k].leaves)
        PROVE  \E l \in 1..Len(s) : b \in BytesUnder(s[l].leaves)
    BY <1>1, <1>5, <1>10, <1>11, <2>4
  <2>5. QED
    BY <2>1, <2>3, <2>4
<1>16. QED
  BY <1>2, <1>7, <1>9, <1>10, <1>12, <1>14, <1>15 DEF Forest

\* Two nodes of a list with the same digit are one, or are no leaves: only then
\* does sort take a node for the head that is not.
LEMMA SameDigit ==
  ASSUME NEW s, NEW u, Forest(s, u), NEW k \in 1..Len(s), k # 1, TakenForHead(s, k)
  PROVE  ~IsLeaf(s[k])
<1>1. 1 \in 1..Len(s) /\ Len(s) \in Nat
  BY LenProperties DEF Forest
<1>2. SUFFICES ASSUME IsLeaf(s[k]) PROVE FALSE
  OBVIOUS
<1>3. Digit(s[k]) \in Bytes /\ <<<<>>, Digit(s[k])>> \in s[k].leaves
  BY <1>2 DEF Digit, IsLeaf
<1>4. Digit(s[1]) = Digit(s[k])
  BY DEF TakenForHead
<1>5. IsLeaf(s[1])
  BY <1>3, <1>4, NoByteAssumption DEF Digit
<1>6. <<<<>>, Digit(s[1])>> \in s[1].leaves
  BY <1>5 DEF Digit, IsLeaf
<1>7. Digit(s[k]) \in BytesUnder(s[k].leaves) /\ Digit(s[k]) \in BytesUnder(s[1].leaves)
  BY <1>3, <1>4, <1>6 DEF BytesUnder
<1>8. QED
  BY <1>1, <1>7 DEF Forest

-----------------------------------------------------------------------------
(* The invariant: what holds in each loop of the program.                  *)

\* What is at the first n places of a sequence.
Seen(s, n) == {s[k] : k \in 1..n}

Unread == written = {} /\ lines = <<>> /\ rebuilt = {} /\ walk = <<>> /\ out = <<>>
Uncoded == todo = <<>> /\ codes = <<>> /\ codigote = <<>> /\ Unread

\* compress: the list is a forest of the bytes so far, and in sort the two at
\* temp, which the pass before has compared, are in order.
Counting ==
  /\ pc = "count" /\ i \in 1..(Len(digits) + 1) /\ temp = 1
  /\ length = Len(list) /\ Forest(list, Seen(digits, i - 1)) /\ Uncoded
Building ==
  /\ pc = "build" /\ temp \in 1..Len(list)
  /\ length = Len(list) /\ Forest(list, Used) /\ Uncoded
Sorting ==
  /\ pc = "sort" /\ temp \in 1..(Len(list) - 1)
  /\ length = Len(list) /\ Forest(list, Used) /\ Uncoded
  /\ temp # 1 => list[temp].times <= list[temp + 1].times

\* codifier: the codes are paths of the tree, and a leaf without one is under
\* a path of a call to come.
Planted == Tree(tree) /\ BytesUnder(tree) = Used
CodesOfTree == DOMAIN codes \subseteq Used /\ \A b \in DOMAIN codes : <<codes[b], b>> \in tree
Codifying ==
  /\ pc = "codify" /\ Planted /\ CodesOfTree /\ codigote = <<>> /\ Unread
  /\ \A k \in 1..Len(todo) : NodeAt(tree, todo[k])
  /\ \A l \in tree : l[2] \in DOMAIN codes \/ \E k \in 1..Len(todo) : IsPrefix(todo[k], l[1])

AllCoded == Planted /\ CodesOfTree /\ DOMAIN codes = Used

\* encoder: e[k] is what the first k bytes are encoded to, each a beginning of
\* the codigote.
NoBits == \A b \in Used : codes[b] = <<>>
EncodedBy(e, n) ==
  /\ e \in [0..n -> Path] /\ e[0] = <<>> /\ e[n] = codigote
  /\ \A k \in 1..n : e[k] = e[k - 1] \o codes[digits[k]]
  /\ \A k \in 0..n : IsPrefix(e[k], codigote)
  /\ NoBits => codigote = <<>>
Encoding ==
  /\ pc = "encode" /\ AllCoded /\ i \in 1..(Len(digits) + 1) /\ Unread
  /\ \E e : EncodedBy(e, i - 1)

Stored == AllCoded /\ \E e : EncodedBy(e, Len(digits))

\* The tree file: the lines n and n + 1 are those of the newline, if it is
\* among the bytes written, and any other is a byte and its code.
RecordOf(b) == <<b>> \o codes[b]
NotNewline(n) == DOMAIN lines \ {n, n + 1}
LinesAre(n) ==
  /\ IF Newline \in written
     THEN n \in 1..(Len(lines) - 1) /\ lines[n] = <<>> /\ lines[n + 1] = codes[Newline]
     ELSE n = -1
  /\ \A k \in NotNewline(n) : \E b \in written \ {Newline} : lines[k] = RecordOf(b)
  /\ \A b \in written \ {Newline} : \E k \in NotNewline(n) : lines[k] = RecordOf(b)
Writing ==
  /\ pc = "write" /\ Stored /\ written \subseteq Used
  /\ rebuilt = {} /\ walk = <<>> /\ out = <<>>
  /\ \E n \in Int : LinesAre(n)

\* treeReconstructor: the leaves with a bit in their path, of the lines read.
Branches == {l \in tree : l[1] # <<>>}
Reading ==
  /\ pc = "read" /\ Stored /\ written = Used /\ walk = <<>> /\ out = <<>>
  /\ i \in Nat \ {0} /\ rebuilt \subseteq Branches
  /\ \E n \in Int :
       /\ LinesAre(n) /\ i # n + 1
       /\ \A l \in Branches : \A k \in 1..(i - 1) :
            /\ k \in NotNewline(n) /\ lines[k] = RecordOf(l[2]) => l \in rebuilt
            /\ k = n /\ l[2] = Newline => l \in rebuilt

\* decompress: j bytes are out, and walk is on the way to the next.
DecodedTo(e, j) ==
  /\ j \in 0..Len(digits) /\ out = SubSeq(digits, 1, j) /\ i = Len(e[j]) + Len(walk)
  /\ walk = <<>> \/ (/\ j < Len(digits) /\ walk # codes[digits[j + 1]]
                     /\ IsPrefix(walk, codes[digits[j + 1]]))
Decoding ==
  /\ pc = "decode" /\ AllCoded /\ rebuilt = Branches
  /\ \E e : EncodedBy(e, Len(digits)) /\ \E j \in Nat : DecodedTo(e, j)
  /\ NoBits => out = <<>>

Ended == pc = "done" /\ RoundTrip
Died == pc = "died" /\ digits = <<>>

HuffInv ==
  /\ TypeOK
  /\ \/ Counting \/ Building \/ Sorting \/ Codifying \/ Encoding
     \/ Writing \/ Reading \/ Decoding \/ Ended \/ Died

-----------------------------------------------------------------------------
(* The steps of compress.                                                  *)

\* The picture as a sequence: its places, and the bytes at them.
LEMMA Places ==
  ASSUME TypeOK
  PROVE  /\ digits \in Seq(Bytes) /\ Len(digits) \in Nat /\ DOMAIN digits = 1..Len(digits)
         /\ \A k \in 1..Len(digits) : digits[k] \in Bytes /\ digits[k] \in Used
         /\ Used = Seen(digits, Len(digits)) /\ Used \subseteq Bytes
<1>1. digits \in Seq(Bytes) /\ Len(digits) \in Nat /\ DOMAIN digits = 1..Len(digits)
  BY LenProperties DEF TypeOK
<1>2. \A k \in 1..Len(digits) : digits[k] \in Bytes
  BY <1>1, ElementOfSeq
<1>3. QED
  BY <1>1, <1>2 DEF Used, Seen

\* compress starts with an empty list and no byte counted.
LEMMA InitPhase == Init => TypeOK /\ Counting
<1> SUFFICES ASSUME Init PROVE TypeOK /\ Counting
  OBVIOUS
<1> USE DEF Init
<1>1. digits \in Seq(Bytes) /\ Len(digits) \in Nat
  BY PicturesAssumption, LenProperties
<1>2. \A S : <<>> \in Seq(S) /\ Len(<<>>) = 0
  BY EmptySeq
<1>3. DOMAIN codes = {}
  OBVIOUS
<1>4. TypeOK
  BY <1>1, <1>2, <1>3 DEF TypeOK, Path
<1>5. Seen(digits, i - 1) = {}
  BY DEF Seen
<1>6. Forest(list, {})
  BY <1>2 DEF Forest
<1>7. Uncoded
  BY DEF Uncoded, Unread
<1>8. 1 \in 1..(Len(digits) + 1)
  BY <1>1
<1>9. QED
  BY <1>2, <1>4, <1>5, <1>6, <1>7, <1>8 DEF Counting

\* What the counting loop counts is a number.
LEMMA TimesType == ASSUME TypeOK, NEW k \in Nat PROVE Times(k) \in Nat
<1> DEFINE I == k..(Len(digits) - k + 1)
           S == {j \in I : digits[j] = digits[k]}
<1>1. IsFiniteSet(I)
  BY Places, FS_Interval
<1>2. S \in SUBSET I
  OBVIOUS
<1>3. IsFiniteSet(S)
  BY <1>1, <1>2, FS_Subset
<1>4. Cardinality(S) \in Nat
  BY <1>3, FS_CardinalityType
<1>5. QED
  BY <1>4 DEF Times

\* One round of the counting loop: a byte met before changes nothing, another is a new leaf.
LEMMA CountStep ==
  ASSUME TypeOK, Counting, CountByte
  PROVE  TypeOK' /\ Counting'
<1>1. /\ i \in 1..Len(digits) /\ i' = i + 1 /\ temp' = 1 /\ pc' = "count"
      /\ UNCHANGED <<digits, tree, todo, codes, codigote, written, lines, rebuilt, walk, out>>
  BY Places DEF Counting, CountByte, coding, reading
<1>2. Len(digits) \in Nat /\ digits[i] \in Bytes /\ i - 1 \in Nat
  BY <1>1, Places
<1>3. Uncoded'
  BY <1>1 DEF Counting, Uncoded, Unread
<1>4. Seen(digits, i) = Seen(digits, i - 1) \cup {digits[i]}
  <2>1. \A k \in 1..i : k \in 1..(i - 1) \/ k = i
    BY <1>1
  <2>2. \A k \in 1..(i - 1) : k \in 1..i
    BY <1>1
  <2>3. i \in 1..i
    BY <1>1
  <2>4. QED
    BY <2>1, <2>2, <2>3 DEF Seen
<1>5. Found(i) <=> digits[i] \in Seen(digits, i - 1)
  BY DEF Found, Seen
<1>6. Forest(list', Seen(digits, i)) /\ length' = Len(list')
  <2>1. CASE Found(i)
    BY <1>4, <1>5, <2>1 DEF CountByte, Counting
  <2>2. CASE ~Found(i)
    <3>1. list' = Append(list, LeafNode(digits[i], Times(i))) /\ length' = length + 1
      BY <2>2 DEF CountByte
    <3>2. Times(i) \in Nat
      BY <1>1, TimesType
    <3>3. Forest(list, Seen(digits, i - 1)) /\ length = Len(list)
      BY DEF Counting
    <3>4. /\ Forest(list', Seen(digits, i - 1) \cup {digits[i]})
          /\ Len(list') = Len(list) + 1
      BY <1>2, <1>5, <2>2, <3>1, <3>2, <3>3, LongerForest
    <3>5. QED
      BY <1>4, <3>1, <3>3, <3>4
  <2>3. QED
    BY <2>1, <2>2
<1>7. /\ i' \in 1..(Len(digits') + 1) /\ pc' = "count" /\ temp' = 1
      /\ Forest(list', Seen(digits', i' - 1))
  <2>1. i' - 1 = i /\ digits' = digits
    BY <1>1
  <2>2. i' \in 1..(Len(digits) + 1)
    BY <1>1, <1>2
  <2>3. QED
    BY <1>1, <1>6, <2>1, <2>2
<1>8. Counting'
  BY <1>3, <1>6, <1>7 DEF Counting
<1>9. TypeOK'
  <2>1. list' \in Seq(Nodes) /\ Len(list') \in Nat
    BY <1>6, LenProperties DEF Forest
  <2>2. QED
    BY <1>1, <1>6, <2>1 DEF TypeOK
<1>10. QED
  BY <1>8, <1>9

\* The condition of the outer loop: with two nodes or more sort runs, with one its tree
\* is that of the whole picture, and with none the picture was empty.
LEMMA BuildStep ==
  ASSUME TypeOK, Counting \/ Building, Build
  PROVE  TypeOK' /\ (Sorting' \/ Codifying' \/ Died')
<1>1. /\ Forest(list, Used) /\ length = Len(list) /\ Uncoded /\ temp >= 1
      /\ list # <<>> => temp \in 1..Len(list)
  <2>1. CASE Counting
    <3>1. pc = "count" /\ pc # "build"
      BY <2>1 DEF Counting
    <3>2. i > Len(digits)
      BY <3>1 DEF Build
    <3>3. i - 1 = Len(digits) /\ Seen(digits, i - 1) = Used
      BY <2>1, <3>2, Places DEF Counting
    <3>4. list # <<>> => Len(list) >= 1
      BY <2>1, EmptySeq DEF Counting, Forest
    <3>5. list \in Seq(Nodes) /\ Len(list) \in Nat
      BY <2>1, LenProperties DEF Counting, Forest
    <3>6. QED
      BY <2>1, <3>3, <3>4, <3>5 DEF Counting
  <2>2. CASE Building
    <3>1. list \in Seq(Nodes) /\ Len(list) \in Nat
      BY <2>2, LenProperties DEF Building, Forest
    <3>2. QED
      BY <2>2, <3>1 DEF Building
  <2>3. QED
    BY <2>1, <2>2
<1>2. list \in Seq(Nodes) /\ Len(list) \in Nat /\ (list # <<>> => Len(list) >= 1) /\ (list = <<>> => Len(list) = 0)
  BY <1>1, LenProperties, EmptySeq DEF Forest
<1>3. UNCHANGED <<digits, i, list, length, codes, codigote, written, lines, rebuilt, walk, out>>
  BY DEF Build, reading
<1>4. Unread' /\ codigote' = <<>> /\ codes' = <<>> /\ Used' = Used
  BY <1>1, <1>3 DEF Uncoded, Unread, Used
<1>5. CASE length >= 2 /\ pc' = "sort" /\ temp' = 1 /\ UNCHANGED <<tree, todo>>
  <2>1. Sorting'
    BY <1>1, <1>2, <1>3, <1>4, <1>5 DEF Sorting, Uncoded
  <2>2. TypeOK'
    BY <1>3, <1>5 DEF TypeOK
  <2>3. QED
    BY <2>1, <2>2
<1>6. CASE length < 2 /\ list # <<>> /\ pc' = "codify" /\ tree' = Head(list).leaves /\ todo' = <<<<>>>>
           /\ UNCHANGED temp
  <2>1. Len(list) = 1 /\ Head(list) = list[1]
    BY <1>1, <1>2, <1>6
  <2>2. Tree(tree') /\ BytesUnder(tree') = Used
    <3>1. tree' = list[1].leaves
      BY <1>6, <2>1
    <3>2. Tree(tree')
      BY <1>1, <2>1, <3>1 DEF Forest
    <3>3. \A b : b \in Used <=> b \in BytesUnder(tree')
      BY <1>1, <2>1, <3>1 DEF Forest
    <3>4. QED
      BY <3>2, <3>3
  <2>3. Len(todo') = 1 /\ todo'[1] = <<>> /\ <<>> \in Path /\ todo' \in Seq(Path)
    BY <1>6, EmptySeq DEF Path
  <2>4. tree' \subseteq Leaf /\ tree' # {}
    BY <2>2 DEF Tree
  <2>5. \A l \in tree' : IsPrefix(<<>>, l[1])
    BY <2>4, LeafFields, PrefixReflexive
  <2>6. NodeAt(tree', <<>>)
    BY <2>4, <2>5 DEF NodeAt
  <2>7. Planted'
    BY <1>4, <2>2 DEF Planted
  <2>8. DOMAIN codes' = {}
    BY <1>4
  <2>9. CodesOfTree'
    BY <2>8 DEF CodesOfTree
  <2>10. \A l \in tree' : \E k \in 1..Len(todo') : IsPrefix(todo'[k], l[1])
    BY <2>3, <2>5
  <2>11. \A k \in 1..Len(todo') : NodeAt(tree', todo'[k])
    BY <2>3, <2>6
  <2>12. Codifying'
    BY <1>4, <1>6, <2>7, <2>9, <2>10, <2>11 DEF Codifying, NodeAt
  <2>13. TypeOK'
    BY <1>3, <1>6, <2>3, <2>4 DEF TypeOK
  <2>14. QED
    BY <2>12, <2>13
<1>7. CASE list = <<>> /\ pc' = "died" /\ UNCHANGED <<temp, tree, todo>>
  <2>1. \A b : b \notin Used
    BY <1>1, <1>2, <1>7 DEF Forest
  <2>2. Len(digits) = 0
    <3>1. SUFFICES ASSUME Len(digits) # 0 PROVE FALSE
      OBVIOUS
    <3>2. 1 \in 1..Len(digits)
      BY <3>1, Places
    <3>3. QED
      BY <2>1, <3>2, Places
  <2>3. digits = <<>>
    BY <2>2, Places, EmptySeq
  <2>4. TypeOK'
    BY <1>3, <1>7 DEF TypeOK
  <2>5. QED
    BY <1>3, <1>7, <2>3, <2>4 DEF Died
<1>8. QED
  BY <1>5, <1>6, <1>7 DEF Build

\* sort loses no node: a node that is taken for the head is the head, or has
\* none behind it that is out of order.
LEMMA SortHead ==
  ASSUME Sorting, TakenForHead(list, temp), OutOfOrder(list[temp], list[temp + 1])
  PROVE  temp = 1
<1>1. Forest(list, Used) /\ temp \in 1..(Len(list) - 1) /\ Len(list) \in Nat
  BY LenProperties DEF Sorting, Forest
<1>2. temp \in 1..Len(list) /\ temp + 1 \in 1..Len(list)
  BY <1>1
<1>3. SUFFICES ASSUME temp # 1 PROVE FALSE
  OBVIOUS
<1>4. ~IsLeaf(list[temp])
  BY <1>1, <1>2, <1>3, SameDigit
<1>5. list[temp].times > list[temp + 1].times
  BY <1>4 DEF OutOfOrder
<1>6. list[temp].times <= list[temp + 1].times
  BY <1>3 DEF Sorting
<1>7. list[temp].times \in Nat /\ list[temp + 1].times \in Nat
  BY <1>1, <1>2, ElementOfSeq, NodeFields DEF Forest
<1>8. QED
  BY <1>5, <1>6, <1>7

\* One pass of sort keeps the nodes of the list and their trees: the head is
\* replaced only when temp is the head, so no node is cut off.
LEMMA SortStepSorts ==
  ASSUME TypeOK, Sorting, SortStep
  PROVE  TypeOK' /\ Sorting'
<1>1. /\ Forest(list, Used) /\ temp \in 1..(Len(list) - 1) /\ Len(list) \in Nat /\ pc = "sort"
      /\ length = Len(list) /\ Uncoded
  BY LenProperties DEF Sorting, Forest
<1>2. /\ temp + 2 <= Len(list)
      /\ UNCHANGED <<pc, digits, i, length, tree, todo, codes, codigote, written, lines, rebuilt, walk, out>>
  BY DEF SortStep, coding, reading
<1>3. PICK l : l = IF TakenForHead(list, temp) /\ OutOfOrder(list[temp], list[temp + 1])
                   THEN NewHead(list, temp) ELSE list
  OBVIOUS
<1>4. PICK t : t = IF TakenForHead(list, temp) /\ OutOfOrder(list[temp], list[temp + 1])
                   THEN 1 ELSE temp
  OBVIOUS
<1>5. t = temp /\ Forest(l, Used) /\ Len(l) = Len(list)
  <2>1. CASE TakenForHead(list, temp) /\ OutOfOrder(list[temp], list[temp + 1])
    <3>1. temp = 1
      BY <2>1, SortHead
    <3>2. SubSeq(list, 1, Len(list)) = list
      BY <1>1, SubSeqFull DEF Forest
    <3>3. l = Swapped(list, 1) /\ t = temp
      BY <1>3, <1>4, <2>1, <3>1, <3>2 DEF NewHead
    <3>4. QED
      BY <1>1, <3>1, <3>3, SwappedForest
  <2>2. CASE ~(TakenForHead(list, temp) /\ OutOfOrder(list[temp], list[temp + 1]))
    BY <1>1, <1>3, <1>4, <2>2
  <2>3. QED
    BY <2>1, <2>2
<1>6. \/ l[temp + 2].times < l[temp + 1].times /\ list' = Swapped(l, temp + 1) /\ temp' = 1
      \/ list' = Swapped(l, temp + 1) /\ temp' = 1
      \/ ~(l[temp + 2].times < l[temp + 1].times) /\ list' = l /\ temp' = temp + 1
  BY <1>3, <1>4, <1>5 DEF SortStep
<1>7. temp + 1 \in 1..(Len(l) - 1) /\ temp + 1 \in 1..Len(l) /\ temp + 2 \in 1..Len(l)
  BY <1>1, <1>2, <1>5
<1>8. l[temp + 1].times \in Nat /\ l[temp + 2].times \in Nat
  BY <1>5, <1>7, ElementOfSeq, NodeFields DEF Forest
<1>9. /\ Forest(list', Used) /\ Len(list') = Len(list) /\ temp' \in 1..(Len(list) - 1)
      /\ temp' # 1 => list'[temp'].times <= list'[temp' + 1].times
  <2>1. CASE list' = Swapped(l, temp + 1) /\ temp' = 1
    BY <1>1, <1>2, <1>5, <1>7, <2>1, SwappedForest
  <2>2. CASE ~(l[temp + 2].times < l[temp + 1].times) /\ list' = l /\ temp' = temp + 1
    <3>1. temp' + 1 = temp + 2 /\ temp' \in 1..(Len(list) - 1)
      BY <1>1, <1>2, <2>2
    <3>2. l[temp + 1].times <= l[temp + 2].times
      BY <1>8, <2>2
    <3>3. QED
      BY <1>5, <2>2, <3>1, <3>2
  <2>3. QED
    BY <1>6, <2>1, <2>2
<1>10. Used' = Used /\ Uncoded'
  BY <1>1, <1>2 DEF Used, Uncoded, Unread
<1>11. Sorting'
  BY <1>1, <1>2, <1>9, <1>10 DEF Sorting
<1>12. list' \in Seq(Nodes)
  BY <1>9 DEF Forest
<1>13. TypeOK'
  BY <1>1, <1>2, <1>9, <1>12 DEF TypeOK
<1>14. QED
  BY <1>11, <1>13

\* The two nodes taken off the list are both under the one that is put on.
LEMMA CombineStep ==
  ASSUME TypeOK, Sorting, Combine
  PROVE  TypeOK' /\ Building'
<1>1. /\ Forest(list, Used) /\ temp \in 1..(Len(list) - 1) /\ Len(list) \in Nat
      /\ length = Len(list) /\ Uncoded
  BY LenProperties DEF Sorting, Forest
<1>2. /\ list' = Append(Tail(Tail(list)), Joined(list[1], list[2]))
      /\ length' = length - 1 /\ pc' = "build"
      /\ UNCHANGED <<digits, i, temp, tree, todo, codes, codigote, written, lines, rebuilt, walk, out>>
  BY DEF Combine, coding, reading
<1>3. Len(list) >= 2
  BY <1>1
<1>4. Forest(list', Used) /\ Len(list') = Len(list) - 1
  BY <1>1, <1>2, <1>3, CombinedForest
<1>5. Used' = Used /\ Uncoded'
  BY <1>1, <1>2 DEF Used, Uncoded, Unread
<1>6. Building'
  BY <1>1, <1>2, <1>4, <1>5 DEF Building
<1>7. list' \in Seq(Nodes)
  BY <1>4 DEF Forest
<1>8. TypeOK'
  BY <1>1, <1>2, <1>7 DEF TypeOK
<1>9. QED
  BY <1>6, <1>8

-----------------------------------------------------------------------------
(* The steps of codifier and encoder.                                      *)

\* A picture has finitely many bytes.
LEMMA UsedFinite ==
  ASSUME TypeOK
  PROVE  IsFiniteSet(Used) /\ Cardinality(Used) \in Nat
<1>1. IsFiniteSet(1..Len(digits))
  BY Places, FS_Interval
<1>2. digits \in [1..Len(digits) -> Used]
  BY Places
<1>3. \A b \in Used : \E k \in 1..Len(digits) : digits[k] = b
  BY Places DEF Used
<1>4. digits \in Surjection(1..Len(digits), Used)
  BY <1>2, <1>3 DEF Surjection
<1>5. IsFiniteSet(Used)
  BY <1>1, <1>4, FS_Surjection
<1>6. QED
  BY <1>5, FS_CardinalityType

\* The leaves of compress's tree and the bytes of the picture.
LEMMA PlantedFacts ==
  ASSUME Planted
  PROVE  /\ Tree(tree) /\ tree \subseteq Leaf /\ tree # {}
         /\ \A l \in tree : l[1] \in Path /\ l[2] \in Bytes /\ l[2] \in Used /\ l = <<l[1], l[2]>>
         /\ \A b \in Used : \E l \in tree : l[2] = b
<1>1. Tree(tree) /\ tree \subseteq Leaf /\ tree # {} /\ BytesUnder(tree) = Used
  BY DEF Planted, Tree
<1>2. \A l \in tree : l[1] \in Path /\ l[2] \in Bytes /\ l = <<l[1], l[2]>>
  BY <1>1, LeafFields
<1>3. QED
  BY <1>1, <1>2 DEF BytesUnder

\* One call of backTrackCoder: a leaf gets its path for code, a node its two calls,
\* and no call is for a node that is not there.
LEMMA backTrackStep ==
  ASSUME TypeOK, Codifying, backTrackCoder
  PROVE  TypeOK' /\ Codifying'
<1>1. PICK p : p = Head(todo)
  OBVIOUS
<1>2. PICK rest : rest = Tail(todo)
  OBVIOUS
<1>3. /\ todo \in Seq(Path) /\ todo # <<>> /\ Len(todo) \in Nat /\ Len(todo) >= 1
      /\ p \in Path /\ rest \in Seq(Path) /\ Len(rest) = Len(todo) - 1 /\ p = todo[1]
      /\ \A k \in 1..Len(rest) : rest[k] = todo[k + 1]
  <2>1. todo \in Seq(Path) /\ todo # <<>>
    BY DEF TypeOK, backTrackCoder
  <2>2. Len(todo) \in Nat /\ Len(todo) >= 1
    BY <2>1, EmptySeq
  <2>3. p \in Path /\ rest \in Seq(Path) /\ Len(rest) = Len(todo) - 1
        /\ \A k \in 1..Len(rest) : rest[k] = todo[k + 1]
    BY <1>1, <1>2, <2>1, HeadTailProperties
  <2>4. p = todo[1]
    BY <1>1, <2>1, <2>2
  <2>5. QED
    BY <2>1, <2>2, <2>3, <2>4
<1>4. /\ pc = "codify" /\ Planted /\ CodesOfTree /\ codigote = <<>> /\ Unread
      /\ \A k \in 1..Len(todo) : NodeAt(tree, todo[k])
      /\ \A l \in tree : l[2] \in DOMAIN codes \/ \E k \in 1..Len(todo) : IsPrefix(todo[k], l[1])
  BY DEF Codifying
<1>5. UNCHANGED <<digits, i, list, length, temp, tree, codigote, written, lines, rebuilt, walk, out>>
  BY DEF backTrackCoder, building, reading
<1>6. Used' = Used /\ Planted' /\ Unread' /\ codigote' = <<>>
  BY <1>4, <1>5 DEF Used, Planted, Unread
<1>7. NodeAt(tree, p)
  BY <1>3, <1>4
<1>8. \A k \in 1..Len(rest) : NodeAt(tree, rest[k])
  <2>1. \A k \in 1..Len(rest) : k + 1 \in 1..Len(todo)
    BY <1>3
  <2>2. QED
    BY <1>3, <1>4, <2>1
<1>9. ASSUME NEW l \in tree
      PROVE  \/ l[2] \in DOMAIN codes
             \/ IsPrefix(p, l[1])
             \/ \E k \in 1..Len(rest) : IsPrefix(rest[k], l[1])
  <2>1. ASSUME NEW k \in 1..Len(todo), k # 1, IsPrefix(todo[k], l[1])
        PROVE  \E j \in 1..Len(rest) : IsPrefix(rest[j], l[1])
    <3>1. k - 1 \in 1..Len(rest) /\ (k - 1) + 1 = k
      BY <1>3, <2>1
    <3>2. rest[k - 1] = todo[k]
      BY <1>3, <3>1
    <3>3. QED
      BY <2>1, <3>1, <3>2
  <2>2. QED
    BY <1>3, <1>4, <2>1
<1>10. ASSUME NEW l \in LeafAt(tree, p), codes' = SetCode(l[2], p), todo' = Tail(todo), UNCHANGED pc
       PROVE  TypeOK' /\ Codifying'
  <2>1. l \in tree /\ l[1] = p /\ l = <<p, l[2]>> /\ l[2] \in Used /\ l[2] \in Bytes
    BY <1>4, PlantedFacts DEF LeafAt
  <2>2. /\ DOMAIN codes' = DOMAIN codes \cup {l[2]}
        /\ \A c \in DOMAIN codes' : codes'[c] = IF c = l[2] THEN p ELSE codes[c]
    BY <1>10 DEF SetCode
  <2>3. CodesOfTree'
    <3>1. DOMAIN codes' \subseteq Used
      BY <1>4, <2>1, <2>2 DEF CodesOfTree
    <3>2. \A c \in DOMAIN codes' : <<codes'[c], c>> \in tree
      BY <1>4, <2>1, <2>2 DEF CodesOfTree
    <3>3. QED
      BY <1>5, <1>6, <3>1, <3>2 DEF CodesOfTree
  <2>4. todo' = rest
    BY <1>2, <1>10
  <2>5. ASSUME NEW m \in tree
        PROVE  m[2] \in DOMAIN codes' \/ \E k \in 1..Len(rest) : IsPrefix(rest[k], m[1])
    <3>1. IsPrefix(p, m[1]) => l = m
      BY <1>4, <2>1 DEF Planted, Tree
    <3>2. QED
      BY <1>9, <2>2, <3>1
  <2>6. Codifying'
    <3>1. \A k \in 1..Len(todo') : NodeAt(tree', todo'[k])
      BY <1>5, <1>8, <2>4
    <3>2. \A m \in tree' : m[2] \in DOMAIN codes' \/ \E k \in 1..Len(todo') : IsPrefix(todo'[k], m[1])
      BY <1>5, <2>4, <2>5
    <3>3. pc' = "codify"
      BY <1>4, <1>10
    <3>4. QED
      BY <1>6, <2>3, <3>1, <3>2, <3>3 DEF Codifying, NodeAt
  <2>7. DOMAIN codes' \subseteq Bytes /\ \A b \in DOMAIN codes' : codes'[b] \in Path
    BY <1>3, <2>1, <2>2 DEF TypeOK
  <2>8. todo' \in Seq(Path)
    BY <1>3, <2>4
  <2>9. TypeOK'
    BY <1>5, <1>10, <2>7, <2>8 DEF TypeOK
  <2>10. QED
    BY <2>6, <2>9
<1>11. ASSUME LeafAt(tree, p) = {}, todo' = <<Append(p, 1), Append(p, 0)>> \o Tail(todo),
              UNCHANGED <<pc, codes>>
       PROVE  TypeOK' /\ Codifying'
  <2>1. PICK p1 : p1 = Append(p, 1)
    OBVIOUS
  <2>2. PICK p0 : p0 = Append(p, 0)
    OBVIOUS
  <2>3. p1 \in Path /\ p0 \in Path
    BY <1>3, <2>1, <2>2, OneBitDeeper DEF Bit
  <2>4. /\ todo' \in Seq(Path) /\ Len(todo') = Len(rest) + 2
        /\ todo'[1] = p1 /\ todo'[2] = p0
        /\ \A k \in 1..Len(rest) : todo'[k + 2] = rest[k]
    <3>1. <<p1, p0>> \in Seq(Path) /\ Len(<<p1, p0>>) = 2 /\ <<p1, p0>>[1] = p1 /\ <<p1, p0>>[2] = p0
      BY <2>3
    <3>2. todo' = <<p1, p0>> \o rest
      BY <1>2, <1>11, <2>1, <2>2
    <3>3. PICK two : two = <<p1, p0>>
      OBVIOUS
    <3>4. two \in Seq(Path) /\ Len(two) = 2 /\ two[1] = p1 /\ two[2] = p0 /\ todo' = two \o rest
      BY <3>1, <3>2, <3>3
    <3>5. /\ todo' \in Seq(Path) /\ Len(todo') = 2 + Len(rest)
          /\ \A k \in 1..(2 + Len(rest)) : todo'[k] = IF k <= 2 THEN two[k] ELSE rest[k - 2]
      <4>1. PICK new : new = two \o rest
        OBVIOUS
      <4>2. /\ new \in Seq(Path) /\ Len(new) = Len(two) + Len(rest)
            /\ \A k \in 1..(Len(two) + Len(rest)) :
                 new[k] = IF k <= Len(two) THEN two[k] ELSE rest[k - Len(two)]
        BY <1>3, <3>4, <4>1, ConcatProperties
      <4>3. QED
        BY <3>4, <4>1, <4>2
    <3>6. Len(rest) \in Nat
      BY <1>3
    <3>7. \A k \in 1..Len(rest) : todo'[k + 2] = rest[k]
      BY <3>5, <3>6
    <3>8. QED
      BY <3>4, <3>5, <3>6, <3>7
  <2>5. Len(rest) \in Nat
    BY <1>3
  <2>6. NodeAt(tree, p1) /\ NodeAt(tree, p0)
    <3>1. \A b \in Bit : NodeAt(tree, Append(p, b))
      BY <1>3, <1>4, <1>7, <1>11 DEF Planted, Tree
    <3>2. NodeAt(tree, Append(p, 1)) /\ NodeAt(tree, Append(p, 0))
      BY <3>1 DEF Bit
    <3>3. QED
      BY <2>1, <2>2, <3>2
  <2>7. ASSUME NEW k \in 1..Len(todo') PROVE NodeAt(tree, todo'[k])
    <3>1. k = 1 \/ k = 2 \/ (k - 2 \in 1..Len(rest) /\ (k - 2) + 2 = k)
      BY <2>4, <2>5
    <3>2. QED
      BY <1>8, <2>4, <2>6, <3>1
  <2>8. ASSUME NEW m \in tree
        PROVE  m[2] \in DOMAIN codes \/ \E k \in 1..Len(todo') : IsPrefix(todo'[k], m[1])
    <3>1. m[1] \in Path /\ m[1] # p
      BY <1>4, <1>11, PlantedFacts DEF LeafAt
    <3>2. 1 \in 1..Len(todo') /\ 2 \in 1..Len(todo') /\ \A k \in 1..Len(rest) : k + 2 \in 1..Len(todo')
      BY <2>4, <2>5
    <3>3. IsPrefix(p, m[1]) => IsPrefix(p1, m[1]) \/ IsPrefix(p0, m[1])
      <4>1. IsPrefix(p, m[1]) => \E b \in Bit : IsPrefix(Append(p, b), m[1])
        BY <1>3, <3>1, OneBitDeeper
      <4>2. QED
        BY <2>1, <2>2, <4>1 DEF Bit
    <3>4. QED
      BY <1>9, <2>4, <3>2, <3>3
  <2>9. CodesOfTree'
    BY <1>4, <1>5, <1>6, <1>11 DEF CodesOfTree
  <2>10. Codifying'
    <3>1. \A k \in 1..Len(todo') : NodeAt(tree', todo'[k])
      BY <1>5, <2>7
    <3>2. \A m \in tree' : m[2] \in DOMAIN codes' \/ \E k \in 1..Len(todo') : IsPrefix(todo'[k], m[1])
      BY <1>5, <1>11, <2>8
    <3>3. pc' = "codify"
      BY <1>4, <1>11
    <3>4. QED
      BY <1>6, <2>9, <3>1, <3>2, <3>3 DEF Codifying, NodeAt
  <2>11. TypeOK'
    BY <1>5, <1>11, <2>4 DEF TypeOK
  <2>12. QED
    BY <2>10, <2>11
<1>12. QED
  BY <1>1, <1>7, <1>10, <1>11 DEF backTrackCoder

\* When the calls are through, or as many codes are there as bytes, no byte is without.
LEMMA EndCodifyStep ==
  ASSUME TypeOK, Codifying, EndCodify
  PROVE  TypeOK' /\ Encoding'
<1>1. /\ pc = "codify" /\ Planted /\ CodesOfTree /\ codigote = <<>> /\ Unread
      /\ \A l \in tree : l[2] \in DOMAIN codes \/ \E k \in 1..Len(todo) : IsPrefix(todo[k], l[1])
  BY DEF Codifying
<1>2. /\ pc' = "encode" /\ i' = 1
      /\ UNCHANGED <<digits, list, length, temp, tree, todo, codes, codigote, written, lines, rebuilt, walk, out>>
  BY DEF EndCodify, building, coding, reading
<1>3. Used' = Used /\ Planted' /\ CodesOfTree' /\ Unread' /\ codigote' = <<>>
  BY <1>1, <1>2 DEF Used, Planted, Unread, CodesOfTree
<1>4. DOMAIN codes = Used
  <2>1. CASE todo = <<>>
    <3>1. \A l \in tree : l[2] \in DOMAIN codes
      BY <1>1, <2>1, EmptySeq
    <3>2. \A b \in Used : b \in DOMAIN codes
      BY <1>1, <3>1, PlantedFacts
    <3>3. QED
      BY <1>1, <3>2 DEF CodesOfTree
  <2>2. CASE Done
    <3>1. Cardinality(DOMAIN codes) = Cardinality(Used)
      BY <2>2 DEF Done, KeyCount, Used
    <3>2. DOMAIN codes \in SUBSET Used
      BY <1>1 DEF CodesOfTree
    <3>3. QED
      BY <3>1, <3>2, UsedFinite, FS_Subset
  <2>3. QED
    BY <2>1, <2>2 DEF EndCodify
<1>5. AllCoded'
  BY <1>2, <1>3, <1>4 DEF AllCoded
<1>6. PICK e : e = [k \in 0..0 |-> <<>>]
  OBVIOUS
<1>7. EncodedBy(e, 0)'
  <2>1. <<>> \in Path
    BY EmptySeq DEF Path
  <2>2. e \in [0..0 -> Path] /\ e[0] = <<>>
    BY <1>6, <2>1
  <2>3. \A k \in 0..0 : IsPrefix(e[k], codigote')
    BY <1>3, <2>1, <2>2, PrefixReflexive
  <2>4. QED
    BY <1>3, <2>2, <2>3 DEF EncodedBy
<1>8. Len(digits) \in Nat /\ i' \in 1..(Len(digits') + 1) /\ i' - 1 = 0
  BY <1>2, Places
<1>9. \E f : EncodedBy(f, i - 1)'
  BY <1>7, <1>8 DEF EncodedBy
<1>10. Encoding'
  BY <1>2, <1>3, <1>5, <1>8, <1>9 DEF Encoding
<1>11. TypeOK'
  BY <1>2 DEF TypeOK
<1>12. QED
  BY <1>10, <1>11

\* A path begins any longer one made of it.
LEMMA PrefixOfConcat ==
  ASSUME NEW p \in Path, NEW q \in Path
  PROVE  p \o q \in Path /\ IsPrefix(p, p \o q) /\ Len(p \o q) = Len(p) + Len(q)
<1>1. Len(p) \in Nat /\ Len(q) \in Nat
  BY LenProperties DEF Path
<1>2. PICK r : r = p \o q
  OBVIOUS
<1>3. /\ r \in Path /\ Len(r) = Len(p) + Len(q)
      /\ \A k \in 1..(Len(p) + Len(q)) : r[k] = IF k <= Len(p) THEN p[k] ELSE q[k - Len(p)]
  BY <1>2, ConcatProperties DEF Path
<1>4. IsPrefix(p, r)
  BY <1>1, <1>3, PrefixByElements
<1>5. QED
  BY <1>2, <1>3, <1>4

\* Every byte has a code, which is the path of its leaf.
LEMMA CodeFacts ==
  ASSUME AllCoded
  PROVE  \A b \in Used : codes[b] \in Path /\ <<codes[b], b>> \in tree /\ CodeOf(b) = codes[b]
<1>1. \A b \in Used : <<codes[b], b>> \in tree /\ b \in DOMAIN codes
  BY DEF AllCoded, CodesOfTree
<1>2. \A b \in Used : <<codes[b], b>>[1] = codes[b]
  OBVIOUS
<1>3. QED
  BY <1>1, <1>2, PlantedFacts DEF AllCoded, CodeOf

\* One round of encoder: what was encoded is a beginning of what is encoded now.
LEMMA EncodeByteStep ==
  ASSUME TypeOK, Encoding, EncodeByte
  PROVE  TypeOK' /\ Encoding'
<1>1. /\ pc' = "encode" /\ i \in 1..Len(digits) /\ i' = i + 1 /\ codigote' = codigote \o CodeOf(digits[i])
      /\ UNCHANGED <<digits, list, length, temp, tree, todo, codes, written, lines, rebuilt, walk, out>>
  BY Places DEF Encoding, EncodeByte, building, reading
<1>2. AllCoded /\ Unread
  BY DEF Encoding
<1>3. PICK e : EncodedBy(e, i - 1)
  BY DEF Encoding
<1>4. /\ e \in [0..(i - 1) -> Path] /\ e[0] = <<>> /\ e[i - 1] = codigote
      /\ \A k \in 1..(i - 1) : e[k] = e[k - 1] \o codes[digits[k]]
      /\ \A k \in 0..(i - 1) : IsPrefix(e[k], codigote)
      /\ NoBits => codigote = <<>>
  BY <1>3 DEF EncodedBy
<1>5. Len(digits) \in Nat /\ digits[i] \in Used /\ codigote \in Path
  BY <1>1, Places DEF TypeOK
<1>6. PICK c : c = codes[digits[i]]
  OBVIOUS
<1>7. c \in Path /\ CodeOf(digits[i]) = c
  BY <1>2, <1>5, <1>6, CodeFacts
<1>8. codigote' = codigote \o c /\ codigote' \in Path /\ IsPrefix(codigote, codigote')
  BY <1>1, <1>5, <1>7, PrefixOfConcat
<1>9. PICK f : f = [k \in 0..i |-> IF k = i THEN codigote' ELSE e[k]]
  OBVIOUS
<1>10. /\ \A k \in 0..(i - 1) : f[k] = e[k] /\ e[k] \in Path
       /\ f[i] = codigote' /\ f \in [0..i -> Path]
  <2>1. \A k \in 0..i : k = i \/ k \in 0..(i - 1)
    BY <1>1
  <2>2. \A k \in 0..(i - 1) : k \in 0..i /\ k # i
    BY <1>1
  <2>3. i \in 0..i
    BY <1>1
  <2>4. \A k \in 0..(i - 1) : e[k] \in Path
    BY <1>4
  <2>5. QED
    BY <1>8, <1>9, <2>1, <2>2, <2>3, <2>4
<1>11. Used' = Used /\ AllCoded' /\ Unread' /\ (NoBits' <=> NoBits)
  BY <1>1, <1>2 DEF Used, AllCoded, Planted, CodesOfTree, Unread, NoBits
<1>12. PICK n : n = i
  OBVIOUS
<1>13. EncodedBy(f, n)'
  <2>1. ASSUME NEW k \in 1..i PROVE f[k] = f[k - 1] \o codes[digits[k]]
    <3>1. CASE k = i
      <4>1. i - 1 \in 0..(i - 1)
        BY <1>1
      <4>2. f[i - 1] = codigote
        BY <1>4, <1>10, <4>1
      <4>3. QED
        BY <1>6, <1>8, <1>10, <3>1, <4>2
    <3>2. CASE k # i
      <4>1. k \in 1..(i - 1) /\ k \in 0..(i - 1) /\ k - 1 \in 0..(i - 1)
        BY <1>1, <3>2
      <4>2. QED
        BY <1>4, <1>10, <4>1
    <3>3. QED
      BY <3>1, <3>2
  <2>2. ASSUME NEW k \in 0..i PROVE IsPrefix(f[k], codigote')
    <3>1. CASE k = i
      BY <1>8, <1>10, <3>1, PrefixReflexive
    <3>2. CASE k # i
      <4>1. k \in 0..(i - 1)
        BY <1>1, <3>2
      <4>2. f[k] \in Path /\ IsPrefix(f[k], codigote)
        BY <1>4, <1>10, <4>1
      <4>3. QED
        BY <1>5, <1>8, <4>2, PrefixTransitive
    <3>3. QED
      BY <3>1, <3>2
  <2>3. NoBits => codigote' = <<>>
    <3>1. SUFFICES ASSUME NoBits PROVE codigote' = <<>>
      OBVIOUS
    <3>2. codigote = <<>> /\ c = <<>>
      BY <1>4, <1>5, <1>6, <3>1 DEF NoBits
    <3>3. codigote \o c = c
      BY <1>7, <3>2, ConcatEmptySeq DEF Path
    <3>4. QED
      BY <1>8, <3>2, <3>3
  <2>4. f[0] = <<>>
    BY <1>1, <1>4, <1>10
  <2>5. /\ f \in [0..n -> Path] /\ f[0] = <<>> /\ f[n] = codigote'
        /\ \A k \in 1..n : f[k] = f[k - 1] \o codes'[digits'[k]]
        /\ \A k \in 0..n : IsPrefix(f[k], codigote')
        /\ NoBits' => codigote' = <<>>
    BY <1>1, <1>10, <1>11, <1>12, <2>1, <2>2, <2>3, <2>4
  <2>6. QED
    BY <2>5 DEF EncodedBy
<1>14. i' \in 1..(Len(digits') + 1) /\ i' - 1 = n
  BY <1>1, <1>5, <1>12
<1>15. \E g : EncodedBy(g, i - 1)'
  BY <1>13, <1>14 DEF EncodedBy
<1>16. Encoding'
  BY <1>1, <1>11, <1>14, <1>15 DEF Encoding
<1>17. TypeOK'
  BY <1>1, <1>8 DEF TypeOK
<1>18. QED
  BY <1>16, <1>17

\* encoder ends with the whole picture encoded, and diskWriter starts with no line.
LEMMA EndEncodeStep ==
  ASSUME TypeOK, Encoding, EndEncode
  PROVE  TypeOK' /\ Writing'
<1>1. /\ pc' = "write" /\ i' = 1 /\ i - 1 = Len(digits)
      /\ UNCHANGED <<digits, list, length, temp, tree, todo, codes, codigote, written, lines, rebuilt, walk, out>>
  BY Places DEF Encoding, EndEncode, building, coding, reading
<1>2. PICK n : n = Len(digits)
  OBVIOUS
<1>3. AllCoded /\ Unread
  BY DEF Encoding
<1>4. PICK e : EncodedBy(e, n)
  BY <1>1, <1>2 DEF Encoding
<1>5. Used' = Used /\ AllCoded' /\ Unread' /\ NoBits' = NoBits
  BY <1>1, <1>3 DEF Used, AllCoded, Planted, CodesOfTree, Unread, NoBits
<1>6. EncodedBy(e, n)'
  BY <1>1, <1>4, <1>5 DEF EncodedBy
<1>7. Stored'
  BY <1>1, <1>2, <1>5, <1>6 DEF Stored
<1>8. LinesAre(-1)'
  <2>1. written' = {} /\ DOMAIN lines' = {}
    BY <1>5 DEF Unread
  <2>2. QED
    BY <2>1 DEF LinesAre, NotNewline
<1>9. Writing'
  BY <1>1, <1>5, <1>7, <1>8 DEF Writing, Unread
<1>10. TypeOK'
  BY <1>1 DEF TypeOK
<1>11. QED
  BY <1>9, <1>10

-----------------------------------------------------------------------------
(* The tree file.                                                          *)

\* What treeReconstructor takes of a line is the byte and the code put there.
LEMMA RecordFacts ==
  ASSUME AllCoded
  PROVE  /\ \A b \in Used : /\ RecordOf(b) \in Seq(Bytes \cup Bit) /\ RecordOf(b) # <<>>
                            /\ Head(RecordOf(b)) = b /\ Tail(RecordOf(b)) = codes[b]
         /\ Path \subseteq Seq(Bytes \cup Bit) /\ Used \subseteq Bytes
<1>1. Path \subseteq Seq(Bytes \cup Bit)
  BY SeqMonotonic DEF Path
<1>2. ASSUME NEW b \in Used
      PROVE  /\ RecordOf(b) \in Seq(Bytes \cup Bit) /\ RecordOf(b) # <<>>
             /\ Head(RecordOf(b)) = b /\ Tail(RecordOf(b)) = codes[b]
  <2>1. PICK c : c = codes[b]
    OBVIOUS
  <2>2. c \in Seq(Bytes \cup Bit) /\ b \in Bytes \cup Bit
    BY <1>1, <2>1, CodeFacts, PlantedFacts DEF AllCoded
  <2>3. PICK r : r = <<b>> \o c
    OBVIOUS
  <2>4. <<b>> \in Seq(Bytes \cup Bit) /\ Len(<<b>>) = 1 /\ <<b>>[1] = b /\ Len(c) \in Nat
    BY <2>2, LenProperties
  <2>5. /\ r \in Seq(Bytes \cup Bit) /\ Len(r) = 1 + Len(c)
        /\ \A k \in 1..(1 + Len(c)) : r[k] = IF k <= 1 THEN b ELSE c[k - 1]
    <3>1. PICK one : one = <<b>>
      OBVIOUS
    <3>2. one \in Seq(Bytes \cup Bit) /\ Len(one) = 1 /\ one[1] = b
      BY <2>4, <3>1
    <3>3. /\ r \in Seq(Bytes \cup Bit) /\ Len(r) = Len(one) + Len(c)
          /\ \A k \in 1..(Len(one) + Len(c)) : r[k] = IF k <= Len(one) THEN one[k] ELSE c[k - Len(one)]
      BY <2>2, <2>3, <3>1, <3>2, ConcatProperties
    <3>4. QED
      BY <2>4, <3>2, <3>3
  <2>6. r # <<>> /\ Head(r) = b
    <3>1. Len(r) # 0 /\ r[1] = b
      BY <2>4, <2>5
    <3>2. QED
      BY <2>5, <3>1, EmptySeq
  <2>7. Tail(r) = c
    <3>1. /\ Tail(r) \in Seq(Bytes \cup Bit) /\ Len(Tail(r)) = Len(r) - 1
          /\ \A k \in 1..Len(Tail(r)) : Tail(r)[k] = r[k + 1]
      BY <2>5, <2>6, HeadTailProperties
    <3>2. PICK t : t = Tail(r)
      OBVIOUS
    <3>3. /\ t \in Seq(Bytes \cup Bit) /\ Len(t) = Len(c) /\ \A k \in 1..Len(t) : t[k] = r[k + 1]
      BY <2>4, <2>5, <3>1, <3>2
    <3>4. \A k \in 1..Len(t) : t[k] = c[k]
      BY <2>4, <2>5, <3>3
    <3>5. QED
      BY <2>2, <3>2, <3>3, <3>4, SeqEqual
  <2>8. QED
    BY <2>1, <2>3, <2>5, <2>6, <2>7 DEF RecordOf
<1>3. Used \subseteq Bytes
  BY PlantedFacts DEF AllCoded
<1>4. QED
  BY <1>1, <1>2, <1>3

\* One round of diskWriter: two lines for the newline, one for any other byte.
LEMMA WriteLineStep ==
  ASSUME TypeOK, Writing, WriteLine
  PROVE  TypeOK' /\ Writing'
<1>1. PICK b \in DOMAIN codes \ written : lines' = lines \o LinesOf(b) /\ written' = written \cup {b}
  BY DEF WriteLine
<1>2. /\ pc' = "write"
      /\ UNCHANGED <<digits, i, list, length, temp, tree, todo, codes, codigote, rebuilt, walk, out>>
  BY DEF Writing, WriteLine, building, coding
<1>3. AllCoded /\ Stored /\ written \subseteq Used /\ rebuilt = {} /\ walk = <<>> /\ out = <<>>
  BY DEF Writing, Stored
<1>4. b \in Used /\ b \notin written
  BY <1>1, <1>3 DEF AllCoded
<1>5. PICK n \in Int : LinesAre(n)
  BY DEF Writing
<1>6. lines \in Seq(Seq(Bytes \cup Bit)) /\ Len(lines) \in Nat /\ DOMAIN lines = 1..Len(lines)
  BY LenProperties DEF TypeOK
<1>7. Used' = Used /\ AllCoded' /\ NoBits' = NoBits
  BY <1>2, <1>3 DEF Used, AllCoded, Planted, CodesOfTree, NoBits
<1>8. Stored'
  BY <1>2, <1>3, <1>7 DEF Stored, EncodedBy
<1>9. \A a : RecordOf(a)' = RecordOf(a)
  BY <1>2 DEF RecordOf
<1>10. CASE b = Newline
  <2>1. PICK new : new = LinesOf(b)
    OBVIOUS
  <2>2. new = <<<<>>, codes[b]>>
    BY <1>10, <2>1 DEF LinesOf
  <2>3. <<>> \in Seq(Bytes \cup Bit) /\ codes[b] \in Seq(Bytes \cup Bit)
    BY <1>3, <1>4, EmptySeq, CodeFacts, RecordFacts
  <2>4. new \in Seq(Seq(Bytes \cup Bit)) /\ Len(new) = 2 /\ new[1] = <<>> /\ new[2] = codes[b]
    BY <2>2, <2>3
  <2>5. /\ lines' \in Seq(Seq(Bytes \cup Bit)) /\ Len(lines') = Len(lines) + 2
        /\ \A k \in 1..Len(lines) : lines'[k] = lines[k]
        /\ lines'[Len(lines) + 1] = <<>> /\ lines'[Len(lines) + 2] = codes[b]
        /\ DOMAIN lines' = 1..(Len(lines) + 2)
    <3>1. PICK r : r = lines \o new
      OBVIOUS
    <3>2. lines' = r
      BY <1>1, <2>1, <3>1
    <3>3. /\ r \in Seq(Seq(Bytes \cup Bit)) /\ Len(r) = Len(lines) + Len(new)
          /\ DOMAIN r = 1..(Len(lines) + Len(new))
          /\ \A k \in 1..Len(lines) : r[k] = lines[k]
          /\ \A k \in 1..Len(new) : r[Len(lines) + k] = new[k]
      <4>1. Len(lines) \in Nat /\ Len(new) \in Nat
        BY <1>6, <2>4
      <4>2. /\ r \in Seq(Seq(Bytes \cup Bit)) /\ Len(r) = Len(lines) + Len(new)
            /\ \A k \in 1..(Len(lines) + Len(new)) :
                 r[k] = IF k <= Len(lines) THEN lines[k] ELSE new[k - Len(lines)]
        BY <1>6, <2>4, <3>1, ConcatProperties
      <4>3. DOMAIN r = 1..(Len(lines) + Len(new))
        BY <4>2, LenProperties
      <4>4. ASSUME NEW k \in 1..Len(lines) PROVE r[k] = lines[k]
        BY <4>1, <4>2
      <4>5. ASSUME NEW k \in 1..Len(new) PROVE r[Len(lines) + k] = new[k]
        <5>1. /\ Len(lines) + k \in 1..(Len(lines) + Len(new))
              /\ ~(Len(lines) + k <= Len(lines)) /\ (Len(lines) + k) - Len(lines) = k
          BY <4>1
        <5>2. QED
          BY <4>2, <5>1
      <4>6. QED
        BY <4>2, <4>3, <4>4, <4>5
    <3>4. r[Len(lines) + 1] = new[1] /\ r[Len(lines) + 2] = new[2]
      <4>1. 1 \in 1..Len(new) /\ 2 \in 1..Len(new)
        BY <2>4
      <4>2. QED
        BY <3>3, <4>1
    <3>5. QED
      BY <2>4, <3>2, <3>3, <3>4
  <2>6. PICK m : m = Len(lines) + 1
    OBVIOUS
  <2>7. n = -1 /\ NotNewline(n) = 1..Len(lines)
    BY <1>4, <1>5, <1>6, <1>10 DEF LinesAre, NotNewline
  <2>8. NotNewline(m)' = 1..Len(lines)
    <3>1. \A k : k \in 1..Len(lines) <=> k \in 1..(Len(lines) + 2) /\ k # m /\ k # m + 1
      BY <1>6, <2>6
    <3>2. NotNewline(m)' = (1..(Len(lines) + 2)) \ {m, m + 1}
      BY <2>5 DEF NotNewline
    <3>3. QED
      BY <3>1, <3>2
  <2>9. written' \ {Newline} = written \ {Newline} /\ Newline \in written'
    BY <1>1, <1>10
  <2>10. m \in 1..(Len(lines') - 1) /\ lines'[m] = <<>> /\ lines'[m + 1] = codes'[Newline]
    BY <1>2, <1>6, <1>10, <2>5, <2>6
  <2>11. /\ \A k \in 1..Len(lines) : \E c \in written \ {Newline} : lines[k] = RecordOf(c)
         /\ \A c \in written \ {Newline} : \E k \in 1..Len(lines) : lines[k] = RecordOf(c)
    BY <1>5, <2>7 DEF LinesAre
  <2>12. LinesAre(m)'
    <3>1. \A k \in 1..Len(lines) : \E c \in written' \ {Newline} : lines'[k] = RecordOf(c)'
      BY <1>9, <2>5, <2>9, <2>11
    <3>2. \A c \in written' \ {Newline} : \E k \in 1..Len(lines) : lines'[k] = RecordOf(c)'
      BY <1>9, <2>5, <2>9, <2>11
    <3>3. QED
      BY <2>8, <2>9, <2>10, <3>1, <3>2 DEF LinesAre
  <2>13. m \in Int /\ written' \subseteq Used
    BY <1>1, <1>3, <1>4, <1>6, <2>6
  <2>14. Writing'
    BY <1>2, <1>3, <1>7, <1>8, <2>12, <2>13 DEF Writing
  <2>15. written' \subseteq Bytes
    BY <1>3, <2>13, RecordFacts
  <2>16. TypeOK'
    BY <1>2, <2>5, <2>15 DEF TypeOK, Writing
  <2>17. QED
    BY <2>14, <2>16
<1>11. CASE b # Newline
  <2>1. PICK new : new = LinesOf(b)
    OBVIOUS
  <2>2. PICK rec : rec = RecordOf(b)
    OBVIOUS
  <2>3. new = <<rec>> /\ rec \in Seq(Bytes \cup Bit)
    BY <1>3, <1>4, <1>11, <2>1, <2>2, RecordFacts DEF LinesOf, RecordOf
  <2>4. new \in Seq(Seq(Bytes \cup Bit)) /\ Len(new) = 1 /\ new[1] = rec
    BY <2>3
  <2>5. /\ lines' \in Seq(Seq(Bytes \cup Bit)) /\ Len(lines') = Len(lines) + 1
        /\ \A k \in 1..Len(lines) : lines'[k] = lines[k]
        /\ lines'[Len(lines) + 1] = rec
        /\ DOMAIN lines' = 1..(Len(lines) + 1)
    <3>1. PICK r : r = lines \o new
      OBVIOUS
    <3>2. lines' = r
      BY <1>1, <2>1, <3>1
    <3>3. /\ r \in Seq(Seq(Bytes \cup Bit)) /\ Len(r) = Len(lines) + Len(new)
          /\ DOMAIN r = 1..(Len(lines) + Len(new))
          /\ \A k \in 1..Len(lines) : r[k] = lines[k]
          /\ \A k \in 1..Len(new) : r[Len(lines) + k] = new[k]
      <4>1. Len(lines) \in Nat /\ Len(new) \in Nat
        BY <1>6, <2>4
      <4>2. /\ r \in Seq(Seq(Bytes \cup Bit)) /\ Len(r) = Len(lines) + Len(new)
            /\ \A k \in 1..(Len(lines) + Len(new)) :
                 r[k] = IF k <= Len(lines) THEN lines[k] ELSE new[k - Len(lines)]
        BY <1>6, <2>4, <3>1, ConcatProperties
      <4>3. DOMAIN r = 1..(Len(lines) + Len(new))
        BY <4>2, LenProperties
      <4>4. ASSUME NEW k \in 1..Len(lines) PROVE r[k] = lines[k]
        BY <4>1, <4>2
      <4>5. ASSUME NEW k \in 1..Len(new) PROVE r[Len(lines) + k] = new[k]
        <5>1. /\ Len(lines) + k \in 1..(Len(lines) + Len(new))
              /\ ~(Len(lines) + k <= Len(lines)) /\ (Len(lines) + k) - Len(lines) = k
          BY <4>1
        <5>2. QED
          BY <4>2, <5>1
      <4>6. QED
        BY <4>2, <4>3, <4>4, <4>5
    <3>4. r[Len(lines) + 1] = new[1]
      <4>1. 1 \in 1..Len(new)
        BY <2>4
      <4>2. QED
        BY <3>3, <4>1
    <3>5. QED
      BY <2>4, <3>2, <3>3, <3>4
  <2>6. /\ n = -1 \/ n \in 1..(Len(lines) - 1)
        /\ \A k \in NotNewline(n) : k \in 1..Len(lines)
    BY <1>5, <1>6 DEF LinesAre, NotNewline
  <2>7. \A k : k \in NotNewline(n)' <=> k \in NotNewline(n) \/ k = Len(lines) + 1
    BY <1>6, <2>5, <2>6 DEF NotNewline
  <2>8. Newline \in written' <=> Newline \in written
    BY <1>1, <1>11
  <2>9. IF Newline \in written'
        THEN n \in 1..(Len(lines') - 1) /\ lines'[n] = <<>> /\ lines'[n + 1] = codes'[Newline]
        ELSE n = -1
    <3>1. CASE Newline \in written
      <4>1. n \in 1..(Len(lines) - 1) /\ lines[n] = <<>> /\ lines[n + 1] = codes[Newline]
        BY <1>5, <3>1 DEF LinesAre
      <4>2. n \in 1..Len(lines) /\ n + 1 \in 1..Len(lines) /\ n \in 1..(Len(lines') - 1)
        BY <1>6, <2>5, <4>1
      <4>3. QED
        BY <1>2, <2>5, <2>8, <3>1, <4>1, <4>2
    <3>2. CASE Newline \notin written
      BY <1>5, <2>8, <3>2 DEF LinesAre
    <3>3. QED
      BY <3>1, <3>2
  <2>10. ASSUME NEW k \in NotNewline(n)' PROVE \E c \in written' \ {Newline} : lines'[k] = RecordOf(c)'
    <3>1. CASE k \in NotNewline(n)
      <4>1. PICK c \in written \ {Newline} : lines[k] = RecordOf(c)
        BY <1>5, <3>1 DEF LinesAre
      <4>2. lines'[k] = RecordOf(c)' /\ c \in written' \ {Newline}
        BY <1>1, <1>9, <2>5, <2>6, <3>1, <4>1
      <4>3. QED
        BY <4>2
    <3>2. CASE k = Len(lines) + 1
      BY <1>1, <1>9, <1>11, <2>2, <2>5, <3>2
    <3>3. QED
      BY <2>7, <3>1, <3>2
  <2>11. ASSUME NEW c \in written' \ {Newline}
         PROVE  \E k \in NotNewline(n)' : lines'[k] = RecordOf(c)'
    <3>1. CASE c \in written
      <4>1. PICK k \in NotNewline(n) : lines[k] = RecordOf(c)
        BY <1>5, <3>1 DEF LinesAre
      <4>2. k \in NotNewline(n)' /\ lines'[k] = RecordOf(c)'
        BY <1>9, <2>5, <2>6, <2>7, <4>1
      <4>3. QED
        BY <4>2
    <3>2. CASE c = b
      BY <1>9, <2>2, <2>5, <2>7, <3>2
    <3>3. QED
      BY <1>1, <3>1, <3>2
  <2>12. LinesAre(n)'
    BY <2>9, <2>10, <2>11 DEF LinesAre
  <2>13. written' \subseteq Used
    BY <1>1, <1>3, <1>4
  <2>14. Writing'
    BY <1>2, <1>3, <1>7, <1>8, <2>12, <2>13 DEF Writing
  <2>15. written' \subseteq Bytes
    BY <1>3, <2>13, RecordFacts
  <2>16. TypeOK'
    BY <1>2, <2>5, <2>15 DEF TypeOK, Writing
  <2>17. QED
    BY <2>14, <2>16
<1>12. QED
  BY <1>10, <1>11

\* diskWriter ends with a line of every byte.
LEMMA EndWriteStep ==
  ASSUME TypeOK, Writing, EndWrite
  PROVE  TypeOK' /\ Reading'
<1>1. /\ pc' = "read" /\ i' = 1 /\ DOMAIN codes \subseteq written
      /\ UNCHANGED <<digits, list, length, temp, tree, todo, codes, codigote, written, lines, rebuilt, walk, out>>
  BY DEF EndWrite, building, coding, reading
<1>2. AllCoded /\ Stored /\ written \subseteq Used /\ rebuilt = {} /\ walk = <<>> /\ out = <<>>
  BY DEF Writing, Stored
<1>3. written = Used
  BY <1>1, <1>2 DEF AllCoded
<1>4. PICK n \in Int : LinesAre(n)
  BY DEF Writing
<1>5. Used' = Used /\ AllCoded' /\ NoBits' = NoBits
  BY <1>1, <1>2 DEF Used, AllCoded, Planted, CodesOfTree, NoBits
<1>6. Stored'
  BY <1>1, <1>2, <1>5 DEF Stored, EncodedBy
<1>7. LinesAre(n)'
  BY <1>1, <1>4 DEF LinesAre, NotNewline, RecordOf
<1>8. i' # n + 1 /\ i' \in Nat \ {0} /\ \A k \in 1..(i' - 1) : FALSE
  BY <1>1, <1>4 DEF LinesAre
<1>9. rebuilt' \subseteq Branches'
  BY <1>1, <1>2
<1>10. Reading'
  BY <1>1, <1>2, <1>3, <1>5, <1>6, <1>7, <1>8, <1>9 DEF Reading
<1>11. TypeOK'
  BY <1>1 DEF TypeOK
<1>12. QED
  BY <1>10, <1>11

\* treeReconstructor puts a leaf where it was in the tree, and drops none.
LEMMA InsertLeaf ==
  ASSUME AllCoded, rebuilt \subseteq Branches, NEW b \in Used,
         NEW r, r = Insert(rebuilt, codes[b], b)
  PROVE  r \subseteq Branches /\ rebuilt \subseteq r /\ \A l \in Branches : l[2] = b => l \in r
<1> DEFINE m == <<codes[b], b>>
<1>1. /\ Tree(tree) /\ Branches \subseteq tree /\ \A l \in tree : l[1] \in Path
      /\ m \in tree /\ m[1] = codes[b] /\ m[2] = b
  BY CodeFacts, PlantedFacts DEF AllCoded, Branches
<1>2. \A l \in Branches : l[2] = b => l = m
  BY <1>1 DEF Tree
<1>3. CASE codes[b] = <<>>
  <2>1. r = rebuilt
    BY <1>3 DEF Insert
  <2>2. \A l \in Branches : l[2] # b
    BY <1>1, <1>2, <1>3 DEF Branches
  <2>3. QED
    BY <2>1, <2>2
<1>4. CASE codes[b] # <<>>
  <2>1. r = {l \in rebuilt : ~IsPrefix(codes[b], l[1])} \cup {m}
    BY <1>4 DEF Insert
  <2>2. m \in Branches
    BY <1>1, <1>4 DEF Branches
  <2>3. \A l \in rebuilt : IsPrefix(codes[b], l[1]) => l = m
    BY <1>1 DEF Tree
  <2>4. QED
    BY <1>2, <2>1, <2>2, <2>3
<1>5. QED
  BY <1>3, <1>4

\* One round of treeReconstructor: no line is read as another's, the empty one is
\* the newline's, and the loop does not end before the last.
LEMMA ReadLineStep ==
  ASSUME TypeOK, Reading, ReadLine
  PROVE  TypeOK' /\ (Reading' \/ Decoding')
<1>1. UNCHANGED <<digits, list, length, temp, tree, todo, codes, codigote, written, lines, walk, out>>
  BY DEF ReadLine, building, coding
<1>2. /\ AllCoded /\ Stored /\ written = Used /\ walk = <<>> /\ out = <<>>
      /\ i \in Nat \ {0} /\ rebuilt \subseteq Branches /\ pc = "read"
  BY DEF Reading, Stored
<1>3. PICK n \in Int :
        /\ LinesAre(n) /\ i # n + 1
        /\ \A l \in Branches : \A k \in 1..(i - 1) :
             /\ k \in NotNewline(n) /\ lines[k] = RecordOf(l[2]) => l \in rebuilt
             /\ k = n /\ l[2] = Newline => l \in rebuilt
  BY DEF Reading
<1>4. Len(lines) \in Nat /\ DOMAIN lines = 1..Len(lines)
  BY LenProperties DEF TypeOK
<1>5. /\ Used' = Used /\ AllCoded' /\ (NoBits' <=> NoBits) /\ Branches' = Branches
      /\ NotNewline(n)' = NotNewline(n) /\ LinesAre(n)'
  <2>1. Used' = Used /\ AllCoded' /\ (NoBits' <=> NoBits)
    BY <1>1, <1>2 DEF Used, AllCoded, Planted, CodesOfTree, NoBits
  <2>2. Branches' = Branches /\ NotNewline(n)' = NotNewline(n)
    BY <1>1 DEF Branches, NotNewline
  <2>3. LinesAre(n)'
    BY <1>1, <1>3 DEF LinesAre, NotNewline, RecordOf
  <2>4. QED
    BY <2>1, <2>2, <2>3
<1>6. Stored' /\ \A a : RecordOf(a)' = RecordOf(a)
  BY <1>1, <1>2, <1>5 DEF Stored, EncodedBy, RecordOf
<1>7. n = -1 \/ n \in 1..(Len(lines) - 1)
  BY <1>3 DEF LinesAre
<1>8. \A l \in Branches : l[2] \in Used /\ l \in tree /\ l[1] # <<>>
  BY <1>2, PlantedFacts DEF AllCoded, Branches
<1>9. \A k \in DOMAIN lines : k \in NotNewline(n) \/ k = n \/ k = n + 1
  BY DEF NotNewline
<1>10. \A k \in NotNewline(n) : \E b \in Used \ {Newline} : lines[k] = RecordOf(b) /\ lines[k] # <<>>
  BY <1>2, <1>3, RecordFacts DEF LinesAre
<1>11. \A b \in Used : RecordOf(b) # <<>> /\ Head(RecordOf(b)) = b /\ Tail(RecordOf(b)) = codes[b]
  BY <1>2, RecordFacts
<1>12. Branches \subseteq Path \X (Bytes \cup Bit)
  BY <1>2, PlantedFacts DEF AllCoded, Branches, Leaf
<1>13. ASSUME Line(i) # <<>>, rebuilt' = Insert(rebuilt, Tail(Line(i)), Head(Line(i))), i' = i + 1, UNCHANGED pc
       PROVE  TypeOK' /\ Reading'
  <2>1. i \in DOMAIN lines /\ Line(i) = lines[i]
    BY <1>13 DEF Line
  <2>2. i # n
    <3>1. n # -1 => lines[n] = <<>>
      BY <1>3 DEF LinesAre
    <3>2. QED
      BY <1>2, <1>13, <2>1, <3>1
  <2>3. i \in NotNewline(n)
    BY <1>3, <1>9, <2>1, <2>2
  <2>4. PICK b \in Used \ {Newline} : lines[i] = RecordOf(b)
    BY <1>10, <2>3
  <2>5. Tail(Line(i)) = codes[b] /\ Head(Line(i)) = b
    BY <1>11, <2>1, <2>4
  <2>6. rebuilt' = Insert(rebuilt, codes[b], b)
    BY <1>13, <2>5, Zenon
  <2>7. rebuilt' \subseteq Branches /\ rebuilt \subseteq rebuilt' /\ \A l \in Branches : l[2] = b => l \in rebuilt'
    BY <1>2, <2>6, InsertLeaf
  <2>8. ASSUME NEW l \in Branches, NEW k \in 1..i
        PROVE  /\ k \in NotNewline(n) /\ lines[k] = RecordOf(l[2]) => l \in rebuilt'
               /\ k = n /\ l[2] = Newline => l \in rebuilt'
    <3>1. CASE k = i
      <4>1. lines[i] = RecordOf(l[2]) => l[2] = b
        BY <1>8, <1>11, <2>4
      <4>2. QED
        BY <2>2, <2>7, <3>1, <4>1
    <3>2. CASE k # i
      <4>1. k \in 1..(i - 1)
        BY <1>2, <3>2
      <4>2. QED
        BY <1>3, <2>7, <4>1
    <3>3. QED
      BY <3>1, <3>2
  <2>9. i' # n + 1 /\ i' \in Nat \ {0} /\ i' - 1 = i
    BY <1>2, <1>13, <2>2
  <2>10. \A l \in Branches' : \A k \in 1..(i' - 1) :
             /\ k \in NotNewline(n)' /\ lines'[k] = RecordOf(l[2])' => l \in rebuilt'
             /\ k = n /\ l[2] = Newline => l \in rebuilt'
    BY <1>1, <1>5, <1>6, <2>8, <2>9
  <2>11. Reading'
    BY <1>1, <1>2, <1>5, <1>6, <1>13, <2>7, <2>9, <2>10 DEF Reading
  <2>12. rebuilt' \subseteq Path \X (Bytes \cup Bit) /\ i' \in Nat
    BY <1>12, <2>7, <2>9
  <2>13. TypeOK'
    BY <1>1, <1>13, <2>12 DEF TypeOK
  <2>14. QED
    BY <2>11, <2>13
<1>14. ASSUME Line(i) = <<>>, Line(i + 1) # <<>>,
              rebuilt' = Insert(rebuilt, Line(i + 1), Newline), i' = i + 2, UNCHANGED pc
       PROVE  TypeOK' /\ Reading'
  <2>1. i + 1 \in DOMAIN lines /\ i \in DOMAIN lines
    BY <1>2, <1>4, <1>14 DEF Line
  <2>2. lines[i] = <<>> /\ Line(i + 1) = lines[i + 1]
    BY <1>14, <2>1 DEF Line
  <2>3. i = n
    BY <1>3, <1>9, <1>10, <2>1, <2>2
  <2>4. Newline \in Used /\ lines[n + 1] = codes[Newline]
    BY <1>2, <1>3, <2>3 DEF LinesAre
  <2>5. rebuilt' = Insert(rebuilt, codes[Newline], Newline)
    BY <1>14, <2>2, <2>3, <2>4
  <2>6. /\ rebuilt' \subseteq Branches /\ rebuilt \subseteq rebuilt'
        /\ \A l \in Branches : l[2] = Newline => l \in rebuilt'
    BY <1>2, <2>4, <2>5, InsertLeaf
  <2>7. ASSUME NEW l \in Branches, NEW k \in 1..(i + 1)
        PROVE  /\ k \in NotNewline(n) /\ lines[k] = RecordOf(l[2]) => l \in rebuilt'
               /\ k = n /\ l[2] = Newline => l \in rebuilt'
    <3>1. CASE k \in {i, i + 1}
      <4>1. k \notin NotNewline(n)
        BY <2>3, <3>1 DEF NotNewline
      <4>2. QED
        BY <2>6, <4>1
    <3>2. CASE k \notin {i, i + 1}
      <4>1. k \in 1..(i - 1)
        BY <1>2, <3>2
      <4>2. QED
        BY <1>3, <2>6, <4>1
    <3>3. QED
      BY <3>1, <3>2
  <2>8. i' # n + 1 /\ i' \in Nat \ {0} /\ i' - 1 = i + 1
    BY <1>2, <1>14, <2>3
  <2>9. \A l \in Branches' : \A k \in 1..(i' - 1) :
             /\ k \in NotNewline(n)' /\ lines'[k] = RecordOf(l[2])' => l \in rebuilt'
             /\ k = n /\ l[2] = Newline => l \in rebuilt'
    BY <1>1, <1>5, <1>6, <2>7, <2>8
  <2>10. Reading'
    BY <1>1, <1>2, <1>5, <1>6, <1>14, <2>6, <2>8, <2>9 DEF Reading
  <2>11. rebuilt' \subseteq Path \X (Bytes \cup Bit) /\ i' \in Nat
    BY <1>12, <2>6, <2>8
  <2>12. TypeOK'
    BY <1>1, <1>14, <2>11 DEF TypeOK
  <2>13. QED
    BY <2>10, <2>12
<1>15. ASSUME Line(i) = <<>>, Line(i + 1) = <<>>, pc' = "decode", i' = 0, UNCHANGED rebuilt
       PROVE  TypeOK' /\ Decoding'
  <2>1. rebuilt = Branches
    <3>1. CASE i \in DOMAIN lines
      <4>1. lines[i] = <<>> /\ i = n
        BY <1>3, <1>9, <1>10, <1>15, <3>1 DEF Line
      <4>2. Newline \in Used /\ lines[n + 1] = codes[Newline] /\ n \in 1..(Len(lines) - 1)
        BY <1>2, <1>3, <4>1 DEF LinesAre
      <4>3. codes[Newline] = <<>>
        BY <1>4, <1>15, <4>1, <4>2 DEF Line
      <4>4. <<<<>>, Newline>> \in tree
        BY <1>2, <4>2, <4>3, CodeFacts
      <4>5. \A l \in tree : l = <<<<>>, Newline>>
        <5>1. \A l \in tree : IsPrefix(<<>>, l[1])
          BY <1>2, PlantedFacts, PrefixReflexive DEF AllCoded
        <5>2. <<<<>>, Newline>>[1] = <<>>
          OBVIOUS
        <5>3. QED
          BY <1>2, <4>4, <5>1, <5>2, PlantedFacts DEF AllCoded, Tree
      <4>6. QED
        BY <1>2, <4>5 DEF Branches
    <3>2. CASE i \notin DOMAIN lines
      <4>1. \A k \in DOMAIN lines : k \in 1..(i - 1)
        BY <1>2, <1>4, <3>2
      <4>2. ASSUME NEW l \in Branches PROVE l \in rebuilt
        <5>1. CASE l[2] = Newline
          <6>1. n \in 1..(Len(lines) - 1)
            BY <1>2, <1>3, <1>8, <5>1 DEF LinesAre
          <6>2. n \in DOMAIN lines
            BY <1>4, <6>1
          <6>3. QED
            BY <1>3, <4>1, <5>1, <6>2
        <5>2. CASE l[2] # Newline
          <6>1. PICK k \in NotNewline(n) : lines[k] = RecordOf(l[2])
            BY <1>2, <1>3, <1>8, <5>2 DEF LinesAre
          <6>2. k \in DOMAIN lines
            BY DEF NotNewline
          <6>3. QED
            BY <1>3, <4>1, <6>1, <6>2
        <5>3. QED
          BY <5>1, <5>2
      <4>3. QED
        BY <1>2, <4>2
    <3>3. QED
      BY <3>1, <3>2
  <2>2. PICK e : EncodedBy(e, Len(digits))
    BY <1>2 DEF Stored
  <2>3. EncodedBy(e, Len(digits))'
    BY <1>1, <1>5, <2>2 DEF EncodedBy
  <2>4. DecodedTo(e, 0)'
    <3>1. e[0] = <<>> /\ Len(<<>>) = 0 /\ Len(digits) \in Nat
      BY <2>2, Places DEF EncodedBy
    <3>2. SubSeq(digits, 1, 0) = <<>>
      BY Places, SubSeqEmpty
    <3>3. QED
      BY <1>1, <1>2, <1>15, <3>1, <3>2 DEF DecodedTo
  <2>5. Decoding'
    BY <1>1, <1>2, <1>5, <1>15, <2>1, <2>3, <2>4 DEF Decoding
  <2>6. TypeOK'
    BY <1>1, <1>15 DEF TypeOK
  <2>7. QED
    BY <2>5, <2>6
<1>16. QED
  BY <1>13, <1>14, <1>15 DEF ReadLine

-----------------------------------------------------------------------------
(* decompress.                                                             *)

\* A code without bits is that of the only byte.
LEMMA BitsInCodes ==
  ASSUME AllCoded, ~NoBits, NEW b \in Used
  PROVE  codes[b] # <<>>
<1>1. SUFFICES ASSUME codes[b] = <<>> PROVE NoBits
  OBVIOUS
<1>2. /\ Tree(tree) /\ \A l \in tree : l[1] \in Path
      /\ \A c \in Used : <<codes[c], c>> \in tree
  BY CodeFacts, PlantedFacts DEF AllCoded
<1>3. PICK m : m = <<codes[b], b>>
  OBVIOUS
<1>4. m \in tree /\ m[1] = <<>>
  BY <1>1, <1>2, <1>3
<1>5. \A l \in tree : l = m
  BY <1>2, <1>4, PrefixReflexive DEF Tree
<1>6. \A c \in Used : <<codes[c], c>> = <<codes[b], b>>
  BY <1>2, <1>3, <1>5
<1>7. \A c \in Used : codes[c] = codes[b]
  BY <1>6
<1>8. QED
  BY <1>1, <1>7 DEF NoBits

\* One more byte is put out.
LEMMA OneByteMore ==
  ASSUME NEW S, NEW s \in Seq(S), NEW j \in Nat, j < Len(s)
  PROVE  Append(SubSeq(s, 1, j), s[j + 1]) = SubSeq(s, 1, j + 1)
<1>1. Len(s) \in Nat
  BY LenProperties
<1>2. PICK a : a = SubSeq(s, 1, j)
  OBVIOUS
<1>3. PICK c : c = SubSeq(s, 1, j + 1)
  OBVIOUS
<1>4. \A k \in 1..Len(s) : s[k] \in S
  BY ElementOfSeq
<1>5. a \in Seq(S) /\ Len(a) = j /\ \A k \in 1..j : a[k] = s[k]
  <2>1. \A k \in 1..j : s[k] \in S
    BY <1>1, <1>4
  <2>2. QED
    BY <1>1, <1>2, <2>1, SubSeqProperties
<1>6. c \in Seq(S) /\ Len(c) = j + 1 /\ \A k \in 1..(j + 1) : c[k] = s[k]
  <2>1. \A k \in 1..(j + 1) : s[k] \in S
    BY <1>1, <1>4
  <2>2. QED
    BY <1>1, <1>3, <2>1, SubSeqProperties
<1>7. PICK d : d = Append(a, s[j + 1])
  OBVIOUS
<1>8. s[j + 1] \in S
  BY <1>1, <1>4
<1>9. d \in Seq(S) /\ Len(d) = j + 1 /\ (\A k \in 1..j : d[k] = a[k]) /\ d[j + 1] = s[j + 1]
  BY <1>5, <1>7, <1>8, AppendProperties
<1>10. \A k \in 1..(j + 1) : d[k] = c[k]
  BY <1>5, <1>6, <1>9
<1>11. d = c
  BY <1>6, <1>9, <1>10, SeqEqual
<1>12. QED
  BY <1>2, <1>3, <1>7, <1>11

\* Where decompress is: the next bit leads towards the next byte.
LEMMA OnTheWay ==
  ASSUME TypeOK, AllCoded, i < Len(codigote), NEW e, EncodedBy(e, Len(digits)),
         NEW j \in Nat, DecodedTo(e, j), NEW p, p = Append(walk, codigote[i + 1])
  PROVE  /\ ~NoBits /\ j < Len(digits) /\ p \in Path /\ p # <<>> /\ Len(p) = Len(walk) + 1
         /\ digits[j + 1] \in Used /\ codes[digits[j + 1]] # <<>>
         /\ IsPrefix(p, codes[digits[j + 1]])
         /\ Len(e[j + 1]) = Len(e[j]) + Len(codes[digits[j + 1]])
         /\ Len(e[j + 1]) <= Len(codigote)
         /\ Len(e[j]) \in Nat /\ Len(walk) \in Nat /\ Len(codigote) \in Nat
<1>1. Len(digits) \in Nat /\ walk \in Path /\ Len(walk) \in Nat /\ codigote \in Path /\ Len(codigote) \in Nat
  BY Places, LenProperties DEF TypeOK, Path
<1>2. /\ \A k \in 0..Len(digits) : e[k] \in Path /\ IsPrefix(e[k], codigote)
      /\ e[Len(digits)] = codigote
      /\ \A k \in 1..Len(digits) : e[k] = e[k - 1] \o codes[digits[k]]
      /\ NoBits => codigote = <<>>
  BY DEF EncodedBy
<1>3. /\ j \in 0..Len(digits) /\ i = Len(e[j]) + Len(walk)
      /\ walk = <<>> \/ (/\ j < Len(digits) /\ walk # codes[digits[j + 1]]
                         /\ IsPrefix(walk, codes[digits[j + 1]]))
  BY DEF DecodedTo
<1>4. codigote # <<>> /\ ~NoBits
  <2>1. Len(codigote) # 0
    BY <1>1, <1>3, TypeOK DEF TypeOK
  <2>2. QED
    BY <1>2, <2>1
<1>5. e[j] \in Path /\ Len(e[j]) \in Nat
  BY <1>2, <1>3, LenProperties DEF Path
<1>6. j < Len(digits)
  <2>1. SUFFICES ASSUME j = Len(digits) PROVE FALSE
    BY <1>1, <1>3
  <2>2. walk = <<>> /\ Len(<<>>) = 0
    BY <1>1, <1>3, <2>1
  <2>3. QED
    BY <1>1, <1>2, <1>3, <2>1, <2>2
<1>7. j + 1 \in 1..Len(digits) /\ j + 1 \in 0..Len(digits) /\ (j + 1) - 1 = j
  BY <1>1, <1>6
<1>8. digits[j + 1] \in Used
  BY <1>7, Places
<1>9. PICK c : c = codes[digits[j + 1]]
  OBVIOUS
<1>10. c \in Path /\ c # <<>> /\ Len(c) \in Nat
  BY <1>4, <1>8, <1>9, CodeFacts, BitsInCodes, LenProperties DEF Path
<1>11. e[j + 1] = e[j] \o c /\ e[j + 1] \in Path /\ IsPrefix(e[j + 1], codigote)
  BY <1>2, <1>7, <1>9
<1>12. PICK f : f = e[j + 1]
  OBVIOUS
<1>13. PICK a : a = e[j]
  OBVIOUS
<1>14. /\ f \in Path /\ Len(f) = Len(a) + Len(c)
       /\ \A k \in 1..(Len(a) + Len(c)) : f[k] = IF k <= Len(a) THEN a[k] ELSE c[k - Len(a)]
  BY <1>5, <1>10, <1>11, <1>12, <1>13, ConcatProperties DEF Path
<1>15. Len(f) <= Len(codigote) /\ \A k \in 1..Len(f) : f[k] = codigote[k]
  BY <1>1, <1>11, <1>12, PrefixByElements
<1>16. IsPrefix(walk, c) /\ walk # c
  BY <1>1, <1>3, <1>9, <1>10, PrefixReflexive
<1>17. PICK b \in Bit : IsPrefix(Append(walk, b), c) /\ b = c[Len(walk) + 1]
  BY <1>1, <1>10, <1>16, OneBitDeeper
<1>18. Len(walk) < Len(c)
  <2>1. Len(walk) <= Len(c) /\ \A k \in 1..Len(walk) : walk[k] = c[k]
    BY <1>1, <1>10, <1>16, PrefixByElements
  <2>2. Len(walk) # Len(c)
    BY <1>1, <1>10, <1>16, <2>1, SeqEqual DEF Path
  <2>3. QED
    BY <1>1, <1>10, <2>1, <2>2
<1>19. codigote[i + 1] = b
  <2>1. Len(a) \in Nat /\ i = Len(a) + Len(walk)
    BY <1>3, <1>5, <1>13
  <2>2. i + 1 \in 1..(Len(a) + Len(c)) /\ ~(i + 1 <= Len(a)) /\ (i + 1) - Len(a) = Len(walk) + 1
    BY <1>1, <1>10, <1>18, <2>1
  <2>3. f[i + 1] = c[Len(walk) + 1] /\ f[i + 1] = codigote[i + 1]
    BY <1>14, <1>15, <2>2
  <2>4. QED
    BY <1>17, <2>3
<1>20. p = Append(walk, b)
  BY <1>19
<1>21. p \in Path /\ p # <<>> /\ Len(p) = Len(walk) + 1 /\ IsPrefix(p, c)
  BY <1>1, <1>17, <1>20, OneBitDeeper
<1>22. QED
  BY <1>1, <1>4, <1>5, <1>6, <1>8, <1>9, <1>10, <1>12, <1>13, <1>14, <1>15, <1>21

\* One bit: the walk goes on inside the tree or ends at the leaf of the byte that was
\* encoded there, and never leaves the tree.
LEMMA DecodeBitStep ==
  ASSUME TypeOK, Decoding, DecodeBit
  PROVE  TypeOK' /\ Decoding'
<1>1. /\ UNCHANGED <<digits, list, length, temp, tree, todo, codes, codigote, written, lines, rebuilt>>
      /\ i < Len(codigote) /\ i' = i + 1 /\ pc = "decode"
  BY DEF DecodeBit, building, coding
<1>2. AllCoded /\ rebuilt = Branches
  BY DEF Decoding
<1>3. PICK e : EncodedBy(e, Len(digits)) /\ \E j \in Nat : DecodedTo(e, j)
  BY DEF Decoding
<1>4. PICK j \in Nat : DecodedTo(e, j)
  BY <1>3
<1>5. PICK p : p = Append(walk, codigote[i + 1])
  OBVIOUS
<1>6. PICK b : b = digits[j + 1]
  OBVIOUS
<1>7. PICK c : c = codes[b]
  OBVIOUS
<1>8. /\ ~NoBits /\ j < Len(digits) /\ p \in Path /\ p # <<>> /\ Len(p) = Len(walk) + 1
      /\ b \in Used /\ c # <<>> /\ IsPrefix(p, c)
      /\ Len(e[j + 1]) = Len(e[j]) + Len(c) /\ Len(e[j + 1]) <= Len(codigote)
      /\ Len(e[j]) \in Nat /\ Len(walk) \in Nat /\ Len(codigote) \in Nat
  BY <1>1, <1>2, <1>3, <1>4, <1>5, <1>6, <1>7, OnTheWay
<1>9. i = Len(e[j]) + Len(walk) /\ out = SubSeq(digits, 1, j) /\ Len(digits) \in Nat
  BY <1>4, Places DEF DecodedTo
<1>10. c \in Path /\ <<c, b>> \in tree /\ <<c, b>>[1] = c /\ <<c, b>>[2] = b /\ b \in Bytes
  BY <1>2, <1>7, <1>8, CodeFacts, RecordFacts
<1>11. <<c, b>> \in rebuilt
  BY <1>2, <1>8, <1>10 DEF Branches
<1>12. \A l \in rebuilt : IsPrefix(l[1], c) => l = <<c, b>>
  BY <1>2, <1>10, PlantedFacts DEF AllCoded, Branches, Tree
<1>13. NodeAt(rebuilt, p)
  BY <1>8, <1>10, <1>11 DEF NodeAt
<1>14. /\ Used' = Used /\ AllCoded' /\ (NoBits' <=> NoBits) /\ rebuilt' = Branches'
       /\ EncodedBy(e, Len(digits))'
  <2>1. Used' = Used /\ AllCoded' /\ (NoBits' <=> NoBits)
    BY <1>1, <1>2 DEF Used, AllCoded, Planted, CodesOfTree, NoBits
  <2>2. rebuilt' = Branches'
    BY <1>1, <1>2 DEF Branches
  <2>3. EncodedBy(e, Len(digits))'
    BY <1>1, <1>3, <2>1 DEF EncodedBy
  <2>4. QED
    BY <2>1, <2>2, <2>3
<1>15. CASE p = c
  <2>1. LeafAt(rebuilt, p) = {<<c, b>>}
    BY <1>8, <1>10, <1>11, <1>12, <1>15 DEF LeafAt
  <2>2. out' = Append(out, b) /\ walk' = <<>> /\ pc' = pc
    BY <1>5, <1>10, <2>1 DEF DecodeBit
  <2>3. out' = SubSeq(digits, 1, j + 1)
    BY <1>6, <1>8, <1>9, <2>2, Places, OneByteMore
  <2>4. i' = Len(e[j + 1]) + Len(walk')
    <3>1. Len(<<>>) = 0
      OBVIOUS
    <3>2. QED
      BY <1>1, <1>8, <1>9, <1>15, <2>2, <3>1
  <2>5. j + 1 \in 0..Len(digits) /\ j + 1 \in Nat
    BY <1>8, <1>9
  <2>6. DecodedTo(e, j + 1)'
    BY <1>1, <2>2, <2>3, <2>4, <2>5 DEF DecodedTo
  <2>7. Decoding'
    BY <1>1, <1>8, <1>14, <2>2, <2>5, <2>6 DEF Decoding
  <2>8. out' \in Seq(Bytes \cup Bit) /\ walk' \in Path /\ i' \in Nat
    <3>1. out \in Seq(Bytes \cup Bit) /\ b \in Bytes \cup Bit
      BY <1>10 DEF TypeOK
    <3>2. out' \in Seq(Bytes \cup Bit)
      BY <2>2, <3>1, AppendProperties
    <3>3. QED
      BY <1>1, <1>8, <1>9, <2>2, <3>2, EmptySeq DEF Path
  <2>9. TypeOK'
    BY <1>1, <2>2, <2>8 DEF TypeOK
  <2>10. QED
    BY <2>7, <2>9
<1>16. CASE p # c
  <2>1. LeafAt(rebuilt, p) = {}
    BY <1>8, <1>10, <1>12, <1>16 DEF LeafAt
  <2>2. Len(p) < Len(c) /\ Len(c) \in Nat
    <3>1. Len(c) \in Nat /\ Len(p) \in Nat
      BY <1>8, <1>10, LenProperties DEF Path
    <3>2. Len(p) <= Len(c) /\ \A k \in 1..Len(p) : p[k] = c[k]
      BY <1>8, <1>10, PrefixByElements
    <3>3. Len(p) # Len(c)
      BY <1>8, <1>10, <1>16, <3>2, SeqEqual DEF Path
    <3>4. QED
      BY <3>1, <3>2, <3>3
  <2>3. i + 1 < Len(codigote) /\ i + 1 # Len(codigote)
    BY <1>8, <1>9, <2>2
  <2>4. walk' = p /\ pc' = pc /\ out' = out
    BY <1>5, <1>13, <2>1, <2>3 DEF DecodeBit
  <2>5. DecodedTo(e, j)'
    <3>1. i' = Len(e[j]) + Len(walk')
      BY <1>1, <1>8, <1>9, <2>4
    <3>2. walk' # codes[digits[j + 1]] /\ IsPrefix(walk', codes[digits[j + 1]])
      BY <1>6, <1>7, <1>8, <1>16, <2>4
    <3>3. j \in 0..Len(digits)
      BY <1>8, <1>9
    <3>4. QED
      BY <1>1, <1>8, <1>9, <2>4, <3>1, <3>2, <3>3 DEF DecodedTo
  <2>6. Decoding'
    BY <1>1, <1>8, <1>14, <2>4, <2>5 DEF Decoding
  <2>7. TypeOK'
    BY <1>1, <1>8, <2>4 DEF TypeOK
  <2>8. QED
    BY <2>6, <2>7
<1>17. QED
  BY <1>15, <1>16

\* When the bits are through so is the picture.
LEMMA EndDecodeStep ==
  ASSUME TypeOK, Decoding, EndDecode
  PROVE  TypeOK' /\ Ended'
<1>1. /\ UNCHANGED <<digits, i, list, length, temp, tree, todo, codes, codigote, written, lines, rebuilt, walk, out>>
      /\ i = Len(codigote) /\ pc' = "done"
  BY DEF EndDecode, building, coding, reading
<1>2. AllCoded /\ rebuilt = Branches /\ (NoBits => out = <<>>)
  BY DEF Decoding
<1>3. PICK e : EncodedBy(e, Len(digits)) /\ \E j \in Nat : DecodedTo(e, j)
  BY DEF Decoding
<1>4. PICK j \in Nat : DecodedTo(e, j)
  BY <1>3
<1>5. Used' = Used
  BY <1>1 DEF Used
<1>6. Len(digits) \in Nat /\ digits \in Seq(Bytes)
  BY Places
<1>7. CASE Cardinality(Used) >= 2
  <2>1. ~NoBits
    <3>1. SUFFICES ASSUME NoBits PROVE FALSE
      OBVIOUS
    <3>2. Used # {}
      BY <1>7, FS_EmptySet
    <3>3. PICK b \in Used : TRUE
      BY <3>2
    <3>4. \A c \in Used : <<codes[c], c>> = <<codes[b], b>>
      <4>1. ASSUME NEW c \in Used PROVE <<codes[c], c>> = <<codes[b], b>>
        <5>1. /\ <<codes[c], c>> \in tree /\ <<codes[b], b>> \in tree
              /\ <<codes[c], c>>[1] = <<>> /\ <<codes[b], b>>[1] = <<>>
          BY <1>2, <3>1, CodeFacts DEF NoBits
        <5>2. IsPrefix(<<>>, <<>>)
          BY EmptySeq, PrefixReflexive DEF Path
        <5>3. QED
          BY <1>2, <5>1, <5>2 DEF AllCoded, Planted, Tree
      <4>2. QED
        BY <4>1
    <3>5. \A c \in Used : c = b
      BY <3>4
    <3>6. Used = {b}
      BY <3>5
    <3>7. Cardinality({b}) = 1
      BY FS_Singleton
    <3>8. QED
      BY <1>7, <3>6, <3>7
  <2>2. /\ \A b \in Used : codes[b] # <<>> /\ codes[b] \in Path
    BY <1>2, <2>1, BitsInCodes, CodeFacts
  <2>3. walk \in Path /\ Len(walk) \in Nat /\ codigote \in Path /\ Len(codigote) \in Nat
    BY LenProperties DEF TypeOK, Path
  <2>4. /\ \A k \in 0..Len(digits) : e[k] \in Path /\ IsPrefix(e[k], codigote)
        /\ e[Len(digits)] = codigote
        /\ \A k \in 1..Len(digits) : e[k] = e[k - 1] \o codes[digits[k]]
    BY <1>3 DEF EncodedBy
  <2>5. /\ j \in 0..Len(digits) /\ i = Len(e[j]) + Len(walk) /\ out = SubSeq(digits, 1, j)
        /\ walk = <<>> \/ (/\ j < Len(digits) /\ walk # codes[digits[j + 1]]
                           /\ IsPrefix(walk, codes[digits[j + 1]]))
    BY <1>4 DEF DecodedTo
  <2>6. j = Len(digits)
    <3>1. SUFFICES ASSUME j < Len(digits) PROVE FALSE
      BY <1>6, <2>5
    <3>2. j + 1 \in 1..Len(digits) /\ j + 1 \in 0..Len(digits) /\ (j + 1) - 1 = j
      BY <1>6, <3>1
    <3>3. PICK c : c = codes[digits[j + 1]]
      OBVIOUS
    <3>4. c \in Path /\ c # <<>> /\ Len(c) \in Nat
      BY <2>2, <3>2, <3>3, Places, LenProperties DEF Path
    <3>5. e[j + 1] = e[j] \o c /\ e[j] \in Path /\ e[j + 1] \in Path /\ IsPrefix(e[j + 1], codigote)
      BY <2>4, <2>5, <3>2, <3>3
    <3>6. Len(e[j + 1]) = Len(e[j]) + Len(c) /\ Len(e[j]) \in Nat
      BY <3>4, <3>5, PrefixOfConcat, LenProperties DEF Path
    <3>7. Len(e[j + 1]) <= Len(codigote)
      BY <2>3, <3>5, PrefixByElements
    <3>8. IsPrefix(walk, c) /\ walk # c
      BY <2>3, <2>5, <3>3, <3>4, PrefixReflexive
    <3>9. Len(walk) < Len(c)
      <4>1. Len(walk) <= Len(c) /\ \A k \in 1..Len(walk) : walk[k] = c[k]
        BY <2>3, <3>4, <3>8, PrefixByElements
      <4>2. Len(walk) # Len(c)
        BY <2>3, <3>4, <3>8, <4>1, SeqEqual DEF Path
      <4>3. QED
        BY <2>3, <3>4, <4>1, <4>2
    <3>10. QED
      BY <1>1, <2>3, <2>5, <3>4, <3>6, <3>7, <3>9
  <2>7. out = digits
    BY <1>6, <2>5, <2>6, SubSeqFull
  <2>8. QED
    BY <1>1, <1>5, <1>7, <2>7 DEF Ended, RoundTrip, TypeOK
<1>8. CASE ~(Cardinality(Used) >= 2)
  <2>1. Used # {}
    BY <1>2, PlantedFacts DEF AllCoded
  <2>2. PICK b \in Used : TRUE
    BY <2>1
  <2>3. \A c \in Used : c = b
    <3>1. Cardinality(Used) # 0 /\ Cardinality(Used) \in Nat /\ IsFiniteSet(Used)
      BY <2>1, UsedFinite, FS_EmptySet
    <3>2. Cardinality(Used) = 1
      BY <1>8, <3>1
    <3>3. \E x : Used = {x}
      BY <3>1, <3>2, FS_Singleton
    <3>4. QED
      BY <2>2, <3>3
  <2>4. Used = {b}
    BY <2>2, <2>3
  <2>5. tree = {<<<<>>, b>>}
    BY <1>2, <2>4, OneByteOneLeaf DEF AllCoded, Planted
  <2>6. <<codes[b], b>> = <<<<>>, b>>
    BY <1>2, <2>2, <2>5, CodeFacts
  <2>7. codes[b] = <<>>
    BY <2>6
  <2>8. NoBits
    BY <2>4, <2>7 DEF NoBits
  <2>9. out = <<>>
    BY <1>2, <2>8
  <2>10. QED
    BY <1>1, <1>5, <1>8, <2>9 DEF Ended, RoundTrip, TypeOK
<1>9. QED
  BY <1>7, <1>8

-----------------------------------------------------------------------------
(* The invariant holds.                                                    *)

\* Which part of the invariant holds is told by the loop the program is in.
LEMMA Phases ==
  ASSUME HuffInv
  PROVE  /\ TypeOK
         /\ pc = "count" => Counting
         /\ pc = "build" => Building
         /\ pc = "sort" => Sorting
         /\ pc = "codify" => Codifying
         /\ pc = "encode" => Encoding
         /\ pc = "write" => Writing
         /\ pc = "read" => Reading
         /\ pc = "decode" => Decoding
         /\ pc = "done" => Ended
         /\ pc = "died" => Died
BY DEF HuffInv, Counting, Building, Sorting, Codifying, Encoding, Writing, Reading, Decoding, Ended, Died

\* The invariant holds at the start.
LEMMA HuffInvInit == Init => HuffInv
BY InitPhase DEF HuffInv

\* Every step of the program keeps it.
LEMMA HuffInvStep == HuffInv /\ Next => HuffInv'
<1> SUFFICES ASSUME HuffInv, Next PROVE HuffInv'
  OBVIOUS
<1>1. TypeOK
  BY Phases
<1>2. CASE CountByte
  BY <1>1, <1>2, Phases, CountStep DEF CountByte, HuffInv
<1>3. CASE Build
  BY <1>1, <1>3, Phases, BuildStep DEF Build, HuffInv
<1>4. CASE SortStep
  BY <1>1, <1>4, Phases, SortStepSorts DEF SortStep, HuffInv
<1>5. CASE Combine
  BY <1>1, <1>5, Phases, CombineStep DEF Combine, HuffInv
<1>6. CASE backTrackCoder
  BY <1>1, <1>6, Phases, backTrackStep DEF backTrackCoder, HuffInv
<1>7. CASE EndCodify
  BY <1>1, <1>7, Phases, EndCodifyStep DEF EndCodify, HuffInv
<1>8. CASE EncodeByte
  BY <1>1, <1>8, Phases, EncodeByteStep DEF EncodeByte, HuffInv
<1>9. CASE EndEncode
  BY <1>1, <1>9, Phases, EndEncodeStep DEF EndEncode, HuffInv
<1>10. CASE WriteLine
  BY <1>1, <1>10, Phases, WriteLineStep DEF WriteLine, HuffInv
<1>11. CASE EndWrite
  BY <1>1, <1>11, Phases, EndWriteStep DEF EndWrite, HuffInv
<1>12. CASE ReadLine
  BY <1>1, <1>12, Phases, ReadLineStep DEF ReadLine, HuffInv
<1>13. CASE DecodeBit
  BY <1>1, <1>13, Phases, DecodeBitStep DEF DecodeBit, HuffInv
<1>14. CASE EndDecode
  BY <1>1, <1>14, Phases, EndDecodeStep DEF EndDecode, HuffInv
<1>15. QED
  BY <1>2, <1>3, <1>4, <1>5, <1>6, <1>7, <1>8, <1>9, <1>10, <1>11, <1>12, <1>13, <1>14
     DEF Next, Compress, Encode, TreeFile, Decompress

\* Nothing of the invariant is about another variable.
LEMMA HuffInvStutter == HuffInv /\ UNCHANGED vars => HuffInv'
<1> SUFFICES ASSUME HuffInv, UNCHANGED vars PROVE HuffInv'
  OBVIOUS
<1>1. UNCHANGED <<pc, digits, i, list, length, temp, tree, todo, codes, codigote, written, lines, rebuilt, walk, out>>
  BY DEF vars, building, coding, reading
<1>2. TypeOK'
  BY <1>1, Phases DEF TypeOK
<1>3. Used' = Used
  BY <1>1 DEF Used
<1>4. (Planted' <=> Planted) /\ (CodesOfTree' <=> CodesOfTree) /\ (Unread' <=> Unread) /\ Branches' = Branches
  BY <1>1, <1>3 DEF Planted, CodesOfTree, Unread, Branches
<1>5. (AllCoded' <=> AllCoded) /\ (NoBits' <=> NoBits) /\ (Uncoded' <=> Uncoded)
  BY <1>1, <1>3, <1>4 DEF AllCoded, NoBits, Uncoded
<1>6. \A e, n : EncodedBy(e, n)' <=> EncodedBy(e, n)
  BY <1>1, <1>5 DEF EncodedBy
<1>7. Stored' <=> Stored
  BY <1>1, <1>5, <1>6 DEF Stored
<1>8. \A n : (LinesAre(n)' <=> LinesAre(n)) /\ NotNewline(n)' = NotNewline(n)
  BY <1>1 DEF LinesAre, NotNewline, RecordOf
<1>9. CASE Counting
  BY <1>1, <1>2, <1>5, <1>9 DEF Counting, HuffInv
<1>10. CASE Building
  BY <1>1, <1>2, <1>3, <1>5, <1>10 DEF Building, HuffInv
<1>11. CASE Sorting
  BY <1>1, <1>2, <1>3, <1>5, <1>11 DEF Sorting, HuffInv
<1>12. CASE Codifying
  BY <1>1, <1>2, <1>4, <1>12 DEF Codifying, NodeAt, HuffInv
<1>13. CASE Encoding
  BY <1>1, <1>2, <1>4, <1>5, <1>6, <1>13 DEF Encoding, HuffInv
<1>14. CASE Writing
  BY <1>1, <1>2, <1>3, <1>7, <1>8, <1>14 DEF Writing, HuffInv
<1>15. CASE Reading
  BY <1>1, <1>2, <1>3, <1>4, <1>7, <1>8, <1>15 DEF Reading, RecordOf, HuffInv
<1>16. CASE Decoding
  BY <1>1, <1>2, <1>4, <1>5, <1>6, <1>16 DEF Decoding, DecodedTo, HuffInv
<1>17. CASE Ended
  BY <1>1, <1>2, <1>3, <1>17 DEF Ended, RoundTrip, HuffInv
<1>18. CASE Died
  BY <1>1, <1>2, <1>18 DEF Died, HuffInv
<1>19. QED
  BY <1>9, <1>10, <1>11, <1>12, <1>13, <1>14, <1>15, <1>16, <1>17, <1>18 DEF HuffInv

\* What the properties say is what the phases say.
LEMMA TreeComesBack == HuffInv => SameTree
<1> SUFFICES ASSUME HuffInv, pc = "decode", Cardinality(Used) >= 2 PROVE rebuilt = tree
  BY DEF SameTree
<1>1. AllCoded /\ rebuilt = Branches /\ Tree(tree)
  BY Phases DEF Decoding, AllCoded, Planted
<1>2. ASSUME NEW l \in tree, l[1] = <<>> PROVE FALSE
  <2>1. \A m \in tree : l = m
    BY <1>1, <1>2, PlantedFacts, PrefixReflexive DEF AllCoded, Tree
  <2>2. tree = {l}
    BY <2>1
  <2>3. Used = {l[2]}
    BY <1>1, <2>2 DEF AllCoded, Planted, BytesUnder
  <2>4. Cardinality({l[2]}) = 1
    BY FS_Singleton
  <2>5. QED
    BY <2>3, <2>4
<1>3. QED
  BY <1>1, <1>2 DEF Branches

\* NothingLost follows from the list being a forest of the bytes used.
LEMMA NothingIsLost == HuffInv => NothingLost
<1> SUFFICES ASSUME HuffInv, pc \in {"build", "sort"} PROVE NothingLost
  BY DEF NothingLost
<1>1. Forest(list, Used) /\ length = Len(list) /\ temp \in 1..Len(list)
  <2>1. CASE pc = "build"
    BY <2>1, Phases DEF Building
  <2>2. CASE pc = "sort"
    <3>1. Forest(list, Used) /\ length = Len(list) /\ temp \in 1..(Len(list) - 1)
      BY <2>2, Phases DEF Sorting
    <3>2. Len(list) \in Nat
      BY <3>1, LenProperties DEF Forest
    <3>3. QED
      BY <3>1, <3>2
  <2>3. QED
    BY <2>1, <2>2
<1>2. DOMAIN list = 1..Len(list) /\ Len(list) \in Nat
  BY <1>1, LenProperties DEF Forest
<1>3. temp <= Len(list)
  BY <1>1, <1>2
<1>4. \A b \in Used : \E k \in DOMAIN list : b \in BytesUnder(list[k].leaves)
  BY <1>1, <1>2 DEF Forest
<1>5. \A k \in DOMAIN list, l \in DOMAIN list :
        k # l => BytesUnder(list[k].leaves) \cap BytesUnder(list[l].leaves) = {}
  BY <1>1, <1>2 DEF Forest
<1>6. QED
  BY <1>1, <1>3, <1>4, <1>5 DEF NothingLost

\* The codes are paths of leaves, and no leaf of a tree is above another.
LEMMA CodesArePrefixFree == HuffInv /\ pc = "encode" => PrefixFree
<1> SUFFICES ASSUME HuffInv, pc = "encode" PROVE PrefixFree
  OBVIOUS
<1>1. AllCoded /\ DOMAIN codes = Used
  BY Phases DEF Encoding, AllCoded
<1>2. ASSUME NEW b \in Used, NEW c \in Used, b # c PROVE ~IsPrefix(codes[b], codes[c])
  <2>1. PICK l : l = <<codes[b], b>>
    OBVIOUS
  <2>2. PICK m : m = <<codes[c], c>>
    OBVIOUS
  <2>3. l \in tree /\ m \in tree /\ l[1] = codes[b] /\ m[1] = codes[c] /\ l # m
    BY <1>1, <1>2, <2>1, <2>2, CodeFacts
  <2>4. QED
    BY <1>1, <2>3 DEF AllCoded, Planted, Tree
<1>3. QED
  BY <1>1, <1>2 DEF PrefixFree

\* All that is claimed of the compressor follows from the invariant.
LEMMA HuffInvMeans == HuffInv => TypeOK /\ NothingLost /\ PrefixFree /\ SameTree /\ RoundTrip /\ DiesOnlyEmpty
<1> SUFFICES ASSUME HuffInv PROVE TypeOK /\ NothingLost /\ PrefixFree /\ SameTree /\ RoundTrip /\ DiesOnlyEmpty
  OBVIOUS
<1>1. RoundTrip
  BY Phases DEF Ended, RoundTrip
<1>2. DiesOnlyEmpty
  BY Phases DEF Died, DiesOnlyEmpty
<1>3. PrefixFree
  BY CodesArePrefixFree DEF PrefixFree
<1>4. QED
  BY <1>1, <1>2, <1>3, Phases, NothingIsLost, TreeComesBack

\* The compressor alone: every picture comes back, whatever bytes it is of.
THEOREM CompressorIsLossless == Spec => [](NothingLost /\ PrefixFree /\ SameTree /\ RoundTrip /\ DiesOnlyEmpty)
<1>1. HuffInv /\ [Next]_vars => HuffInv'
  BY HuffInvStep, HuffInvStutter
<1>2. QED
  BY <1>1, HuffInvInit, HuffInvMeans, PTL DEF Spec

-----------------------------------------------------------------------------
(* The trip: the stripe between what is written and what is read.          *)

S == INSTANCE StripingProofs WITH Codigotes <- {}

\* StripingProofs speaks of its own instance of Striping: the operators are the same.
LEMMA SameArithmetic ==
  /\ \A f : Stripe!merge(f) = S!merge(f)
  /\ \A c : Stripe!StoredFrags(c) = S!StoredFrags(c)
  /\ \A f, k, n : Stripe!XORrecovery(f, k, n) = S!XORrecovery(f, k, n)
BY DEF Stripe!merge, S!merge, Stripe!RealBits, S!RealBits, Stripe!Smaller, S!Smaller,
   Stripe!StoredFrags, S!StoredFrags, Stripe!XORrecovery, S!XORrecovery,
   Stripe!parityCalculator, S!parityCalculator, Stripe!codigoteSplitter, S!codigoteSplitter,
   Stripe!Cut, S!Cut, Stripe!Larger, S!Larger, Stripe!Padded, S!Padded,
   Stripe!ParityBits, S!ParityBits, Stripe!BitAt, S!BitAt, Stripe!RealSize, S!RealSize,
   Stripe!CodeOf, S!CodeOf, Stripe!OtherFrags, S!OtherFrags

\* What StripingProofs shows of a codigote, said of the operators used here.
LEMMA StripeFacts ==
  ASSUME NEW c \in Path
  PROVE  /\ Stripe!merge(Stripe!StoredFrags(c)) = c
         /\ DOMAIN Stripe!StoredFrags(c) = FragNumbs
         /\ \A fs : Stripe!merge(fs) = S!RealBits(fs[1]) \o S!RealBits(fs[2]) \o S!RealBits(fs[3])
<1>1. c \in S!Codigote
  BY DEF S!Codigote, S!Bit, Path, Bit
<1>2. S!merge(S!StoredFrags(c)) = c
  BY <1>1, S!MergeStored
<1>3. DOMAIN S!StoredFrags(c) = 1..4
  BY <1>1, S!StoredBits
<1>4. \A fs : S!merge(fs) = S!RealBits(fs[1]) \o S!RealBits(fs[2]) \o S!RealBits(fs[3])
  BY DEF S!merge
<1>5. QED
  BY <1>2, <1>3, <1>4, SameArithmetic DEF FragNumbs

\* XORrecovery writes the file that was stored, whichever is missing.
LEMMA RecoverFacts ==
  ASSUME NEW c \in Path, NEW k \in FragNumbs, NEW fs,
         \A j \in FragNumbs \ {k} : j \in DOMAIN fs /\ fs[j] = Stripe!StoredFrags(c)[j]
  PROVE  Stripe!XORrecovery(fs, k, Len(c)) = Stripe!StoredFrags(c)[k]
<1>1. c \in S!Codigote
  BY DEF S!Codigote, S!Bit, Path, Bit
<1>2. \A j \in 1..4 \ {k} : j \in DOMAIN fs /\ fs[j] = S!StoredFrags(c)[j]
  BY SameArithmetic DEF FragNumbs
<1>3. S!XORrecovery(fs, k, Len(c)) = S!StoredFrags(c)[k]
  BY <1>1, <1>2, S!RecoverExact DEF FragNumbs
<1>4. QED
  BY <1>3, SameArithmetic

\* From the time the picture is stored its fragments are those of its codigote,
\* and at most one is missing.
FilesInv ==
  pc \in {"write", "read", "decode"} =>
    /\ DOMAIN files \subseteq FragNumbs
    /\ \E k \in FragNumbs : FragNumbs \ {k} \subseteq DOMAIN files
    /\ \A k \in DOMAIN files : files[k] = Stripe!StoredFrags(codigote)[k]

TripInv == HuffInv /\ FilesInv

\* diskWriter stores the fragments of what was encoded.
LEMMA StoreStep == TripInv /\ Store => TripInv'
<1> SUFFICES ASSUME TripInv, Store PROVE TripInv'
  OBVIOUS
<1>1. HuffInv'
  BY HuffInvStep DEF TripInv, Store, Next, Encode
<1>2. codigote \in Path
  BY Phases DEF TripInv, TypeOK
<1>3. codigote' = codigote /\ files' = Stripe!StoredFrags(codigote)
  BY DEF Store, EndEncode, coding
<1>4. DOMAIN files' = FragNumbs
  BY <1>2, <1>3, StripeFacts
<1>5. FilesInv'
  BY <1>3, <1>4 DEF FilesInv, FragNumbs
<1>6. QED
  BY <1>1, <1>5 DEF TripInv

\* No other step of the compressor touches what is stored.
LEMMA OtherStep == TripInv /\ OtherSteps /\ UNCHANGED <<files, read>> => TripInv'
<1> SUFFICES ASSUME TripInv, OtherSteps, UNCHANGED <<files, read>> PROVE TripInv'
  OBVIOUS
<1>1. Next
  BY DEF OtherSteps, Next, Encode, TreeFile
<1>2. HuffInv'
  BY <1>1, HuffInvStep DEF TripInv
<1>3. /\ pc' \in {"write", "read", "decode"} => pc \in {"write", "read", "decode"}
      /\ pc \in {"write", "read", "decode"} => codigote' = codigote
  <2>1. CASE Compress
    BY <2>1 DEF Compress, CountByte, Build, SortStep, Combine, coding
  <2>2. CASE backTrackCoder \/ EndCodify \/ EncodeByte
    BY <2>2 DEF backTrackCoder, EndCodify, EncodeByte, coding
  <2>3. CASE WriteLine \/ EndWrite \/ ReadLine
    BY <2>3 DEF WriteLine, EndWrite, ReadLine, coding
  <2>4. CASE Decompress
    BY <2>4 DEF Decompress, DecodeBit, EndDecode, coding
  <2>5. QED
    BY <2>1, <2>2, <2>3, <2>4 DEF OtherSteps
<1>4. files' = files
  OBVIOUS
<1>5. FilesInv'
  BY <1>3, <1>4 DEF TripInv, FilesInv
<1>6. QED
  BY <1>2, <1>5 DEF TripInv

\* One fragment is lost: the others are as they were.
LEMMA LoseStep == ASSUME TripInv, NEW k \in FragNumbs, Lose(k) PROVE TripInv'
<1>1. HuffInv'
  BY HuffInvStutter DEF TripInv, Lose
<1>2. /\ pc = "read" /\ DOMAIN files = FragNumbs /\ codigote' = codigote
      /\ files' = [j \in FragNumbs \ {k} |-> files[j]]
  BY DEF Lose, vars, coding
<1>3. DOMAIN files' = FragNumbs \ {k} /\ \A j \in DOMAIN files' : files'[j] = files[j] /\ j \in DOMAIN files
  BY <1>2
<1>4. \A j \in DOMAIN files : files[j] = Stripe!StoredFrags(codigote)[j]
  BY <1>2 DEF TripInv, FilesInv
<1>5. FilesInv'
  BY <1>2, <1>3, <1>4 DEF FilesInv
<1>6. QED
  BY <1>1, <1>5 DEF TripInv

\* repair writes the missing fragment as it was stored.
LEMMA RecoverStep == ASSUME TripInv, NEW k \in FragNumbs, Recover(k) PROVE TripInv'
<1>1. HuffInv'
  BY HuffInvStutter DEF TripInv, Recover
<1>2. /\ k \notin DOMAIN files /\ pc' = pc /\ codigote' = codigote
      /\ files' = [j \in FragNumbs |->
                     IF j = k THEN Stripe!XORrecovery(files, k, Len(codigote)) ELSE files[j]]
  BY DEF Recover, vars, coding
<1>3. codigote \in Path
  BY Phases DEF TripInv, TypeOK
<1>4. ASSUME pc \in {"write", "read", "decode"}
      PROVE  DOMAIN files' = FragNumbs /\ \A j \in FragNumbs : files'[j] = Stripe!StoredFrags(codigote)[j]
  <2>1. FragNumbs \ {k} \subseteq DOMAIN files /\ \A j \in DOMAIN files : files[j] = Stripe!StoredFrags(codigote)[j]
    BY <1>2, <1>4 DEF TripInv, FilesInv
  <2>2. \A j \in FragNumbs \ {k} : j \in DOMAIN files /\ files[j] = Stripe!StoredFrags(codigote)[j]
    BY <2>1
  <2>3. Stripe!XORrecovery(files, k, Len(codigote)) = Stripe!StoredFrags(codigote)[k]
    BY <1>3, <2>2, RecoverFacts
  <2>4. DOMAIN files' = FragNumbs
    BY <1>2
  <2>5. ASSUME NEW j \in FragNumbs PROVE files'[j] = Stripe!StoredFrags(codigote)[j]
    <3>1. CASE j = k
      BY <1>2, <2>3, <3>1
    <3>2. CASE j # k
      BY <1>2, <2>2, <3>2
    <3>3. QED
      BY <3>1, <3>2
  <2>6. QED
    BY <2>4, <2>5
<1>5. FilesInv'
  BY <1>2, <1>4 DEF FilesInv
<1>6. QED
  BY <1>1, <1>5 DEF TripInv

\* merge reads back the codigote that was encoded, so nothing changes.
LEMMA MergeStep == ASSUME TripInv, Merge PROVE TripInv'
<1>1. /\ pc = "read" /\ pc' = pc /\ DOMAIN files = FragNumbs /\ files' = files /\ codigote' = Stripe!merge(files)
      /\ UNCHANGED <<digits, i, building, tree, todo, codes, reading>>
  BY DEF Merge
<1>2. codigote \in Path
  BY Phases DEF TripInv, TypeOK
<1>3. \A j \in FragNumbs : files[j] = Stripe!StoredFrags(codigote)[j]
  BY <1>1 DEF TripInv, FilesInv
<1>4. 1 \in FragNumbs /\ 2 \in FragNumbs /\ 3 \in FragNumbs
  BY DEF FragNumbs
<1>5. PICK fs : fs = Stripe!StoredFrags(codigote)
  OBVIOUS
<1>6. files[1] = fs[1] /\ files[2] = fs[2] /\ files[3] = fs[3]
  BY <1>3, <1>4, <1>5
<1>7. Stripe!merge(files) = Stripe!merge(fs)
  BY <1>2, <1>6, StripeFacts
<1>8. codigote' = codigote
  BY <1>1, <1>2, <1>5, <1>7, StripeFacts
<1>9. UNCHANGED vars
  BY <1>1, <1>8 DEF vars, coding
<1>10. HuffInv'
  BY <1>9, HuffInvStutter DEF TripInv
<1>11. FilesInv'
  BY <1>1, <1>8 DEF TripInv, FilesInv
<1>12. QED
  BY <1>10, <1>11 DEF TripInv

\* The invariant of the trip holds at the start, when nothing is stored.
LEMMA TripInvInit == TripInit => TripInv
<1> SUFFICES ASSUME TripInit PROVE TripInv
  OBVIOUS
<1>1. HuffInv /\ pc = "count"
  BY HuffInvInit DEF TripInit, Init
<1>2. QED
  BY <1>1 DEF TripInv, FilesInv

\* Every step of the trip keeps it.
LEMMA TripInvNext == TripInv /\ [TripNext]_tripVars => TripInv'
<1> SUFFICES ASSUME TripInv, [TripNext]_tripVars PROVE TripInv'
  OBVIOUS
<1>1. CASE UNCHANGED tripVars
  <2>1. UNCHANGED vars /\ UNCHANGED files
    BY <1>1 DEF tripVars
  <2>2. HuffInv'
    BY <2>1, HuffInvStutter DEF TripInv
  <2>3. pc' = pc /\ codigote' = codigote
    BY <2>1 DEF vars, coding
  <2>4. FilesInv'
    BY <2>1, <2>3 DEF TripInv, FilesInv
  <2>5. QED
    BY <2>2, <2>4 DEF TripInv
<1>2. CASE OtherSteps /\ UNCHANGED <<files, read>>
  BY <1>2, OtherStep
<1>3. CASE Store
  BY <1>3, StoreStep
<1>4. CASE \E k \in FragNumbs : Lose(k) \/ Recover(k)
  BY <1>4, LoseStep, RecoverStep
<1>5. CASE Merge
  BY <1>5, MergeStep
<1>6. QED
  BY <1>1, <1>2, <1>3, <1>4, <1>5 DEF TripNext

\* The invariant of the trip: the phase of the compressor, and fragments that are
\* those of the codigote with at most one missing.
THEOREM TripInvariance == TripSpec => []TripInv
BY TripInvInit, TripInvNext, PTL DEF TripSpec

\* Types hold on the whole trip, for every set of pictures: positions stay inside
\* their sequences, paths are of bits and what is put out is of bytes.
THEOREM TripTypes == TripSpec => []TypeOK
<1>1. TripInv => TypeOK
  BY Phases DEF TripInv
<1>2. QED
  BY <1>1, TripInvariance, PTL

\* sort and combine (List.h, Compressor.cpp) never lose nor double a node, whatever the
\* picture: at any time every byte is under exactly one node of the list.
THEOREM TripLosesNothing == TripSpec => []NothingLost
<1>1. TripInv => NothingLost
  BY HuffInvMeans DEF TripInv
<1>2. QED
  BY <1>1, TripInvariance, PTL

\* getImage answers the picture that was stored, for every picture: what compress,
\* imageDecomposer, a lost and recovered fragment, merge, treeReconstructor and decompress
\* make of it is the picture itself (a repeated single byte comes back empty), and no null
\* pointer is followed but for a picture without bytes.
THEOREM TripIsLossless == TripSpec => []EndToEnd
<1>1. TripInv => EndToEnd
  BY HuffInvMeans DEF TripInv, EndToEnd
<1>2. QED
  BY <1>1, TripInvariance, PTL

\* codifier gives every byte of the picture a code, and no code begins another.
THEOREM TripCodesPrefixFree == TripSpec => []PrefixFree
<1>1. TripInv => PrefixFree
  BY HuffInvMeans DEF TripInv
<1>2. QED
  BY <1>1, TripInvariance, PTL
=============================================================================
