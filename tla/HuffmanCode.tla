----------------------------- MODULE HuffmanCode -----------------------------
(***************************************************************************)
(* Compressor: one picture through its whole trip.  compress counts the    *)
(* bytes, sorts a linked list of nodes and combines its first two until    *)
(* one tree is left, reads the codes off the tree and encodes; the codes   *)
(* go to the tree file; treeReconstructor reads them back line by line;    *)
(* decompress walks the new tree over the bits.                            *)
(* Source: Huffman_Compressor/Compressor.cpp, Structures/List.h and, for   *)
(* the tree file, diskWriter in RAID/RAID_Controller.cpp.                  *)
(*                                                                         *)
(* A tree is the set of its leaves: pairs of the path from the top, 1 for  *)
(* right and 0 for left, and the byte.  A bit written to a file is the     *)
(* character '0' or '1', so 0 and 1 also name those two bytes.             *)
(***************************************************************************)
EXTENDS Integers, FiniteSets, SequencesExt

CONSTANTS
  Bytes,        \* the bytes pictures are made of
  Newline,      \* the one that ends a line of a file
  Pictures,     \* the pictures that may be compressed
  NoByte        \* a model value: the null digit of a node that is no leaf

ASSUME BytesAssumption == Bytes \subseteq Int /\ Newline \notin {0, 1}
ASSUME PicturesAssumption == Pictures \subseteq Seq(Bytes)
ASSUME NoByteAssumption == NoByte \notin Bytes

Bit == {0, 1}
Path == Seq(Bit)
Leaf == Path \X Bytes

VARIABLES
  pc,           \* the loop the program is in
  digits,       \* the picture
  i,            \* the index of that loop
  list,         \* the nodes of HuffList, in order
  length,       \* the length List keeps beside them
  temp,         \* sort's pointer into the list, as a position
  tree,         \* the leaves of the tree compress makes
  todo,         \* the calls of backTrackCoder still to come, as paths
  codes,        \* byte -> path
  codigote,     \* the encoded picture
  written,      \* the keys of the codes before diskWriter's iterator
  lines,        \* the lines of the tree file after name and extension
  rebuilt,      \* the leaves of the tree read back
  walk,         \* decompress's place in the tree
  out           \* the bytes decompressed

building == <<list, length, temp>>
coding == <<todo, codes, codigote>>
reading == <<written, lines, rebuilt, walk, out>>
vars == <<pc, digits, i, building, tree, coding, reading>>

-----------------------------------------------------------------------------
(* compress: counting and the list.                                        *)

\* Mutant of LeafNode: setDigit is not called.
LeafNode_NoDigit(b, n) == [times |-> n, leaves |-> {<<<<>>, NoByte>>}]

\* A node of the list and the digit its Character points to.
LeafNode(b, n) == [times |-> n, leaves |-> {<<<<>>, b>>}]
IsLeaf(node) == \E b \in Bytes : <<<<>>, b>> \in node.leaves
Digit(node) ==
  IF IsLeaf(node) THEN CHOOSE b \in Bytes : <<<<>>, b>> \in node.leaves ELSE NoByte

\* The occurrences of the byte at position k that the loop counts: it goes
\* from k to the place as far from the end as k is from the start.
Times(k) == Cardinality({j \in k..(Len(digits) - k + 1) : digits[j] = digits[k]})

Found(k) == \E j \in 1..(k - 1) : digits[j] = digits[k]

CountByte ==
  /\ pc = "count" /\ i <= Len(digits)
  /\ IF Found(i)
     THEN UNCHANGED <<list, length>>
     ELSE list' = Append(list, LeafNode(digits[i], Times(i))) /\ length' = length + 1
  /\ i' = i + 1
  /\ UNCHANGED <<pc, digits, temp, tree, coding, reading>>

\* The condition of the loop that builds the tree.  A picture without bytes
\* has no head to take the tree from.
Build ==
  /\ \/ pc = "count" /\ i > Len(digits)
     \/ pc = "build"
  /\ \/ /\ length >= 2
        /\ pc' = "sort" /\ temp' = 1
        /\ UNCHANGED <<tree, todo>>
     \/ /\ length < 2 /\ list # <<>>
        /\ pc' = "codify" /\ tree' = Head(list).leaves /\ todo' = <<<<>>>>
        /\ UNCHANGED temp
     \/ /\ list = <<>>
        /\ pc' = "died"
        /\ UNCHANGED <<temp, tree, todo>>
  /\ UNCHANGED <<digits, i, list, length, codes, codigote, reading>>

-----------------------------------------------------------------------------
(* sort: a bubble sort with one pointer that starts again after a swap.    *)

\* Two nodes are out of order: more occurrences first, or as many and a leaf
\* before a node that is none.
OutOfOrder(a, b) ==
  \/ a.times > b.times
  \/ a.times = b.times /\ IsLeaf(a) /\ ~IsLeaf(b)

Swapped(s, k) == [s EXCEPT ![k] = s[k + 1], ![k + 1] = s[k]]

\* setHead(temp->getNext()): whatever stood before temp is no longer listed.
NewHead(s, k) == Swapped(SubSeq(s, k, Len(s)), 1)

\* The program takes temp for the head when their digits are the same pointer,
\* which holds of any two nodes that are no leaves.
TakenForHead(s, k) == Digit(s[k]) = Digit(s[1])

\* Mutant of SortStep: equal nodes are swapped too.
SortStep_Equal ==
  /\ pc = "sort" /\ temp + 2 <= Len(list)
  /\ LET atHead == TakenForHead(list, temp) /\ OutOfOrder(list[temp], list[temp + 1])
         l == IF atHead THEN NewHead(list, temp) ELSE list
         t == IF atHead THEN 1 ELSE temp
     IN  IF l[t + 1].times >= l[t + 2].times
         THEN list' = Swapped(l, t + 1) /\ temp' = 1
         ELSE list' = l /\ temp' = t + 1
  /\ UNCHANGED <<pc, digits, i, length, tree, coding, reading>>

\* One pass of the loop: the head and its next, then the two after temp.  The
\* tie between the two after temp (cond) is taken before the head is swapped.
SortStep ==
  /\ pc = "sort" /\ temp + 2 <= Len(list)
  /\ LET cond == /\ list[temp + 1].times = list[temp + 2].times
                 /\ IsLeaf(list[temp + 1]) /\ ~IsLeaf(list[temp + 2])
         atHead == TakenForHead(list, temp) /\ OutOfOrder(list[temp], list[temp + 1])
         l == IF atHead THEN NewHead(list, temp) ELSE list
         t == IF atHead THEN 1 ELSE temp
     IN  IF l[t + 2].times < l[t + 1].times \/ cond
         THEN list' = Swapped(l, t + 1) /\ temp' = 1
         ELSE list' = l /\ temp' = t + 1
  /\ UNCHANGED <<pc, digits, i, length, tree, coding, reading>>

\* Mutant of Joined: only the occurrences of one side count.
Joined_OneTimes(a, b) ==
  [times |-> a.times,
   leaves |-> {<<<<1>> \o l[1], l[2]>> : l \in a.leaves}
                \cup {<<<<0>> \o l[1], l[2]>> : l \in b.leaves}]

\* The node above a (right) and b (left).
Joined(a, b) ==
  [times |-> a.times + b.times,
   leaves |-> {<<<<1>> \o l[1], l[2]>> : l \in a.leaves}
                \cup {<<<<0>> \o l[1], l[2]>> : l \in b.leaves}]

\* Mutant of Combine: the second delFirst is missing.
Combine_OneDeleted ==
  /\ pc = "sort" /\ temp + 2 > Len(list)
  /\ list' = Append(Tail(list), Joined(list[1], list[2]))
  /\ length' = length
  /\ pc' = "build"
  /\ UNCHANGED <<digits, i, temp, tree, coding, reading>>

\* The list is sorted: the first two go, the node above them is added last.
Combine ==
  /\ pc = "sort" /\ temp + 2 > Len(list)
  /\ list' = Append(Tail(Tail(list)), Joined(list[1], list[2]))
  /\ length' = length - 1
  /\ pc' = "build"
  /\ UNCHANGED <<digits, i, temp, tree, coding, reading>>

-----------------------------------------------------------------------------
(* codifier and encoder.                                                   *)

LeafAt(t, p) == {l \in t : l[1] = p}
NodeAt(t, p) == \E l \in t : IsPrefix(p, l[1])

\* How many bytes there are to codify: the size of compress's `output'.
KeyCount == Cardinality({digits[k] : k \in DOMAIN digits})

Done == Cardinality(DOMAIN codes) = KeyCount

SetCode(b, p) == [c \in DOMAIN codes \cup {b} |-> IF c = b THEN p ELSE codes[c]]

\* One call: a leaf adds its code; another node calls for its right and then
\* its left; a node that is not there is a null pointer that is followed.  No
\* call does anything once every byte has a code.
backTrackCoder ==
  /\ pc = "codify" /\ todo # <<>> /\ ~Done
  /\ LET p == Head(todo) IN
       \/ /\ \E l \in LeafAt(tree, p) : codes' = SetCode(l[2], p)
          /\ todo' = Tail(todo)
          /\ UNCHANGED pc
       \/ /\ LeafAt(tree, p) = {} /\ NodeAt(tree, p)
          /\ todo' = <<Append(p, 1), Append(p, 0)>> \o Tail(todo)
          /\ UNCHANGED <<pc, codes>>
       \/ /\ ~NodeAt(tree, p)
          /\ pc' = "died"
          /\ UNCHANGED <<todo, codes>>
  /\ UNCHANGED <<digits, i, building, tree, codigote, reading>>

EndCodify ==
  /\ pc = "codify" /\ (todo = <<>> \/ Done)
  /\ pc' = "encode" /\ i' = 1
  /\ UNCHANGED <<digits, building, tree, coding, reading>>

\* A byte without a code would add nothing: operator[] of the map makes one.
CodeOf(b) == IF b \in DOMAIN codes THEN codes[b] ELSE <<>>

EncodeByte ==
  /\ pc = "encode" /\ i <= Len(digits)
  /\ codigote' = codigote \o CodeOf(digits[i])
  /\ i' = i + 1
  /\ UNCHANGED <<pc, digits, building, tree, todo, codes, reading>>

EndEncode ==
  /\ pc = "encode" /\ i > Len(digits)
  /\ pc' = "write" /\ i' = 1
  /\ UNCHANGED <<digits, building, tree, coding, reading>>

-----------------------------------------------------------------------------
(* The tree file.                                                          *)

\* The lines a byte and its code become: the newline ends its line at once.
LinesOf(b) == IF b = Newline THEN <<<<>>, codes[b]>> ELSE <<<<b>> \o codes[b]>>

IsLeast(b, S) == b \in S /\ \A c \in S : b <= c

\* diskWriter goes through the codes in the order of their bytes.  (Its
\* iterator belongs to a map that is gone; what comes of that when the memory
\* was used again is Junk in RaidController.)
WriteLine ==
  /\ pc = "write"
  /\ \E b \in DOMAIN codes \ written :
       /\ IsLeast(b, DOMAIN codes \ written)
       /\ lines' = lines \o LinesOf(b)
       /\ written' = written \cup {b}
  /\ UNCHANGED <<pc, digits, i, building, tree, coding, rebuilt, walk, out>>

EndWrite ==
  /\ pc = "write" /\ DOMAIN codes \subseteq written
  /\ pc' = "read" /\ i' = 1
  /\ UNCHANGED <<digits, building, tree, coding, reading>>

\* getline: nothing once the file has ended.
Line(k) == IF k \in DOMAIN lines THEN lines[k] ELSE <<>>

\* The leaf at the end of a code, in the place of what was there.  Without a
\* bit to follow the new node is not put anywhere.
Insert(t, p, b) ==
  IF p = <<>> THEN t ELSE {l \in t : ~IsPrefix(p, l[1])} \cup {<<p, b>>}

\* treeReconstructor's loop: a line is a byte and its code; an empty line and
\* one that is not are the newline and its code; two empty ones are the end.
ReadLine ==
  /\ pc = "read"
  /\ \/ /\ Line(i) # <<>>
        /\ rebuilt' = Insert(rebuilt, Tail(Line(i)), Head(Line(i)))
        /\ i' = i + 1
        /\ UNCHANGED pc
     \/ /\ Line(i) = <<>> /\ Line(i + 1) # <<>>
        /\ rebuilt' = Insert(rebuilt, Line(i + 1), Newline)
        /\ i' = i + 2
        /\ UNCHANGED pc
     \/ /\ Line(i) = <<>> /\ Line(i + 1) = <<>>
        /\ pc' = "decode" /\ i' = 0
        /\ UNCHANGED rebuilt
  /\ UNCHANGED <<digits, building, tree, coding, written, lines, walk, out>>

-----------------------------------------------------------------------------
(* decompress.                                                             *)

\* One bit down the tree.  At a leaf its byte is put out and the walk starts
\* again; a node that is not there, or one without a digit after the last bit,
\* is a null pointer that is followed.
DecodeBit ==
  /\ pc = "decode" /\ i < Len(codigote)
  /\ LET p == Append(walk, codigote[i + 1]) IN
       \/ /\ LeafAt(rebuilt, p) # {}
          /\ \E l \in LeafAt(rebuilt, p) : out' = Append(out, l[2])
          /\ walk' = <<>>
          /\ UNCHANGED pc
       \/ /\ LeafAt(rebuilt, p) = {} /\ NodeAt(rebuilt, p) /\ i + 1 < Len(codigote)
          /\ walk' = p
          /\ UNCHANGED <<pc, out>>
       \/ /\ LeafAt(rebuilt, p) = {} /\ (NodeAt(rebuilt, p) => i + 1 = Len(codigote))
          /\ pc' = "died"
          /\ UNCHANGED <<walk, out>>
  /\ i' = i + 1
  /\ UNCHANGED <<digits, building, tree, coding, written, lines, rebuilt>>

EndDecode ==
  /\ pc = "decode" /\ i = Len(codigote)
  /\ pc' = "done"
  /\ UNCHANGED <<digits, i, building, tree, coding, reading>>

-----------------------------------------------------------------------------
Init ==
  /\ pc = "count"
  /\ digits \in Pictures
  /\ i = 1
  /\ list = <<>> /\ length = 0 /\ temp = 1
  /\ tree = {}
  /\ todo = <<>> /\ codes = <<>> /\ codigote = <<>>
  /\ written = {} /\ lines = <<>> /\ rebuilt = {} /\ walk = <<>> /\ out = <<>>

Compress == CountByte \/ Build \/ SortStep \/ Combine
Encode == backTrackCoder \/ EndCodify \/ EncodeByte \/ EndEncode
TreeFile == WriteLine \/ EndWrite \/ ReadLine
Decompress == DecodeBit \/ EndDecode

Next == Compress \/ Encode \/ TreeFile \/ Decompress

\* One thread that runs until it is through.
Spec == Init /\ [][Next]_vars /\ WF_vars(Next)

-----------------------------------------------------------------------------
(* Properties.                                                             *)

Nodes == [times : Nat, leaves : SUBSET Leaf]

\* The type of every variable.
TypeOK ==
  /\ pc \in {"count", "build", "sort", "codify", "encode", "write", "read",
             "decode", "done", "died"}
  /\ digits \in Seq(Bytes)
  /\ i \in Nat
  /\ list \in Seq(Nodes) /\ length \in Int /\ temp \in Nat \ {0}
  /\ tree \subseteq Leaf /\ rebuilt \subseteq Path \X (Bytes \cup Bit)
  /\ todo \in Seq(Path)
  /\ DOMAIN codes \subseteq Bytes /\ \A b \in DOMAIN codes : codes[b] \in Path
  /\ codigote \in Path
  /\ written \subseteq Bytes
  /\ lines \in Seq(Seq(Bytes \cup Bit))
  /\ walk \in Path
  /\ out \in Seq(Bytes \cup Bit)

Used == {digits[k] : k \in DOMAIN digits}
BytesUnder(leaves) == {l[2] : l \in leaves}

\* The nodes sort relinks and compress combines are never lost nor doubled:
\* from the count to the last combination every byte of the picture is under
\* exactly one node of the list, which is as long as its length says and holds
\* sort's pointer.
NothingLost ==
  pc \in {"build", "sort"} =>
    /\ length = Len(list) /\ temp <= Len(list)
    /\ \A b \in Used : \E k \in DOMAIN list : b \in BytesUnder(list[k].leaves)
    /\ \A k \in DOMAIN list, l \in DOMAIN list :
         k # l => BytesUnder(list[k].leaves) \cap BytesUnder(list[l].leaves) = {}

\* Every byte of the picture has a code and no code begins another: what is
\* encoded can be decoded in one way only.
PrefixFree ==
  pc = "encode" =>
    /\ DOMAIN codes = Used
    /\ \A b, c \in Used : b # c => ~IsPrefix(codes[b], codes[c])

\* The tree that is read back from the file is the one that was written, with
\* the newline among the bytes or not, unless its only node is a leaf.
SameTree == pc = "decode" /\ Cardinality(Used) >= 2 => rebuilt = tree

\* A picture of two different bytes or more comes back as it was.  One that
\* repeats a single byte has a code without bits and comes back empty.
RoundTrip ==
  pc = "done" => out = IF Cardinality(Used) >= 2 THEN digits ELSE <<>>

\* No null pointer is followed, but for the head of an empty picture's list.
DiesOnlyEmpty == pc = "died" => digits = <<>>

\* sort and all the other loops end.
Ends == <>(pc \in {"done", "died"})
=============================================================================
