---------------------------- MODULE RaidProofs ------------------------------
(***************************************************************************)
(* Proofs about RaidController, for any number of names and payloads.      *)
(*                                                                         *)
(* First, whatever fails, however often, and for every setting of the      *)
(* switches: types, that the fragments of an image stay apart, and that a  *)
(* fragment recovered from three right ones is right.                      *)
(*                                                                         *)
(* Then under cold failures: reading a picture gives what was stored, one  *)
(* disk at most misses anything at any moment, and the controller          *)
(* implements ImageStore.  The argument: the program is always in one of   *)
(* five phases.  Stopped or starting, one disk may be lost and the others  *)
(* have all their files; a call of the caller finds all disks whole; the   *)
(* writer leaves alone what is stored; and a repair has made the names it  *)
(* has left behind whole, from three other disks that are, and of the      *)
(* name it is at what its loop has passed.                                 *)
(*                                                                         *)
(* Last, when disks are lost only while no call is in progress: a boot     *)
(* that finds an orderly RAID does not give up.  The argument: what the    *)
(* repair of a boot has not reached is unwritten, so the disk under repair *)
(* is the one that misses something and the three others determine what    *)
(* it asks for; and its parts and strips are paired, so neither of its two *)
(* lists runs out before the other.                                        *)
(***************************************************************************)
EXTENDS RaidStore, SequenceTheorems, FiniteSetTheorems, TLAPS

-----------------------------------------------------------------------------
(* Types.                                                                  *)

Contents == (SUBSET Marks) \cup {NoFile}

\* What the frame of a call holds, by the function that is called.
LEMMA FrameFields ==
  ASSUME NEW f \in Frames
  PROVE  /\ f.op \in {"boot", "diskVerifier", "getImage", "imageDecomposer",
                      "diskWriter", "repair", "imageRestore"}
         /\ f.op = "getImage" => f.name \in Names
         /\ f.op = "imageDecomposer" => f.name \in Names /\ f.payload \in Payloads
         /\ f.op = "diskWriter" =>
              /\ f \in [op : {"diskWriter"}, name : Names, payload : Payloads,
                        todo : Seq(Disks \X PartNumbs)]
              /\ f.name \in Names /\ f.payload \in Payloads
              /\ f.todo \in Seq(Disks \X PartNumbs)
         /\ f.op = "repair" =>
              /\ f \in [op : {"repair"}, ref : Disks, names : SUBSET Names,
                        at : {"info", "parts"}, parts : SUBSET Locs,
                        imgs : SUBSET Locs]
              /\ f.ref \in Disks /\ f.names \subseteq Names
              /\ f.parts \subseteq Locs /\ f.imgs \subseteq Locs
         /\ f.op = "imageRestore" => f.img \in Locs
<1>1. CASE f \in [op : {"boot", "diskVerifier"}]
  BY <1>1
<1>2. CASE f \in [op : {"getImage"}, name : Names]
  BY <1>2
<1>3. CASE f \in [op : {"imageDecomposer"}, name : Names, payload : Payloads]
  BY <1>3
<1>4. CASE f \in [op : {"diskWriter"}, name : Names, payload : Payloads,
                  todo : Seq(Disks \X PartNumbs)]
  BY <1>4
<1>5. CASE f \in [op : {"repair"}, ref : Disks, names : SUBSET Names,
                  at : {"info", "parts"}, parts : SUBSET Locs, imgs : SUBSET Locs]
  BY <1>5
<1>6. CASE f \in [op : {"imageRestore"}, img : Locs]
  BY <1>6
<1>7. QED
  BY <1>1, <1>2, <1>3, <1>4, <1>5, <1>6 DEF Frames

\* The innermost call and those around it.
LEMMA Pop ==
  ASSUME NEW S, NEW s \in Seq(S), s # <<>>
  PROVE  /\ Head(s) \in S
         /\ Head(s) = s[1]
         /\ Len(s) \in Nat \ {0}
         /\ Tail(s) \in Seq(S)
         /\ Len(Tail(s)) = Len(s) - 1
         /\ \A i \in 1..Len(Tail(s)) : Tail(s)[i] = s[i + 1]
<1>1. Len(s) \in Nat /\ Len(s) # 0
  BY EmptySeq, LenProperties
<1>2. QED
  BY <1>1, HeadTailProperties, ElementOfSeq

LEMMA Push ==
  ASSUME NEW S, NEW s \in Seq(S), NEW f \in S
  PROVE  /\ <<f>> \o s \in Seq(S)
         /\ Len(<<f>> \o s) = Len(s) + 1
         /\ (<<f>> \o s)[1] = f
         /\ \A i \in 1..Len(s) : (<<f>> \o s)[i + 1] = s[i]
<1>1. <<f>> \in Seq(S) /\ Len(<<f>>) = 1 /\ Len(s) \in Nat /\ <<f>>[1] = f
  BY LenProperties
<1>2. /\ <<f>> \o s \in Seq(S)
      /\ Len(<<f>> \o s) = 1 + Len(s)
      /\ \A i \in 1..(1 + Len(s)) :
           (<<f>> \o s)[i] = IF i <= 1 THEN <<f>>[i] ELSE s[i - 1]
  BY <1>1, ConcatProperties
<1>3. QED
  BY <1>1, <1>2

\* Locations.
LEMMA LocFields ==
  /\ \A l \in Locs : DiskOf(l) \in Disks /\ NameOf(l) \in Names /\ NumbOf(l) \in PartNumbs
                     /\ l = <<DiskOf(l), NameOf(l), NumbOf(l)>>
  /\ \A d \in Disks, n \in Names, k \in PartNumbs : <<d, n, k>> \in Locs
  /\ \A d, n, k : DiskOf(<<d, n, k>>) = d /\ NameOf(<<d, n, k>>) = n /\ NumbOf(<<d, n, k>>) = k
BY DEF Locs, DiskOf, NameOf, NumbOf

LEMMA Numbers ==
  /\ 1..4 \subseteq PartNumbs /\ 0 \in PartNumbs
  /\ \A i \in 1..3 : 50 + i \in StripNumbs /\ 50 + i \in PartNumbs
  /\ \A c \in 0..3, d \in Disks :
       /\ FragOf(c, d) \in FragNumbs
       /\ FragOf(c, d) # 4 => FragOf(c, d) \in 1..3
BY DEF PartNumbs, FragNumbs, StripNumbs, FragOf, Disks

\* Writing a set of marks to a file.
LEMMA PutType ==
  ASSUME file \in [Locs -> Contents], NEW l \in Locs, NEW c \in SUBSET Marks, Put(l, c)
  PROVE  /\ file' \in [Locs -> Contents]
         /\ \A m \in Locs : file'[m] # NoFile => m = l \/ file[m] # NoFile
BY DEF Put, Contents

LEMMA ExistingType ==
  ASSUME file \in [Locs -> Contents], NEW l \in Locs
  PROVE  Existing(l) \in SUBSET Marks /\ Bits(l) \in SUBSET Marks
BY DEF Existing, Bits, Contents

LEMMA WrittenType ==
  ASSUME NEW n \in Names, NEW p \in Payloads, NEW k \in PartNumbs
  PROVE  Written(n, p, k) \in SUBSET Marks
<1>1. CASE k \in 1..3
  BY <1>1 DEF Written, Marks, StripNumbs
<1>2. CASE k = 4
  BY <1>2 DEF Written, Marks, StripNumbs
<1>3. CASE k \notin 1..3 /\ k # 4
  BY <1>3 DEF Written, Marks, StripNumbs, PartNumbs, FragNumbs
<1>4. QED
  BY <1>1, <1>2, <1>3

\* The walk over the columns is a strict order.
LEMMA Order ==
  /\ \A l, m \in Locs : ~(Precedes(l, m) /\ Precedes(m, l))
  /\ \A l, m, o \in Locs : Precedes(l, m) /\ Precedes(m, o) => Precedes(l, o)
<1>1. \A l \in Locs : /\ DiskOf(l) \in Int /\ FileOrder[NameOf(l)] \in Int
                      /\ KindRank(NumbOf(l)) \in Int
  <2>1. \A k \in PartNumbs : KindRank(k) \in Int
    <3>1. \A k \in StripNumbs : k - 60 \in Int
      BY DEF StripNumbs
    <3>2. QED
      BY <3>1 DEF KindRank, PartNumbs, FragNumbs
  <2>2. QED
    BY <2>1, LocFields, FileOrderAssumption, NamesAssumption DEF Disks, Names
<1>2. \A l, m \in Locs : NameOf(l) = NameOf(m) <=> FileOrder[NameOf(l)] = FileOrder[NameOf(m)]
  BY LocFields, FileOrderAssumption
<1> DEFINE R(l) == KindRank(NumbOf(l))
           O(l) == FileOrder[NameOf(l)]
           D(l) == DiskOf(l)
<1>3. \A l, m \in Locs : Precedes(l, m) <=>
        \/ D(l) < D(m)
        \/ D(l) = D(m) /\ (O(l) < O(m) \/ (O(l) = O(m) /\ R(l) < R(m)))
  BY <1>2 DEF Precedes
<1>4. \A l \in Locs : R(l) \in Int /\ O(l) \in Int /\ D(l) \in Int
  BY <1>1
<1> HIDE DEF R, O, D
<1>5. QED
  BY <1>3, <1>4

\* There is at most one sequence of the first three.
LEMMA FirstThreeUnique ==
  ASSUME NEW S \in SUBSET Locs, NEW s \in FirstThree(S), NEW t \in FirstThree(S)
  PROVE  s[1] = t[1] /\ s[2] = t[2] /\ s[3] = t[3]
<1>1. \A u \in FirstThree(S) :
        /\ u[1] \in S /\ u[2] \in S /\ u[3] \in S
        /\ Precedes(u[1], u[2]) /\ Precedes(u[2], u[3])
        /\ \A l \in S : l = u[1] \/ l = u[2] \/ l = u[3] \/ Precedes(u[3], l)
  BY DEF FirstThree
<1>2. \A l, m \in S : ~(Precedes(l, m) /\ Precedes(m, l))
  BY Order
<1>3. \A l, m, o \in S : Precedes(l, m) /\ Precedes(m, o) => Precedes(l, o)
  BY Order
<1>4. \A u \in FirstThree(S) : \A l \in S : l = u[1] \/ Precedes(u[1], l)
  BY <1>1, <1>3
<1>5. s[1] = t[1]
  BY <1>1, <1>2, <1>4
<1>6. s[2] = t[2]
  <2>1. \A u \in FirstThree(S) : \A l \in S : l = u[1] \/ l = u[2] \/ Precedes(u[2], l)
    BY <1>1, <1>3
  <2>2. QED
    BY <1>1, <1>2, <1>5, <2>1
<1>7. s[3] = t[3]
  BY <1>1, <1>2, <1>5, <1>6
<1>8. QED
  BY <1>5, <1>6, <1>7

\* What the first three of some locations are.
LEMMA FirstThreeFacts ==
  ASSUME NEW S \in SUBSET Locs, NEW s \in FirstThree(S)
  PROVE  /\ s[1] \in S /\ s[2] \in S /\ s[3] \in S
         /\ Precedes(s[1], s[2]) /\ Precedes(s[2], s[3])
BY DEF FirstThree

LEMMA XORrecoveryType ==
  ASSUME file \in [Locs -> Contents], col \subseteq Locs, NEW l \in Locs,
         NEW c \in XORrecovery(l)
  PROVE  c \in SUBSET Marks
<1>1. Sources(l) \in SUBSET Locs
  BY DEF Sources, Fragments
<1>2. InfoOf(l) \in Locs
  BY LocFields, Numbers DEF InfoOf
<1>3. PICK s \in FirstThree(Sources(l)) :
        c = SymDiff(Bits(s[1]), SymDiff(Bits(s[2]), Bits(s[3])))
              \cup (IF NumbOf(l) = 4 THEN {} ELSE Existing(InfoOf(l)))
  BY DEF XORrecovery
<1>4. s[1] \in Locs /\ s[2] \in Locs /\ s[3] \in Locs
  BY <1>1, FirstThreeFacts
<1>5. /\ Bits(s[1]) \subseteq Marks /\ Bits(s[2]) \subseteq Marks
      /\ Bits(s[3]) \subseteq Marks /\ Existing(InfoOf(l)) \subseteq Marks
  BY <1>2, <1>4, ExistingType
<1>6. QED
  BY <1>3, <1>5 DEF SymDiff

LEMMA MergeType ==
  ASSUME NEW n \in Names
  PROVE  merge(n) \subseteq Pictures \cup {NotFound, Failed, Died, Junk}
BY DEF merge

\* The least element of a set of the small numbers reconstructDisk looks at.
LEMMA LeastFacts ==
  ASSUME NEW S \in SUBSET (1..4), S # {}
  PROVE  Least(S) \in S /\ \A j \in S : Least(S) <= j
<1>1. \E i \in S : IsLeast(i, S)
  <2>1. CASE 1 \in S
    BY <2>1 DEF IsLeast
  <2>2. CASE 1 \notin S /\ 2 \in S
    BY <2>2 DEF IsLeast
  <2>3. CASE 1 \notin S /\ 2 \notin S /\ 3 \in S
    BY <2>3 DEF IsLeast
  <2>4. CASE 1 \notin S /\ 2 \notin S /\ 3 \notin S
    <3>1. \A j \in S : j = 4
      BY <2>4
    <3>2. 4 \in S
      BY <3>1
    <3>3. QED
      BY <3>1, <3>2 DEF IsLeast
  <2>5. QED
    BY <2>1, <2>2, <2>3, <2>4
<1>2. IsLeast(Least(S), S)
  BY <1>1 DEF Least
<1>3. QED
  BY <1>2 DEF IsLeast

\* The part numbers found for a name leave one out.
LEMMA NumbsFacts ==
  ASSUME col \subseteq Locs, NEW n \in Names
  PROVE  /\ Numbs(n) \subseteq FragNumbs
         /\ FragNumbs \ Numbs(n) # {}
         /\ \A s \in FirstThree(Fragments(n)) :
              Numbs(n) = {NumbOf(s[1]), NumbOf(s[2]), NumbOf(s[3])}
         /\ Numbs(n) # {} => \E s \in FirstThree(Fragments(n)) : TRUE
<1>1. Fragments(n) \in SUBSET Locs /\ \A l \in Fragments(n) : NumbOf(l) \in FragNumbs
  BY DEF Fragments
<1>2. ASSUME NEW s \in FirstThree(Fragments(n))
      PROVE  Numbs(n) = {NumbOf(s[1]), NumbOf(s[2]), NumbOf(s[3])}
  <2>1. \A t \in FirstThree(Fragments(n)) : t[1] = s[1] /\ t[2] = s[2] /\ t[3] = s[3]
    BY <1>1, FirstThreeUnique
  <2>2. QED
    BY <2>1 DEF Numbs
<1>3. CASE FirstThree(Fragments(n)) = {}
  <2>1. Numbs(n) = {}
    BY <1>3 DEF Numbs
  <2>2. QED
    BY <1>3, <2>1, 1 \in FragNumbs DEF FragNumbs
<1>4. ASSUME NEW s \in FirstThree(Fragments(n))
      PROVE  Numbs(n) \subseteq FragNumbs /\ FragNumbs \ Numbs(n) # {}
  <2>1. NumbOf(s[1]) \in FragNumbs /\ NumbOf(s[2]) \in FragNumbs /\ NumbOf(s[3]) \in FragNumbs
    BY <1>1, FirstThreeFacts
  <2>2. Numbs(n) = {NumbOf(s[1]), NumbOf(s[2]), NumbOf(s[3])}
    BY <1>2
  <2> DEFINE a == NumbOf(s[1])
             b == NumbOf(s[2])
             c == NumbOf(s[3])
  <2> HIDE DEF a, b, c
  <2>3. FragNumbs \ {a, b, c} # {}
    <3>1. 1 \in FragNumbs /\ 2 \in FragNumbs /\ 3 \in FragNumbs /\ 4 \in FragNumbs
      BY DEF FragNumbs
    <3>2. 1 \notin {a, b, c} \/ 2 \notin {a, b, c} \/ 3 \notin {a, b, c} \/ 4 \notin {a, b, c}
      OBVIOUS
    <3>3. QED
      BY <3>1, <3>2
  <2>4. QED
    BY <2>1, <2>2, <2>3 DEF a, b, c
<1>5. QED
  BY <1>2, <1>3, <1>4

LEMMA RebuiltType ==
  ASSUME col \subseteq Locs, NEW d \in Disks
  PROVE  Rebuilt(d) \subseteq Locs
<1>1. Registered \subseteq Names
  BY LocFields DEF Registered
<1>2. ASSUME NEW n \in Names PROVE NewFragment(d, n) \in Locs
  <2>1. Least(FragNumbs \ Numbs(n)) \in FragNumbs
    BY NumbsFacts, LeastFacts DEF FragNumbs
  <2>2. QED
    BY <2>1, LocFields, Numbers DEF NewFragment, FragNumbs
<1>3. ASSUME NEW n \in Names PROVE NewStrips(d, n) \subseteq Locs
  <2>1. CASE MissingStrips(n) = {}
    BY <2>1 DEF NewStrips
  <2>2. CASE MissingStrips(n) # {}
    <3>1. MissingStrips(n) \subseteq 1..3 /\ MissingStrips(n) \in SUBSET (1..4)
      BY DEF MissingStrips
    <3>2. Least(MissingStrips(n)) \in 1..3
      BY <2>2, <3>1, LeastFacts
    <3>3. <<d, n, 50 + Least(MissingStrips(n))>> \in Locs
      BY <3>2, LocFields, Numbers
    <3>4. QED
      BY <2>2, <3>3 DEF NewStrips
  <2>3. QED
    BY <2>1, <2>2
<1>4. QED
  BY <1>1, <1>2, <1>3 DEF Rebuilt

\* The types of what a call changes in memory.
MemoryType ==
  /\ up \in BOOLEAN
  /\ col \subseteq Locs
  /\ trees \subseteq Names
  /\ c_disk \in 0..3
  /\ stack \in Seq(Frames)
  /\ reply \in [name : Names, answer : Pictures \cup {Junk, NotFound, Failed, None}]

LEMMA DieType ==
  ASSUME TypeOK, Die, reply' = reply
  PROVE  MemoryType'
<1>1. up' \in BOOLEAN /\ col' \subseteq Locs /\ trees' \subseteq Names /\ c_disk' \in 0..3
  <2>1. up' \in BOOLEAN
    BY DEF Die
  <2>2. col' \subseteq Locs /\ trees' \subseteq Names
    BY DEF Die
  <2>3. c_disk' \in 0..3
    BY DEF Die
  <2>4. QED
    BY <2>1, <2>2, <2>3
<1>2. stack' \in Seq(Frames)
  BY EmptySeq DEF Die
<1>3. reply' \in [name : Names, answer : Pictures \cup {Junk, NotFound, Failed, None}]
  BY DEF TypeOK
<1>4. QED
  BY <1>1, <1>2, <1>3 DEF MemoryType

LEMMA ThrowType ==
  ASSUME TypeOK, NEW C \in SUBSET Locs, Throw(C)
  PROVE  MemoryType'
<1>1. CASE Die /\ UNCHANGED reply
  BY <1>1, DieType
<1>2. CASE /\ col' = C /\ stack' = <<>>
           /\ reply' = IF Base = "getImage" THEN [reply EXCEPT !.answer = Failed] ELSE reply
           /\ UNCHANGED <<up, trees, c_disk>>
  <2>1. <<>> \in Seq(Frames)
    BY EmptySeq
  <2>2. reply' \in [name : Names, answer : Pictures \cup {Junk, NotFound, Failed, None}]
    BY <1>2 DEF TypeOK
  <2>3. QED
    BY <1>2, <2>1, <2>2 DEF TypeOK, MemoryType
<1>3. QED
  BY <1>1, <1>2 DEF Throw

\* Frames that are pushed.
LEMMA PushedFrames ==
  /\ BootFrame \in Frames /\ VerifierFrame \in Frames
  /\ \A n \in Names : [op |-> "getImage", name |-> n] \in Frames
  /\ \A n \in Names, p \in Payloads :
       /\ [op |-> "imageDecomposer", name |-> n, payload |-> p] \in Frames
       /\ \A t \in Seq(Disks \X PartNumbs) :
            [op |-> "diskWriter", name |-> n, payload |-> p, todo |-> t] \in Frames
  /\ \A l \in Locs : [op |-> "imageRestore", img |-> l] \in Frames
BY DEF Frames, BootFrame, VerifierFrame

LEMMA RepairFrameType ==
  ASSUME col \subseteq Locs, NEW d \in Disks
  PROVE  RepairFrame(d) \in Frames
<1>1. {NameOf(l) : l \in {m \in Column(Ante(d)) : NumbOf(m) = 0}} \subseteq Names
  BY LocFields DEF Column
<1>2. QED
  BY <1>1 DEF RepairFrame, Frames

\* The call on top, and the stack when it returns or is replaced.
LEMMA StackTypes ==
  ASSUME TypeOK, stack # <<>>
  PROVE  /\ Head(stack) \in Frames
         /\ Tail(stack) \in Seq(Frames)
         /\ \A f \in Frames : <<f>> \o Tail(stack) \in Seq(Frames)
         /\ \A f, g \in Frames : <<f, g>> \o Tail(stack) \in Seq(Frames)
<1>1. Head(stack) \in Frames /\ Tail(stack) \in Seq(Frames)
  BY Pop DEF TypeOK
<1>2. \A f \in Frames : <<f>> \o Tail(stack) \in Seq(Frames)
  BY <1>1, Push
<1>3. \A f, g \in Frames : <<f, g>> \in Seq(Frames)
  OBVIOUS
<1>4. \A f, g \in Frames : <<f, g>> \o Tail(stack) \in Seq(Frames)
  BY <1>1, <1>3, ConcatProperties
<1>5. QED
  BY <1>1, <1>2, <1>4

StorageType ==
  /\ dir \subseteq Disks
  /\ file \in [Locs -> Contents]
  /\ treeFile \in [Names -> Pictures \cup {Junk, NoFile}]

HistoryType ==
  /\ image \in [Names -> [status : {"none", "partial", "stored", "mixed"},
                          payload : Payloads \cup {None}, parity : 0..3]]
  /\ faults \in 0..MaxFaults

LEMMA TypeParts == TypeOK <=> StorageType /\ MemoryType /\ HistoryType
BY DEF TypeOK, StorageType, MemoryType, HistoryType, Contents

LEMMA TypeInit == Init => TypeOK
<1> SUFFICES ASSUME Init PROVE TypeOK
  OBVIOUS
<1> USE DEF Init
<1>1. StorageType
  BY DEF StorageType, Contents
<1>2. MemoryType
  <2>1. up \in BOOLEAN
    OBVIOUS
  <2>2. col \subseteq Locs /\ trees \subseteq Names
    OBVIOUS
  <2>3. c_disk \in 0..3 /\ 1 \in Names
    BY NamesAssumption DEF Names
  <2>4. stack \in Seq(Frames)
    BY EmptySeq
  <2>5. reply \in [name : Names, answer : Pictures \cup {Junk, NotFound, Failed, None}]
    BY <2>3
  <2>6. QED
    BY <2>1, <2>2, <2>3, <2>4, <2>5 DEF MemoryType
<1>3. HistoryType
  BY NamesAssumption DEF HistoryType
<1>4. QED
  BY <1>1, <1>2, <1>3, TypeParts

\* The operations that begin a call.
LEMMA TypeBegin ==
  ASSUME TypeOK, Boot \/ Request
  PROVE  TypeOK'
<1>1. \A f, g \in Frames : <<f, g>> \in Seq(Frames)
  OBVIOUS
<1>2. StorageType /\ MemoryType /\ HistoryType
  BY TypeParts
<1>3. CASE Boot
  <2>1. StorageType' /\ HistoryType'
    BY <1>2, <1>3 DEF Boot, StorageType, HistoryType, storage
  <2>2. up' \in BOOLEAN
    BY <1>3 DEF Boot
  <2>3. c_disk' \in 0..3 /\ col' \subseteq Locs /\ trees' \subseteq Names /\ reply' = reply
    BY <1>3 DEF Boot
  <2>4. stack' \in Seq(Frames)
    BY <1>1, <1>3, PushedFrames DEF Boot
  <2>5. MemoryType'
    BY <1>2, <2>2, <2>3, <2>4 DEF MemoryType
  <2>6. QED
    BY <2>1, <2>5, TypeParts, PTL
<1>4. ASSUME NEW n \in Names, NEW f \in Frames,
             stack' = <<VerifierFrame, f>>,
             reply' = [name |-> n, answer |-> None],
             UNCHANGED <<storage, memory, image, faults>>
      PROVE  TypeOK'
  <2>1. StorageType' /\ HistoryType'
    BY <1>2, <1>4 DEF StorageType, HistoryType, storage
  <2>2. stack' \in Seq(Frames)
    BY <1>1, <1>4, PushedFrames
  <2>3. MemoryType'
    BY <1>2, <1>4, <2>2 DEF MemoryType, memory
  <2>4. QED
    BY <2>1, <2>3, TypeParts, PTL
<1>5. CASE Request
  <2>1. PICK n \in Names : getImage(n) \/ \E p \in Payloads : imageDecomposer(n, p)
    BY <1>5 DEF Request
  <2>2. CASE getImage(n)
    BY <1>4, <2>2, PushedFrames DEF getImage
  <2>3. CASE \E p \in Payloads : imageDecomposer(n, p)
    BY <1>4, <2>3, PushedFrames DEF imageDecomposer
  <2>4. QED
    BY <2>1, <2>2, <2>3
<1>6. QED
  BY <1>3, <1>5

\* A call that only returns.
LEMMA TypeReturn ==
  ASSUME TypeOK, EndBoot \/ VerifyNothing \/ VerifyAllGone \/ RepairDone
  PROVE  TypeOK'
<1>1. /\ stack # <<>> /\ stack' = Tail(stack) /\ dir' \in {dir, Disks}
      /\ UNCHANGED <<file, treeFile, memory, image, reply, faults>>
  BY DEF EndBoot, VerifyNothing, VerifyAllGone, RepairDone, Running, Return, storage
<1>2. stack' \in Seq(Frames)
  BY <1>1, StackTypes
<1>3. StorageType' /\ HistoryType' /\ MemoryType'
  BY <1>1, <1>2, TypeParts DEF StorageType, HistoryType, MemoryType, memory
<1>4. QED
  BY <1>3, TypeParts, PTL

\* What diskWriter has to write.
AllFiles == FilesOf(1) \o FilesOf(2) \o FilesOf(3) \o FilesOf(4)

LEMMA FilesOfType ==
  ASSUME c_disk \in 0..3, NEW d \in Disks
  PROVE  FilesOf(d) \in Seq(Disks \X PartNumbs)
<1> DEFINE k == FragOf(c_disk, d)
<1>1. k \in PartNumbs /\ 0 \in PartNumbs /\ (k # 4 => 50 + k \in PartNumbs)
  BY Numbers DEF FragNumbs
<1> HIDE DEF k
<1>2. <<d, k>> \in Disks \X PartNumbs /\ <<d, 0>> \in Disks \X PartNumbs
  BY <1>1
<1>3. CASE k = 4
  <2>1. <<<<d, 4>>, <<d, 0>>>> \in Seq(Disks \X PartNumbs)
    BY <1>2, <1>3
  <2>2. QED
    BY <1>3, <2>1 DEF FilesOf, k
<1>4. CASE k # 4
  <2>1. <<d, 50 + k>> \in Disks \X PartNumbs
    BY <1>1, <1>4
  <2>2. <<<<d, k>>, <<d, 0>>, <<d, 50 + k>>>> \in Seq(Disks \X PartNumbs)
    BY <1>2, <2>1
  <2>3. QED
    BY <1>4, <2>2 DEF FilesOf, k
<1>5. QED
  BY <1>3, <1>4

LEMMA AllFilesType ==
  ASSUME c_disk \in 0..3
  PROVE  AllFiles \in Seq(Disks \X PartNumbs)
<1>1. \A d \in Disks : FilesOf(d) \in Seq(Disks \X PartNumbs)
  BY FilesOfType
<1>2. 1 \in Disks /\ 2 \in Disks /\ 3 \in Disks /\ 4 \in Disks
  BY DEF Disks
<1>3. QED
  BY <1>1, <1>2, ConcatProperties DEF AllFiles

\* The file diskWriter writes next, and its frame afterwards.
LEMMA WriterFacts ==
  ASSUME NEW f \in [op : {"diskWriter"}, name : Names, payload : Payloads,
                    todo : Seq(Disks \X PartNumbs)],
         f.todo # <<>>
  PROVE  /\ [f EXCEPT !.todo = Tail(@)] \in Frames
         /\ WriterLoc(f) \in Locs
         /\ NameOf(WriterLoc(f)) = f.name
         /\ <<DiskOf(WriterLoc(f)), NumbOf(WriterLoc(f))>> = Head(f.todo)
<1>1. Tail(f.todo) \in Seq(Disks \X PartNumbs) /\ Head(f.todo) \in Disks \X PartNumbs
  BY Pop
<1>2. [f EXCEPT !.todo = Tail(@)] \in Frames
  BY <1>1 DEF Frames
<1>3. WriterLoc(f) \in Locs
  BY <1>1, LocFields DEF WriterLoc
<1>4. QED
  BY <1>1, <1>2, <1>3, LocFields DEF WriterLoc

LEMMA TypeWrite ==
  ASSUME TypeOK, Write
  PROVE  TypeOK'
<1>1. StorageType /\ MemoryType /\ HistoryType
  BY TypeParts
<1> DEFINE f == Head(stack)
<1>2. CASE StartWriting
  <2>1. f \in Frames /\ f.op = "imageDecomposer" /\ stack # <<>>
    BY <1>2, StackTypes DEF StartWriting, Running
  <2>2. f.name \in Names /\ f.payload \in Payloads
    BY <2>1, FrameFields
  <2> HIDE DEF f
  <2>3. stack' \in Seq(Frames)
    <3> DEFINE w == [op |-> "diskWriter", name |-> f.name, payload |-> f.payload,
                     todo |-> AllFiles]
    <3>1. stack' = <<w>> \o Tail(stack)
      BY <1>2 DEF StartWriting, Replace, AllFiles, f
    <3>2. w \in Frames
      BY <1>1, <2>2, AllFilesType, PushedFrames DEF MemoryType
    <3> HIDE DEF w
    <3>3. QED
      BY <2>1, <3>1, <3>2, StackTypes
  <2>4. image' \in [Names -> [status : {"none", "partial", "stored", "mixed"},
                              payload : Payloads \cup {None}, parity : 0..3]]
    <3> DEFINE e == [status |-> IF \/ image[f.name].status = "none"
                                   \/ /\ image[f.name].status # "mixed"
                                      /\ image[f.name].parity = c_disk
                                THEN "partial" ELSE "mixed",
                     payload |-> f.payload, parity |-> c_disk]
    <3>1. image' = [image EXCEPT ![f.name] = e]
      BY <1>2 DEF StartWriting, f
    <3>2. e \in [status : {"none", "partial", "stored", "mixed"},
                 payload : Payloads \cup {None}, parity : 0..3]
      BY <1>1, <2>2 DEF MemoryType
    <3> HIDE DEF e
    <3>3. QED
      BY <1>1, <3>1, <3>2 DEF HistoryType
  <2>5. HistoryType' /\ StorageType'
    BY <1>1, <1>2, <2>4 DEF StartWriting, HistoryType, StorageType, storage
  <2>6. MemoryType'
    BY <1>1, <1>2, <2>3 DEF StartWriting, MemoryType, memory
  <2>7. QED
    BY <2>5, <2>6, TypeParts, PTL
<1>3. CASE WriteFile
  <2> DEFINE l == WriterLoc(f)
             g == [f EXCEPT !.todo = Tail(@)]
  <2>1. /\ f \in Frames /\ f.op = "diskWriter" /\ stack # <<>> /\ f.todo # <<>>
        /\ Put(l, Written(f.name, f.payload, NumbOf(l)))
        /\ col' = (IF NumbOf(l) \in StripNumbs THEN col ELSE col \cup {l})
        /\ stack' = <<g>> \o Tail(stack)
    BY <1>3, StackTypes DEF WriteFile, Running, Replace
  <2>2. /\ f \in [op : {"diskWriter"}, name : Names, payload : Payloads,
                  todo : Seq(Disks \X PartNumbs)]
        /\ f.name \in Names /\ f.payload \in Payloads
    BY <2>1, FrameFields
  <2>3. g \in Frames /\ l \in Locs
    BY <2>1, <2>2, WriterFacts
  <2> HIDE DEF f, l, g
  <2>4. stack' \in Seq(Frames)
    BY <2>1, <2>3, StackTypes
  <2>5. file' \in [Locs -> Contents]
    <3>1. NumbOf(l) \in PartNumbs
      BY <2>3, LocFields
    <3>2. Written(f.name, f.payload, NumbOf(l)) \in SUBSET Marks
      BY <2>2, <3>1, WrittenType
    <3>3. QED
      BY <1>1, <2>1, <2>3, <3>2, PutType DEF StorageType
  <2>6. UNCHANGED <<dir, treeFile, up, trees, c_disk, image, reply, faults>>
    BY <1>3 DEF WriteFile
  <2>7. StorageType' /\ HistoryType'
    BY <1>1, <2>5, <2>6 DEF StorageType, HistoryType
  <2>8. MemoryType'
    BY <1>1, <2>1, <2>3, <2>4, <2>6 DEF MemoryType
  <2>9. QED
    BY <2>7, <2>8, TypeParts, PTL
<1>4. CASE WriteTree
  <2>1. f \in Frames /\ f.op = "diskWriter" /\ stack # <<>> /\ stack' = Tail(stack)
    BY <1>4, StackTypes DEF WriteTree, Running, Return
  <2>2. f.name \in Names /\ f.payload \in Payloads
    BY <2>1, FrameFields
  <2>3. /\ \E t \in {<<f.name, f.payload>>} \cup {Junk} :
             treeFile' = [treeFile EXCEPT ![f.name] = t]
        /\ trees' = trees \cup {f.name}
        /\ image' = [image EXCEPT ![f.name].status = IF @ = "partial" THEN "stored" ELSE @]
        /\ c_disk' = IF c_disk = 0 THEN 3 ELSE c_disk - 1
        /\ UNCHANGED <<dir, file, up, col, reply, faults>>
    BY <1>4 DEF WriteTree
  <2> HIDE DEF f
  <2>4. stack' \in Seq(Frames)
    BY <2>1, StackTypes
  <2>5. StorageType' /\ HistoryType'
    BY <1>1, <2>2, <2>3 DEF StorageType, HistoryType, Pictures
  <2>6. MemoryType'
    BY <1>1, <2>2, <2>3, <2>4 DEF MemoryType
  <2>7. QED
    BY <2>5, <2>6, TypeParts, PTL
<1>5. QED
  BY <1>2, <1>3, <1>4 DEF Write

\* The answer, and a verification that gives up.
LEMMA TypeAnswer ==
  ASSUME TypeOK, Answer \/ VerifyTooMany
  PROVE  TypeOK'
<1>1. StorageType /\ MemoryType /\ HistoryType
  BY TypeParts
<1>2. UNCHANGED <<storage, image, faults>>
  BY DEF Answer, VerifyTooMany
<1>3. StorageType' /\ HistoryType'
  BY <1>1, <1>2 DEF StorageType, HistoryType, storage
<1>4. ASSUME Throw(col) PROVE MemoryType'
  BY <1>1, <1>4, ThrowType DEF MemoryType
<1>5. ASSUME Answer PROVE MemoryType'
  <2>1. Head(stack).name \in Names
    BY <1>5, StackTypes, FrameFields DEF Answer, Running
  <2>2. PICK r \in merge(Head(stack).name) :
           \/ r = Failed /\ Throw(col)
           \/ r = Died /\ Die /\ UNCHANGED reply
           \/ /\ r \notin {Failed, Died}
              /\ reply' = [reply EXCEPT !.answer = r]
              /\ Return
              /\ UNCHANGED memory
    BY <1>5 DEF Answer
  <2>3. CASE Die /\ UNCHANGED reply
    BY <2>3, DieType
  <2>4. CASE /\ r \notin {Failed, Died}
             /\ reply' = [reply EXCEPT !.answer = r]
             /\ Return
             /\ UNCHANGED memory
    <3>1. r \in Pictures \cup {NotFound, Junk}
      BY <2>1, <2>2, <2>4, MergeType
    <3>2. stack' \in Seq(Frames)
      BY <1>5, <2>4, StackTypes DEF Answer, Running, Return
    <3>3. QED
      BY <1>1, <2>4, <3>1, <3>2 DEF MemoryType, memory
  <2>5. QED
    BY <1>4, <2>2, <2>3, <2>4
<1>6. ASSUME VerifyTooMany PROVE MemoryType'
  BY <1>4, <1>6 DEF VerifyTooMany
<1>7. QED
  BY <1>3, <1>5, <1>6, TypeParts, PTL

LEMMA TypeReconstruct ==
  ASSUME TypeOK, NEW d \in Disks, reconstructDisk(d)
  PROVE  TypeOK'
<1>1. StorageType /\ MemoryType /\ HistoryType
  BY TypeParts
<1>2. StorageType' /\ HistoryType'
  BY <1>1 DEF reconstructDisk, StorageType, HistoryType
<1>3. col \cup Rebuilt(d) \in SUBSET Locs
  BY <1>1, RebuiltType DEF MemoryType
<1>4. ASSUME Throw(col \cup Rebuilt(d)) PROVE MemoryType'
  BY <1>3, <1>4, ThrowType
<1>5. ASSUME col' = (IF Column(d) = {} THEN col \cup Rebuilt(d) ELSE col),
             Replace(RepairFrame(d)),
             UNCHANGED <<up, trees, c_disk, reply>>
      PROVE  MemoryType'
  <2>1. stack' \in Seq(Frames)
    BY <1>1, <1>5, StackTypes, RepairFrameType
       DEF Replace, MemoryType, reconstructDisk, Running
  <2>2. QED
    BY <1>1, <1>3, <1>5, <2>1 DEF MemoryType
<1>6. MemoryType'
  BY <1>4, <1>5 DEF reconstructDisk
<1>7. QED
  BY <1>2, <1>6, TypeParts, PTL

\* The frame of a repair.
RepairFrames ==
  [op : {"repair"}, ref : Disks, names : SUBSET Names, at : {"info", "parts"},
   parts : SUBSET Locs, imgs : SUBSET Locs]

LEMMA RepairTop ==
  ASSUME TypeOK, Running("repair")
  PROVE  /\ Head(stack) \in RepairFrames
         /\ stack # <<>>
         /\ Tail(stack) \in Seq(Frames)
         /\ \A f \in Frames : <<f>> \o Tail(stack) \in Seq(Frames)
         /\ \A f, g \in Frames : <<f, g>> \o Tail(stack) \in Seq(Frames)
<1>1. stack # <<>> /\ Head(stack).op = "repair" /\ Head(stack) \in Frames
  BY StackTypes DEF Running
<1>2. Head(stack) \in RepairFrames
  BY <1>1, FrameFields DEF RepairFrames
<1>3. QED
  BY <1>1, <1>2, StackTypes

LEMMA RepairFramesFrames == RepairFrames \subseteq Frames
BY DEF RepairFrames, Frames

LEMMA TypeRepairInfo ==
  ASSUME TypeOK, RepairInfo
  PROVE  TypeOK'
<1>1. StorageType /\ MemoryType /\ HistoryType
  BY TypeParts
<1> DEFINE f == Head(stack)
<1>2. f \in RepairFrames /\ stack # <<>>
  BY RepairTop DEF RepairInfo, Repairing
<1>3. PICK n \in f.names :
         /\ Put(<<f.ref, n, 0>>, Existing(<<Ante(f.ref), n, 0>>))
         /\ Replace([f EXCEPT
              !.at    = "parts",
              !.parts = {l \in Column(f.ref) : NumbOf(l) \in 1..3},
              !.imgs  = {l \in Column(f.ref) : NumbOf(l) \in StripNumbs}])
  BY DEF RepairInfo
<1>4. f.ref \in Disks /\ n \in Names /\ Ante(f.ref) \in Disks
  BY <1>2, <1>3 DEF RepairFrames, Ante, Disks
<1> DEFINE g == [f EXCEPT
              !.at    = "parts",
              !.parts = {l \in Column(f.ref) : NumbOf(l) \in 1..3},
              !.imgs  = {l \in Column(f.ref) : NumbOf(l) \in StripNumbs}]
<1>5. g \in Frames
  <2>1. \A P \in SUBSET Locs, I \in SUBSET Locs :
          [f EXCEPT !.at = "parts", !.parts = P, !.imgs = I] \in RepairFrames
    BY <1>2 DEF RepairFrames
  <2>2. {l \in Column(f.ref) : NumbOf(l) \in 1..3} \in SUBSET Locs
    BY <1>1 DEF MemoryType, Column
  <2>3. {l \in Column(f.ref) : NumbOf(l) \in StripNumbs} \in SUBSET Locs
    BY <1>1 DEF MemoryType, Column
  <2>4. QED
    BY <2>1, <2>2, <2>3, RepairFramesFrames
<1>6. stack' = <<g>> \o Tail(stack)
  BY <1>3 DEF Replace
<1> HIDE DEF g
<1>7. stack' \in Seq(Frames)
  BY <1>2, <1>5, <1>6, StackTypes
<1>8. file' \in [Locs -> Contents]
  <2>1. <<f.ref, n, 0>> \in Locs /\ <<Ante(f.ref), n, 0>> \in Locs
    BY <1>4, LocFields, Numbers
  <2>2. Existing(<<Ante(f.ref), n, 0>>) \in SUBSET Marks
    BY <1>1, <2>1, ExistingType DEF StorageType
  <2>3. QED
    BY <1>1, <1>3, <2>1, <2>2, PutType DEF StorageType
<1>9. StorageType' /\ HistoryType' /\ MemoryType'
  BY <1>1, <1>7, <1>8 DEF StorageType, HistoryType, MemoryType, memory, RepairInfo
<1>10. QED
  BY <1>9, TypeParts, PTL

LEMMA TypeRepairPart ==
  ASSUME TypeOK, RepairPart
  PROVE  TypeOK'
<1>1. StorageType /\ MemoryType /\ HistoryType
  BY TypeParts
<1> DEFINE f == Head(stack)
<1>2. f \in RepairFrames /\ stack # <<>>
  BY RepairTop DEF RepairPart, Repairing
<1>3. PICK n \in f.names, l \in f.parts :
           \/ NameOf(l) = n /\ XORrecovery(l) = {} /\ Throw(col) /\ UNCHANGED file
           \/ /\ IF NameOf(l) = n THEN \E c \in XORrecovery(l) : Put(l, c)
                                  ELSE UNCHANGED file
              /\ \/ f.imgs = {} /\ Throw(col)
                 \/ \E m \in f.imgs :
                      /\ stack' =
                           (IF NameOf(m) = n
                            THEN <<VerifierFrame, [op |-> "imageRestore", img |-> m]>>
                            ELSE <<>>)
                           \o <<[f EXCEPT !.parts = @ \ {l}, !.imgs = @ \ {m}]>>
                           \o Tail(stack)
                      /\ UNCHANGED <<memory, reply>>
  BY DEF RepairPart
<1>4. f.parts \subseteq Locs /\ f.imgs \subseteq Locs
  BY <1>2 DEF RepairFrames
<1>5. file' \in [Locs -> Contents]
  <2>1. l \in Locs
    BY <1>3, <1>4
  <2>2. ASSUME NEW c \in XORrecovery(l), Put(l, c) PROVE file' \in [Locs -> Contents]
    <3>1. c \in SUBSET Marks
      BY <1>1, <2>1, XORrecoveryType DEF StorageType, MemoryType
    <3>2. QED
      BY <1>1, <2>1, <2>2, <3>1, PutType DEF StorageType
  <2>3. file' = file \/ \E c \in XORrecovery(l) : Put(l, c)
    BY <1>3
  <2>4. QED
    BY <1>1, <2>2, <2>3 DEF StorageType
<1>6. ASSUME Throw(col) PROVE MemoryType'
  BY <1>1, <1>6, ThrowType DEF MemoryType
<1>7. ASSUME NEW m \in f.imgs,
             stack' = (IF NameOf(m) = n
                       THEN <<VerifierFrame, [op |-> "imageRestore", img |-> m]>>
                       ELSE <<>>)
                      \o <<[f EXCEPT !.parts = @ \ {l}, !.imgs = @ \ {m}]>>
                      \o Tail(stack),
             UNCHANGED <<memory, reply>>
      PROVE  MemoryType'
  <2> DEFINE g == [f EXCEPT !.parts = @ \ {l}, !.imgs = @ \ {m}]
             t == <<g>> \o Tail(stack)
             h == [op |-> "imageRestore", img |-> m]
  <2>1. g \in Frames
    <3>1. g \in RepairFrames
      BY <1>2 DEF RepairFrames
    <3>2. QED
      BY <3>1, RepairFramesFrames
  <2>2. h \in Frames /\ VerifierFrame \in Frames
    BY <1>4, PushedFrames
  <2> HIDE DEF g, h, f
  <2>3. Tail(stack) \in Seq(Frames) /\ <<g>> \in Seq(Frames) /\ <<>> \in Seq(Frames)
    BY <1>2, <2>1, StackTypes, EmptySeq
  <2>4. <<VerifierFrame, h>> \in Seq(Frames)
    BY <2>2
  <2>5. stack' \in Seq(Frames)
    BY <1>7, <2>3, <2>4, ConcatProperties DEF g, h, f
  <2>6. QED
    BY <1>1, <1>7, <2>5 DEF MemoryType, memory
<1>8. MemoryType'
  BY <1>3, <1>6, <1>7
<1>9. StorageType' /\ HistoryType'
  BY <1>1, <1>5 DEF StorageType, HistoryType, RepairPart
<1>10. QED
  BY <1>8, <1>9, TypeParts, PTL

LEMMA TypeRepairParity ==
  ASSUME TypeOK, RepairParity
  PROVE  TypeOK'
<1>1. StorageType /\ MemoryType /\ HistoryType
  BY TypeParts
<1> DEFINE f == Head(stack)
<1>2. f \in RepairFrames /\ stack # <<>>
  BY RepairTop DEF RepairParity, Repairing
<1>3. PICK n \in f.names :
         LET l == <<f.ref, n, 4>> IN
           \/ XORrecovery(l) = {} /\ Throw(col) /\ UNCHANGED file
           \/ /\ IF l \in col THEN \E c \in XORrecovery(l) : Put(l, c) ELSE UNCHANGED file
              /\ Replace([f EXCEPT !.at = "info", !.names = @ \ {n}, !.imgs = {}])
              /\ UNCHANGED <<memory, reply>>
  BY DEF RepairParity
<1> DEFINE l == <<f.ref, n, 4>>
           g == [f EXCEPT !.at = "info", !.names = @ \ {n}, !.imgs = {}]
<1>4. l \in Locs
  <2>1. f.ref \in Disks /\ n \in Names /\ 4 \in PartNumbs
    BY <1>2, <1>3, Numbers DEF RepairFrames
  <2>2. QED
    BY <2>1, LocFields
<1>5. file' \in [Locs -> Contents]
  <2>1. file' = file \/ \E c \in XORrecovery(l) : Put(l, c)
    BY <1>3
  <2> HIDE DEF l
  <2>2. ASSUME NEW c \in XORrecovery(l), Put(l, c) PROVE file' \in [Locs -> Contents]
    <3>1. c \in SUBSET Marks
      BY <1>1, <1>4, XORrecoveryType DEF StorageType, MemoryType
    <3>2. QED
      BY <1>1, <1>4, <2>2, <3>1, PutType DEF StorageType
  <2>3. QED
    BY <1>1, <2>1, <2>2 DEF StorageType
<1>6. g \in Frames
  <2>1. g \in RepairFrames
    BY <1>2 DEF RepairFrames
  <2>2. QED
    BY <2>1, RepairFramesFrames
<1>7. Throw(col) \/ (stack' = <<g>> \o Tail(stack) /\ UNCHANGED <<memory, reply>>)
  BY <1>3 DEF Replace
<1> HIDE DEF g
<1>8. MemoryType'
  <2>1. ASSUME Throw(col) PROVE MemoryType'
    BY <1>1, <2>1, ThrowType DEF MemoryType
  <2>2. ASSUME stack' = <<g>> \o Tail(stack), UNCHANGED <<memory, reply>>
        PROVE  MemoryType'
    <3>1. stack' \in Seq(Frames)
      BY <1>2, <1>6, <2>2, StackTypes
    <3>2. QED
      BY <1>1, <2>2, <3>1 DEF MemoryType, memory
  <2>3. QED
    BY <1>7, <2>1, <2>2
<1>9. StorageType' /\ HistoryType'
  BY <1>1, <1>5 DEF StorageType, HistoryType, RepairParity
<1>10. QED
  BY <1>8, <1>9, TypeParts, PTL

LEMMA TypeImageRestore ==
  ASSUME TypeOK, imageRestore
  PROVE  TypeOK'
<1>1. StorageType /\ MemoryType /\ HistoryType
  BY TypeParts
<1> DEFINE l == Head(stack).img
<1>2. l \in Locs /\ stack # <<>>
  BY StackTypes, FrameFields DEF imageRestore, Running
<1>3. PICK r \in merge(NameOf(l)) :
       \/ /\ r \in Pictures /\ r[1] = NameOf(l)
          /\ Put(l, Written(r[1], r[2], NumbOf(l)))
          /\ Return /\ UNCHANGED <<memory, reply>>
       \/ /\ Put(l, {})
          /\ Return /\ UNCHANGED <<memory, reply>>
       \/ Throw(col) /\ UNCHANGED file
       \/ Die /\ UNCHANGED <<file, reply>>
  BY DEF imageRestore
<1> HIDE DEF l
<1>4. file' \in [Locs -> Contents]
  <2>1. ASSUME r \in Pictures, Put(l, Written(r[1], r[2], NumbOf(l)))
        PROVE  file' \in [Locs -> Contents]
    <3>1. r[1] \in Names /\ r[2] \in Payloads /\ NumbOf(l) \in PartNumbs
      BY <1>2, <2>1, LocFields DEF Pictures
    <3>2. Written(r[1], r[2], NumbOf(l)) \in SUBSET Marks
      BY <3>1, WrittenType
    <3>3. QED
      BY <1>1, <1>2, <2>1, <3>2, PutType DEF StorageType
  <2>2. ASSUME Put(l, {}) PROVE file' \in [Locs -> Contents]
    BY <1>1, <1>2, <2>2, PutType DEF StorageType
  <2>3. QED
    BY <1>1, <1>3, <2>1, <2>2 DEF StorageType
<1>5. MemoryType'
  <2>1. ASSUME Throw(col) PROVE MemoryType'
    BY <1>1, <2>1, ThrowType DEF MemoryType
  <2>2. ASSUME Die, UNCHANGED reply PROVE MemoryType'
    BY <2>2, DieType
  <2>3. ASSUME Return, UNCHANGED <<memory, reply>> PROVE MemoryType'
    <3>1. stack' \in Seq(Frames)
      BY <1>2, <2>3, StackTypes DEF Return
    <3>2. QED
      BY <1>1, <2>3, <3>1 DEF MemoryType, memory
  <2>4. QED
    BY <1>3, <2>1, <2>2, <2>3
<1>6. StorageType' /\ HistoryType'
  BY <1>1, <1>4 DEF StorageType, HistoryType, imageRestore
<1>7. QED
  BY <1>5, <1>6, TypeParts, PTL

\* What a crash spoils is a file.
LEMMA OpenType ==
  ASSUME TypeOK, stack # <<>>
  PROVE  Open(Head(stack)) \subseteq Locs
<1> DEFINE f == Head(stack)
<1>1. f \in Frames
  BY StackTypes
<1> HIDE DEF f
<1>2. CASE f.op = "diskWriter" /\ f.todo # <<>>
  BY <1>1, <1>2, FrameFields, WriterFacts DEF Open, f
<1>3. CASE f.op = "repair"
  BY <1>3 DEF Open, f
<1>4. CASE f.op = "imageRestore"
  BY <1>1, <1>4, FrameFields DEF Open, f
<1>5. CASE ~(f.op = "diskWriter" /\ f.todo # <<>>) /\ f.op # "repair" /\ f.op # "imageRestore"
  BY <1>5 DEF Open, f
<1>6. QED
  BY <1>2, <1>3, <1>4, <1>5

LEMMA TypeCrash ==
  ASSUME TypeOK, Crash
  PROVE  TypeOK'
<1>1. StorageType /\ MemoryType /\ HistoryType
  BY TypeParts
<1>2. MemoryType'
  BY DieType DEF Crash
<1>3. faults' \in 0..MaxFaults
  BY <1>1, NamesAssumption DEF Crash, HistoryType
<1>4. HistoryType'
  BY <1>1, <1>3 DEF Crash, HistoryType
<1>5. file' \in [Locs -> Contents]
  <2>1. ASSUME stack # <<>>, NEW l \in Open(Head(stack)), Put(l, {})
        PROVE  file' \in [Locs -> Contents]
    <3>1. l \in Locs
      BY <2>1, OpenType
    <3>2. QED
      BY <1>1, <2>1, <3>1, PutType DEF StorageType
  <2>2. QED
    BY <1>1, <2>1 DEF Crash, StorageType
<1>6. treeFile' \in [Names -> Pictures \cup {Junk, NoFile}]
  BY <1>1 DEF Crash, StorageType
<1>7. StorageType'
  BY <1>1, <1>5, <1>6 DEF Crash, StorageType
<1>8. QED
  BY <1>2, <1>4, <1>7, TypeParts, PTL

LEMMA TypeDiskFail ==
  ASSUME TypeOK, NEW d \in Disks, DiskFail(d)
  PROVE  TypeOK'
<1>1. StorageType /\ MemoryType /\ HistoryType
  BY TypeParts
<1>2. StorageType'
  BY <1>1 DEF DiskFail, StorageType, Contents
<1>3. MemoryType'
  BY <1>1 DEF DiskFail, MemoryType, memory
<1>4. faults' \in 0..MaxFaults
  <2>1. Failures = "any" => faults < MaxFaults
    BY DEF DiskFail, MayFail
  <2>2. QED
    BY <1>1, <2>1, NamesAssumption DEF DiskFail, HistoryType
<1>5. HistoryType'
  BY <1>1, <1>4 DEF DiskFail, HistoryType
<1>6. QED
  BY <1>2, <1>3, <1>5, TypeParts, PTL

LEMMA TypeNext == TypeOK /\ [Next]_vars => TypeOK'
<1> SUFFICES ASSUME TypeOK, [Next]_vars PROVE TypeOK'
  OBVIOUS
<1>1. CASE UNCHANGED vars
  BY <1>1 DEF TypeOK, vars, storage, memory
<1>2. CASE Boot \/ Request
  BY <1>2, TypeBegin
<1>3. CASE Verify
  BY <1>3, TypeReturn, TypeAnswer, TypeReconstruct DEF Verify
<1>4. CASE Repair
  BY <1>4, TypeRepairInfo, TypeRepairPart, TypeRepairParity, TypeReturn, TypeImageRestore
     DEF Repair
<1>5. CASE Write \/ Answer \/ EndBoot
  BY <1>5, TypeWrite, TypeAnswer, TypeReturn
<1>6. CASE Crash \/ \E d \in Disks : DiskFail(d)
  BY <1>6, TypeCrash, TypeDiskFail
<1>7. QED
  BY <1>1, <1>2, <1>3, <1>4, <1>5, <1>6 DEF Next, Step

\* Type correctness of the controller: every variable keeps its type, through
\* every call, exception, crash and disk loss.
THEOREM RaidTypes == Spec => []TypeOK
BY TypeInit, TypeNext, PTL DEF Spec

-----------------------------------------------------------------------------
(* Spread.                                                                 *)
(*                                                                         *)
(* Good(I, l): with the history I of the images, a file at l is one of the *)
(* four fragments, strips or Info files of an image that was stored.  The  *)
(* inductive invariant says it of every file that exists or is registered  *)
(* and of every file that a call in progress still has to write: the list  *)
(* of diskWriter, the parts and strips repair captured, the strip of       *)
(* imageRestore.  History only makes more locations good, so what matters  *)
(* is that reconstructDisk, which infers the lost column from the other    *)
(* three, registers good locations only.                                   *)

SlotsAt(c, d) == IF FragOf(c, d) = 4 THEN {4} ELSE {FragOf(c, d), 50 + FragOf(c, d)}

Good(I, l) ==
  /\ I[NameOf(l)].status # "none"
  /\ \/ NumbOf(l) = 0
     \/ I[NameOf(l)].status = "mixed"
     \/ NumbOf(l) \in SlotsAt(I[NameOf(l)].parity, DiskOf(l))

FrameGood(I, f) ==
  /\ f.op = "diskWriter" =>
       \A j \in 1..Len(f.todo) : Good(I, <<f.todo[j][1], f.name, f.todo[j][2]>>)
  /\ f.op = "repair" =>
       /\ \A l \in f.parts \cup f.imgs : Good(I, l)
       /\ \A n \in f.names : I[n].status # "none"
  /\ f.op = "imageRestore" => Good(I, f.img)

StackGood(I, s) == \A i \in 1..Len(s) : FrameGood(I, s[i])

FilesGood == \A l \in Locs : l \in col \/ file[l] # NoFile => Good(image, l)

SpreadInv == TypeOK /\ FilesGood /\ StackGood(image, stack)

LEMMA SpreadFollows == SpreadInv => Spread
BY DEF SpreadInv, FilesGood, Good, Spread, Slots, SlotsAt

LEMMA SpreadInit == Init => SpreadInv
<1> SUFFICES ASSUME Init PROVE SpreadInv
  OBVIOUS
<1>1. TypeOK
  BY TypeInit
<1>2. FilesGood
  BY DEF Init, FilesGood
<1>3. StackGood(image, stack)
  BY EmptySeq DEF Init, StackGood
<1>4. QED
  BY <1>1, <1>2, <1>3 DEF SpreadInv

\* Good stacks.
LEMMA GoodPop ==
  ASSUME NEW I, NEW s \in Seq(Frames), s # <<>>, StackGood(I, s)
  PROVE  FrameGood(I, Head(s)) /\ StackGood(I, Tail(s))
<1>1. /\ Head(s) = s[1] /\ Len(s) \in Nat \ {0} /\ Len(Tail(s)) = Len(s) - 1
      /\ \A i \in 1..Len(Tail(s)) : Tail(s)[i] = s[i + 1]
  BY Pop
<1>2. QED
  BY <1>1 DEF StackGood

LEMMA GoodConcat ==
  ASSUME NEW I, NEW s \in Seq(Frames), NEW t \in Seq(Frames),
         StackGood(I, s), StackGood(I, t)
  PROVE  StackGood(I, s \o t)
<1>1. /\ Len(s \o t) = Len(s) + Len(t)
      /\ \A i \in 1..(Len(s) + Len(t)) :
           (s \o t)[i] = IF i <= Len(s) THEN s[i] ELSE t[i - Len(s)]
  BY ConcatProperties
<1>2. Len(s) \in Nat /\ Len(t) \in Nat
  BY LenProperties
<1>3. QED
  BY <1>1, <1>2 DEF StackGood

LEMMA GoodPush ==
  ASSUME NEW I, NEW s \in Seq(Frames), StackGood(I, s),
         NEW f \in Frames, FrameGood(I, f)
  PROVE  StackGood(I, <<f>> \o s)
<1>1. <<f>> \in Seq(Frames) /\ Len(<<f>>) = 1 /\ <<f>>[1] = f
  BY LenProperties
<1>2. StackGood(I, <<f>>)
  BY <1>1 DEF StackGood
<1>3. QED
  BY <1>1, <1>2, GoodConcat

\* Frames without obligations.
LEMMA GoodPlain ==
  ASSUME NEW I, NEW f, f.op \in {"boot", "diskVerifier", "getImage", "imageDecomposer"}
  PROVE  FrameGood(I, f)
BY DEF FrameGood

\* What diskWriter stores, and where, is all the history of the images.
LEMMA ImageSteps == [Next]_vars => UNCHANGED image \/ StartWriting \/ WriteTree
<1> SUFFICES ASSUME [Next]_vars PROVE UNCHANGED image \/ StartWriting \/ WriteTree
  OBVIOUS
<1>1. CASE UNCHANGED vars
  BY <1>1 DEF vars
<1>2. CASE Boot \/ Request
  BY <1>2 DEF Boot, Request, getImage, imageDecomposer
<1>3. CASE Verify
  BY <1>3 DEF Verify, VerifyNothing, VerifyAllGone, VerifyTooMany, reconstructDisk
<1>4. CASE Repair
  BY <1>4 DEF Repair, RepairInfo, RepairPart, RepairParity, RepairDone, imageRestore
<1>5. CASE Write \/ Answer \/ EndBoot
  BY <1>5 DEF Write, WriteFile, Answer, EndBoot
<1>6. CASE Crash \/ \E d \in Disks : DiskFail(d)
  BY <1>6 DEF Crash, DiskFail
<1>7. QED
  BY <1>1, <1>2, <1>3, <1>4, <1>5, <1>6 DEF Next, Step

\* History makes locations good, never bad.
LEMMA GoodGrows ==
  ASSUME TypeOK, [Next]_vars
  PROVE  \A l \in Locs : Good(image, l) => Good(image', l)
<1>1. CASE UNCHANGED image
  BY <1>1
<1>2. CASE StartWriting
  <2> DEFINE f == Head(stack)
             e == [status |-> IF \/ image[f.name].status = "none"
                                 \/ /\ image[f.name].status # "mixed"
                                    /\ image[f.name].parity = c_disk
                              THEN "partial" ELSE "mixed",
                   payload |-> f.payload, parity |-> c_disk]
  <2>1. image' = [image EXCEPT ![f.name] = e]
    BY <1>2 DEF StartWriting
  <2>2. image \in [Names -> [status : {"none", "partial", "stored", "mixed"},
                          payload : Payloads \cup {None}, parity : 0..3]]
    BY DEF TypeOK
  <2>3. /\ e.status \in {"partial", "mixed"}
        /\ image[f.name].status # "none" /\ e.status = "partial" =>
             image[f.name].status # "mixed" /\ e.parity = image[f.name].parity
    OBVIOUS
  <2> HIDE DEF e, f
  <2>4. SUFFICES ASSUME NEW l \in Locs, Good(image, l) PROVE Good(image', l)
    OBVIOUS
  <2>5. NameOf(l) \in Names
    BY LocFields
  <2>6. CASE NameOf(l) = f.name
    <3>1. image'[NameOf(l)] = e
      BY <2>1, <2>2, <2>5, <2>6
    <3>2. QED
      BY <2>3, <2>4, <2>6, <3>1 DEF Good
  <2>7. CASE NameOf(l) # f.name
    <3>1. image'[NameOf(l)] = image[NameOf(l)]
      BY <2>1, <2>2, <2>5, <2>7
    <3>2. QED
      BY <2>4, <3>1 DEF Good
  <2>8. QED
    BY <2>6, <2>7
<1>3. CASE WriteTree
  <2> DEFINE f == Head(stack)
  <2>1. image' = [image EXCEPT ![f.name].status = IF @ = "partial" THEN "stored" ELSE @]
    BY <1>3 DEF WriteTree
  <2>2. image \in [Names -> [status : {"none", "partial", "stored", "mixed"},
                          payload : Payloads \cup {None}, parity : 0..3]]
    BY DEF TypeOK
  <2> HIDE DEF f
  <2>3. \A n \in Names : /\ image'[n].parity = image[n].parity
                         /\ \/ image'[n].status = image[n].status
                            \/ image[n].status = "partial" /\ image'[n].status = "stored"
    BY <2>1, <2>2
  <2>4. QED
    BY <2>3, LocFields DEF Good
<1>4. UNCHANGED image \/ StartWriting \/ WriteTree
  BY ImageSteps
<1>5. QED
  BY <1>1, <1>2, <1>3, <1>4

LEMMA NamesGrow ==
  ASSUME TypeOK, [Next]_vars
  PROVE  \A n \in Names : image[n].status # "none" => image'[n].status # "none"
<1> SUFFICES ASSUME NEW n \in Names, image[n].status # "none"
             PROVE  image'[n].status # "none"
  OBVIOUS
<1>1. <<1, n, 0>> \in Locs /\ NameOf(<<1, n, 0>>) = n /\ NumbOf(<<1, n, 0>>) = 0
  BY LocFields, Numbers, 1 \in Disks DEF Disks
<1>2. Good(image, <<1, n, 0>>)
  BY <1>1 DEF Good
<1>3. Good(image', <<1, n, 0>>)
  BY <1>1, <1>2, GoodGrows
<1>4. QED
  BY <1>1, <1>3 DEF Good

\* The files a diskWriter frame lists are locations.
LEMMA TodoLocs ==
  ASSUME NEW f \in Frames, f.op = "diskWriter", NEW j \in 1..Len(f.todo)
  PROVE  <<f.todo[j][1], f.name, f.todo[j][2]>> \in Locs
<1>1. f.name \in Names /\ f.todo \in Seq(Disks \X PartNumbs)
  BY FrameFields
<1>2. f.todo[j] \in Disks \X PartNumbs
  BY <1>1, ElementOfSeq
<1>3. QED
  BY <1>1, <1>2, LocFields

LEMMA StackGrows ==
  ASSUME TypeOK, [Next]_vars, NEW s \in Seq(Frames), StackGood(image, s)
  PROVE  StackGood(image', s)
<1>1. \A l \in Locs : Good(image, l) => Good(image', l)
  BY GoodGrows
<1>2. ASSUME NEW f \in Frames, FrameGood(image, f)
      PROVE  FrameGood(image', f)
  <2>1. CASE f.op = "diskWriter"
    <3>1. \A j \in 1..Len(f.todo) : <<f.todo[j][1], f.name, f.todo[j][2]>> \in Locs
      BY <2>1, TodoLocs
    <3>2. QED
      BY <1>1, <1>2, <2>1, <3>1 DEF FrameGood
  <2>2. CASE f.op = "repair"
    <3>1. f.parts \subseteq Locs /\ f.imgs \subseteq Locs /\ f.names \subseteq Names
      BY <2>2, FrameFields
    <3>2. QED
      BY <1>1, <1>2, <2>2, <3>1, NamesGrow DEF FrameGood
  <2>3. CASE f.op = "imageRestore"
    <3>1. f.img \in Locs
      BY <2>3, FrameFields
    <3>2. QED
      BY <1>1, <1>2, <2>3, <3>1 DEF FrameGood
  <2>4. CASE f.op \notin {"diskWriter", "repair", "imageRestore"}
    BY <2>4 DEF FrameGood
  <2>5. QED
    BY <2>1, <2>2, <2>3, <2>4
<1>3. \A i \in 1..Len(s) : s[i] \in Frames
  BY ElementOfSeq
<1>4. QED
  BY <1>2, <1>3 DEF StackGood

\* A step that ends every call or returns from one, and leaves the columns and
\* the files as they are or drops from them.
LEMMA SpreadShrinks ==
  ASSUME SpreadInv, [Next]_vars,
         col' \subseteq col,
         \A l \in Locs : file'[l] # NoFile => file[l] # NoFile \/ Good(image', l),
         stack' \in {<<>>, stack} \/ (stack # <<>> /\ stack' = Tail(stack))
  PROVE  SpreadInv'
<1>1. TypeOK'
  BY TypeNext DEF SpreadInv
<1>2. FilesGood'
  BY GoodGrows DEF SpreadInv, FilesGood
<1>3. StackGood(image', stack')
  <2>1. stack \in Seq(Frames)
    BY DEF SpreadInv, TypeOK
  <2>2. StackGood(image', stack)
    BY <2>1, StackGrows DEF SpreadInv
  <2>3. StackGood(image', <<>>)
    BY EmptySeq DEF StackGood
  <2>4. stack # <<>> => StackGood(image', Tail(stack))
    BY <2>1, <2>2, GoodPop
  <2>5. QED
    BY <2>2, <2>3, <2>4
<1>4. QED
  BY <1>1, <1>2, <1>3 DEF SpreadInv

\* A step that works on the innermost call.
LEMMA SpreadReplaces ==
  ASSUME SpreadInv, [Next]_vars, stack # <<>>,
         \A l \in Locs : l \in col' \/ file'[l] # NoFile =>
                           l \in col \/ file[l] # NoFile \/ Good(image', l),
         NEW f \in Frames, FrameGood(image', f),
         NEW s \in Seq(Frames), StackGood(image', s),
         stack' = s \o (<<f>> \o Tail(stack))
  PROVE  SpreadInv'
<1>1. TypeOK'
  BY TypeNext DEF SpreadInv
<1>2. FilesGood'
  BY GoodGrows DEF SpreadInv, FilesGood
<1>3. stack \in Seq(Frames)
  BY DEF SpreadInv, TypeOK
<1>4. Tail(stack) \in Seq(Frames) /\ StackGood(image', Tail(stack))
  <2>1. StackGood(image', stack)
    BY <1>3, StackGrows DEF SpreadInv
  <2>2. QED
    BY <1>3, <2>1, GoodPop, Pop
<1>5. StackGood(image', <<f>> \o Tail(stack)) /\ <<f>> \o Tail(stack) \in Seq(Frames)
  BY <1>4, GoodPush, Push
<1>6. StackGood(image', stack')
  BY <1>5, GoodConcat
<1>7. QED
  BY <1>1, <1>2, <1>6 DEF SpreadInv

\* What is written to a disk appears there only.
LEMMA PutGood ==
  ASSUME NEW I, NEW l, NEW c, Put(l, c), Good(I, l),
         file \in [Locs -> Contents]
  PROVE  \A m \in Locs : file'[m] # NoFile => file[m] # NoFile \/ Good(I, m)
BY DEF Put

\* The heart of it: in the columns of the other three disks, the fragments of
\* an image that is not mixed miss exactly the one that belongs on disk d.
LEMMA MissingFragment ==
  ASSUME TypeOK, FilesGood, NEW d \in Disks, Column(d) = {}, NEW n \in Names,
         image[n].status # "mixed", Numbs(n) # {}
  PROVE  FragNumbs \ Numbs(n) = {FragOf(image[n].parity, d)}
<1> DEFINE c == image[n].parity
<1>1. c \in 0..3 /\ col \subseteq Locs
  BY DEF TypeOK
<1> HIDE DEF c
<1>2. PICK s \in FirstThree(Fragments(n)) : TRUE
  BY <1>1, NumbsFacts
<1>3. Numbs(n) = {NumbOf(s[1]), NumbOf(s[2]), NumbOf(s[3])}
  BY <1>1, NumbsFacts
<1>4. \A k \in FragNumbs : 50 + k \notin FragNumbs
  BY DEF FragNumbs
<1>5. ASSUME NEW l \in Fragments(n)
      PROVE  /\ l \in Locs /\ DiskOf(l) \in Disks /\ DiskOf(l) # d
             /\ NumbOf(l) = FragOf(c, DiskOf(l)) /\ NameOf(l) = n
  <2>1. l \in col /\ NameOf(l) = n /\ NumbOf(l) \in FragNumbs
    BY DEF Fragments
  <2>2. l \in Locs /\ DiskOf(l) \in Disks
    BY <1>1, <2>1, LocFields
  <2>3. DiskOf(l) # d
    BY <2>1 DEF Column
  <2>4. NumbOf(l) \in SlotsAt(c, DiskOf(l))
    <3>1. Good(image, l)
      BY <2>1, <2>2 DEF FilesGood
    <3>2. NumbOf(l) # 0
      BY <2>1 DEF FragNumbs
    <3>3. QED
      BY <2>1, <3>1, <3>2 DEF Good, c
  <2>5. FragOf(c, DiskOf(l)) \in FragNumbs
    BY <1>1, <2>2, Numbers
  <2>6. QED
    BY <1>4, <2>1, <2>2, <2>3, <2>4, <2>5 DEF SlotsAt
<1>6. s[1] \in Fragments(n) /\ s[2] \in Fragments(n) /\ s[3] \in Fragments(n)
  <2>1. Fragments(n) \in SUBSET Locs
    BY <1>1 DEF Fragments
  <2>2. QED
    BY <2>1, FirstThreeFacts
<1>7. \A l, m \in Fragments(n) : Precedes(l, m) => DiskOf(l) # DiskOf(m)
  <2> SUFFICES ASSUME NEW l \in Fragments(n), NEW m \in Fragments(n), Precedes(l, m),
                      DiskOf(l) = DiskOf(m)
               PROVE  FALSE
    OBVIOUS
  <2>1. l = m
    BY <1>5, LocFields
  <2>2. QED
    BY <1>5, <2>1, Order
<1>8. Precedes(s[1], s[2]) /\ Precedes(s[2], s[3]) /\ Precedes(s[1], s[3])
  <2>1. Fragments(n) \in SUBSET Locs
    BY <1>1 DEF Fragments
  <2>2. Precedes(s[1], s[2]) /\ Precedes(s[2], s[3])
    BY <2>1, FirstThreeFacts
  <2>3. QED
    BY <1>5, <1>6, <2>2, Order
<1> DEFINE e1 == DiskOf(s[1])
           e2 == DiskOf(s[2])
           e3 == DiskOf(s[3])
<1>9. /\ e1 \in Disks /\ e2 \in Disks /\ e3 \in Disks
      /\ e1 # d /\ e2 # d /\ e3 # d /\ e1 # e2 /\ e2 # e3 /\ e1 # e3
      /\ Numbs(n) = {FragOf(c, e1), FragOf(c, e2), FragOf(c, e3)}
  BY <1>3, <1>5, <1>6, <1>7, <1>8
<1> HIDE DEF e1, e2, e3
<1>10. FragNumbs \ {FragOf(c, e1), FragOf(c, e2), FragOf(c, e3)} = {FragOf(c, d)}
  <2>1. \A x, y \in Disks : FragOf(c, x) = FragOf(c, y) => x = y
    BY <1>1 DEF FragOf, Disks
  <2>2. \A x \in Disks : FragOf(c, x) \in FragNumbs
    BY <1>1, Numbers
  <2>3. FragNumbs = 1..4
    BY DEF FragNumbs
  <2> DEFINE a1 == FragOf(c, e1)
             a2 == FragOf(c, e2)
             a3 == FragOf(c, e3)
             a4 == FragOf(c, d)
  <2>4. /\ a1 \in 1..4 /\ a2 \in 1..4 /\ a3 \in 1..4 /\ a4 \in 1..4
        /\ a1 # a2 /\ a1 # a3 /\ a1 # a4 /\ a2 # a3 /\ a2 # a4 /\ a3 # a4
    BY <1>9, <2>1, <2>2, <2>3
  <2> HIDE DEF a1, a2, a3, a4
  <2>5. \A k \in 1..4 : k = a1 \/ k = a2 \/ k = a3 \/ k = a4
    BY <2>4
  <2>6. (1..4) \ {a1, a2, a3} = {a4}
    BY <2>4, <2>5
  <2>7. QED
    BY <2>3, <2>6 DEF a1, a2, a3, a4
<1>11. QED
  BY <1>9, <1>10 DEF c

\* What reconstructDisk registers belongs where it is registered.
LEMMA RebuiltGood ==
  ASSUME TypeOK, FilesGood, NEW d \in Disks, Column(d) = {}
  PROVE  \A l \in Rebuilt(d) : Good(image, l)
<1>1. col \subseteq Locs
  BY DEF TypeOK
<1>2. ASSUME NEW n \in Registered
      PROVE  n \in Names /\ image[n].status # "none"
  <2>1. PICK l \in col : NameOf(l) = n
    BY DEF Registered
  <2>2. l \in Locs /\ Good(image, l)
    BY <1>1, <2>1 DEF FilesGood
  <2>3. QED
    BY <2>1, <2>2, LocFields DEF Good
<1>3. ASSUME NEW n \in Registered, Numbs(n) # {}
      PROVE  Good(image, NewFragment(d, n))
  <2> DEFINE l == NewFragment(d, n)
  <2>1. DiskOf(l) = d /\ NameOf(l) = n /\ NumbOf(l) = Least(FragNumbs \ Numbs(n))
    BY LocFields DEF NewFragment
  <2>2. CASE image[n].status = "mixed"
    BY <1>2, <2>1, <2>2 DEF Good
  <2>3. CASE image[n].status # "mixed"
    <3>1. FragNumbs \ Numbs(n) = {FragOf(image[n].parity, d)}
      BY <1>2, <1>3, <2>3, MissingFragment
    <3>2. NumbOf(l) \in FragNumbs \ Numbs(n)
      <4>1. FragNumbs \ Numbs(n) \in SUBSET (1..4) /\ FragNumbs \ Numbs(n) # {}
        BY <1>1, <1>2, NumbsFacts DEF FragNumbs
      <4>2. QED
        BY <2>1, <4>1, LeastFacts
    <3>3. NumbOf(l) \in SlotsAt(image[n].parity, d)
      BY <3>1, <3>2 DEF SlotsAt
    <3>4. QED
      BY <1>2, <2>1, <3>3 DEF Good
  <2>4. QED
    BY <2>2, <2>3
<1>4. ASSUME NEW n \in Registered, Numbs(n) # {}, NEW l \in NewStrips(d, n)
      PROVE  Good(image, l)
  <2>1. MissingStrips(n) # {} /\ l = <<d, n, 50 + Least(MissingStrips(n))>>
    BY <1>4 DEF NewStrips
  <2>2. DiskOf(l) = d /\ NameOf(l) = n /\ NumbOf(l) = 50 + Least(MissingStrips(n))
    BY <2>1, LocFields
  <2>3. CASE image[n].status = "mixed"
    BY <1>2, <2>2, <2>3 DEF Good
  <2>4. CASE image[n].status # "mixed"
    <3>1. FragNumbs \ Numbs(n) = {FragOf(image[n].parity, d)}
      BY <1>2, <1>4, <2>4, MissingFragment
    <3>2. MissingStrips(n) \subseteq 1..3 /\ MissingStrips(n) \in SUBSET (1..4)
      BY DEF MissingStrips
    <3>3. Least(MissingStrips(n)) \in MissingStrips(n)
      BY <2>1, <3>2, LeastFacts
    <3>4. Least(MissingStrips(n)) \in 1..3 \ Numbs(n)
      BY <3>3 DEF MissingStrips
    <3>5. Least(MissingStrips(n)) = FragOf(image[n].parity, d) /\ Least(MissingStrips(n)) # 4
      BY <3>1, <3>4 DEF FragNumbs
    <3>6. NumbOf(l) \in SlotsAt(image[n].parity, d)
      BY <2>2, <3>5 DEF SlotsAt
    <3>7. QED
      BY <1>2, <2>2, <3>6 DEF Good
  <2>5. QED
    BY <2>3, <2>4
<1>5. QED
  BY <1>3, <1>4 DEF Rebuilt

LEMMA ThrowStack ==
  ASSUME NEW C, Throw(C)
  PROVE  stack' = <<>> /\ col' \subseteq C
BY DEF Throw, Die

LEMMA SpreadParts ==
  ASSUME SpreadInv
  PROVE  /\ TypeOK /\ FilesGood
         /\ file \in [Locs -> Contents] /\ col \subseteq Locs /\ stack \in Seq(Frames)
         /\ stack # <<>> => Head(stack) \in Frames /\ FrameGood(image, Head(stack))
<1>1. stack \in Seq(Frames) /\ StackGood(image, stack)
  BY DEF SpreadInv, TypeOK
<1>2. stack # <<>> => Head(stack) \in Frames /\ FrameGood(image, Head(stack))
  BY <1>1, Pop, GoodPop
<1>3. QED
  BY <1>1, <1>2 DEF SpreadInv, TypeOK, Contents

LEMMA SpreadBegin ==
  ASSUME SpreadInv, Boot \/ Request
  PROVE  SpreadInv'
<1>1. [Next]_vars
  BY DEF Next
<1>2. TypeOK'
  BY <1>1, TypeNext DEF SpreadInv
<1>3. image' = image /\ file' = file /\ \A l \in col' : l \in col \/ file[l] # NoFile
  BY DEF Boot, Request, getImage, imageDecomposer, storage, memory
<1>4. FilesGood'
  BY <1>3 DEF SpreadInv, FilesGood
<1>5. StackGood(image', stack')
  <2>1. ASSUME NEW f, f.op \in {"boot", "getImage", "imageDecomposer"}
        PROVE  StackGood(image', <<VerifierFrame, f>>)
    BY <2>1, GoodPlain DEF StackGood, VerifierFrame
  <2>2. QED
    BY <2>1 DEF Boot, Request, getImage, imageDecomposer, BootFrame
<1>6. QED
  BY <1>2, <1>4, <1>5 DEF SpreadInv

LEMMA SpreadReturn ==
  ASSUME SpreadInv, [Next]_vars,
         \/ EndBoot \/ VerifyNothing \/ VerifyAllGone \/ RepairDone
         \/ Answer \/ VerifyTooMany \/ Crash \/ \E d \in Disks : DiskFail(d)
  PROVE  SpreadInv'
<1>1. ASSUME \/ EndBoot \/ VerifyNothing \/ VerifyAllGone \/ RepairDone
             \/ Answer \/ VerifyTooMany
      PROVE  /\ col' \subseteq col /\ file' = file
             /\ stack' = <<>> \/ (stack # <<>> /\ stack' = Tail(stack))
  <2>1. CASE EndBoot \/ VerifyNothing \/ VerifyAllGone \/ RepairDone
    BY <2>1 DEF EndBoot, VerifyNothing, VerifyAllGone, RepairDone, Running, Return,
                storage, memory
  <2>2. CASE Answer
    <3>1. /\ UNCHANGED <<storage, image, faults>> /\ stack # <<>>
          /\ Throw(col) \/ Die \/ (Return /\ UNCHANGED memory)
      BY <2>2 DEF Answer, Running
    <3>2. QED
      BY <3>1, ThrowStack DEF storage, memory, Die, Return
  <2>3. CASE VerifyTooMany
    BY <2>3, ThrowStack DEF VerifyTooMany, storage
  <2>4. QED
    BY <1>1, <2>1, <2>2, <2>3
<1>2. CASE Crash
  <2>1. col' \subseteq col /\ stack' = <<>>
    BY <1>2 DEF Crash, Die
  <2>2. \A l \in Locs : file'[l] # NoFile => file[l] # NoFile \/ Good(image', l)
    <3>1. CASE UNCHANGED file
      BY <3>1
    <3>2. ASSUME stack # <<>>, NEW l \in Open(Head(stack)), Put(l, {})
          PROVE  \A m \in Locs : file'[m] # NoFile => file[m] # NoFile \/ Good(image', m)
      <4> DEFINE f == Head(stack)
      <4>1. f \in Frames /\ FrameGood(image, f) /\ l \in Locs
        BY <3>2, SpreadParts, OpenType
      <4> HIDE DEF f
      <4>2. Good(image, l)
        <5>1. CASE f.op = "diskWriter" /\ f.todo # <<>>
          <6>1. f.todo \in Seq(Disks \X PartNumbs)
            BY <4>1, <5>1, FrameFields
          <6>2. Head(f.todo) = f.todo[1] /\ 1 \in 1..Len(f.todo)
            BY <5>1, <6>1, Pop
          <6>3. l = <<f.todo[1][1], f.name, f.todo[1][2]>>
            BY <3>2, <5>1, <6>2 DEF Open, WriterLoc, f
          <6>4. QED
            BY <4>1, <5>1, <6>2, <6>3 DEF FrameGood
        <5>2. CASE f.op = "repair"
          <6>1. /\ NameOf(l) \in f.names
                /\ NumbOf(l) = 0 \/ l \in col \/ l \in f.parts
            BY <3>2, <5>2 DEF Open, IsLeast, IsFirst, f
          <6>2. image[NameOf(l)].status # "none" /\ (l \in f.parts => Good(image, l))
            BY <4>1, <5>2, <6>1 DEF FrameGood
          <6>3. l \in col => Good(image, l)
            BY <4>1, SpreadParts DEF FilesGood
          <6>4. QED
            BY <6>1, <6>2, <6>3 DEF Good
        <5>3. CASE f.op = "imageRestore"
          BY <3>2, <4>1, <5>3 DEF Open, FrameGood, f
        <5>4. QED
          BY <3>2, <4>1, <5>1, <5>2, <5>3 DEF Open, f
      <4>3. image' = image
        BY <1>2 DEF Crash
      <4>4. QED
        BY <3>2, <4>2, <4>3, SpreadParts, PutGood
    <3>3. QED
      BY <1>2, <3>1, <3>2 DEF Crash
  <2>3. QED
    BY <2>1, <2>2, SpreadShrinks
<1>3. ASSUME NEW d \in Disks, DiskFail(d)
      PROVE  SpreadInv'
  <2>1. col' = col /\ stack' = stack /\ \A l \in Locs : file'[l] # NoFile => file[l] # NoFile
    BY <1>3 DEF DiskFail, memory
  <2>2. QED
    BY <2>1, SpreadShrinks
<1>4. QED
  BY <1>1, <1>2, <1>3, SpreadShrinks

LEMMA SpreadReconstruct ==
  ASSUME SpreadInv, [Next]_vars, NEW d \in Disks, reconstructDisk(d)
  PROVE  SpreadInv'
<1>1. stack # <<>> /\ file' = file /\ image' = image
  BY DEF reconstructDisk, Running
<1>2. Column(d) = {} => \A l \in Rebuilt(d) : Good(image, l)
  BY SpreadParts, RebuiltGood
<1>3. CASE Column(d) = {} /\ Throw(col \cup Rebuilt(d))
  <2>1. stack' = <<>> /\ col' \subseteq col \cup Rebuilt(d)
    BY <1>3, ThrowStack
  <2>2. TypeOK'
    BY TypeNext DEF SpreadInv
  <2>3. FilesGood'
    BY <1>1, <1>2, <1>3, <2>1 DEF SpreadInv, FilesGood
  <2>4. StackGood(image', stack')
    BY <2>1, EmptySeq DEF StackGood
  <2>5. QED
    BY <2>2, <2>3, <2>4 DEF SpreadInv
<1>4. CASE /\ col' = IF Column(d) = {} THEN col \cup Rebuilt(d) ELSE col
           /\ Replace(RepairFrame(d))
  <2>1. FrameGood(image', RepairFrame(d))
    <3>1. \A l \in col : image[NameOf(l)].status # "none"
      BY SpreadParts DEF FilesGood, Good
    <3>2. \A n \in {NameOf(l) : l \in {m \in Column(Ante(d)) : NumbOf(m) = 0}} :
            image[n].status # "none"
      BY <3>1 DEF Column
    <3>3. QED
      BY <1>1, <3>2 DEF FrameGood, RepairFrame
  <2>2. RepairFrame(d) \in Frames
    BY SpreadParts, RepairFrameType
  <2>3. /\ <<>> \in Seq(Frames) /\ StackGood(image', <<>>)
        /\ stack' = <<>> \o (<<RepairFrame(d)>> \o Tail(stack))
    <3>1. <<RepairFrame(d)>> \o Tail(stack) \in Seq(Frames)
      BY <1>1, <2>2, SpreadParts, StackTypes
    <3>2. QED
      BY <1>4, <3>1, EmptySeq, ConcatEmptySeq DEF Replace, StackGood
  <2>4. \A l \in Locs : l \in col' \/ file'[l] # NoFile =>
                           l \in col \/ file[l] # NoFile \/ Good(image', l)
    BY <1>1, <1>2, <1>4
  <2>5. QED
    BY <1>1, <2>1, <2>2, <2>3, <2>4, SpreadReplaces
<1>5. QED
  BY <1>3, <1>4 DEF reconstructDisk

\* The call on top is replaced by one frame.
LEMMA SpreadReplacesOne ==
  ASSUME SpreadInv, [Next]_vars, stack # <<>>,
         \A l \in Locs : l \in col' \/ file'[l] # NoFile =>
                           l \in col \/ file[l] # NoFile \/ Good(image', l),
         NEW f \in Frames, FrameGood(image', f),
         stack' = <<f>> \o Tail(stack)
  PROVE  SpreadInv'
<1>1. <<f>> \o Tail(stack) \in Seq(Frames)
  BY SpreadParts, StackTypes
<1>2. /\ <<>> \in Seq(Frames) /\ StackGood(image', <<>>)
      /\ stack' = <<>> \o (<<f>> \o Tail(stack))
  BY <1>1, EmptySeq, ConcatEmptySeq DEF StackGood
<1>3. QED
  BY <1>2, SpreadReplaces

\* What diskWriter is going to write belongs where it is written.
Places(c) == {p \in Disks \X PartNumbs : p[2] = 0 \/ p[2] \in SlotsAt(c, p[1])}

LEMMA AllFilesPlaced ==
  ASSUME c_disk \in 0..3
  PROVE  AllFiles \in Seq(Places(c_disk))
<1> DEFINE P == Places(c_disk)
<1>1. ASSUME NEW d \in Disks
      PROVE  FilesOf(d) \in Seq(P)
  <2> DEFINE k == FragOf(c_disk, d)
  <2>1. k \in PartNumbs /\ 0 \in PartNumbs /\ (k # 4 => 50 + k \in PartNumbs)
    BY Numbers DEF FragNumbs
  <2>2. <<d, k>> \in P /\ <<d, 0>> \in P /\ (k # 4 => <<d, 50 + k>> \in P)
    BY <2>1 DEF Places, SlotsAt
  <2> HIDE DEF k, P
  <2>3. CASE k = 4
    <3>1. <<<<d, 4>>, <<d, 0>>>> \in Seq(P)
      BY <2>2, <2>3
    <3>2. QED
      BY <2>3, <3>1 DEF FilesOf, k
  <2>4. CASE k # 4
    <3>1. <<<<d, k>>, <<d, 0>>, <<d, 50 + k>>>> \in Seq(P)
      BY <2>2, <2>4
    <3>2. QED
      BY <2>4, <3>1 DEF FilesOf, k
  <2>5. QED
    BY <2>3, <2>4
<1>2. 1 \in Disks /\ 2 \in Disks /\ 3 \in Disks /\ 4 \in Disks
  BY DEF Disks
<1> HIDE DEF P
<1>3. AllFiles \in Seq(P)
  BY <1>1, <1>2, ConcatProperties DEF AllFiles
<1>4. QED
  BY <1>3 DEF P

LEMMA SpreadWrite ==
  ASSUME SpreadInv, [Next]_vars, Write
  PROVE  SpreadInv'
<1> DEFINE f == Head(stack)
<1>1. stack # <<>> /\ f \in Frames /\ FrameGood(image, f)
  BY SpreadParts DEF Write, StartWriting, WriteFile, WriteTree, Running
<1>2. TypeOK /\ c_disk \in 0..3
  BY SpreadParts DEF TypeOK
<1>3. CASE StartWriting
  <2> DEFINE w == [op |-> "diskWriter", name |-> f.name, payload |-> f.payload,
                   todo |-> AllFiles]
  <2>1. f.op = "imageDecomposer" /\ stack' = <<w>> \o Tail(stack)
    BY <1>3 DEF StartWriting, Running, Replace, AllFiles
  <2>2. f.name \in Names /\ f.payload \in Payloads
    BY <1>1, <2>1, FrameFields
  <2>3. w \in Frames
    BY <1>2, <2>2, AllFilesType, PushedFrames
  <2>4. /\ image'[f.name].status \in {"partial", "mixed"}
        /\ image'[f.name].parity = c_disk
    BY <1>2, <1>3, <2>2 DEF StartWriting, TypeOK
  <2>5. FrameGood(image', w)
    <3> SUFFICES ASSUME NEW j \in 1..Len(AllFiles)
                 PROVE  Good(image', <<AllFiles[j][1], f.name, AllFiles[j][2]>>)
      BY DEF FrameGood
    <3>1. AllFiles[j] \in Places(c_disk)
      BY <1>2, AllFilesPlaced, ElementOfSeq
    <3> DEFINE p == AllFiles[j]
    <3>2. p[2] = 0 \/ p[2] \in SlotsAt(c_disk, p[1])
      BY <3>1 DEF Places
    <3> HIDE DEF p, f
    <3>3. Good(image', <<p[1], f.name, p[2]>>)
      BY <2>4, <3>2, LocFields DEF Good
    <3>4. QED
      BY <3>3 DEF p
  <2>6. UNCHANGED <<col, file>>
    BY <1>3 DEF StartWriting, storage, memory
  <2> HIDE DEF w
  <2>7. QED
    BY <1>1, <2>1, <2>3, <2>5, <2>6, SpreadReplacesOne
<1>4. CASE WriteFile
  <2> DEFINE l == WriterLoc(f)
             g == [f EXCEPT !.todo = Tail(@)]
  <2>1. /\ f.op = "diskWriter" /\ f.todo # <<>>
        /\ \E c : Put(l, c)
        /\ col' \subseteq col \cup {l}
        /\ stack' = <<g>> \o Tail(stack)
        /\ image' = image
    BY <1>4 DEF WriteFile, Running, Replace
  <2>2. /\ f \in [op : {"diskWriter"}, name : Names, payload : Payloads,
                  todo : Seq(Disks \X PartNumbs)]
        /\ f.todo \in Seq(Disks \X PartNumbs)
    BY <1>1, <2>1, FrameFields
  <2>3. g \in Frames
    BY <2>1, <2>2, WriterFacts
  <2>4. /\ Head(f.todo) = f.todo[1] /\ Len(f.todo) \in Nat \ {0}
        /\ Len(Tail(f.todo)) = Len(f.todo) - 1
        /\ \A i \in 1..Len(Tail(f.todo)) : Tail(f.todo)[i] = f.todo[i + 1]
    BY <2>1, <2>2, Pop
  <2>5. \A j \in 1..Len(f.todo) : Good(image, <<f.todo[j][1], f.name, f.todo[j][2]>>)
    BY <1>1, <2>1 DEF FrameGood
  <2>6. Good(image', l)
    BY <2>1, <2>4, <2>5 DEF WriterLoc
  <2>7. FrameGood(image', g)
    <3>1. g.op = "diskWriter" /\ g.name = f.name /\ g.todo = Tail(f.todo)
      BY <2>2
    <3>2. \A j \in 1..Len(Tail(f.todo)) : j + 1 \in 1..Len(f.todo)
      BY <2>4
    <3> HIDE DEF f, g
    <3>3. \A j \in 1..Len(g.todo) : Good(image', <<g.todo[j][1], g.name, g.todo[j][2]>>)
      BY <2>1, <2>4, <2>5, <3>1, <3>2
    <3>4. QED
      BY <3>1, <3>3 DEF FrameGood
  <2> HIDE DEF f, l, g
  <2>8. \A m \in Locs : file'[m] # NoFile => file[m] # NoFile \/ Good(image', m)
    BY <2>1, <2>6, SpreadParts, PutGood
  <2>9. \A m \in Locs : m \in col' \/ file'[m] # NoFile =>
                           m \in col \/ file[m] # NoFile \/ Good(image', m)
    BY <2>1, <2>6, <2>8
  <2>10. QED
    BY <1>1, <2>1, <2>3, <2>7, <2>9, SpreadReplacesOne
<1>5. CASE WriteTree
  <2>1. col' = col /\ file' = file /\ stack' = Tail(stack)
    BY <1>5 DEF WriteTree, Return
  <2>2. QED
    BY <1>1, <2>1, SpreadShrinks
<1>6. QED
  BY <1>3, <1>4, <1>5 DEF Write

LEMMA SpreadRepairInfo ==
  ASSUME SpreadInv, [Next]_vars, RepairInfo
  PROVE  SpreadInv'
<1> DEFINE f == Head(stack)
           P == {l \in Column(f.ref) : NumbOf(l) \in 1..3}
           S == {l \in Column(f.ref) : NumbOf(l) \in StripNumbs}
           g == [f EXCEPT !.at = "parts", !.parts = P, !.imgs = S]
<1>1. stack # <<>> /\ f.op = "repair" /\ f \in Frames /\ FrameGood(image, f)
  BY SpreadParts DEF RepairInfo, Repairing, Running
<1>2. f \in RepairFrames
  BY <1>1, FrameFields DEF RepairFrames
<1>3. PICK n \in f.names :
         /\ Put(<<f.ref, n, 0>>, Existing(<<Ante(f.ref), n, 0>>))
         /\ Replace(g)
  BY DEF RepairInfo
<1>4. col' = col /\ image' = image
  BY DEF RepairInfo, memory
<1>5. Good(image', <<f.ref, n, 0>>)
  BY <1>1, <1>3, <1>4, LocFields DEF FrameGood, Good
<1>6. \A m \in Locs : file'[m] # NoFile => file[m] # NoFile \/ Good(image', m)
  BY <1>3, <1>5, SpreadParts, PutGood
<1>7. P \subseteq col /\ S \subseteq col
  BY DEF Column
<1>8. \A l \in P \cup S : l \in Locs /\ Good(image', l)
  BY <1>4, <1>7, SpreadParts DEF FilesGood
<1> HIDE DEF P, S
<1>9. g \in RepairFrames
  BY <1>2, <1>8 DEF RepairFrames
<1>10. FrameGood(image', g)
  <2>1. g.op = "repair" /\ g.parts = P /\ g.imgs = S /\ g.names = f.names
    BY <1>2 DEF RepairFrames
  <2>2. \A m \in f.names : image'[m].status # "none"
    BY <1>1, <1>4 DEF FrameGood
  <2> HIDE DEF g, f
  <2>3. QED
    BY <1>8, <2>1, <2>2 DEF FrameGood
<1>11. stack' = <<g>> \o Tail(stack) /\ g \in Frames
  BY <1>3, <1>9, RepairFramesFrames DEF Replace
<1> HIDE DEF g
<1>12. QED
  BY <1>1, <1>4, <1>6, <1>10, <1>11, SpreadReplacesOne

LEMMA SpreadRepairPart ==
  ASSUME SpreadInv, [Next]_vars, RepairPart
  PROVE  SpreadInv'
<1> DEFINE f == Head(stack)
<1>1. stack # <<>> /\ f.op = "repair" /\ f \in Frames /\ FrameGood(image, f)
  BY SpreadParts DEF RepairPart, Repairing, Running
<1>2. f \in RepairFrames
  BY <1>1, FrameFields DEF RepairFrames
<1>3. image' = image
  BY DEF RepairPart
<1>4. PICK n \in f.names, l \in f.parts :
        /\ UNCHANGED file \/ \E c : Put(l, c)
        /\ \/ Throw(col)
           \/ \E m \in f.imgs :
                /\ stack' =
                     (IF NameOf(m) = n
                      THEN <<VerifierFrame, [op |-> "imageRestore", img |-> m]>>
                      ELSE <<>>)
                     \o <<[f EXCEPT !.parts = @ \ {l}, !.imgs = @ \ {m}]>>
                     \o Tail(stack)
                /\ UNCHANGED <<memory, reply>>
  BY DEF RepairPart
<1>5. l \in Locs /\ Good(image', l)
  BY <1>1, <1>2, <1>3 DEF FrameGood, RepairFrames
<1>6. \A m \in Locs : file'[m] # NoFile => file[m] # NoFile \/ Good(image', m)
  BY <1>4, <1>5, SpreadParts, PutGood
<1>7. CASE Throw(col)
  BY <1>6, <1>7, ThrowStack, SpreadShrinks
<1>8. ASSUME NEW m \in f.imgs,
             stack' = (IF NameOf(m) = n
                       THEN <<VerifierFrame, [op |-> "imageRestore", img |-> m]>>
                       ELSE <<>>)
                      \o <<[f EXCEPT !.parts = @ \ {l}, !.imgs = @ \ {m}]>>
                      \o Tail(stack),
             UNCHANGED <<memory, reply>>
      PROVE  SpreadInv'
  <2> DEFINE g == [f EXCEPT !.parts = @ \ {l}, !.imgs = @ \ {m}]
             h == [op |-> "imageRestore", img |-> m]
             s == IF NameOf(m) = n THEN <<VerifierFrame, h>> ELSE <<>>
  <2>1. g \in RepairFrames
    BY <1>2 DEF RepairFrames
  <2>2. /\ g.op = "repair" /\ g.parts \subseteq f.parts /\ g.imgs \subseteq f.imgs
        /\ g.names = f.names
    BY <1>2 DEF RepairFrames
  <2>3. g \in Frames /\ FrameGood(image', g)
    <3>1. /\ \A x \in f.parts \cup f.imgs : Good(image', x)
          /\ \A x \in f.names : image'[x].status # "none"
      BY <1>1, <1>3 DEF FrameGood
    <3> HIDE DEF f, g
    <3>2. QED
      BY <2>1, <2>2, <3>1, RepairFramesFrames DEF FrameGood
  <2>4. m \in Locs /\ Good(image', m)
    BY <1>1, <1>2, <1>3 DEF FrameGood, RepairFrames
  <2>5. h \in Frames /\ VerifierFrame \in Frames /\ FrameGood(image', h)
    BY <2>4, PushedFrames DEF FrameGood
  <2>6. FrameGood(image', VerifierFrame)
    BY GoodPlain DEF VerifierFrame
  <2>7. stack' = s \o <<g>> \o Tail(stack)
    BY <1>8
  <2> HIDE DEF f, g, h
  <2>8. s \in Seq(Frames) /\ StackGood(image', s)
    <3>1. <<VerifierFrame, h>> \in Seq(Frames) /\ <<>> \in Seq(Frames)
      BY <2>5, EmptySeq
    <3>2. StackGood(image', <<VerifierFrame, h>>)
      BY <2>5, <2>6 DEF StackGood
    <3>3. StackGood(image', <<>>)
      BY EmptySeq DEF StackGood
    <3>4. QED
      BY <3>1, <3>2, <3>3
  <2> HIDE DEF s
  <2>9. stack' = s \o (<<g>> \o Tail(stack))
    <3>1. <<g>> \in Seq(Frames) /\ Tail(stack) \in Seq(Frames)
      BY <1>1, <2>3, SpreadParts, StackTypes
    <3>2. QED
      BY <2>7, <2>8, <3>1, ConcatAssociative
  <2>10. col' = col
    BY <1>8 DEF memory
  <2>11. QED
    BY <1>1, <1>6, <2>3, <2>8, <2>9, <2>10, SpreadReplaces
<1>9. QED
  BY <1>4, <1>7, <1>8

LEMMA SpreadRepairParity ==
  ASSUME SpreadInv, [Next]_vars, RepairParity
  PROVE  SpreadInv'
<1> DEFINE f == Head(stack)
<1>1. stack # <<>> /\ f.op = "repair" /\ f \in Frames /\ FrameGood(image, f)
  BY SpreadParts DEF RepairParity, Repairing, Running
<1>2. f \in RepairFrames
  BY <1>1, FrameFields DEF RepairFrames
<1>3. image' = image
  BY DEF RepairParity
<1>4. PICK n \in f.names :
        LET l == <<f.ref, n, 4>> IN
          /\ UNCHANGED file \/ (l \in col /\ \E c : Put(l, c))
          /\ \/ Throw(col)
             \/ /\ Replace([f EXCEPT !.at = "info", !.names = @ \ {n}, !.imgs = {}])
                /\ UNCHANGED <<memory, reply>>
  BY DEF RepairParity
<1> DEFINE l == <<f.ref, n, 4>>
           g == [f EXCEPT !.at = "info", !.names = @ \ {n}, !.imgs = {}]
<1>5. \A m \in Locs : file'[m] # NoFile => file[m] # NoFile \/ Good(image', m)
  <2>1. l \in col => Good(image', l)
    BY <1>3, SpreadParts DEF FilesGood
  <2>2. UNCHANGED file \/ (l \in col /\ \E c : Put(l, c))
    BY <1>4
  <2> HIDE DEF l
  <2>3. QED
    BY <2>1, <2>2, SpreadParts, PutGood
<1>6. CASE Throw(col)
  BY <1>5, <1>6, ThrowStack, SpreadShrinks
<1>7. CASE stack' = <<g>> \o Tail(stack) /\ UNCHANGED <<memory, reply>>
  <2>1. g \in RepairFrames
    BY <1>2 DEF RepairFrames
  <2>2. /\ g.op = "repair" /\ g.parts = f.parts /\ g.imgs = {} /\ g.names \subseteq f.names
    BY <1>2 DEF RepairFrames
  <2>3. /\ \A x \in f.parts \cup f.imgs : Good(image', x)
        /\ \A x \in f.names : image'[x].status # "none"
    BY <1>1, <1>3 DEF FrameGood
  <2> HIDE DEF f, g
  <2>4. g \in Frames /\ FrameGood(image', g)
    BY <2>1, <2>2, <2>3, RepairFramesFrames DEF FrameGood
  <2>5. col' = col
    BY <1>7 DEF memory
  <2>6. QED
    BY <1>1, <1>5, <1>7, <2>4, <2>5, SpreadReplacesOne
<1>8. QED
  BY <1>4, <1>6, <1>7 DEF Replace

LEMMA SpreadImageRestore ==
  ASSUME SpreadInv, [Next]_vars, imageRestore
  PROVE  SpreadInv'
<1> DEFINE f == Head(stack)
           l == f.img
<1>1. stack # <<>> /\ f.op = "imageRestore" /\ f \in Frames /\ FrameGood(image, f)
  BY SpreadParts DEF imageRestore, Running
<1>2. image' = image
  BY DEF imageRestore
<1>3. Good(image', l)
  BY <1>1, <1>2 DEF FrameGood
<1>4. /\ UNCHANGED file \/ \E c : Put(l, c)
      /\ \/ Return /\ UNCHANGED <<memory, reply>>
         \/ Throw(col)
         \/ Die
  BY DEF imageRestore
<1> HIDE DEF l
<1>5. \A m \in Locs : file'[m] # NoFile => file[m] # NoFile \/ Good(image', m)
  BY <1>3, <1>4, SpreadParts, PutGood
<1>6. col' \subseteq col /\ (stack' = <<>> \/ stack' = Tail(stack))
  BY <1>4, ThrowStack DEF Die, Return, memory
<1>7. QED
  BY <1>1, <1>5, <1>6, SpreadShrinks

LEMMA SpreadNext == SpreadInv /\ [Next]_vars => SpreadInv'
<1> SUFFICES ASSUME SpreadInv, [Next]_vars PROVE SpreadInv'
  OBVIOUS
<1>1. CASE UNCHANGED vars
  <2>1. col' = col /\ file' = file /\ stack' = stack
    BY <1>1 DEF vars, storage, memory
  <2>2. QED
    BY <2>1, SpreadShrinks
<1>2. CASE Boot \/ Request
  BY <1>2, SpreadBegin
<1>3. CASE Verify
  BY <1>3, SpreadReturn, SpreadReconstruct DEF Verify
<1>4. CASE Repair
  BY <1>4, SpreadRepairInfo, SpreadRepairPart, SpreadRepairParity, SpreadReturn,
     SpreadImageRestore DEF Repair
<1>5. CASE Write \/ Answer \/ EndBoot
  BY <1>5, SpreadWrite, SpreadReturn
<1>6. CASE Crash \/ \E d \in Disks : DiskFail(d)
  BY <1>6, SpreadReturn
<1>7. QED
  BY <1>1, <1>2, <1>3, <1>4, <1>5, <1>6 DEF Next, Step

\* The fragments of an image stay apart: whatever disks are lost, whatever
\* calls end in an exception or a crash, reconstructDisk never registers, and
\* nothing ever writes, a second fragment of an image on one disk.
THEOREM RaidSpread == Spec => []Spread
BY SpreadInit, SpreadNext, SpreadFollows, PTL DEF Spec

-----------------------------------------------------------------------------
(* Recovery.                                                               *)

\* Where the registered fragments of an image are.
LEMMA FragmentsPlaced ==
  ASSUME TypeOK, FilesGood, NEW n \in Names, image[n].status # "mixed",
         NEW l \in Fragments(n)
  PROVE  /\ l \in Locs /\ DiskOf(l) \in Disks /\ NameOf(l) = n
         /\ NumbOf(l) = FragOf(image[n].parity, DiskOf(l))
         /\ l = Fragment(DiskOf(l), n)
<1> DEFINE c == image[n].parity
<1>1. c \in 0..3 /\ col \subseteq Locs
  BY DEF TypeOK
<1>2. l \in col /\ NameOf(l) = n /\ NumbOf(l) \in FragNumbs
  BY DEF Fragments
<1>3. l \in Locs /\ DiskOf(l) \in Disks /\ l = <<DiskOf(l), NameOf(l), NumbOf(l)>>
  BY <1>1, <1>2, LocFields
<1>4. NumbOf(l) \in SlotsAt(c, DiskOf(l))
  <2>1. NumbOf(l) # 0
    BY <1>2 DEF FragNumbs
  <2>2. QED
    BY <1>2, <1>3, <2>1 DEF FilesGood, Good
<1>5. FragOf(c, DiskOf(l)) \in 1..4
  BY <1>1, <1>3, Numbers DEF FragNumbs
<1> HIDE DEF c
<1>6. NumbOf(l) = FragOf(c, DiskOf(l))
  BY <1>2, <1>4, <1>5 DEF SlotsAt, FragNumbs
<1>7. QED
  BY <1>2, <1>3, <1>6 DEF Fragment, c

\* The bits of a fragment.
Strings(n, p, k) == IF k = 4 THEN {<<n, p, 1>>, <<n, p, 2>>, <<n, p, 3>>} ELSE {<<n, p, k>>}

LEMMA BitsRight ==
  ASSUME NEW n \in Names, NEW p, NEW k \in 1..4, NEW l, file[l] = Written(n, p, k), file[l] # NoFile
  PROVE  Bits(l) = Strings(n, p, k)
<1>1. \A i : NumbOf(<<n, p, i>>) = i
  BY DEF NumbOf
<1>2. Bits(l) = {a \in Written(n, p, k) : NumbOf(a) \in 1..3}
  BY DEF Bits, Existing
<1>3. CASE k = 4
  <2>1. Written(n, p, k) = {<<n, p, 1>>, <<n, p, 2>>, <<n, p, 3>>}
    BY <1>3 DEF Written
  <2>2. QED
    BY <1>1, <1>2, <1>3, <2>1 DEF Strings
<1>4. CASE k \in 1..3
  <2>1. Written(n, p, k) = {<<n, p, 0>>, <<n, p, k>>}
    BY <1>4 DEF Written
  <2>2. QED
    BY <1>1, <1>2, <1>4, <2>1 DEF Strings
<1>5. QED
  BY <1>3, <1>4

\* The exclusive or of three of the four is the fourth.
LEMMA XORofThree ==
  ASSUME NEW n, NEW p, NEW k \in 1..4, NEW k1 \in 1..4, NEW k2 \in 1..4, NEW k3 \in 1..4,
         k # k1, k # k2, k # k3, k1 # k2, k1 # k3, k2 # k3
  PROVE  SymDiff(Strings(n, p, k1), SymDiff(Strings(n, p, k2), Strings(n, p, k3)))
           = Strings(n, p, k)
<1> DEFINE A == Strings(n, p, k1)
           B == Strings(n, p, k2)
           C == Strings(n, p, k3)
           D == Strings(n, p, k)
<1>1. \A x, i : x \in Strings(n, p, i) <=>
         IF i = 4 THEN x = <<n, p, 1>> \/ x = <<n, p, 2>> \/ x = <<n, p, 3>> ELSE x = <<n, p, i>>
  BY DEF Strings
<1>2. \A i, j : <<n, p, i>> = <<n, p, j>> => i = j
  OBVIOUS
<1>3. ASSUME NEW x PROVE x \in SymDiff(A, SymDiff(B, C)) <=> x \in D
  <2>1. x \in SymDiff(A, SymDiff(B, C)) <=>
          \/ x \in A /\ x \in B /\ x \in C
          \/ x \in A /\ x \notin B /\ x \notin C
          \/ x \notin A /\ x \in B /\ x \notin C
          \/ x \notin A /\ x \notin B /\ x \in C
    BY DEF SymDiff
  <2>2. CASE \E i \in 1..3 : x = <<n, p, i>>
    <3>1. PICK i \in 1..3 : x = <<n, p, i>>
      BY <2>2
    <3>2. \A j \in 1..4 : x \in Strings(n, p, j) <=> j = 4 \/ j = i
      BY <1>1, <1>2, <3>1
    <3>3. /\ x \in A <=> k1 = 4 \/ k1 = i
          /\ x \in B <=> k2 = 4 \/ k2 = i
          /\ x \in C <=> k3 = 4 \/ k3 = i
          /\ x \in D <=> k = 4 \/ k = i
      BY <3>2
    <3> HIDE DEF A, B, C, D
    <3>4. QED
      BY <2>1, <3>3
  <2>3. CASE ~\E i \in 1..3 : x = <<n, p, i>>
    <3>1. \A j \in 1..4 : x \notin Strings(n, p, j)
      BY <1>1, <2>3
    <3>2. QED
      BY <2>1, <3>1
  <2>4. QED
    BY <2>2, <2>3
<1>4. QED
  BY <1>3

\* What XORrecovery writes is right when the others are.
LEMMA XORRight ==
  ASSUME TypeOK, FilesGood, NEW n \in Names, image[n].status # "mixed", image[n].payload \in Payloads,
         NEW d \in Disks, Right(d, n, 0), \A e \in Disks \ {d} : FragmentRight(e, n),
         NEW r \in XORrecovery(Fragment(d, n))
  PROVE  r = Written(n, image[n].payload, FragOf(image[n].parity, d))
<1> DEFINE c == image[n].parity
           p == image[n].payload
           l == Fragment(d, n)
           k == FragOf(c, d)
           S == Sources(l)
<1>1. c \in 0..3 /\ col \subseteq Locs /\ file \in [Locs -> Contents]
  BY DEF TypeOK, Contents
<1>2. \A e \in Disks : FragOf(c, e) \in 1..4
  BY <1>1, Numbers DEF FragNumbs
<1>3. \A x, y \in Disks : FragOf(c, x) = FragOf(c, y) => x = y
  BY <1>1 DEF FragOf, Disks
<1>4. l = <<d, n, k>> /\ DiskOf(l) = d /\ NameOf(l) = n /\ NumbOf(l) = k
  BY LocFields DEF Fragment
<1>5. PICK s \in FirstThree(S) :
        r = SymDiff(Bits(s[1]), SymDiff(Bits(s[2]), Bits(s[3])))
              \cup (IF NumbOf(l) = 4 THEN {} ELSE Existing(InfoOf(l)))
  BY DEF XORrecovery
<1> HIDE DEF c, p, l, k, S
<1>6. ASSUME NEW m \in S
      PROVE  /\ m \in Locs /\ DiskOf(m) \in Disks /\ DiskOf(m) # d
             /\ NumbOf(m) = FragOf(c, DiskOf(m))
             /\ m = Fragment(DiskOf(m), n)
             /\ Bits(m) = Strings(n, p, FragOf(c, DiskOf(m)))
  <2>1. m \in Fragments(n) /\ NumbOf(m) # k
    BY <1>4 DEF Sources, S
  <2>2. /\ m \in Locs /\ DiskOf(m) \in Disks /\ NumbOf(m) = FragOf(c, DiskOf(m))
        /\ m = Fragment(DiskOf(m), n)
    BY <2>1, FragmentsPlaced DEF c
  <2>3. DiskOf(m) # d
    BY <2>1, <2>2 DEF k
  <2>4. file[m] = Written(n, p, FragOf(c, DiskOf(m)))
    BY <2>2, <2>3 DEF FragmentRight, Right, Fragment, c, p
  <2>5. FragOf(c, DiskOf(m)) \in 1..4
    BY <1>2, <2>2
  <2>6. file[m] # NoFile
    BY <2>4, <2>5, ValuesAssumption, Numbers DEF p
  <2>7. QED
    BY <2>2, <2>3, <2>4, <2>5, <2>6, BitsRight
<1>7. \A l1, l2 \in S : Precedes(l1, l2) => DiskOf(l1) # DiskOf(l2)
  <2> SUFFICES ASSUME NEW l1 \in S, NEW l2 \in S, Precedes(l1, l2), DiskOf(l1) = DiskOf(l2)
               PROVE  FALSE
    OBVIOUS
  <2>1. l1 = l2
    BY <1>6
  <2>2. QED
    BY <1>6, <2>1, Order
<1>8. /\ s[1] \in S /\ s[2] \in S /\ s[3] \in S
      /\ Precedes(s[1], s[2]) /\ Precedes(s[2], s[3]) /\ Precedes(s[1], s[3])
  <2>1. S \in SUBSET Locs
    BY <1>6
  <2>2. /\ s[1] \in S /\ s[2] \in S /\ s[3] \in S
        /\ Precedes(s[1], s[2]) /\ Precedes(s[2], s[3])
    BY <2>1, FirstThreeFacts
  <2>3. QED
    BY <2>1, <2>2, Order
<1> DEFINE k1 == FragOf(c, DiskOf(s[1]))
           k2 == FragOf(c, DiskOf(s[2]))
           k3 == FragOf(c, DiskOf(s[3]))
<1>9. /\ k \in 1..4 /\ k1 \in 1..4 /\ k2 \in 1..4 /\ k3 \in 1..4
      /\ k # k1 /\ k # k2 /\ k # k3 /\ k1 # k2 /\ k1 # k3 /\ k2 # k3
  BY <1>2, <1>3, <1>6, <1>7, <1>8 DEF k
<1>10. /\ Bits(s[1]) = Strings(n, p, k1) /\ Bits(s[2]) = Strings(n, p, k2)
       /\ Bits(s[3]) = Strings(n, p, k3)
  BY <1>6, <1>8
<1> HIDE DEF k1, k2, k3
<1>11. r = Strings(n, p, k) \cup (IF k = 4 THEN {} ELSE Existing(InfoOf(l)))
  BY <1>4, <1>5, <1>9, <1>10, XORofThree
<1>12. Existing(InfoOf(l)) = {<<n, p, 0>>}
  <2>1. file[<<d, n, 0>>] = Written(n, p, 0) /\ InfoOf(l) = <<d, n, 0>>
    BY <1>4 DEF Right, InfoOf, p
  <2>2. Written(n, p, 0) # NoFile
    BY ValuesAssumption, Numbers DEF p
  <2>3. Written(n, p, 0) = {<<n, p, 0>>}
    BY DEF Written
  <2>4. QED
    BY <2>1, <2>2, <2>3 DEF Existing
<1>13. r = Written(n, p, k)
  <2>1. CASE k = 4
    <3>1. Written(n, p, 4) = {<<n, p, 1>>, <<n, p, 2>>, <<n, p, 3>>}
      BY DEF Written
    <3>2. QED
      BY <1>11, <2>1, <3>1 DEF Strings
  <2>2. CASE k \in 1..3
    <3>1. Written(n, p, k) = {<<n, p, 0>>, <<n, p, k>>}
      BY <2>2 DEF Written
    <3>2. QED
      BY <1>11, <1>12, <2>2, <3>1 DEF Strings
  <2>3. QED
    BY <1>9, <2>1, <2>2
<1>14. QED
  BY <1>13 DEF k, c, p

\* What is stored under a name is a picture.
PayloadInv == \A n \in Names : image[n].status # "none" => image[n].payload \in Payloads

LEMMA PayloadNext == TypeOK /\ PayloadInv /\ [Next]_vars => PayloadInv'
<1> SUFFICES ASSUME TypeOK, PayloadInv, [Next]_vars PROVE PayloadInv'
  OBVIOUS
<1>1. CASE UNCHANGED image
  BY <1>1 DEF PayloadInv
<1>2. CASE StartWriting
  <2> DEFINE f == Head(stack)
  <2>1. f \in Frames /\ f.op = "imageDecomposer"
    BY <1>2, StackTypes DEF StartWriting, Running
  <2>2. f.payload \in Payloads
    BY <2>1, FrameFields
  <2>3. PICK w : image' = [image EXCEPT ![f.name] =
                            [status |-> w, payload |-> f.payload, parity |-> c_disk]]
    BY <1>2 DEF StartWriting
  <2>4. DOMAIN image = Names
    BY DEF TypeOK
  <2> HIDE DEF f
  <2>5. \A n \in Names : image'[n] = image[n] \/ image'[n].payload = f.payload
    BY <2>3, <2>4
  <2>6. QED
    BY <2>2, <2>5 DEF PayloadInv
<1>3. CASE WriteTree
  <2> DEFINE f == Head(stack)
  <2>1. f \in Frames /\ f.op = "diskWriter" /\ image \in [Names -> [status : {"none", "partial", "stored", "mixed"},
                          payload : Payloads \cup {None}, parity : 0..3]]
    BY <1>3, StackTypes DEF WriteTree, Running, TypeOK
  <2>2. f.name \in Names
    BY <2>1, FrameFields
  <2>3. image' = [image EXCEPT ![f.name].status = IF @ = "partial" THEN "stored" ELSE @]
    BY <1>3 DEF WriteTree
  <2> HIDE DEF f
  <2>4. \A n \in Names : image'[n].payload = image[n].payload
                         /\ (image'[n].status # "none" => image[n].status # "none")
    BY <2>1, <2>2, <2>3
  <2>5. QED
    BY <2>4 DEF PayloadInv
<1>4. QED
  BY <1>1, <1>2, <1>3, ImageSteps

-----------------------------------------------------------------------------
\* A repair writes a fragment by XORrecovery only.
LEMMA RepairedFragment ==
  ASSUME TypeOK, [Next]_vars, Running("repair"), up', NEW d \in Disks, d \in dir',
         NEW n \in Names, file'[Fragment(d, n)] # file[Fragment(d, n)]
  PROVE  /\ \E r \in XORrecovery(Fragment(d, n)) : file'[Fragment(d, n)] = r
         /\ image' = image
<1> DEFINE l == Fragment(d, n)
           f == Head(stack)
<1>1. f.op = "repair" /\ stack # <<>>
  BY DEF Running
<1>2. file' # file
  OBVIOUS
<1>3. l \in Locs /\ DiskOf(l) = d /\ NameOf(l) = n /\ NumbOf(l) # 0 /\ file \in [Locs -> Contents]
  <2>1. FragOf(image[n].parity, d) \in 1..4
    BY Numbers DEF TypeOK, FragNumbs
  <2>2. QED
    BY <2>1, LocFields, Numbers DEF Fragment, TypeOK, Contents
<1> HIDE DEF l
<1>4. ASSUME NEW m, NEW c, Put(m, c) PROVE m = l /\ file'[l] = c
  BY <1>3, <1>4 DEF Put, l
<1>5. CASE RepairInfo
  <2>1. PICK m : Put(<<f.ref, m, 0>>, Existing(<<Ante(f.ref), m, 0>>))
    BY <1>5 DEF RepairInfo
  <2>2. QED
    BY <1>3, <1>4, <2>1, LocFields
<1>6. CASE RepairPart
  <2>1. PICK m : \E c \in XORrecovery(m) : Put(m, c)
    BY <1>2, <1>6 DEF RepairPart
  <2>2. QED
    BY <1>4, <1>6, <2>1 DEF RepairPart, l
<1>7. CASE RepairParity
  <2>1. PICK m : \E c \in XORrecovery(m) : Put(m, c)
    BY <1>2, <1>7 DEF RepairParity
  <2>2. QED
    BY <1>4, <1>7, <2>1 DEF RepairParity, l
<1>8. CASE \E e \in Disks : DiskFail(e)
  <2>1. PICK e \in Disks : DiskFail(e)
    BY <1>8
  <2>2. file'[l] = IF d = e THEN NoFile ELSE file[l]
    BY <1>3, <2>1 DEF DiskFail
  <2>3. d # e
    BY <2>1 DEF DiskFail
  <2>4. QED
    BY <2>2, <2>3 DEF l
<1>9. CASE Crash
  BY <1>9 DEF Crash, Die
<1>10. CASE Boot \/ Request \/ Verify \/ Write \/ Answer \/ EndBoot \/ RepairDone \/ imageRestore
  <2>1. ~Boot /\ ~Request
    BY <1>1, <1>2 DEF Boot, Request, storage, getImage, imageDecomposer, Idle
  <2>2. ~Verify /\ ~Write
    BY <1>1 DEF Verify, Write, VerifyNothing, VerifyAllGone, VerifyTooMany, reconstructDisk,
                StartWriting, WriteFile, WriteTree, Running
  <2>3. ~Answer /\ ~EndBoot /\ ~RepairDone /\ ~imageRestore
    BY <1>1, <1>2 DEF Answer, EndBoot, RepairDone, imageRestore, Running, storage
  <2>4. QED
    BY <1>10, <2>1, <2>2, <2>3
<1>11. QED
  BY <1>2, <1>5, <1>6, <1>7, <1>8, <1>9, <1>10 DEF Next, Step, Repair, vars, storage

\* XORrecovery writes the right fragment from three right ones.
LEMMA RecoveryStep ==
  ASSUME SpreadInv, PayloadInv, [Next]_vars
  PROVE  \A n \in Stored, d \in Disks :
           /\ file'[Fragment(d, n)] # file[Fragment(d, n)]
           /\ Running("repair") /\ up' /\ d \in dir'
           /\ Right(d, n, 0) /\ \A e \in Disks \ {d} : FragmentRight(e, n)
           => FragmentRight(d, n)'
<1> SUFFICES ASSUME NEW n \in Stored, NEW d \in Disks,
                    file'[Fragment(d, n)] # file[Fragment(d, n)],
                    Running("repair"), up', d \in dir',
                    Right(d, n, 0), \A e \in Disks \ {d} : FragmentRight(e, n)
             PROVE  FragmentRight(d, n)'
  OBVIOUS
<1>1. n \in Names /\ image[n].status = "stored" /\ image[n].payload \in Payloads
  BY DEF Stored, PayloadInv
<1>2. TypeOK /\ FilesGood
  BY DEF SpreadInv
<1>3. /\ \E r \in XORrecovery(Fragment(d, n)) : file'[Fragment(d, n)] = r
      /\ image' = image
  BY <1>1, <1>2, RepairedFragment
<1>4. file'[Fragment(d, n)] = Written(n, image[n].payload, FragOf(image[n].parity, d))
  BY <1>1, <1>2, <1>3, XORRight
<1>5. QED
  BY <1>3, <1>4 DEF FragmentRight, Right, Fragment

\* Whatever is lost, interrupted or half rebuilt, and whatever the switches
\* allow: a fragment that is recovered from three right ones and a right Info
\* file is right (XORrecovery, RAID_Controller.cpp:499-580).
THEOREM RaidRecovery == Spec => RecoveryRight
<1>1. Init => SpreadInv /\ PayloadInv
  BY SpreadInit DEF Init, PayloadInv
<1>2. SpreadInv /\ PayloadInv /\ [Next]_vars => SpreadInv' /\ PayloadInv'
  BY SpreadNext, PayloadNext DEF SpreadInv
<1>3. SpreadInv /\ PayloadInv /\ [Next]_vars =>
        [\A n \in Stored, d \in Disks :
           /\ file'[Fragment(d, n)] # file[Fragment(d, n)]
           /\ Running("repair") /\ up' /\ d \in dir'
           /\ Right(d, n, 0) /\ \A e \in Disks \ {d} : FragmentRight(e, n)
           => FragmentRight(d, n)']_vars
  BY RecoveryStep
<1>4. QED
  BY <1>1, <1>2, <1>3, PTL DEF Spec, RecoveryRight

-----------------------------------------------------------------------------
(* Cold failures.                                                          *)

\* What ReadsStored and its like are about: disks are lost one at a time and
\* only while the process is stopped, which it is between calls, tree files
\* are right, no name is found by another's text and none is stored twice.
Cold ==
  /\ Failures = "cold" /\ ~CrashAnywhere /\ ~DanglingTree /\ ~Reinsert
  /\ \A n, m \in Names : <<n, m>> \in Hits => n = m

-----------------------------------------------------------------------------
(* The inductive invariant.                                                *)

\* The files of an image on a disk.
FilesAt(n, d) == {0} \cup Slots(n, d)

RightOn(d, n) == \A k \in FilesAt(n, d) : Right(d, n, k)

\* An image is being written, by the call in progress, or stored; its tree
\* file is there when it is stored.
ImageInv ==
  /\ \A n \in Names :
       /\ image[n].status # "mixed"
       /\ image[n].status = "partial" <=> Running("diskWriter") /\ Head(stack).name = n
       /\ treeFile[n] = IF n \in Stored THEN <<n, image[n].payload>> ELSE NoFile
  /\ up => trees = Stored

\* The fragments are registered, and so are, after a boot, the strips.
FragmentsKnown == \A n \in Stored, d \in Disks : Fragment(d, n) \in col
SlotsKnown == \A n \in Stored, d \in Disks : \A k \in Slots(n, d) : <<d, n, k>> \in col

\* What a stopped process has left.
AllThere == dir = Disks /\ \A d \in Disks : Whole(d)
Lost(d) ==
  /\ dir = Disks \ {d}
  /\ \A e \in Disks \ {d} : Whole(e)
  /\ \A l \in Locs : DiskOf(l) = d => file[l] = NoFile
Fresh == dir = {} /\ Stored = {}
Rest == AllThere \/ Fresh \/ \E d \in Disks : Lost(d)

Down == ~up /\ stack = <<>> /\ Rest

Booting ==
  /\ up /\ stack = <<VerifierFrame, BootFrame>> /\ Rest
  /\ col = {l \in Locs : file[l] # NoFile}

\* A call of the caller, or none.
Ready ==
  /\ up /\ AllThere /\ FragmentsKnown
  /\ \/ stack \in {<<>>, <<BootFrame>>}
     \/ \E f \in Frames :
          /\ stack \in {<<f>>, <<VerifierFrame, f>>}
          /\ reply.answer = None
          /\ \/ f.op = "getImage" /\ reply.name = f.name
             \/ f.op = "imageDecomposer" /\ image[f.name].status = "none"

\* The files of an image are written or still to be written.
Done(f, d, k) ==
  \/ \E j \in 1..Len(f.todo) : f.todo[j] = <<d, k>>
  \/ Right(d, f.name, k) /\ (k \in StripNumbs \/ <<d, f.name, k>> \in col)

Writing ==
  /\ up /\ AllThere /\ FragmentsKnown
  /\ \E f \in Frames :
       /\ stack = <<f>> /\ f.op = "diskWriter" /\ reply.answer = None
       /\ image[f.name].payload = f.payload
       /\ \A d \in Disks : \A k \in FilesAt(f.name, d) : Done(f, d, k)

\* The images with a data fragment on a disk, and the strip beside it.
DataOn(d) == {n \in Stored : FragOf(image[n].parity, d) # 4}
StripAt(d, n) == <<d, n, 50 + FragOf(image[n].parity, d)>>

\* A repair has done the names it has left behind.  The parts and the strips
\* of the pass in progress are those of the same images, so that the strip at
\* the index of a part is of the same name.
Repaired(f) ==
  /\ f.names \subseteq Stored
  /\ \A e \in Disks \ {f.ref} : Whole(e)
  /\ \A n \in Stored \ f.names : RightOn(f.ref, n)

PassInv(f) ==
  f.at = "parts" =>
    /\ f.names # {}
    /\ \A n \in f.names : IsLeast(n, f.names) => Right(f.ref, n, 0)
    /\ \A l \in f.parts : NameOf(l) \in DataOn(f.ref) /\ l = Fragment(f.ref, NameOf(l))
    /\ \A l \in f.imgs : NameOf(l) \in DataOn(f.ref) /\ l = StripAt(f.ref, NameOf(l))
    /\ {NameOf(l) : l \in f.parts} = {NameOf(l) : l \in f.imgs}
    /\ \A n \in DataOn(f.ref) :
         IsLeast(n, f.names) /\ Fragment(f.ref, n) \notin f.parts => FragmentRight(f.ref, n)

\* The strips of the images whose parts the pass has behind it.
StripsDone(f) ==
  \A n \in DataOn(f.ref) :
    f.at = "parts" /\ IsLeast(n, f.names) /\ Fragment(f.ref, n) \notin f.parts =>
      file[StripAt(f.ref, n)] = Written(n, image[n].payload, StripAt(f.ref, n)[3])

Restoring(f, m) ==
  /\ f.at = "parts" /\ IsLeast(NameOf(m), f.names)
  /\ NameOf(m) \in DataOn(f.ref) /\ m = StripAt(f.ref, NameOf(m))
  /\ Fragment(f.ref, NameOf(m)) \notin f.parts

Repairs ==
  /\ up /\ dir = Disks /\ SlotsKnown
  /\ \E f \in Frames :
       /\ f.op = "repair" /\ Repaired(f) /\ PassInv(f)
       /\ \/ stack = <<f, BootFrame>> /\ StripsDone(f)
          \/ \E g \in Frames :
               /\ g.op = "imageRestore" /\ Restoring(f, g.img)
               /\ stack \in {<<g, f, BootFrame>>, <<VerifierFrame, g, f, BootFrame>>}

ColdInv ==
  /\ SpreadInv /\ PayloadInv /\ ImageInv /\ ReadsStored
  /\ Down \/ Booting \/ Ready \/ Writing \/ Repairs

-----------------------------------------------------------------------------
(* Places.                                                                 *)

LEMMA Places4 ==
  ASSUME TypeOK, NEW n \in Names, NEW d \in Disks
  PROVE  /\ FragOf(image[n].parity, d) \in 1..4
         /\ FragOf(image[n].parity, d) \in Slots(n, d)
         /\ FragOf(image[n].parity, d) # 4 =>
              /\ FragOf(image[n].parity, d) \in 1..3
              /\ 50 + FragOf(image[n].parity, d) \in Slots(n, d)
         /\ \A k \in Slots(n, d) :
              \/ k = FragOf(image[n].parity, d)
              \/ k = 50 + FragOf(image[n].parity, d) /\ FragOf(image[n].parity, d) # 4
         /\ \A k \in FilesAt(n, d) : k \in PartNumbs /\ <<d, n, k>> \in Locs
         /\ Fragment(d, n) \in Locs /\ Fragment(d, n)[2] = n
         /\ StripAt(d, n)[3] = 50 + FragOf(image[n].parity, d)
         /\ FragOf(image[n].parity, d) # 4 => StripAt(d, n) \in Locs
<1> DEFINE c == image[n].parity
           k == FragOf(c, d)
<1>1. c \in 0..3
  BY DEF TypeOK
<1>2. k \in 1..4 /\ (k # 4 => k \in 1..3)
  BY <1>1, Numbers DEF FragNumbs
<1> HIDE DEF k
<1>3. Slots(n, d) = IF k = 4 THEN {4} ELSE {k, 50 + k}
  BY DEF Slots, k, c
<1>4. k \in PartNumbs /\ (k # 4 => 50 + k \in PartNumbs) /\ 0 \in PartNumbs
  BY <1>2, Numbers
<1>5. /\ k \in Slots(n, d)
      /\ k # 4 => k \in 1..3 /\ 50 + k \in Slots(n, d)
      /\ \A j \in Slots(n, d) : j = k \/ (j = 50 + k /\ k # 4)
  BY <1>2, <1>3
<1>6. \A j \in FilesAt(n, d) : j \in PartNumbs
  BY <1>4, <1>5 DEF FilesAt
<1>7. <<d, n, k>> \in Locs /\ (k # 4 => <<d, n, 50 + k>> \in Locs)
  BY <1>4, LocFields
<1>8. \A j \in FilesAt(n, d) : <<d, n, j>> \in Locs
  BY <1>6, LocFields
<1>9. Fragment(d, n) = <<d, n, k>> /\ StripAt(d, n) = <<d, n, 50 + k>>
  BY DEF Fragment, StripAt, k, c
<1>10. QED
  BY <1>2, <1>5, <1>6, <1>7, <1>8, <1>9 DEF k, c

\* The fragments of an image are on its disks one each.
LEMMA FragmentsApart ==
  ASSUME TypeOK, NEW n \in Names
  PROVE  \A d, e \in Disks :
           FragOf(image[n].parity, d) = FragOf(image[n].parity, e) => d = e
<1>1. image[n].parity \in 0..3
  BY DEF TypeOK
<1>2. QED
  BY <1>1 DEF FragOf, Disks

\* What is registered or there is one of the files of an image.
LEMMA FilePlace ==
  ASSUME TypeOK, FilesGood, ImageInv, NEW l \in Locs, l \in col \/ file[l] # NoFile
  PROVE  /\ NumbOf(l) \in FilesAt(NameOf(l), DiskOf(l))
         /\ image[NameOf(l)].status \in {"partial", "stored"}
<1>1. Good(image, l) /\ NameOf(l) \in Names /\ DiskOf(l) \in Disks
  BY LocFields DEF FilesGood
<1>2. image[NameOf(l)].status \in {"none", "partial", "stored", "mixed"}
  BY <1>1 DEF TypeOK
<1>3. image[NameOf(l)].status # "mixed"
  BY <1>1 DEF ImageInv
<1>4. QED
  BY <1>1, <1>2, <1>3 DEF Good, FilesAt, Slots, SlotsAt

LEMMA RightExists ==
  ASSUME TypeOK, PayloadInv, NEW n \in Stored, NEW d \in Disks, NEW k \in FilesAt(n, d), Right(d, n, k)
  PROVE  /\ file[<<d, n, k>>] # NoFile
         /\ file[<<d, n, k>>] = Written(n, image[n].payload, k)
<1>1. n \in Names /\ image[n].payload \in Payloads
  BY DEF Stored, PayloadInv
<1>2. k \in PartNumbs
  BY <1>1, Places4
<1>3. QED
  BY <1>1, <1>2, ValuesAssumption DEF Right

-----------------------------------------------------------------------------
(* The order of the columns.                                               *)

LEMMA TotalOrder ==
  \A l, m \in Locs : l = m \/ Precedes(l, m) \/ Precedes(m, l)
<1> SUFFICES ASSUME NEW l \in Locs, NEW m \in Locs PROVE l = m \/ Precedes(l, m) \/ Precedes(m, l)
  OBVIOUS
<1>1. /\ DiskOf(l) \in Int /\ DiskOf(m) \in Int
      /\ FileOrder[NameOf(l)] \in Int /\ FileOrder[NameOf(m)] \in Int
      /\ NameOf(l) = NameOf(m) <=> FileOrder[NameOf(l)] = FileOrder[NameOf(m)]
  <2>1. /\ DiskOf(l) \in Disks /\ DiskOf(m) \in Disks
        /\ NameOf(l) \in Names /\ NameOf(m) \in Names
    BY LocFields
  <2>2. \A n \in Names : FileOrder[n] \in Int
    BY FileOrderAssumption, NamesAssumption DEF Names
  <2>3. QED
    BY <2>1, <2>2, FileOrderAssumption DEF Disks
<1>2. \A j, k \in PartNumbs : /\ KindRank(j) \in Int /\ KindRank(k) \in Int
                              /\ KindRank(j) = KindRank(k) => j = k
  <2>1. \A k \in PartNumbs :
          \/ k \in {51, 52, 53} /\ KindRank(k) = k - 60
          \/ k = 0 /\ KindRank(k) = -1
          \/ k = 4 /\ KindRank(k) = 0
          \/ k \in {1, 2, 3} /\ KindRank(k) = k
    BY DEF KindRank, PartNumbs, StripNumbs, FragNumbs
  <2>2. QED
    BY <2>1
<1>3. NumbOf(l) \in PartNumbs /\ NumbOf(m) \in PartNumbs
  BY LocFields
<1> DEFINE r == KindRank(NumbOf(l))
           s == KindRank(NumbOf(m))
<1>4. r \in Int /\ s \in Int /\ (r = s => NumbOf(l) = NumbOf(m))
  BY <1>2, <1>3
<1>5. l = m <=> DiskOf(l) = DiskOf(m) /\ NameOf(l) = NameOf(m) /\ NumbOf(l) = NumbOf(m)
  BY LocFields
<1>6. /\ Precedes(l, m) <=> \/ DiskOf(l) < DiskOf(m)
                            \/ /\ DiskOf(l) = DiskOf(m)
                               /\ \/ FileOrder[NameOf(l)] < FileOrder[NameOf(m)]
                                  \/ NameOf(l) = NameOf(m) /\ r < s
      /\ Precedes(m, l) <=> \/ DiskOf(m) < DiskOf(l)
                            \/ /\ DiskOf(m) = DiskOf(l)
                               /\ \/ FileOrder[NameOf(m)] < FileOrder[NameOf(l)]
                                  \/ NameOf(m) = NameOf(l) /\ s < r
  BY DEF Precedes
<1> HIDE DEF r, s
<1>7. QED
  BY <1>1, <1>4, <1>5, <1>6

\* Of three locations the program finds the three.
LEMMA ThreeInOrder ==
  ASSUME NEW S \in SUBSET Locs, NEW a \in S, NEW b \in S, NEW c \in S,
         a # b, a # c, b # c, S \subseteq {a, b, c}
  PROVE  FirstThree(S) # {}
<1>1. ASSUME NEW x \in S, NEW y \in S, NEW z \in S, Precedes(x, y), Precedes(y, z),
             S \subseteq {x, y, z}
      PROVE  FirstThree(S) # {}
  <2>1. <<x, y, z>> \in FirstThree(S)
    BY <1>1 DEF FirstThree
  <2>2. QED
    BY <2>1
<1>2. /\ Precedes(a, b) \/ Precedes(b, a)
      /\ Precedes(a, c) \/ Precedes(c, a)
      /\ Precedes(b, c) \/ Precedes(c, b)
  BY TotalOrder
<1>3. \A x, y, z \in S : Precedes(x, y) /\ Precedes(y, z) => Precedes(x, z)
  BY Order
<1>4. QED
  BY <1>1, <1>2, <1>3

-----------------------------------------------------------------------------
(* What recovery, merge and the rebuild of a column find.                  *)

LEMMA RecoveryWorks ==
  ASSUME TypeOK, FilesGood, PayloadInv, NEW n \in Stored, NEW d \in Disks, Right(d, n, 0),
         \A e \in Disks \ {d} : FragmentRight(e, n) /\ Fragment(e, n) \in col
  PROVE  XORrecovery(Fragment(d, n)) = {Written(n, image[n].payload, FragOf(image[n].parity, d))}
<1> DEFINE l == Fragment(d, n)
           S == Sources(l)
<1>1. n \in Names /\ image[n].status = "stored" /\ image[n].payload \in Payloads
  BY DEF Stored, PayloadInv
<1>2. \A r \in XORrecovery(l) : r = Written(n, image[n].payload, FragOf(image[n].parity, d))
  BY <1>1, XORRight
<1>3. \A m \in Fragments(n) : m \in Locs /\ DiskOf(m) \in Disks /\ m = Fragment(DiskOf(m), n)
  BY <1>1, FragmentsPlaced
<1>4. \A e \in Disks : /\ DiskOf(Fragment(e, n)) = e /\ NameOf(Fragment(e, n)) = n
                       /\ NumbOf(Fragment(e, n)) = FragOf(image[n].parity, e)
                       /\ FragOf(image[n].parity, e) \in FragNumbs
  <2>1. \A e \in Disks : FragOf(image[n].parity, e) \in 1..4
    BY <1>1, Places4
  <2>2. QED
    BY <2>1, LocFields DEF Fragment, FragNumbs
<1>5. ASSUME NEW e \in Disks \ {d} PROVE Fragment(e, n) \in S
  <2>1. FragOf(image[n].parity, e) # FragOf(image[n].parity, d)
    BY <1>1, FragmentsApart
  <2>2. Fragment(e, n) \in Fragments(n)
    BY <1>4 DEF Fragments
  <2>3. QED
    BY <1>4, <2>1, <2>2 DEF Sources
<1>6. \A m \in S : m \in Locs /\ \E e \in Disks \ {d} : m = Fragment(e, n)
  BY <1>3, <1>4 DEF Sources
<1>7. PICK e1 \in Disks, e2 \in Disks, e3 \in Disks :
        /\ Disks \ {d} = {e1, e2, e3} /\ e1 # e2 /\ e1 # e3 /\ e2 # e3
  <2>1. CASE d = 1
    BY <2>1, Disks \ {1} = {2, 3, 4} DEF Disks
  <2>2. CASE d = 2
    BY <2>2, Disks \ {2} = {1, 3, 4} DEF Disks
  <2>3. CASE d = 3
    BY <2>3, Disks \ {3} = {1, 2, 4} DEF Disks
  <2>4. CASE d = 4
    BY <2>4, Disks \ {4} = {1, 2, 3} DEF Disks
  <2>5. QED
    BY <2>1, <2>2, <2>3, <2>4 DEF Disks
<1>8. FirstThree(S) # {}
  <2> DEFINE a == Fragment(e1, n)
             b == Fragment(e2, n)
             c == Fragment(e3, n)
  <2>1. a # b /\ a # c /\ b # c
    BY <1>4, <1>7
  <2>2. a \in S /\ b \in S /\ c \in S
    BY <1>5, <1>7
  <2>3. S \subseteq {a, b, c} /\ S \in SUBSET Locs
    BY <1>6, <1>7
  <2> HIDE DEF a, b, c, S
  <2>4. QED
    BY <2>1, <2>2, <2>3, ThreeInOrder
<1>9. Existing(InfoOf(l)) # {}
  <2>1. InfoOf(l) = <<d, n, 0>>
    BY <1>4 DEF InfoOf
  <2>2. file[<<d, n, 0>>] = Written(n, image[n].payload, 0) /\ Written(n, image[n].payload, 0) # NoFile
    BY <1>1, ValuesAssumption, Numbers DEF Right
  <2>3. Written(n, image[n].payload, 0) = {<<n, image[n].payload, 0>>}
    BY DEF Written
  <2>4. QED
    BY <2>1, <2>2, <2>3 DEF Existing
<1>10. XORrecovery(l) # {}
  BY <1>8, <1>9 DEF XORrecovery
<1>11. QED
  BY <1>2, <1>10

\* The data fragments merge finds of an image.
LEMMA MergeFinds ==
  ASSUME TypeOK, FilesGood, NEW n \in Stored, \A d \in Disks : Fragment(d, n) \in col,
         \A m \in Registered : <<n, m>> \in Hits => n = m
  PROVE  \E s \in FirstThree(Found(n)) :
           /\ FirstThree(Found(n)) = {s} /\ Found(n) = {s[1], s[2], s[3]}
           /\ \A i \in 1..3 : \E d \in Disks :
                FragOf(image[n].parity, d) = i /\ s[i] = Fragment(d, n)
<1> DEFINE c == image[n].parity
           E(i) == IF i <= c THEN i ELSE i + 1
           a(i) == <<E(i), n, i>>
<1>1. n \in Names /\ image[n].status = "stored" /\ c \in 0..3
  BY DEF Stored, TypeOK
<1>2. \A i \in 1..3 : /\ E(i) \in Disks /\ FragOf(c, E(i)) = i
                      /\ a(i) = Fragment(E(i), n)
                      /\ \A j \in 1..3 : i < j => E(i) < E(j)
  BY <1>1 DEF FragOf, Disks, Fragment
<1>3. \A d \in Disks : FragOf(c, d) \in 1..3 => d = E(FragOf(c, d))
  BY <1>1 DEF FragOf, Disks
<1>4. Found(n) = {l \in col : NameOf(l) = n /\ NumbOf(l) \in 1..3}
  <2>1. \A l \in col : NameOf(l) \in Registered
    BY DEF Registered
  <2>2. \A m \in Registered : <<n, m>> \in Hits <=> n = m
    BY <1>1, HitsAssumption
  <2>3. QED
    BY <2>1, <2>2 DEF Found
<1> HIDE DEF c, E
<1>5. \A i \in 1..3 : a(i) \in Found(n)
  <2>1. ASSUME NEW i \in 1..3 PROVE a(i) \in col /\ NameOf(a(i)) = n /\ NumbOf(a(i)) = i
    <3>1. a(i) \in col
      BY <1>2
    <3>2. QED
      BY <3>1, LocFields
  <2>2. QED
    BY <1>4, <2>1
<1>6. ASSUME NEW l \in Found(n) PROVE \E i \in 1..3 : l = a(i)
  <2>1. l \in Fragments(n) /\ NumbOf(l) \in 1..3
    BY <1>4 DEF Fragments, FragNumbs
  <2>2. DiskOf(l) \in Disks /\ NumbOf(l) = FragOf(c, DiskOf(l)) /\ l = Fragment(DiskOf(l), n)
    BY <1>1, <2>1, FragmentsPlaced DEF c
  <2>3. DiskOf(l) = E(NumbOf(l))
    BY <1>3, <2>1, <2>2
  <2>4. l = a(NumbOf(l))
    BY <2>2, <2>3 DEF Fragment, c
  <2>5. QED
    BY <2>1, <2>4
<1>7. Precedes(a(1), a(2)) /\ Precedes(a(2), a(3))
  <2>1. DiskOf(a(1)) < DiskOf(a(2)) /\ DiskOf(a(2)) < DiskOf(a(3))
    BY <1>2, LocFields
  <2>2. QED
    BY <2>1 DEF Precedes
<1> DEFINE s == <<a(1), a(2), a(3)>>
<1>8. s[1] = a(1) /\ s[2] = a(2) /\ s[3] = a(3)
  OBVIOUS
<1> HIDE DEF a
<1>9. a(1) \in Found(n) /\ a(2) \in Found(n) /\ a(3) \in Found(n)
  BY <1>5
<1>10. Found(n) = {a(1), a(2), a(3)}
  <2>1. \A l \in Found(n) : l = a(1) \/ l = a(2) \/ l = a(3)
    BY <1>6
  <2>2. QED
    BY <1>9, <2>1
<1>11. s \in FirstThree(Found(n))
  BY <1>7, <1>8, <1>9, <1>10 DEF FirstThree
<1>12. FirstThree(Found(n)) = {s}
  <2>1. Found(n) \in SUBSET Locs
    <3>1. col \subseteq Locs
      BY DEF TypeOK
    <3>2. QED
      BY <1>4, <3>1
  <2>2. ASSUME NEW t \in FirstThree(Found(n)) PROVE t = s
    <3>1. t[1] = s[1] /\ t[2] = s[2] /\ t[3] = s[3]
      BY <1>11, <2>1, FirstThreeUnique
    <3>2. t \in Found(n) \X Found(n) \X Found(n)
      BY DEF FirstThree
    <3>3. t = <<t[1], t[2], t[3]>>
      BY <3>2
    <3>4. QED
      BY <1>8, <3>1, <3>3
  <2>3. QED
    BY <1>11, <2>2
<1>13. ASSUME NEW i \in 1..3
       PROVE  \E d \in Disks : FragOf(c, d) = i /\ s[i] = Fragment(d, n)
  <2>1. s[i] = a(i)
    BY <1>8
  <2>2. QED
    BY <1>2, <2>1
<1>14. QED
  BY <1>8, <1>10, <1>11, <1>12, <1>13 DEF c

\* What is stored is read, and nothing else is, where no other name is found
\* by the text and the tree is right.
LEMMA MergeOrderly ==
  ASSUME TypeOK, FilesGood, PayloadInv, NEW n \in Stored,
         n \in trees, treeFile[n] = <<n, image[n].payload>>,
         \A m \in Registered \cup trees : <<n, m>> \in Hits => n = m,
         \A d \in Disks : /\ Fragment(d, n) \in col
                          /\ FragOf(image[n].parity, d) # 4 => FragmentRight(d, n)
  PROVE  merge(n) = {<<n, image[n].payload>>}
<1> DEFINE p == image[n].payload
<1>1. n \in Names /\ p \in Payloads
  BY DEF Stored, PayloadInv
<1>2. PICK s \in FirstThree(Found(n)) :
           /\ FirstThree(Found(n)) = {s} /\ Found(n) = {s[1], s[2], s[3]}
           /\ \A i \in 1..3 : \E d \in Disks :
                FragOf(image[n].parity, d) = i /\ s[i] = Fragment(d, n)
  BY MergeFinds
<1>3. ASSUME NEW i \in 1..3
      PROVE  file[s[i]] = Written(n, p, i) /\ file[s[i]] # NoFile /\ file[s[i]] # {}
  <2>1. PICK d \in Disks : FragOf(image[n].parity, d) = i /\ s[i] = Fragment(d, n)
    BY <1>2
  <2>2. file[s[i]] = Written(n, p, i)
    BY <2>1 DEF FragmentRight, Right, Fragment
  <2>3. <<n, p, i>> \in Written(n, p, i)
    BY DEF Written
  <2>4. Written(n, p, i) # NoFile
    BY <1>1, ValuesAssumption, Numbers DEF PartNumbs, FragNumbs
  <2>5. QED
    BY <2>2, <2>3, <2>4
<1>4. \A l \in Found(n) : file[l] # NoFile /\ file[l] # {}
  BY <1>2, <1>3
<1>5. /\ n \in trees /\ treeFile[n] = <<n, p>>
      /\ \A m \in trees : <<n, m>> \in Hits <=> m = n
  BY <1>1, HitsAssumption
<1>6. TreeOf(n) = n
  <2>1. n \in trees /\ <<n, n>> \in Hits
    BY <1>5
  <2>2. \A o \in trees : <<n, o>> \in Hits => FileOrder[n] <= FileOrder[o]
    <3>1. FileOrder[n] \in Int
      BY <1>1, FileOrderAssumption, NamesAssumption DEF Names
    <3>2. QED
      BY <1>5, <3>1
  <2>3. QED
    BY <1>5, <2>1, <2>2 DEF TreeOf
<1>7. <<n, p>> \in Pictures /\ <<n, p>>[1] = n /\ <<n, p>>[2] = p
  BY <1>1 DEF Pictures
<1>8. Found(n) # {} /\ FirstThree(Found(n)) # {} /\ ~\E l \in Found(n) : file[l] = NoFile
  BY <1>2, <1>4
<1>9. ~\E l \in Found(n) : file[l] = {}
  BY <1>4
<1>10. \E m \in trees : <<n, m>> \in Hits
  BY <1>5
<1>11. \A t \in FirstThree(Found(n)), i \in 1..3 : file[t[i]] = Written(n, p, i)
  BY <1>2, <1>3
<1>12. QED
  BY <1>5, <1>6, <1>7, <1>8, <1>9, <1>10, <1>11 DEF merge

LEMMA MergeRight ==
  ASSUME Cold, TypeOK, FilesGood, PayloadInv, ImageInv, up, NEW n \in Stored,
         \A d \in Disks : /\ Fragment(d, n) \in col
                          /\ FragOf(image[n].parity, d) # 4 => FragmentRight(d, n)
  PROVE  merge(n) = {<<n, image[n].payload>>}
<1>1. n \in Names /\ n \in trees /\ treeFile[n] = <<n, image[n].payload>>
  BY DEF Stored, ImageInv
<1>2. \A l \in col : NameOf(l) \in Names
  BY LocFields DEF TypeOK
<1>3. Registered \cup trees \subseteq Names
  BY <1>2 DEF Registered, TypeOK
<1>4. \A m \in Registered \cup trees : <<n, m>> \in Hits => n = m
  BY <1>1, <1>3 DEF Cold
<1>5. QED
  BY <1>1, <1>4, MergeOrderly

LEMMA MergeNothing ==
  ASSUME Cold, TypeOK, FilesGood, NEW n \in Names, image[n].status = "none"
  PROVE  merge(n) = {NotFound}
<1>1. \A l \in col : l \in Locs /\ NameOf(l) \in Names /\ image[NameOf(l)].status # "none"
  BY LocFields DEF TypeOK, FilesGood, Good
<1>2. Found(n) = {}
  BY <1>1 DEF Found, Cold
<1>3. QED
  BY <1>2 DEF merge

-----------------------------------------------------------------------------
(* Steps.                                                                  *)

\* What may happen, by the innermost call.
LEMMA StepByCall ==
  ASSUME Cold, Next
  PROVE  \/ ~up /\ (Boot \/ \E d \in Disks : dir = Disks /\ DiskFail(d))
         \/ up /\ stack = <<>> /\ Request
         \/ up /\ stack = <<>> /\ Die /\ UNCHANGED <<storage, image, reply>>
         \/ /\ stack # <<>>
            /\ \/ Head(stack).op = "boot" /\ EndBoot
               \/ Head(stack).op = "diskVerifier" /\ Verify
               \/ Head(stack).op = "getImage" /\ Answer
               \/ Head(stack).op = "imageDecomposer" /\ StartWriting
               \/ Head(stack).op = "diskWriter" /\ (WriteFile \/ WriteTree)
               \/ /\ Head(stack).op = "repair"
                  /\ RepairInfo \/ RepairPart \/ RepairParity \/ RepairDone
               \/ Head(stack).op = "imageRestore" /\ imageRestore
<1>1. CASE Boot
  BY <1>1 DEF Boot
<1>2. CASE Request
  BY <1>2 DEF Request, getImage, imageDecomposer, Idle
<1>3. CASE \E d \in Disks : DiskFail(d)
  BY <1>3 DEF DiskFail, MayFail, Cold
<1>4. CASE Crash
  <2>1. up /\ stack = <<>>
    BY <1>4 DEF Crash, Cold
  <2>2. ~Running("diskWriter")
    BY <2>1 DEF Running
  <2>3. Die /\ UNCHANGED <<file, treeFile>> /\ UNCHANGED <<dir, image, reply>>
    BY <1>4, <2>1, <2>2 DEF Crash
  <2>4. QED
    BY <2>1, <2>3 DEF storage
<1>5. CASE Verify
  BY <1>5 DEF Verify, VerifyNothing, VerifyAllGone, VerifyTooMany, reconstructDisk, Running
<1>6. CASE Write
  BY <1>6 DEF Write, StartWriting, WriteFile, WriteTree, Running
<1>7. CASE Repair
  BY <1>7 DEF Repair, RepairInfo, RepairPart, RepairParity, RepairDone, imageRestore,
              Repairing, Running
<1>8. CASE Answer \/ EndBoot
  BY <1>8 DEF Answer, EndBoot, Running
<1>9. QED
  BY <1>1, <1>2, <1>3, <1>4, <1>5, <1>6, <1>7, <1>8 DEF Next, Step

LEMMA NothingLost ==
  ASSUME dir = Disks, Verify
  PROVE  VerifyNothing
<1>1. ~VerifyAllGone
  BY 1 \in Disks DEF VerifyAllGone, Disks
<1>2. Disks \ dir = {} /\ Cardinality(Disks \ dir) = 0
  BY FS_EmptySet
<1>3. ~VerifyTooMany /\ \A d \in Disks : ~reconstructDisk(d)
  BY <1>2 DEF VerifyTooMany, reconstructDisk
<1>4. QED
  BY <1>1, <1>3 DEF Verify

\* What is said of files and images only, while both stay as they are.
LEMMA FilesKept ==
  ASSUME file' = file, image' = image
  PROVE  /\ Stored' = Stored
         /\ \A d \in Disks : Whole(d)' <=> Whole(d)
         /\ \A d \in Disks : (dir' = dir /\ Lost(d)) => Lost(d)'
         /\ dir' = dir /\ Rest => Rest'
         /\ dir' = dir /\ AllThere => AllThere'
         /\ col' = col /\ FragmentsKnown => FragmentsKnown'
         /\ reply' = reply /\ ReadsStored => ReadsStored'
         /\ reply'.answer = None => ReadsStored'
<1>1. Stored' = Stored
  BY DEF Stored
<1>2. \A d \in Disks : Whole(d)' <=> Whole(d)
  BY <1>1 DEF Whole, Right, Slots
<1>3. ASSUME NEW d \in Disks, dir' = dir, Lost(d) PROVE Lost(d)'
  BY <1>2, <1>3 DEF Lost
<1>4. ASSUME dir' = dir, AllThere PROVE AllThere'
  BY <1>2, <1>4 DEF AllThere
<1>5. ASSUME dir' = dir, Rest PROVE Rest'
  <2>1. CASE Fresh
    BY <1>1, <1>5, <2>1 DEF Fresh, Rest
  <2>2. CASE \E d \in Disks : Lost(d)
    BY <1>3, <1>5, <2>2 DEF Rest
  <2>3. QED
    BY <1>4, <1>5, <2>1, <2>2 DEF Rest
<1>6. ASSUME col' = col, FragmentsKnown PROVE FragmentsKnown'
  BY <1>1, <1>6 DEF FragmentsKnown, Fragment
<1>7. ASSUME reply' = reply, ReadsStored PROVE ReadsStored'
  BY <1>1, <1>7 DEF ReadsStored
<1>8. ASSUME reply'.answer = None PROVE ReadsStored'
  BY <1>8 DEF ReadsStored
<1>9. QED
  BY <1>1, <1>2, <1>3, <1>4, <1>5, <1>6, <1>7, <1>8

LEMMA ImageKept ==
  ASSUME ImageInv, image' = image, treeFile' = treeFile, up' => trees' = Stored,
         ~Running("diskWriter"), ~Running("diskWriter")'
  PROVE  ImageInv'
<1>1. Stored' = Stored
  BY DEF Stored
<1>2. \A n \in Names : image[n].status # "partial"
  BY DEF ImageInv
<1>3. QED
  BY <1>1, <1>2 DEF ImageInv

\* Calls on the stack.
LEMMA Calls ==
  /\ \A f : <<f>> # <<>> /\ Head(<<f>>) = f /\ Tail(<<f>>) = <<>> /\ Len(<<f>>) = 1 /\ <<f>>[1] = f
  /\ \A f, g : /\ <<f, g>> # <<>> /\ Head(<<f, g>>) = f /\ Tail(<<f, g>>) = <<g>>
               /\ Len(<<f, g>>) = 2 /\ <<f, g>>[2] = g
  /\ \A f, g, h : /\ <<f, g, h>> # <<>> /\ Head(<<f, g, h>>) = f /\ Tail(<<f, g, h>>) = <<g, h>>
                  /\ Len(<<f, g, h>>) = 3 /\ <<f, g, h>>[3] = h
  /\ \A f, g, h, i :
       /\ <<f, g, h, i>> # <<>> /\ Head(<<f, g, h, i>>) = f
       /\ Tail(<<f, g, h, i>>) = <<g, h, i>> /\ Len(<<f, g, h, i>>) = 4 /\ <<f, g, h, i>>[4] = i
  /\ BootFrame.op = "boot" /\ VerifierFrame.op = "diskVerifier"
BY DEF BootFrame, VerifierFrame

LEMMA Concats ==
  /\ \A f, g : <<f>> \o <<g>> = <<f, g>>
  /\ \A f, g : <<>> \o <<f>> \o <<g>> = <<f, g>>
  /\ \A f, g, h, i : <<f, g>> \o <<h>> \o <<i>> = <<f, g, h, i>>
<1>0. ASSUME NEW S, NEW s \in Seq(S), NEW x \in S
      PROVE  /\ s \o <<x>> \in Seq(S) /\ Len(s \o <<x>>) = Len(s) + 1
             /\ (s \o <<x>>)[Len(s) + 1] = x
             /\ \A j \in 1..Len(s) : (s \o <<x>>)[j] = s[j]
  <2>1. <<x>> \in Seq(S) /\ Len(<<x>>) = 1 /\ <<x>>[1] = x /\ Len(s) \in Nat
    BY LenProperties
  <2>2. QED
    BY <2>1, ConcatProperties
<1>1. ASSUME NEW f, NEW g PROVE <<f>> \o <<g>> = <<f, g>>
  <2> DEFINE s == <<f>> \o <<g>>
             t == <<f, g>>
  <2>1. PICK S : S = {f, g}
    OBVIOUS
  <2>2. <<f>> \in Seq(S) /\ f \in S /\ g \in S /\ t \in Seq(S)
    BY <2>1
  <2>3. s \in Seq(S) /\ Len(s) = 2 /\ s[1] = f /\ s[2] = g
    BY <1>0, <2>2
  <2>4. Len(t) = 2 /\ t[1] = f /\ t[2] = g
    OBVIOUS
  <2> HIDE DEF s, t
  <2>5. \A j \in 1..Len(s) : s[j] = t[j]
    BY <2>3, <2>4
  <2>6. s = t
    BY <2>2, <2>3, <2>4, <2>5, SeqEqual
  <2>7. QED
    BY <2>6 DEF s, t
<1>2. ASSUME NEW f, NEW g, NEW h PROVE <<f, g>> \o <<h>> = <<f, g, h>>
  <2> DEFINE s == <<f, g>> \o <<h>>
             t == <<f, g, h>>
  <2>1. PICK S : S = {f, g, h}
    OBVIOUS
  <2>2. <<f, g>> \in Seq(S) /\ h \in S /\ t \in Seq(S)
    BY <2>1
  <2>3. s \in Seq(S) /\ Len(s) = 3 /\ s[1] = f /\ s[2] = g /\ s[3] = h
    BY <1>0, <2>2
  <2>4. Len(t) = 3 /\ t[1] = f /\ t[2] = g /\ t[3] = h
    OBVIOUS
  <2> HIDE DEF s, t
  <2>5. \A j \in 1..Len(s) : s[j] = t[j]
    BY <2>3, <2>4
  <2>6. s = t
    BY <2>2, <2>3, <2>4, <2>5, SeqEqual
  <2>7. QED
    BY <2>6 DEF s, t
<1>3. ASSUME NEW f, NEW g, NEW h, NEW i PROVE <<f, g>> \o <<h>> \o <<i>> = <<f, g, h, i>>
  <2> DEFINE s == <<f, g, h>> \o <<i>>
             t == <<f, g, h, i>>
  <2>1. PICK S : S = {f, g, h, i}
    OBVIOUS
  <2>2. <<f, g, h>> \in Seq(S) /\ i \in S /\ t \in Seq(S)
    BY <2>1
  <2>3. s \in Seq(S) /\ Len(s) = 4 /\ s[1] = f /\ s[2] = g /\ s[3] = h /\ s[4] = i
    BY <1>0, <2>2
  <2>4. Len(t) = 4 /\ t[1] = f /\ t[2] = g /\ t[3] = h /\ t[4] = i
    OBVIOUS
  <2> HIDE DEF s, t
  <2>5. \A j \in 1..Len(s) : s[j] = t[j]
    BY <2>3, <2>4
  <2>6. s = t
    BY <2>2, <2>3, <2>4, <2>5, SeqEqual
  <2>7. QED
    BY <1>2, <2>6 DEF s, t
<1>4. ASSUME NEW f, NEW g PROVE <<>> \o <<f>> \o <<g>> = <<f, g>>
  <2>1. <<f>> \in Seq({f})
    OBVIOUS
  <2>2. <<>> \o <<f>> = <<f>>
    BY <2>1, ConcatEmptySeq
  <2>3. QED
    BY <1>1, <2>2
<1>5. QED
  BY <1>1, <1>3, <1>4

\* The parts that hold in every phase are kept by what was proved of all
\* settings, and the parts about images and answers.
LEMMA ColdParts ==
  ASSUME ColdInv, [Next]_vars, ImageInv', ReadsStored',
         (Down \/ Booting \/ Ready \/ Writing \/ Repairs)'
  PROVE  ColdInv'
<1>1. SpreadInv' /\ PayloadInv'
  BY SpreadNext, PayloadNext DEF ColdInv, SpreadInv
<1>2. QED
  BY <1>1 DEF ColdInv

-----------------------------------------------------------------------------
(* Stopped.                                                                *)

LEMMA BootStep ==
  ASSUME Cold, ColdInv, Down, Boot
  PROVE  ImageInv' /\ ReadsStored' /\ Booting'
<1>1. /\ UNCHANGED <<dir, file, treeFile, image, reply>> /\ up'
      /\ stack' = <<VerifierFrame, BootFrame>>
      /\ col' = {l \in Locs : file[l] # NoFile}
      /\ trees' = {n \in Names : treeFile[n] # NoFile}
  BY DEF Boot, storage
<1>2. trees' = Stored
  <2>1. ASSUME NEW n \in Stored PROVE n \in Names /\ treeFile[n] \in Pictures
    <3>1. n \in Names /\ image[n].status = "stored"
      BY DEF Stored
    <3>2. treeFile[n] = <<n, image[n].payload>> /\ image[n].payload \in Payloads
      BY <3>1 DEF ColdInv, ImageInv, PayloadInv
    <3>3. QED
      BY <3>1, <3>2 DEF Pictures
  <2>2. \A n \in Names : n \in Stored <=> treeFile[n] # NoFile
    BY <2>1, ValuesAssumption DEF ColdInv, ImageInv
  <2>3. QED
    BY <1>1, <2>1, <2>2
<1>3. ImageInv'
  <2>1. ~Running("diskWriter") /\ ~Running("diskWriter")'
    BY <1>1, Calls DEF Down, Running
  <2>2. QED
    BY <1>1, <1>2, <2>1, ImageKept DEF ColdInv
<1>4. ReadsStored' /\ Rest'
  BY <1>1, FilesKept DEF ColdInv, Down
<1>5. QED
  BY <1>1, <1>3, <1>4 DEF Booting

\* A disk is lost when all are there.
LEMMA FailStep ==
  ASSUME Cold, ColdInv, Down, NEW d \in Disks, dir = Disks, DiskFail(d)
  PROVE  ImageInv' /\ ReadsStored' /\ Down'
<1>1. /\ UNCHANGED <<treeFile, up, col, trees, c_disk, stack, image, reply>>
      /\ dir' = Disks \ {d}
      /\ file' = [l \in Locs |-> IF DiskOf(l) = d THEN NoFile ELSE file[l]]
  BY DEF DiskFail, memory
<1>2. ImageInv'
  <2>1. ~Running("diskWriter") /\ ~Running("diskWriter")'
    BY <1>1 DEF Down, Running
  <2>2. QED
    BY <1>1, <2>1, ImageKept DEF ColdInv, Down
<1>3. ReadsStored' /\ Stored' = Stored
  BY <1>1 DEF ColdInv, ReadsStored, Stored
<1>4. \A e \in Disks : Whole(e)
  <2>1. ~Fresh
    BY DEF Fresh, Disks
  <2>2. \A e \in Disks : ~Lost(e)
    BY DEF Lost
  <2>3. QED
    BY <2>1, <2>2 DEF Down, Rest, AllThere
<1>5. ASSUME NEW e \in Disks \ {d} PROVE Whole(e)'
  <2>1. ASSUME NEW n \in Stored, NEW k \in FilesAt(n, e)
        PROVE  file'[<<e, n, k>>] = file[<<e, n, k>>]
    <3>1. <<e, n, k>> \in Locs
      BY Places4 DEF ColdInv, SpreadInv, Stored
    <3>2. QED
      BY <1>1, <3>1, LocFields
  <2>2. \A n \in Stored : \A k \in {0} \cup Slots(n, e) : file'[<<e, n, k>>] = file[<<e, n, k>>]
    BY <2>1 DEF FilesAt
  <2>3. QED
    BY <1>1, <1>3, <1>4, <2>2 DEF Whole, Right, Slots
<1>6. \A l \in Locs : DiskOf(l) = d => file'[l] = NoFile
  BY <1>1
<1>7. Lost(d)'
  BY <1>1, <1>5, <1>6 DEF Lost
<1>8. QED
  BY <1>1, <1>2, <1>3, <1>7 DEF Down, Rest

-----------------------------------------------------------------------------
(* Starting.                                                               *)

\* A name with everything on the other disks is not too short of files.
LEMMA NotBad ==
  ASSUME TypeOK, FilesGood, NEW d \in Disks, Column(d) = {}, NEW n \in Stored,
         \A e \in Disks \ {d} : \A k \in Slots(n, e) : <<e, n, k>> \in col
  PROVE  Numbs(n) # {} /\ ~Bad(n)
<1>1. n \in Names /\ image[n].status = "stored"
  BY DEF Stored
<1>2. PICK e1 \in Disks, e2 \in Disks, e3 \in Disks :
        /\ Disks \ {d} = {e1, e2, e3} /\ e1 # e2 /\ e1 # e3 /\ e2 # e3
  <2>1. CASE d = 1
    BY <2>1, Disks \ {1} = {2, 3, 4} DEF Disks
  <2>2. CASE d = 2
    BY <2>2, Disks \ {2} = {1, 3, 4} DEF Disks
  <2>3. CASE d = 3
    BY <2>3, Disks \ {3} = {1, 2, 4} DEF Disks
  <2>4. CASE d = 4
    BY <2>4, Disks \ {4} = {1, 2, 3} DEF Disks
  <2>5. QED
    BY <2>1, <2>2, <2>3, <2>4 DEF Disks
<1>3. \A e \in Disks \ {d} : Fragment(e, n) \in Fragments(n)
  <2>1. ASSUME NEW e \in Disks \ {d}
        PROVE  /\ Fragment(e, n) \in col /\ NameOf(Fragment(e, n)) = n
               /\ NumbOf(Fragment(e, n)) \in FragNumbs
    <3>1. FragOf(image[n].parity, e) \in Slots(n, e) /\ FragOf(image[n].parity, e) \in FragNumbs
      BY <1>1, Places4 DEF FragNumbs
    <3>2. QED
      BY <3>1, LocFields DEF Fragment
  <2>2. QED
    BY <2>1 DEF Fragments
<1>4. ASSUME NEW l \in Fragments(n) PROVE l \in Locs /\ \E e \in Disks \ {d} : l = Fragment(e, n)
  <2>1. l \in col
    BY DEF Fragments
  <2>2. DiskOf(l) # d
    BY <2>1 DEF Column
  <2>3. QED
    BY <1>1, <2>1, <2>2, FragmentsPlaced
<1>5. \A e \in Disks : DiskOf(Fragment(e, n)) = e
  BY LocFields DEF Fragment
<1>6. FirstThree(Fragments(n)) # {}
  <2> DEFINE a == Fragment(e1, n)
             b == Fragment(e2, n)
             c == Fragment(e3, n)
  <2>1. a # b /\ a # c /\ b # c /\ a \in Fragments(n) /\ b \in Fragments(n) /\ c \in Fragments(n)
    BY <1>2, <1>3, <1>5
  <2>2. Fragments(n) \subseteq {a, b, c} /\ Fragments(n) \in SUBSET Locs
    BY <1>2, <1>4
  <2> HIDE DEF a, b, c
  <2>3. QED
    BY <2>1, <2>2, ThreeInOrder
<1>7. Numbs(n) # {}
  <2>1. col \subseteq Locs
    BY DEF TypeOK
  <2>2. PICK s \in FirstThree(Fragments(n)) : TRUE
    BY <1>6
  <2>3. Numbs(n) = {NumbOf(s[1]), NumbOf(s[2]), NumbOf(s[3])}
    BY <1>1, <2>1, NumbsFacts
  <2>4. QED
    BY <2>3
<1>8. PICK e \in Disks \ {d} : FragOf(image[n].parity, e) # 4
  <2>1. FragOf(image[n].parity, e1) # FragOf(image[n].parity, e2)
    BY <1>1, <1>2, FragmentsApart
  <2>2. QED
    BY <1>2, <2>1
<1>9. 50 + FragOf(image[n].parity, e) \in Slots(n, e) /\ FragOf(image[n].parity, e) \in 1..3
  BY <1>1, <1>8, Places4
<1>10. StripAt(e, n) \in Strips(n)
  <2>1. StripAt(e, n) \in col
    BY <1>9 DEF StripAt
  <2>2. NameOf(StripAt(e, n)) = n /\ NumbOf(StripAt(e, n)) \in StripNumbs
    BY <1>9, LocFields DEF StripAt, StripNumbs
  <2>3. QED
    BY <2>1, <2>2 DEF Strips
<1>11. QED
  BY <1>7, <1>10 DEF Bad, StripUnknown

\* A disk there is none of: its column is inferred, all of it.
LEMMA RebuiltAll ==
  ASSUME TypeOK, FilesGood, PayloadInv, ImageInv, ~Running("diskWriter"),
         NEW d \in Disks, Lost(d), col = {l \in Locs : file[l] # NoFile}
  PROVE  /\ Column(d) = {} /\ Registered = Stored
         /\ \A n \in Registered : ~Bad(n)
         /\ \A n \in Stored, e \in Disks \ {d} : \A k \in FilesAt(n, e) : <<e, n, k>> \in col
         /\ \A n \in Stored : \A k \in Slots(n, d) : <<d, n, k>> \in Rebuilt(d)
<1>1. \A n \in Stored : n \in Names /\ image[n].status = "stored"
  BY DEF Stored
<1>2. ASSUME NEW n \in Stored, NEW e \in Disks \ {d}, NEW k \in FilesAt(n, e)
      PROVE  <<e, n, k>> \in col
  <2>1. Right(e, n, k)
    BY DEF Lost, Whole, FilesAt
  <2>2. file[<<e, n, k>>] # NoFile
    BY <2>1, RightExists
  <2>3. <<e, n, k>> \in Locs
    BY <1>1, Places4
  <2>4. QED
    BY <2>2, <2>3
<1>3. Column(d) = {}
  BY DEF Column, Lost
<1>4. ASSUME NEW l \in col
      PROVE  /\ l \in Locs /\ NameOf(l) \in Stored /\ DiskOf(l) \in Disks \ {d}
             /\ NumbOf(l) \in FilesAt(NameOf(l), DiskOf(l))
  <2>1. l \in Locs /\ file[l] # NoFile /\ NameOf(l) \in Names /\ DiskOf(l) \in Disks
    BY LocFields
  <2>2. NumbOf(l) \in FilesAt(NameOf(l), DiskOf(l)) /\ image[NameOf(l)].status \in {"partial", "stored"}
    BY <2>1, FilePlace
  <2>3. image[NameOf(l)].status # "partial"
    BY <2>1 DEF ImageInv
  <2>4. QED
    BY <1>3, <2>1, <2>2, <2>3 DEF Stored, Column
<1>5. PICK e1 \in Disks, e2 \in Disks, e3 \in Disks :
        /\ Disks \ {d} = {e1, e2, e3} /\ e1 # e2 /\ e1 # e3 /\ e2 # e3
  <2>1. CASE d = 1
    BY <2>1, Disks \ {1} = {2, 3, 4} DEF Disks
  <2>2. CASE d = 2
    BY <2>2, Disks \ {2} = {1, 3, 4} DEF Disks
  <2>3. CASE d = 3
    BY <2>3, Disks \ {3} = {1, 2, 4} DEF Disks
  <2>4. CASE d = 4
    BY <2>4, Disks \ {4} = {1, 2, 3} DEF Disks
  <2>5. QED
    BY <2>1, <2>2, <2>3, <2>4 DEF Disks
<1>6. Registered = Stored
  <2>1. \A n \in Stored : <<e1, n, 0>> \in col /\ NameOf(<<e1, n, 0>>) = n
    BY <1>2, <1>5, LocFields DEF FilesAt
  <2>2. QED
    BY <1>4, <2>1 DEF Registered
<1>7. ASSUME NEW n \in Stored
      PROVE  /\ ~Bad(n) /\ Numbs(n) # {} /\ FragNumbs \ Numbs(n) = {FragOf(image[n].parity, d)}
  <2>1. Numbs(n) # {} /\ ~Bad(n)
    BY <1>2, <1>3, NotBad DEF FilesAt
  <2>2. QED
    BY <1>1, <1>3, <2>1, MissingFragment
<1>8. ASSUME NEW n \in Stored, NEW l \in Strips(n)
      PROVE  \E e \in Disks \ {d} : NumbOf(l) = 50 + FragOf(image[n].parity, e)
  <2>1. l \in col /\ NameOf(l) = n /\ NumbOf(l) \in 51..53
    BY DEF Strips, StripNumbs
  <2>2. DiskOf(l) \in Disks \ {d} /\ NumbOf(l) \in FilesAt(n, DiskOf(l))
    BY <1>4, <2>1
  <2>3. FragOf(image[n].parity, DiskOf(l)) \in 1..4
    BY <1>1, <2>2, Places4
  <2>4. NumbOf(l) \in Slots(n, DiskOf(l))
    BY <2>1, <2>2 DEF FilesAt
  <2>5. NumbOf(l) = 50 + FragOf(image[n].parity, DiskOf(l))
    BY <1>1, <2>1, <2>2, <2>3, <2>4, Places4
  <2>6. QED
    BY <2>2, <2>5
<1>9. \A n \in Stored : ~Bad(n)
  BY <1>7
<1>10. ASSUME NEW n \in Stored
       PROVE  {NewFragment(d, n)} \cup NewStrips(d, n) \subseteq Rebuilt(d)
  <2>1. n \in Registered /\ Numbs(n) # {} /\ ~AfterBad(n) /\ ~StripUnknown(n)
    BY <1>6, <1>7, <1>9 DEF AfterBad, Bad
  <2>2. QED
    BY <2>1 DEF Rebuilt
<1>11. ASSUME NEW n \in Stored, NEW k \in Slots(n, d) PROVE <<d, n, k>> \in Rebuilt(d)
  <2> DEFINE F == FragOf(image[n].parity, d)
  <2>1. /\ F \in 1..4 /\ (k = F \/ (k = 50 + F /\ F # 4))
        /\ FragNumbs \ Numbs(n) = {F}
    BY <1>1, <1>7, Places4
  <2>2. \A e \in Disks \ {d} : FragOf(image[n].parity, e) # F /\ FragOf(image[n].parity, e) \in 1..4
    BY <1>1, FragmentsApart, Places4
  <2> HIDE DEF F
  <2>3. CASE k = F
    <3>1. Least({F}) = F
      BY <2>1, LeastFacts
    <3>2. NewFragment(d, n) = <<d, n, k>>
      BY <2>1, <2>3, <3>1 DEF NewFragment
    <3>3. QED
      BY <1>10, <3>2
  <2>4. CASE k = 50 + F /\ F # 4
    <3>1. F \notin {NumbOf(l) - 50 : l \in Strips(n)}
      <4>1. \A l \in Strips(n) : NumbOf(l) - 50 # F
        BY <1>8, <2>2
      <4>2. QED
        BY <4>1
    <3>2. MissingStrips(n) = {F}
      BY <2>1, <2>4, <3>1 DEF MissingStrips, FragNumbs
    <3>3. Least({F}) = F
      BY <2>1, LeastFacts
    <3>4. NewStrips(d, n) = {<<d, n, k>>}
      BY <2>4, <3>2, <3>3 DEF NewStrips
    <3>5. QED
      BY <1>10, <3>4
  <2>5. QED
    BY <2>1, <2>3, <2>4
<1>12. QED
  BY <1>2, <1>3, <1>6, <1>9, <1>11

\* At most one disk is gone, or all are.
LEMMA RestCases ==
  ASSUME Rest
  PROVE  /\ dir = Disks => AllThere
         /\ dir = {} => Fresh
         /\ Cardinality(Disks \ dir) \notin {2, 3}
         /\ \A d \in Disks : Disks \ dir = {d} => Lost(d)
<1>1. Disks # {} /\ \A d \in Disks : Disks \ {d} # {} /\ Disks \ {d} # Disks
  BY 1 \in Disks, 2 \in Disks DEF Disks
<1>2. CASE AllThere
  <2>1. dir = Disks /\ Disks \ dir = {}
    BY <1>2 DEF AllThere
  <2>2. QED
    BY <1>1, <1>2, <2>1, FS_EmptySet
<1>3. CASE Fresh
  <2>1. dir = {} /\ Disks \ dir = Disks
    BY <1>3 DEF Fresh
  <2>2. Cardinality(Disks) = 4
    <3>1. Cardinality(1..4) = IF 1 > 4 THEN 0 ELSE 4 - 1 + 1
      BY FS_Interval, 1 \in Int, 4 \in Int
    <3>2. QED
      BY <3>1 DEF Disks
  <2>3. \A d \in Disks : Disks # {d}
    BY <1>1
  <2>4. QED
    BY <1>1, <1>3, <2>1, <2>2, <2>3
<1>4. CASE \E d \in Disks : Lost(d)
  <2>1. PICK d \in Disks : Lost(d)
    BY <1>4
  <2>2. dir = Disks \ {d} /\ Disks \ dir = {d}
    BY <2>1 DEF Lost
  <2>3. Cardinality(Disks \ dir) = 1
    BY <2>2, FS_Singleton
  <2>4. QED
    BY <1>1, <2>1, <2>2, <2>3
<1>5. QED
  BY <1>2, <1>3, <1>4 DEF Rest

LEMMA BootingStep ==
  ASSUME Cold, ColdInv, Booting, Verify
  PROVE  ImageInv' /\ ReadsStored' /\ ((Ready' /\ stack' = <<BootFrame>>) \/ Repairs')
<1>1. /\ TypeOK /\ FilesGood /\ PayloadInv /\ ImageInv /\ ReadsStored /\ Rest
      /\ up /\ stack = <<VerifierFrame, BootFrame>> /\ col = {l \in Locs : file[l] # NoFile}
  BY DEF ColdInv, SpreadInv, Booting
<1>2. /\ ~Running("diskWriter") /\ trees = Stored
      /\ Tail(stack) = <<BootFrame>>
  BY <1>1, Calls DEF Running, ImageInv
<1>3. CASE VerifyNothing
  <2>1. /\ dir = Disks /\ stack' = <<BootFrame>>
        /\ UNCHANGED <<dir, file, treeFile, up, col, trees, image, reply>>
    BY <1>2, <1>3 DEF VerifyNothing, Return, storage, memory
  <2>2. AllThere
    BY <1>1, <2>1, RestCases
  <2>3. FragmentsKnown
    <3>1. ASSUME NEW n \in Stored, NEW d \in Disks PROVE Fragment(d, n) \in col
      <4>1. n \in Names
        BY DEF Stored
      <4>2. FragOf(image[n].parity, d) \in FilesAt(n, d) /\ Fragment(d, n) \in Locs
        BY <1>1, <4>1, Places4 DEF FilesAt
      <4>3. Right(d, n, FragOf(image[n].parity, d))
        BY <2>2, <4>2 DEF AllThere, Whole, FilesAt
      <4>4. file[Fragment(d, n)] # NoFile
        BY <1>1, <4>2, <4>3, RightExists DEF Fragment
      <4>5. QED
        BY <1>1, <4>2, <4>4
    <3>2. QED
      BY <3>1 DEF FragmentsKnown
  <2>4. ImageInv'
    <3>1. ~Running("diskWriter")'
      BY <2>1, Calls DEF Running
    <3>2. QED
      BY <1>1, <1>2, <2>1, <3>1, ImageKept
  <2>5. AllThere' /\ FragmentsKnown' /\ ReadsStored'
    BY <1>1, <2>1, <2>2, <2>3, FilesKept
  <2>6. QED
    BY <1>1, <2>1, <2>4, <2>5 DEF Ready
<1>4. CASE VerifyAllGone
  <2>1. /\ dir = {} /\ dir' = Disks /\ stack' = <<BootFrame>>
        /\ UNCHANGED <<file, treeFile, up, col, trees, image, reply>>
    BY <1>2, <1>4 DEF VerifyAllGone, Return, memory
  <2>2. Stored' = {} /\ ReadsStored'
    BY <1>1, <2>1, RestCases, FilesKept DEF Fresh
  <2>3. AllThere' /\ FragmentsKnown'
    BY <2>1, <2>2 DEF AllThere, Whole, FragmentsKnown
  <2>4. ImageInv'
    <3>1. ~Running("diskWriter")'
      BY <2>1, Calls DEF Running
    <3>2. QED
      BY <1>1, <1>2, <2>1, <3>1, ImageKept
  <2>5. QED
    BY <1>1, <2>1, <2>2, <2>3, <2>4 DEF Ready
<1>5. ~VerifyTooMany
  BY <1>1, RestCases DEF VerifyTooMany
<1>6. ASSUME NEW d \in Disks, reconstructDisk(d)
      PROVE  ImageInv' /\ ReadsStored' /\ Repairs'
  <2>1. Lost(d)
    BY <1>1, <1>6, RestCases DEF reconstructDisk
  <2>2. /\ Column(d) = {} /\ Registered = Stored
        /\ \A n \in Registered : ~Bad(n)
        /\ \A n \in Stored, e \in Disks \ {d} : \A k \in FilesAt(n, e) : <<e, n, k>> \in col
        /\ \A n \in Stored : \A k \in Slots(n, d) : <<d, n, k>> \in Rebuilt(d)
    BY <1>1, <1>2, <2>1, RebuiltAll
  <2>3. PICK f : f = RepairFrame(d)
    OBVIOUS
  <2>4. /\ dir' = Disks /\ col' = col \cup Rebuilt(d) /\ Replace(RepairFrame(d))
        /\ UNCHANGED <<file, treeFile, image, up, trees, c_disk, reply>>
    BY <1>6, <2>2 DEF reconstructDisk
  <2>5. stack' = <<f, BootFrame>>
    BY <1>2, <2>3, <2>4, Concats DEF Replace
  <2>6. f \in Frames /\ f.op = "repair" /\ f.ref = d /\ f.at = "info"
    <3>1. col \subseteq Locs
      BY <1>1 DEF TypeOK
    <3>2. QED
      BY <2>3, <3>1, RepairFrameType DEF RepairFrame
  <2>7. f.names = Stored
    <3>1. Ante(d) \in Disks \ {d}
      BY DEF Ante, Disks
    <3>2. f.names = {NameOf(l) : l \in {m \in Column(Ante(d)) : NumbOf(m) = 0}}
      BY <2>3 DEF RepairFrame
    <3>3. ASSUME NEW n \in Stored PROVE n \in f.names
      <4>1. <<Ante(d), n, 0>> \in col
        BY <2>2, <3>1 DEF FilesAt
      <4>2. <<Ante(d), n, 0>> \in {m \in Column(Ante(d)) : NumbOf(m) = 0} /\ NameOf(<<Ante(d), n, 0>>) = n
        BY <4>1, LocFields DEF Column
      <4>3. QED
        BY <3>2, <4>2
    <3>4. f.names \subseteq Registered
      BY <3>2 DEF Column, Registered
    <3>5. QED
      BY <2>2, <3>3, <3>4
  <2>8. Stored' = Stored /\ ReadsStored' /\ \A e \in Disks : Whole(e)' <=> Whole(e)
    BY <1>1, <2>4, FilesKept
  <2>9. Repaired(f)' /\ PassInv(f)' /\ StripsDone(f)'
    BY <2>1, <2>6, <2>7, <2>8 DEF Repaired, PassInv, StripsDone, Lost
  <2>10. SlotsKnown'
    <3>1. ASSUME NEW n \in Stored, NEW e \in Disks, NEW k \in Slots(n, e) PROVE <<e, n, k>> \in col'
      BY <2>2, <2>4 DEF FilesAt
    <3>2. \A n \in Stored, e \in Disks : Slots(n, e)' = Slots(n, e)
      BY <2>4 DEF Slots
    <3>3. QED
      BY <2>8, <3>1, <3>2 DEF SlotsKnown
  <2>11. ImageInv'
    <3>1. ~Running("diskWriter")'
      BY <2>5, <2>6, Calls DEF Running
    <3>2. QED
      BY <1>1, <1>2, <2>4, <3>1, ImageKept
  <2>12. QED
    BY <1>1, <2>4, <2>5, <2>6, <2>8, <2>9, <2>10, <2>11 DEF Repairs
<1>7. QED
  BY <1>3, <1>4, <1>5, <1>6 DEF Verify

-----------------------------------------------------------------------------
(* A call of the caller.                                                   *)

\* diskWriter has all the files of an image to write.
LEMMA AllFilesCover ==
  ASSUME c_disk \in 0..3, NEW d \in Disks, NEW k \in {0} \cup SlotsAt(c_disk, d)
  PROVE  \E j \in 1..Len(AllFiles) : AllFiles[j] = <<d, k>>
<1> DEFINE T == Disks \X PartNumbs
           In(s) == \E j \in 1..Len(s) : s[j] = <<d, k>>
<1>1. \A e \in Disks : FilesOf(e) \in Seq(T)
  BY FilesOfType
<1>2. In(FilesOf(d))
  <2> DEFINE i == FragOf(c_disk, d)
  <2>1. CASE i = 4
    <3>1. FilesOf(d) = <<<<d, 4>>, <<d, 0>>>>
      BY <2>1 DEF FilesOf
    <3>2. /\ Len(FilesOf(d)) = 2 /\ FilesOf(d)[1] = <<d, 4>> /\ FilesOf(d)[2] = <<d, 0>>
          /\ k = 4 \/ k = 0
      BY <2>1, <3>1 DEF SlotsAt
    <3>3. QED
      BY <3>2
  <2>2. CASE i # 4
    <3>1. FilesOf(d) = <<<<d, i>>, <<d, 0>>, <<d, 50 + i>>>>
      BY <2>2 DEF FilesOf
    <3>2. /\ Len(FilesOf(d)) = 3 /\ FilesOf(d)[1] = <<d, i>> /\ FilesOf(d)[2] = <<d, 0>>
          /\ FilesOf(d)[3] = <<d, 50 + i>>
          /\ k = i \/ k = 50 + i \/ k = 0
      BY <2>2, <3>1 DEF SlotsAt
    <3> HIDE DEF i
    <3>3. QED
      BY <3>2
  <2>3. QED
    BY <2>1, <2>2
<1>3. ASSUME NEW s \in Seq(T), NEW t \in Seq(T), In(s) \/ In(t)
      PROVE  s \o t \in Seq(T) /\ In(s \o t)
  <2>1. /\ s \o t \in Seq(T) /\ Len(s \o t) = Len(s) + Len(t)
        /\ Len(s) \in Nat /\ Len(t) \in Nat
        /\ \A i \in 1..(Len(s) + Len(t)) : (s \o t)[i] = IF i <= Len(s) THEN s[i] ELSE t[i - Len(s)]
    BY ConcatProperties, LenProperties
  <2>2. CASE In(s)
    <3>1. PICK i \in 1..Len(s) : s[i] = <<d, k>>
      BY <2>2
    <3>2. i \in 1..(Len(s) + Len(t)) /\ (s \o t)[i] = <<d, k>>
      BY <2>1, <3>1
    <3>3. QED
      BY <2>1, <3>2
  <2>3. CASE In(t)
    <3>1. PICK i \in 1..Len(t) : t[i] = <<d, k>>
      BY <2>3
    <3>2. i + Len(s) \in 1..(Len(s) + Len(t)) /\ (s \o t)[i + Len(s)] = <<d, k>>
      BY <2>1, <3>1
    <3>3. QED
      BY <2>1, <3>2
  <2>4. QED
    BY <1>3, <2>2, <2>3
<1>4. 1 \in Disks /\ 2 \in Disks /\ 3 \in Disks /\ 4 \in Disks /\ d \in {1, 2, 3, 4}
  BY DEF Disks
<1> HIDE DEF In, T
<1>5. /\ FilesOf(1) \o FilesOf(2) \in Seq(T)
      /\ FilesOf(1) \o FilesOf(2) \o FilesOf(3) \in Seq(T)
  BY <1>1, <1>4, ConcatProperties
<1>6. /\ d \in {1, 2} => In(FilesOf(1) \o FilesOf(2))
      /\ d \in {1, 2, 3} => In(FilesOf(1) \o FilesOf(2) \o FilesOf(3))
  <2>1. d \in {1, 2} => In(FilesOf(1) \o FilesOf(2))
    BY <1>1, <1>2, <1>3, <1>4
  <2>2. QED
    BY <1>1, <1>2, <1>3, <1>4, <1>5, <2>1
<1>7. In(AllFiles)
  BY <1>1, <1>2, <1>3, <1>4, <1>5, <1>6 DEF AllFiles
<1>8. QED
  BY <1>7 DEF In

\* Only the call is another: the disks and the memory stay as they are.
LEMMA ReadyCall ==
  ASSUME ColdInv, Ready, UNCHANGED <<storage, up, col, trees, image>>,
         \/ stack' \in {<<>>, <<BootFrame>>} /\ ReadsStored'
         \/ \E f \in Frames :
              /\ stack' \in {<<f>>, <<VerifierFrame, f>>} /\ reply'.answer = None
              /\ \/ f.op = "getImage" /\ reply'.name = f.name
                 \/ f.op = "imageDecomposer" /\ image[f.name].status = "none",
         ~Running("diskWriter")
  PROVE  ImageInv' /\ ReadsStored' /\ Ready'
<1>1. ImageInv /\ ReadsStored /\ AllThere /\ FragmentsKnown /\ up
  BY DEF ColdInv, Ready
<1>2. ~Running("diskWriter")'
  BY Calls DEF Running
<1>3. ImageInv'
  BY <1>1, <1>2, ImageKept DEF ImageInv, storage
<1>4. AllThere' /\ FragmentsKnown' /\ ReadsStored'
  BY <1>1, FilesKept DEF storage
<1>5. \/ stack' \in {<<>>, <<BootFrame>>}
      \/ \E f \in Frames :
           /\ stack' \in {<<f>>, <<VerifierFrame, f>>} /\ reply'.answer = None
           /\ \/ f.op = "getImage" /\ reply'.name = f.name
              \/ f.op = "imageDecomposer" /\ image'[f.name].status = "none"
  OBVIOUS
<1>6. QED
  BY <1>1, <1>3, <1>4, <1>5 DEF Ready

LEMMA RequestStep ==
  ASSUME Cold, ColdInv, Ready, Request
  PROVE  ImageInv' /\ ReadsStored' /\ Ready'
<1>1. stack = <<>> /\ ~Running("diskWriter")
  BY DEF Request, getImage, imageDecomposer, Idle, Running
<1>2. ASSUME NEW n \in Names, getImage(n) PROVE ImageInv' /\ ReadsStored' /\ Ready'
  <2> DEFINE f == [op |-> "getImage", name |-> n]
  <2>1. f \in Frames /\ f.op = "getImage" /\ f.name = n
    BY PushedFrames
  <2>2. /\ stack' = <<VerifierFrame, f>> /\ reply' = [name |-> n, answer |-> None]
        /\ UNCHANGED <<storage, up, col, trees, image>>
    BY <1>2 DEF getImage, memory
  <2> HIDE DEF f
  <2>3. reply'.answer = None /\ reply'.name = n
    BY <2>2
  <2>4. QED
    BY <1>1, <2>1, <2>2, <2>3, ReadyCall
<1>3. ASSUME NEW n \in Names, NEW p \in Payloads, imageDecomposer(n, p)
      PROVE  ImageInv' /\ ReadsStored' /\ Ready'
  <2> DEFINE f == [op |-> "imageDecomposer", name |-> n, payload |-> p]
  <2>1. f \in Frames /\ f.op = "imageDecomposer" /\ f.name = n
    BY PushedFrames
  <2>2. /\ stack' = <<VerifierFrame, f>> /\ reply' = [name |-> n, answer |-> None]
        /\ image[n].status = "none"
        /\ UNCHANGED <<storage, up, col, trees, image>>
    BY <1>3 DEF imageDecomposer, memory, Cold
  <2> HIDE DEF f
  <2>3. reply'.answer = None
    BY <2>2
  <2>4. QED
    BY <1>1, <2>1, <2>2, <2>3, ReadyCall
<1>4. QED
  BY <1>2, <1>3 DEF Request

\* The process stops between calls.
LEMMA StopStep ==
  ASSUME Cold, ColdInv, Ready, stack = <<>>, Die, UNCHANGED <<storage, image, reply>>
  PROVE  ImageInv' /\ ReadsStored' /\ Down'
<1>1. ~up' /\ stack' = <<>>
  BY DEF Die
<1>2. ~Running("diskWriter") /\ ~Running("diskWriter")'
  BY <1>1 DEF Running
<1>3. ImageInv'
  BY <1>1, <1>2, ImageKept DEF ColdInv, storage
<1>4. ReadsStored' /\ AllThere'
  BY FilesKept DEF ColdInv, Ready, storage
<1>5. QED
  BY <1>1, <1>3, <1>4 DEF Down, Rest

LEMMA EndBootStep ==
  ASSUME Cold, ColdInv, Ready, EndBoot
  PROVE  ImageInv' /\ ReadsStored' /\ Ready'
<1>1. /\ Head(stack).op = "boot" /\ stack # <<>> /\ stack' = Tail(stack)
      /\ UNCHANGED <<storage, up, col, trees, image, reply>>
  BY DEF EndBoot, Running, Return, memory
<1>2. stack = <<BootFrame>>
  BY <1>1, Calls DEF Ready
<1>3. stack' = <<>> /\ ~Running("diskWriter")
  BY <1>1, <1>2, Calls DEF Running
<1>4. ReadsStored'
  BY <1>1, FilesKept DEF ColdInv, storage
<1>5. QED
  BY <1>1, <1>3, <1>4, ReadyCall

\* The verification of a call finds all disks.
LEMMA VerifyStep ==
  ASSUME Cold, ColdInv, Ready, Head(stack).op = "diskVerifier", Verify
  PROVE  ImageInv' /\ ReadsStored' /\ Ready'
<1>1. PICK f \in Frames :
        /\ stack = <<VerifierFrame, f>> /\ reply.answer = None
        /\ \/ f.op = "getImage" /\ reply.name = f.name
           \/ f.op = "imageDecomposer" /\ image[f.name].status = "none"
  <2>1. stack # <<>>
    BY DEF Verify, VerifyNothing, VerifyAllGone, VerifyTooMany, reconstructDisk, Running
  <2>2. \A f \in Frames : stack = <<f>> => f.op = "diskVerifier"
    BY Calls
  <2>3. stack # <<BootFrame>>
    BY Calls
  <2>4. QED
    BY <2>1, <2>2, <2>3 DEF Ready
<1>2. dir = Disks
  BY DEF Ready, AllThere
<1>3. VerifyNothing
  BY <1>2, NothingLost
<1>4. /\ stack' = <<f>> /\ UNCHANGED <<storage, up, col, trees, image, reply>>
  BY <1>1, <1>3, Calls DEF VerifyNothing, Return, memory
<1>5. ~Running("diskWriter")
  BY <1>1, Calls DEF Running
<1>6. QED
  BY <1>1, <1>4, <1>5, ReadyCall

LEMMA ReadyTop ==
  ASSUME Ready, stack # <<>>, Head(stack).op \in {"getImage", "imageDecomposer"}
  PROVE  \E f \in Frames :
           /\ stack = <<f>> /\ Head(stack) = f /\ reply.answer = None
           /\ \/ f.op = "getImage" /\ reply.name = f.name
              \/ f.op = "imageDecomposer" /\ image[f.name].status = "none"
BY Calls DEF Ready

\* What getImage answers.
LEMMA AnswerFacts ==
  ASSUME Cold, ColdInv, Ready, Answer
  PROVE  \E f \in Frames :
           /\ stack = <<f>> /\ f.op = "getImage" /\ reply.name = f.name /\ f.name \in Names
           /\ image[f.name].status \in {"none", "stored"}
           /\ stack' = <<>> /\ UNCHANGED <<storage, up, col, trees, image>>
           /\ \E r : /\ reply' = [reply EXCEPT !.answer = r] /\ r # None
                     /\ f.name \in Stored => r = <<f.name, image[f.name].payload>>
                     /\ image[f.name].status = "none" => r = NotFound
<1>1. stack # <<>> /\ Head(stack).op = "getImage"
  BY DEF Answer, Running
<1>2. PICK f \in Frames : stack = <<f>> /\ Head(stack) = f /\ f.op = "getImage" /\ reply.name = f.name
  BY <1>1, ReadyTop
<1>3. f.name \in Names /\ ~Running("diskWriter")
  BY <1>1, <1>2, FrameFields DEF Running
<1>4. /\ TypeOK /\ FilesGood /\ PayloadInv /\ ImageInv /\ up /\ AllThere /\ FragmentsKnown
  BY DEF ColdInv, SpreadInv, Ready
<1>5. image[f.name].status \in {"none", "stored"}
  <2>1. image[f.name].status \in {"none", "partial", "stored", "mixed"}
    BY <1>3, <1>4 DEF TypeOK
  <2>2. QED
    BY <1>3, <1>4, <2>1 DEF ImageInv
<1>6. PICK r : /\ merge(f.name) = {r} /\ r \notin {Failed, Died, None}
               /\ f.name \in Stored => r = <<f.name, image[f.name].payload>>
               /\ image[f.name].status = "none" => r = NotFound
  <2>1. CASE image[f.name].status = "none"
    <3>1. merge(f.name) = {NotFound}
      BY <1>3, <1>4, <2>1, MergeNothing
    <3>2. f.name \notin Stored
      BY <2>1 DEF Stored
    <3>3. QED
      BY <2>1, <3>1, <3>2, ValuesAssumption
  <2>2. CASE image[f.name].status = "stored"
    <3>1. f.name \in Stored
      BY <1>3, <2>2 DEF Stored
    <3>2. ASSUME NEW d \in Disks PROVE Fragment(d, f.name) \in col /\ FragmentRight(d, f.name)
      <4>1. FragOf(image[f.name].parity, d) \in Slots(f.name, d)
        BY <1>3, <1>4, Places4
      <4>2. QED
        BY <1>4, <3>1, <4>1 DEF FragmentsKnown, AllThere, Whole, FragmentRight
    <3>3. merge(f.name) = {<<f.name, image[f.name].payload>>}
      BY <1>4, <3>1, <3>2, MergeRight
    <3>4. <<f.name, image[f.name].payload>> \in Pictures
      BY <1>3, <1>4, <2>2 DEF PayloadInv, Pictures
    <3>5. QED
      BY <2>2, <3>3, <3>4, ValuesAssumption
  <2>3. QED
    BY <1>5, <2>1, <2>2
<1>7. /\ reply' = [reply EXCEPT !.answer = r] /\ stack' = Tail(stack)
      /\ UNCHANGED <<up, col, trees, storage, image>>
  BY <1>2, <1>6 DEF Answer, Return, memory
<1>8. stack' = <<>>
  BY <1>2, <1>7, Calls
<1>9. QED
  BY <1>2, <1>3, <1>5, <1>6, <1>7, <1>8

LEMMA AnswerStep ==
  ASSUME Cold, ColdInv, Ready, Answer
  PROVE  ImageInv' /\ ReadsStored' /\ Ready'
<1>1. PICK f \in Frames :
        /\ stack = <<f>> /\ f.op = "getImage" /\ reply.name = f.name
        /\ stack' = <<>> /\ UNCHANGED <<storage, up, col, trees, image>>
        /\ \E r : /\ reply' = [reply EXCEPT !.answer = r]
                  /\ f.name \in Stored => r = <<f.name, image[f.name].payload>>
                  /\ image[f.name].status = "none" => r = NotFound
  BY AnswerFacts
<1>2. PICK r : /\ reply' = [reply EXCEPT !.answer = r]
               /\ f.name \in Stored => r = <<f.name, image[f.name].payload>>
               /\ image[f.name].status = "none" => r = NotFound
  BY <1>1
<1>3. reply'.name = f.name /\ reply'.answer = r
  BY <1>1, <1>2 DEF ColdInv, SpreadInv, TypeOK
<1>4. ReadsStored'
  <2>1. Stored' = Stored
    BY <1>1 DEF Stored
  <2>2. QED
    BY <1>1, <1>2, <1>3, <2>1 DEF ReadsStored
<1>5. ~Running("diskWriter")
  BY <1>1, Calls DEF Running
<1>6. QED
  BY <1>1, <1>4, <1>5, ReadyCall

\* diskWriter begins.
LEMMA StartStep ==
  ASSUME Cold, ColdInv, Ready, StartWriting
  PROVE  ImageInv' /\ ReadsStored' /\ Writing'
<1>1. stack # <<>> /\ Head(stack).op = "imageDecomposer"
  BY DEF StartWriting, Running
<1>2. PICK f \in Frames :
        /\ stack = <<f>> /\ Head(stack) = f /\ f.op = "imageDecomposer"
        /\ image[f.name].status = "none" /\ reply.answer = None
  BY <1>1, ReadyTop
<1>3. f.name \in Names /\ f.payload \in Payloads /\ ~Running("diskWriter")
  BY <1>1, <1>2, FrameFields DEF Running
<1>4. /\ TypeOK /\ ImageInv /\ up /\ AllThere /\ FragmentsKnown /\ c_disk \in 0..3
  BY DEF ColdInv, SpreadInv, Ready, TypeOK
<1> DEFINE e == [status |-> "partial", payload |-> f.payload, parity |-> c_disk]
<1>5. PICK w : w = [op |-> "diskWriter", name |-> f.name, payload |-> f.payload, todo |-> AllFiles]
  OBVIOUS
<1>6. /\ w \in Frames /\ w.op = "diskWriter" /\ w.name = f.name /\ w.payload = f.payload
      /\ w.todo = AllFiles
  BY <1>3, <1>4, <1>5, AllFilesType, PushedFrames
<1>7. /\ image' = [image EXCEPT ![f.name] = e]
      /\ stack' = <<w>> \o Tail(stack)
      /\ UNCHANGED <<storage, up, col, trees, reply>>
  BY <1>2, <1>5 DEF StartWriting, Replace, AllFiles, memory
<1>8. stack' = <<w>>
  BY <1>2, <1>7, Calls
<1>9. /\ image'[f.name] = e
      /\ \A n \in Names \ {f.name} : image'[n] = image[n]
  BY <1>3, <1>4, <1>7 DEF TypeOK
<1> HIDE DEF e
<1>10. /\ image'[f.name].status = "partial" /\ image'[f.name].payload = f.payload
       /\ image'[f.name].parity = c_disk
  BY <1>9 DEF e
<1>11. Stored' = Stored /\ f.name \notin Stored
  BY <1>2, <1>9, <1>10 DEF Stored
<1>12. \A n \in Stored : image'[n] = image[n]
  BY <1>9, <1>11 DEF Stored
<1>13. ImageInv'
  <2>1. Running("diskWriter")' /\ Head(stack)'.name = f.name
    BY <1>6, <1>8, Calls DEF Running
  <2>2. ASSUME NEW n \in Names
        PROVE  /\ image'[n].status # "mixed"
               /\ image'[n].status = "partial" <=> n = f.name
               /\ treeFile'[n] = IF n \in Stored' THEN <<n, image'[n].payload>> ELSE NoFile
    <3>1. CASE n = f.name
      BY <1>4, <1>7, <1>10, <1>11, <3>1 DEF ImageInv, storage
    <3>2. CASE n # f.name
      BY <1>3, <1>4, <1>7, <1>9, <1>11, <3>2 DEF ImageInv, storage
    <3>3. QED
      BY <3>1, <3>2
  <2>3. QED
    BY <1>4, <1>7, <1>11, <2>1, <2>2 DEF ImageInv
<1>14. AllThere' /\ FragmentsKnown'
  <2>1. ASSUME NEW d \in Disks PROVE Whole(d)'
    BY <1>4, <1>7, <1>11, <1>12 DEF AllThere, Whole, Right, Slots, storage
  <2>2. FragmentsKnown'
    BY <1>4, <1>7, <1>11, <1>12 DEF FragmentsKnown, Fragment
  <2>3. QED
    BY <1>4, <1>7, <2>1, <2>2 DEF AllThere, storage
<1>15. ASSUME NEW d \in Disks, NEW k \in FilesAt(w.name, d)' PROVE Done(w, d, k)'
  <2>1. k \in {0} \cup SlotsAt(c_disk, d)
    BY <1>6, <1>10 DEF FilesAt, Slots, SlotsAt
  <2>2. QED
    BY <1>4, <1>6, <2>1, AllFilesCover DEF Done
<1>16. Writing'
  BY <1>2, <1>4, <1>6, <1>7, <1>8, <1>10, <1>14, <1>15 DEF Writing
<1>17. QED
  BY <1>2, <1>7, <1>13, <1>16 DEF ReadsStored

-----------------------------------------------------------------------------
(* Writing.                                                                *)

LEMMA WritingTop ==
  ASSUME ColdInv, Writing, NEW f, f = Head(stack)
  PROVE  /\ f \in Frames /\ stack = <<f>> /\ f.op = "diskWriter" /\ Tail(stack) = <<>>
         /\ reply.answer = None /\ image[f.name].payload = f.payload
         /\ \A d \in Disks : \A k \in FilesAt(f.name, d) : Done(f, d, k)
         /\ f.name \in Names /\ f.payload \in Payloads /\ f.todo \in Seq(Disks \X PartNumbs)
         /\ image[f.name].status = "partial"
         /\ \A n \in Names : image[n].status = "partial" => n = f.name
         /\ Running("diskWriter")
<1>1. /\ f \in Frames /\ stack = <<f>> /\ f.op = "diskWriter"
      /\ reply.answer = None /\ image[f.name].payload = f.payload
      /\ \A d \in Disks : \A k \in FilesAt(f.name, d) : Done(f, d, k)
  BY Calls DEF Writing
<1>2. f.name \in Names /\ f.payload \in Payloads /\ f.todo \in Seq(Disks \X PartNumbs)
  BY <1>1, FrameFields
<1>3. Running("diskWriter") /\ Tail(stack) = <<>>
  BY <1>1, Calls DEF Running
<1>4. QED
  BY <1>1, <1>2, <1>3 DEF ColdInv, ImageInv

LEMMA WriteFileStep ==
  ASSUME Cold, ColdInv, Writing, WriteFile
  PROVE  ImageInv' /\ ReadsStored' /\ Writing'
<1>1. PICK f : f = Head(stack)
  OBVIOUS
<1>2. /\ f \in Frames /\ stack = <<f>> /\ f.op = "diskWriter" /\ Tail(stack) = <<>>
      /\ reply.answer = None /\ image[f.name].payload = f.payload
      /\ \A d \in Disks : \A k \in FilesAt(f.name, d) : Done(f, d, k)
      /\ f.name \in Names /\ f.payload \in Payloads /\ f.todo \in Seq(Disks \X PartNumbs)
      /\ image[f.name].status = "partial"
      /\ Running("diskWriter")
  BY <1>1, WritingTop
<1>3. /\ TypeOK /\ ImageInv /\ up /\ AllThere /\ FragmentsKnown /\ dir = Disks
      /\ file \in [Locs -> Contents]
  BY DEF ColdInv, SpreadInv, Writing, AllThere, TypeOK, Contents
<1>4. PICK l : l = WriterLoc(f)
  OBVIOUS
<1>5. PICK g : g = [f EXCEPT !.todo = Tail(@)]
  OBVIOUS
<1>6. f.todo # <<>> /\ l \in Locs /\ NameOf(l) = f.name
  <2>1. f.todo # <<>>
    BY <1>1 DEF WriteFile
  <2>2. Head(f.todo)[1] \in Disks /\ Head(f.todo)[2] \in PartNumbs
    BY <1>2, <2>1, HeadTailProperties
  <2>3. QED
    BY <1>2, <1>4, <2>1, <2>2, LocFields DEF WriterLoc
<1>7. /\ Put(l, Written(f.name, f.payload, NumbOf(l)))
      /\ col' = (IF NumbOf(l) \in StripNumbs THEN col ELSE col \cup {l})
      /\ stack' = <<g>> \o Tail(stack)
      /\ UNCHANGED <<dir, treeFile, up, trees, image, reply>>
  BY <1>1, <1>4, <1>5 DEF WriteFile, Replace
<1>8. file' = [file EXCEPT ![l] = Written(f.name, f.payload, NumbOf(l))]
  BY <1>3, <1>6, <1>7, LocFields DEF Put
<1>9. /\ g \in Frames /\ g.op = "diskWriter" /\ g.name = f.name /\ g.payload = f.payload
      /\ g.todo = Tail(f.todo)
  <2>1. f \in [op : {"diskWriter"}, name : Names, payload : Payloads,
               todo : Seq(Disks \X PartNumbs)]
    BY <1>2, FrameFields
  <2>2. g \in Frames
    BY <1>5, <1>6, <2>1, WriterFacts
  <2>3. QED
    BY <1>5, <2>1, <2>2
<1>10. stack' = <<g>>
  BY <1>2, <1>7, Calls
<1>11. ImageInv'
  <2>1. Running("diskWriter")' /\ Head(stack)'.name = f.name
    BY <1>9, <1>10, Calls DEF Running
  <2>2. Stored' = Stored
    BY <1>7 DEF Stored
  <2>3. Head(stack).name = f.name
    BY <1>1
  <2>4. QED
    BY <1>2, <1>3, <1>7, <2>1, <2>2, <2>3 DEF ImageInv
<1>12. Stored' = Stored /\ f.name \notin Stored
  BY <1>2, <1>7 DEF Stored
<1>13. ASSUME NEW e \in Disks PROVE Whole(e)'
  <2>1. ASSUME NEW n \in Stored, NEW k \in {0} \cup Slots(n, e)
        PROVE  file'[<<e, n, k>>] = file[<<e, n, k>>]
    <3>1. n \in Names /\ n # f.name
      BY <1>12 DEF Stored
    <3>2. k \in PartNumbs
      BY <1>3, <3>1, Places4, Numbers
    <3>3. <<e, n, k>> \in Locs /\ NameOf(<<e, n, k>>) = n
      BY <3>1, <3>2, LocFields
    <3>4. <<e, n, k>> # l
      BY <1>6, <3>1, <3>3
    <3>5. QED
      BY <1>3, <1>8, <3>3, <3>4
  <2>2. QED
    BY <1>3, <1>7, <1>12, <2>1 DEF AllThere, Whole, Right, Slots
<1>14. FragmentsKnown'
  BY <1>3, <1>7, <1>12 DEF FragmentsKnown, Fragment
<1>15. ASSUME NEW d \in Disks, NEW k \in FilesAt(g.name, d)' PROVE Done(g, d, k)'
  <2>1. k \in FilesAt(f.name, d)
    BY <1>7, <1>9 DEF FilesAt, Slots
  <2>2. <<d, f.name, k>> \in Locs
    BY <1>2, <1>3, <2>1, Places4
  <2>3. CASE l = <<d, f.name, k>>
    <3>1. NumbOf(l) = k
      BY <2>3, LocFields
    <3>2. file'[<<d, f.name, k>>] = Written(f.name, image'[f.name].payload, k)
      BY <1>2, <1>3, <1>6, <1>7, <1>8, <2>3, <3>1
    <3>3. k \in StripNumbs \/ l \in col'
      BY <1>7, <3>1
    <3>4. QED
      BY <1>9, <2>3, <3>2, <3>3 DEF Done, Right
  <2>4. CASE l # <<d, f.name, k>>
    <3>1. CASE \E j \in 1..Len(f.todo) : f.todo[j] = <<d, k>>
      <4>1. PICK j \in 1..Len(f.todo) : f.todo[j] = <<d, k>>
        BY <3>1
      <4>2. Len(f.todo) \in Nat /\ Head(f.todo) = f.todo[1]
        BY <1>2, <1>6, Pop
      <4>3. j # 1
        BY <1>4, <2>4, <4>1, <4>2 DEF WriterLoc
      <4>4. /\ Len(g.todo) = Len(f.todo) - 1
            /\ \A i \in 1..Len(g.todo) : g.todo[i] = f.todo[i + 1]
        BY <1>2, <1>6, <1>9, Pop
      <4>5. j - 1 \in 1..Len(g.todo) /\ g.todo[j - 1] = <<d, k>>
        BY <4>1, <4>2, <4>3, <4>4
      <4>6. QED
        BY <4>5 DEF Done
    <3>2. CASE Right(d, f.name, k) /\ (k \in StripNumbs \/ <<d, f.name, k>> \in col)
      <4>1. file'[<<d, f.name, k>>] = file[<<d, f.name, k>>]
        BY <1>3, <1>8, <2>2, <2>4
      <4>2. Right(d, g.name, k)'
        BY <1>7, <1>9, <3>2, <4>1 DEF Right
      <4>3. QED
        BY <1>7, <1>9, <3>2, <4>2 DEF Done
    <3>3. QED
      BY <1>2, <2>1, <3>1, <3>2 DEF Done
  <2>5. QED
    BY <2>3, <2>4
<1>16. Writing'
  BY <1>2, <1>3, <1>7, <1>9, <1>10, <1>13, <1>14, <1>15 DEF Writing, AllThere
<1>17. QED
  BY <1>2, <1>7, <1>11, <1>16 DEF ReadsStored

\* The image is stored.
LEMMA WriteTreeStep ==
  ASSUME Cold, ColdInv, Writing, WriteTree
  PROVE  ImageInv' /\ ReadsStored' /\ Ready'
<1>1. PICK f : f = Head(stack)
  OBVIOUS
<1>2. /\ f \in Frames /\ stack = <<f>> /\ f.op = "diskWriter" /\ Tail(stack) = <<>>
      /\ reply.answer = None /\ image[f.name].payload = f.payload
      /\ \A d \in Disks : \A k \in FilesAt(f.name, d) : Done(f, d, k)
      /\ f.name \in Names /\ f.payload \in Payloads /\ f.todo \in Seq(Disks \X PartNumbs)
      /\ image[f.name].status = "partial"
      /\ \A n \in Names : image[n].status = "partial" => n = f.name
  BY <1>1, WritingTop
<1>3. /\ TypeOK /\ ImageInv /\ up /\ AllThere /\ FragmentsKnown
      /\ treeFile \in [Names -> Pictures \cup {Junk, NoFile}]
      /\ image \in [Names -> [status : {"none", "partial", "stored", "mixed"},
                              payload : Payloads \cup {None}, parity : 0..3]]
  BY DEF ColdInv, SpreadInv, Writing, TypeOK
<1>4. /\ f.todo = <<>> /\ treeFile' = [treeFile EXCEPT ![f.name] = <<f.name, f.payload>>]
      /\ trees' = trees \cup {f.name} /\ stack' = <<>>
      /\ UNCHANGED <<dir, file, up, col, reply>>
  BY <1>1, <1>2 DEF WriteTree, Cold, Return
<1>5. image' = [image EXCEPT ![f.name].status = IF @ = "partial" THEN "stored" ELSE @]
  BY <1>1 DEF WriteTree
<1>6. /\ image'[f.name].status = "stored"
      /\ \A n \in Names : /\ image'[n].payload = image[n].payload
                          /\ image'[n].parity = image[n].parity
                          /\ n # f.name => image'[n] = image[n]
  BY <1>2, <1>3, <1>5
<1>7. Stored' = Stored \cup {f.name}
  <2>1. \A n \in Names \ {f.name} : image'[n].status = image[n].status
    BY <1>6
  <2>2. QED
    BY <1>2, <1>6, <2>1 DEF Stored
<1>8. ImageInv'
  <2>1. ~Running("diskWriter")'
    BY <1>4 DEF Running
  <2>2. ASSUME NEW n \in Names
        PROVE  /\ image'[n].status # "mixed" /\ image'[n].status # "partial"
               /\ treeFile'[n] = IF n \in Stored' THEN <<n, image'[n].payload>> ELSE NoFile
    <3>1. CASE n = f.name
      BY <1>2, <1>3, <1>4, <1>6, <1>7, <3>1
    <3>2. CASE n # f.name
      <4>1. image'[n] = image[n] /\ treeFile'[n] = treeFile[n]
        BY <1>2, <1>3, <1>4, <1>6, <3>2
      <4>2. QED
        BY <1>2, <1>3, <1>7, <3>2, <4>1 DEF ImageInv
    <3>3. QED
      BY <3>1, <3>2
  <2>3. QED
    BY <1>3, <1>4, <1>7, <2>1, <2>2 DEF ImageInv
<1>9. \A n \in Names, d \in Disks : Slots(n, d)' = Slots(n, d) /\ Fragment(d, n)' = Fragment(d, n)
  BY <1>6 DEF Slots, Fragment
<1>10. ASSUME NEW d \in Disks, NEW n \in Stored'
       PROVE  /\ \A k \in FilesAt(n, d) : Right(d, n, k)'
              /\ Fragment(d, n) \in col
  <2>1. CASE n = f.name
    <3>1. ASSUME NEW k \in FilesAt(n, d)
          PROVE  Right(d, n, k) /\ (k \in StripNumbs \/ <<d, n, k>> \in col)
      <4>1. Done(f, d, k)
        BY <1>2, <2>1
      <4>2. Len(f.todo) = 0
        BY <1>4
      <4>3. QED
        BY <2>1, <4>1, <4>2 DEF Done
    <3>2. FragOf(image[n].parity, d) \in FilesAt(n, d) /\ FragOf(image[n].parity, d) \notin StripNumbs
      BY <1>2, <1>3, <2>1, Places4 DEF FilesAt, StripNumbs
    <3>3. Fragment(d, n) \in col
      BY <3>1, <3>2 DEF Fragment
    <3>4. QED
      BY <1>2, <1>4, <1>6, <2>1, <3>1, <3>3 DEF Right
  <2>2. CASE n \in Stored
    <3>1. n \in Names
      BY <2>2 DEF Stored
    <3>2. \A k \in FilesAt(n, d) : Right(d, n, k)
      BY <1>3, <2>2 DEF AllThere, Whole, FilesAt
    <3>3. QED
      BY <1>3, <1>4, <1>6, <2>2, <3>1, <3>2 DEF Right, FragmentsKnown
  <2>3. QED
    BY <1>7, <2>1, <2>2
<1>11. \A n \in Stored' : n \in Names
  BY <1>2, <1>7 DEF Stored
<1>12. AllThere' /\ FragmentsKnown'
  BY <1>3, <1>4, <1>9, <1>10, <1>11 DEF AllThere, Whole, FilesAt, FragmentsKnown
<1>13. Ready'
  BY <1>3, <1>4, <1>12 DEF Ready
<1>14. QED
  BY <1>2, <1>4, <1>8, <1>13 DEF ReadsStored


-----------------------------------------------------------------------------
(* Repairing.                                                              *)

\* A step of a repair changes files of the lost disk and of names to do only.
LEMMA RepairKept ==
  ASSUME ColdInv, up, dir = Disks, SlotsKnown, NEW f \in Frames, f.op = "repair", Repaired(f),
         \A l \in Locs : DiskOf(l) # f.ref \/ NameOf(l) \notin f.names => file'[l] = file[l],
         UNCHANGED <<dir, treeFile, up, col, trees, image, reply>>,
         ~Running("diskWriter"), ~Running("diskWriter")'
  PROVE  /\ ImageInv' /\ ReadsStored' /\ up' /\ dir' = Disks /\ SlotsKnown'
         /\ Repaired(f)' /\ Stored' = Stored
         /\ \A d \in Disks : DataOn(d)' = DataOn(d)
         /\ \A d \in Disks, n \in Names :
              /\ Fragment(d, n)' = Fragment(d, n) /\ StripAt(d, n)' = StripAt(d, n)
              /\ FilesAt(n, d)' = FilesAt(n, d)
<1>1. /\ TypeOK /\ ImageInv /\ ReadsStored /\ f.ref \in Disks
  BY FrameFields DEF ColdInv, SpreadInv
<1>2. Stored' = Stored /\ ReadsStored'
  BY <1>1 DEF Stored, ReadsStored
<1>3. ImageInv'
  BY <1>1, ImageKept DEF ImageInv
<1>4. \A d \in Disks, n \in Names :
        /\ Slots(n, d)' = Slots(n, d)
        /\ Fragment(d, n)' = Fragment(d, n) /\ StripAt(d, n)' = StripAt(d, n)
        /\ FilesAt(n, d)' = FilesAt(n, d)
  BY DEF Slots, Fragment, StripAt, FilesAt
<1>5. \A d \in Disks : DataOn(d)' = DataOn(d)
  BY <1>2 DEF DataOn
<1>6. \A n \in Stored : n \in Names
  BY DEF Stored
<1>7. SlotsKnown'
  BY <1>2, <1>4, <1>6 DEF SlotsKnown
<1>8. ASSUME NEW d \in Disks, NEW n \in Stored, NEW k \in FilesAt(n, d),
             d # f.ref \/ n \notin f.names, Right(d, n, k)
      PROVE  Right(d, n, k)'
  <2>1. <<d, n, k>> \in Locs
    BY <1>1, <1>6, Places4
  <2>2. file'[<<d, n, k>>] = file[<<d, n, k>>]
    BY <1>8, <2>1, LocFields
  <2>3. QED
    BY <1>8, <2>2 DEF Right
<1>9. \A e \in Disks \ {f.ref} : Whole(e)'
  BY <1>2, <1>4, <1>6, <1>8 DEF Repaired, Whole, FilesAt
<1>10. \A n \in Stored \ f.names : RightOn(f.ref, n)'
  <2>1. ASSUME NEW n \in Stored \ f.names, NEW k \in FilesAt(n, f.ref)
        PROVE  Right(f.ref, n, k)'
    BY <1>1, <1>8 DEF Repaired, RightOn
  <2>2. \A n \in Stored \ f.names : FilesAt(n, f.ref)' = FilesAt(n, f.ref)
    BY <1>1, <1>4, <1>6
  <2>3. QED
    BY <2>1, <2>2 DEF RightOn
<1>11. Repaired(f)'
  BY <1>2, <1>9, <1>10 DEF Repaired
<1>12. QED
  BY <1>2, <1>3, <1>4, <1>5, <1>7, <1>11

\* A repair is the innermost call.
LEMMA RepairsTop ==
  ASSUME ColdInv, Repairs, NEW f, f = Head(stack), f.op = "repair"
  PROVE  /\ f \in Frames /\ stack = <<f, BootFrame>> /\ Tail(stack) = <<BootFrame>>
         /\ Repaired(f) /\ PassInv(f) /\ StripsDone(f)
         /\ f.ref \in Disks /\ f.names \subseteq Names /\ f.at \in {"info", "parts"}
         /\ f.parts \subseteq Locs /\ f.imgs \subseteq Locs
         /\ f \in RepairFrames /\ ~Running("diskWriter")
         /\ up /\ dir = Disks /\ SlotsKnown
         /\ TypeOK /\ FilesGood /\ PayloadInv /\ ImageInv /\ ReadsStored
<1>1. PICK g \in Frames :
        /\ g.op = "repair" /\ Repaired(g) /\ PassInv(g)
        /\ \/ stack = <<g, BootFrame>> /\ StripsDone(g)
           \/ \E h \in Frames :
                /\ h.op = "imageRestore" /\ Restoring(g, h.img)
                /\ stack \in {<<h, g, BootFrame>>, <<VerifierFrame, h, g, BootFrame>>}
  BY DEF Repairs
<1>2. stack = <<g, BootFrame>> /\ StripsDone(g) /\ f = g
  <2>1. ASSUME NEW h \in Frames, h.op = "imageRestore",
               stack \in {<<h, g, BootFrame>>, <<VerifierFrame, h, g, BootFrame>>}
        PROVE  FALSE
    <3>1. CASE stack = <<h, g, BootFrame>>
      BY <2>1, <3>1, Calls
    <3>2. CASE stack = <<VerifierFrame, h, g, BootFrame>>
      BY <3>2, Calls
    <3>3. QED
      BY <2>1, <3>1, <3>2
  <2>2. QED
    BY <1>1, <2>1, Calls
<1>3. /\ Tail(stack) = <<BootFrame>> /\ ~Running("diskWriter")
  BY <1>1, <1>2, Calls DEF Running
<1>4. f \in RepairFrames /\ f.ref \in Disks /\ f.names \subseteq Names
      /\ f.at \in {"info", "parts"} /\ f.parts \subseteq Locs /\ f.imgs \subseteq Locs
  BY <1>1, <1>2, FrameFields DEF RepairFrames
<1>5. QED
  BY <1>1, <1>2, <1>3, <1>4 DEF Repairs, ColdInv, SpreadInv

LEMMA OneLeast ==
  ASSUME NEW S \in SUBSET Names, NEW n, NEW m, IsLeast(n, S), IsLeast(m, S)
  PROVE  n = m
<1>1. n \in Int /\ m \in Int /\ n <= m /\ m <= n
  BY NamesAssumption DEF IsLeast, Names
<1>2. QED
  BY <1>1

\* The parts and the strips registered on a disk.
LEMMA PartsOf ==
  ASSUME TypeOK, FilesGood, ImageInv, SlotsKnown, ~Running("diskWriter"), NEW d \in Disks
  PROVE  /\ \A l \in Column(d) : NumbOf(l) \in 1..3 =>
              NameOf(l) \in DataOn(d) /\ l = Fragment(d, NameOf(l))
         /\ \A l \in Column(d) : NumbOf(l) \in StripNumbs =>
              NameOf(l) \in DataOn(d) /\ l = StripAt(d, NameOf(l))
         /\ \A n \in DataOn(d) :
              /\ Fragment(d, n) \in Column(d) /\ NumbOf(Fragment(d, n)) \in 1..3
              /\ StripAt(d, n) \in Column(d) /\ NumbOf(StripAt(d, n)) \in StripNumbs
              /\ NameOf(Fragment(d, n)) = n /\ NameOf(StripAt(d, n)) = n
<1>1. ASSUME NEW l \in Column(d), NumbOf(l) # 0
      PROVE  /\ NameOf(l) \in Stored /\ NameOf(l) \in Names
             /\ NumbOf(l) \in Slots(NameOf(l), d)
             /\ l = <<d, NameOf(l), NumbOf(l)>>
  <2>1. l \in Locs /\ l \in col /\ DiskOf(l) = d
    BY DEF Column, TypeOK
  <2>2. NumbOf(l) \in FilesAt(NameOf(l), d) /\ image[NameOf(l)].status \in {"partial", "stored"}
    BY <2>1, FilePlace
  <2>3. NameOf(l) \in Names /\ l = <<d, NameOf(l), NumbOf(l)>>
    BY <2>1, LocFields
  <2>4. image[NameOf(l)].status # "partial"
    BY <2>3 DEF ImageInv
  <2>5. QED
    BY <1>1, <2>2, <2>3, <2>4 DEF Stored, FilesAt
<1>2. ASSUME NEW l \in Column(d), NumbOf(l) \in 1..3 \cup StripNumbs
      PROVE  /\ NameOf(l) \in DataOn(d)
             /\ NumbOf(l) \in 1..3 => l = Fragment(d, NameOf(l))
             /\ NumbOf(l) \in StripNumbs => l = StripAt(d, NameOf(l))
  <2>1. NumbOf(l) # 0
    BY <1>2 DEF StripNumbs
  <2>2. /\ NameOf(l) \in Stored /\ NameOf(l) \in Names
        /\ NumbOf(l) \in Slots(NameOf(l), d)
        /\ l = <<d, NameOf(l), NumbOf(l)>>
    BY <1>1, <2>1
  <2> DEFINE F == FragOf(image[NameOf(l)].parity, d)
  <2>3. F \in 1..4 /\ (NumbOf(l) = F \/ (NumbOf(l) = 50 + F /\ F # 4))
    BY <2>2, Places4
  <2>4. DataOn(d) = {n \in Stored : FragOf(image[n].parity, d) # 4}
        /\ Fragment(d, NameOf(l)) = <<d, NameOf(l), F>> /\ StripAt(d, NameOf(l)) = <<d, NameOf(l), 50 + F>>
    BY DEF DataOn, Fragment, StripAt
  <2>5. F # 4 => NameOf(l) \in DataOn(d)
    BY <2>2, <2>4
  <2> HIDE DEF F
  <2>6. F # 4 /\ (NumbOf(l) \in 1..3 => NumbOf(l) = F) /\ (NumbOf(l) \in StripNumbs => NumbOf(l) = 50 + F)
    BY <1>2, <2>3 DEF StripNumbs
  <2>7. QED
    BY <2>2, <2>4, <2>5, <2>6
<1>3. ASSUME NEW n \in DataOn(d)
      PROVE  /\ Fragment(d, n) \in Column(d) /\ NumbOf(Fragment(d, n)) \in 1..3
             /\ StripAt(d, n) \in Column(d) /\ NumbOf(StripAt(d, n)) \in StripNumbs
             /\ NameOf(Fragment(d, n)) = n /\ NameOf(StripAt(d, n)) = n
  <2> DEFINE F == FragOf(image[n].parity, d)
  <2>1. n \in Stored /\ n \in Names /\ F # 4
    BY DEF DataOn, Stored
  <2>2. F \in Slots(n, d) /\ F \in 1..3 /\ 50 + F \in Slots(n, d)
    BY <2>1, Places4
  <2>3. <<d, n, F>> \in col /\ <<d, n, 50 + F>> \in col
    BY <2>1, <2>2 DEF SlotsKnown
  <2>4. Fragment(d, n) = <<d, n, F>> /\ StripAt(d, n) = <<d, n, 50 + F>>
    BY DEF Fragment, StripAt
  <2>5. 50 + F \in StripNumbs
    BY <2>2 DEF StripNumbs
  <2> HIDE DEF F
  <2>6. QED
    BY <2>2, <2>3, <2>4, <2>5, LocFields DEF Column
<1>4. QED
  BY <1>2, <1>3

LEMMA RepairInfoStep ==
  ASSUME Cold, ColdInv, Repairs, Head(stack).op = "repair", RepairInfo
  PROVE  ImageInv' /\ ReadsStored' /\ Repairs'
<1>1. PICK f : f = Head(stack)
  OBVIOUS
<1>2. /\ f \in Frames /\ f.op = "repair" /\ Tail(stack) = <<BootFrame>>
      /\ Repaired(f) /\ f.ref \in Disks /\ f.names \subseteq Names
      /\ f \in RepairFrames /\ ~Running("diskWriter")
      /\ up /\ dir = Disks /\ SlotsKnown
      /\ TypeOK /\ FilesGood /\ PayloadInv /\ ImageInv
  BY <1>1, RepairsTop
<1> DEFINE P == {l \in Column(f.ref) : NumbOf(l) \in 1..3}
           Q == {l \in Column(f.ref) : NumbOf(l) \in StripNumbs}
<1>3. PICK n \in f.names :
        /\ IsLeast(n, f.names)
        /\ Put(<<f.ref, n, 0>>, Existing(<<Ante(f.ref), n, 0>>))
        /\ stack' = <<[f EXCEPT !.at = "parts", !.parts = P, !.imgs = Q]>> \o <<BootFrame>>
        /\ UNCHANGED <<dir, treeFile, up, col, trees, image, reply>>
  BY <1>1, <1>2 DEF RepairInfo, Replace, memory
<1>4. PICK g : g = [f EXCEPT !.at = "parts", !.parts = P, !.imgs = Q]
  OBVIOUS
<1>5. P \subseteq Locs /\ Q \subseteq Locs
  BY <1>2 DEF Column, TypeOK
<1>6. /\ g \in Frames /\ g.op = "repair" /\ g.ref = f.ref /\ g.names = f.names
      /\ g.at = "parts" /\ g.parts = P /\ g.imgs = Q
  <2> HIDE DEF P, Q
  <2>1. g \in RepairFrames /\ g.op = "repair" /\ g.ref = f.ref /\ g.names = f.names
        /\ g.at = "parts" /\ g.parts = P /\ g.imgs = Q
    BY <1>2, <1>4, <1>5 DEF RepairFrames
  <2>2. QED
    BY <2>1, RepairFramesFrames
<1>7. n \in Stored /\ n \in Names
  BY <1>2 DEF Repaired
<1> HIDE DEF P, Q
<1>8. stack' = <<g, BootFrame>> /\ ~Running("diskWriter")'
  <2>1. stack' = <<g, BootFrame>>
    BY <1>3, <1>4, Concats
  <2>2. QED
    BY <1>6, <2>1, Calls DEF Running
<1>9. Existing(<<Ante(f.ref), n, 0>>) = Written(n, image[n].payload, 0)
  <2>1. Ante(f.ref) \in Disks \ {f.ref}
    BY <1>2 DEF Ante, Disks
  <2>2. Right(Ante(f.ref), n, 0) /\ 0 \in FilesAt(n, Ante(f.ref))
    BY <1>2, <1>7, <2>1 DEF Repaired, Whole, FilesAt
  <2>3. /\ file[<<Ante(f.ref), n, 0>>] # NoFile
        /\ file[<<Ante(f.ref), n, 0>>] = Written(n, image[n].payload, 0)
    BY <1>2, <1>7, <2>1, <2>2, RightExists
  <2>4. QED
    BY <2>3 DEF Existing
<1>10. <<f.ref, n, 0>> \in Locs /\ DiskOf(<<f.ref, n, 0>>) = f.ref /\ NameOf(<<f.ref, n, 0>>) = n
  BY <1>2, <1>7, LocFields, Numbers
<1>11. file' = [file EXCEPT ![<<f.ref, n, 0>>] = Written(n, image[n].payload, 0)]
  BY <1>2, <1>3, <1>9, <1>10 DEF Put
<1>12. Right(f.ref, n, 0)'
  BY <1>2, <1>3, <1>10, <1>11 DEF Right, TypeOK
<1>13. \A l \in Locs : DiskOf(l) # f.ref \/ NameOf(l) \notin f.names => file'[l] = file[l]
  BY <1>2, <1>10, <1>11
<1>14. /\ ImageInv' /\ ReadsStored' /\ up' /\ dir' = Disks /\ SlotsKnown'
       /\ Repaired(f)' /\ Stored' = Stored
       /\ \A d \in Disks : DataOn(d)' = DataOn(d)
       /\ \A d \in Disks, m \in Names :
            Fragment(d, m)' = Fragment(d, m) /\ StripAt(d, m)' = StripAt(d, m)
  BY <1>2, <1>3, <1>8, <1>13, RepairKept
<1>15. /\ \A l \in P : NameOf(l) \in DataOn(f.ref) /\ l = Fragment(f.ref, NameOf(l))
       /\ \A l \in Q : NameOf(l) \in DataOn(f.ref) /\ l = StripAt(f.ref, NameOf(l))
       /\ \A m \in DataOn(f.ref) :
            /\ Fragment(f.ref, m) \in P /\ NameOf(Fragment(f.ref, m)) = m
            /\ StripAt(f.ref, m) \in Q /\ NameOf(StripAt(f.ref, m)) = m
  BY <1>2, PartsOf DEF P, Q
<1>16. {NameOf(l) : l \in P} = {NameOf(l) : l \in Q}
  <2>1. \A l \in P : \E k \in Q : NameOf(k) = NameOf(l)
    BY <1>15
  <2>2. \A l \in Q : \E k \in P : NameOf(k) = NameOf(l)
    BY <1>15
  <2>3. QED
    BY <2>1, <2>2
<1>17. \A m \in DataOn(f.ref) : m \in Names
  BY DEF DataOn, Stored
<1>18. Repaired(g)'
  BY <1>6, <1>14 DEF Repaired
<1>19. PassInv(g)'
  <2>1. \A m \in g.names : IsLeast(m, g.names) => Right(g.ref, m, 0)'
    BY <1>2, <1>3, <1>6, <1>12, OneLeast
  <2>2. \A l \in g.parts : NameOf(l) \in DataOn(g.ref)' /\ l = Fragment(g.ref, NameOf(l))'
    BY <1>2, <1>6, <1>14, <1>15, <1>17
  <2>3. \A l \in g.imgs : NameOf(l) \in DataOn(g.ref)' /\ l = StripAt(g.ref, NameOf(l))'
    BY <1>2, <1>6, <1>14, <1>15, <1>17
  <2>4. \A m \in DataOn(g.ref)' : Fragment(g.ref, m)' \in g.parts
    BY <1>2, <1>6, <1>14, <1>15, <1>17
  <2>5. g.names # {}
    BY <1>3, <1>6
  <2>6. QED
    BY <1>6, <1>16, <2>1, <2>2, <2>3, <2>4, <2>5 DEF PassInv
<1>20. StripsDone(g)'
  <2>1. \A m \in DataOn(g.ref)' : Fragment(g.ref, m)' \in g.parts
    BY <1>2, <1>6, <1>14, <1>15, <1>17
  <2>2. QED
    BY <2>1 DEF StripsDone
<1>21. QED
  BY <1>6, <1>8, <1>14, <1>18, <1>19, <1>20 DEF Repairs

\* While the part at the head is of this name the strip at its index is too.
LEMMA SameIndex ==
  ASSUME ColdInv, Repairs, NEW f, f = Head(stack), f.op = "repair", f.at = "parts",
         NEW l \in f.parts, IsFirst(l, f.parts)
  PROVE  /\ f.imgs # {}
         /\ \A m \in f.imgs : IsFirst(m, f.imgs) => NameOf(m) = NameOf(l)
<1>1. /\ f.ref \in Disks /\ f.parts \subseteq Locs /\ f.imgs \subseteq Locs
      /\ PassInv(f)
  BY RepairsTop
<1>2. /\ \A k \in f.parts : NameOf(k) \in DataOn(f.ref) /\ k = Fragment(f.ref, NameOf(k))
      /\ \A k \in f.imgs : NameOf(k) \in DataOn(f.ref) /\ k = StripAt(f.ref, NameOf(k))
      /\ {NameOf(k) : k \in f.parts} = {NameOf(k) : k \in f.imgs}
  BY <1>1 DEF PassInv
<1>3. f.imgs # {}
  BY <1>2
<1>4. \A j, k \in Locs :
        DiskOf(j) = DiskOf(k) /\ NameOf(j) # NameOf(k) /\ Precedes(j, k)
          => FileOrder[NameOf(j)] < FileOrder[NameOf(k)]
  <2>1. \A j \in Locs : DiskOf(j) \in Int
    BY LocFields DEF Disks
  <2>2. QED
    BY <2>1 DEF Precedes
<1>5. \A k \in f.parts \cup f.imgs : k \in Locs /\ DiskOf(k) = f.ref
  <2>1. \A k \in f.parts \cup f.imgs : DiskOf(k) = f.ref
    BY <1>2 DEF Fragment, StripAt, DiskOf
  <2>2. QED
    BY <1>1, <2>1
<1>6. ASSUME NEW m \in f.imgs, IsFirst(m, f.imgs), NameOf(m) # NameOf(l) PROVE FALSE
  <2>1. PICK j \in f.parts : NameOf(j) = NameOf(m)
    BY <1>2
  <2>2. PICK k \in f.imgs : NameOf(k) = NameOf(l)
    BY <1>2
  <2>3. Precedes(l, j) /\ Precedes(m, k)
    BY <1>6, <2>1, <2>2 DEF IsFirst
  <2>4. FileOrder[NameOf(l)] < FileOrder[NameOf(m)] /\ FileOrder[NameOf(m)] < FileOrder[NameOf(l)]
    BY <1>4, <1>5, <1>6, <2>1, <2>2, <2>3
  <2>5. FileOrder[NameOf(l)] \in Int /\ FileOrder[NameOf(m)] \in Int
    BY <1>5, LocFields, FileOrderAssumption, NamesAssumption DEF Names
  <2>6. QED
    BY <2>4, <2>5
<1>7. QED
  BY <1>3, <1>6

\* What the loop has passed, a part with its strip, leaves of the others what
\* was known of them.
LEMMA LoopPassed ==
  ASSUME ColdInv, Repairs, NEW f, f = Head(stack), f.op = "repair", f.at = "parts",
         NEW l \in f.parts, NEW m \in f.imgs, NameOf(m) = NameOf(l)
  PROVE  /\ \A k \in f.parts \ {l} : \E j \in f.imgs \ {m} : NameOf(j) = NameOf(k)
         /\ \A k \in f.imgs \ {m} : \E j \in f.parts \ {l} : NameOf(j) = NameOf(k)
         /\ \A n \in DataOn(f.ref) :
              Fragment(f.ref, n) = l => n = NameOf(l)
<1>1. PassInv(f)
  BY RepairsTop
<1>2. /\ \A k \in f.parts : k = Fragment(f.ref, NameOf(k))
      /\ \A k \in f.imgs : k = StripAt(f.ref, NameOf(k))
      /\ {NameOf(k) : k \in f.parts} = {NameOf(k) : k \in f.imgs}
  BY <1>1 DEF PassInv
<1>3. /\ \A k \in f.parts \ {l} : NameOf(k) # NameOf(l)
      /\ \A k \in f.imgs \ {m} : NameOf(k) # NameOf(l)
  BY <1>2
<1>4. ASSUME NEW k \in f.parts \ {l} PROVE \E j \in f.imgs \ {m} : NameOf(j) = NameOf(k)
  <2>1. PICK j \in f.imgs : NameOf(j) = NameOf(k)
    BY <1>2
  <2>2. QED
    BY <1>3, <2>1
<1>5. ASSUME NEW k \in f.imgs \ {m} PROVE \E j \in f.parts \ {l} : NameOf(j) = NameOf(k)
  <2>1. PICK j \in f.parts : NameOf(j) = NameOf(k)
    BY <1>2
  <2>2. QED
    BY <1>3, <2>1
<1>6. \A n \in DataOn(f.ref) : Fragment(f.ref, n) = l => n = NameOf(l)
  BY LocFields DEF Fragment
<1>7. QED
  BY <1>4, <1>5, <1>6

LEMMA RepairPartStep ==
  ASSUME Cold, ColdInv, Repairs, Head(stack).op = "repair", RepairPart
  PROVE  ImageInv' /\ ReadsStored' /\ Repairs'
<1>1. PICK f : f = Head(stack)
  OBVIOUS
<1>2. /\ f \in Frames /\ f \in RepairFrames /\ f.op = "repair" /\ Tail(stack) = <<BootFrame>>
      /\ Repaired(f) /\ PassInv(f) /\ StripsDone(f) /\ f.ref \in Disks /\ f.names \subseteq Names
      /\ f.parts \subseteq Locs /\ f.imgs \subseteq Locs
      /\ ~Running("diskWriter") /\ up /\ dir = Disks /\ SlotsKnown
      /\ TypeOK /\ FilesGood /\ PayloadInv /\ ImageInv
  BY <1>1, RepairsTop
<1>3. PICK n \in f.names, l \in f.parts :
        /\ IsLeast(n, f.names) /\ IsFirst(l, f.parts) /\ f.at = "parts"
        /\ \/ NameOf(l) = n /\ XORrecovery(l) = {}
           \/ /\ IF NameOf(l) = n THEN \E c \in XORrecovery(l) : Put(l, c)
                                  ELSE UNCHANGED file
              /\ \/ f.imgs = {}
                 \/ \E m \in f.imgs :
                      /\ IsFirst(m, f.imgs)
                      /\ stack' =
                           (IF NameOf(m) = n
                            THEN <<VerifierFrame, [op |-> "imageRestore", img |-> m]>>
                            ELSE <<>>)
                           \o <<[f EXCEPT !.parts = @ \ {l}, !.imgs = @ \ {m}]>>
                           \o <<BootFrame>>
                      /\ UNCHANGED <<memory, reply>>
        /\ UNCHANGED <<dir, treeFile, image, faults>>
  BY <1>1, <1>2 DEF RepairPart, Repairing
<1>4. /\ n \in Stored /\ n \in Names /\ l \in Locs
      /\ NameOf(l) \in DataOn(f.ref) /\ l = Fragment(f.ref, NameOf(l)) /\ Right(f.ref, n, 0)
      /\ NameOf(l) \in Names
  <2>1. NameOf(l) \in DataOn(f.ref) /\ l = Fragment(f.ref, NameOf(l)) /\ Right(f.ref, n, 0)
    BY <1>2, <1>3 DEF PassInv
  <2>2. QED
    BY <1>2, <1>3, <2>1 DEF Repaired, DataOn, Stored
<1>5. NameOf(l) = n =>
        XORrecovery(l) = {Written(n, image[n].payload, FragOf(image[n].parity, f.ref))}
  <2>1. ASSUME NEW e \in Disks \ {f.ref} PROVE FragmentRight(e, n) /\ Fragment(e, n) \in col
    <3>1. FragOf(image[n].parity, e) \in Slots(n, e)
      BY <1>2, <1>4, Places4
    <3>2. QED
      BY <1>2, <1>4, <3>1 DEF Repaired, Whole, FragmentRight, SlotsKnown, Fragment
  <2>2. XORrecovery(Fragment(f.ref, n)) = {Written(n, image[n].payload, FragOf(image[n].parity, f.ref))}
    BY <1>2, <1>4, <2>1, RecoveryWorks
  <2>3. QED
    BY <1>4, <2>2
<1>6. /\ f.imgs # {}
      /\ \A m \in f.imgs : IsFirst(m, f.imgs) => NameOf(m) = NameOf(l)
  BY <1>1, <1>2, <1>3, SameIndex
<1>7. PICK m \in f.imgs :
        /\ IsFirst(m, f.imgs) /\ NameOf(m) = NameOf(l)
        /\ stack' = (IF NameOf(m) = n
                     THEN <<VerifierFrame, [op |-> "imageRestore", img |-> m]>>
                     ELSE <<>>)
                    \o <<[f EXCEPT !.parts = @ \ {l}, !.imgs = @ \ {m}]>>
                    \o <<BootFrame>>
        /\ UNCHANGED <<up, col, trees, reply>>
        /\ IF NameOf(l) = n THEN \E c \in XORrecovery(l) : Put(l, c) ELSE UNCHANGED file
  BY <1>3, <1>5, <1>6 DEF memory
<1>8. PICK g : g = [f EXCEPT !.parts = @ \ {l}, !.imgs = @ \ {m}]
  OBVIOUS
<1>9. /\ g \in Frames /\ g.op = "repair" /\ g.ref = f.ref /\ g.names = f.names
      /\ g.at = "parts" /\ g.parts = f.parts \ {l} /\ g.imgs = f.imgs \ {m}
      /\ {NameOf(k) : k \in g.parts} = {NameOf(k) : k \in g.imgs}
      /\ \A o \in DataOn(f.ref) :
           Fragment(f.ref, o) \notin g.parts => o = NameOf(l) \/ Fragment(f.ref, o) \notin f.parts
  <2>1. /\ g \in RepairFrames /\ g.op = "repair" /\ g.ref = f.ref /\ g.names = f.names
        /\ g.at = "parts" /\ g.parts = f.parts \ {l} /\ g.imgs = f.imgs \ {m}
    BY <1>2, <1>3, <1>8 DEF RepairFrames
  <2>2. f = Head(stack) /\ f.op = "repair" /\ f.at = "parts" /\ NameOf(m) = NameOf(l)
    BY <1>1, <1>2, <1>3, <1>7
  <2>3. /\ \A k \in f.parts \ {l} : \E j \in f.imgs \ {m} : NameOf(j) = NameOf(k)
        /\ \A k \in f.imgs \ {m} : \E j \in f.parts \ {l} : NameOf(j) = NameOf(k)
        /\ \A o \in DataOn(f.ref) : Fragment(f.ref, o) = l => o = NameOf(l)
    BY <2>2, LoopPassed
  <2>4. {NameOf(k) : k \in g.parts} = {NameOf(k) : k \in g.imgs}
    BY <2>1, <2>3
  <2>5. QED
    BY <2>1, <2>3, <2>4, RepairFramesFrames
<1>10. PICK r : r = [op |-> "imageRestore", img |-> m]
  OBVIOUS
<1>11. r \in Frames /\ r.op = "imageRestore" /\ r.img = m
  BY <1>2, <1>10, PushedFrames
<1>12. /\ NameOf(l) = n => stack' = <<VerifierFrame, r, g, BootFrame>>
       /\ NameOf(l) # n => stack' = <<g, BootFrame>>
  <2>1. stack' = (IF NameOf(l) = n THEN <<VerifierFrame, r>> ELSE <<>>) \o <<g>> \o <<BootFrame>>
    BY <1>7, <1>8, <1>10
  <2>2. CASE NameOf(l) = n
    BY <2>1, <2>2, Concats
  <2>3. CASE NameOf(l) # n
    BY <2>1, <2>3, Concats
  <2>4. QED
    BY <2>2, <2>3
<1>13. ~Running("diskWriter")'
  BY <1>9, <1>11, <1>12, Calls DEF Running
<1>14. /\ NameOf(l) # n => file' = file
       /\ NameOf(l) = n =>
            file' = [file EXCEPT ![l] = Written(n, image[n].payload, FragOf(image[n].parity, f.ref))]
  <2>1. NameOf(l) # n => file' = file
    BY <1>7
  <2>2. ASSUME NameOf(l) = n
        PROVE  file' = [file EXCEPT ![l] = Written(n, image[n].payload, FragOf(image[n].parity, f.ref))]
    <3>1. \E c \in XORrecovery(l) : Put(l, c)
      BY <1>7, <2>2
    <3>2. Put(l, Written(n, image[n].payload, FragOf(image[n].parity, f.ref)))
      BY <1>5, <2>2, <3>1
    <3>3. QED
      BY <1>2, <1>4, <3>2, LocFields DEF Put
  <2>3. QED
    BY <2>1, <2>2
<1>15. \A k \in Locs : k # l \/ NameOf(l) # n => file'[k] = file[k]
  BY <1>2, <1>14 DEF TypeOK
<1>16. DiskOf(l) = f.ref
  BY <1>4 DEF Fragment, DiskOf
<1>17. \A k \in Locs : DiskOf(k) # f.ref \/ NameOf(k) \notin f.names => file'[k] = file[k]
  BY <1>15, <1>16
<1>18. /\ ImageInv' /\ ReadsStored' /\ up' /\ dir' = Disks /\ SlotsKnown'
       /\ Repaired(f)' /\ Stored' = Stored
       /\ \A d \in Disks : DataOn(d)' = DataOn(d)
       /\ \A d \in Disks, o \in Names :
            Fragment(d, o)' = Fragment(d, o) /\ StripAt(d, o)' = StripAt(d, o)
  BY <1>2, <1>3, <1>7, <1>13, <1>17, RepairKept
<1>19. Repaired(g)'
  BY <1>9, <1>18 DEF Repaired
<1>20. \A o \in DataOn(f.ref) : o \in Names /\ o \in Stored
  BY DEF DataOn, Stored
<1>21. Right(f.ref, n, 0)'
  <2>1. <<f.ref, n, 0>> \in Locs /\ <<f.ref, n, 0>> # l
    <3>1. NumbOf(l) \in 1..4
      BY <1>2, <1>4, Places4 DEF Fragment, NumbOf
    <3>2. QED
      BY <1>2, <1>4, <3>1, LocFields, Numbers
  <2>2. QED
    BY <1>3, <1>4, <1>15, <2>1 DEF Right
<1>22. ASSUME NEW o \in DataOn(f.ref), IsLeast(o, f.names), Fragment(f.ref, o) \notin g.parts
       PROVE  o = n /\ FragmentRight(f.ref, o)'
  <2>1. o = n
    BY <1>2, <1>3, <1>22, OneLeast
  <2>2. CASE NameOf(l) = n
    <3>1. file'[l] = Written(n, image[n].payload, FragOf(image[n].parity, f.ref))
      BY <1>2, <1>4, <1>14, <2>2 DEF TypeOK
    <3>2. QED
      BY <1>3, <1>4, <2>1, <2>2, <3>1 DEF FragmentRight, Right, Fragment
  <2>3. CASE NameOf(l) # n
    <3>1. FragmentRight(f.ref, o)
      BY <1>2, <1>3, <1>9, <1>22, <2>1, <2>3 DEF PassInv
    <3>2. QED
      BY <1>3, <1>14, <2>1, <2>3, <3>1 DEF FragmentRight, Right
  <2>4. QED
    BY <2>1, <2>2, <2>3
<1>23. PassInv(g)'
  <2>1. \A o \in g.names : IsLeast(o, g.names) => Right(g.ref, o, 0)'
    BY <1>2, <1>3, <1>9, <1>21, OneLeast
  <2>2. \A k \in g.parts : NameOf(k) \in DataOn(f.ref) /\ k = Fragment(f.ref, NameOf(k))
    BY <1>2, <1>3, <1>9 DEF PassInv
  <2>3. \A k \in g.imgs : NameOf(k) \in DataOn(f.ref) /\ k = StripAt(f.ref, NameOf(k))
    BY <1>2, <1>3, <1>9 DEF PassInv
  <2>4. \A k \in g.parts : NameOf(k) \in DataOn(g.ref)' /\ k = Fragment(g.ref, NameOf(k))'
    BY <1>2, <1>9, <1>18, <1>20, <2>2
  <2>5. \A k \in g.imgs : NameOf(k) \in DataOn(g.ref)' /\ k = StripAt(g.ref, NameOf(k))'
    BY <1>2, <1>9, <1>18, <1>20, <2>3
  <2>6. \A o \in DataOn(g.ref)' :
          IsLeast(o, g.names) /\ Fragment(g.ref, o)' \notin g.parts => FragmentRight(g.ref, o)'
    BY <1>2, <1>9, <1>18, <1>20, <1>22
  <2>7. g.names # {}
    BY <1>3, <1>9
  <2>8. QED
    BY <1>9, <2>1, <2>4, <2>5, <2>6, <2>7 DEF PassInv
<1>24. CASE NameOf(l) = n
  <2>1. NameOf(m) = n /\ n \in DataOn(f.ref) /\ m = StripAt(f.ref, n)
    BY <1>2, <1>3, <1>4, <1>7, <1>24 DEF PassInv
  <2>2. Fragment(f.ref, n) \notin g.parts
    BY <1>4, <1>9, <1>24
  <2>3. n \in DataOn(g.ref)' /\ m = StripAt(g.ref, n)' /\ Fragment(g.ref, n)' \notin g.parts
    BY <1>2, <1>4, <1>9, <1>18, <2>1, <2>2
  <2>4. Restoring(g, r.img)'
    BY <1>3, <1>9, <1>11, <2>1, <2>3 DEF Restoring
  <2>5. QED
    BY <1>9, <1>11, <1>12, <1>18, <1>19, <1>23, <1>24, <2>4 DEF Repairs
<1>25. CASE NameOf(l) # n
  <2>1. ASSUME NEW o \in DataOn(f.ref), IsLeast(o, f.names), Fragment(f.ref, o) \notin g.parts
        PROVE  file'[StripAt(f.ref, o)] = Written(o, image'[o].payload, StripAt(f.ref, o)[3])
    <3>1. o = n /\ Fragment(f.ref, o) \notin f.parts
      BY <1>9, <1>22, <1>25, <2>1
    <3>2. file[StripAt(f.ref, o)] = Written(o, image[o].payload, StripAt(f.ref, o)[3])
      BY <1>2, <1>3, <2>1, <3>1 DEF StripsDone
    <3>3. QED
      BY <1>3, <1>14, <1>25, <3>2
  <2>2. StripsDone(g)'
    BY <1>2, <1>9, <1>18, <1>20, <2>1 DEF StripsDone
  <2>3. QED
    BY <1>9, <1>12, <1>18, <1>19, <1>23, <1>25, <2>2 DEF Repairs
<1>26. QED
  BY <1>24, <1>25

\* The name is done: its parity file or its part and its strip are right.
LEMMA RepairParityStep ==
  ASSUME Cold, ColdInv, Repairs, Head(stack).op = "repair", RepairParity
  PROVE  ImageInv' /\ ReadsStored' /\ Repairs'
<1>1. PICK f : f = Head(stack)
  OBVIOUS
<1>2. /\ f \in Frames /\ f \in RepairFrames /\ f.op = "repair" /\ Tail(stack) = <<BootFrame>>
      /\ Repaired(f) /\ PassInv(f) /\ StripsDone(f) /\ f.ref \in Disks /\ f.names \subseteq Names
      /\ ~Running("diskWriter") /\ up /\ dir = Disks /\ SlotsKnown
      /\ TypeOK /\ FilesGood /\ PayloadInv /\ ImageInv
  BY <1>1, RepairsTop
<1>3. PICK n \in f.names :
        /\ IsLeast(n, f.names) /\ f.at = "parts" /\ f.parts = {}
        /\ \/ <<f.ref, n, 4>> \in col /\ XORrecovery(<<f.ref, n, 4>>) = {}
           \/ /\ IF <<f.ref, n, 4>> \in col
                 THEN \E c \in XORrecovery(<<f.ref, n, 4>>) : Put(<<f.ref, n, 4>>, c)
                 ELSE UNCHANGED file
              /\ stack' = <<[f EXCEPT !.at = "info", !.names = @ \ {n}, !.imgs = {}]>> \o <<BootFrame>>
              /\ UNCHANGED <<memory, reply>>
        /\ UNCHANGED <<dir, treeFile, image>>
  BY <1>1, <1>2 DEF RepairParity, Repairing, Replace
<1> DEFINE l == <<f.ref, n, 4>>
           F == FragOf(image[n].parity, f.ref)
<1>4. /\ n \in Stored /\ n \in Names /\ Right(f.ref, n, 0)
      /\ l \in Locs /\ DiskOf(l) = f.ref /\ NameOf(l) = n /\ NumbOf(l) = 4
  <2>1. n \in Stored /\ Right(f.ref, n, 0)
    BY <1>2, <1>3 DEF Repaired, PassInv
  <2>2. QED
    BY <1>2, <2>1, LocFields, Numbers DEF Stored
<1>5. /\ F \in 1..4 /\ F \in Slots(n, f.ref)
      /\ \A k \in Slots(n, f.ref) : k = F \/ (k = 50 + F /\ F # 4)
      /\ Fragment(f.ref, n) = <<f.ref, n, F>> /\ StripAt(f.ref, n) = <<f.ref, n, 50 + F>>
  BY <1>2, <1>4, Places4 DEF Fragment, StripAt
<1>6. F = 4 <=> l \in col
  <2>1. F = 4 => l \in col
    BY <1>2, <1>4, <1>5 DEF SlotsKnown
  <2>2. ASSUME l \in col PROVE F = 4
    <3>1. 4 \in FilesAt(n, f.ref)
      BY <1>2, <1>4, <2>2, FilePlace
    <3>2. 4 \in Slots(n, f.ref)
      BY <3>1 DEF FilesAt
    <3> HIDE DEF F
    <3>3. QED
      BY <1>5, <3>2
  <2>3. QED
    BY <2>1, <2>2
<1>7. F = 4 => XORrecovery(l) = {Written(n, image[n].payload, F)}
  <2>1. ASSUME NEW e \in Disks \ {f.ref} PROVE FragmentRight(e, n) /\ Fragment(e, n) \in col
    <3>1. FragOf(image[n].parity, e) \in Slots(n, e)
      BY <1>2, <1>4, Places4
    <3>2. QED
      BY <1>2, <1>4, <3>1 DEF Repaired, Whole, FragmentRight, SlotsKnown, Fragment
  <2>2. XORrecovery(Fragment(f.ref, n)) = {Written(n, image[n].payload, F)}
    BY <1>2, <1>4, <2>1, RecoveryWorks
  <2>3. QED
    BY <1>5, <2>2
<1>8. PICK g : g = [f EXCEPT !.at = "info", !.names = @ \ {n}, !.imgs = {}]
  OBVIOUS
<1>9. /\ g \in Frames /\ g.op = "repair" /\ g.ref = f.ref /\ g.at = "info"
      /\ g.names = f.names \ {n}
  <2>1. /\ g \in RepairFrames /\ g.op = "repair" /\ g.ref = f.ref /\ g.at = "info"
        /\ g.names = f.names \ {n}
    BY <1>2, <1>8 DEF RepairFrames
  <2>2. QED
    BY <2>1, RepairFramesFrames
<1>10. /\ IF l \in col THEN \E c \in XORrecovery(l) : Put(l, c) ELSE UNCHANGED file
       /\ stack' = <<g>> \o <<BootFrame>>
       /\ UNCHANGED <<up, col, trees, reply>>
  <2>1. ~(l \in col /\ XORrecovery(l) = {})
    BY <1>6, <1>7
  <2>2. QED
    BY <1>3, <1>8, <2>1 DEF memory
<1>11. stack' = <<g, BootFrame>> /\ ~Running("diskWriter")'
  <2>1. stack' = <<g, BootFrame>>
    BY <1>10, Concats
  <2>2. QED
    BY <1>9, <2>1, Calls DEF Running
<1>12. /\ F # 4 => file' = file
       /\ F = 4 => file' = [file EXCEPT ![l] = Written(n, image[n].payload, F)]
  <2>1. F # 4 => file' = file
    BY <1>6, <1>10
  <2>2. ASSUME F = 4 PROVE file' = [file EXCEPT ![l] = Written(n, image[n].payload, F)]
    <3>1. \E c \in XORrecovery(l) : Put(l, c)
      BY <1>6, <1>10, <2>2
    <3>2. Put(l, Written(n, image[n].payload, F))
      BY <1>7, <2>2, <3>1
    <3>3. QED
      BY <1>2, <1>4, <3>2 DEF Put
  <2>3. QED
    BY <2>1, <2>2
<1> HIDE DEF F, l
<1>13. \A k \in Locs : k # l => file'[k] = file[k]
  BY <1>2, <1>12 DEF TypeOK
<1>14. \A k \in Locs : DiskOf(k) # f.ref \/ NameOf(k) \notin f.names => file'[k] = file[k]
  BY <1>4, <1>13
<1>15. /\ ImageInv' /\ ReadsStored' /\ up' /\ dir' = Disks /\ SlotsKnown'
       /\ Repaired(f)' /\ Stored' = Stored
       /\ \A d \in Disks, o \in Names : FilesAt(o, d)' = FilesAt(o, d)
  BY <1>2, <1>3, <1>10, <1>11, <1>14, RepairKept
<1>16. RightOn(f.ref, n)'
  <2>1. ASSUME NEW k \in FilesAt(n, f.ref) PROVE Right(f.ref, n, k)'
    <3>1. <<f.ref, n, k>> \in Locs /\ (k = 0 \/ k = F \/ (k = 50 + F /\ F # 4))
      BY <1>2, <1>4, <1>5, <2>1, Places4 DEF FilesAt
    <3>2. CASE F = 4 /\ k = 4
      <4>1. file'[<<f.ref, n, k>>] = Written(n, image[n].payload, k)
        BY <1>2, <1>4, <1>12, <3>2 DEF TypeOK, l
      <4>2. QED
        BY <1>3, <4>1 DEF Right
    <3>3. CASE k = 0
      <4>1. file'[<<f.ref, n, k>>] = file[<<f.ref, n, k>>]
        BY <1>4, <1>13, <3>1, <3>3, LocFields
      <4>2. QED
        BY <1>3, <1>4, <3>3, <4>1 DEF Right
    <3>4. CASE F # 4 /\ k # 0
      <4>1. n \in DataOn(f.ref)
        BY <1>4, <3>4 DEF DataOn, F
      <4>2. /\ FragmentRight(f.ref, n)
            /\ file[StripAt(f.ref, n)] = Written(n, image[n].payload, StripAt(f.ref, n)[3])
        BY <1>2, <1>3, <4>1 DEF PassInv, StripsDone
      <4>3. file[<<f.ref, n, k>>] = Written(n, image[n].payload, k)
        <5>1. CASE k = F
          BY <4>2, <5>1 DEF FragmentRight, Right, F
        <5>2. CASE k = 50 + F
          BY <1>5, <4>2, <5>2
        <5>3. QED
          BY <3>1, <3>4, <5>1, <5>2
      <4>4. QED
        BY <1>3, <1>12, <3>4, <4>3 DEF Right
    <3>5. QED
      BY <1>5, <3>1, <3>2, <3>3, <3>4
  <2>2. FilesAt(n, f.ref)' = FilesAt(n, f.ref)
    BY <1>2, <1>4, <1>15
  <2>3. QED
    BY <2>1, <2>2 DEF RightOn
<1>17. Repaired(g)'
  BY <1>9, <1>15, <1>16 DEF Repaired
<1>18. PassInv(g)' /\ StripsDone(g)'
  BY <1>9 DEF PassInv, StripsDone
<1>19. QED
  BY <1>9, <1>11, <1>15, <1>17, <1>18 DEF Repairs

\* The disk has its files again.
LEMMA RepairDoneStep ==
  ASSUME Cold, ColdInv, Repairs, Head(stack).op = "repair", RepairDone
  PROVE  ImageInv' /\ ReadsStored' /\ Ready' /\ stack' = <<BootFrame>>
<1>1. PICK f : f = Head(stack)
  OBVIOUS
<1>2. /\ f \in Frames /\ f.op = "repair" /\ Tail(stack) = <<BootFrame>>
      /\ Repaired(f) /\ f.ref \in Disks
      /\ ~Running("diskWriter") /\ up /\ dir = Disks /\ SlotsKnown
      /\ TypeOK /\ ImageInv /\ ReadsStored
  BY <1>1, RepairsTop
<1>3. /\ f.names = {} /\ stack' = <<BootFrame>>
      /\ UNCHANGED <<dir, file, treeFile, up, col, trees, image, reply>>
  BY <1>1, <1>2 DEF RepairDone, Return, storage, memory
<1>4. AllThere
  <2>1. Whole(f.ref)
    BY <1>2, <1>3 DEF Repaired, RightOn, Whole, FilesAt
  <2>2. QED
    BY <1>2, <2>1 DEF Repaired, AllThere
<1>5. FragmentsKnown
  <2>1. \A n \in Stored, d \in Disks : FragOf(image[n].parity, d) \in Slots(n, d)
    BY <1>2, Places4 DEF Stored
  <2>2. QED
    BY <1>2, <2>1 DEF FragmentsKnown, SlotsKnown, Fragment
<1>6. ImageInv'
  <2>1. ~Running("diskWriter")'
    BY <1>3, Calls DEF Running
  <2>2. QED
    BY <1>2, <1>3, <2>1, ImageKept DEF ImageInv
<1>7. AllThere' /\ FragmentsKnown' /\ ReadsStored'
  BY <1>2, <1>3, <1>4, <1>5, FilesKept
<1>8. QED
  BY <1>2, <1>3, <1>6, <1>7 DEF Ready

\* A strip is being restored.
LEMMA RestoreTop ==
  ASSUME ColdInv, Repairs, Head(stack).op # "repair"
  PROVE  \E f, g \in Frames :
           /\ f.op = "repair" /\ Repaired(f) /\ PassInv(f) /\ f.ref \in Disks
           /\ g.op = "imageRestore" /\ Restoring(f, g.img) /\ g.img \in Locs
           /\ \/ stack = <<g, f, BootFrame>> /\ Head(stack) = g /\ Tail(stack) = <<f, BootFrame>>
              \/ /\ stack = <<VerifierFrame, g, f, BootFrame>>
                 /\ Head(stack) = VerifierFrame /\ Tail(stack) = <<g, f, BootFrame>>
           /\ ~Running("diskWriter") /\ up /\ dir = Disks /\ SlotsKnown
           /\ TypeOK /\ FilesGood /\ PayloadInv /\ ImageInv /\ ReadsStored
<1>1. PICK f \in Frames, g \in Frames :
        /\ f.op = "repair" /\ Repaired(f) /\ PassInv(f)
        /\ g.op = "imageRestore" /\ Restoring(f, g.img)
        /\ stack \in {<<g, f, BootFrame>>, <<VerifierFrame, g, f, BootFrame>>}
  BY Calls DEF Repairs
<1>2. f.ref \in Disks /\ g.img \in Locs
  BY <1>1, FrameFields
<1>3. \/ stack = <<g, f, BootFrame>> /\ Head(stack) = g /\ Tail(stack) = <<f, BootFrame>>
      \/ /\ stack = <<VerifierFrame, g, f, BootFrame>>
         /\ Head(stack) = VerifierFrame /\ Tail(stack) = <<g, f, BootFrame>>
  <2>1. CASE stack = <<g, f, BootFrame>>
    BY <2>1, Calls
  <2>2. CASE stack = <<VerifierFrame, g, f, BootFrame>>
    BY <2>2, Calls
  <2>3. QED
    BY <1>1, <2>1, <2>2
<1>4. ~Running("diskWriter")
  BY <1>1, <1>3, Calls DEF Running
<1>5. QED
  BY <1>1, <1>2, <1>3, <1>4 DEF Repairs, ColdInv, SpreadInv

\* The disks are verified for it: the lost one has its directory again.
LEMMA VerifyAgainStep ==
  ASSUME Cold, ColdInv, Repairs, Head(stack).op = "diskVerifier", Verify
  PROVE  ImageInv' /\ ReadsStored' /\ Repairs'
<1>1. PICK f \in Frames, g \in Frames :
        /\ f.op = "repair" /\ Repaired(f) /\ PassInv(f) /\ f.ref \in Disks
        /\ g.op = "imageRestore" /\ Restoring(f, g.img)
        /\ \/ stack = <<g, f, BootFrame>> /\ Head(stack) = g
           \/ stack = <<VerifierFrame, g, f, BootFrame>> /\ Tail(stack) = <<g, f, BootFrame>>
        /\ ~Running("diskWriter") /\ up /\ dir = Disks /\ SlotsKnown
        /\ TypeOK /\ ImageInv /\ ReadsStored
  BY RestoreTop
<1>2. Tail(stack) = <<g, f, BootFrame>>
  BY <1>1
<1>3. VerifyNothing
  BY <1>1, NothingLost
<1>4. /\ stack' = <<g, f, BootFrame>>
      /\ UNCHANGED <<dir, file, treeFile, up, col, trees, image, reply>>
  BY <1>2, <1>3 DEF VerifyNothing, Return, storage, memory
<1>5. ~Running("diskWriter")'
  BY <1>1, <1>4, Calls DEF Running
<1>6. /\ ImageInv' /\ ReadsStored' /\ up' /\ dir' = Disks /\ SlotsKnown'
      /\ Repaired(f)' /\ Stored' = Stored
      /\ \A d \in Disks : DataOn(d)' = DataOn(d)
      /\ \A d \in Disks, n \in Names :
           Fragment(d, n)' = Fragment(d, n) /\ StripAt(d, n)' = StripAt(d, n)
  BY <1>1, <1>4, <1>5, RepairKept
<1>7. \A n \in DataOn(f.ref) : n \in Names
  BY DEF DataOn, Stored
<1>8. PassInv(f)'
  BY <1>1, <1>4, <1>6, <1>7 DEF PassInv, Right, FragmentRight
<1>9. Restoring(f, g.img)'
  BY <1>1, <1>6, <1>7 DEF Restoring
<1>10. QED
  BY <1>1, <1>4, <1>6, <1>8, <1>9 DEF Repairs

\* The picture is read and the strip cut from it.
LEMMA RestoreStep ==
  ASSUME Cold, ColdInv, Repairs, Head(stack).op = "imageRestore", imageRestore
  PROVE  ImageInv' /\ ReadsStored' /\ Repairs'
<1>1. PICK f \in Frames, g \in Frames :
        /\ f.op = "repair" /\ Repaired(f) /\ PassInv(f) /\ f.ref \in Disks
        /\ g.op = "imageRestore" /\ Restoring(f, g.img) /\ g.img \in Locs
        /\ stack = <<g, f, BootFrame>> /\ Head(stack) = g /\ Tail(stack) = <<f, BootFrame>>
        /\ ~Running("diskWriter") /\ up /\ dir = Disks /\ SlotsKnown
        /\ TypeOK /\ FilesGood /\ PayloadInv /\ ImageInv /\ ReadsStored
  BY RestoreTop, Calls
<1>2. PICK m : m = g.img
  OBVIOUS
<1>3. PICK n : n = NameOf(m)
  OBVIOUS
<1>4. /\ f.at = "parts" /\ IsLeast(n, f.names) /\ n \in DataOn(f.ref)
      /\ m = StripAt(f.ref, n) /\ Fragment(f.ref, n) \notin f.parts
      /\ m \in Locs
  BY <1>1, <1>2, <1>3 DEF Restoring
<1>5. /\ n \in Stored /\ n \in Names /\ n \in f.names
      /\ image[n].payload \in Payloads /\ Right(f.ref, n, 0) /\ FragmentRight(f.ref, n)
  BY <1>1, <1>4 DEF DataOn, Stored, IsLeast, PayloadInv, PassInv
<1>6. merge(n) = {<<n, image[n].payload>>}
  <2>1. ASSUME NEW d \in Disks PROVE Fragment(d, n) \in col /\ FragmentRight(d, n)
    <3>1. FragOf(image[n].parity, d) \in Slots(n, d)
      BY <1>1, <1>5, Places4
    <3>2. Fragment(d, n) \in col
      BY <1>1, <1>5, <3>1 DEF SlotsKnown, Fragment
    <3>3. d # f.ref => FragmentRight(d, n)
      BY <1>1, <1>5, <3>1 DEF Repaired, Whole, FragmentRight
    <3>4. QED
      BY <1>5, <3>2, <3>3
  <2>2. QED
    BY <1>1, <1>5, <2>1, MergeRight
<1>7. PICK r : /\ r = <<n, image[n].payload>> /\ r \in Pictures
               /\ r[1] = n /\ r[2] = image[n].payload
               /\ r \notin {Junk, NotFound, Failed, Died}
  <2>1. <<n, image[n].payload>> \in Pictures
    BY <1>5 DEF Pictures
  <2>2. QED
    BY <2>1, ValuesAssumption
<1>8. /\ Put(m, Written(n, image[n].payload, NumbOf(m)))
      /\ stack' = <<f, BootFrame>>
      /\ UNCHANGED <<dir, treeFile, up, col, trees, image, reply>>
  <2>1. merge(n) = {r}
    BY <1>6, <1>7
  <2>2. QED
    BY <1>1, <1>2, <1>3, <1>7, <2>1 DEF imageRestore, Return, memory
<1>9. ~Running("diskWriter")'
  BY <1>1, <1>8, Calls DEF Running
<1>10. /\ FragOf(image[n].parity, f.ref) \in 1..3
       /\ NumbOf(m) = 50 + FragOf(image[n].parity, f.ref) /\ DiskOf(m) = f.ref
  BY <1>1, <1>4, <1>5, Places4 DEF DataOn, StripAt, NumbOf, DiskOf
<1>11. file' = [file EXCEPT ![m] = Written(n, image[n].payload, NumbOf(m))]
  BY <1>1, <1>8, <1>10 DEF Put
<1>12. /\ file'[m] = Written(n, image[n].payload, NumbOf(m))
       /\ \A k \in Locs : k # m => file'[k] = file[k]
  BY <1>1, <1>4, <1>11 DEF TypeOK
<1>13. \A k \in Locs : DiskOf(k) # f.ref \/ NameOf(k) \notin f.names => file'[k] = file[k]
  BY <1>3, <1>5, <1>10, <1>12
<1>14. /\ ImageInv' /\ ReadsStored' /\ up' /\ dir' = Disks /\ SlotsKnown'
       /\ Repaired(f)' /\ Stored' = Stored
       /\ \A d \in Disks : DataOn(d)' = DataOn(d)
       /\ \A d \in Disks, o \in Names :
            Fragment(d, o)' = Fragment(d, o) /\ StripAt(d, o)' = StripAt(d, o)
  BY <1>1, <1>8, <1>9, <1>13, RepairKept
<1>15. \A o \in DataOn(f.ref) : o \in Names
  BY DEF DataOn, Stored
<1>16. f.names \subseteq Names /\ \A o \in f.names : IsLeast(o, f.names) => o = n
  <2>1. f.names \subseteq Names
    BY <1>1, FrameFields
  <2>2. QED
    BY <1>4, <2>1, OneLeast
<1>17. Right(f.ref, n, 0)' /\ FragmentRight(f.ref, n)'
  <2>1. ASSUME NEW k \in {0, FragOf(image[n].parity, f.ref)}
        PROVE  <<f.ref, n, k>> \in Locs /\ <<f.ref, n, k>> # m
    <3>1. k \in PartNumbs /\ k # NumbOf(m)
      BY <1>10, Numbers
    <3>2. QED
      BY <1>1, <1>5, <3>1, LocFields
  <2>2. \A k \in {0, FragOf(image[n].parity, f.ref)} : file'[<<f.ref, n, k>>] = file[<<f.ref, n, k>>]
    BY <1>12, <2>1
  <2>3. QED
    BY <1>5, <1>8, <2>2 DEF Right, FragmentRight
<1>18. PassInv(f)'
  <2>1. \A o \in DataOn(f.ref) : IsLeast(o, f.names) => FragmentRight(f.ref, o)'
    <3>1. \A o \in DataOn(f.ref) : IsLeast(o, f.names) => o = n
      BY <1>16 DEF IsLeast
    <3>2. QED
      BY <1>17, <3>1
  <2>2. \A o \in f.names : IsLeast(o, f.names) => Right(f.ref, o, 0)'
    BY <1>16, <1>17
  <2>3. /\ f.names # {}
        /\ \A l \in f.parts : NameOf(l) \in DataOn(f.ref) /\ l = Fragment(f.ref, NameOf(l))
        /\ \A l \in f.imgs : NameOf(l) \in DataOn(f.ref) /\ l = StripAt(f.ref, NameOf(l))
        /\ {NameOf(l) : l \in f.parts} = {NameOf(l) : l \in f.imgs}
    BY <1>1, <1>4 DEF PassInv
  <2>4. /\ \A l \in f.parts : NameOf(l) \in DataOn(f.ref)' /\ l = Fragment(f.ref, NameOf(l))'
        /\ \A l \in f.imgs : NameOf(l) \in DataOn(f.ref)' /\ l = StripAt(f.ref, NameOf(l))'
    BY <1>1, <1>14, <1>15, <2>3
  <2>5. \A o \in DataOn(f.ref)' :
          IsLeast(o, f.names) /\ Fragment(f.ref, o)' \notin f.parts => FragmentRight(f.ref, o)'
    BY <1>1, <1>14, <2>1
  <2>6. QED
    BY <2>2, <2>3, <2>4, <2>5 DEF PassInv
<1>19. StripsDone(f)'
  <2>1. ASSUME NEW o \in DataOn(f.ref), IsLeast(o, f.names)
        PROVE  file'[StripAt(f.ref, o)] = Written(o, image'[o].payload, StripAt(f.ref, o)[3])
    <3>1. o = n
      BY <1>16, <2>1 DEF IsLeast
    <3>2. QED
      BY <1>4, <1>8, <1>12, <3>1 DEF NumbOf
  <2>2. QED
    BY <1>1, <1>14, <1>15, <2>1 DEF StripsDone
<1>20. QED
  BY <1>1, <1>8, <1>14, <1>18, <1>19 DEF Repairs

-----------------------------------------------------------------------------
(* All phases together.                                                    *)

LEMMA ColdInit == Init => ColdInv
<1> SUFFICES ASSUME Init PROVE ColdInv
  OBVIOUS
<1>1. SpreadInv
  BY SpreadInit
<1>2. PayloadInv /\ Stored = {}
  BY DEF Init, PayloadInv, Stored
<1>3. ~Running("diskWriter")
  BY DEF Init, Running
<1>4. ImageInv
  BY <1>2, <1>3 DEF Init, ImageInv
<1>5. ReadsStored
  BY DEF Init, ReadsStored
<1>6. Down
  BY <1>2 DEF Init, Down, Rest, Fresh
<1>7. QED
  BY <1>1, <1>2, <1>4, <1>5, <1>6 DEF ColdInv

\* Which phase a step leads to.
LEMMA ColdPhases ==
  ASSUME Cold, ColdInv, Next
  PROVE  /\ ImageInv' /\ ReadsStored'
         /\ Down => Down' \/ Booting'
         /\ Booting => (Ready' /\ stack' = <<BootFrame>>) \/ Repairs'
         /\ Ready => Ready' \/ Writing' \/ (stack = <<>> /\ Down')
         /\ Writing => Writing' \/ Ready'
         /\ Repairs => Repairs' \/ (Ready' /\ stack' = <<BootFrame>>)
<1>1. \/ ~up /\ (Boot \/ \E d \in Disks : dir = Disks /\ DiskFail(d))
      \/ up /\ stack = <<>> /\ Request
      \/ up /\ stack = <<>> /\ Die /\ UNCHANGED <<storage, image, reply>>
      \/ /\ stack # <<>>
         /\ \/ Head(stack).op = "boot" /\ EndBoot
            \/ Head(stack).op = "diskVerifier" /\ Verify
            \/ Head(stack).op = "getImage" /\ Answer
            \/ Head(stack).op = "imageDecomposer" /\ StartWriting
            \/ Head(stack).op = "diskWriter" /\ (WriteFile \/ WriteTree)
            \/ /\ Head(stack).op = "repair"
               /\ RepairInfo \/ RepairPart \/ RepairParity \/ RepairDone
            \/ Head(stack).op = "imageRestore" /\ imageRestore
  BY StepByCall
<1>2. Down => /\ ~up /\ stack = <<>>
  BY DEF Down
<1>3. Booting => /\ up /\ stack # <<>> /\ Head(stack).op = "diskVerifier"
  BY Calls DEF Booting
<1>4. Ready =>
        /\ up
        /\ stack # <<>> =>
             Head(stack).op \in {"boot", "diskVerifier", "getImage", "imageDecomposer"}
  BY Calls DEF Ready
<1>5. Writing => up /\ stack # <<>> /\ Head(stack).op = "diskWriter"
  BY Calls DEF Writing
<1>6. Repairs =>
        up /\ stack # <<>> /\ Head(stack).op \in {"repair", "imageRestore", "diskVerifier"}
  <2> SUFFICES ASSUME Repairs
               PROVE  /\ up /\ stack # <<>>
                      /\ Head(stack).op \in {"repair", "imageRestore", "diskVerifier"}
    OBVIOUS
  <2>1. CASE Head(stack).op = "repair"
    BY <2>1, RepairsTop, Calls
  <2>2. CASE Head(stack).op # "repair"
    BY <2>2, RestoreTop, Calls
  <2>3. QED
    BY <2>1, <2>2
<1>7. Down => ImageInv' /\ ReadsStored' /\ (Down' \/ Booting')
  BY <1>1, <1>2, BootStep, FailStep
<1>8. Booting => ImageInv' /\ ReadsStored' /\ ((Ready' /\ stack' = <<BootFrame>>) \/ Repairs')
  BY <1>1, <1>3, BootingStep
<1>9. Ready => ImageInv' /\ ReadsStored' /\ (Ready' \/ Writing' \/ (stack = <<>> /\ Down'))
  BY <1>1, <1>4, RequestStep, StopStep, EndBootStep, VerifyStep, AnswerStep, StartStep
<1>10. Writing => ImageInv' /\ ReadsStored' /\ (Writing' \/ Ready')
  BY <1>1, <1>5, WriteFileStep, WriteTreeStep
<1>11. Repairs => ImageInv' /\ ReadsStored' /\ (Repairs' \/ (Ready' /\ stack' = <<BootFrame>>))
  BY <1>1, <1>6, RepairInfoStep, RepairPartStep, RepairParityStep, RepairDoneStep,
     VerifyAgainStep, RestoreStep
<1>12. QED
  BY <1>7, <1>8, <1>9, <1>10, <1>11 DEF ColdInv

LEMMA ColdStutter == ColdInv /\ UNCHANGED vars => ColdInv'
<1> SUFFICES ASSUME ColdInv, UNCHANGED vars PROVE ColdInv'
  OBVIOUS
<1>1. UNCHANGED <<dir, file, treeFile, up, col, trees, stack, image, reply>>
  BY DEF vars, storage, memory
<1>2. /\ Stored' = Stored
      /\ Down => Down'
      /\ ReadsStored'
  BY <1>1, FilesKept DEF Down, ColdInv
<1>3. ImageInv'
  BY <1>1, <1>2 DEF ColdInv, ImageInv, Running
<1>4. Booting => Booting'
  BY <1>1, FilesKept DEF Booting
<1>5. Ready => Ready'
  BY <1>1, FilesKept DEF Ready
<1>6. /\ \A d, n, k : Right(d, n, k)' <=> Right(d, n, k)
      /\ \A d, n : /\ Slots(n, d)' = Slots(n, d) /\ FilesAt(n, d)' = FilesAt(n, d)
                   /\ Fragment(d, n)' = Fragment(d, n) /\ StripAt(d, n)' = StripAt(d, n)
                   /\ FragmentRight(d, n)' <=> FragmentRight(d, n)
  BY <1>1 DEF Right, Slots, FilesAt, Fragment, StripAt, FragmentRight
<1>7. /\ \A d : DataOn(d)' = DataOn(d) /\ (Whole(d)' <=> Whole(d))
      /\ \A d, n : RightOn(d, n)' <=> RightOn(d, n)
      /\ AllThere => AllThere'
      /\ FragmentsKnown => FragmentsKnown'
      /\ SlotsKnown => SlotsKnown'
  BY <1>1, <1>2, <1>6 DEF DataOn, RightOn, AllThere, Whole, FragmentsKnown, SlotsKnown
<1>8. Writing => Writing'
  <2> SUFFICES ASSUME Writing PROVE Writing'
    OBVIOUS
  <2>1. PICK f \in Frames :
          /\ stack = <<f>> /\ f.op = "diskWriter" /\ reply.answer = None
          /\ image[f.name].payload = f.payload
          /\ \A d \in Disks : \A k \in FilesAt(f.name, d) : Done(f, d, k)
    BY DEF Writing
  <2>2. \A d, k : Done(f, d, k)' <=> Done(f, d, k)
    BY <1>1, <1>6 DEF Done
  <2>3. \A d \in Disks : \A k \in FilesAt(f.name, d)' : Done(f, d, k)'
    BY <1>6, <2>1, <2>2
  <2>4. QED
    BY <1>1, <1>7, <2>1, <2>3 DEF Writing
<1>9. Repairs => Repairs'
  <2> SUFFICES ASSUME Repairs PROVE Repairs'
    OBVIOUS
  <2>1. PICK f \in Frames :
          /\ f.op = "repair" /\ Repaired(f) /\ PassInv(f)
          /\ \/ stack = <<f, BootFrame>> /\ StripsDone(f)
             \/ \E g \in Frames :
                  /\ g.op = "imageRestore" /\ Restoring(f, g.img)
                  /\ stack \in {<<g, f, BootFrame>>, <<VerifierFrame, g, f, BootFrame>>}
    BY DEF Repairs
  <2>2. Repaired(f)'
    BY <1>2, <1>7, <2>1 DEF Repaired
  <2>3. PassInv(f)'
    BY <1>6, <1>7, <2>1 DEF PassInv
  <2>4. StripsDone(f) => StripsDone(f)'
    BY <1>1, <1>6, <1>7 DEF StripsDone
  <2>5. \A m : Restoring(f, m) => Restoring(f, m)'
    BY <1>6, <1>7 DEF Restoring
  <2>6. \/ stack' = <<f, BootFrame>> /\ StripsDone(f)'
        \/ \E g \in Frames :
             /\ g.op = "imageRestore" /\ Restoring(f, g.img)'
             /\ stack' \in {<<g, f, BootFrame>>, <<VerifierFrame, g, f, BootFrame>>}
    BY <1>1, <2>1, <2>4, <2>5
  <2>7. QED
    BY <1>1, <1>7, <2>1, <2>2, <2>3, <2>6 DEF Repairs
<1>10. QED
  BY <1>2, <1>3, <1>4, <1>5, <1>8, <1>9, ColdParts DEF ColdInv

LEMMA ColdNext == Cold /\ ColdInv /\ [Next]_vars => ColdInv'
<1>1. ASSUME Cold, ColdInv, Next PROVE ColdInv'
  BY <1>1, ColdPhases, ColdParts DEF ColdInv
<1>2. QED
  BY <1>1, ColdStutter

THEOREM ColdInvariance ==
  ASSUME Cold
  PROVE  Spec => []ColdInv
<1>1. Init => ColdInv
  BY ColdInit
<1>2. ColdInv /\ [Next]_vars => ColdInv'
  BY ColdNext
<1>3. QED
  BY <1>1, <1>2, PTL DEF Spec

\* One disk at most misses anything.
LEMMA ColdRecoverable == ColdInv => Recoverable
<1>1. AllThere => Recoverable
  BY 1 \in Disks DEF AllThere, Recoverable, Disks
<1>2. Fresh => Recoverable
  BY 1 \in Disks DEF Fresh, Whole, Recoverable, Disks
<1>3. Rest => Recoverable
  BY <1>1, <1>2 DEF Rest, Lost, Recoverable
<1>4. Repairs => Recoverable
  BY FrameFields DEF Repairs, Repaired, Recoverable
<1>5. QED
  BY <1>1, <1>3, <1>4 DEF ColdInv, Down, Booting, Ready, Writing

\* At every moment, in the middle of a rebuild too, at most one disk misses
\* anything of the stored images: reconstructDisk, repair and imageRestore
\* never have to work from what is not there.
THEOREM ColdRecovers ==
  ASSUME Cold
  PROVE  Spec => []Recoverable
<1>1. Spec => []ColdInv
  BY ColdInvariance
<1>2. QED
  BY <1>1, ColdRecoverable, PTL

\* getImage answers a stored image with its picture and never fails, whatever
\* was lost and rebuilt before.
THEOREM ColdReads ==
  ASSUME Cold
  PROVE  Spec => []ReadsStored
<1>1. Spec => []ColdInv
  BY ColdInvariance
<1>2. ColdInv => ReadsStored
  BY DEF ColdInv
<1>3. QED
  BY <1>1, <1>2, PTL

-----------------------------------------------------------------------------
(* What the program says, while disks are lost one at a time and stopped.  *)

LEMMA RepairsStack == Repairs' => stack' # <<>>
BY Calls DEF Repairs

\* A call that ends in the cold has been carried out.
LEMMA ColdEnd ==
  ASSUME Cold, ColdInv, Next, stack # <<>>, stack' = <<>>
  PROVE  Len(stack) = 1 /\ (Base = "getImage" => reply'.answer # Failed)
<1>1. ~Booting /\ ~Repairs
  <2>1. stack' # <<BootFrame>>
    BY Calls
  <2>2. QED
    BY <2>1, RepairsStack, ColdPhases
<1>2. CASE Writing
  BY <1>2, Calls DEF Writing, Base
<1>3. CASE Ready
  <2>1. CASE stack = <<BootFrame>>
    BY <2>1, Calls DEF Base
  <2>2. CASE stack # <<BootFrame>>
    <3>1. PICK f \in Frames :
            /\ stack \in {<<f>>, <<VerifierFrame, f>>}
            /\ f.op \in {"getImage", "imageDecomposer"}
      BY <1>3, <2>2 DEF Ready
    <3>2. CASE stack = <<VerifierFrame, f>>
      <4>1. Head(stack).op = "diskVerifier"
        BY <3>2, Calls
      <4>2. Verify
        BY <1>3, <4>1, StepByCall DEF Ready
      <4>3. VerifyNothing
        BY <1>3, <4>2, NothingLost DEF Ready, AllThere
      <4>4. stack' = <<f>>
        BY <3>2, <4>3, Calls DEF VerifyNothing, Return
      <4>5. QED
        BY <4>4, Calls
    <3>3. CASE stack = <<f>> /\ f.op = "imageDecomposer"
      BY <3>3, Calls DEF Base
    <3>4. CASE stack = <<f>> /\ f.op = "getImage"
      <4>1. Answer
        BY <1>3, <3>4, Calls, StepByCall DEF Ready
      <4>2. PICK n \in Names : \E r :
              /\ image[n].status \in {"none", "stored"} /\ reply' = [reply EXCEPT !.answer = r]
              /\ n \in Stored => r = <<n, image[n].payload>>
              /\ image[n].status = "none" => r = NotFound
        BY <1>3, <4>1, AnswerFacts
      <4>3. PICK r :
              /\ image[n].status \in {"none", "stored"} /\ reply' = [reply EXCEPT !.answer = r]
              /\ n \in Stored => r = <<n, image[n].payload>>
              /\ image[n].status = "none" => r = NotFound
        BY <4>2
      <4>4. n \in Stored => r \in Pictures
        BY <4>3 DEF ColdInv, PayloadInv, Pictures, Stored
      <4>5. r # Failed
        BY <4>3, <4>4, ValuesAssumption DEF Stored
      <4>6. QED
        BY <3>4, <4>3, <4>5, Calls DEF ColdInv, SpreadInv, TypeOK
    <3>5. QED
      BY <3>1, <3>2, <3>3, <3>4
  <2>3. QED
    BY <2>1, <2>2
<1>4. QED
  BY <1>1, <1>2, <1>3 DEF ColdInv, Down

\* No call is cut short: no exception leaves a boot or a request, from however
\* deep in a verification, a repair or a merge, no read is answered with an
\* error, and the process does not end in the middle of one.
THEOREM ColdCallsReturn ==
  ASSUME Cold
  PROVE  Spec => [][~CutShort]_vars
<1>1. ASSUME ColdInv, Next, stack # <<>> PROVE up'
  BY <1>1, ColdPhases DEF ColdInv, Down, Booting, Ready, Writing, Repairs
<1>2. ASSUME ColdInv, Next PROVE ~CutShort
  <2> SUFFICES ASSUME CutShort PROVE FALSE
    OBVIOUS
  <2>1. stack # <<>> /\ stack' = <<>>
    BY <1>1, <1>2 DEF CutShort
  <2>2. Len(stack) = 1 /\ (Base = "getImage" => reply'.answer # Failed)
    BY <1>2, <2>1, ColdEnd
  <2>3. QED
    BY <1>1, <1>2, <2>1, <2>2 DEF CutShort
<1>3. ColdInv /\ [Next]_vars => [~CutShort]_vars
  BY <1>2
<1>4. Spec => []ColdInv
  BY ColdInvariance
<1>5. QED
  BY <1>3, <1>4, PTL DEF Spec

\* "Disco N reestablecido correctamente", "Discos inicializados
\* correctamente" and the rebuild of a disk while all others are whole: of
\* what the messages say nothing is wrong under cold failures.
THEOREM ColdMessages ==
  ASSUME Cold
  PROVE  Spec => [](RestoredIsWhole /\ NoRebuildOfTwo /\ InitializedIsWhole)
<1>1. ASSUME ColdInv, NEW d \in Disks, Whole(d), d \in dir PROVE ~Damaged(d)
  <2>1. \A n \in Stored : FragOf(image[n].parity, d) \in Slots(n, d)
    BY <1>1, Places4 DEF ColdInv, SpreadInv, Stored
  <2>2. QED
    BY <1>1, <2>1 DEF Damaged, Whole, FragmentRight
<1>2. ASSUME ColdInv PROVE RestoredIsWhole
  <2> SUFFICES ASSUME Running("repair"), Head(stack).names = {}
               PROVE  ~Damaged(Head(stack).ref)
    BY DEF RestoredIsWhole
  <2>1. Repairs
    BY <1>2, Calls DEF ColdInv, Running, Down, Booting, Ready, Writing
  <2>2. PICK f : f = Head(stack)
    OBVIOUS
  <2>3. Repaired(f) /\ f.ref \in Disks /\ dir = Disks
    BY <1>2, <2>1, <2>2, RepairsTop DEF Running
  <2>4. Whole(f.ref)
    BY <2>2, <2>3 DEF Repaired, RightOn, Whole, FilesAt
  <2>5. QED
    BY <1>1, <1>2, <2>2, <2>3, <2>4
<1>3. ASSUME ColdInv PROVE NoRebuildOfTwo
  <2> SUFFICES ASSUME Running("diskVerifier"), Cardinality(Disks \ dir) = 1
               PROVE  \E d \in Disks : \A e \in Disks \ {d} : ~Damaged(e)
    BY DEF NoRebuildOfTwo
  <2>1. dir # Disks
    <3>1. Disks \ Disks = {} /\ Cardinality(Disks \ Disks) = 0
      BY FS_EmptySet
    <3>2. QED
      BY <3>1
  <2>2. Rest
    BY <1>3, <2>1 DEF ColdInv, Down, Booting, Ready, Writing, Repairs, AllThere
  <2>3. ~Fresh
    <3>1. Cardinality(1..4) = IF 1 > 4 THEN 0 ELSE 4 - 1 + 1
      BY FS_Interval, 1 \in Int, 4 \in Int
    <3>2. Disks \ {} = 1..4 /\ Cardinality(Disks \ {}) = 4
      BY <3>1 DEF Disks
    <3>3. QED
      BY <3>2 DEF Fresh
  <2>4. PICK d \in Disks : Lost(d)
    BY <2>1, <2>2, <2>3 DEF Rest, AllThere
  <2>5. QED
    BY <1>1, <1>3, <2>4 DEF Lost
<1>4. ASSUME ColdInv PROVE InitializedIsWhole
  <2>1. Running("boot") => AllThere
    BY <1>4, Calls DEF ColdInv, Running, Down, Booting, Ready, Writing, Repairs
  <2>2. QED
    BY <1>1, <1>4, <2>1 DEF InitializedIsWhole, AllThere
<1>5. ColdInv => RestoredIsWhole /\ NoRebuildOfTwo /\ InitializedIsWhole
  BY <1>2, <1>3, <1>4
<1>6. Spec => []ColdInv
  BY ColdInvariance
<1>7. QED
  BY <1>5, <1>6, PTL

-----------------------------------------------------------------------------
(* The controller implements ImageStore.                                   *)

\* The request of a stack of calls.
RequestIn(s) ==
  LET f == s[Len(s)] IN
  CASE s = <<>>             -> None
    [] s # <<>> /\ f.op = "boot"     -> None
    [] s # <<>> /\ f.op = "getImage" -> [op |-> "read", name |-> f.name]
    [] OTHER -> [op |-> "store", name |-> f.name, payload |-> f.payload]

LEMMA RequestFacts ==
  /\ RequestIn(<<>>) = None
  /\ \A f : f.op = "getImage" =>
       /\ RequestIn(<<f>>) = [op |-> "read", name |-> f.name]
       /\ RequestIn(<<VerifierFrame, f>>) = [op |-> "read", name |-> f.name]
  /\ \A f : f.op = "imageDecomposer" \/ f.op = "diskWriter" =>
       /\ RequestIn(<<f>>) = [op |-> "store", name |-> f.name, payload |-> f.payload]
       /\ RequestIn(<<VerifierFrame, f>>) = [op |-> "store", name |-> f.name, payload |-> f.payload]
  /\ RequestIn(<<BootFrame>>) = None
  /\ \A f : RequestIn(<<f, BootFrame>>) = None
  /\ \A f, g : RequestIn(<<f, g, BootFrame>>) = None
  /\ \A f, g, h : RequestIn(<<f, g, h, BootFrame>>) = None
<1>1. RequestIn(<<>>) = None
  BY DEF RequestIn
<1>2. ASSUME NEW s, s # <<>>, s[Len(s)] = BootFrame
      PROVE  RequestIn(s) = None
  BY <1>2, Calls DEF RequestIn
<1>4. ASSUME NEW f
      PROVE  /\ <<f>> # <<>> /\ <<f>>[Len(<<f>>)] = f
             /\ <<VerifierFrame, f>> # <<>> /\ <<VerifierFrame, f>>[Len(<<VerifierFrame, f>>)] = f
             /\ <<f, BootFrame>> # <<>> /\ <<f, BootFrame>>[Len(<<f, BootFrame>>)] = BootFrame
  BY Calls
<1>5. ASSUME NEW f, NEW g
      PROVE  <<f, g, BootFrame>> # <<>> /\ <<f, g, BootFrame>>[Len(<<f, g, BootFrame>>)] = BootFrame
  BY Calls
<1>6. ASSUME NEW f, NEW g, NEW h
      PROVE  /\ <<f, g, h, BootFrame>> # <<>>
             /\ <<f, g, h, BootFrame>>[Len(<<f, g, h, BootFrame>>)] = BootFrame
  BY Calls
<1>7. ASSUME NEW f, f.op = "getImage"
      PROVE  /\ RequestIn(<<f>>) = [op |-> "read", name |-> f.name]
             /\ RequestIn(<<VerifierFrame, f>>) = [op |-> "read", name |-> f.name]
  <2>1. ASSUME NEW s, s # <<>>, s[Len(s)] = f
        PROVE  RequestIn(s) = [op |-> "read", name |-> f.name]
    BY <1>7, <2>1 DEF RequestIn
  <2>2. RequestIn(<<f>>) = [op |-> "read", name |-> f.name]
    BY <1>4, <2>1
  <2>3. RequestIn(<<VerifierFrame, f>>) = [op |-> "read", name |-> f.name]
    BY <1>4, <2>1
  <2>4. QED
    BY <2>2, <2>3
<1>8. ASSUME NEW f, f.op = "imageDecomposer" \/ f.op = "diskWriter"
      PROVE  /\ RequestIn(<<f>>) = [op |-> "store", name |-> f.name, payload |-> f.payload]
             /\ RequestIn(<<VerifierFrame, f>>) = [op |-> "store", name |-> f.name, payload |-> f.payload]
  <2>1. ASSUME NEW s, s # <<>>, s[Len(s)] = f
        PROVE  RequestIn(s) = [op |-> "store", name |-> f.name, payload |-> f.payload]
    BY <1>8, <2>1 DEF RequestIn
  <2>2. RequestIn(<<f>>) = [op |-> "store", name |-> f.name, payload |-> f.payload]
    BY <1>4, <2>1
  <2>3. RequestIn(<<VerifierFrame, f>>) = [op |-> "store", name |-> f.name, payload |-> f.payload]
    BY <1>4, <2>1
  <2>4. QED
    BY <2>2, <2>3
<1>9. RequestIn(<<BootFrame>>) = None /\ \A f : RequestIn(<<f, BootFrame>>) = None
  BY <1>2, <1>4
<1>10. \A f, g : RequestIn(<<f, g, BootFrame>>) = None
  BY <1>2, <1>5
<1>11. \A f, g, h : RequestIn(<<f, g, h, BootFrame>>) = None
  BY <1>2, <1>6
<1>12. QED
  BY <1>1, <1>7, <1>8, <1>9, <1>10, <1>11

LEMMA RequestOfStack ==
  RequestOf = RequestIn(stack) /\ RequestOf' = RequestIn(stack')
BY DEF RequestOf, RequestIn

\* A boot is no request, and nothing of it is seen.
LEMMA BootUnseen ==
  ASSUME Cold, ColdInv, Next, Booting \/ Repairs
  PROVE  UNCHANGED <<PictureOf, RequestOf, reply>>
<1>1. /\ stack # <<>> /\ stack[Len(stack)] = BootFrame /\ RequestIn(stack) = None
      /\ Head(stack).op \in {"diskVerifier", "repair", "imageRestore"} /\ up
  <2>1. CASE Booting
    BY <2>1, Calls, RequestFacts DEF Booting
  <2>2. CASE Repairs /\ Head(stack).op = "repair"
    <3>1. PICK f : stack = <<f, BootFrame>> /\ up
      BY <2>2, RepairsTop
    <3>2. QED
      BY <2>2, <3>1, Calls, RequestFacts
  <2>3. CASE Repairs /\ Head(stack).op # "repair"
    <3>1. PICK f, g : /\ up
                      /\ \/ stack = <<g, f, BootFrame>> /\ g.op = "imageRestore"
                         \/ stack = <<VerifierFrame, g, f, BootFrame>>
      BY <2>3, RestoreTop
    <3>2. CASE stack = <<g, f, BootFrame>> /\ g.op = "imageRestore"
      BY <3>1, <3>2, Calls, RequestFacts
    <3>3. CASE stack = <<VerifierFrame, g, f, BootFrame>>
      BY <3>1, <3>3, Calls, RequestFacts
    <3>4. QED
      BY <3>1, <3>2, <3>3
  <2>4. QED
    BY <2>1, <2>2, <2>3
<1>2. Verify \/ Repair
  BY <1>1, StepByCall DEF Repair
<1>3. Base = "boot"
  BY <1>1, Calls DEF Base
<1>4. \A C : Throw(C) => reply' = reply
  BY <1>3 DEF Throw
<1>5. image' = image
  BY <1>2 DEF Verify, VerifyNothing, VerifyAllGone, VerifyTooMany, reconstructDisk,
              Repair, RepairInfo, RepairPart, RepairParity, RepairDone, imageRestore
<1>6. reply' = reply
  <2>1. CASE Verify
    BY <1>4, <2>1 DEF Verify, VerifyNothing, VerifyAllGone, VerifyTooMany, reconstructDisk
  <2>2. CASE Repair
    BY <1>4, <2>2 DEF Repair, RepairInfo, RepairPart, RepairParity, RepairDone, imageRestore
  <2>3. QED
    BY <1>2, <2>1, <2>2
<1>7. RequestIn(stack') = None
  <2>1. stack' = <<BootFrame>> \/ Repairs'
    BY ColdPhases
  <2>2. ASSUME Repairs' PROVE RequestIn(stack') = None
    <3>1. \/ \E f : stack' = <<f, BootFrame>>
          \/ \E f, g : stack' \in {<<g, f, BootFrame>>, <<VerifierFrame, g, f, BootFrame>>}
      BY <2>2 DEF Repairs
    <3>2. QED
      BY <3>1, RequestFacts
  <2>3. QED
    BY <2>1, <2>2, RequestFacts
<1>8. QED
  BY <1>1, <1>5, <1>6, <1>7, RequestOfStack DEF PictureOf

\* A request is taken.
LEMMA RequestSeen ==
  ASSUME Cold, ColdInv, stack = <<>>, Request
  PROVE  Store!Next
<1>1. RequestOf = None
  BY RequestFacts, RequestOfStack
<1>2. ASSUME NEW n \in Names, getImage(n) PROVE Store!Read(n)
  <2>1. PICK f : f = [op |-> "getImage", name |-> n]
    OBVIOUS
  <2>2. f.op = "getImage" /\ f.name = n
    BY <2>1
  <2>3. stack' = <<VerifierFrame, f>> /\ reply' = [name |-> n, answer |-> None] /\ image' = image
    BY <1>2, <2>1 DEF getImage
  <2>4. RequestOf' = [op |-> "read", name |-> n]
    BY <2>2, <2>3, RequestFacts, RequestOfStack
  <2>5. PictureOf' = PictureOf
    BY <2>3 DEF PictureOf
  <2>6. QED
    BY <1>1, <2>3, <2>4, <2>5 DEF Store!Read
<1>3. ASSUME NEW n \in Names, NEW p \in Payloads, imageDecomposer(n, p) PROVE Store!Store(n, p)
  <2>1. PICK f : f = [op |-> "imageDecomposer", name |-> n, payload |-> p]
    OBVIOUS
  <2>2. f.op = "imageDecomposer" /\ f.name = n /\ f.payload = p
    BY <2>1
  <2>3. /\ stack' = <<VerifierFrame, f>> /\ reply' = [name |-> n, answer |-> None]
        /\ image' = image /\ image[n].status = "none"
    BY <1>3, <2>1 DEF imageDecomposer, Cold
  <2>4. RequestOf' = [op |-> "store", name |-> n, payload |-> p]
    BY <2>2, <2>3, RequestFacts, RequestOfStack
  <2>5. PictureOf' = PictureOf /\ PictureOf[n] = None
    BY <2>3 DEF PictureOf
  <2>6. QED
    BY <1>1, <2>3, <2>4, <2>5 DEF Store!Store
<1>4. QED
  BY <1>2, <1>3 DEF Request, Store!Next

\* getImage returns.
LEMMA AnswerSeen ==
  ASSUME Cold, ColdInv, Ready, Answer
  PROVE  Store!Next
<1>1. PICK f \in Frames :
        /\ stack = <<f>> /\ f.op = "getImage" /\ reply.name = f.name /\ f.name \in Names
        /\ image[f.name].status \in {"none", "stored"}
        /\ stack' = <<>> /\ UNCHANGED <<storage, up, col, trees, image>>
        /\ \E r : /\ reply' = [reply EXCEPT !.answer = r]
                  /\ f.name \in Stored => r = <<f.name, image[f.name].payload>>
                  /\ image[f.name].status = "none" => r = NotFound
  BY AnswerFacts
<1>2. PICK r : /\ reply' = [reply EXCEPT !.answer = r]
               /\ f.name \in Stored => r = <<f.name, image[f.name].payload>>
               /\ image[f.name].status = "none" => r = NotFound
  BY <1>1
<1>3. PICK q : q = RequestOf
  OBVIOUS
<1>4. /\ RequestOf = [op |-> "read", name |-> f.name] /\ RequestOf # None
      /\ q.op = "read" /\ q.name = f.name
  <2>1. RequestOf = [op |-> "read", name |-> f.name]
    BY <1>1, RequestFacts, RequestOfStack
  <2>2. QED
    BY <1>1, <1>3, <2>1, RequestsAssumption
<1>5. RequestOf' = None /\ PictureOf' = PictureOf
  BY <1>1, RequestFacts, RequestOfStack DEF PictureOf
<1>6. /\ image[f.name].status = "none" => PictureOf[f.name] = None
      /\ image[f.name].status = "stored" =>
           /\ f.name \in Stored /\ PictureOf[f.name] = image[f.name].payload
           /\ PictureOf[f.name] # None
  BY <1>1, ValuesAssumption DEF PictureOf, Stored, ColdInv, PayloadInv
<1>7. r = IF PictureOf[f.name] = None THEN NotFound ELSE <<f.name, PictureOf[f.name]>>
  BY <1>1, <1>2, <1>6
<1>8. Store!Answered
  BY <1>2, <1>3, <1>4, <1>5, <1>7 DEF Store!Answered
<1>9. QED
  BY <1>8 DEF Store!Next

\* diskWriter begins: what it writes is no picture yet.
LEMMA StartUnseen ==
  ASSUME Cold, ColdInv, Ready, StartWriting
  PROVE  UNCHANGED <<PictureOf, RequestOf, reply>>
<1>1. PICK f \in Frames :
        /\ stack = <<f>> /\ Head(stack) = f /\ f.op = "imageDecomposer"
        /\ image[f.name].status = "none"
  BY ReadyTop DEF StartWriting, Running
<1>2. PICK w : w = [op |-> "diskWriter", name |-> f.name, payload |-> f.payload, todo |-> AllFiles]
  OBVIOUS
<1>3. w.op = "diskWriter" /\ w.name = f.name /\ w.payload = f.payload
  BY <1>2
<1>4. stack' = <<w>> /\ reply' = reply
  <2>1. stack' = <<w>> \o Tail(stack) /\ reply' = reply
    BY <1>1, <1>2 DEF StartWriting, Replace, AllFiles
  <2>2. QED
    BY <1>1, <2>1, Calls
<1>5. RequestOf' = RequestOf
  <2>1. RequestIn(stack) = [op |-> "store", name |-> f.name, payload |-> f.payload]
    BY <1>1, RequestFacts
  <2>2. RequestIn(stack') = [op |-> "store", name |-> w.name, payload |-> w.payload]
    BY <1>3, <1>4, RequestFacts
  <2>3. QED
    BY <1>3, <2>1, <2>2, RequestOfStack
<1>6. PictureOf' = PictureOf
  <2> DEFINE e == [status |-> "partial", payload |-> f.payload, parity |-> c_disk]
  <2>1. image' = [image EXCEPT ![f.name] = e] /\ e.status = "partial"
    BY <1>1 DEF StartWriting
  <2> HIDE DEF e
  <2>2. f.name \in Names /\ image \in [Names -> [status : {"none", "partial", "stored", "mixed"},
                          payload : Payloads \cup {None}, parity : 0..3]]
    BY <1>1, FrameFields DEF ColdInv, SpreadInv, TypeOK
  <2>3. \A n \in Names : /\ n # f.name => image'[n] = image[n]
                         /\ n = f.name => image'[n].status = "partial"
    BY <2>1, <2>2
  <2>4. \A n \in Names : PictureOf'[n] = PictureOf[n]
    BY <1>1, <2>3 DEF PictureOf
  <2>5. QED
    BY <2>4 DEF PictureOf
<1>7. QED
  BY <1>4, <1>5, <1>6

\* The tree file is written last: now there is the picture.
LEMMA TreeSeen ==
  ASSUME Cold, ColdInv, Writing, WriteTree
  PROVE  Store!Next
<1>1. PICK f : f = Head(stack)
  OBVIOUS
<1>2. /\ f \in Frames /\ stack = <<f>> /\ f.op = "diskWriter" /\ Tail(stack) = <<>>
      /\ image[f.name].payload = f.payload
      /\ f.name \in Names /\ f.payload \in Payloads
      /\ image[f.name].status = "partial"
  BY <1>1, WritingTop
<1>3. /\ stack' = <<>> /\ reply' = reply
      /\ image' = [image EXCEPT ![f.name].status = IF @ = "partial" THEN "stored" ELSE @]
  BY <1>1, <1>2 DEF WriteTree, Return
<1>4. PICK q : q = RequestOf
  OBVIOUS
<1>5. /\ RequestOf # None /\ q.op = "store" /\ q.name = f.name /\ q.payload = f.payload
      /\ RequestOf' = None
  <2>1. RequestOf = [op |-> "store", name |-> f.name, payload |-> f.payload]
    BY <1>2, RequestFacts, RequestOfStack
  <2>2. RequestOf' = None
    BY <1>3, RequestFacts, RequestOfStack
  <2>3. QED
    BY <1>2, <1>4, <2>1, <2>2, RequestsAssumption
<1>6. PictureOf' = [PictureOf EXCEPT ![f.name] = f.payload]
  <2>1. image \in [Names -> [status : {"none", "partial", "stored", "mixed"},
                             payload : Payloads \cup {None}, parity : 0..3]]
    BY DEF ColdInv, SpreadInv, TypeOK
  <2>2. /\ image'[f.name].status = "stored" /\ image'[f.name].payload = f.payload
        /\ \A n \in Names : n # f.name => image'[n] = image[n]
    BY <1>2, <1>3, <2>1
  <2>3. QED
    BY <1>2, <2>2 DEF PictureOf
<1>7. Store!Stored
  BY <1>3, <1>4, <1>5, <1>6 DEF Store!Stored
<1>8. QED
  BY <1>7 DEF Store!Next

\* Every step of the controller is one of the store, or is not seen.
LEMMA StoreStep ==
  ASSUME Cold, ColdInv, Next
  PROVE  Store!Next \/ UNCHANGED <<PictureOf, RequestOf, reply>>
<1>1. CASE Booting \/ Repairs
  BY <1>1, BootUnseen
<1>2. CASE Down
  <2>1. /\ stack = <<>> /\ stack' \in {<<>>, <<VerifierFrame, BootFrame>>}
        /\ image' = image /\ reply' = reply
    BY <1>2, StepByCall DEF Down, Boot, DiskFail
  <2>2. QED
    BY <2>1, RequestFacts, RequestOfStack DEF PictureOf
<1>3. CASE Ready
  <2>1. /\ up
        /\ stack # <<>> =>
             Head(stack).op \in {"boot", "diskVerifier", "getImage", "imageDecomposer"}
    BY <1>3, Calls DEF Ready
  <2>2. CASE stack = <<>> /\ Request
    BY <2>2, RequestSeen
  <2>3. CASE stack = <<>> /\ Die /\ UNCHANGED <<storage, image, reply>>
    BY <2>3 DEF Die, PictureOf, RequestOf
  <2>4. CASE stack # <<>> /\ Head(stack).op = "boot" /\ EndBoot
    <3>1. stack = <<BootFrame>>
      BY <1>3, <2>4, Calls DEF Ready
    <3>2. stack' = <<>> /\ image' = image /\ reply' = reply
      BY <2>4, <3>1, Calls DEF EndBoot, Return
    <3>3. QED
      BY <3>1, <3>2, RequestFacts, RequestOfStack DEF PictureOf
  <2>5. CASE Head(stack).op = "diskVerifier" /\ Verify
    <3>1. VerifyNothing
      BY <1>3, <2>5, NothingLost DEF Ready, AllThere
    <3>2. image' = image /\ reply' = reply /\ stack' = Tail(stack) /\ stack # <<>>
      BY <3>1 DEF VerifyNothing, Running, Return
    <3>3. PICK f : /\ stack = <<VerifierFrame, f>>
                   /\ f.op = "getImage" \/ f.op = "imageDecomposer"
      <4>1. stack # <<BootFrame>>
        BY <2>5, Calls
      <4>2. \A f : stack = <<f>> => f.op = "diskVerifier"
        BY <2>5, Calls
      <4>3. QED
        BY <1>3, <3>2, <4>1, <4>2 DEF Ready
    <3>4. stack' = <<f>>
      BY <3>2, <3>3, Calls
    <3>5. RequestIn(<<f>>) = RequestIn(<<VerifierFrame, f>>)
      BY <3>3, RequestFacts
    <3>6. QED
      BY <3>2, <3>3, <3>4, <3>5, RequestOfStack DEF PictureOf
  <2>6. QED
    BY <1>3, <2>1, <2>2, <2>3, <2>4, <2>5, StepByCall, AnswerSeen, StartUnseen
<1>4. CASE Writing
  <2>1. up /\ stack # <<>> /\ Head(stack).op = "diskWriter"
    BY <1>4, Calls DEF Writing
  <2>2. CASE WriteFile
    <3>1. PICK f : f = Head(stack)
      OBVIOUS
    <3>2. stack = <<f>> /\ f.op = "diskWriter" /\ Tail(stack) = <<>> /\ f \in Frames
      BY <1>4, <3>1, WritingTop
    <3>3. f \in [op : {"diskWriter"}, name : Names, payload : Payloads,
                 todo : Seq(Disks \X PartNumbs)]
      BY <3>2, FrameFields
    <3>4. PICK g : g = [f EXCEPT !.todo = Tail(@)]
      OBVIOUS
    <3>5. g.op = "diskWriter" /\ g.name = f.name /\ g.payload = f.payload
      BY <3>3, <3>4
    <3>6. stack' = <<g>> \o Tail(stack) /\ image' = image /\ reply' = reply
      BY <2>2, <3>1, <3>4 DEF WriteFile, Replace
    <3>7. stack' = <<g>>
      BY <3>2, <3>6, Calls
    <3>8. RequestIn(stack) = [op |-> "store", name |-> f.name, payload |-> f.payload]
      BY <3>2, RequestFacts
    <3>9. RequestIn(stack') = [op |-> "store", name |-> g.name, payload |-> g.payload]
      BY <3>5, <3>7, RequestFacts
    <3>10. QED
      BY <3>5, <3>6, <3>8, <3>9, RequestOfStack DEF PictureOf
  <2>3. QED
    BY <1>4, <2>1, <2>2, StepByCall, TreeSeen
<1>5. QED
  BY <1>1, <1>2, <1>3, <1>4 DEF ColdInv

\* The safety part of ImplementsStore, for any number of names and pictures:
\* the controller begins as an empty store, and every step of it, in boots,
\* rebuilds and repairs too, is one of the store or leaves it as it is.
THEOREM ColdStore ==
  ASSUME Cold
  PROVE  Spec => Store!Init /\ [][Store!Next]_(Store!vars)
<1>1. Init => Store!Init
  <2> SUFFICES ASSUME Init PROVE Store!Init
    OBVIOUS
  <2>1. RequestOf = None
    BY RequestFacts, RequestOfStack DEF Init
  <2>2. PictureOf = [n \in Names |-> None]
    BY DEF Init, PictureOf
  <2>3. reply \in [name : Names, answer : {None}]
    BY NamesAssumption DEF Init, Names
  <2>4. QED
    BY <2>1, <2>2, <2>3 DEF Store!Init
<1>2. ColdInv /\ [Next]_vars => [Store!Next]_(Store!vars)
  <2>1. ASSUME UNCHANGED vars PROVE UNCHANGED <<PictureOf, RequestOf, reply>>
    BY <2>1 DEF vars, PictureOf, RequestOf
  <2>2. QED
    BY <2>1, StoreStep DEF Store!vars
<1>3. Spec => []ColdInv
  BY ColdInvariance
<1>4. QED
  BY <1>1, <1>2, <1>3, PTL DEF Spec

-----------------------------------------------------------------------------
(* What a boot finds and leaves.  The process may have been stopped in the *)
(* middle of any call of any earlier life, names may be stored again and   *)
(* trees spoiled; disks are lost while no call is in progress.             *)

StripOf(l) == <<DiskOf(l), NameOf(l), 50 + NumbOf(l)>>

\* Of the names still to be repaired the disk holds nothing, but for the Info
\* file of the least and what the pass over its parts has behind it.
Unwritten(f, X) ==
  \A l \in Locs :
    DiskOf(l) = f.ref /\ NameOf(l) \in f.names /\ file[l] # NoFile =>
      /\ f.at = "parts" /\ IsLeast(NameOf(l), f.names)
      /\ NumbOf(l) # 4 /\ l \notin f.parts \cup f.imgs \cup X

InfoCopied(f) ==
  \A n \in f.names :
    IsLeast(n, f.names) => file[<<f.ref, n, 0>>] = Existing(<<Ante(f.ref), n, 0>>)

\* The strip of a data fragment is registered beside it, so the loop meets
\* the two at the same index.
Paired(f) ==
  Registered \subseteq Stored =>
    /\ \A n \in Names, k \in 1..3 :
         <<f.ref, n, k>> \in col <=> <<f.ref, n, 50 + k>> \in col
    /\ f.at = "parts" => f.imgs = {StripOf(l) : l \in f.parts}

Repairable(f, X) ==
  /\ f.op = "repair" /\ dir = Disks
  /\ f.at = "parts" =>
       /\ InfoCopied(f)
       /\ \A l \in f.parts : l \in col /\ DiskOf(l) = f.ref /\ NumbOf(l) \in 1..3
       /\ \A l \in f.imgs : l \in col /\ DiskOf(l) = f.ref /\ NumbOf(l) \in StripNumbs
  /\ Unwritten(f, X) /\ Paired(f)

\* The other disks determine the part whose strip is restored.
OthersWhole(d) == Registered \subseteq Stored /\ \A e \in Disks \ {d} : Whole(e)

Restorable(f, m) ==
  /\ f.at = "parts" /\ m \in col /\ DiskOf(m) = f.ref /\ NumbOf(m) \in StripNumbs
  /\ IsLeast(NameOf(m), f.names) /\ m \notin f.imgs
  /\ OthersWhole(f.ref) => FragmentRight(f.ref, NameOf(m))

BootRepairs(f) ==
  \/ stack = <<f, BootFrame>> /\ Repairable(f, {})
  \/ \E g \in Frames :
       /\ stack \in {<<g, f, BootFrame>>, <<VerifierFrame, g, f, BootFrame>>}
       /\ g.op = "imageRestore" /\ Repairable(f, {g.img}) /\ Restorable(f, g.img)

KnowsFiles ==
  /\ trees = {n \in Names : treeFile[n] # NoFile}
  /\ \A l \in Locs : file[l] # NoFile => l \in col \/ NumbOf(l) = 0

BootGoes ==
  /\ KnowsFiles
  /\ \/ stack = <<VerifierFrame, BootFrame>> /\ \A l \in col : file[l] # NoFile
     \/ stack = <<BootFrame>>
     \/ \E f \in Frames : BootRepairs(f)

\* A disk without its directory has no files.
Placed == \A l \in Locs : file[l] # NoFile => DiskOf(l) \in dir

BootInv ==
  /\ SpreadInv /\ PayloadInv /\ Placed
  /\ stack # <<>> => up
  /\ stack # <<>> /\ Base = "boot" => BootGoes

-----------------------------------------------------------------------------
(* Files and calls.                                                        *)

LEMMA PlacedNext ==
  ASSUME TypeOK, Placed, [Next]_vars
  PROVE  Placed'
<1>1. file \in [Locs -> Contents]
  BY DEF TypeOK, Contents
<1>2. ASSUME dir \subseteq dir', NEW l, NEW c, Put(l, c)
      PROVE  Placed'
  <2>1. CASE DiskOf(l) \in dir
    <3>1. \A m \in Locs : m # l => file'[m] = file[m]
      BY <1>1, <1>2, <2>1 DEF Put
    <3>2. QED
      BY <1>2, <2>1, <3>1 DEF Placed
  <2>2. CASE DiskOf(l) \notin dir
    BY <1>2, <2>2 DEF Put, Placed
  <2>3. QED
    BY <2>1, <2>2
<1>3. CASE file' = file /\ dir \subseteq dir'
  BY <1>3 DEF Placed
<1>4. CASE WriteFile
  BY <1>2, <1>4 DEF WriteFile
<1>5. CASE RepairInfo
  BY <1>2, <1>5 DEF RepairInfo
<1>6. CASE RepairPart
  BY <1>2, <1>3, <1>6 DEF RepairPart
<1>7. CASE RepairParity
  BY <1>2, <1>3, <1>7 DEF RepairParity
<1>8. CASE imageRestore
  BY <1>2, <1>3, <1>8 DEF imageRestore
<1>9. CASE Crash
  <2>1. dir' = dir /\ (file' = file \/ \E l, c : Put(l, c))
    BY <1>9 DEF Crash
  <2>2. QED
    BY <1>2, <1>3, <2>1
<1>10. CASE \E d \in Disks : DiskFail(d)
  <2>1. PICK d \in Disks : DiskFail(d)
    BY <1>10
  <2>2. \A l \in Locs : file'[l] = IF DiskOf(l) = d THEN NoFile ELSE file[l]
    BY <2>1 DEF DiskFail
  <2>3. dir' = dir \ {d}
    BY <2>1 DEF DiskFail
  <2>4. QED
    BY <2>2, <2>3 DEF Placed
<1>11. CASE Verify
  <2>1. file' = file
    BY <1>11 DEF Verify, VerifyNothing, VerifyAllGone, VerifyTooMany, reconstructDisk, storage
  <2>2. dir' = dir \/ dir' = Disks
    BY <1>11 DEF Verify, VerifyNothing, VerifyAllGone, VerifyTooMany, reconstructDisk, storage
  <2>3. QED
    BY <1>3, <2>1, <2>2 DEF TypeOK
<1>12. CASE Boot \/ Request \/ StartWriting \/ WriteTree \/ Answer \/ EndBoot \/ RepairDone
            \/ UNCHANGED vars
  <2>1. file' = file /\ dir' = dir
    BY <1>12 DEF Boot, Request, getImage, imageDecomposer, StartWriting, WriteTree, Answer,
                 EndBoot, RepairDone, storage, vars
  <2>2. QED
    BY <1>3, <2>1
<1>13. QED
  BY <1>4, <1>5, <1>6, <1>7, <1>8, <1>9, <1>10, <1>11, <1>12 DEF Next, Step, Repair, Write

\* A boot is no call of a caller, and no call of a caller becomes one.
LEMMA BaseKept ==
  ASSUME TypeOK, [Next]_vars, up, stack # <<>>, Base # "boot", stack' # <<>>
  PROVE  (Base # "boot")'
<1>1. stack \in Seq(Frames) /\ Len(stack) \in Nat \ {0}
  <2>1. stack \in Seq(Frames)
    BY DEF TypeOK
  <2>2. QED
    BY <2>1, Pop
<1>2. CASE stack' = stack
  BY <1>2 DEF Base
<1>3. CASE stack' = Tail(stack)
  <2>1. Len(stack') = Len(stack) - 1 /\ \A i \in 1..Len(stack') : stack'[i] = stack[i + 1]
    BY <1>1, <1>3, Pop
  <2>2. Len(stack') # 0
    BY <1>1, <1>3
  <2>3. stack'[Len(stack')] = stack[Len(stack)]
    BY <1>1, <2>1, <2>2
  <2>4. QED
    BY <2>3 DEF Base
<1>4. ASSUME NEW s \in Seq(Frames), NEW f \in Frames, f.op # "boot",
             stack' = s \o (<<f>> \o Tail(stack))
      PROVE  (Base # "boot")'
  <2> DEFINE t == <<f>> \o Tail(stack)
  <2>1. /\ Tail(stack) \in Seq(Frames) /\ Len(Tail(stack)) = Len(stack) - 1
        /\ \A i \in 1..Len(Tail(stack)) : Tail(stack)[i] = stack[i + 1]
    BY <1>1, Pop
  <2>2. /\ t \in Seq(Frames) /\ Len(t) = Len(stack) /\ t[1] = f
        /\ \A i \in 1..Len(Tail(stack)) : t[i + 1] = stack[i + 1]
    BY <1>1, <1>4, <2>1, Push
  <2> HIDE DEF t
  <2>3. t[Len(t)].op # "boot"
    <3>1. CASE Len(stack) = 1
      BY <1>4, <2>2, <3>1
    <3>2. CASE Len(stack) # 1
      <4>1. Len(stack) - 1 \in 1..Len(Tail(stack)) /\ (Len(stack) - 1) + 1 = Len(stack)
        BY <1>1, <2>1, <3>2
      <4>2. t[Len(t)] = stack[Len(stack)]
        BY <2>2, <4>1
      <4>3. QED
        BY <4>2 DEF Base
    <3>3. QED
      BY <3>1, <3>2
  <2>4. Len(s) \in Nat /\ Len(t) \in Nat \ {0}
    BY <1>1, <2>2
  <2>5. stack' = s \o t
    BY <1>4 DEF t
  <2>6. Len(stack') = Len(s) + Len(t) /\ stack'[Len(s) + Len(t)] = t[Len(t)]
    <3>1. Len(s \o t) = Len(s) + Len(t)
      BY <2>2, <2>4, ConcatProperties
    <3>2. Len(s) + Len(t) \in 1..(Len(s) + Len(t)) /\ ~(Len(s) + Len(t) <= Len(s))
      BY <2>4
    <3>3. (s \o t)[Len(s) + Len(t)] = t[(Len(s) + Len(t)) - Len(s)]
      BY <2>2, <2>4, <3>2, ConcatProperties
    <3>4. QED
      BY <2>4, <2>5, <3>1, <3>3
  <2>7. QED
    BY <2>3, <2>6 DEF Base
<1>5. ASSUME NEW f \in Frames, f.op # "boot", stack' = <<f>> \o Tail(stack)
      PROVE  (Base # "boot")'
  <2>1. <<>> \in Seq(Frames) /\ <<f>> \o Tail(stack) \in Seq(Frames)
    BY <1>5, StackTypes
  <2>2. stack' = <<>> \o (<<f>> \o Tail(stack))
    BY <1>5, <2>1
  <2>3. QED
    BY <1>4, <1>5, <2>1, <2>2
<1>6. ~Boot /\ ~Request
  BY DEF Boot, Request, getImage, imageDecomposer, Idle
<1>7. CASE Crash \/ Answer \/ EndBoot \/ VerifyNothing \/ VerifyAllGone \/ VerifyTooMany
           \/ RepairDone \/ imageRestore \/ WriteTree \/ (\E d \in Disks : DiskFail(d))
           \/ UNCHANGED vars
  BY <1>2, <1>3, <1>7, ThrowStack
     DEF Crash, Die, Answer, EndBoot, VerifyNothing, VerifyAllGone, VerifyTooMany,
         RepairDone, imageRestore, WriteTree, DiskFail, Return, vars
<1>8. CASE \E d \in Disks : reconstructDisk(d)
  <2>1. PICK d \in Disks : reconstructDisk(d)
    BY <1>8
  <2>2. stack' = <<>> \/ stack' = <<RepairFrame(d)>> \o Tail(stack)
    BY <2>1, ThrowStack DEF reconstructDisk, Replace
  <2>3. RepairFrame(d) \in Frames /\ RepairFrame(d).op = "repair"
    <3>1. RepairFrame(d).op = "repair"
      BY DEF RepairFrame
    <3>2. QED
      BY <3>1, RepairFrameType DEF TypeOK
  <2>4. QED
    BY <1>5, <2>2, <2>3
<1>9. CASE StartWriting
  <2> DEFINE f == Head(stack)
             w == [op |-> "diskWriter", name |-> f.name, payload |-> f.payload,
                   todo |-> AllFiles]
  <2>1. f \in Frames /\ f.op = "imageDecomposer"
    BY <1>9, StackTypes DEF StartWriting, Running
  <2>2. f.name \in Names /\ f.payload \in Payloads
    BY <2>1, FrameFields
  <2>3. AllFiles \in Seq(Disks \X PartNumbs)
    BY AllFilesType DEF TypeOK
  <2>4. w \in Frames /\ w.op # "boot"
    BY <2>2, <2>3, PushedFrames
  <2>5. stack' = <<w>> \o Tail(stack)
    BY <1>9 DEF StartWriting, Replace, AllFiles, f
  <2> HIDE DEF w
  <2>6. QED
    BY <1>5, <2>4, <2>5
<1>10. CASE WriteFile
  <2> DEFINE f == Head(stack)
             g == [f EXCEPT !.todo = Tail(@)]
  <2>1. f \in Frames /\ f.op = "diskWriter" /\ f.todo # <<>> /\ stack' = <<g>> \o Tail(stack)
    BY <1>10, StackTypes DEF WriteFile, Running, Replace
  <2>2. f \in [op : {"diskWriter"}, name : Names, payload : Payloads,
               todo : Seq(Disks \X PartNumbs)]
    BY <2>1, FrameFields
  <2>3. g \in Frames /\ g.op = "diskWriter"
    <3>1. g \in Frames
      BY <2>1, <2>2, WriterFacts
    <3>2. QED
      BY <2>2, <3>1
  <2> HIDE DEF f, g
  <2>4. QED
    BY <1>5, <2>1, <2>3
<1>11. CASE RepairInfo
  <2> DEFINE f == Head(stack)
             P == {l \in Column(f.ref) : NumbOf(l) \in 1..3}
             Q == {l \in Column(f.ref) : NumbOf(l) \in StripNumbs}
             g == [f EXCEPT !.at = "parts", !.parts = P, !.imgs = Q]
  <2>1. f \in RepairFrames
    BY <1>11, RepairTop DEF RepairInfo, Repairing
  <2>2. stack' = <<g>> \o Tail(stack)
    BY <1>11 DEF RepairInfo, Replace
  <2>3. P \in SUBSET Locs /\ Q \in SUBSET Locs
    BY DEF TypeOK, Column
  <2> HIDE DEF P, Q, f
  <2>4. g \in RepairFrames /\ g.op = "repair"
    BY <2>1, <2>3 DEF RepairFrames
  <2> HIDE DEF g
  <2>5. QED
    BY <1>5, <2>2, <2>4, RepairFramesFrames
<1>12. CASE RepairPart
  <2> DEFINE f == Head(stack)
  <2>1. f \in RepairFrames
    BY <1>12, RepairTop DEF RepairPart, Repairing
  <2>2. \/ stack' = <<>>
        \/ \E n \in f.names, l \in f.parts, m \in f.imgs :
             stack' = (IF NameOf(m) = n
                       THEN <<VerifierFrame, [op |-> "imageRestore", img |-> m]>>
                       ELSE <<>>)
                      \o <<[f EXCEPT !.parts = @ \ {l}, !.imgs = @ \ {m}]>> \o Tail(stack)
    BY <1>12, ThrowStack DEF RepairPart
  <2>3. SUFFICES ASSUME NEW n \in f.names, NEW l \in f.parts, NEW m \in f.imgs,
                        stack' = (IF NameOf(m) = n
                                  THEN <<VerifierFrame, [op |-> "imageRestore", img |-> m]>>
                                  ELSE <<>>)
                                 \o <<[f EXCEPT !.parts = @ \ {l}, !.imgs = @ \ {m}]>> \o Tail(stack)
                 PROVE  (Base # "boot")'
    BY <2>2
  <2> DEFINE g == [f EXCEPT !.parts = @ \ {l}, !.imgs = @ \ {m}]
             s == IF NameOf(m) = n THEN <<VerifierFrame, [op |-> "imageRestore", img |-> m]>>
                                   ELSE <<>>
  <2>4. g \in RepairFrames /\ g.op = "repair"
    BY <2>1 DEF RepairFrames
  <2>5. g \in Frames
    BY <2>4, RepairFramesFrames
  <2>6. s \in Seq(Frames)
    <3>1. m \in Locs
      BY <2>1 DEF RepairFrames
    <3>2. VerifierFrame \in Frames /\ [op |-> "imageRestore", img |-> m] \in Frames
      BY <3>1, PushedFrames
    <3> HIDE DEF f
    <3>3. QED
      BY <3>2
  <2>7. Tail(stack) \in Seq(Frames)
    BY <1>1, Pop
  <2>8. stack' = s \o <<g>> \o Tail(stack)
    BY <2>3
  <2> HIDE DEF f, g, s
  <2>9. stack' = s \o (<<g>> \o Tail(stack))
    <3>1. <<g>> \in Seq(Frames)
      BY <2>5
    <3>2. QED
      BY <2>6, <2>7, <2>8, <3>1, ConcatAssociative
  <2>10. QED
    BY <1>4, <2>4, <2>5, <2>6, <2>9
<1>13. CASE RepairParity
  <2> DEFINE f == Head(stack)
  <2>1. f \in RepairFrames
    BY <1>13, RepairTop DEF RepairParity, Repairing
  <2>2. \/ stack' = <<>>
        \/ \E n \in f.names :
             stack' = <<[f EXCEPT !.at = "info", !.names = @ \ {n}, !.imgs = {}]>> \o Tail(stack)
    BY <1>13, ThrowStack DEF RepairParity, Replace
  <2> HIDE DEF f
  <2>3. ASSUME NEW n \in f.names,
               stack' = <<[f EXCEPT !.at = "info", !.names = @ \ {n}, !.imgs = {}]>> \o Tail(stack)
        PROVE  (Base # "boot")'
    <3> DEFINE g == [f EXCEPT !.at = "info", !.names = @ \ {n}, !.imgs = {}]
    <3>1. g \in RepairFrames /\ g.op = "repair"
      BY <2>1 DEF RepairFrames
    <3>2. stack' = <<g>> \o Tail(stack)
      BY <2>3
    <3> HIDE DEF g
    <3>3. QED
      BY <1>5, <3>1, <3>2, RepairFramesFrames
  <2>4. QED
    BY <2>2, <2>3
<1>14. QED
  BY <1>6, <1>7, <1>8, <1>9, <1>10, <1>11, <1>12, <1>13
     DEF Next, Step, Verify, Repair, Write

\* The rebuilt column registers beside each data fragment its strip, and no
\* other strip, where the names are of images stored to the end.
LEMMA RebuiltPairs ==
  ASSUME TypeOK, FilesGood, NEW d \in Disks, Column(d) = {}, Registered \subseteq Stored,
         \A n \in Registered : ~Bad(n)
  PROVE  \A n \in Names, k \in 1..3 :
           <<d, n, k>> \in Rebuilt(d) <=> <<d, n, 50 + k>> \in Rebuilt(d)
<1>1. Rebuilt(d) = UNION {{NewFragment(d, n)} \cup NewStrips(d, n) : n \in Registered}
  BY DEF Rebuilt, Bad, AfterBad
<1>2. \A n \in Registered : n \in Names /\ n \in Stored /\ image[n].status = "stored"
  BY DEF Stored
<1>3. \A l \in Rebuilt(d) : l \in Locs /\ Good(image, l)
  BY RebuiltGood, RebuiltType DEF TypeOK
<1>4. ASSUME NEW n \in Registered
      PROVE  /\ FragOf(image[n].parity, d) \in 1..4
             /\ FragNumbs \ Numbs(n) = {FragOf(image[n].parity, d)}
             /\ NewFragment(d, n) = <<d, n, FragOf(image[n].parity, d)>>
  <2>1. Numbs(n) # {}
    BY DEF Bad
  <2>2. FragOf(image[n].parity, d) \in 1..4
    BY <1>2, Places4
  <2>3. FragNumbs \ Numbs(n) = {FragOf(image[n].parity, d)}
    BY <1>2, <2>1, MissingFragment
  <2>4. Least({FragOf(image[n].parity, d)}) = FragOf(image[n].parity, d)
    BY <2>2, LeastFacts
  <2>5. QED
    BY <2>2, <2>3, <2>4 DEF NewFragment
<1>5. ASSUME NEW n \in Registered, NEW l \in NewStrips(d, n)
      PROVE  /\ FragOf(image[n].parity, d) \in 1..3
             /\ l = <<d, n, 50 + FragOf(image[n].parity, d)>>
  <2>1. MissingStrips(n) # {} /\ l = <<d, n, 50 + Least(MissingStrips(n))>>
    BY DEF NewStrips
  <2>2. MissingStrips(n) \in SUBSET (1..4) /\ MissingStrips(n) \subseteq 1..3
    BY DEF MissingStrips
  <2>3. Least(MissingStrips(n)) \in 1..3
    BY <2>1, <2>2, LeastFacts
  <2>4. l \in Rebuilt(d)
    BY <1>1
  <2>5. DiskOf(l) = d /\ NameOf(l) = n /\ NumbOf(l) = 50 + Least(MissingStrips(n))
    BY <2>1, LocFields
  <2>6. NumbOf(l) \in SlotsAt(image[n].parity, d)
    BY <1>2, <1>3, <2>3, <2>4, <2>5 DEF Good
  <2> DEFINE F == FragOf(image[n].parity, d)
  <2>7. F \in 1..4 /\ (NumbOf(l) \in {4} \/ (F # 4 /\ NumbOf(l) \in {F, 50 + F}))
    BY <1>4, <2>6 DEF SlotsAt
  <2> HIDE DEF F
  <2>8. F \in 1..3 /\ Least(MissingStrips(n)) = F
    BY <2>3, <2>5, <2>7
  <2>9. QED
    BY <2>1, <2>8 DEF F
<1>6. ASSUME NEW n \in Registered, FragOf(image[n].parity, d) \in 1..3
      PROVE  NewStrips(d, n) # {}
  <2> DEFINE F == FragOf(image[n].parity, d)
  <2>1. F \notin Numbs(n)
    BY <1>4
  <2>2. ASSUME NEW l \in Strips(n) PROVE NumbOf(l) - 50 # F
    <3>1. l \in col /\ l \in Locs /\ NameOf(l) = n /\ NumbOf(l) \in 51..53 /\ DiskOf(l) \in Disks
      BY LocFields DEF Strips, StripNumbs, TypeOK
    <3>2. DiskOf(l) # d
      BY <3>1 DEF Column
    <3>3. NumbOf(l) \in SlotsAt(image[n].parity, DiskOf(l))
      BY <1>2, <3>1 DEF FilesGood, Good
    <3>4. NumbOf(l) = 50 + FragOf(image[n].parity, DiskOf(l))
      <4>1. FragOf(image[n].parity, DiskOf(l)) \in 1..4
        BY <1>2, <3>1, Places4
      <4>2. QED
        BY <3>1, <3>3, <4>1 DEF SlotsAt
    <3>5. FragOf(image[n].parity, DiskOf(l)) # F
      BY <1>2, <3>1, <3>2, FragmentsApart
    <3>6. FragOf(image[n].parity, DiskOf(l)) \in 1..4
      BY <1>2, <3>1, Places4
    <3> HIDE DEF F
    <3>7. QED
      BY <1>4, <3>4, <3>5, <3>6
  <2>3. F \in MissingStrips(n)
    BY <1>6, <2>1, <2>2 DEF MissingStrips
  <2>4. QED
    BY <2>3 DEF NewStrips
<1>7. ASSUME NEW n \in Names, NEW k \in 1..3
      PROVE  /\ <<d, n, k>> \in Rebuilt(d) <=> n \in Registered /\ FragOf(image[n].parity, d) = k
             /\ <<d, n, 50 + k>> \in Rebuilt(d) <=> n \in Registered /\ FragOf(image[n].parity, d) = k
  <2>1. ASSUME NEW j, <<d, n, j>> \in Rebuilt(d)
        PROVE  /\ n \in Registered
               /\ \/ j = FragOf(image[n].parity, d)
                  \/ FragOf(image[n].parity, d) \in 1..3 /\ j = 50 + FragOf(image[n].parity, d)
    <3>1. PICK m \in Registered : <<d, n, j>> \in {NewFragment(d, m)} \cup NewStrips(d, m)
      BY <1>1, <2>1
    <3>2. CASE <<d, n, j>> = NewFragment(d, m)
      <4>1. <<d, n, j>> = <<d, m, FragOf(image[m].parity, d)>>
        BY <1>4, <3>2
      <4>2. QED
        BY <4>1
    <3>3. CASE <<d, n, j>> \in NewStrips(d, m)
      <4>1. <<d, n, j>> = <<d, m, 50 + FragOf(image[m].parity, d)>> /\ FragOf(image[m].parity, d) \in 1..3
        BY <1>5, <3>3
      <4>2. QED
        BY <4>1
    <3>4. QED
      BY <3>1, <3>2, <3>3
  <2>2. ASSUME n \in Registered, FragOf(image[n].parity, d) = k
        PROVE  <<d, n, k>> \in Rebuilt(d) /\ <<d, n, 50 + k>> \in Rebuilt(d)
    <3>1. <<d, n, k>> \in Rebuilt(d)
      BY <1>1, <1>4, <2>2
    <3>2. PICK l \in NewStrips(d, n) : TRUE
      BY <1>6, <2>2
    <3>3. l = <<d, n, 50 + k>>
      BY <1>5, <2>2, <3>2
    <3>4. l \in Rebuilt(d)
      BY <1>1, <2>2, <3>2
    <3>5. QED
      BY <3>1, <3>3, <3>4
  <2>3. n \in Registered => FragOf(image[n].parity, d) \in 1..4
    BY <1>4
  <2>4. QED
    BY <2>1, <2>2, <2>3
<1>8. QED
  BY <1>7

\* What a step of a boot does, other than by stopping.
LEMMA BootCall ==
  ASSUME Failures # "any", Next, up, stack # <<>>
  PROVE  \/ Crash
         \/ Head(stack).op = "boot" /\ EndBoot
         \/ Head(stack).op = "diskVerifier" /\ Verify
         \/ Head(stack).op = "repair" /\ (RepairInfo \/ RepairPart \/ RepairParity \/ RepairDone)
         \/ Head(stack).op = "imageRestore" /\ imageRestore
         \/ Head(stack).op \in {"getImage", "imageDecomposer", "diskWriter"}
<1>1. ~Boot /\ ~Request
  BY DEF Boot, Request, getImage, imageDecomposer, Idle
<1>2. ~\E d \in Disks : DiskFail(d)
  BY SwitchesAssumption DEF DiskFail, MayFail
<1>3. CASE Verify
  BY <1>3 DEF Verify, VerifyNothing, VerifyAllGone, VerifyTooMany, reconstructDisk, Running
<1>4. CASE Write
  BY <1>4 DEF Write, StartWriting, WriteFile, WriteTree, Running
<1>5. CASE Repair
  BY <1>5 DEF Repair, RepairInfo, RepairPart, RepairParity, RepairDone, imageRestore,
              Repairing, Running
<1>6. CASE Answer \/ EndBoot
  BY <1>6 DEF Answer, EndBoot, Running
<1>7. QED
  BY <1>1, <1>2, <1>3, <1>4, <1>5, <1>6 DEF Next, Step

LEMMA PutFile ==
  ASSUME TypeOK, NEW l \in Locs, NEW c, Put(l, c), DiskOf(l) \in dir
  PROVE  file'[l] = c /\ \A m \in Locs : m # l => file'[m] = file[m]
BY DEF Put, TypeOK

\* A repair touches files of its disk that are registered, and Info files.
LEMMA BootKept ==
  ASSUME SpreadInv, KnowsFiles, NEW d \in Disks,
         UNCHANGED <<dir, treeFile, col, trees, image>>,
         \A l \in Locs : file'[l] # file[l] => DiskOf(l) = d /\ (l \in col \/ NumbOf(l) = 0)
  PROVE  /\ KnowsFiles' /\ Registered' = Registered /\ Stored' = Stored
         /\ \A e \in Disks, n \in Names : Fragment(e, n)' = Fragment(e, n)
         /\ \A e \in Disks \ {d} : Whole(e)' <=> Whole(e)
         /\ OthersWhole(d)' <=> OthersWhole(d)
         /\ \A l \in Locs : DiskOf(l) # d => Existing(l)' = Existing(l) /\ file'[l] = file[l]
<1>1. KnowsFiles'
  BY DEF KnowsFiles
<1>2. Registered' = Registered /\ Stored' = Stored
  BY DEF Registered, Stored
<1>3. \A e \in Disks, n \in Names : Fragment(e, n)' = Fragment(e, n)
  BY DEF Fragment
<1>4. \A l \in Locs : DiskOf(l) # d => Existing(l)' = Existing(l) /\ file'[l] = file[l]
  BY DEF Existing
<1>5. ASSUME NEW e \in Disks \ {d} PROVE Whole(e)' <=> Whole(e)
  <2>1. ASSUME NEW n \in Stored
        PROVE  /\ Slots(n, e)' = Slots(n, e)
               /\ \A k \in {0} \cup Slots(n, e) : Right(e, n, k)' <=> Right(e, n, k)
    <3>1. n \in Names
      BY DEF Stored
    <3>2. Slots(n, e)' = Slots(n, e)
      BY DEF Slots
    <3>3. ASSUME NEW k \in {0} \cup Slots(n, e) PROVE file'[<<e, n, k>>] = file[<<e, n, k>>]
      <4>1. <<e, n, k>> \in Locs
        BY <3>1, Places4 DEF SpreadInv, FilesAt
      <4>2. QED
        BY <1>4, <4>1, LocFields
    <3>4. QED
      BY <3>2, <3>3 DEF Right
  <2>2. QED
    BY <1>2, <2>1 DEF Whole
<1>6. OthersWhole(d)' <=> OthersWhole(d)
  BY <1>2, <1>5 DEF OthersWhole
<1>7. QED
  BY <1>1, <1>2, <1>3, <1>4, <1>5, <1>6

-----------------------------------------------------------------------------
(* The steps of a boot.                                                    *)

LEMMA BootBegins ==
  ASSUME TypeOK, Boot
  PROVE  BootGoes'
<1>1. /\ stack' = <<VerifierFrame, BootFrame>>
      /\ col' = {l \in Locs : file[l] # NoFile} /\ file' = file
      /\ trees' = {n \in Names : treeFile[n] # NoFile} /\ treeFile' = treeFile
  BY DEF Boot, storage
<1>2. KnowsFiles'
  BY <1>1 DEF KnowsFiles
<1>3. QED
  BY <1>1, <1>2 DEF BootGoes

LEMMA BootVerifies ==
  ASSUME SpreadInv, Placed, BootGoes, Verify,
         stack = <<VerifierFrame, BootFrame>>, \A l \in col : file[l] # NoFile
  PROVE  stack' = <<>> \/ BootGoes'
<1>1. Tail(stack) = <<BootFrame>>
  BY Calls
<1>2. KnowsFiles
  BY DEF BootGoes
<1>3. CASE VerifyNothing \/ VerifyAllGone
  <2>1. stack' = <<BootFrame>> /\ UNCHANGED <<file, treeFile, col, trees>>
    BY <1>1, <1>3 DEF VerifyNothing, VerifyAllGone, Return, storage, memory
  <2>2. QED
    BY <1>2, <2>1 DEF BootGoes, KnowsFiles
<1>4. CASE VerifyTooMany
  BY <1>4, ThrowStack DEF VerifyTooMany
<1>5. ASSUME NEW d \in Disks, reconstructDisk(d) PROVE stack' = <<>> \/ BootGoes'
  <2>1. TypeOK /\ FilesGood /\ d \notin dir
    BY <1>5 DEF SpreadInv, reconstructDisk
  <2>2. \A l \in Locs : DiskOf(l) = d => file[l] = NoFile
    BY <2>1 DEF Placed
  <2>3. Column(d) = {}
    BY <2>1, <2>2 DEF Column, TypeOK
  <2>4. SUFFICES ASSUME stack' # <<>> PROVE BootGoes'
    OBVIOUS
  <2>5. /\ \A n \in Registered : ~Bad(n)
        /\ col' = col \cup Rebuilt(d) /\ dir' = Disks
        /\ stack' = <<RepairFrame(d)>> \o <<BootFrame>>
        /\ UNCHANGED <<file, treeFile, trees, image>>
    BY <1>1, <1>5, <2>3, <2>4, ThrowStack DEF reconstructDisk, Replace
  <2>8. PICK g : g = RepairFrame(d)
    OBVIOUS
  <2>9. g.op = "repair" /\ g.ref = d /\ g.at = "info" /\ g \in Frames
    <3>1. g \in Frames
      BY <2>1, <2>8, RepairFrameType DEF TypeOK
    <3>2. QED
      BY <2>8, <3>1 DEF RepairFrame
  <2>10. stack' = <<g, BootFrame>>
    BY <2>5, <2>8, Concats
  <2>11. Unwritten(g, {})'
    BY <2>2, <2>5, <2>9 DEF Unwritten
  <2>12. Paired(g)'
    <3>1. SUFFICES ASSUME Registered' \subseteq Stored'
                   PROVE  \A n \in Names, k \in 1..3 :
                            <<d, n, k>> \in col' <=> <<d, n, 50 + k>> \in col'
      BY <2>9 DEF Paired
    <3>2. Registered \subseteq Stored
      BY <2>5, <3>1 DEF Registered, Stored
    <3>3. \A n \in Names, k \in 1..3 :
            <<d, n, k>> \in Rebuilt(d) <=> <<d, n, 50 + k>> \in Rebuilt(d)
      BY <2>1, <2>3, <2>5, <3>2, RebuiltPairs
    <3>4. \A n, k : <<d, n, k>> \notin col
      BY <2>3, LocFields DEF Column
    <3>5. QED
      BY <2>5, <3>3, <3>4
  <2>13. Repairable(g, {})'
    BY <2>5, <2>9, <2>11, <2>12 DEF Repairable
  <2>14. KnowsFiles'
    BY <1>2, <2>5 DEF KnowsFiles
  <2>15. QED
    BY <2>9, <2>10, <2>13, <2>14 DEF BootGoes, BootRepairs
<1>6. QED
  BY <1>3, <1>4, <1>5 DEF Verify

LEMMA BootRepairTop ==
  ASSUME TypeOK, BootGoes, NEW f, f = Head(stack), f.op = "repair"
  PROVE  /\ stack = <<f, BootFrame>> /\ Tail(stack) = <<BootFrame>> /\ Repairable(f, {})
         /\ f \in Frames /\ f \in RepairFrames
         /\ f.ref \in Disks /\ f.names \subseteq Names /\ f.at \in {"info", "parts"}
         /\ f.parts \subseteq Locs /\ f.imgs \subseteq Locs
<1>1. \E g \in Frames : BootRepairs(g)
  BY Calls DEF BootGoes
<1>2. PICK g \in Frames : BootRepairs(g)
  BY <1>1
<1>3. g = f /\ stack = <<f, BootFrame>> /\ Repairable(f, {})
  <2>1. CASE stack = <<g, BootFrame>> /\ Repairable(g, {})
    BY <2>1, Calls
  <2>2. ASSUME NEW h \in Frames, h.op = "imageRestore",
               stack \in {<<h, g, BootFrame>>, <<VerifierFrame, h, g, BootFrame>>}
        PROVE  FALSE
    <3>1. CASE stack = <<h, g, BootFrame>>
      BY <2>2, <3>1, Calls
    <3>2. CASE stack = <<VerifierFrame, h, g, BootFrame>>
      BY <3>2, Calls
    <3>3. QED
      BY <2>2, <3>1, <3>2
  <2>3. QED
    BY <1>2, <2>1, <2>2 DEF BootRepairs
<1>4. f \in RepairFrames
  BY <1>2, <1>3, FrameFields DEF RepairFrames
<1>5. QED
  BY <1>2, <1>3, <1>4, Calls DEF RepairFrames

LEMMA BootInfoStep ==
  ASSUME SpreadInv, BootGoes, Head(stack).op = "repair", RepairInfo
  PROVE  BootGoes'
<1>1. PICK f : f = Head(stack)
  OBVIOUS
<1>2. /\ stack = <<f, BootFrame>> /\ Tail(stack) = <<BootFrame>> /\ Repairable(f, {})
      /\ f \in RepairFrames /\ f.ref \in Disks /\ f.names \subseteq Names
      /\ TypeOK /\ dir = Disks /\ KnowsFiles
  BY <1>1, BootRepairTop DEF SpreadInv, Repairable, BootGoes
<1> DEFINE P == {l \in Column(f.ref) : NumbOf(l) \in 1..3}
           Q == {l \in Column(f.ref) : NumbOf(l) \in StripNumbs}
<1>3. PICK n \in f.names :
        /\ IsLeast(n, f.names)
        /\ Put(<<f.ref, n, 0>>, Existing(<<Ante(f.ref), n, 0>>))
        /\ stack' = <<[f EXCEPT !.at = "parts", !.parts = P, !.imgs = Q]>> \o <<BootFrame>>
        /\ UNCHANGED <<dir, treeFile, col, trees, image>>
  BY <1>1, <1>2 DEF RepairInfo, Replace, memory
<1>4. f.at = "info"
  BY <1>1 DEF RepairInfo, Repairing
<1>5. PICK g : g = [f EXCEPT !.at = "parts", !.parts = P, !.imgs = Q]
  OBVIOUS
<1>6. P \subseteq Locs /\ Q \subseteq Locs
  BY <1>2 DEF Column, TypeOK
<1>7. /\ g \in Frames /\ g.op = "repair" /\ g.ref = f.ref /\ g.names = f.names
      /\ g.at = "parts" /\ g.parts = P /\ g.imgs = Q
  <2> HIDE DEF P, Q
  <2>1. g \in RepairFrames /\ g.op = "repair" /\ g.ref = f.ref /\ g.names = f.names
        /\ g.at = "parts" /\ g.parts = P /\ g.imgs = Q
    BY <1>2, <1>5, <1>6 DEF RepairFrames
  <2>2. QED
    BY <2>1, RepairFramesFrames
<1>8. \A l \in P \cup Q : /\ l \in col /\ l \in Locs /\ DiskOf(l) = f.ref
                          /\ (l \in P => NumbOf(l) \in 1..3) /\ (l \in Q => NumbOf(l) \in StripNumbs)
  BY <1>6 DEF Column
<1>9. \A l \in col : DiskOf(l) = f.ref =>
        (NumbOf(l) \in 1..3 => l \in P) /\ (NumbOf(l) \in StripNumbs => l \in Q)
  BY DEF Column
<1> HIDE DEF P, Q
<1>10. stack' = <<g, BootFrame>>
  BY <1>3, <1>5, Concats
<1> DEFINE l0 == <<f.ref, n, 0>>
<1>11. /\ l0 \in Locs /\ DiskOf(l0) = f.ref /\ NameOf(l0) = n /\ NumbOf(l0) = 0 /\ n \in Names
       /\ <<Ante(f.ref), n, 0>> \in Locs /\ DiskOf(<<Ante(f.ref), n, 0>>) # f.ref
  <2>1. Ante(f.ref) \in Disks \ {f.ref}
    BY <1>2 DEF Ante, Disks
  <2>2. QED
    BY <1>2, <2>1, LocFields, Numbers
<1> HIDE DEF l0
<1>12. file'[l0] = Existing(<<Ante(f.ref), n, 0>>) /\ \A m \in Locs : m # l0 => file'[m] = file[m]
  BY <1>2, <1>3, <1>11, PutFile DEF l0
<1>13. \A l \in Locs : file'[l] # file[l] => DiskOf(l) = f.ref /\ (l \in col \/ NumbOf(l) = 0)
  BY <1>11, <1>12
<1>14. /\ KnowsFiles' /\ Registered' = Registered /\ Stored' = Stored
       /\ \A l \in Locs : DiskOf(l) # f.ref => Existing(l)' = Existing(l)
  BY <1>2, <1>3, <1>13, BootKept
<1>15. Unwritten(g, {})'
  <2>1. \A l \in Locs : DiskOf(l) = f.ref /\ NameOf(l) \in f.names => file[l] = NoFile
    BY <1>2, <1>4 DEF Repairable, Unwritten
  <2>2. ASSUME NEW l \in Locs, DiskOf(l) = f.ref, NameOf(l) \in f.names, file'[l] # NoFile
        PROVE  l = l0
    BY <1>12, <2>1, <2>2
  <2>3. l0 \notin P \cup Q
    BY <1>8, <1>11 DEF StripNumbs
  <2>4. QED
    BY <1>3, <1>7, <1>11, <2>2, <2>3 DEF Unwritten
<1>16. InfoCopied(g)'
  <2>1. SUFFICES ASSUME NEW m \in f.names, IsLeast(m, f.names)
                 PROVE  file'[<<f.ref, m, 0>>] = Existing(<<Ante(f.ref), m, 0>>)'
    BY <1>7 DEF InfoCopied
  <2>2. m = n
    BY <1>2, <1>3, <2>1, OneLeast
  <2>3. QED
    BY <1>11, <1>12, <1>14, <2>2 DEF l0
<1>17. Paired(g)'
  <2>1. SUFFICES ASSUME Registered \subseteq Stored
                 PROVE  /\ \A m \in Names, k \in 1..3 :
                             <<f.ref, m, k>> \in col <=> <<f.ref, m, 50 + k>> \in col
                        /\ Q = {StripOf(l) : l \in P}
    BY <1>3, <1>7, <1>14 DEF Paired
  <2>2. \A m \in Names, k \in 1..3 :
          <<f.ref, m, k>> \in col <=> <<f.ref, m, 50 + k>> \in col
    BY <1>2, <2>1 DEF Repairable, Paired
  <2>3. ASSUME NEW l \in P PROVE StripOf(l) \in Q
    <3>1. /\ l \in col /\ NumbOf(l) \in 1..3 /\ DiskOf(l) = f.ref /\ NameOf(l) \in Names
          /\ l = <<f.ref, NameOf(l), NumbOf(l)>>
      BY <1>8, LocFields
    <3>2. StripOf(l) \in col /\ StripOf(l) = <<f.ref, NameOf(l), 50 + NumbOf(l)>>
      <4>1. StripOf(l) = <<f.ref, NameOf(l), 50 + NumbOf(l)>>
        BY <3>1 DEF StripOf
      <4>2. <<f.ref, NameOf(l), NumbOf(l)>> \in col
        BY <3>1
      <4>3. <<f.ref, NameOf(l), 50 + NumbOf(l)>> \in col
        BY <2>2, <3>1, <4>2
      <4>4. QED
        BY <4>1, <4>3
    <3>3. DiskOf(StripOf(l)) = f.ref /\ NumbOf(StripOf(l)) \in StripNumbs
      BY <3>1, <3>2, LocFields, Numbers
    <3>4. QED
      BY <1>9, <3>2, <3>3
  <2>4. ASSUME NEW m \in Q PROVE \E l \in P : m = StripOf(l)
    <3>1. /\ m \in col /\ NumbOf(m) \in StripNumbs /\ DiskOf(m) = f.ref /\ NameOf(m) \in Names
          /\ m = <<f.ref, NameOf(m), NumbOf(m)>>
      BY <1>8, LocFields
    <3>2. PICK k \in 1..3 : NumbOf(m) = 50 + k
      BY <3>1 DEF StripNumbs
    <3>3. PICK l : l = <<f.ref, NameOf(m), k>>
      OBVIOUS
    <3>4. l \in col /\ DiskOf(l) = f.ref /\ NameOf(l) = NameOf(m) /\ NumbOf(l) = k
      <4>1. <<f.ref, NameOf(m), 50 + k>> \in col
        BY <3>1, <3>2
      <4>2. <<f.ref, NameOf(m), k>> \in col
        BY <2>2, <3>1, <4>1
      <4>3. QED
        BY <3>3, <4>2, LocFields
    <3>5. l \in P /\ m = StripOf(l)
      BY <1>9, <3>1, <3>2, <3>4 DEF StripOf
    <3>6. QED
      BY <3>5
  <2>5. QED
    BY <2>2, <2>3, <2>4
<1>18. Repairable(g, {})'
  BY <1>2, <1>3, <1>7, <1>8, <1>15, <1>16, <1>17 DEF Repairable
<1>19. QED
  BY <1>7, <1>10, <1>14, <1>18 DEF BootGoes, BootRepairs

LEMMA StripOrder ==
  ASSUME NEW l \in Locs, NEW j \in Locs, NumbOf(l) \in 1..3, NumbOf(j) \in 1..3,
         DiskOf(l) = DiskOf(j), Precedes(l, j)
  PROVE  Precedes(StripOf(l), StripOf(j))
<1>1. /\ DiskOf(StripOf(l)) = DiskOf(l) /\ NameOf(StripOf(l)) = NameOf(l)
      /\ NumbOf(StripOf(l)) = 50 + NumbOf(l)
      /\ DiskOf(StripOf(j)) = DiskOf(j) /\ NameOf(StripOf(j)) = NameOf(j)
      /\ NumbOf(StripOf(j)) = 50 + NumbOf(j)
  BY LocFields DEF StripOf
<1>2. \A k \in 1..3 : KindRank(k) = k /\ KindRank(50 + k) = k - 10
  BY DEF KindRank, StripNumbs
<1>3. DiskOf(l) \in Int
  BY LocFields DEF Disks
<1>4. \/ FileOrder[NameOf(l)] < FileOrder[NameOf(j)]
      \/ NameOf(l) = NameOf(j) /\ KindRank(NumbOf(l)) < KindRank(NumbOf(j))
  BY <1>3 DEF Precedes
<1>5. \/ FileOrder[NameOf(l)] < FileOrder[NameOf(j)]
      \/ NameOf(l) = NameOf(j) /\ KindRank(50 + NumbOf(l)) < KindRank(50 + NumbOf(j))
  BY <1>2, <1>4
<1>6. QED
  BY <1>1, <1>5 DEF Precedes

\* While parts and strips are of the same images, so are those the loop takes.
LEMMA PairedPass ==
  ASSUME NEW P \in SUBSET Locs, NEW Q, NEW d, Q = {StripOf(l) : l \in P},
         \A l \in P : DiskOf(l) = d /\ NumbOf(l) \in 1..3,
         NEW l, IsFirst(l, P)
  PROVE  /\ Q # {}
         /\ \A m : IsFirst(m, Q) => m = StripOf(l) /\ Q \ {m} = {StripOf(j) : j \in P \ {l}}
<1>1. l \in P /\ l \in Locs
  BY DEF IsFirst
<1>2. \A j \in P : StripOf(j) \in Locs
  <2>1. ASSUME NEW j \in P PROVE StripOf(j) \in Locs
    <3>1. DiskOf(j) \in Disks /\ NameOf(j) \in Names /\ 50 + NumbOf(j) \in PartNumbs
      BY LocFields, Numbers
    <3>2. QED
      BY <3>1, LocFields DEF StripOf
  <2>2. QED
    BY <2>1
<1>3. ASSUME NEW j \in P, StripOf(j) = StripOf(l) PROVE j = l
  <2>1. DiskOf(j) = DiskOf(l) /\ NameOf(j) = NameOf(l) /\ 50 + NumbOf(j) = 50 + NumbOf(l)
    BY <1>3 DEF StripOf
  <2>2. NumbOf(j) = NumbOf(l)
    BY <1>1, <2>1
  <2>3. QED
    BY <1>1, <2>1, <2>2, LocFields
<1>4. ASSUME NEW m, IsFirst(m, Q) PROVE m = StripOf(l)
  <2>1. PICK j \in P : m = StripOf(j)
    BY <1>4 DEF IsFirst
  <2>2. SUFFICES ASSUME m # StripOf(l) PROVE FALSE
    OBVIOUS
  <2>3. Precedes(l, j)
    BY <1>1, <2>1, <2>2 DEF IsFirst
  <2>4. Precedes(StripOf(l), m)
    BY <1>1, <2>1, <2>3, StripOrder
  <2>5. Precedes(m, StripOf(l))
    BY <1>1, <1>4, <2>2 DEF IsFirst
  <2>6. QED
    BY <1>1, <1>2, <2>1, <2>4, <2>5, Order
<1>5. Q \ {StripOf(l)} = {StripOf(j) : j \in P \ {l}}
  BY <1>3
<1>6. QED
  BY <1>1, <1>4, <1>5

\* What the other disks determine of an image is recovered.
LEMMA OthersRecover ==
  ASSUME SpreadInv, PayloadInv, KnowsFiles, NEW d \in Disks, OthersWhole(d),
         NEW n \in Registered, file[<<d, n, 0>>] = Existing(<<Ante(d), n, 0>>)
  PROVE  /\ n \in Stored /\ n \in Names
         /\ XORrecovery(Fragment(d, n)) = {Written(n, image[n].payload, FragOf(image[n].parity, d))}
<1>1. n \in Stored /\ n \in Names /\ image[n].status = "stored" /\ TypeOK /\ FilesGood
  BY DEF OthersWhole, Stored, SpreadInv
<1>2. \A e \in Disks \ {d} : \A k \in FilesAt(n, e) : Right(e, n, k)
  BY <1>1 DEF OthersWhole, Whole, FilesAt
<1>3. Right(d, n, 0)
  <2>1. Ante(d) \in Disks \ {d}
    BY DEF Ante, Disks
  <2>2. 0 \in FilesAt(n, Ante(d)) /\ Right(Ante(d), n, 0)
    BY <1>2, <2>1 DEF FilesAt
  <2>3. /\ file[<<Ante(d), n, 0>>] # NoFile
        /\ file[<<Ante(d), n, 0>>] = Written(n, image[n].payload, 0)
    BY <1>1, <2>1, <2>2, RightExists
  <2>4. QED
    BY <2>3 DEF Existing, Right
<1>4. ASSUME NEW e \in Disks \ {d} PROVE FragmentRight(e, n) /\ Fragment(e, n) \in col
  <2>1. /\ FragOf(image[n].parity, e) \in FilesAt(n, e) /\ FragOf(image[n].parity, e) \in 1..4
        /\ Fragment(e, n) \in Locs
    BY <1>1, Places4 DEF FilesAt
  <2>2. Right(e, n, FragOf(image[n].parity, e))
    BY <1>2, <2>1
  <2>3. file[Fragment(e, n)] # NoFile
    BY <1>1, <2>1, <2>2, RightExists DEF Fragment
  <2>4. NumbOf(Fragment(e, n)) # 0
    BY <2>1, LocFields DEF Fragment
  <2>5. QED
    BY <2>1, <2>2, <2>3, <2>4 DEF KnowsFiles, FragmentRight
<1>5. QED
  BY <1>1, <1>3, <1>4, RecoveryWorks

LEMMA BootPartStep ==
  ASSUME SpreadInv, PayloadInv, BootGoes, Head(stack).op = "repair", RepairPart
  PROVE  stack' = <<>> \/ BootGoes'
<1> SUFFICES ASSUME stack' # <<>> PROVE BootGoes'
  OBVIOUS
<1>1. PICK f : f = Head(stack)
  OBVIOUS
<1>2. /\ stack = <<f, BootFrame>> /\ Tail(stack) = <<BootFrame>> /\ Repairable(f, {})
      /\ f \in RepairFrames /\ f.ref \in Disks /\ f.names \subseteq Names
      /\ f.parts \subseteq Locs /\ f.imgs \subseteq Locs /\ f.at = "parts"
      /\ TypeOK /\ FilesGood /\ dir = Disks /\ KnowsFiles
  BY <1>1, BootRepairTop DEF SpreadInv, Repairable, BootGoes, RepairPart, Repairing
<1>3. PICK n \in f.names, l \in f.parts :
        /\ IsLeast(n, f.names) /\ IsFirst(l, f.parts)
        /\ IF NameOf(l) = n THEN \E c \in XORrecovery(l) : Put(l, c) ELSE UNCHANGED file
        /\ \E m \in f.imgs :
             /\ IsFirst(m, f.imgs)
             /\ stack' = (IF NameOf(m) = n
                          THEN <<VerifierFrame, [op |-> "imageRestore", img |-> m]>>
                          ELSE <<>>)
                         \o <<[f EXCEPT !.parts = @ \ {l}, !.imgs = @ \ {m}]>> \o <<BootFrame>>
             /\ UNCHANGED <<dir, treeFile, col, trees, image>>
  <2>1. ~Throw(col)
    BY ThrowStack
  <2>2. QED
    BY <1>1, <1>2, <2>1 DEF RepairPart, memory
<1>4. PICK m \in f.imgs :
        /\ IsFirst(m, f.imgs)
        /\ stack' = (IF NameOf(m) = n
                     THEN <<VerifierFrame, [op |-> "imageRestore", img |-> m]>>
                     ELSE <<>>)
                    \o <<[f EXCEPT !.parts = @ \ {l}, !.imgs = @ \ {m}]>> \o <<BootFrame>>
        /\ UNCHANGED <<dir, treeFile, col, trees, image>>
  BY <1>3
<1>5. PICK g : g = [f EXCEPT !.parts = @ \ {l}, !.imgs = @ \ {m}]
  OBVIOUS
<1>6. PICK h : h = [op |-> "imageRestore", img |-> m]
  OBVIOUS
<1>7. /\ g \in Frames /\ g.op = "repair" /\ g.ref = f.ref /\ g.names = f.names
      /\ g.at = "parts" /\ g.parts = f.parts \ {l} /\ g.imgs = f.imgs \ {m}
  <2>1. g \in RepairFrames /\ g.op = "repair" /\ g.ref = f.ref /\ g.names = f.names
        /\ g.at = "parts" /\ g.parts = f.parts \ {l} /\ g.imgs = f.imgs \ {m}
    BY <1>2, <1>5 DEF RepairFrames
  <2>2. QED
    BY <2>1, RepairFramesFrames
<1>8. h \in Frames /\ h.op = "imageRestore" /\ h.img = m
  BY <1>2, <1>6, PushedFrames
<1>9. /\ l \in Locs /\ l \in col /\ DiskOf(l) = f.ref /\ NumbOf(l) \in 1..3 /\ NameOf(l) \in Registered
      /\ m \in Locs /\ m \in col /\ DiskOf(m) = f.ref /\ NumbOf(m) \in StripNumbs /\ NameOf(m) \in Registered
      /\ \A k \in f.parts : k \in col /\ DiskOf(k) = f.ref /\ NumbOf(k) \in 1..3
      /\ \A k \in f.imgs : k \in col /\ DiskOf(k) = f.ref /\ NumbOf(k) \in StripNumbs
      /\ InfoCopied(f)
  BY <1>2, <1>3, <1>4 DEF Repairable, Registered
<1>10. /\ \A k \in Locs : k # l => file'[k] = file[k]
       /\ NameOf(l) # n => file'[l] = file[l]
       /\ NameOf(l) = n => file'[l] \in XORrecovery(l)
  <2>1. CASE NameOf(l) = n
    <3>1. PICK c \in XORrecovery(l) : Put(l, c)
      BY <1>3, <2>1
    <3>2. QED
      BY <1>2, <1>9, <2>1, <3>1, PutFile
  <2>2. CASE NameOf(l) # n
    BY <1>3, <2>2
  <2>3. QED
    BY <2>1, <2>2
<1>11. \A k \in Locs : file'[k] # file[k] => DiskOf(k) = f.ref /\ (k \in col \/ NumbOf(k) = 0)
  BY <1>9, <1>10
<1>12. /\ KnowsFiles' /\ Registered' = Registered /\ Stored' = Stored
       /\ \A e \in Disks, o \in Names : Fragment(e, o)' = Fragment(e, o)
       /\ OthersWhole(f.ref)' <=> OthersWhole(f.ref)
       /\ \A k \in Locs : DiskOf(k) # f.ref => Existing(k)' = Existing(k) /\ file'[k] = file[k]
  BY <1>2, <1>4, <1>11, BootKept
<1>13. NumbOf(l) # 4 /\ NumbOf(l) # 0 /\ l # m /\ l \notin f.imgs
  BY <1>9 DEF StripNumbs
<1>14. /\ Unwritten(g, {m})' /\ Unwritten(g, {})'
  <2>1. ASSUME NEW k \in Locs, DiskOf(k) = f.ref, NameOf(k) \in f.names, file'[k] # NoFile
        PROVE  /\ IsLeast(NameOf(k), f.names) /\ NumbOf(k) # 4
               /\ k \notin (f.parts \ {l}) \cup (f.imgs \ {m}) \cup {m}
    <3>1. CASE file[k] # NoFile
      <4>1. IsLeast(NameOf(k), f.names) /\ NumbOf(k) # 4 /\ k \notin f.parts \cup f.imgs
        BY <1>2, <2>1, <3>1 DEF Repairable, Unwritten
      <4>2. QED
        BY <1>4, <4>1
    <3>2. CASE file[k] = NoFile
      <4>1. k = l /\ NameOf(l) = n
        BY <1>10, <2>1, <3>2
      <4>2. QED
        BY <1>3, <1>13, <4>1
    <3>3. QED
      BY <3>1, <3>2
  <2>2. QED
    BY <1>7, <2>1 DEF Unwritten
<1>15. InfoCopied(g)'
  <2>1. SUFFICES ASSUME NEW o \in f.names, IsLeast(o, f.names)
                 PROVE  file'[<<f.ref, o, 0>>] = Existing(<<Ante(f.ref), o, 0>>)'
    BY <1>7 DEF InfoCopied
  <2>2. file[<<f.ref, o, 0>>] = Existing(<<Ante(f.ref), o, 0>>)
    BY <1>9, <2>1 DEF InfoCopied
  <2>3. Ante(f.ref) \in Disks \ {f.ref}
    BY <1>2 DEF Ante, Disks
  <2>4. /\ <<f.ref, o, 0>> \in Locs /\ NumbOf(<<f.ref, o, 0>>) = 0
        /\ <<Ante(f.ref), o, 0>> \in Locs /\ DiskOf(<<Ante(f.ref), o, 0>>) # f.ref
    BY <1>2, <2>1, <2>3, LocFields, Numbers
  <2>5. file'[<<f.ref, o, 0>>] = file[<<f.ref, o, 0>>]
    BY <1>10, <1>13, <2>4
  <2>6. QED
    BY <1>12, <2>2, <2>4, <2>5
<1>16. ASSUME Registered \subseteq Stored
       PROVE  m = StripOf(l) /\ f.imgs \ {m} = {StripOf(j) : j \in f.parts \ {l}}
  <2>1. f.imgs = {StripOf(j) : j \in f.parts}
    BY <1>2, <1>16 DEF Repairable, Paired
  <2>2. QED
    BY <1>2, <1>3, <1>4, <1>9, <2>1, PairedPass
<1>17. Paired(g)'
  <2>1. SUFFICES ASSUME Registered \subseteq Stored
                 PROVE  /\ \A o \in Names, k \in 1..3 :
                             <<f.ref, o, k>> \in col <=> <<f.ref, o, 50 + k>> \in col
                        /\ f.imgs \ {m} = {StripOf(j) : j \in f.parts \ {l}}
    BY <1>4, <1>7, <1>12 DEF Paired
  <2>2. QED
    BY <1>2, <1>16, <2>1 DEF Repairable, Paired
<1>18. Repairable(g, {m})' /\ Repairable(g, {})'
  BY <1>2, <1>4, <1>7, <1>9, <1>14, <1>15, <1>17 DEF Repairable
<1>19. CASE NameOf(m) = n
  <2>1. stack' = <<VerifierFrame, h, g, BootFrame>>
    BY <1>4, <1>5, <1>6, <1>19, Concats
  <2>2. ASSUME OthersWhole(f.ref) PROVE FragmentRight(f.ref, n)'
    <3>1. m = StripOf(l) /\ NameOf(l) = n
      <4>1. m = StripOf(l)
        BY <1>16, <2>2 DEF OthersWhole
      <4>2. QED
        BY <1>19, <4>1, LocFields DEF StripOf
    <3>2. file[<<f.ref, n, 0>>] = Existing(<<Ante(f.ref), n, 0>>)
      BY <1>3, <1>9 DEF InfoCopied
    <3>3. /\ n \in Stored /\ n \in Names
          /\ XORrecovery(Fragment(f.ref, n)) = {Written(n, image[n].payload, FragOf(image[n].parity, f.ref))}
      BY <1>2, <1>9, <2>2, <3>1, <3>2, OthersRecover
    <3>4. l = Fragment(f.ref, n)
      <4>1. l \in Fragments(n)
        BY <1>9, <3>1 DEF Fragments, FragNumbs
      <4>2. image[n].status # "mixed"
        BY <3>3 DEF Stored
      <4>3. QED
        BY <1>2, <1>9, <3>3, <4>1, <4>2, FragmentsPlaced
    <3>5. file'[l] = Written(n, image[n].payload, FragOf(image[n].parity, f.ref))
      BY <1>10, <3>1, <3>3, <3>4
    <3>6. QED
      BY <1>4, <3>4, <3>5 DEF FragmentRight, Right, Fragment
  <2>3. Restorable(g, m)'
    BY <1>3, <1>4, <1>7, <1>9, <1>12, <1>19, <2>2 DEF Restorable
  <2>4. QED
    BY <1>7, <1>8, <1>12, <1>18, <2>1, <2>3 DEF BootGoes, BootRepairs
<1>20. CASE NameOf(m) # n
  <2>1. stack' = <<g, BootFrame>>
    BY <1>4, <1>5, <1>20, Concats
  <2>2. QED
    BY <1>7, <1>12, <1>18, <2>1 DEF BootGoes, BootRepairs
<1>21. QED
  BY <1>19, <1>20

LEMMA BootParityStep ==
  ASSUME SpreadInv, BootGoes, Head(stack).op = "repair", RepairParity
  PROVE  stack' = <<>> \/ BootGoes'
<1> SUFFICES ASSUME stack' # <<>> PROVE BootGoes'
  OBVIOUS
<1>1. PICK f : f = Head(stack)
  OBVIOUS
<1>2. /\ stack = <<f, BootFrame>> /\ Tail(stack) = <<BootFrame>> /\ Repairable(f, {})
      /\ f \in RepairFrames /\ f.ref \in Disks /\ f.names \subseteq Names
      /\ f.at = "parts" /\ f.parts = {}
      /\ TypeOK /\ dir = Disks /\ KnowsFiles
  BY <1>1, BootRepairTop DEF SpreadInv, Repairable, BootGoes, RepairParity, Repairing
<1>3. PICK n \in f.names :
        /\ IsLeast(n, f.names)
        /\ IF <<f.ref, n, 4>> \in col THEN \E c \in XORrecovery(<<f.ref, n, 4>>) : Put(<<f.ref, n, 4>>, c)
                                      ELSE UNCHANGED file
        /\ stack' = <<[f EXCEPT !.at = "info", !.names = @ \ {n}, !.imgs = {}]>> \o <<BootFrame>>
        /\ UNCHANGED <<dir, treeFile, col, trees, image>>
  <2>1. ~Throw(col)
    BY ThrowStack
  <2>2. QED
    BY <1>1, <1>2, <2>1 DEF RepairParity, Replace, memory
<1>4. PICK g : g = [f EXCEPT !.at = "info", !.names = @ \ {n}, !.imgs = {}]
  OBVIOUS
<1>5. /\ g \in Frames /\ g.op = "repair" /\ g.ref = f.ref /\ g.names = f.names \ {n} /\ g.at = "info"
  <2>1. g \in RepairFrames /\ g.op = "repair" /\ g.ref = f.ref /\ g.names = f.names \ {n} /\ g.at = "info"
    BY <1>2, <1>4 DEF RepairFrames
  <2>2. QED
    BY <2>1, RepairFramesFrames
<1>6. stack' = <<g, BootFrame>>
  BY <1>3, <1>4, Concats
<1> DEFINE l == <<f.ref, n, 4>>
<1>7. l \in Locs /\ DiskOf(l) = f.ref /\ NameOf(l) = n
  BY <1>2, LocFields, Numbers
<1>8. \A k \in Locs : file'[k] # file[k] => k = l /\ l \in col
  <2>1. CASE l \in col
    <3>1. PICK c : Put(l, c)
      BY <1>3, <2>1
    <3> HIDE DEF l
    <3>2. QED
      BY <1>2, <1>7, <2>1, <3>1, PutFile
  <2>2. CASE l \notin col
    BY <1>3, <2>2
  <2>3. QED
    BY <2>1, <2>2
<1> HIDE DEF l
<1>9. /\ KnowsFiles' /\ Registered' = Registered /\ Stored' = Stored
  <2>1. \A k \in Locs : file'[k] # file[k] => DiskOf(k) = f.ref /\ (k \in col \/ NumbOf(k) = 0)
    BY <1>7, <1>8
  <2>2. QED
    BY <1>2, <1>3, <2>1, BootKept
<1>10. Unwritten(g, {})'
  <2>1. ASSUME NEW k \in Locs, DiskOf(k) = f.ref, NameOf(k) \in f.names \ {n}, file'[k] # NoFile
        PROVE  FALSE
    <3>1. file[k] # NoFile
      BY <1>7, <1>8, <2>1
    <3>2. IsLeast(NameOf(k), f.names)
      BY <1>2, <2>1, <3>1 DEF Repairable, Unwritten
    <3>3. NameOf(k) = n
      BY <1>2, <1>3, <3>2, OneLeast
    <3>4. QED
      BY <2>1, <3>3
  <2>2. QED
    BY <1>5, <2>1 DEF Unwritten
<1>11. Paired(g)'
  BY <1>2, <1>3, <1>5, <1>9 DEF Repairable, Paired
<1>12. Repairable(g, {})'
  BY <1>2, <1>3, <1>5, <1>10, <1>11 DEF Repairable
<1>13. QED
  BY <1>5, <1>6, <1>9, <1>12 DEF BootGoes, BootRepairs

LEMMA BootDoneStep ==
  ASSUME SpreadInv, BootGoes, Head(stack).op = "repair", RepairDone
  PROVE  BootGoes'
<1>1. Tail(stack) = <<BootFrame>> /\ KnowsFiles
  BY BootRepairTop DEF SpreadInv, BootGoes
<1>2. stack' = <<BootFrame>> /\ UNCHANGED <<file, treeFile, col, trees>>
  BY <1>1 DEF RepairDone, Return, storage, memory
<1>3. QED
  BY <1>1, <1>2 DEF BootGoes, KnowsFiles

LEMMA BootRestoreTop ==
  ASSUME BootGoes, Head(stack).op \in {"imageRestore", "diskVerifier"},
         stack # <<VerifierFrame, BootFrame>>
  PROVE  \E f \in Frames, g \in Frames :
           /\ g.op = "imageRestore" /\ Repairable(f, {g.img}) /\ Restorable(f, g.img)
           /\ \/ stack = <<g, f, BootFrame>> /\ Head(stack) = g /\ Tail(stack) = <<f, BootFrame>>
              \/ /\ stack = <<VerifierFrame, g, f, BootFrame>> /\ Head(stack) = VerifierFrame
                 /\ Tail(stack) = <<g, f, BootFrame>>
<1>1. stack # <<BootFrame>>
  BY Calls
<1>2. PICK f \in Frames : BootRepairs(f)
  BY <1>1 DEF BootGoes
<1>3. ~(stack = <<f, BootFrame>> /\ Repairable(f, {}))
  BY Calls DEF Repairable
<1>4. PICK g \in Frames :
        /\ stack \in {<<g, f, BootFrame>>, <<VerifierFrame, g, f, BootFrame>>}
        /\ g.op = "imageRestore" /\ Repairable(f, {g.img}) /\ Restorable(f, g.img)
  BY <1>2, <1>3 DEF BootRepairs
<1>5. CASE stack = <<g, f, BootFrame>>
  <2>1. Head(stack) = g /\ Tail(stack) = <<f, BootFrame>>
    BY <1>5, Calls
  <2>2. QED
    BY <1>4, <1>5, <2>1
<1>6. CASE stack = <<VerifierFrame, g, f, BootFrame>>
  <2>1. Head(stack) = VerifierFrame /\ Tail(stack) = <<g, f, BootFrame>>
    BY <1>6, Calls
  <2>2. QED
    BY <1>4, <1>6, <2>1
<1>7. QED
  BY <1>4, <1>5, <1>6

LEMMA BootSame ==
  ASSUME UNCHANGED <<dir, file, treeFile, col, trees, image>>
  PROVE  /\ KnowsFiles => KnowsFiles'
         /\ \A f, X : Repairable(f, X) => Repairable(f, X)'
         /\ \A f, m : Restorable(f, m) => Restorable(f, m)'
<1>1. KnowsFiles => KnowsFiles'
  BY DEF KnowsFiles
<1>2. ASSUME NEW f, NEW X, Repairable(f, X) PROVE Repairable(f, X)'
  BY <1>2 DEF Repairable, Unwritten, InfoCopied, Paired, Registered, Stored, Existing
<1>3. ASSUME NEW f, NEW m, Restorable(f, m) PROVE Restorable(f, m)'
  <2>1. OthersWhole(f.ref)' <=> OthersWhole(f.ref)
    BY DEF OthersWhole, Registered, Stored, Whole, Right, Slots
  <2>2. QED
    BY <1>3, <2>1 DEF Restorable, FragmentRight, Right
<1>4. QED
  BY <1>1, <1>2, <1>3

LEMMA BootAgainStep ==
  ASSUME BootGoes, Head(stack).op = "diskVerifier", stack # <<VerifierFrame, BootFrame>>, Verify
  PROVE  BootGoes'
<1>1. PICK f \in Frames, g \in Frames :
        /\ g.op = "imageRestore" /\ Repairable(f, {g.img}) /\ Restorable(f, g.img)
        /\ \/ stack = <<g, f, BootFrame>> /\ Head(stack) = g /\ Tail(stack) = <<f, BootFrame>>
           \/ /\ stack = <<VerifierFrame, g, f, BootFrame>> /\ Head(stack) = VerifierFrame
              /\ Tail(stack) = <<g, f, BootFrame>>
  BY BootRestoreTop
<1>2. VerifyNothing
  BY <1>1, NothingLost DEF Repairable
<1>3. /\ stack' = <<g, f, BootFrame>>
      /\ UNCHANGED <<dir, file, treeFile, col, trees, image>>
  BY <1>1, <1>2 DEF VerifyNothing, Return, storage, memory
<1>4. KnowsFiles' /\ Repairable(f, {g.img})' /\ Restorable(f, g.img)'
  BY <1>1, <1>3, BootSame DEF BootGoes
<1>5. QED
  BY <1>1, <1>3, <1>4 DEF BootGoes, BootRepairs

LEMMA BootRestoreStep ==
  ASSUME SpreadInv, BootGoes, Head(stack).op = "imageRestore", imageRestore
  PROVE  stack' = <<>> \/ BootGoes'
<1> SUFFICES ASSUME stack' # <<>> PROVE BootGoes'
  OBVIOUS
<1>1. stack # <<VerifierFrame, BootFrame>>
  BY Calls
<1>2. PICK f \in Frames, g \in Frames :
        /\ g.op = "imageRestore" /\ Repairable(f, {g.img}) /\ Restorable(f, g.img)
        /\ \/ stack = <<g, f, BootFrame>> /\ Head(stack) = g /\ Tail(stack) = <<f, BootFrame>>
           \/ /\ stack = <<VerifierFrame, g, f, BootFrame>> /\ Head(stack) = VerifierFrame
              /\ Tail(stack) = <<g, f, BootFrame>>
  BY <1>1, BootRestoreTop
<1>3. stack = <<g, f, BootFrame>> /\ Head(stack) = g /\ Tail(stack) = <<f, BootFrame>>
  BY <1>2, Calls
<1> DEFINE l == g.img
<1>4. /\ \E c : Put(l, c)
      /\ stack' = <<f, BootFrame>> /\ UNCHANGED <<dir, treeFile, col, trees, image>>
  <2>1. ~Throw(col) /\ ~Die
    BY ThrowStack DEF Die
  <2>2. QED
    BY <1>3, <2>1 DEF imageRestore, Return, memory
<1>5. f \in RepairFrames /\ f.ref \in Disks /\ f.names \subseteq Names
  BY <1>2, FrameFields DEF RepairFrames, Repairable
<1>6. /\ f.at = "parts" /\ l \in col /\ l \in Locs /\ DiskOf(l) = f.ref /\ NumbOf(l) \in StripNumbs
      /\ IsLeast(NameOf(l), f.names) /\ l \notin f.imgs
      /\ TypeOK /\ dir = Disks /\ KnowsFiles
  BY <1>2 DEF Restorable, Repairable, SpreadInv, TypeOK, BootGoes
<1>7. \A k \in Locs : file'[k] # file[k] => k = l
  <2>1. PICK c : Put(l, c)
    BY <1>4
  <2> HIDE DEF l
  <2>2. QED
    BY <1>5, <1>6, <2>1, PutFile
<1>8. \A k \in f.parts : NumbOf(k) \in 1..3
  BY <1>2, <1>6 DEF Repairable
<1>9. NumbOf(l) # 4 /\ NumbOf(l) # 0 /\ l \notin f.parts
  BY <1>6, <1>8 DEF StripNumbs
<1>10. Unwritten(f, {l})
  BY <1>2 DEF Repairable
<1> HIDE DEF l
<1>11. /\ KnowsFiles' /\ Registered' = Registered /\ Stored' = Stored
       /\ \A k \in Locs : DiskOf(k) # f.ref => Existing(k)' = Existing(k)
  <2>1. \A k \in Locs : file'[k] # file[k] => DiskOf(k) = f.ref /\ (k \in col \/ NumbOf(k) = 0)
    BY <1>6, <1>7
  <2>2. QED
    BY <1>4, <1>5, <1>6, <2>1, BootKept
<1>12. Unwritten(f, {})'
  BY <1>6, <1>7, <1>9, <1>10 DEF Unwritten
<1>13. InfoCopied(f)'
  <2>1. SUFFICES ASSUME NEW o \in f.names, IsLeast(o, f.names)
                 PROVE  file'[<<f.ref, o, 0>>] = Existing(<<Ante(f.ref), o, 0>>)'
    BY DEF InfoCopied
  <2>2. file[<<f.ref, o, 0>>] = Existing(<<Ante(f.ref), o, 0>>)
    BY <1>2, <1>6, <2>1 DEF InfoCopied, Repairable
  <2>3. Ante(f.ref) \in Disks \ {f.ref}
    BY <1>5 DEF Ante, Disks
  <2>4. /\ <<f.ref, o, 0>> \in Locs /\ NumbOf(<<f.ref, o, 0>>) = 0
        /\ <<Ante(f.ref), o, 0>> \in Locs /\ DiskOf(<<Ante(f.ref), o, 0>>) # f.ref
    BY <1>5, <2>1, <2>3, LocFields, Numbers
  <2>5. QED
    BY <1>7, <1>9, <1>11, <2>2, <2>4
<1>14. Paired(f)'
  BY <1>2, <1>4, <1>11 DEF Repairable, Paired
<1>15. Repairable(f, {})'
  BY <1>2, <1>4, <1>6, <1>12, <1>13, <1>14 DEF Repairable
<1>16. QED
  BY <1>4, <1>11, <1>15 DEF BootGoes, BootRepairs

-----------------------------------------------------------------------------
(* Every step.                                                             *)

LEMMA BootTops ==
  ASSUME BootGoes
  PROVE  \/ stack = <<BootFrame>> /\ Head(stack).op = "boot"
         \/ /\ stack = <<VerifierFrame, BootFrame>> /\ Head(stack).op = "diskVerifier"
            /\ \A l \in col : file[l] # NoFile
         \/ Head(stack).op = "repair"
         \/ /\ Head(stack).op \in {"imageRestore", "diskVerifier"}
            /\ stack # <<VerifierFrame, BootFrame>>
<1>1. CASE stack = <<BootFrame>> \/ stack = <<VerifierFrame, BootFrame>>
  <2>1. CASE stack = <<BootFrame>>
    BY <2>1, Calls
  <2>2. CASE stack = <<VerifierFrame, BootFrame>> /\ \A l \in col : file[l] # NoFile
    BY <2>2, Calls
  <2>3. ASSUME stack = <<VerifierFrame, BootFrame>>, NEW f \in Frames, BootRepairs(f) PROVE FALSE
    <3>1. Len(stack) = 2 /\ Head(stack).op = "diskVerifier"
      BY <2>3, Calls
    <3>2. ~(stack = <<f, BootFrame>> /\ Repairable(f, {}))
      BY <3>1, Calls DEF Repairable
    <3>3. ASSUME NEW g PROVE stack # <<g, f, BootFrame>> /\ stack # <<VerifierFrame, g, f, BootFrame>>
      BY <3>1, Calls
    <3>4. QED
      BY <2>3, <3>2, <3>3 DEF BootRepairs
  <2>4. QED
    BY <1>1, <2>1, <2>2, <2>3 DEF BootGoes
<1>2. ASSUME NEW f \in Frames, BootRepairs(f)
      PROVE  \/ Head(stack).op = "repair"
             \/ /\ Head(stack).op \in {"imageRestore", "diskVerifier"}
                /\ stack # <<VerifierFrame, BootFrame>>
  <2>1. CASE stack = <<f, BootFrame>> /\ Repairable(f, {})
    BY <2>1, Calls DEF Repairable
  <2>2. ASSUME NEW g \in Frames, g.op = "imageRestore",
               stack \in {<<g, f, BootFrame>>, <<VerifierFrame, g, f, BootFrame>>}
        PROVE  /\ Head(stack).op \in {"imageRestore", "diskVerifier"}
               /\ stack # <<VerifierFrame, BootFrame>>
    <3>1. Len(<<VerifierFrame, BootFrame>>) = 2
      BY Calls
    <3>2. CASE stack = <<g, f, BootFrame>>
      BY <2>2, <3>1, <3>2, Calls
    <3>3. CASE stack = <<VerifierFrame, g, f, BootFrame>>
      BY <3>1, <3>3, Calls
    <3>4. QED
      BY <2>2, <3>2, <3>3
  <2>3. QED
    BY <1>2, <2>1, <2>2 DEF BootRepairs
<1>3. QED
  BY <1>1, <1>2 DEF BootGoes

LEMMA BootGoesNext ==
  ASSUME Failures # "any", SpreadInv, PayloadInv, Placed, BootGoes, Next, up, stack # <<>>
  PROVE  stack' = <<>> \/ BootGoes'
<1>1. CASE Crash
  BY <1>1 DEF Crash, Die
<1>2. CASE Head(stack).op = "boot" /\ EndBoot
  BY <1>2, BootTops, Calls DEF EndBoot, Return
<1>3. CASE Head(stack).op = "diskVerifier" /\ Verify
  BY <1>3, BootTops, BootVerifies, BootAgainStep
<1>4. CASE Head(stack).op = "repair" /\ (RepairInfo \/ RepairPart \/ RepairParity \/ RepairDone)
  BY <1>4, BootInfoStep, BootPartStep, BootParityStep, BootDoneStep
<1>5. CASE Head(stack).op = "imageRestore" /\ imageRestore
  BY <1>5, BootRestoreStep
<1>6. QED
  BY <1>1, <1>2, <1>3, <1>4, <1>5, BootCall, BootTops

\* A process that runs no call is not up, or idle.
LEMMA UpNext ==
  ASSUME TypeOK, [Next]_vars, stack # <<>> => up
  PROVE  (stack # <<>> => up)'
<1>1. CASE stack' = <<>> \/ UNCHANGED vars
  BY <1>1 DEF vars, memory
<1>2. CASE Boot \/ Request \/ EndBoot \/ Verify \/ Repair \/ Write \/ Answer
  <2>1. up' \/ stack' = <<>>
    <3>1. \A C : Throw(C) => stack' = <<>>
      BY ThrowStack
    <3>2. Die => stack' = <<>>
      BY DEF Die
    <3>3. CASE Boot \/ Request
      BY <3>3 DEF Boot, Request, getImage, imageDecomposer, Idle, memory
    <3>4. CASE EndBoot \/ Answer \/ Verify
      BY <3>1, <3>2, <3>4 DEF EndBoot, Answer, Verify, VerifyNothing, VerifyAllGone, VerifyTooMany,
                    reconstructDisk, Running, memory
    <3>5. CASE Write
      BY <3>5 DEF Write, StartWriting, WriteFile, WriteTree, Running, memory
    <3>6. CASE RepairInfo \/ RepairDone \/ RepairParity
      BY <3>1, <3>6 DEF RepairInfo, RepairDone, RepairParity, Repairing, Running, memory
    <3>7. CASE RepairPart
      <4>1. stack # <<>>
        BY <3>7 DEF RepairPart, Repairing, Running
      <4>2. Throw(col) \/ UNCHANGED memory
        BY <3>7 DEF RepairPart
      <4>3. QED
        BY <3>1, <4>1, <4>2 DEF memory
    <3>8. CASE imageRestore
      <4>1. stack # <<>>
        BY <3>8 DEF imageRestore, Running
      <4>2. Throw(col) \/ Die \/ UNCHANGED memory
        BY <3>8 DEF imageRestore
      <4>3. QED
        BY <3>1, <3>2, <4>1, <4>2 DEF memory
    <3>9. QED
      BY <1>2, <3>3, <3>4, <3>5, <3>6, <3>7, <3>8 DEF Repair
  <2>2. QED
    BY <2>1
<1>3. CASE Crash
  BY <1>3 DEF Crash, Die
<1>4. CASE \E d \in Disks : DiskFail(d)
  BY <1>4 DEF DiskFail, memory
<1>5. QED
  BY <1>1, <1>2, <1>3, <1>4 DEF Next, Step

LEMMA BootNext ==
  ASSUME Failures # "any"
  PROVE  BootInv /\ [Next]_vars => BootInv'
<1> SUFFICES ASSUME BootInv, [Next]_vars PROVE BootInv'
  OBVIOUS
<1>1. SpreadInv /\ PayloadInv /\ Placed /\ TypeOK /\ (stack # <<>> => up)
  BY DEF BootInv, SpreadInv
<1>2. SpreadInv' /\ PayloadInv' /\ Placed' /\ (stack # <<>> => up)'
  BY <1>1, SpreadNext, PayloadNext, PlacedNext, UpNext
<1>3. ASSUME (stack # <<>> /\ Base = "boot")' PROVE BootGoes'
  <2>1. CASE stack = <<>>
    <3>1. CASE Boot
      BY <1>1, <3>1, BootBegins
    <3>2. CASE Request
      <4>1. PICK f : f.op \in {"getImage", "imageDecomposer"} /\ stack' = <<VerifierFrame, f>>
        BY <3>2 DEF Request, getImage, imageDecomposer
      <4>2. (Base # "boot")'
        BY <4>1, Calls DEF Base
      <4>3. QED
        BY <1>3, <4>2
    <3>3. CASE ~Boot /\ ~Request
      <4>1. stack' = <<>>
        <5>1. ~Step
          BY <2>1 DEF Step, Verify, Repair, Write, VerifyNothing, VerifyAllGone, VerifyTooMany,
             reconstructDisk, RepairInfo, RepairPart, RepairParity, RepairDone, imageRestore,
             Repairing, StartWriting, WriteFile, WriteTree, Answer, EndBoot, Running
        <5>2. QED
          BY <2>1, <3>3, <5>1 DEF Next, Crash, Die, DiskFail, vars
      <4>2. QED
        BY <1>3, <4>1
    <3>4. QED
      BY <3>1, <3>2, <3>3
  <2>2. CASE stack # <<>> /\ Base # "boot"
    BY <1>1, <1>3, <2>2, BaseKept
  <2>3. CASE stack # <<>> /\ Base = "boot"
    <3>1. BootGoes
      BY <2>3 DEF BootInv
    <3>2. CASE Next
      BY <1>1, <1>3, <2>3, <3>1, <3>2, BootGoesNext
    <3>3. CASE UNCHANGED vars
      <4>1. UNCHANGED <<dir, file, treeFile, col, trees, image>> /\ stack' = stack
        BY <3>3 DEF vars, storage, memory
      <4>2. KnowsFiles' /\ \A f \in Frames : BootRepairs(f) => BootRepairs(f)'
        BY <3>1, <4>1, BootSame DEF BootGoes, BootRepairs
      <4>3. QED
        BY <3>1, <4>1, <4>2 DEF BootGoes
    <3>4. QED
      BY <3>2, <3>3
  <2>4. QED
    BY <2>1, <2>2, <2>3
<1>4. QED
  BY <1>2, <1>3 DEF BootInv

-----------------------------------------------------------------------------
(* What a boot survives.                                                   *)

\* The disk that misses a file of a stored image is the one that may.
LEMMA MissesOne ==
  ASSUME Orderly, TypeOK, PayloadInv, NEW d \in Disks
  PROVE  /\ (\E n \in Stored : \E k \in FilesAt(n, d) : file[<<d, n, k>>] = NoFile) => OthersWhole(d)
         /\ d \notin dir => OthersWhole(d)
         /\ Cardinality(Disks \ dir) \notin {2, 3}
<1>1. PICK x \in Disks : \A e \in Disks \ {x} : Whole(e) /\ e \in dir
  BY DEF Orderly, Sound, Alone
<1>2. x = d => OthersWhole(d)
  BY <1>1 DEF Orderly, Sound, Alone, OthersWhole
<1>3. ASSUME NEW n \in Stored, NEW k \in FilesAt(n, d), file[<<d, n, k>>] = NoFile
      PROVE  OthersWhole(d)
  <2>1. Whole(d) => Right(d, n, k)
    BY DEF Whole, FilesAt
  <2>2. ~Right(d, n, k)
    BY <1>3, RightExists
  <2>3. x = d
    BY <1>1, <2>1, <2>2
  <2>4. QED
    BY <1>2, <2>3
<1>4. Cardinality(Disks \ dir) \notin {2, 3}
  <2>1. CASE x \in dir
    <3>1. Disks \ dir = {}
      BY <1>1, <2>1
    <3>2. QED
      BY <3>1, FS_EmptySet
  <2>2. CASE x \notin dir
    <3>1. Disks \ dir = {x}
      BY <1>1, <2>2
    <3>2. QED
      BY <3>1, FS_Singleton
  <2>3. QED
    BY <2>1, <2>2
<1>5. d \notin dir => OthersWhole(d)
  BY <1>1, <1>2
<1>6. QED
  BY <1>3, <1>4, <1>5

\* What is whole is registered.
LEMMA OthersKnown ==
  ASSUME SpreadInv, PayloadInv, KnowsFiles, NEW d \in Disks, OthersWhole(d)
  PROVE  \A n \in Stored, e \in Disks \ {d} : \A k \in Slots(n, e) : <<e, n, k>> \in col
<1> SUFFICES ASSUME NEW n \in Stored, NEW e \in Disks \ {d}, NEW k \in Slots(n, e)
             PROVE  <<e, n, k>> \in col
  OBVIOUS
<1>1. n \in Names /\ TypeOK
  BY DEF Stored, SpreadInv
<1>2. k \in FilesAt(n, e) /\ Right(e, n, k)
  BY DEF OthersWhole, Whole, FilesAt
<1>3. file[<<e, n, k>>] # NoFile
  BY <1>1, <1>2, RightExists
<1>4. <<e, n, k>> \in Locs /\ k # 0
  <2>1. FragOf(image[n].parity, e) \in 1..4 /\ <<e, n, k>> \in Locs
    BY <1>1, <1>2, Places4
  <2>2. k = FragOf(image[n].parity, e) \/ k = 50 + FragOf(image[n].parity, e)
    BY <1>1, Places4
  <2>3. QED
    BY <2>1, <2>2
<1>5. QED
  BY <1>3, <1>4, LocFields DEF KnowsFiles

LEMMA VerifySurvives ==
  ASSUME Orderly, SpreadInv, PayloadInv, Placed, up, Verify,
         stack = <<VerifierFrame, BootFrame>>, KnowsFiles, \A l \in col : file[l] # NoFile
  PROVE  up'
<1>1. TypeOK /\ FilesGood
  BY DEF SpreadInv
<1>2. CASE VerifyNothing \/ VerifyAllGone
  BY <1>2 DEF VerifyNothing, VerifyAllGone, memory
<1>3. CASE VerifyTooMany
  BY <1>1, <1>3, 1 \in Disks, MissesOne DEF VerifyTooMany, Disks
<1>4. ASSUME NEW d \in Disks, reconstructDisk(d) PROVE up'
  <2>1. d \notin dir
    BY <1>4 DEF reconstructDisk
  <2>2. OthersWhole(d)
    BY <1>1, <2>1, MissesOne
  <2>3. Column(d) = {}
    BY <1>1, <2>1 DEF Column, Placed, TypeOK
  <2>4. \A n \in Registered : ~Bad(n)
    <3>1. \A n \in Stored, e \in Disks \ {d} : \A k \in Slots(n, e) : <<e, n, k>> \in col
      BY <2>2, OthersKnown
    <3>2. Registered \subseteq Stored
      BY <2>2 DEF OthersWhole
    <3>3. QED
      BY <1>1, <2>3, <3>1, <3>2, NotBad
  <2>5. QED
    BY <1>4, <2>4 DEF reconstructDisk
<1>5. QED
  BY <1>2, <1>3, <1>4 DEF Verify

\* The fragment the repair is at can be recovered: its disk lacks it.
LEMMA PartRecovers ==
  ASSUME Orderly, SpreadInv, PayloadInv, BootGoes, Head(stack).op = "repair",
         NEW f, f = Head(stack), f.at = "parts", NEW n, IsLeast(n, f.names),
         NEW l \in col, DiskOf(l) = f.ref, NameOf(l) = n, NumbOf(l) \in FragNumbs,
         l \in f.parts \/ NumbOf(l) = 4
  PROVE  XORrecovery(l) # {}
<1>1. /\ Repairable(f, {}) /\ f.ref \in Disks /\ f.names \subseteq Names
      /\ TypeOK /\ FilesGood /\ dir = Disks /\ KnowsFiles
  BY BootRepairTop DEF SpreadInv, Repairable, BootGoes
<1>2. n \in Registered /\ n \in Stored /\ n \in Names /\ n \in f.names
  BY DEF Registered, Orderly, Sound, Alone, Stored, IsLeast
<1>3. l \in Locs /\ l = Fragment(f.ref, n)
  <2>1. l \in Fragments(n) /\ image[n].status # "mixed"
    BY <1>2 DEF Fragments, Stored
  <2>2. QED
    BY <1>1, <1>2, <2>1, FragmentsPlaced
<1>4. file[l] = NoFile
  BY <1>1, <1>2, <1>3 DEF Repairable, Unwritten
<1>5. FragOf(image[n].parity, f.ref) \in FilesAt(n, f.ref)
  BY <1>1, <1>2, Places4 DEF FilesAt
<1>6. OthersWhole(f.ref)
  BY <1>1, <1>2, <1>3, <1>4, <1>5, MissesOne DEF Fragment
<1>7. file[<<f.ref, n, 0>>] = Existing(<<Ante(f.ref), n, 0>>)
  BY <1>1, <1>2 DEF Repairable, InfoCopied
<1>8. QED
  BY <1>1, <1>2, <1>3, <1>6, <1>7, OthersRecover

LEMMA PartSurvives ==
  ASSUME Orderly, SpreadInv, PayloadInv, BootGoes, up, Head(stack).op = "repair", RepairPart
  PROVE  up'
<1>1. PICK f : f = Head(stack)
  OBVIOUS
<1>2. /\ Repairable(f, {}) /\ f.parts \subseteq Locs /\ f.at = "parts" /\ TypeOK
  BY <1>1, BootRepairTop DEF SpreadInv, Repairable, BootGoes, RepairPart, Repairing
<1>3. PICK n \in f.names, l \in f.parts :
        /\ IsLeast(n, f.names) /\ IsFirst(l, f.parts)
        /\ \/ NameOf(l) = n /\ XORrecovery(l) = {}
           \/ f.imgs = {}
           \/ UNCHANGED memory
  BY <1>1 DEF RepairPart
<1>4. l \in col /\ DiskOf(l) = f.ref /\ NumbOf(l) \in 1..3
  BY <1>2 DEF Repairable
<1>5. NameOf(l) = n => XORrecovery(l) # {}
  <2>1. NumbOf(l) \in FragNumbs
    BY <1>4 DEF FragNumbs
  <2>2. QED
    BY <1>1, <1>2, <1>3, <1>4, <2>1, PartRecovers
<1>6. f.imgs # {}
  <2>1. f.imgs = {StripOf(j) : j \in f.parts}
    BY <1>2 DEF Repairable, Paired, Orderly, Sound, Alone
  <2>2. QED
    BY <2>1
<1>7. QED
  BY <1>3, <1>5, <1>6 DEF memory

LEMMA ParitySurvives ==
  ASSUME Orderly, SpreadInv, PayloadInv, BootGoes, up, Head(stack).op = "repair", RepairParity
  PROVE  up'
<1>1. PICK f : f = Head(stack)
  OBVIOUS
<1>2. f.at = "parts"
  BY <1>1 DEF RepairParity, Repairing
<1>3. PICK n \in f.names :
        /\ IsLeast(n, f.names)
        /\ \/ <<f.ref, n, 4>> \in col /\ XORrecovery(<<f.ref, n, 4>>) = {}
           \/ UNCHANGED memory
  BY <1>1 DEF RepairParity
<1>4. <<f.ref, n, 4>> \in col => XORrecovery(<<f.ref, n, 4>>) # {}
  <2> DEFINE l == <<f.ref, n, 4>>
  <2>1. DiskOf(l) = f.ref /\ NameOf(l) = n /\ NumbOf(l) = 4 /\ NumbOf(l) \in FragNumbs
    BY LocFields DEF FragNumbs
  <2> HIDE DEF l
  <2>2. l \in col => XORrecovery(l) # {}
    BY <1>1, <1>2, <1>3, <2>1, PartRecovers
  <2>3. QED
    BY <2>2 DEF l
<1>5. QED
  BY <1>3, <1>4 DEF memory

\* The strip is cut from the picture that merge finds.
LEMMA RestoreSurvives ==
  ASSUME Orderly, SpreadInv, PayloadInv, BootGoes, up, Head(stack).op = "imageRestore", imageRestore
  PROVE  up'
<1>1. stack # <<VerifierFrame, BootFrame>>
  BY Calls
<1>2. PICK f \in Frames, g \in Frames :
        /\ g.op = "imageRestore" /\ Repairable(f, {g.img}) /\ Restorable(f, g.img)
        /\ \/ stack = <<g, f, BootFrame>> /\ Head(stack) = g /\ Tail(stack) = <<f, BootFrame>>
           \/ /\ stack = <<VerifierFrame, g, f, BootFrame>> /\ Head(stack) = VerifierFrame
              /\ Tail(stack) = <<g, f, BootFrame>>
  BY <1>1, BootRestoreTop
<1>3. Head(stack) = g
  BY <1>2, Calls
<1> DEFINE m == g.img
           n == NameOf(m)
           d == f.ref
<1>4. /\ m \in col /\ m \in Locs /\ DiskOf(m) = d /\ NumbOf(m) \in StripNumbs /\ n \in f.names
      /\ OthersWhole(d) => FragmentRight(d, n)
      /\ Unwritten(f, {m}) /\ Paired(f)
      /\ TypeOK /\ FilesGood /\ dir = Disks /\ KnowsFiles
  BY <1>2 DEF Restorable, Repairable, SpreadInv, TypeOK, BootGoes, IsLeast
<1>5. d \in Disks /\ n \in Registered /\ n \in Stored /\ n \in Names /\ treeFile[n] = <<n, image[n].payload>>
  BY <1>4, LocFields DEF Registered, Orderly, Sound, Alone, Stored
<1> HIDE DEF m, n, d
<1>6. FragOf(image[n].parity, d) \in 1..3 /\ m = StripAt(d, n) /\ NumbOf(m) \in FilesAt(n, d)
  <2>1. NumbOf(m) \in SlotsAt(image[n].parity, d)
    <3>1. Good(image, m) /\ image[n].status = "stored" /\ NumbOf(m) # 0
      BY <1>4, <1>5 DEF FilesGood, Stored, StripNumbs
    <3>2. QED
      BY <1>4, <3>1 DEF Good, n
  <2>2. FragOf(image[n].parity, d) \in 1..4 /\ NumbOf(m) \in 51..53
    BY <1>4, <1>5, Places4 DEF StripNumbs
  <2>3. FragOf(image[n].parity, d) \in 1..3 /\ NumbOf(m) = 50 + FragOf(image[n].parity, d)
    BY <2>1, <2>2 DEF SlotsAt
  <2>4. m = <<d, n, NumbOf(m)>>
    BY <1>4, LocFields DEF n
  <2>5. NumbOf(m) \in FilesAt(n, d)
    BY <1>4, <1>5, <2>3, Places4 DEF FilesAt
  <2>6. QED
    BY <2>3, <2>4, <2>5 DEF StripAt
<1>7. file[m] = NoFile
  BY <1>4 DEF Unwritten, d, n
<1>8. OthersWhole(d)
  <2>1. m = <<d, n, NumbOf(m)>>
    BY <1>4, LocFields DEF n
  <2>2. QED
    BY <1>4, <1>5, <1>6, <1>7, <2>1, MissesOne
<1>9. \A e \in Disks : Fragment(e, n) \in col /\ FragmentRight(e, n)
  <2>1. ASSUME NEW e \in Disks \ {d} PROVE Fragment(e, n) \in col /\ FragmentRight(e, n)
    <3>1. FragOf(image[n].parity, e) \in Slots(n, e)
      BY <1>4, <1>5, Places4
    <3>2. Fragment(e, n) \in col
      BY <1>4, <1>5, <1>8, <3>1, OthersKnown DEF Fragment, SpreadInv
    <3>3. QED
      BY <1>5, <1>8, <3>1, <3>2 DEF OthersWhole, Whole, FragmentRight
  <2>2. Fragment(d, n) \in col
    <3>1. <<d, n, 50 + FragOf(image[n].parity, d)>> \in col
      BY <1>4, <1>6 DEF StripAt
    <3>2. Registered \subseteq Stored
      BY <1>8 DEF OthersWhole
    <3>3. QED
      BY <1>4, <1>5, <1>6, <3>1, <3>2 DEF Paired, Fragment, d
  <2>3. FragmentRight(d, n)
    BY <1>4, <1>8
  <2>4. QED
    BY <2>1, <2>2, <2>3
<1>10. n \in trees
  <2>1. <<n, image[n].payload>> \in Pictures
    BY <1>5 DEF PayloadInv, Stored, Pictures
  <2>2. treeFile[n] # NoFile
    BY <1>5, <2>1, ValuesAssumption
  <2>3. QED
    BY <1>4, <1>5, <2>2 DEF KnowsFiles
<1>11. merge(n) = {<<n, image[n].payload>>}
  <2>1. \A o \in Registered \cup trees : <<n, o>> \in Hits => n = o
    BY <1>5 DEF Orderly, Sound, Alone
  <2>2. QED
    BY <1>4, <1>5, <1>9, <1>10, <2>1, MergeOrderly
<1>12. PICK r \in merge(n) :
         \/ r \in Pictures /\ r[1] = n /\ UNCHANGED memory
         \/ r = Junk
         \/ r \in {Failed, Junk} \/ (r \in Pictures /\ r[1] # n)
         \/ r \in {Died, NotFound}
  BY <1>3 DEF imageRestore, n, m
<1>13. /\ <<n, image[n].payload>> \in Pictures /\ <<n, image[n].payload>>[1] = n
       /\ <<n, image[n].payload>> \notin {Junk, Failed, Died, NotFound}
  <2>1. <<n, image[n].payload>> \in Pictures
    BY <1>5 DEF PayloadInv, Stored, Pictures
  <2>2. QED
    BY <2>1, ValuesAssumption
<1>14. QED
  BY <1>11, <1>12, <1>13 DEF memory

LEMMA BootSurvives ==
  ASSUME Failures # "any", BootInv, [Next]_vars,
         up, stack # <<>>, Base = "boot", Orderly, faults' = faults
  PROVE  up'
<1>1. /\ SpreadInv /\ PayloadInv /\ Placed /\ BootGoes /\ KnowsFiles
      /\ faults \in Nat
  BY NamesAssumption DEF BootInv, BootGoes, SpreadInv, TypeOK
<1>2. ~Crash
  BY <1>1 DEF Crash
<1>3. CASE UNCHANGED vars
  BY <1>3 DEF vars, memory
<1>4. CASE Head(stack).op = "boot" /\ EndBoot
  BY <1>4 DEF EndBoot, memory
<1>5. CASE Head(stack).op = "diskVerifier" /\ Verify
  <2>1. CASE stack = <<VerifierFrame, BootFrame>> /\ \A l \in col : file[l] # NoFile
    BY <1>1, <1>5, <2>1, VerifySurvives
  <2>2. CASE stack # <<VerifierFrame, BootFrame>>
    <3>1. dir = Disks
      BY <1>1, <1>5, <2>2, BootRestoreTop DEF Repairable
    <3>2. VerifyNothing
      BY <1>5, <3>1, NothingLost
    <3>3. QED
      BY <3>2 DEF VerifyNothing, memory
  <2>3. QED
    BY <1>1, <1>5, <2>1, <2>2, BootTops
<1>6. CASE Head(stack).op = "repair" /\ (RepairInfo \/ RepairDone)
  BY <1>6 DEF RepairInfo, RepairDone, memory
<1>7. CASE Head(stack).op = "repair" /\ (RepairPart \/ RepairParity)
  BY <1>1, <1>7, PartSurvives, ParitySurvives
<1>8. CASE Head(stack).op = "imageRestore" /\ imageRestore
  BY <1>1, <1>8, RestoreSurvives
<1>9. QED
  BY <1>1, <1>2, <1>3, <1>4, <1>5, <1>6, <1>7, <1>8, BootCall, BootTops

\* The constructor survives what it finds in order, whatever earlier lives
\* left: calls stopped anywhere, trees spoiled, names stored again and found
\* by one another's text; only a disk that is lost during a call is excluded
\* (RAID_Controller.cpp:53-76, 305-442, 525-728).
THEOREM RaidBoots ==
  ASSUME Failures # "any"
  PROVE  Spec => BootGivesUpRightly
<1>1. Init => BootInv
  <2>1. Init => SpreadInv /\ PayloadInv
    BY SpreadInit DEF Init, PayloadInv
  <2>2. Init => Placed /\ stack = <<>>
    BY DEF Init, Placed
  <2>3. QED
    BY <2>1, <2>2 DEF BootInv
<1>2. BootInv /\ [Next]_vars => BootInv'
  BY BootNext
<1>3. BootInv /\ [Next]_vars =>
        [up /\ stack # <<>> /\ Base = "boot" /\ Orderly /\ faults' = faults => up']_vars
  BY BootSurvives
<1>4. QED
  BY <1>1, <1>2, <1>3, PTL DEF Spec, BootGivesUpRightly
=============================================================================
