--------------------------- MODULE RaidController ---------------------------
(***************************************************************************)
(* RAID_Controller: four directories that play the disks of a RAID 5, the  *)
(* columns it keeps of their files in memory, and its operations: boot,    *)
(* storing an image, reading one, and the rebuild of a lost disk that      *)
(* diskVerifier starts in the middle of any of them.                       *)
(* Source: RAID/RAID_Controller.cpp, RAID/Disk.cpp, RAID/FilePart.cpp.     *)
(*                                                                         *)
(* The program is one thread whose operations call each other: merge       *)
(* verifies the disks, a verification may repair one, a repair restores    *)
(* strips of pictures, and that merges again.  The calls in progress are   *)
(* the variable stack; each action is the stretch of one function between  *)
(* two points where the file system can change under it.                   *)
(*                                                                         *)
(* Files hold sets of marks instead of characters (see Written); the bits  *)
(* themselves are in Striping and the trees are only right or junk here.   *)
(***************************************************************************)
EXTENDS Integers, Sequences, FiniteSets

CONSTANTS
  NumNames,       \* how many picture names there are
  Payloads,       \* the pictures that may be stored under a name; two of them
                  \* differ in size, as their encoded files
  FileOrder,      \* the rank of a name's files in a std::map: names compare
                  \* there with the '_' that follows them
  Hits,           \* <<n, m>>: the text "n_" occurs in the file names of m
  Failures,       \* when a disk may be lost: "never", "cold", "idle" or "any"
  CrashAnywhere,  \* whether the process may stop in the middle of a call
  DanglingTree,   \* whether diskWriter's dangling iterator spoils a tree file
  Reinsert,       \* whether a name may be stored again
  MaxFaults,      \* how often a call is interrupted, and with Failures = "any"
                  \* how many disks are lost: beyond it TLC does not look
  NoFile, Junk, NotFound, Failed, Died, None    \* model values

Names == 1..NumNames
Disks == 1..4

ASSUME NamesAssumption == NumNames \in Nat \ {0} /\ MaxFaults \in Nat
ASSUME FileOrderAssumption ==
  /\ FileOrder \in [Names -> Names]
  /\ \A n, m \in Names : FileOrder[n] = FileOrder[m] => n = m
ASSUME HitsAssumption ==
  /\ Hits \subseteq Names \X Names
  /\ \A n \in Names : <<n, n>> \in Hits
ASSUME SwitchesAssumption ==
  /\ Failures \in {"never", "cold", "idle", "any"}
  /\ {CrashAnywhere, DanglingTree, Reinsert} \subseteq BOOLEAN

\* FilePart's partNumb: Info 0, Part 1 to 3, Parity 4, ImgPt 50 + 1 to 3.
FragNumbs == 1..4
StripNumbs == 51..53
PartNumbs == {0} \cup FragNumbs \cup StripNumbs

\* A file of a disk: the disk, the pure name and the part number.
Locs == Disks \X Names \X PartNumbs
DiskOf(l) == l[1]
NameOf(l) == l[2]
NumbOf(l) == l[3]

Marks == Names \X Payloads \X (0..3 \cup StripNumbs)

\* What diskWriter puts in file k of an image.  Mark 0 is the total size: a
\* data fragment carries it because its own size follows from it.  {} is a
\* file without a readable line.
Written(n, p, k) ==
  CASE k \in 1..3 -> {<<n, p, 0>>, <<n, p, k>>}
    [] k = 4      -> {<<n, p, i>> : i \in 1..3}
    [] OTHER      -> {<<n, p, k>>}

Pictures == Names \X Payloads

\* What is not a file, a picture or an answer is told from those that are.
ASSUME ValuesAssumption ==
  /\ \A n \in Names, p \in Payloads, k \in PartNumbs : Written(n, p, k) # NoFile
  /\ \A q \in Pictures : q \notin {NoFile, Junk, NotFound, Failed, Died, None}
  /\ None \notin Payloads
  /\ NoFile # Junk
  /\ NotFound \notin {Junk, Failed, Died, None}
  /\ Failed \notin {Junk, Died, None}
  /\ Died \notin {Junk, None}
  /\ Junk # None

\* Mutant of FragOf: numbers go on from the parity disk, so that a walk over
\* the disks does not meet the fragments in their order.
FragOf_FromParity(c, d) == IF d = c + 1 THEN 4 ELSE ((d - c + 2) % 4) + 1

\* Where diskWriter puts the fragments when parity goes to disk c + 1.
FragOf(c, d) == IF d = c + 1 THEN 4 ELSE IF d <= c THEN d ELSE d - 1

\* The disk whose Info files repair copies.
Ante(d) == IF d = 4 THEN 1 ELSE d + 1

VARIABLES
  dir,        \* the disks whose directory exists
  file,       \* the content of every file of the disks, or NoFile
  treeFile,   \* name -> the picture its tree file decodes, Junk or NoFile
  up,         \* the process runs
  col,        \* the files registered in the columns of the four disks
  trees,      \* the names registered in the map of trees
  c_disk,     \* the parity disk of the next image, minus one
  stack,      \* the calls in progress, the innermost first
  image,      \* history: what was stored under each name, and where
  reply,      \* history: the name getImage was last asked for, its answer
  faults      \* the faults MaxFaults bounds

storage == <<dir, file, treeFile>>
memory == <<up, col, trees, c_disk>>
vars == <<storage, memory, stack, image, reply, faults>>

-----------------------------------------------------------------------------
(* The order in which the program walks the columns.                       *)

\* The files of one name in a column: ImgPt, Info, Parity, Part.
KindRank(k) ==
  CASE k \in StripNumbs -> k - 60
    [] k = 0            -> -1
    [] k = 4            -> 0
    [] OTHER            -> k

Precedes(l, m) ==
  \/ DiskOf(l) < DiskOf(m)
  \/ /\ DiskOf(l) = DiskOf(m)
     /\ \/ FileOrder[NameOf(l)] < FileOrder[NameOf(m)]
        \/ /\ NameOf(l) = NameOf(m)
           /\ KindRank(NumbOf(l)) < KindRank(NumbOf(m))

IsFirst(l, S) == l \in S /\ \A m \in S \ {l} : Precedes(l, m)
First(S) == CHOOSE l \in S : IsFirst(l, S)

\* The first three of S in that order, as a set that is empty when there are
\* fewer: .at(0), .at(1) and .at(2) of a vector throw when it is shorter.
FirstThree(S) ==
  {s \in S \X S \X S :
     /\ Precedes(s[1], s[2])
     /\ Precedes(s[2], s[3])
     /\ \A l \in S \ {s[1], s[2], s[3]} : Precedes(s[3], l)}

IsLeast(i, S) == i \in S /\ \A j \in S : i <= j
Least(S) == CHOOSE i \in S : IsLeast(i, S)

Fragments(n) == {l \in col : NameOf(l) = n /\ NumbOf(l) \in FragNumbs}
Strips(n) == {l \in col : NameOf(l) = n /\ NumbOf(l) \in StripNumbs}

-----------------------------------------------------------------------------
(* Files.                                                                  *)

Existing(l) == IF file[l] = NoFile THEN {} ELSE file[l]

\* An ofstream in a directory that is gone writes nothing.
Put(l, content) ==
  file' = IF DiskOf(l) \in dir THEN [file EXCEPT ![l] = content] ELSE file

Bits(l) == {a \in Existing(l) : NumbOf(a) \in 1..3}

SymDiff(A, B) == (A \ B) \cup (B \ A)

\* Mutant of Sources: the fragment to recover is among its own sources.
Sources_WithItself(l) == Fragments(NameOf(l))

\* The fragments XORrecovery collects for l; it needs three of them, and the
\* size line that repair just copied to the Info file of l's disk.
Sources(l) == {m \in Fragments(NameOf(l)) : NumbOf(m) # NumbOf(l)}
InfoOf(l) == <<DiskOf(l), NameOf(l), 0>>

\* The content XORrecovery writes, or no content when it throws.
XORrecovery(l) ==
  {SymDiff(Bits(s[1]), SymDiff(Bits(s[2]), Bits(s[3])))
     \cup (IF NumbOf(l) = 4 THEN {} ELSE Existing(InfoOf(l))) :
   s \in IF Existing(InfoOf(l)) = {} THEN {} ELSE FirstThree(Sources(l))}

-----------------------------------------------------------------------------
(* merge and decompress: the results they may give for a name.             *)

Found(n) == {l \in col : <<n, NameOf(l)>> \in Hits /\ NumbOf(l) \in 1..3}

\* The first tree in the map whose file name holds the searched text.
TreeOf(n) ==
  CHOOSE m \in trees : /\ <<n, m>> \in Hits
                       /\ \A o \in trees : <<n, o>> \in Hits
                                             => FileOrder[m] <= FileOrder[o]

\* A missing file, or fewer than three of them, is an exception; the wrong
\* bits or the wrong tree decode to junk or run off the tree.
merge(n) ==
  LET t == treeFile[TreeOf(n)]
  IN  IF Found(n) = {} THEN {NotFound}
      ELSE IF FirstThree(Found(n)) = {} \/ \E l \in Found(n) : file[l] = NoFile
      THEN {Failed}
      ELSE IF \E l \in Found(n) : file[l] = {} THEN {Failed, Junk, Died}
      ELSE IF ~\E m \in trees : <<n, m>> \in Hits THEN {Died}
      ELSE IF /\ t \in Pictures
              /\ \A s \in FirstThree(Found(n)), i \in 1..3 :
                   file[s[i]] = Written(t[1], t[2], i)
      THEN {t}
      ELSE {Junk, Died}

-----------------------------------------------------------------------------
(* Calls, returns and exceptions.                                          *)

BootFrame == [op |-> "boot"]
VerifierFrame == [op |-> "diskVerifier"]

Running(op) == stack # <<>> /\ Head(stack).op = op

Return == stack' = Tail(stack)

Replace(f) == stack' = <<f>> \o Tail(stack)

Base == stack[Len(stack)].op

\* The process ends: everything in memory is gone.
Die ==
  /\ up' = FALSE
  /\ col' = {}
  /\ trees' = {}
  /\ c_disk' = 3
  /\ stack' = <<>>

\* An exception leaves every call in progress.  The server answers a request
\* that throws with an error and goes on, with the columns as they are; main
\* and the constructor of the handler do not catch.
Throw(columns) ==
  \/ /\ Base # "boot"
     /\ col' = columns
     /\ stack' = <<>>
     /\ reply' = IF Base = "getImage" THEN [reply EXCEPT !.answer = Failed]
                                      ELSE reply
     /\ UNCHANGED <<up, trees, c_disk>>
  \/ /\ Base # "getImage"
     /\ Die
     /\ UNCHANGED reply

-----------------------------------------------------------------------------
(* Operations.                                                             *)

\* The constructor: columns and trees are read from the directories, and the
\* disks are verified.
Boot ==
  /\ ~up
  /\ up' = TRUE
  /\ c_disk' = 3
  /\ col' = {l \in Locs : file[l] # NoFile}
  /\ trees' = {n \in Names : treeFile[n] # NoFile}
  /\ stack' = <<VerifierFrame, BootFrame>>
  /\ UNCHANGED <<storage, image, reply, faults>>

EndBoot ==
  /\ Running("boot")
  /\ Return
  /\ UNCHANGED <<storage, memory, image, reply, faults>>

Idle == up /\ stack = <<>>

\* A picture arrives: verify, then encode and cut it.
imageDecomposer(n, p) ==
  /\ Idle
  /\ image[n].status = "none" \/ Reinsert
  /\ stack' = <<VerifierFrame, [op |-> "imageDecomposer", name |-> n, payload |-> p]>>
  /\ reply' = [name |-> n, answer |-> None]
  /\ UNCHANGED <<storage, memory, image, faults>>

\* diskWriter visits the disks in order and writes to each the fragment, the
\* Info file and, with a data fragment, the strip, which it does not register.
FilesOf(d) ==
  LET k == FragOf(c_disk, d)
  IN  IF k = 4 THEN <<<<d, 4>>, <<d, 0>>>> ELSE <<<<d, k>>, <<d, 0>>, <<d, 50 + k>>>>

StartWriting ==
  /\ Running("imageDecomposer")
  /\ LET f == Head(stack) IN
       /\ Replace([op |-> "diskWriter", name |-> f.name, payload |-> f.payload,
                   todo |-> FilesOf(1) \o FilesOf(2) \o FilesOf(3) \o FilesOf(4)])
       /\ image' = [image EXCEPT ![f.name] =
                      [status |-> IF \/ @.status = "none"
                                     \/ @.status # "mixed" /\ @.parity = c_disk
                                  THEN "partial" ELSE "mixed",
                       payload |-> f.payload, parity |-> c_disk]]
  /\ UNCHANGED <<storage, memory, reply, faults>>

WriterLoc(f) == <<Head(f.todo)[1], f.name, Head(f.todo)[2]>>

WriteFile ==
  /\ Running("diskWriter") /\ Head(stack).todo # <<>>
  /\ LET f == Head(stack)
         l == WriterLoc(f)
     IN  /\ Put(l, Written(f.name, f.payload, NumbOf(l)))
         /\ col' = IF NumbOf(l) \in StripNumbs THEN col ELSE col \cup {l}
         /\ Replace([f EXCEPT !.todo = Tail(@)])
  /\ UNCHANGED <<dir, treeFile, up, trees, c_disk, image, reply, faults>>

\* Mutant of WriteTree: the file of a tree that is known is kept.
WriteTree_Kept ==
  /\ Running("diskWriter") /\ Head(stack).todo = <<>>
  /\ LET f == Head(stack) IN
       /\ treeFile' = IF f.name \in trees THEN treeFile
                      ELSE [treeFile EXCEPT ![f.name] = <<f.name, f.payload>>]
       /\ trees' = trees \cup {f.name}
       /\ image' = [image EXCEPT ![f.name].status =
                      IF @ = "partial" THEN "stored" ELSE @]
  /\ c_disk' = IF c_disk = 0 THEN 3 ELSE c_disk - 1
  /\ Return
  /\ UNCHANGED <<dir, file, up, col, reply, faults>>

\* The tree file is last.
WriteTree ==
  /\ Running("diskWriter") /\ Head(stack).todo = <<>>
  /\ LET f == Head(stack) IN
       /\ \E t \in {<<f.name, f.payload>>} \cup (IF DanglingTree THEN {Junk} ELSE {}) :
            treeFile' = [treeFile EXCEPT ![f.name] = t]
       /\ trees' = trees \cup {f.name}
       /\ image' = [image EXCEPT ![f.name].status =
                      IF @ = "partial" THEN "stored" ELSE @]
  /\ c_disk' = IF c_disk = 0 THEN 3 ELSE c_disk - 1
  /\ Return
  /\ UNCHANGED <<dir, file, up, col, reply, faults>>

getImage(n) ==
  /\ Idle
  /\ stack' = <<VerifierFrame, [op |-> "getImage", name |-> n]>>
  /\ reply' = [name |-> n, answer |-> None]
  /\ UNCHANGED <<storage, memory, image, faults>>

\* The disks are verified; what is left of merge, and decompress.
Answer ==
  /\ Running("getImage")
  /\ \E r \in merge(Head(stack).name) :
       \/ r = Failed /\ Throw(col)
       \/ r = Died /\ Die /\ UNCHANGED reply
       \/ /\ r \notin {Failed, Died}
          /\ reply' = [reply EXCEPT !.answer = r]
          /\ Return
          /\ UNCHANGED memory
  /\ UNCHANGED <<storage, image, faults>>

-----------------------------------------------------------------------------
(* diskVerifier and reconstructDisk.                                       *)

VerifyNothing ==
  /\ Running("diskVerifier")
  /\ dir = Disks
  /\ Return
  /\ UNCHANGED <<storage, memory, image, reply, faults>>

VerifyAllGone ==
  /\ Running("diskVerifier")
  /\ dir = {}
  /\ dir' = Disks
  /\ Return
  /\ UNCHANGED <<file, treeFile, memory, image, reply, faults>>

VerifyTooMany ==
  /\ Running("diskVerifier")
  /\ Cardinality(Disks \ dir) \in {2, 3}
  /\ Throw(col)
  /\ UNCHANGED <<storage, image, faults>>

\* The column of a disk without files is rebuilt from the others, name by name
\* in the order their files are met: the least part number not among the first
\* three fragments, then the least strip number neither there nor among the
\* strips.  A name with too few files throws; those before it are registered.
Numbs(n) ==
  UNION {{NumbOf(s[1]), NumbOf(s[2]), NumbOf(s[3])} : s \in FirstThree(Fragments(n))}
NewFragment(d, n) == <<d, n, Least(FragNumbs \ Numbs(n))>>

\* Mutants of MissingStrips and NewStrips: the parity's number is missing too;
\* the strip of the lost disk is not registered.
MissingStrips_Parity(n) == 1..4 \ (Numbs(n) \cup {NumbOf(l) - 50 : l \in Strips(n)})
NewStrips_Forgotten(d, n) == {}

MissingStrips(n) == 1..3 \ (Numbs(n) \cup {NumbOf(l) - 50 : l \in Strips(n)})
NewStrips(d, n) ==
  IF MissingStrips(n) = {} THEN {} ELSE {<<d, n, 50 + Least(MissingStrips(n))>>}

StripUnknown(n) == MissingStrips(n) # {} /\ Strips(n) = {}
Bad(n) == Numbs(n) = {} \/ StripUnknown(n)

Registered == {NameOf(l) : l \in col}
FirstFile(n) == First({l \in col : NameOf(l) = n})
AfterBad(n) == \E m \in Registered : Bad(m) /\ Precedes(FirstFile(m), FirstFile(n))

Rebuilt(d) ==
  UNION {{NewFragment(d, n)} \cup (IF StripUnknown(n) THEN {} ELSE NewStrips(d, n)) :
         n \in {m \in Registered : Numbs(m) # {} /\ ~AfterBad(m)}}

Column(d) == {l \in col : DiskOf(l) = d}

\* repair copies the Info files registered for the next disk, name by name.
RepairFrame(d) ==
  [op |-> "repair", ref |-> d, at |-> "info", parts |-> {}, imgs |-> {},
   names |-> {NameOf(l) : l \in {m \in Column(Ante(d)) : NumbOf(m) = 0}}]

\* Mutant of reconstructDisk: the column is rebuilt although it has files.
reconstructDisk_Always(d) ==
  /\ Running("diskVerifier")
  /\ Disks \ dir = {d}
  /\ dir' = Disks
  /\ IF \E n \in Registered : Bad(n)
     THEN Throw(col \cup Rebuilt(d))
     ELSE /\ col' = col \cup Rebuilt(d)
          /\ Replace(RepairFrame(d))
          /\ UNCHANGED <<up, trees, c_disk, reply>>
  /\ UNCHANGED <<file, treeFile, image, faults>>

reconstructDisk(d) ==
  /\ Running("diskVerifier")
  /\ Disks \ dir = {d}
  /\ dir' = Disks
  /\ IF Column(d) = {} /\ \E n \in Registered : Bad(n)
     THEN Throw(col \cup Rebuilt(d))
     ELSE /\ col' = IF Column(d) = {} THEN col \cup Rebuilt(d) ELSE col
          /\ Replace(RepairFrame(d))
          /\ UNCHANGED <<up, trees, c_disk, reply>>
  /\ UNCHANGED <<file, treeFile, image, faults>>

-----------------------------------------------------------------------------
(* repair, XORrecovery and imageRestore.                                   *)

Repairing(at) ==
  Running("repair") /\ Head(stack).names # {} /\ Head(stack).at = at

\* Mutant of RepairInfo: the parity file is among the parts.
RepairInfo_WithParity ==
  /\ Repairing("info")
  /\ LET f == Head(stack) IN
     \E n \in f.names :
         /\ IsLeast(n, f.names)
         /\ Put(<<f.ref, n, 0>>, Existing(<<Ante(f.ref), n, 0>>))
         /\ Replace([f EXCEPT
              !.at    = "parts",
              !.parts = {l \in Column(f.ref) : NumbOf(l) \in FragNumbs},
              !.imgs  = {l \in Column(f.ref) : NumbOf(l) \in StripNumbs}])
  /\ UNCHANGED <<dir, treeFile, memory, image, reply, faults>>

\* The Info file first: one line of the next disk's file, empty if that file
\* cannot be read.  The parts and strips are those of the disk's column.
RepairInfo ==
  /\ Repairing("info")
  /\ LET f == Head(stack) IN
     \E n \in f.names :
         /\ IsLeast(n, f.names)
         /\ Put(<<f.ref, n, 0>>, Existing(<<Ante(f.ref), n, 0>>))
         /\ Replace([f EXCEPT
              !.at    = "parts",
              !.parts = {l \in Column(f.ref) : NumbOf(l) \in 1..3},
              !.imgs  = {l \in Column(f.ref) : NumbOf(l) \in StripNumbs}])
  /\ UNCHANGED <<dir, treeFile, memory, image, reply, faults>>

\* One pass of the loop over the parts: the part if it is of this name, then
\* the strip at the same index, which may be of another name or not exist.
RepairPart ==
  /\ Repairing("parts")
  /\ LET f == Head(stack) IN
     \E n \in f.names, l \in f.parts :
           /\ IsLeast(n, f.names) /\ IsFirst(l, f.parts)
           /\ \/ NameOf(l) = n /\ XORrecovery(l) = {} /\ Throw(col) /\ UNCHANGED file
              \/ /\ IF NameOf(l) = n THEN \E c \in XORrecovery(l) : Put(l, c)
                                     ELSE UNCHANGED file
                 /\ \/ f.imgs = {} /\ Throw(col)
                    \/ \E m \in f.imgs :
                         /\ IsFirst(m, f.imgs)
                         /\ stack' =
                              (IF NameOf(m) = n
                               THEN <<VerifierFrame, [op |-> "imageRestore", img |-> m]>>
                               ELSE <<>>)
                              \o <<[f EXCEPT !.parts = @ \ {l}, !.imgs = @ \ {m}]>>
                              \o Tail(stack)
                         /\ UNCHANGED <<memory, reply>>
  /\ UNCHANGED <<dir, treeFile, image, faults>>

\* Mutants of RepairParity: the parity file is not recovered; the name is not
\* left for the next one.
RepairParity_Skipped ==
  /\ Repairing("parts") /\ Head(stack).parts = {}
  /\ LET f == Head(stack) IN
     \E n \in f.names :
       /\ IsLeast(n, f.names)
       /\ Replace([f EXCEPT !.at = "info", !.names = @ \ {n}, !.imgs = {}])
  /\ UNCHANGED <<storage, memory, image, reply, faults>>
RepairParity_SameName ==
  /\ Repairing("parts") /\ Head(stack).parts = {}
  /\ Replace([Head(stack) EXCEPT !.at = "info", !.imgs = {}])
  /\ UNCHANGED <<storage, memory, image, reply, faults>>

\* After the parts, the parity file of this name; then the next name.
RepairParity ==
  /\ Repairing("parts") /\ Head(stack).parts = {}
  /\ LET f == Head(stack) IN
     \E n \in f.names :
       LET l == <<f.ref, n, 4>> IN
       /\ IsLeast(n, f.names)
       /\ \/ l \in col /\ XORrecovery(l) = {} /\ Throw(col) /\ UNCHANGED file
          \/ /\ IF l \in col THEN \E c \in XORrecovery(l) : Put(l, c) ELSE UNCHANGED file
             /\ Replace([f EXCEPT !.at = "info", !.names = @ \ {n}, !.imgs = {}])
             /\ UNCHANGED <<memory, reply>>
  /\ UNCHANGED <<dir, treeFile, image, faults>>

\* "Disco N reestablecido correctamente"
RepairDone ==
  /\ Running("repair") /\ Head(stack).names = {}
  /\ Return
  /\ UNCHANGED <<storage, memory, image, reply, faults>>

\* The disks are verified again; merge, decompress, and cut the strip from the
\* picture found under the name of the strip.  What is no picture leaves a
\* spoiled strip, or none and an exception.
imageRestore ==
  /\ Running("imageRestore")
  /\ LET l == Head(stack).img IN
     \E r \in merge(NameOf(l)) :
       \/ /\ r \in Pictures /\ r[1] = NameOf(l)
          /\ Put(l, Written(r[1], r[2], NumbOf(l)))
          /\ Return /\ UNCHANGED <<memory, reply>>
       \/ /\ r = Junk
          /\ Put(l, {})
          /\ Return /\ UNCHANGED <<memory, reply>>
       \/ /\ r \in {Failed, Junk} \/ (r \in Pictures /\ r[1] # NameOf(l))
          /\ Throw(col) /\ UNCHANGED file
       \/ /\ r \in {Died, NotFound}
          /\ Die /\ UNCHANGED <<file, reply>>
  /\ UNCHANGED <<dir, treeFile, image, faults>>

-----------------------------------------------------------------------------
(* What happens to the program.                                            *)

MayFail ==
  CASE Failures = "never" -> FALSE
    [] Failures = "cold" -> ~up /\ dir = Disks
    [] Failures = "idle" -> stack = <<>> /\ dir = Disks
    [] OTHER             -> faults < MaxFaults

\* A disk is lost with its files.
DiskFail(d) ==
  /\ d \in dir
  /\ MayFail
  /\ dir' = dir \ {d}
  /\ file' = [l \in Locs |-> IF DiskOf(l) = d THEN NoFile ELSE file[l]]
  /\ faults' = IF Failures = "any" THEN faults + 1 ELSE faults
  /\ UNCHANGED <<treeFile, memory, stack, image, reply>>

\* The file an interrupted call may have emptied and not yet written.
Open(f) ==
  CASE f.op = "diskWriter" /\ f.todo # <<>> -> {WriterLoc(f)}
    [] f.op = "repair" ->
         {l \in Locs : /\ DiskOf(l) = f.ref
                       /\ IsLeast(NameOf(l), f.names)
                       /\ CASE f.at = "info"  -> NumbOf(l) = 0
                            [] f.parts = {}   -> l \in col /\ NumbOf(l) = 4
                            [] OTHER          -> IsFirst(l, f.parts)}
    [] f.op = "imageRestore" -> {f.img}
    [] OTHER -> {}

\* The process is stopped or crashes.
Crash ==
  /\ up
  /\ \/ stack = <<>> /\ UNCHANGED faults
     \/ /\ CrashAnywhere /\ stack # <<>> /\ faults < MaxFaults
        /\ faults' = faults + 1
  /\ \/ UNCHANGED <<file, treeFile>>
     \/ /\ stack # <<>>
        /\ \E l \in Open(Head(stack)) : Put(l, {})
        /\ UNCHANGED treeFile
     \/ /\ Running("diskWriter") /\ Head(stack).todo = <<>>
        /\ treeFile' = [treeFile EXCEPT ![Head(stack).name] = Junk]
        /\ UNCHANGED file
  /\ Die
  /\ UNCHANGED <<dir, image, reply>>

Init ==
  /\ dir = {}
  /\ file = [l \in Locs |-> NoFile]
  /\ treeFile = [n \in Names |-> NoFile]
  /\ up = FALSE
  /\ col = {}
  /\ trees = {}
  /\ c_disk = 3
  /\ stack = <<>>
  /\ image = [n \in Names |-> [status |-> "none", payload |-> None, parity |-> 0]]
  /\ reply = [name |-> 1, answer |-> None]
  /\ faults = 0

Request == \E n \in Names : getImage(n) \/ \E p \in Payloads : imageDecomposer(n, p)

\* What the running program does next by itself.
Verify ==
  \/ VerifyNothing \/ VerifyAllGone \/ VerifyTooMany
  \/ \E d \in Disks : reconstructDisk(d)
Repair == RepairInfo \/ RepairPart \/ RepairParity \/ RepairDone \/ imageRestore
Write == StartWriting \/ WriteFile \/ WriteTree
Step == Verify \/ Repair \/ Write \/ Answer \/ EndBoot

Next ==
  \/ Boot \/ Request \/ Step \/ Crash
  \/ \E d \in Disks : DiskFail(d)

\* One thread that runs as long as it has something to do; nothing makes a
\* client ask, a disk fail or an operator start the process.
Spec == Init /\ [][Next]_vars /\ WF_vars(Step)

-----------------------------------------------------------------------------
(* Properties.                                                             *)

Frames ==
  [op : {"boot", "diskVerifier"}]
  \cup [op : {"getImage"}, name : Names]
  \cup [op : {"imageDecomposer"}, name : Names, payload : Payloads]
  \cup [op : {"diskWriter"}, name : Names, payload : Payloads,
        todo : Seq(Disks \X PartNumbs)]
  \cup [op : {"repair"}, ref : Disks, names : SUBSET Names, at : {"info", "parts"},
        parts : SUBSET Locs, imgs : SUBSET Locs]
  \cup [op : {"imageRestore"}, img : Locs]

\* The type of every variable.
TypeOK ==
  /\ dir \subseteq Disks
  /\ file \in [Locs -> (SUBSET Marks) \cup {NoFile}]
  /\ treeFile \in [Names -> Pictures \cup {Junk, NoFile}]
  /\ up \in BOOLEAN
  /\ col \subseteq Locs
  /\ trees \subseteq Names
  /\ c_disk \in 0..3
  /\ stack \in Seq(Frames)
  /\ image \in [Names -> [status : {"none", "partial", "stored", "mixed"},
                          payload : Payloads \cup {None}, parity : 0..3]]
  /\ reply \in [name : Names, answer : Pictures \cup {Junk, NotFound, Failed, None}]
  /\ faults \in 0..MaxFaults

Stored == {n \in Names : image[n].status = "stored"}

\* The disk numbers of an image's fragment and strip on a disk.
Slots(n, d) ==
  LET k == FragOf(image[n].parity, d)
  IN  IF k = 4 THEN {4} ELSE {k, 50 + k}

\* No disk ever holds, in its directory or in its column, two fragments or two
\* strips of one image: whatever fails, and whatever reconstructDisk infers
\* from the other columns, a fragment lost with its disk is registered on that
\* disk again and nowhere else, so one lost disk costs an image one fragment.
\* (Storing a name again with another parity disk is the exception.)
Spread ==
  \A l \in Locs :
    (l \in col \/ file[l] # NoFile) /\ NumbOf(l) # 0 =>
      \/ image[NameOf(l)].status = "mixed"
      \/ NumbOf(l) \in Slots(NameOf(l), DiskOf(l))

Right(d, n, k) == file[<<d, n, k>>] = Written(n, image[n].payload, k)

Fragment(d, n) == <<d, n, FragOf(image[n].parity, d)>>
FragmentRight(d, n) == Right(d, n, FragOf(image[n].parity, d))

\* XORrecovery never writes a wrong fragment while the other three fragments
\* and the copied Info file are right, whatever else is lost, half rebuilt or
\* unregistered at that moment.
RecoveryRight ==
  [][\A n \in Stored, d \in Disks :
       /\ file'[Fragment(d, n)] # file[Fragment(d, n)]
       /\ Running("repair") /\ up' /\ d \in dir'
       /\ Right(d, n, 0) /\ \A e \in Disks \ {d} : FragmentRight(e, n)
       => FragmentRight(d, n)']_vars

\* A disk has every fragment, Info file and strip of the stored images.
Whole(d) == \A n \in Stored : \A k \in {0} \cup Slots(n, d) : Right(d, n, k)

\* Under cold failures: at every moment, in the middle of a rebuild too, at
\* most one disk misses anything; the other three determine it.
Recoverable == \E d \in Disks : \A e \in Disks \ {d} : Whole(e)

\* Under cold failures: getImage answers a stored image with the picture that
\* was stored last, whatever disks were lost and rebuilt since, and never
\* fails; an image that was not stored is not found.  With no disk lost: nor
\* does it matter where an earlier insertion of that name was interrupted.
ReadsStored ==
  LET n == reply.name IN
  reply.answer # None =>
    IF n \in Stored THEN reply.answer = <<n, image[n].payload>>
    ELSE image[n].status = "none" => reply.answer = NotFound

\* Under cold failures: a boot that begins ends with the process up and every
\* disk whole, the lost one included.
BootHeals ==
  stack # <<>> /\ Base = "boot" ~> Idle /\ dir = Disks /\ \A d \in Disks : Whole(d)

\* The names the program knows are of images stored to the end, their trees
\* decode them, and one disk at most misses any file of them.
Sound ==
  /\ \A n \in Registered : n \in Stored /\ treeFile[n] = <<n, image[n].payload>>
  /\ \E d \in Disks : \A e \in Disks \ {d} : Whole(e) /\ e \in dir

\* merge finds nothing else by the text of a name.
Alone(n) == \A m \in Registered \cup trees : <<n, m>> \in Hits => n = m

Orderly == Sound /\ \A n \in Registered : Alone(n)

\* The constructor gives up for a reason: while what it found is in order, it
\* does not end the process by an exception or a null pointer, whatever was
\* lost, interrupted and half repaired in earlier lives.  (Otherwise it may, at
\* every start again: an image interrupted before its third fragment and a
\* lost disk lock the others out, line 392.)
BootGivesUpRightly ==
  [][up /\ stack # <<>> /\ Base = "boot" /\ Orderly /\ faults' = faults => up']_vars

\* A call is cut short: the process ends in the middle of it, or an exception
\* leaves it from inside a call it made, or in the place of an answer.
CutShort ==
  /\ stack # <<>>
  /\ \/ ~up'
     \/ stack' = <<>> /\ Len(stack) > 1
     \/ stack' = <<>> /\ Base = "getImage" /\ reply'.answer = Failed

\* Every data fragment registered on a disk has its strip registered beside
\* it: not so after an insertion, until the next start, nor when a repair was
\* interrupted between the two.
Matched ==
  \A l \in col : NumbOf(l) \in 1..3 => <<DiskOf(l), NameOf(l), 50 + NumbOf(l)>> \in col

\* A rebuild, asked for by a boot or by a request, gives up for a reason: while
\* the images are sound, the columns matched and no directory is missing but the
\* one to be rebuilt, no index of repair misses its list (RAID_Controller.cpp:647),
\* no fragment or strip is unknown (392) and no picture is missing (719), whatever
\* was lost, rebuilt and interrupted before and between two steps of it.
RebuildGivesUpRightly ==
  [][/\ Sound /\ Matched /\ faults' = faults
     /\ \/ Running("diskVerifier")
        \/ Running("repair") /\ dir = Disks
        \/ Running("imageRestore") /\ dir = Disks /\ Alone(NameOf(Head(stack).img))
     => ~CutShort]_vars

\* Every call ends: with a return, an exception or the end of the process,
\* also when disks are lost while it repairs others.
CallsEnd == stack # <<>> ~> stack = <<>>

-----------------------------------------------------------------------------
(* What messages of the program say, and the program does not do.          *)

Damaged(d) == d \notin dir \/ \E n \in Stored : ~FragmentRight(d, n)

\* RAID_Controller.cpp:337 "Disco N reestablecido correctamente" is printed
\* when repair returns: the disk has its fragments again.
RestoredIsWhole ==
  Running("repair") /\ Head(stack).names = {} => ~Damaged(Head(stack).ref)

\* RAID_Controller.cpp:321 "Mas de un disco se ha danado, no se puede continuar
\* con la ejecucion": no rebuild begins while another disk is damaged.
NoRebuildOfTwo ==
  Running("diskVerifier") /\ Cardinality(Disks \ dir) = 1 =>
    \E d \in Disks : \A e \in Disks \ {d} : ~Damaged(e)

\* RAID_Controller.cpp:75 "Discos inicializados correctamente": when the
\* constructor is done no disk is damaged.
InitializedIsWhole == Running("boot") => \A d \in Disks : ~Damaged(d)
=============================================================================
