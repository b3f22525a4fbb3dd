----------------------------- MODULE FileNames ------------------------------
(***************************************************************************)
(* What a fragment is, and whose, is written nowhere but in the name of    *)
(* its file.  imageDecomposer takes the name of an image out of a path,    *)
(* diskWriter makes file names of it, fileFetcher splits them again at the *)
(* next start, and merge and repair look for pieces of them.               *)
(* Source: RAID/RAID_Controller.cpp.                                       *)
(*                                                                         *)
(* A text is a sequence of words, which the program separates with '_'.    *)
(* RaidController assumes names of a single harmless word; this module     *)
(* says what comes of the others.                                          *)
(***************************************************************************)
EXTENDS Integers, Sequences, FiniteSets

CONSTANTS
  Words,        \* the words of which names are made
  Endings,     \* <<v, w>>: the word w ends with the word v
  Images,       \* the files of Incoming: the texts between their dots
  MaxCalls      \* bound on the calls of imageDecomposer

\* The words the program adds to a name.
OwnWords == {"Part", "Parity", "Info", "ImgPt", "1", "2", "3"}
AllWords == Words \cup OwnWords \cup {"txt"}
Numbers == {"1", "2", "3"}
NumberOf(w) == CASE w = "1" -> 1 [] w = "2" -> 2 [] w = "3" -> 3

Texts == Seq(AllWords) \ {<<>>}

Disks == 1..4

VARIABLES
  disk,         \* disk -> the names of its files
  column,       \* disk -> <<file name, pure name, number>> of those registered
  c_disk,       \* the parity disk of the next image, minus one
  started,      \* "up", or "thrown" by the constructor
  calls         \* history: the images imageDecomposer was called for

vars == <<disk, column, c_disk, started, calls>>

-----------------------------------------------------------------------------
(* imageDecomposer and diskWriter.                                         *)

\* The path is split at its dots, and the text before the first one is taken
\* for the name, the one after it for the extension.
NameIn(img) == img[1]
ExtIn(img) == img[2]

File(name, words, ext) == [words |-> name \o words, ext |-> ext]
Txt == <<"txt">>

\* The fragment diskWriter puts on a disk: the parity on c_disk + 1.
PartOn(d) == IF d <= c_disk THEN d ELSE d - 1
Numeral(k) == CHOOSE w \in Numbers : NumberOf(w) = k

Registered(name, d) ==
  {<<File(name, <<"Info">>, Txt), name, 0>>,
   IF d = c_disk + 1 THEN <<File(name, <<"Parity">>, Txt), name, 4>>
   ELSE <<File(name, <<"Part", Numeral(PartOn(d))>>, Txt), name, PartOn(d)>>}

\* The strips are written and not registered.
Strip(name, ext, d) ==
  IF d = c_disk + 1 THEN {} ELSE {File(name, <<"ImgPt", Numeral(PartOn(d))>>, ext)}

\* The strip is cut from the file of this name and extension in Incoming: it
\* is not there when the path had more dots, and OpenCV throws, with the files
\* of the first data disk, and of the parity before it, already written.
HasPicture(img) == img = <<NameIn(img), ExtIn(img)>>
Written(img, d) == HasPicture(img) \/ d = 1 \/ (d = 2 /\ c_disk = 0)

NextDisk == IF c_disk = 0 THEN 3 ELSE c_disk - 1

imageDecomposer(img) ==
  /\ started = "up" /\ Len(calls) < MaxCalls
  /\ LET name == NameIn(img)
         files(d) == IF Written(img, d) THEN Registered(name, d) ELSE {}
         strips(d) == IF HasPicture(img) THEN Strip(name, ExtIn(img), d) ELSE {}
     IN /\ disk' = [d \in Disks |-> disk[d] \cup {f[1] : f \in files(d)} \cup strips(d)]
        /\ column' = [d \in Disks |-> column[d] \cup files(d)]
  /\ c_disk' = IF HasPicture(img) THEN NextDisk ELSE c_disk
  /\ calls' = Append(calls, img)
  /\ UNCHANGED started

-----------------------------------------------------------------------------
(* fileFetcher.                                                            *)

Underscores(f) == Len(f.words) - 1

\* Mutant of Throws: the number is sought in the word before.
Throws_WordBefore(f) ==
  Underscores(f) = 0 \/ (Underscores(f) = 2 /\ f.words[2] \notin Numbers)

\* stoi throws for a text that does not begin with a number.
Throws(f) == Underscores(f) = 0 \/ (Underscores(f) = 2 /\ f.words[3] \notin Numbers)

\* Mutant of Fetched: strips get the numbers of fragments.
Fetched_StripAsPart(f) ==
  CASE Underscores(f) = 2 -> {<<f, <<f.words[1]>>, NumberOf(f.words[3])>>}
    [] f.words[2] = "Info" /\ Underscores(f) = 1 /\ f.ext = Txt ->
         {<<f, <<f.words[1]>>, 0>>}
    [] f.words[2] = "Parity" /\ Underscores(f) = 1 /\ f.ext = Txt ->
         {<<f, <<f.words[1]>>, 4>>}
    [] OTHER -> {}

\* Mutant of Fetched: the name of the parity is not recognised.
Fetched_NoParity(f) ==
  CASE Underscores(f) = 2 ->
         {<<f, <<f.words[1]>>,
            IF f.words[2] = "ImgPt" THEN 50 + NumberOf(f.words[3])
                                    ELSE NumberOf(f.words[3])>>}
    [] f.words[2] = "Info" /\ Underscores(f) = 1 /\ f.ext = Txt ->
         {<<f, <<f.words[1]>>, 0>>}
    [] OTHER -> {}

\* What becomes of a file name: its first word is the pure name, the others
\* say the number.  A name that fits no case is passed over.
Fetched(f) ==
  CASE Underscores(f) = 2 ->
         {<<f, <<f.words[1]>>,
            IF f.words[2] = "ImgPt" THEN 50 + NumberOf(f.words[3])
                                    ELSE NumberOf(f.words[3])>>}
    [] f.words[2] = "Info" /\ Underscores(f) = 1 /\ f.ext = Txt ->
         {<<f, <<f.words[1]>>, 0>>}
    [] f.words[2] = "Parity" /\ Underscores(f) = 1 /\ f.ext = Txt ->
         {<<f, <<f.words[1]>>, 4>>}
    [] OTHER -> {}

\* The process stops and starts; the constructor is not left when it throws.
Restart ==
  /\ c_disk' = 3
  /\ IF \E d \in Disks : \E f \in disk[d] : Throws(f)
     THEN started' = "thrown" /\ column' = [d \in Disks |-> {}]
     ELSE started' = "up" /\ column' = [d \in Disks |-> UNION {Fetched(f) : f \in disk[d]}]
  /\ UNCHANGED <<disk, calls>>

Init ==
  /\ disk = [d \in Disks |-> {}] /\ column = [d \in Disks |-> {}]
  /\ c_disk = 3 /\ started = "up" /\ calls = <<>>

Next == Restart \/ \E img \in Images : imageDecomposer(img)

Spec == Init /\ [][Next]_vars

-----------------------------------------------------------------------------
(* merge.                                                                  *)

\* The file name holds the text, a '_' after it: its words follow each other,
\* and the first may be the end of a longer one.
Holds(f, text) ==
  \E k \in 1..(Len(f.words) - Len(text)) :
    /\ <<text[1], f.words[k]>> \in Endings
    /\ \A j \in 2..Len(text) : f.words[k + j - 1] = text[j]

Files == UNION {column[d] : d \in Disks}

\* Mutant of ReadFor: parts are not told from other files.
ReadFor_All(name) == {f \in Files : Holds(f[1], name)}

\* The files merge joins for a name.
ReadFor(name) == {f \in Files : Holds(f[1], name) /\ Holds(f[1], <<"Part">>)}

-----------------------------------------------------------------------------
(* Properties.                                                             *)

Called == {calls[k] : k \in 1..Len(calls)}
Single(img) == Len(NameIn(img)) = 1

\* Of an image whose name has no underscore, a file says the same at every
\* restart as when it was written: whose fragment it is, and which
\* (RAID_Controller.cpp:450-496 against 139-198).
ReadAsWritten ==
  \A d \in Disks : \A f \in column[d] :
    LET name == f[1].words[1]
        kind == f[1].words[2]
    IN (\A img \in Called : NameIn(img)[1] = name => Single(img)) =>
         /\ f[2] = <<name>>
         /\ f[3] = CASE kind = "Info" -> 0
                     [] kind = "Parity" -> 4
                     [] kind = "Part" -> NumberOf(f[1].words[3])
                     [] kind = "ImgPt" -> 50 + NumberOf(f[1].words[3])

\* The constructor throws (RAID_Controller.cpp:474) only when some image has
\* a name with one underscore: its "_Info.txt" has two, and what follows the
\* second is no number.
ThrowsForUnderscore ==
  started = "thrown" => \E img \in Called : Len(NameIn(img)) = 2

\* What is registered survives a restart with its name and its number, unless
\* the name of the image has two underscores or more: then its files stay on
\* the disks and no later process knows of them (RAID_Controller.cpp:465-490).
RestartKeeps ==
  [][started' = "up" =>
       \A d \in Disks : \A f \in column[d] : f \in column'[d] \/ Len(f[2]) > 2]_vars

\* merge (RAID_Controller.cpp:662-693) reads of an image stored once exactly
\* its three data fragments, as long as its name has no underscore, ends with no
\* word of the program's own nor one of these with it, and no other name called
\* for ends with it.
Harmless(img) ==
  /\ Single(img) /\ HasPicture(img)
  /\ \A w \in OwnWords :
       <<w, NameIn(img)[1]>> \notin Endings /\ <<NameIn(img)[1], w>> \notin Endings
  /\ Cardinality({k \in 1..Len(calls) :
       \E j \in 1..Len(NameIn(calls[k])) :
         <<NameIn(img)[1], NameIn(calls[k])[j]>> \in Endings}) = 1
ReadsItsParts ==
  started = "up" =>
    \A img \in Called : Harmless(img) =>
      LET read == ReadFor(NameIn(img)) IN
        {f[3] : f \in read} = 1..3 /\ Cardinality(read) = 3
=============================================================================
