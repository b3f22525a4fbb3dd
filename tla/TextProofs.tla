----------------------------- MODULE TextProofs -----------------------------
(***************************************************************************)
(* What the program reads out of texts: of the names of its files          *)
(* (FileNames) and of the body of a request (JsonLexer).                   *)
(*                                                                         *)
(* FileNames, for any words, endings and images that ImagesAssumption and  *)
(* EndingsAssumption of MCStripeLife allow, and any number of calls:       *)
(* NamesInv is the induction: a file belongs to an image that was called   *)
(* for, what is registered was written so or is what fileFetcher reads out *)
(* of the name of a file that is there, the information of every image is  *)
(* on the first disk, the three parts of one that could be read are on the *)
(* disks and, while the program is up, registered.  FetchedSingle is its   *)
(* other half: of a name with a single word fileFetcher reads what         *)
(* diskWriter has written.                                                 *)
(*                                                                         *)
(* JsonLexer, for a text of any bytes and any length: ReadInv says what    *)
(* was taken, put back, counted and quoted, StringInv what is in the       *)
(* buffer of a string while it is read.                                    *)
(***************************************************************************)
EXTENDS MCStripeLife, StripingProofs, JsonLexer, FiniteSetTheorems

-----------------------------------------------------------------------------
(* The files of an image, and what is said of them.                        *)

InfoOf(img)     == Names!File(img[1], <<"Info">>, Names!Txt)
ParityOf(img)   == Names!File(img[1], <<"Parity">>, Names!Txt)
PartOf(img, k)  == Names!File(img[1], <<"Part", Names!Numeral(k)>>, Names!Txt)
StripOf(img, k) == Names!File(img[1], <<"ImgPt", Names!Numeral(k)>>, img[2])

FilesOf(img) ==
  {InfoOf(img), ParityOf(img)} \cup {PartOf(img, k) : k \in 1..3} \cup {StripOf(img, k) : k \in 1..3}
EntriesOf(img) ==
  {<<InfoOf(img), img[1], 0>>, <<ParityOf(img), img[1], 4>>}
    \cup {<<PartOf(img, k), img[1], k>> : k \in 1..3}

LEMMA Numerals ==
  ASSUME NEW k \in 1..3
  PROVE  Names!Numeral(k) \in Names!Numbers /\ Names!NumberOf(Names!Numeral(k)) = k
<1>1. \E w \in Names!Numbers : Names!NumberOf(w) = k
  <2>1. k = 1 \/ k = 2 \/ k = 3
    OBVIOUS
  <2>2. Names!NumberOf("1") = 1 /\ Names!NumberOf("2") = 2 /\ Names!NumberOf("3") = 3
    BY DEF Names!NumberOf
  <2>3. QED
    BY <2>1, <2>2 DEF Names!Numbers
<1>2. QED
  BY <1>1 DEF Names!Numeral

\* A name with a word, or two, behind it.
LEMMA OneMore ==
  ASSUME NEW s \in Seq(Words), NEW w
  PROVE  /\ Len(s) \in Nat /\ Len(s \o <<w>>) = Len(s) + 1
         /\ \A j \in 1..Len(s) : (s \o <<w>>)[j] = s[j]
         /\ (s \o <<w>>)[Len(s) + 1] = w
<1>1. s \in Seq(Words \cup {w}) /\ <<w>> \in Seq(Words \cup {w}) /\ Len(<<w>>) = 1 /\ <<w>>[1] = w
  OBVIOUS
<1>2. QED
  BY <1>1, ConcatProperties, LenProperties

LEMMA TwoMore ==
  ASSUME NEW s \in Seq(Words), NEW v, NEW w
  PROVE  /\ Len(s) \in Nat /\ Len(s \o <<v, w>>) = Len(s) + 2
         /\ \A j \in 1..Len(s) : (s \o <<v, w>>)[j] = s[j]
         /\ (s \o <<v, w>>)[Len(s) + 1] = v
         /\ (s \o <<v, w>>)[Len(s) + 2] = w
<1>1. /\ s \in Seq(Words \cup {v, w}) /\ <<v, w>> \in Seq(Words \cup {v, w})
      /\ Len(<<v, w>>) = 2 /\ <<v, w>>[1] = v /\ <<v, w>>[2] = w
  OBVIOUS
<1>2. Len(s) \in Nat
  BY LenProperties
<1>3. Len(s \o <<v, w>>) = Len(s) + 2 /\ \A j \in 1..(Len(s) + 2) :
         (s \o <<v, w>>)[j] = IF j <= Len(s) THEN s[j] ELSE <<v, w>>[j - Len(s)]
  BY <1>1, ConcatProperties
<1>4. QED
  BY <1>1, <1>2, <1>3

LEMMA NameFacts ==
  ASSUME NEW img \in Images
  PROVE  /\ img[1] \in Seq(Words) /\ Len(img[1]) \in Nat \ {0}
         /\ img[1][1] \in Words
         /\ Len(img[1]) = 1 => img[1] = <<img[1][1]>>
<1>1. img \in Seq(Seq(Words)) /\ 1 \in 1..Len(img) /\ img[1] # <<>>
  BY ImagesAssumption, LenProperties
<1>2. img[1] \in Seq(Words)
  BY <1>1, ElementOfSeq
<1>3. Len(img[1]) \in Nat /\ Len(img[1]) # 0
  BY <1>1, <1>2, EmptySeq, LenProperties
<1>4. QED
  BY <1>2, <1>3, ElementOfSeq

\* The words of a file name.
LEMMA FileFacts ==
  ASSUME NEW img \in Images, NEW k \in 1..3
  PROVE  LET n == Len(img[1]) IN
         /\ \A f \in {InfoOf(img), ParityOf(img)} :
              /\ Len(f.words) = n + 1 /\ f.ext = Names!Txt
              /\ \A j \in 1..n : f.words[j] = img[1][j]
         /\ InfoOf(img).words[n + 1] = "Info"
         /\ ParityOf(img).words[n + 1] = "Parity"
         /\ \A f \in {PartOf(img, k), StripOf(img, k)} :
              /\ Len(f.words) = n + 2
              /\ \A j \in 1..n : f.words[j] = img[1][j]
              /\ f.words[n + 2] = Names!Numeral(k)
         /\ PartOf(img, k).words[n + 1] = "Part"
         /\ StripOf(img, k).words[n + 1] = "ImgPt"
<1>1. img[1] \in Seq(Words)
  BY NameFacts
<1>2. /\ InfoOf(img).words = img[1] \o <<"Info">> /\ InfoOf(img).ext = Names!Txt
      /\ ParityOf(img).words = img[1] \o <<"Parity">> /\ ParityOf(img).ext = Names!Txt
      /\ PartOf(img, k).words = img[1] \o <<"Part", Names!Numeral(k)>>
      /\ StripOf(img, k).words = img[1] \o <<"ImgPt", Names!Numeral(k)>>
  BY DEF InfoOf, ParityOf, PartOf, StripOf, Names!File
<1>3. QED
  BY <1>1, <1>2, OneMore, TwoMore

\* The words of its file names, when its name is a single one.
LEMMA SingleWords ==
  ASSUME NEW img \in Images, Len(img[1]) = 1, NEW k \in 1..3
  PROVE  /\ Len(InfoOf(img).words) = 2 /\ InfoOf(img).words[1] = img[1][1]
         /\ InfoOf(img).words[2] = "Info" /\ InfoOf(img).ext = Names!Txt
         /\ Len(ParityOf(img).words) = 2 /\ ParityOf(img).words[1] = img[1][1]
         /\ ParityOf(img).words[2] = "Parity" /\ ParityOf(img).ext = Names!Txt
         /\ Len(PartOf(img, k).words) = 3 /\ PartOf(img, k).words[1] = img[1][1]
         /\ PartOf(img, k).words[2] = "Part" /\ PartOf(img, k).words[3] = Names!Numeral(k)
         /\ Len(StripOf(img, k).words) = 3 /\ StripOf(img, k).words[1] = img[1][1]
         /\ StripOf(img, k).words[2] = "ImgPt" /\ StripOf(img, k).words[3] = Names!Numeral(k)
<1> DEFINE n == Len(img[1])
<1>1. n = 1 /\ n + 1 = 2 /\ n + 2 = 3 /\ 1 \in 1..n
  OBVIOUS
<1>2. /\ \A f \in {InfoOf(img), ParityOf(img)} :
           Len(f.words) = n + 1 /\ f.ext = Names!Txt /\ \A j \in 1..n : f.words[j] = img[1][j]
      /\ InfoOf(img).words[n + 1] = "Info"
      /\ ParityOf(img).words[n + 1] = "Parity"
  BY FileFacts
<1>3. /\ \A f \in {PartOf(img, k), StripOf(img, k)} :
           /\ Len(f.words) = n + 2 /\ \A j \in 1..n : f.words[j] = img[1][j]
           /\ f.words[n + 2] = Names!Numeral(k)
      /\ PartOf(img, k).words[n + 1] = "Part"
      /\ StripOf(img, k).words[n + 1] = "ImgPt"
  BY FileFacts
<1> HIDE DEF n
<1>4. QED
  BY <1>1, <1>2, <1>3

\* Of an image with a single word the program reads out of a file name what it
\* has written into it.
LEMMA FetchedSingle ==
  ASSUME NEW img \in Images, Len(img[1]) = 1, NEW k \in 1..3
  PROVE  /\ Names!Fetched(InfoOf(img)) = {<<InfoOf(img), img[1], 0>>}
         /\ Names!Fetched(ParityOf(img)) = {<<ParityOf(img), img[1], 4>>}
         /\ Names!Fetched(PartOf(img, k)) = {<<PartOf(img, k), img[1], k>>}
         /\ Names!Fetched(StripOf(img, k)) = {<<StripOf(img, k), img[1], 50 + k>>}
<1>1. img[1] = <<img[1][1]>>
  BY NameFacts
<1>2. /\ Len(InfoOf(img).words) = 2 /\ InfoOf(img).words[1] = img[1][1]
      /\ InfoOf(img).words[2] = "Info" /\ InfoOf(img).ext = Names!Txt
      /\ Len(ParityOf(img).words) = 2 /\ ParityOf(img).words[1] = img[1][1]
      /\ ParityOf(img).words[2] = "Parity" /\ ParityOf(img).ext = Names!Txt
      /\ Len(PartOf(img, k).words) = 3 /\ PartOf(img, k).words[1] = img[1][1]
      /\ PartOf(img, k).words[2] = "Part" /\ PartOf(img, k).words[3] = Names!Numeral(k)
      /\ Len(StripOf(img, k).words) = 3 /\ StripOf(img, k).words[1] = img[1][1]
      /\ StripOf(img, k).words[2] = "ImgPt" /\ StripOf(img, k).words[3] = Names!Numeral(k)
  BY SingleWords
<1>3. Names!NumberOf(Names!Numeral(k)) = k
  BY Numerals
<1>4. Names!Fetched(InfoOf(img)) = {<<InfoOf(img), img[1], 0>>}
  BY <1>1, <1>2 DEF Names!Fetched, Names!Underscores
<1>5. Names!Fetched(ParityOf(img)) = {<<ParityOf(img), img[1], 4>>}
  BY <1>1, <1>2 DEF Names!Fetched, Names!Underscores
<1>6. Names!Fetched(PartOf(img, k)) = {<<PartOf(img, k), img[1], k>>}
  BY <1>1, <1>2, <1>3 DEF Names!Fetched, Names!Underscores
<1>7. Names!Fetched(StripOf(img, k)) = {<<StripOf(img, k), img[1], 50 + k>>}
  BY <1>1, <1>2, <1>3 DEF Names!Fetched, Names!Underscores
<1>8. QED
  BY <1>4, <1>5, <1>6, <1>7

\* A file name the constructor cannot read is one of a name with an underscore.
LEMMA ThrowsOnlyThen ==
  ASSUME NEW img \in Images
  PROVE  /\ \A f \in FilesOf(img) : Names!Throws(f) => Len(img[1]) = 2
         /\ Len(img[1]) = 2 => Names!Throws(InfoOf(img))
<1> DEFINE n == Len(img[1])
<1>1. n \in Nat \ {0}
  BY NameFacts
<1>2. /\ Len(InfoOf(img).words) = n + 1 /\ Len(ParityOf(img).words) = n + 1
      /\ InfoOf(img).words[n + 1] = "Info"
  BY FileFacts
<1>3. ASSUME NEW k \in 1..3
      PROVE  \A f \in {PartOf(img, k), StripOf(img, k)} :
               Len(f.words) = n + 2 /\ f.words[n + 2] \in Names!Numbers
  BY FileFacts, Numerals
<1> HIDE DEF n
<1>4. \A f \in {InfoOf(img), ParityOf(img)} : Names!Throws(f) => n = 2
  BY <1>1, <1>2 DEF Names!Throws, Names!Underscores
<1>5. ASSUME NEW k \in 1..3
      PROVE  \A f \in {PartOf(img, k), StripOf(img, k)} : ~Names!Throws(f)
  BY <1>1, <1>3 DEF Names!Throws, Names!Underscores
<1>6. n = 2 => Names!Throws(InfoOf(img))
  BY <1>2 DEF Names!Throws, Names!Underscores, Names!Numbers
<1>7. QED
  BY <1>4, <1>5, <1>6 DEF FilesOf, n

-----------------------------------------------------------------------------
(* The inductive invariant.                                                *)

NamesType == c_disk \in 0..3 /\ started \in {"up", "thrown"} /\ calls \in Seq(Images)

\* A file on a disk is one of an image that was called for.
FilesOfCalled ==
  \A d \in Names!Disks : \A f \in disk[d] : \E img \in Names!Called : f \in FilesOf(img)

\* What is registered is on the disk, and was registered when it was written or
\* read out of the file name.
EntryRight(e) == (\E img \in Names!Called : e \in EntriesOf(img)) \/ e \in Names!Fetched(e[1])
EntriesRight ==
  \A d \in Names!Disks : \A e \in column[d] : e[1] \in disk[d] /\ EntryRight(e)

\* The information of every image called for is on the first disk.
InfoThere == \A img \in Names!Called : InfoOf(img) \in disk[1]

\* The data fragments of an image that could be read are on the disks, and
\* registered while the program is up.
PartThere(img, k) ==
  \E d \in Names!Disks :
    /\ PartOf(img, k) \in disk[d]
    /\ started = "up" => <<PartOf(img, k), img[1], k>> \in column[d]
PartsThere ==
  \A img \in Names!Called :
    Names!HasPicture(img) /\ Names!Single(img) => \A k \in 1..3 : PartThere(img, k)

ThrownRight == started = "thrown" => \E img \in Names!Called : Len(img[1]) = 2

NamesInv ==
  NamesType /\ FilesOfCalled /\ EntriesRight /\ InfoThere /\ PartsThere /\ ThrownRight

LEMMA CalledImages == NamesType => Names!Called \subseteq Images
BY ElementOfSeq DEF NamesType, Names!Called

LEMMA NamesInvInit == Names!Init => NamesInv
<1> SUFFICES ASSUME Names!Init PROVE NamesInv
  OBVIOUS
<1>1. /\ c_disk = 3 /\ started = "up" /\ calls = <<>>
      /\ \A d \in Names!Disks : disk[d] = {} /\ column[d] = {}
  BY DEF Names!Init
<1>2. Names!Called = {}
  BY <1>1 DEF Names!Called
<1>3. NamesType
  BY <1>1 DEF NamesType
<1>4. QED
  BY <1>1, <1>2, <1>3
     DEF NamesInv, FilesOfCalled, EntriesRight, InfoThere, PartsThere, ThrownRight

\* What imageDecomposer writes and registers.
LEMMA WrittenFacts ==
  ASSUME NEW img \in Images, NEW d \in Names!Disks, c_disk \in 0..3
  PROVE  /\ \A e \in Names!Registered(img[1], d) : e \in EntriesOf(img) /\ e[1] \in FilesOf(img)
         /\ \A f \in Names!Strip(img[1], img[2], d) : f \in FilesOf(img)
         /\ <<InfoOf(img), img[1], 0>> \in Names!Registered(img[1], d)
         /\ \A k \in 1..3 : d = (IF k <= c_disk THEN k ELSE k + 1) =>
              <<PartOf(img, k), img[1], k>> \in Names!Registered(img[1], d)
<1>1. d \in 1..4
  BY DEF Names!Disks
<1>2. d # c_disk + 1 => Names!PartOn(d) \in 1..3
  BY <1>1 DEF Names!PartOn
<1>3. \A e \in Names!Registered(img[1], d) : e \in EntriesOf(img)
  BY <1>2 DEF Names!Registered, EntriesOf, InfoOf, ParityOf, PartOf
<1>4. \A e \in EntriesOf(img) : e[1] \in FilesOf(img)
  BY DEF EntriesOf, FilesOf
<1>5. \A f \in Names!Strip(img[1], img[2], d) : f \in FilesOf(img)
  BY <1>2 DEF Names!Strip, FilesOf, StripOf
<1>6. <<InfoOf(img), img[1], 0>> \in Names!Registered(img[1], d)
  BY DEF Names!Registered, InfoOf
<1>7. ASSUME NEW k \in 1..3, d = (IF k <= c_disk THEN k ELSE k + 1)
      PROVE  <<PartOf(img, k), img[1], k>> \in Names!Registered(img[1], d)
  <2>1. d # c_disk + 1 /\ Names!PartOn(d) = k
    BY <1>7 DEF Names!PartOn
  <2>2. QED
    BY <2>1 DEF Names!Registered, PartOf
<1>8. QED
  BY <1>3, <1>4, <1>5, <1>6, <1>7

LEMMA DecomposerStep ==
  ASSUME NamesInv, NEW img \in Images, Names!imageDecomposer(img)
  PROVE  NamesInv'
<1> DEFINE entries(d) == IF Names!Written(img, d) THEN Names!Registered(img[1], d) ELSE {}
           strips(d) == IF Names!HasPicture(img) THEN Names!Strip(img[1], img[2], d) ELSE {}
<1>1. /\ started = "up" /\ started' = started /\ calls' = Append(calls, img)
      /\ c_disk' = IF Names!HasPicture(img) THEN Names!NextDisk ELSE c_disk
      /\ \A d \in Names!Disks : /\ disk'[d] = disk[d] \cup {f[1] : f \in entries(d)} \cup strips(d)
                                /\ column'[d] = column[d] \cup entries(d)
  BY DEF Names!imageDecomposer, Names!NameIn, Names!ExtIn
<1>2. NamesType
  BY DEF NamesInv
<1>3. ASSUME NEW d \in Names!Disks
      PROVE  /\ \A e \in entries(d) : e \in EntriesOf(img) /\ e[1] \in FilesOf(img)
             /\ \A f \in strips(d) : f \in FilesOf(img)
  BY <1>2, WrittenFacts DEF NamesType
<1>4. <<InfoOf(img), img[1], 0>> \in entries(1)
  <2>1. 1 \in Names!Disks /\ Names!Written(img, 1)
    BY DEF Names!Disks, Names!Written
  <2>2. QED
    BY <1>2, <2>1, WrittenFacts DEF NamesType
<1>5. ASSUME Names!HasPicture(img), NEW k \in 1..3
      PROVE  \E d \in Names!Disks : <<PartOf(img, k), img[1], k>> \in entries(d)
  <2> DEFINE d == IF k <= c_disk THEN k ELSE k + 1
  <2>1. d \in Names!Disks
    BY <1>2 DEF Names!Disks, NamesType
  <2>2. <<PartOf(img, k), img[1], k>> \in Names!Registered(img[1], d)
    BY <1>2, <2>1, WrittenFacts DEF NamesType
  <2>3. Names!Written(img, d)
    BY <1>5 DEF Names!Written
  <2>4. QED
    BY <2>1, <2>2, <2>3
<1> HIDE DEF entries, strips
<1>6. Names!Called' = Names!Called \cup {img}
  <2>1. /\ Len(calls) \in Nat /\ Len(calls') = Len(calls) + 1 /\ calls'[Len(calls) + 1] = img
        /\ \A k \in 1..Len(calls) : calls'[k] = calls[k]
    BY <1>1, <1>2, AppendProperties, LenProperties DEF NamesType
  <2>2. 1..Len(calls') = 1..Len(calls) \cup {Len(calls) + 1}
    BY <2>1
  <2>3. Names!Called' = {calls'[k] : k \in 1..Len(calls')}
    BY DEF Names!Called
  <2>4. QED
    BY <2>1, <2>2, <2>3 DEF Names!Called
<1>7. NamesType'
  BY <1>1, <1>2, AppendProperties DEF NamesType, Names!NextDisk
<1>8. FilesOfCalled'
  <2> SUFFICES ASSUME NEW d \in Names!Disks, NEW f \in disk'[d]
               PROVE  \E im \in Names!Called' : f \in FilesOf(im)
    BY DEF FilesOfCalled
  <2>1. f \in disk[d] \/ f \in FilesOf(img)
    BY <1>1, <1>3
  <2>2. QED
    BY <1>6, <2>1 DEF NamesInv, FilesOfCalled
<1>9. EntriesRight'
  <2> SUFFICES ASSUME NEW d \in Names!Disks, NEW e \in column'[d]
               PROVE  /\ e[1] \in disk'[d]
                      /\ (\E im \in Names!Called' : e \in EntriesOf(im)) \/ e \in Names!Fetched(e[1])
    BY DEF EntriesRight, EntryRight
  <2>1. e \in column[d] \/ e \in entries(d)
    BY <1>1
  <2>2. CASE e \in column[d]
    BY <1>1, <1>6, <2>2 DEF NamesInv, EntriesRight, EntryRight
  <2>3. CASE e \in entries(d)
    BY <1>1, <1>3, <1>6, <2>3
  <2>4. QED
    BY <2>1, <2>2, <2>3
<1>10. InfoThere'
  <2> SUFFICES ASSUME NEW im \in Names!Called' PROVE InfoOf(im) \in disk'[1]
    BY DEF InfoThere
  <2>1. 1 \in Names!Disks
    BY DEF Names!Disks
  <2>2. CASE im = img
    BY <1>1, <1>4, <2>1, <2>2
  <2>3. CASE im \in Names!Called
    BY <1>1, <2>1, <2>3 DEF NamesInv, InfoThere
  <2>4. QED
    BY <1>6, <2>2, <2>3
<1>11. PartsThere'
  <2> SUFFICES ASSUME NEW im \in Names!Called', Names!HasPicture(im), Names!Single(im), NEW k \in 1..3
               PROVE  \E d \in Names!Disks : /\ PartOf(im, k) \in disk'[d]
                                             /\ <<PartOf(im, k), im[1], k>> \in column'[d]
    BY DEF PartsThere, PartThere
  <2>1. CASE im = img
    <3>1. PICK d \in Names!Disks : <<PartOf(img, k), img[1], k>> \in entries(d)
      BY <1>5, <2>1
    <3>2. QED
      BY <1>1, <2>1, <3>1
  <2>2. CASE im \in Names!Called
    <3>1. PartThere(im, k)
      BY <2>2 DEF NamesInv, PartsThere
    <3>2. PICK d \in Names!Disks : /\ PartOf(im, k) \in disk[d]
                                   /\ <<PartOf(im, k), im[1], k>> \in column[d]
      BY <1>1, <3>1 DEF PartThere
    <3>3. QED
      BY <1>1, <3>2
  <2>3. QED
    BY <1>6, <2>1, <2>2
<1>12. ThrownRight'
  BY <1>1 DEF ThrownRight
<1>13. QED
  BY <1>7, <1>8, <1>9, <1>10, <1>11, <1>12 DEF NamesInv

LEMMA RestartStep ==
  ASSUME NamesInv, Names!Restart
  PROVE  NamesInv'
<1> DEFINE thrown == \E d \in Names!Disks : \E f \in disk[d] : Names!Throws(f)
<1>1. /\ c_disk' = 3 /\ disk' = disk /\ calls' = calls /\ Names!Called' = Names!Called
      /\ thrown => started' = "thrown" /\ \A d \in Names!Disks : column'[d] = {}
      /\ ~thrown => /\ started' = "up"
                    /\ \A d \in Names!Disks : column'[d] = UNION {Names!Fetched(f) : f \in disk[d]}
  BY DEF Names!Restart, Names!Called
<1>2. NamesType'
  BY <1>1 DEF NamesInv, NamesType
<1>3. Names!Called \subseteq Images
  BY CalledImages DEF NamesInv
<1>4. ThrownRight'
  <2> SUFFICES ASSUME started' = "thrown" PROVE \E img \in Names!Called : Len(img[1]) = 2
    BY <1>1 DEF ThrownRight
  <2>1. PICK d \in Names!Disks : \E f \in disk[d] : Names!Throws(f)
    BY <1>1
  <2>2. PICK f \in disk[d] : Names!Throws(f)
    BY <2>1
  <2>3. PICK img \in Names!Called : f \in FilesOf(img)
    BY DEF NamesInv, FilesOfCalled
  <2>4. QED
    BY <1>3, <2>2, <2>3, ThrowsOnlyThen
<1> HIDE DEF thrown
<1>5. FilesOfCalled' /\ InfoThere'
  BY <1>1 DEF NamesInv, FilesOfCalled, InfoThere
<1>6. EntriesRight'
  <2> SUFFICES ASSUME NEW d \in Names!Disks, NEW e \in column'[d]
               PROVE  e[1] \in disk[d] /\ e \in Names!Fetched(e[1])
    BY <1>1 DEF EntriesRight, EntryRight
  <2>1. PICK f \in disk[d] : e \in Names!Fetched(f)
    BY <1>1
  <2>2. e[1] = f
    BY <2>1 DEF Names!Fetched
  <2>3. QED
    BY <2>1, <2>2
<1>7. PartsThere'
  <2> SUFFICES ASSUME NEW img \in Names!Called, Names!HasPicture(img), Names!Single(img), NEW k \in 1..3
               PROVE  \E d \in Names!Disks :
                        /\ PartOf(img, k) \in disk[d]
                        /\ started' = "up" => <<PartOf(img, k), img[1], k>> \in column'[d]
    BY <1>1 DEF PartsThere, PartThere
  <2>1. PartThere(img, k)
    BY DEF NamesInv, PartsThere
  <2>2. PICK d \in Names!Disks : PartOf(img, k) \in disk[d]
    BY <2>1 DEF PartThere
  <2>3. Names!Fetched(PartOf(img, k)) = {<<PartOf(img, k), img[1], k>>}
    BY <1>3, FetchedSingle DEF Names!Single, Names!NameIn
  <2>4. QED
    BY <1>1, <2>2, <2>3
<1>8. QED
  BY <1>2, <1>4, <1>5, <1>6, <1>7 DEF NamesInv

LEMMA NamesInvNext == NamesInv /\ [Names!Next]_(Names!vars) => NamesInv'
<1> SUFFICES ASSUME NamesInv, [Names!Next]_(Names!vars) PROVE NamesInv'
  OBVIOUS
<1>1. CASE Names!Restart
  BY <1>1, RestartStep
<1>2. ASSUME NEW img \in Images, Names!imageDecomposer(img) PROVE NamesInv'
  BY <1>2, DecomposerStep
<1>3. CASE UNCHANGED Names!vars
  <2>1. /\ disk' = disk /\ column' = column /\ c_disk' = c_disk /\ started' = started
        /\ calls' = calls /\ Names!Called' = Names!Called
    BY <1>3 DEF Names!vars, Names!Called
  <2>2. QED
    BY <2>1 DEF NamesInv, NamesType, FilesOfCalled, EntriesRight, EntryRight, InfoThere,
                PartsThere, PartThere, ThrownRight
<1>4. QED
  BY <1>1, <1>2, <1>3 DEF Names!Next

\* Every step of the composition is one of the file names, or none to them.
LEMMA NamesInvariance == MCSpec => []NamesInv /\ [][Names!Next]_(Names!vars)
<1>1. MCInit => NamesInv
  BY NamesInvInit DEF MCInit
<1>2. [MCNext]_<<respect, vars, names>> => [Names!Next]_(Names!vars)
  BY DEF MCNext, names, Names!vars
<1>3. QED
  BY <1>1, <1>2, NamesInvNext, PTL DEF MCSpec

-----------------------------------------------------------------------------
(* What follows.                                                           *)

\* What is registered of an image with a single word, and of the others.
LEMMA EntryFacts ==
  ASSUME NamesInv, NEW d \in Names!Disks, NEW e \in column[d]
  PROVE  \E img \in Names!Called :
           /\ img \in Images /\ e[1] \in disk[d] /\ e[1] \in FilesOf(img)
           /\ e \in EntriesOf(img) \/ e \in Names!Fetched(e[1])
           /\ Len(img[1]) = 1 =>
                \/ e = <<InfoOf(img), img[1], 0>>
                \/ e = <<ParityOf(img), img[1], 4>>
                \/ \E k \in 1..3 : \/ e = <<PartOf(img, k), img[1], k>>
                                   \/ e = <<StripOf(img, k), img[1], 50 + k>>
<1>1. Names!Called \subseteq Images
  BY CalledImages DEF NamesInv
<1>2. e[1] \in disk[d] /\ EntryRight(e)
  BY DEF NamesInv, EntriesRight
<1>3. CASE \E img \in Names!Called : e \in EntriesOf(img)
  <2>1. PICK img \in Names!Called : e \in EntriesOf(img)
    BY <1>3
  <2>2. \/ e = <<InfoOf(img), img[1], 0>>
        \/ e = <<ParityOf(img), img[1], 4>>
        \/ \E k \in 1..3 : e = <<PartOf(img, k), img[1], k>>
    BY <2>1 DEF EntriesOf
  <2>3. e[1] \in FilesOf(img)
    BY <2>2 DEF FilesOf
  <2>4. QED
    BY <1>1, <1>2, <2>1, <2>2, <2>3
<1>4. CASE e \in Names!Fetched(e[1])
  <2>1. PICK img \in Names!Called : e[1] \in FilesOf(img)
    BY <1>2 DEF NamesInv, FilesOfCalled
  <2>2. ASSUME Len(img[1]) = 1
        PROVE  \/ e = <<InfoOf(img), img[1], 0>>
               \/ e = <<ParityOf(img), img[1], 4>>
               \/ \E k \in 1..3 : \/ e = <<PartOf(img, k), img[1], k>>
                                  \/ e = <<StripOf(img, k), img[1], 50 + k>>
    <3>1. img \in Images
      BY <1>1
    <3>2. ASSUME NEW k \in 1..3
          PROVE  /\ e[1] = InfoOf(img) => e = <<InfoOf(img), img[1], 0>>
                 /\ e[1] = ParityOf(img) => e = <<ParityOf(img), img[1], 4>>
                 /\ e[1] = PartOf(img, k) => e = <<PartOf(img, k), img[1], k>>
                 /\ e[1] = StripOf(img, k) => e = <<StripOf(img, k), img[1], 50 + k>>
      BY <1>4, <2>2, <3>1, FetchedSingle
    <3>3. 1 \in 1..3
      OBVIOUS
    <3>4. QED
      BY <2>1, <3>2, <3>3 DEF FilesOf
  <2>3. QED
    BY <1>1, <1>2, <1>4, <2>1, <2>2
<1>5. QED
  BY <1>2, <1>3, <1>4 DEF EntryRight

\* Of an image whose name has no underscore, whatever the words and the images,
\* a file name says the same at every restart as when it was written
\* (RAID_Controller.cpp:450-496 against 139-198).
THEOREM NamesReadAsWritten == MCSpec => []ReadAsWritten
<1>1. ASSUME NamesInv PROVE Names!ReadAsWritten
  <2> SUFFICES
        ASSUME NEW d \in Names!Disks, NEW e \in column[d],
               \A img \in Names!Called : img[1][1] = e[1].words[1] => Len(img[1]) = 1
        PROVE  /\ e[2] = <<e[1].words[1]>>
               /\ e[3] = CASE e[1].words[2] = "Info" -> 0
                           [] e[1].words[2] = "Parity" -> 4
                           [] e[1].words[2] = "Part" -> Names!NumberOf(e[1].words[3])
                           [] e[1].words[2] = "ImgPt" -> 50 + Names!NumberOf(e[1].words[3])
    BY DEF Names!ReadAsWritten, Names!Single, Names!NameIn
  <2>1. PICK img \in Names!Called :
           /\ img \in Images /\ e[1] \in FilesOf(img)
           /\ Len(img[1]) = 1 =>
                \/ e = <<InfoOf(img), img[1], 0>>
                \/ e = <<ParityOf(img), img[1], 4>>
                \/ \E k \in 1..3 : \/ e = <<PartOf(img, k), img[1], k>>
                                   \/ e = <<StripOf(img, k), img[1], 50 + k>>
    BY <1>1, EntryFacts
  <2>2. e[1].words[1] = img[1][1]
    <3>1. Len(img[1]) \in Nat \ {0} /\ 1 \in 1..Len(img[1])
      BY <2>1, NameFacts
    <3>2. \A k \in 1..3 :
             /\ InfoOf(img).words[1] = img[1][1] /\ ParityOf(img).words[1] = img[1][1]
             /\ PartOf(img, k).words[1] = img[1][1] /\ StripOf(img, k).words[1] = img[1][1]
      BY <2>1, <3>1, FileFacts
    <3>3. 1 \in 1..3
      OBVIOUS
    <3>4. QED
      BY <2>1, <3>2, <3>3 DEF FilesOf
  <2>3. Len(img[1]) = 1 /\ img[1] = <<img[1][1]>>
    BY <2>1, <2>2, NameFacts
  <2>4. ASSUME NEW k \in 1..3
        PROVE  /\ InfoOf(img).words[2] = "Info" /\ ParityOf(img).words[2] = "Parity"
               /\ PartOf(img, k).words[2] = "Part" /\ StripOf(img, k).words[2] = "ImgPt"
               /\ Names!NumberOf(PartOf(img, k).words[3]) = k
               /\ Names!NumberOf(StripOf(img, k).words[3]) = k
    BY <2>1, <2>3, SingleWords, Numerals
  <2>5. CASE e = <<InfoOf(img), img[1], 0>>
    <3>1. 1 \in 1..3
      OBVIOUS
    <3>2. e[1].words[2] = "Info" /\ e[2] = img[1] /\ e[3] = 0
      BY <2>4, <2>5, <3>1
    <3>3. QED
      BY <2>2, <2>3, <3>2
  <2>6. CASE e = <<ParityOf(img), img[1], 4>>
    <3>1. 1 \in 1..3
      OBVIOUS
    <3>2. e[1].words[2] = "Parity" /\ e[2] = img[1] /\ e[3] = 4
      BY <2>4, <2>6, <3>1
    <3>3. QED
      BY <2>2, <2>3, <3>2
  <2>7. ASSUME NEW k \in 1..3, e = <<PartOf(img, k), img[1], k>>
        PROVE  /\ e[1].words[2] = "Part" /\ e[2] = img[1] /\ e[3] = Names!NumberOf(e[1].words[3])
    BY <2>4, <2>7
  <2>8. ASSUME NEW k \in 1..3, e = <<StripOf(img, k), img[1], 50 + k>>
        PROVE  /\ e[1].words[2] = "ImgPt" /\ e[2] = img[1]
               /\ e[3] = 50 + Names!NumberOf(e[1].words[3])
    BY <2>4, <2>8
  <2>9. CASE \E k \in 1..3 : e = <<PartOf(img, k), img[1], k>>
    BY <2>2, <2>3, <2>7, <2>9
  <2>10. CASE \E k \in 1..3 : e = <<StripOf(img, k), img[1], 50 + k>>
    BY <2>2, <2>3, <2>8, <2>10
  <2>11. QED
    BY <2>1, <2>3, <2>5, <2>6, <2>9, <2>10
<1>2. QED
  BY <1>1, NamesInvariance, PTL DEF ReadAsWritten

\* The constructor throws only when some image has a name with one underscore,
\* whatever the words and the images (RAID_Controller.cpp:474).
THEOREM NamesThrows == MCSpec => []ThrowsForUnderscore
<1>1. NamesInv => Names!ThrowsForUnderscore
  BY DEF NamesInv, ThrownRight, Names!ThrowsForUnderscore, Names!NameIn
<1>2. QED
  BY <1>1, NamesInvariance, PTL DEF ThrowsForUnderscore

\* Cardinality is a definition of FiniteSets wherever that is instantiated.
LEMMA SameCardinality == \A S : Names!Cardinality(S) = Cardinality(S)
BY DEF Names!Cardinality, Cardinality, Names!IsFiniteSet, IsFiniteSet

LEMMA CardinalityOfThree ==
  ASSUME NEW a, NEW b, NEW c, a # b, a # c, b # c
  PROVE  Names!Cardinality({a, b, c}) = 3
<1>1. IsFiniteSet({a}) /\ Cardinality({a}) = 1
  BY FS_Singleton
<1>2. {a, b} = {a} \cup {b} /\ {a, b, c} = {a, b} \cup {c}
  OBVIOUS
<1>3. IsFiniteSet({a, b}) /\ Cardinality({a, b}) = 2
  BY <1>1, <1>2, FS_AddElement
<1>4. Cardinality({a, b, c}) = 3
  BY <1>2, <1>3, FS_AddElement
<1>5. QED
  BY <1>4, SameCardinality

\* A set of calls of cardinality one has one member.
LEMMA OnlyOne ==
  ASSUME NEW n \in Nat, NEW S \in SUBSET (1..n), Names!Cardinality(S) = 1, NEW k \in S, NEW j \in S
  PROVE  k = j
<1>1. IsFiniteSet(S)
  <2>1. IsFiniteSet(1..n)
    BY FS_Interval
  <2>2. QED
    BY <2>1, FS_Subset
<1>2. Cardinality(S) = 1
  BY SameCardinality
<1>3. PICK x : S = {x}
  BY <1>1, <1>2, FS_Singleton
<1>4. QED
  BY <1>3

\* A single word is looked for among the words before the last.
LEMMA HoldsOne ==
  ASSUME NEW f, NEW v, Names!Holds(f, <<v>>)
  PROVE  \E i \in 1..(Len(f.words) - 1) : <<v, f.words[i]>> \in Endings
<1>1. Len(<<v>>) = 1 /\ <<v>>[1] = v
  OBVIOUS
<1>2. QED
  BY <1>1 DEF Names!Holds

\* These are the words of the name, and what a fragment or a strip is called.
LEMMA InnerWords ==
  ASSUME NEW img \in Images, NEW f \in FilesOf(img), NEW i \in 1..(Len(f.words) - 1)
  PROVE  (i \in 1..Len(img[1]) /\ f.words[i] = img[1][i]) \/ f.words[i] \in {"Part", "ImgPt"}
<1> DEFINE n == Len(img[1])
<1>1. n \in Nat
  BY NameFacts
<1>2. CASE f \in {InfoOf(img), ParityOf(img)}
  <2>1. 1 \in 1..3
    OBVIOUS
  <2>2. Len(f.words) = n + 1 /\ \A j \in 1..n : f.words[j] = img[1][j]
    BY <1>2, <2>1, FileFacts
  <2> HIDE DEF n
  <2>3. i \in 1..n
    BY <1>1, <2>2
  <2>4. QED
    BY <2>2, <2>3 DEF n
<1>3. ASSUME NEW k \in 1..3, f \in {PartOf(img, k), StripOf(img, k)}
      PROVE  (i \in 1..n /\ f.words[i] = img[1][i]) \/ f.words[i] \in {"Part", "ImgPt"}
  <2>1. /\ Len(f.words) = n + 2 /\ f.words[n + 1] \in {"Part", "ImgPt"}
        /\ \A j \in 1..n : f.words[j] = img[1][j]
    <3>1. Len(f.words) = n + 2 /\ \A j \in 1..n : f.words[j] = img[1][j]
      BY <1>3, FileFacts
    <3>2. PartOf(img, k).words[n + 1] = "Part" /\ StripOf(img, k).words[n + 1] = "ImgPt"
      BY <1>3, FileFacts
    <3>3. f.words[n + 1] \in {"Part", "ImgPt"}
      BY <1>3, <3>2
    <3>4. QED
      BY <3>1, <3>3
  <2> HIDE DEF n
  <2>2. i \in 1..n \/ i = n + 1
    BY <1>1, <2>1
  <2>3. QED
    BY <2>1, <2>2
<1>4. QED
  BY <1>2, <1>3 DEF FilesOf

\* A restart forgets only files of names with two underscores or more,
\* whatever the words and the images (RAID_Controller.cpp:465-490).
THEOREM NamesKept == MCSpec => RestartKeeps
<1> DEFINE Stands == started' = "up" =>
                     \A d \in Names!Disks : \A f \in column[d] : f \in column'[d] \/ Len(f[2]) > 2
<1>1. ASSUME NamesInv, Names!Restart PROVE Stands
  <2> SUFFICES ASSUME started' = "up", NEW d \in Names!Disks, NEW e \in column[d]
               PROVE  e \in column'[d] \/ Len(e[2]) > 2
    OBVIOUS
  <2>1. /\ \A x \in Names!Disks : \A f \in disk[x] : ~Names!Throws(f)
        /\ column'[d] = UNION {Names!Fetched(f) : f \in disk[d]}
    BY <1>1 DEF Names!Restart
  <2>2. PICK img \in Names!Called :
           /\ img \in Images /\ e[1] \in disk[d]
           /\ e \in EntriesOf(img) \/ e \in Names!Fetched(e[1])
    BY <1>1, EntryFacts
  <2>3. CASE e \in Names!Fetched(e[1])
    BY <2>1, <2>2, <2>3
  <2>4. CASE e \in EntriesOf(img)
    <3>1. Len(img[1]) \in Nat \ {0}
      BY <2>2, NameFacts
    <3>2. e[2] = img[1]
      BY <2>4 DEF EntriesOf
    <3>3. Len(img[1]) # 2
      <4>1. InfoOf(img) \in disk[1] /\ 1 \in Names!Disks
        BY <1>1 DEF NamesInv, InfoThere, Names!Disks
      <4>2. QED
        BY <2>1, <2>2, <4>1, ThrowsOnlyThen
    <3>4. ASSUME Len(img[1]) = 1 PROVE e \in column'[d]
      <4>1. ASSUME NEW k \in 1..3
            PROVE  /\ Names!Fetched(InfoOf(img)) = {<<InfoOf(img), img[1], 0>>}
                   /\ Names!Fetched(ParityOf(img)) = {<<ParityOf(img), img[1], 4>>}
                   /\ Names!Fetched(PartOf(img, k)) = {<<PartOf(img, k), img[1], k>>}
        BY <2>2, <3>4, FetchedSingle
      <4>2. 1 \in 1..3
        OBVIOUS
      <4>3. e \in Names!Fetched(e[1])
        BY <2>4, <4>1, <4>2 DEF EntriesOf
      <4>4. QED
        BY <2>1, <2>2, <4>3
    <3>5. Len(img[1]) > 2 \/ e \in column'[d]
      <4> DEFINE n == Len(img[1])
      <4>1. n \in Nat \ {0} /\ n # 2
        BY <3>1, <3>3
      <4> HIDE DEF n
      <4>2. n > 2 \/ n = 1
        BY <4>1
      <4>3. QED
        BY <3>4, <4>2 DEF n
    <3>6. QED
      BY <3>2, <3>5
  <2>5. QED
    BY <2>2, <2>3, <2>4
<1>2. ASSUME NEW img \in Images, Names!imageDecomposer(img) PROVE Stands
  BY <1>2 DEF Names!imageDecomposer
<1>3. NamesInv /\ [Names!Next]_(Names!vars) => [Stands]_(Names!vars)
  <2>1. Names!Next => Names!Restart \/ \E img \in Images : Names!imageDecomposer(img)
    BY DEF Names!Next
  <2> HIDE DEF Stands
  <2>2. QED
    BY <1>1, <1>2, <2>1
<1>4. QED
  BY <1>3, NamesInvariance, PTL DEF RestartKeeps, Names!RestartKeeps

\* merge finds of a harmless name exactly its three data fragments, whatever
\* the words and the images (RAID_Controller.cpp:662-693).
THEOREM NamesReadParts == MCSpec => []ReadsItsParts
<1>1. ASSUME NamesInv, started = "up", NEW img \in Names!Called, Names!Harmless(img)
      PROVE  LET read == Names!ReadFor(img[1]) IN
               {f[3] : f \in read} = 1..3 /\ Names!Cardinality(read) = 3
  <2> DEFINE w == img[1][1]
             part(k) == <<PartOf(img, k), img[1], k>>
  <2>1. /\ Names!Called \subseteq Images /\ img \in Images
        /\ Names!HasPicture(img) /\ Names!Single(img)
        /\ Len(img[1]) = 1 /\ img[1] = <<w>> /\ w \in Words
    BY <1>1, CalledImages, NameFacts DEF NamesInv, Names!Harmless, Names!Single, Names!NameIn
  <2>2. \A v \in Names!OwnWords : <<v, w>> \notin Endings /\ <<w, v>> \notin Endings
    BY <1>1 DEF Names!Harmless, Names!NameIn
  <2>3. <<w, w>> \in Endings /\ <<"Part", "Part">> \in Endings /\ <<"Part", "ImgPt">> \notin Endings
    BY <2>1, EndingsAssumption DEF Names!AllWords, Names!OwnWords
  <2>4. ASSUME NEW im \in Names!Called, NEW j \in 1..Len(im[1]), <<w, im[1][j]>> \in Endings
        PROVE  im = img
    <3> DEFINE S == {k \in 1..Len(calls) :
                       \E l \in 1..Len(calls[k][1]) : <<w, calls[k][1][l]>> \in Endings}
    <3>1. Names!Cardinality(S) = 1
      BY <1>1 DEF Names!Harmless, Names!NameIn
    <3>2. PICK k \in 1..Len(calls) : calls[k] = img
      BY DEF Names!Called
    <3>3. PICK m \in 1..Len(calls) : calls[m] = im
      BY DEF Names!Called
    <3>4. k \in S /\ m \in S
      <4>1. 1 \in 1..Len(img[1])
        BY <2>1
      <4>2. QED
        BY <2>3, <2>4, <3>2, <3>3, <4>1
    <3>5. Len(calls) \in Nat /\ S \in SUBSET (1..Len(calls))
      BY <1>1, LenProperties DEF NamesInv, NamesType
    <3> HIDE DEF S
    <3>6. k = m
      BY <3>1, <3>4, <3>5, OnlyOne
    <3>7. QED
      BY <3>2, <3>3, <3>6
  <2>5. ASSUME NEW k \in 1..3 PROVE part(k) \in Names!ReadFor(img[1])
    <3>1. part(k) \in Names!Files
      BY <1>1, <2>1 DEF NamesInv, PartsThere, PartThere, Names!Files
    <3>2. /\ Len(PartOf(img, k).words) = 3 /\ PartOf(img, k).words[1] = w
          /\ PartOf(img, k).words[2] = "Part"
      BY <2>1, SingleWords
    <3>3. Names!Holds(PartOf(img, k), <<w>>)
      BY <2>3, <3>2 DEF Names!Holds
    <3>4. Names!Holds(PartOf(img, k), <<"Part">>)
      BY <2>3, <3>2 DEF Names!Holds
    <3>5. QED
      BY <2>1, <3>1, <3>3, <3>4 DEF Names!ReadFor
  <2>6. ASSUME NEW e \in Names!ReadFor(img[1]) PROVE \E k \in 1..3 : e = part(k)
    <3>1. /\ e \in Names!Files /\ Names!Holds(e[1], <<w>>) /\ Names!Holds(e[1], <<"Part">>)
      BY <2>1 DEF Names!ReadFor
    <3>2. PICK d \in Names!Disks : e \in column[d]
      BY <3>1 DEF Names!Files
    <3>3. PICK im \in Names!Called :
             /\ im \in Images /\ e[1] \in FilesOf(im)
             /\ Len(im[1]) = 1 =>
                  \/ e = <<InfoOf(im), im[1], 0>>
                  \/ e = <<ParityOf(im), im[1], 4>>
                  \/ \E k \in 1..3 : \/ e = <<PartOf(im, k), im[1], k>>
                                     \/ e = <<StripOf(im, k), im[1], 50 + k>>
      BY <1>1, <3>2, EntryFacts
    <3>4. PICK i \in 1..(Len(e[1].words) - 1) : <<w, e[1].words[i]>> \in Endings
      BY <3>1, HoldsOne
    <3>5. i \in 1..Len(im[1]) /\ e[1].words[i] = im[1][i]
      <4>1. (i \in 1..Len(im[1]) /\ e[1].words[i] = im[1][i]) \/ e[1].words[i] \in {"Part", "ImgPt"}
        BY <3>3, InnerWords
      <4>2. "Part" \in Names!OwnWords /\ "ImgPt" \in Names!OwnWords
        BY DEF Names!OwnWords
      <4>3. QED
        BY <2>2, <3>4, <4>1, <4>2
    <3>6. im = img
      BY <2>4, <3>4, <3>5
    <3>7. PICK j \in 1..(Len(e[1].words) - 1) : <<"Part", e[1].words[j]>> \in Endings
      BY <3>1, HoldsOne
    <3>8. ASSUME NEW k \in 1..3
          PROVE  /\ e[1] # InfoOf(img) /\ e[1] # ParityOf(img) /\ e[1] # StripOf(img, k)
      <4>1. /\ Len(InfoOf(img).words) = 2 /\ InfoOf(img).words[1] = w
            /\ Len(ParityOf(img).words) = 2 /\ ParityOf(img).words[1] = w
            /\ Len(StripOf(img, k).words) = 3 /\ StripOf(img, k).words[1] = w
            /\ StripOf(img, k).words[2] = "ImgPt"
        BY <2>1, SingleWords
      <4>2. <<"Part", w>> \notin Endings
        BY <2>2 DEF Names!OwnWords
      <4>3. ASSUME Len(e[1].words) = 2, e[1].words[1] = w PROVE FALSE
        <5>1. j = 1
          BY <4>3
        <5>2. QED
          BY <3>7, <4>2, <4>3, <5>1
      <4>4. ASSUME Len(e[1].words) = 3, e[1].words[1] = w, e[1].words[2] = "ImgPt" PROVE FALSE
        <5>1. j = 1 \/ j = 2
          BY <4>4
        <5>2. QED
          BY <2>3, <3>7, <4>2, <4>4, <5>1
      <4>5. QED
        BY <4>1, <4>3, <4>4
    <3>9. 1 \in 1..3
      OBVIOUS
    <3>10. QED
      BY <2>1, <3>3, <3>6, <3>8, <3>9
  <2>7. Names!ReadFor(img[1]) = {part(1), part(2), part(3)}
    <3>1. 1 \in 1..3 /\ 2 \in 1..3 /\ 3 \in 1..3 /\ \A k \in 1..3 : k = 1 \/ k = 2 \/ k = 3
      OBVIOUS
    <3> HIDE DEF part
    <3>2. QED
      BY <2>5, <2>6, <3>1
  <2>8. part(1)[3] = 1 /\ part(2)[3] = 2 /\ part(3)[3] = 3
    OBVIOUS
  <2> HIDE DEF part
  <2>9. {f[3] : f \in {part(1), part(2), part(3)}} = 1..3
    BY <2>8
  <2>10. Names!Cardinality({part(1), part(2), part(3)}) = 3
    <3>1. part(1) # part(2) /\ part(1) # part(3) /\ part(2) # part(3)
      BY <2>8
    <3>2. QED
      BY <3>1, CardinalityOfThree
  <2>11. QED
    BY <2>7, <2>9, <2>10
<1>2. NamesInv => Names!ReadsItsParts
  BY <1>1 DEF Names!ReadsItsParts, Names!NameIn
<1>3. QED
  BY <1>2, NamesInvariance, PTL DEF ReadsItsParts

-----------------------------------------------------------------------------
(* The lexer, whoever asks it for tokens: a call of scan begins where the  *)
(* last one returned.  The steps of the parser that take a token only read *)
(* it, so every behaviour of JsonParser is one of LexerSpec in the         *)
(* variables of the lexer.                                                 *)

Byte == 0..255

LexerInit == \E t \in Seq(Byte) : Start(t)
LexerNext == ScanStep \/ (label = "idle" /\ Scan)
LexerSpec == LexerInit /\ [][LexerNext]_lexer

-----------------------------------------------------------------------------
(* Where the lexer stands in the text, and what it keeps of it.            *)

\* The labels between the taking of a byte and its being put back, or kept.
Returns == {"bomless", "done", "dispatch"}

\* Of what is read a step takes a byte, puts one back, leaves all as it is,
\* or begins the token with the current byte (lexer.hpp:1240-1301).
GetStep == Get
UngetStep == label \in {"bomless", "done"} /\ Unget /\ label' \notin Returns
StillStep == UNCHANGED <<reading, text, token_string>> /\ label' \notin Returns
ResetStep ==
  /\ label = "dispatch" /\ current # EOF
  /\ UNCHANGED <<reading, text>> /\ token_string' = <<current>> /\ label' \notin Returns

LEMMA FourSteps ==
  ASSUME LexerNext
  PROVE  GetStep \/ UngetStep \/ StillStep \/ ResetStep
<1>1. CASE SkipBom \/ SkipBomRest \/ SkipSpace \/ ScanLiteral
  BY <1>1 DEF SkipBom, SkipBomRest, SkipSpace, ScanLiteral, GetStep
<1>2. CASE SkipBomUnget \/ ScanNumberDone
  BY <1>2 DEF SkipBomUnget, ScanNumberDone, UngetStep, Goto, Return, Returns
<1>3. CASE Dispatch
  <2>1. label = "dispatch" /\ UNCHANGED <<reading, text>>
    BY <1>3 DEF Dispatch
  <2>2. label' \notin Returns
    <3>1. Goto("string") \/ label' = "literal" \/ (\E t : Return(t)) \/ \E m : Fail(m)
      BY <1>3, Zenon DEF Dispatch
    <3>2. QED
      BY <3>1 DEF Goto, Return, Fail, Returns
  <2>3. \/ UNCHANGED token_string
        \/ current = Quote /\ token_string' = <<current>>
    BY <1>3, Zenon DEF Dispatch, Reset
  <2>4. QED
    BY <2>1, <2>2, <2>3 DEF StillStep, ResetStep, EOF, Quote
<1>4. CASE ScanNumber
  <2>1. current # EOF
    BY <1>4, SMT DEF ScanNumber, Digit, EOF
  <2>2. label' \notin Returns
    BY <1>4, SMT DEF ScanNumber, Goto, Returns
  <2>3. QED
    BY <1>4, <2>1, <2>2, SMT DEF ScanNumber, ResetStep
<1>5. CASE \/ ScanNumberMinus \/ ScanNumberZero \/ ScanNumberAny1
           \/ ScanNumberDecimal1 \/ ScanNumberDecimal2 \/ ScanNumberExponent
           \/ ScanNumberSign \/ ScanNumberAny2
  BY <1>5 DEF ScanNumberMinus, ScanNumberZero, ScanNumberAny1, ScanNumberDecimal1, ScanNumberDecimal2,
     ScanNumberExponent, ScanNumberSign, ScanNumberAny2, InNumber, GetStep
<1>6. CASE ScanString \/ NextByteInRange \/ ScanEscape \/ GetCodepoint \/ ScanSurrogate
  <2>1. ScanString => InString("string")
    BY Zenon DEF ScanString
  <2>2. NextByteInRange \/ ScanEscape \/ GetCodepoint => \E l : InString(l)
    BY Zenon DEF NextByteInRange, ScanEscape, GetCodepoint
  <2>3. ScanSurrogate => Get
    BY Zenon DEF ScanSurrogate
  <2>4. \A l : InString(l) => Get
    BY Zenon DEF InString
  <2>5. QED
    BY <1>6, <2>1, <2>2, <2>3, <2>4 DEF GetStep
<1>7. CASE CodepointRead
  <2>1. UNCHANGED <<reading, text, token_string>>
    BY <1>7, Zenon DEF CodepointRead
  <2>2. label' \notin Returns
    <3>1. Goto("surrogate") \/ Goto("string") \/ \E m : Fail(m)
      BY <1>7, Zenon DEF CodepointRead
    <3>2. QED
      BY <3>1 DEF Goto, Fail, Return, Returns
  <2>3. QED
    BY <2>1, <2>2 DEF StillStep
<1>8. CASE label = "idle" /\ Scan
  BY <1>8 DEF Scan, StillStep, input, reading, Returns
<1>9. QED
  BY <1>1, <1>2, <1>3, <1>4, <1>5, <1>6, <1>7, <1>8 DEF LexerNext, ScanStep

\* The end of a sequence.
LEMMA Suffix ==
  ASSUME NEW S, NEW s \in Seq(S), NEW t \in Seq(S), NEW n \in Nat, n <= Len(s), Len(t) <= n,
         \A k \in 1..Len(t) : t[k] = s[n - Len(t) + k]
  PROVE  t = SubSeq(s, n - Len(t) + 1, n)
<1> DEFINE m == n - Len(t) + 1
           u == SubSeq(s, m, n)
<1>1. m \in Int /\ m >= 1 /\ n - m + 1 = Len(t) /\ Len(t) \in Nat
  OBVIOUS
<1>2. \A i \in m..n : s[i] \in S
  BY <1>1
<1>3. /\ u \in Seq(S) /\ Len(u) = Len(t)
      /\ \A k \in 1..Len(t) : u[k] = s[m + k - 1]
  <2> HIDE DEF m
  <2>1. /\ u \in Seq(S) /\ Len(u) = IF m <= n THEN n - m + 1 ELSE 0
        /\ \A k \in 1..(n - m + 1) : u[k] = s[m + k - 1]
    BY <1>1, <1>2, SubSeqProperties
  <2>2. QED
    BY <1>1, <2>1
<1>4. \A k \in 1..Len(t) : u[k] = t[k]
  <2> SUFFICES ASSUME NEW k \in 1..Len(t) PROVE u[k] = t[k]
    OBVIOUS
  <2>1. m + k - 1 = n - Len(t) + k
    OBVIOUS
  <2>2. QED
    BY <1>3, <2>1
<1>5. QED
  <2> HIDE DEF u, m
  <2>1. u = t
    BY <1>3, <1>4, SeqEqual
  <2>2. QED
    BY <2>1 DEF u, m

LEMMA FrontOf ==
  ASSUME NEW S, NEW s \in Seq(S), s # <<>>
  PROVE  LET t == SubSeq(s, 1, Len(s) - 1)
         IN /\ t \in Seq(S) /\ Len(t) = Len(s) - 1 /\ Len(s) >= 1
            /\ \A k \in 1..Len(t) : t[k] = s[k]
<1> DEFINE n == Len(s) - 1
<1>1. n \in Nat /\ Len(s) = n + 1
  BY EmptySeq
<1>2. \A i \in 1..n : s[i] \in S
  BY <1>1
<1> HIDE DEF n
<1>3. /\ SubSeq(s, 1, n) \in Seq(S) /\ Len(SubSeq(s, 1, n)) = IF 1 <= n THEN n - 1 + 1 ELSE 0
      /\ \A i \in 1..(n - 1 + 1) : SubSeq(s, 1, n)[i] = s[1 + i - 1]
  BY <1>1, <1>2, SubSeqProperties
<1>4. /\ Len(SubSeq(s, 1, n)) = n
      /\ \A i \in 1..n : SubSeq(s, 1, n)[i] = s[i]
  BY <1>1, <1>3
<1>5. QED
  BY <1>1, <1>3, <1>4 DEF n

-----------------------------------------------------------------------------
(* The inductive invariant, in parts.                                      *)

\* The newlines among the first n bytes, and where the last line begins.
NewlinesTo(s, n) == {k \in 1..n : s[k] = Newline}
LineStart(s, n) == IF NewlinesTo(s, n) = {} THEN 0 ELSE Max(NewlinesTo(s, n))

\* What the variables hold.
ReadTypes ==
  /\ text \in Seq(Byte) /\ at \in Nat /\ at <= Len(text)
  /\ next_unget \in BOOLEAN /\ token_string \in Seq(Byte)
  /\ position \in [total : Nat, column : Nat, lines : Nat]

\* There is no current byte at the end of the text, and before the first get.
EofInv ==
  current = EOF =>
    \/ at = Len(text)
    \/ /\ at = 0 /\ ~next_unget /\ token_string = <<>>
       /\ position.total = 0 /\ position.column = 0 /\ position.lines = 0

\* Of the bytes taken the last is the current one; the position counts those
\* that were not put back.  A newline is after the newlines before it, so the
\* line of any other byte begins earlier.
ByteInv ==
  current # EOF =>
    /\ at >= 1 /\ current = text[at]
    /\ position.total = Consumed
    /\ position.lines = Cardinality(NewlinesTo(text, Consumed))
    /\ LineStart(text, at) \in Nat /\ LineStart(text, at) <= at
    /\ current # Newline => LineStart(text, at) < at
    /\ position.column = IF next_unget /\ current = Newline THEN 0
                         ELSE Consumed - LineStart(text, Consumed)

\* The quoted token is the end of what was consumed.
TokenInv ==
  /\ Len(token_string) <= Consumed
  /\ \A k \in 1..Len(token_string) : token_string[k] = text[Consumed - Len(token_string) + k]

\* Where a byte may be put back none is, and the byte is in the token: so unget
\* finds what get has added (lexer.hpp:1285-1300).
PutBackInv ==
  label \in Returns =>
    /\ ~next_unget /\ position.total >= 1
    /\ current # EOF => token_string # <<>>

ReadInv == ReadTypes /\ EofInv /\ ByteInv /\ TokenInv /\ PutBackInv

\* One more byte: a newline more, or not.
LEMMA Newlines ==
  ASSUME NEW s \in Seq(Byte), NEW n \in Nat, n < Len(s)
  PROVE  /\ IsFiniteSet(NewlinesTo(s, n)) /\ Cardinality(NewlinesTo(s, n)) \in Nat
         /\ s[n + 1] = Newline =>
              /\ Cardinality(NewlinesTo(s, n + 1)) = Cardinality(NewlinesTo(s, n)) + 1
              /\ LineStart(s, n + 1) = n + 1
         /\ s[n + 1] # Newline =>
              /\ NewlinesTo(s, n + 1) = NewlinesTo(s, n)
              /\ LineStart(s, n + 1) = LineStart(s, n)
<1>1. IsFiniteSet(NewlinesTo(s, n))
  <2>1. IsFiniteSet(1..n) /\ NewlinesTo(s, n) \in SUBSET (1..n)
    BY FS_Interval DEF NewlinesTo
  <2>2. QED
    BY <2>1, FS_Subset
<1>2. Cardinality(NewlinesTo(s, n)) \in Nat
  BY <1>1, FS_CardinalityType
<1>3. ASSUME s[n + 1] = Newline
      PROVE  Cardinality(NewlinesTo(s, n + 1)) = Cardinality(NewlinesTo(s, n)) + 1 /\ LineStart(s, n + 1) = n + 1
  <2>1. NewlinesTo(s, n + 1) = NewlinesTo(s, n) \cup {n + 1} /\ n + 1 \notin NewlinesTo(s, n)
    BY <1>3 DEF NewlinesTo
  <2>2. \A x \in NewlinesTo(s, n + 1) : (\A y \in NewlinesTo(s, n + 1) : x >= y) <=> x = n + 1
    BY <2>1 DEF NewlinesTo
  <2>3. Max(NewlinesTo(s, n + 1)) = n + 1
    BY <2>1, <2>2 DEF Max
  <2>4. QED
    BY <1>1, <2>1, <2>3, FS_AddElement DEF LineStart
<1>4. s[n + 1] # Newline => NewlinesTo(s, n + 1) = NewlinesTo(s, n) /\ LineStart(s, n + 1) = LineStart(s, n)
  <2>1. s[n + 1] # Newline => NewlinesTo(s, n + 1) = NewlinesTo(s, n)
    BY DEF NewlinesTo
  <2>2. QED
    BY <2>1 DEF LineStart
<1>5. QED
  BY <1>1, <1>2, <1>3, <1>4

LEMMA NoNewlines ==
  ASSUME NEW s
  PROVE  NewlinesTo(s, 0) = {} /\ Cardinality(NewlinesTo(s, 0)) = 0 /\ LineStart(s, 0) = 0
<1>1. NewlinesTo(s, 0) = {}
  BY DEF NewlinesTo
<1>2. QED
  BY <1>1, FS_EmptySet DEF LineStart

-----------------------------------------------------------------------------
(* It holds.                                                               *)

LEMMA InitRead == LexerInit => ReadInv
<1> SUFFICES ASSUME NEW t \in Seq(Byte), Start(t) PROVE ReadInv
  BY DEF LexerInit
<1>1. text = t /\ at = 0 /\ current = EOF /\ next_unget = FALSE /\ token_string = <<>> /\ label = "bom"
      /\ position = [total |-> 0, column |-> 0, lines |-> 0]
  BY DEF Start
<1>2. ReadTypes
  <2>1. <<>> \in Seq(Byte) /\ position \in [total : Nat, column : Nat, lines : Nat]
    BY <1>1
  <2>2. next_unget \in BOOLEAN
    BY <1>1, Zenon
  <2>3. Len(t) \in Nat
    OBVIOUS
  <2>4. QED
    BY <1>1, <2>1, <2>2, <2>3 DEF ReadTypes
<1>3. EofInv /\ ByteInv /\ TokenInv /\ PutBackInv
  BY <1>1 DEF EofInv, ByteInv, TokenInv, PutBackInv, Returns, Consumed
<1>4. QED
  BY <1>2, <1>3 DEF ReadInv

\* A byte is taken, for the first time or again.
LEMMA GetRead ==
  ASSUME ReadInv, GetStep
  PROVE  ReadInv'
<1> USE DEF GetStep
<1>1. ReadTypes /\ EofInv /\ ByteInv /\ TokenInv
  BY DEF ReadInv
<1>2. /\ text' = text /\ next_unget' = FALSE
      /\ position' = Advanced(current')
      /\ token_string' = IF current' = EOF THEN token_string ELSE Append(token_string, current')
  BY DEF Get
<1>3. CASE current' = EOF
  <2>1. at' = Len(text) /\ token_string' = token_string /\ Consumed' = Consumed
    <3>1. CASE next_unget
      BY <1>1, <1>2, <1>3, <3>1 DEF Get, EofInv, Consumed
    <3>2. CASE ~next_unget
      <4>1. at = Len(text)
        <5>1. at # Len(text) => current' = text[at + 1] /\ at + 1 \in 1..Len(text)
          BY <1>1, <3>2 DEF Get, ReadTypes
        <5>2. at # Len(text) => text[at + 1] \in Byte
          BY <1>1, <5>1 DEF ReadTypes
        <5>3. EOF \notin Byte
          BY SMT DEF Byte, EOF
        <5>4. QED
          BY <1>3, <5>1, <5>2, <5>3
      <4>2. QED
        BY <1>1, <1>2, <1>3, <3>2, <4>1 DEF Get, Consumed
    <3>3. QED
      BY <3>1, <3>2
  <2>2. position' \in [total : Nat, column : Nat, lines : Nat]
    BY <1>1, <1>2 DEF ReadTypes, Advanced
  <2>3. ReadTypes'
    <3>1. at' \in Nat /\ at' <= Len(text)
      BY <1>1, <2>1 DEF ReadTypes
    <3>2. QED
      BY <1>1, <1>2, <2>1, <2>2, <3>1 DEF ReadTypes
  <2>4. EofInv' /\ ByteInv'
    BY <1>2, <1>3, <2>1 DEF EofInv, ByteInv
  <2>5. TokenInv'
    BY <1>1, <1>2, <2>1 DEF TokenInv
  <2>6. PutBackInv'
    <3>1. position'.total >= 1
      BY <1>1, <1>2 DEF ReadTypes, Advanced
    <3>2. QED
      BY <1>2, <1>3, <3>1 DEF PutBackInv
  <2>7. QED
    BY <2>3, <2>4, <2>5, <2>6 DEF ReadInv
<1>4. CASE current' # EOF
  <2>1. /\ at' \in Nat /\ at' >= 1 /\ at' <= Len(text) /\ current' = text[at'] /\ current' \in Byte
        /\ Consumed \in Nat /\ at' = Consumed + 1 /\ Consumed' = at'
    <3>1. CASE next_unget
      <4>1. at' = at /\ current' = current
        BY <3>1 DEF Get
      <4>2. QED
        BY <1>1, <1>2, <1>4, <3>1, <4>1 DEF ReadTypes, ByteInv, Consumed
    <3>2. CASE ~next_unget
      <4>1. at # Len(text) /\ at' = at + 1 /\ current' = text[at + 1]
        BY <1>4, <3>2 DEF Get
      <4>2. QED
        BY <1>1, <1>2, <3>2, <4>1 DEF ReadTypes, Consumed
    <3>3. QED
      BY <1>1, <3>1, <3>2 DEF ReadTypes
  <2>2. /\ position.total = Consumed
        /\ position.lines = Cardinality(NewlinesTo(text, Consumed))
        /\ current' # Newline =>
             /\ position.column = Consumed - LineStart(text, Consumed)
             /\ LineStart(text, Consumed) \in Nat /\ LineStart(text, Consumed) <= Consumed
    <3>1. CASE current # EOF
      <4>1. next_unget /\ current = Newline => current' = Newline
        BY DEF Get
      <4>2. current' # Newline => LineStart(text, Consumed) \in Nat /\ LineStart(text, Consumed) <= Consumed
        <5>1. CASE next_unget
          <6>1. /\ at = at' /\ LineStart(text, at) \in Nat /\ current' = current
                /\ current # Newline => LineStart(text, at) < at
            BY <1>1, <3>1, <5>1 DEF Get, ByteInv
          <6>2. PICK n \in Nat : n = Consumed /\ n + 1 = at /\ n < Len(text) /\ text[n + 1] = current
            BY <1>1, <2>1, <6>1 DEF ReadTypes
          <6>3. current # Newline => LineStart(text, n + 1) = LineStart(text, n)
            BY <1>1, <6>2, Newlines DEF ReadTypes
          <6>4. QED
            BY <6>1, <6>2, <6>3
        <5>2. CASE ~next_unget
          BY <1>1, <3>1, <5>2 DEF ByteInv, Consumed
        <5>3. QED
          BY <1>1, <5>1, <5>2 DEF ReadTypes
      <4>3. QED
        BY <1>1, <3>1, <4>1, <4>2 DEF ByteInv
    <3>2. CASE current = EOF
      <4>1. ~next_unget
        BY <1>4, <3>2 DEF Get
      <4>2. at # Len(text)
        BY <1>4, <4>1 DEF Get
      <4>3. QED
        BY <1>1, <3>2, <4>1, <4>2, NoNewlines DEF EofInv, Consumed
    <3>3. QED
      BY <3>1, <3>2
  <2>3. /\ position' \in [total : Nat, column : Nat, lines : Nat]
    BY <1>1, <1>2 DEF ReadTypes, Advanced
  <2>4. token_string' \in Seq(Byte) /\ Len(token_string') = Len(token_string) + 1
        /\ \A k \in 1..Len(token_string) : token_string'[k] = token_string[k]
        /\ token_string'[Len(token_string) + 1] = current'
    BY <1>1, <1>2, <1>4, <2>1, AppendProperties DEF ReadTypes
  <2>5. ReadTypes'
    BY <1>1, <1>2, <2>1, <2>3, <2>4 DEF ReadTypes
  <2>6. EofInv'
    BY <1>4 DEF EofInv
  <2>7. ByteInv'
    <3>2. position'.total = Consumed + 1
      BY <1>2, <2>2 DEF Advanced
    <3>3. PICK n \in Nat : n = Consumed /\ n + 1 = at' /\ n < Len(text) /\ text[n + 1] = current'
      BY <1>1, <2>1 DEF ReadTypes
    <3>4. Consumed' = n + 1 /\ ~next_unget' /\ text \in Seq(Byte)
      BY <1>1, <1>2, <2>1, <3>3 DEF ReadTypes
    <3>5. CASE current' = Newline
      <4>1. position'.column = 0 /\ position'.lines = Cardinality(NewlinesTo(text, n)) + 1
        BY <1>2, <2>2, <3>3, <3>5 DEF Advanced
      <4>2. Cardinality(NewlinesTo(text, n + 1)) = Cardinality(NewlinesTo(text, n)) + 1 /\ LineStart(text, n + 1) = n + 1
        BY <3>3, <3>4, <3>5, Newlines
      <4>3. QED
        BY <1>2, <2>1, <3>2, <3>3, <3>4, <3>5, <4>1, <4>2 DEF ByteInv
    <3>6. CASE current' # Newline
      <4>1. position'.column = n - LineStart(text, n) + 1 /\ position'.lines = Cardinality(NewlinesTo(text, n))
        BY <1>2, <2>2, <3>3, <3>6 DEF Advanced
      <4>2. NewlinesTo(text, n + 1) = NewlinesTo(text, n) /\ LineStart(text, n + 1) = LineStart(text, n)
        BY <3>3, <3>4, <3>6, Newlines
      <4>3. LineStart(text, n) \in Nat
        BY <2>2, <3>3, <3>6
      <4>4. LineStart(text, n) <= n
        BY <2>2, <3>3, <3>6
      <4>5. QED
        BY <1>2, <2>1, <3>2, <3>3, <3>4, <3>6, <4>1, <4>2, <4>3, <4>4 DEF ByteInv
    <3>7. QED
      BY <3>5, <3>6
  <2>8. TokenInv'
    <3>1. PICK l \in Nat : l = Len(token_string) /\ Len(token_string') = l + 1
      BY <1>1, <2>4 DEF ReadTypes
    <3>2. PICK n \in Nat : n = Consumed /\ Consumed' = n + 1 /\ at' = n + 1
      BY <2>1
    <3>3. l <= n /\ \A k \in 1..l : token_string[k] = text[n - l + k]
      BY <1>1, <3>1, <3>2 DEF TokenInv
    <3>4. \A k \in 1..(l + 1) : token_string'[k] = text'[n + 1 - (l + 1) + k]
      <4> SUFFICES ASSUME NEW k \in 1..(l + 1) PROVE token_string'[k] = text'[n + 1 - (l + 1) + k]
        OBVIOUS
      <4>1. n + 1 - (l + 1) + k = n - l + k
        OBVIOUS
      <4>2. CASE k = l + 1
        <5>1. n - l + k = n + 1
          BY <4>2
        <5>2. QED
          BY <1>2, <2>1, <2>4, <3>1, <3>2, <4>1, <4>2, <5>1
      <4>3. CASE k # l + 1
        <5>1. k \in 1..l
          BY <4>3
        <5>2. QED
          BY <1>2, <2>4, <3>1, <3>3, <4>1, <5>1
      <4>4. QED
        BY <4>2, <4>3
    <3>5. QED
      BY <3>1, <3>2, <3>3, <3>4 DEF TokenInv
  <2>9. PutBackInv'
    <3>1. position'.total >= 1
      BY <1>1, <1>2 DEF ReadTypes, Advanced
    <3>2. token_string' # <<>>
      BY <1>1, <2>4, EmptySeq DEF ReadTypes
    <3>3. QED
      BY <1>2, <3>1, <3>2 DEF PutBackInv
  <2>10. QED
    BY <2>5, <2>6, <2>7, <2>8, <2>9 DEF ReadInv
<1>5. QED
  BY <1>3, <1>4

\* The byte is put back.
LEMMA UngetRead ==
  ASSUME ReadInv, UngetStep
  PROVE  ReadInv'
<1>1. ReadTypes /\ EofInv /\ ByteInv /\ TokenInv /\ PutBackInv
  BY DEF ReadInv
<1>2. ~next_unget /\ (current # EOF => token_string # <<>>) /\ label' \notin Returns
  BY <1>1 DEF UngetStep, PutBackInv, Returns
<1>3. text' = text /\ at' = at /\ current' = current /\ next_unget' = TRUE
  BY DEF UngetStep, Unget, input
<1>4. PutBackInv'
  BY <1>2 DEF PutBackInv, Returns
<1>5. position' =
       [total |-> position.total - 1,
        column |-> IF position.column = 0 THEN 0 ELSE position.column - 1,
        lines |-> IF position.column = 0 /\ position.lines > 0
                  THEN position.lines - 1 ELSE position.lines]
  BY DEF UngetStep, Unget
<1>6. CASE current # EOF
  <2>1. /\ at \in Nat /\ at >= 1 /\ at <= Len(text) /\ current = text[at]
        /\ Consumed = at /\ Consumed' = at - 1 /\ position.total = at
        /\ position.lines = Cardinality(NewlinesTo(text, at))
        /\ LineStart(text, at) \in Nat /\ LineStart(text, at) <= at
        /\ position.column = at - LineStart(text, at)
        /\ (current # Newline => LineStart(text, at) < at)
    BY <1>1, <1>2, <1>3, <1>6 DEF ReadTypes, ByteInv, Consumed
  <2>2. token_string' = Front(token_string)
    BY <1>6 DEF UngetStep, Unget
  <2>3. /\ token_string' \in Seq(Byte) /\ Len(token_string') = Len(token_string) - 1 /\ Len(token_string) >= 1
        /\ \A k \in 1..Len(token_string') : token_string'[k] = token_string[k]
    <3>1. token_string \in Seq(Byte) /\ token_string # <<>> /\ Len(token_string) >= 1
      BY <1>1, <1>2, <1>6, EmptySeq DEF ReadTypes
    <3>2. token_string' = SubSeq(token_string, 1, Len(token_string) - 1)
      BY <2>2 DEF Front
    <3>3. QED
      BY <3>1, <3>2, FrontOf
  <2>4. TokenInv'
    <3>1. PICK l \in Nat : l = Len(token_string') /\ Len(token_string) = l + 1
      BY <2>3
    <3>2. PICK n \in Nat : n = Consumed' /\ Consumed = n + 1
      BY <2>1
    <3>3. l <= n /\ \A k \in 1..(l + 1) : token_string[k] = text[n + 1 - (l + 1) + k]
      BY <1>1, <3>1, <3>2 DEF TokenInv
    <3>4. \A k \in 1..l : token_string'[k] = text'[n - l + k]
      <4> SUFFICES ASSUME NEW k \in 1..l PROVE token_string'[k] = text'[n - l + k]
        OBVIOUS
      <4>1. k \in 1..(l + 1) /\ n + 1 - (l + 1) + k = n - l + k
        BY <3>1, <3>2
      <4>2. QED
        BY <1>3, <2>3, <3>1, <3>3, <4>1
    <3>5. QED
      BY <3>1, <3>2, <3>3, <3>4 DEF TokenInv
  <2>5. /\ current = Newline =>
             /\ LineStart(text, at) = at
             /\ Cardinality(NewlinesTo(text, at)) = Cardinality(NewlinesTo(text, at - 1)) + 1
        /\ current # Newline =>
             /\ NewlinesTo(text, at) = NewlinesTo(text, at - 1)
             /\ LineStart(text, at) = LineStart(text, at - 1)
        /\ Cardinality(NewlinesTo(text, at - 1)) \in Nat
    <3>1. at - 1 \in Nat /\ at - 1 < Len(text) /\ (at - 1) + 1 = at
      BY <2>1
    <3>2. QED
      BY <1>1, <2>1, <3>1, Newlines DEF ReadTypes
  <2>6. /\ position'.total = at - 1 /\ position'.lines = Cardinality(NewlinesTo(text, at - 1))
        /\ position'.column = IF current = Newline THEN 0 ELSE (at - 1) - LineStart(text, at - 1)
    <3>1. CASE current = Newline
      BY <1>5, <2>1, <2>5, <3>1
    <3>2. CASE current # Newline
      BY <1>5, <2>1, <2>5, <3>2
    <3>3. QED
      BY <3>1, <3>2
  <2>8. ByteInv'
    BY <1>3, <2>1, <2>6 DEF ByteInv
  <2>9. position' \in [total : Nat, column : Nat, lines : Nat]
    <3>1. position.total - 1 \in Nat /\ position.column \in Nat /\ position.lines \in Nat
      BY <1>1, <2>1 DEF ReadTypes
    <3>2. /\ (IF position.column = 0 THEN 0 ELSE position.column - 1) \in Nat
          /\ (IF position.column = 0 /\ position.lines > 0 THEN position.lines - 1 ELSE position.lines) \in Nat
      BY <3>1
    <3>3. QED
      BY <1>5, <3>1, <3>2
  <2>10. ReadTypes' /\ EofInv'
    BY <1>1, <1>3, <1>6, <2>3, <2>9 DEF ReadTypes, EofInv
  <2>11. QED
    BY <1>4, <2>4, <2>8, <2>10 DEF ReadInv
<1>7. CASE current = EOF
  <2>1. token_string' = token_string /\ Consumed = at /\ Consumed' = at
    BY <1>2, <1>3, <1>7 DEF UngetStep, Unget, Consumed
  <2>2. ByteInv' /\ EofInv' /\ TokenInv'
    <3>1. at = Len(text)
      BY <1>1, <1>7 DEF UngetStep, EofInv, PutBackInv, Returns
    <3>2. EofInv' /\ ByteInv'
      BY <1>3, <1>7, <3>1 DEF EofInv, ByteInv
    <3>3. TokenInv'
      BY <1>1, <1>3, <2>1 DEF TokenInv
    <3>4. QED
      BY <3>2, <3>3
  <2>3. position.total >= 1
    BY <1>1 DEF UngetStep, PutBackInv, Returns
  <2>4. position' \in [total : Nat, column : Nat, lines : Nat]
    <3>1. position.total - 1 \in Nat /\ position.column \in Nat /\ position.lines \in Nat
      BY <1>1, <2>3 DEF ReadTypes
    <3>2. /\ (IF position.column = 0 THEN 0 ELSE position.column - 1) \in Nat
          /\ (IF position.column = 0 /\ position.lines > 0 THEN position.lines - 1 ELSE position.lines) \in Nat
      BY <3>1
    <3>3. QED
      BY <1>5, <3>1, <3>2
  <2>5. ReadTypes'
    BY <1>1, <1>3, <2>1, <2>4 DEF ReadTypes
  <2>6. QED
    BY <1>4, <2>2, <2>5 DEF ReadInv
<1>8. QED
  BY <1>6, <1>7

LEMMA StillRead ==
  ASSUME ReadInv, StillStep
  PROVE  ReadInv'
BY DEF ReadInv, StillStep, reading, ReadTypes, EofInv, ByteInv, TokenInv, PutBackInv, Consumed, Returns

\* The token begins anew.
LEMMA ResetRead ==
  ASSUME ReadInv, ResetStep
  PROVE  ReadInv'
<1>1. ReadTypes /\ EofInv /\ ByteInv /\ TokenInv /\ PutBackInv
  BY DEF ReadInv
<1>2. /\ ~next_unget /\ current # EOF /\ text' = text /\ at' = at /\ current' = current
      /\ next_unget' = next_unget /\ position' = position /\ token_string' = <<current>>
      /\ label' \notin Returns
  BY <1>1 DEF ResetStep, reading, PutBackInv, Returns
<1>3. at \in 1..Len(text) /\ current = text[at] /\ current \in Byte /\ Consumed = at /\ Consumed' = at
  BY <1>1, <1>2 DEF ReadTypes, ByteInv, Consumed
<1>4. ReadTypes' /\ TokenInv'
  BY <1>1, <1>2, <1>3 DEF ReadTypes, TokenInv
<1>5. EofInv' /\ PutBackInv'
  BY <1>2 DEF EofInv, PutBackInv
<1>6. ByteInv'
  BY <1>1, <1>2, <1>3 DEF ByteInv
<1>7. QED
  BY <1>4, <1>5, <1>6 DEF ReadInv

LEMMA ReadInvariance == LexerSpec => []ReadInv
<1>1. ReadInv /\ [LexerNext]_lexer => ReadInv'
  <2> SUFFICES ASSUME ReadInv, [LexerNext]_lexer PROVE ReadInv'
    OBVIOUS
  <2>1. CASE LexerNext
    BY <2>1, FourSteps, GetRead, UngetRead, StillRead, ResetRead
  <2>2. CASE UNCHANGED lexer
    BY <2>2 DEF lexer, ReadInv, ReadTypes, EofInv, ByteInv, TokenInv, PutBackInv, Consumed, Returns
  <2>3. QED
    BY <2>1, <2>2
<1>2. QED
  BY <1>1, InitRead, PTL DEF LexerSpec

\* What an error of parse says is true of the text (parser.hpp:93-97
\* gives it get_position and get_token_string): the bytes consumed,
\* the lines and, but for a newline that was put back, the column are counted
\* right, and the quoted token is the end of what was consumed.  For a text of
\* any bytes and any length.
THEOREM LexerPositions == LexerSpec => []Positions
<1>1. ReadInv => Positions
  <2> SUFFICES ASSUME ReadInv PROVE Positions
    OBVIOUS
  <2>1. ReadTypes /\ EofInv /\ ByteInv /\ TokenInv
    BY DEF ReadInv
  <2>2. Consumed \in Nat /\ Consumed <= Len(text)
    BY <2>1 DEF ReadTypes, ByteInv, Consumed
  <2>3. token_string = SubSeq(text, Consumed - Len(token_string) + 1, Consumed)
    BY <2>1, <2>2, Suffix DEF ReadTypes, TokenInv
  <2>4. ASSUME current # EOF
        PROVE  LET newlines == {k \in 1..Consumed : text[k] = Newline} IN
                 /\ position.total = Consumed
                 /\ position.lines = Cardinality(newlines)
                 /\ (next_unget /\ current = Newline) \/
                      position.column = Consumed - (IF newlines = {} THEN 0 ELSE Max(newlines))
    BY <2>1, <2>4 DEF ByteInv, NewlinesTo, LineStart
  <2>5. QED
    BY <2>3, <2>4 DEF Positions
<1>2. QED
  BY <1>1, ReadInvariance, PTL

-----------------------------------------------------------------------------
(* The bytes of a character.                                               *)

\* The code points that UTF-8 can write: all but the halves of pairs.
Scalar == {c \in Nat : c <= 1114111 /\ (c < 55296 \/ c > 57343)}
LEMMA OneByteOf ==
  ASSUME NEW c \in 0..127
  PROVE  c \in Scalar /\ Utf8(c) = <<c>>
BY SMT DEF Utf8, Scalar
\* Bytes in the ranges that next_byte_in_range asks for (lexer.hpp:725-801) are
\* what scan_string adds for a code point (lexer.hpp:361-385).
LEMMA TwoBytes ==
  ASSUME NEW b \in 194..223, NEW x \in 128..191
  PROVE  \E c \in Scalar : Utf8(c) = <<b, x>>
<1> DEFINE c == (b - 192) * 64 + (x - 128)
<1>1. c \in Nat /\ 128 <= c /\ c < 2048
  BY SMT
<1>2. Utf8(c) = <<192 + c \div 64, 128 + (c % 64)>>
  BY <1>1, SMT DEF Utf8
<1>3. 192 + c \div 64 = b /\ 128 + (c % 64) = x
  BY SMT
<1>5. Utf8(c) = <<b, x>>
  BY <1>2, <1>3
<1> HIDE DEF c
<1>4. c \in Scalar
  BY <1>1, SMT DEF Scalar
<1>6. QED
  BY <1>4, <1>5
LEMMA ThreeBytes ==
  ASSUME NEW b \in 224..239, NEW x \in 128..191, NEW y \in 128..191,
         b = 224 => x >= 160, b = 237 => x <= 159
  PROVE  \E c \in Scalar : Utf8(c) = <<b, x, y>>
<1> DEFINE c == (b - 224) * 4096 + (x - 128) * 64 + (y - 128)
<1>1. c \in Nat /\ 2048 <= c /\ c < 65536 /\ (c < 55296 \/ c > 57343)
  BY SMT
<1>2. Utf8(c) = <<224 + c \div 4096, 128 + ((c \div 64) % 64), 128 + (c % 64)>>
  BY <1>1, SMT DEF Utf8
<1>3. 224 + c \div 4096 = b /\ 128 + ((c \div 64) % 64) = x /\ 128 + (c % 64) = y
  BY SMT
<1>5. Utf8(c) = <<b, x, y>>
  BY <1>2, <1>3
<1> HIDE DEF c
<1>4. c \in Scalar
  BY <1>1, SMT DEF Scalar
<1>6. QED
  BY <1>4, <1>5
LEMMA FourBytes ==
  ASSUME NEW b \in 240..244, NEW x \in 128..191, NEW y \in 128..191, NEW z \in 128..191,
         b = 240 => x >= 144, b = 244 => x <= 143
  PROVE  \E c \in Scalar : Utf8(c) = <<b, x, y, z>>
<1> DEFINE c == (b - 240) * 262144 + (x - 128) * 4096 + (y - 128) * 64 + (z - 128)
<1>1. c \in Nat /\ 65536 <= c /\ c <= 1114111
  BY SMT
<1>2. Utf8(c) = <<240 + c \div 262144, 128 + ((c \div 4096) % 64), 128 + ((c \div 64) % 64), 128 + (c % 64)>>
  BY <1>1, SMT DEF Utf8
<1>3. 240 + c \div 262144 = b 
  BY SMT
<1>31. 128 + (c % 64) = z
  BY SMT
<1>32. c \div 4096 = (b - 240) * 64 + (x - 128)
  BY SMT
<1>33. (c \div 4096) % 64 = x - 128
  BY ONLY <1>32, SMT
<1>34. c \div 64 = (b - 240) * 4096 + (x - 128) * 64 + (y - 128)
  BY SMT
<1>35. (c \div 64) % 64 = y - 128
  BY ONLY <1>34, SMT
<1>5. Utf8(c) = <<b, x, y, z>>
  BY <1>2, <1>3, <1>31, <1>33, <1>35
<1> HIDE DEF c
<1>4. c \in Scalar
  BY <1>1, SMT DEF Scalar
<1>6. QED
  BY <1>4, <1>5
LEMMA Followed ==
  ASSUME NEW b \in Int
  PROVE
  /\ b \in 194..223 => Following(b) = <<Continuation>>
  /\ b = 224 => Following(b) = <<160..191, Continuation>>
  /\ b \in (225..236) \cup {238, 239} => Following(b) = <<Continuation, Continuation>>
  /\ b = 237 => Following(b) = <<128..159, Continuation>>
  /\ b = 240 => Following(b) = <<144..191, Continuation, Continuation>>
  /\ b \in 241..243 => Following(b) = <<Continuation, Continuation, Continuation>>
  /\ b = 244 => Following(b) = <<128..143, Continuation, Continuation>>
  /\ b \notin 194..244 => Following(b) = <<>>
<1>1.  b \in 194..223 => Following(b) = <<Continuation>>
  BY SMT DEF Following
<1>2.  b = 224 => Following(b) = <<160..191, Continuation>>
  BY SMT DEF Following
<1>3.  b \in (225..236) \cup {238, 239} => Following(b) = <<Continuation, Continuation>>
  BY SMT DEF Following
<1>4.  b = 237 => Following(b) = <<128..159, Continuation>>
  BY SMT DEF Following
<1>5.  b = 240 => Following(b) = <<144..191, Continuation, Continuation>>
  BY SMT DEF Following
<1>6.  b \in 241..243 => Following(b) = <<Continuation, Continuation, Continuation>>
  BY SMT DEF Following
<1>7.  b = 244 => Following(b) = <<128..143, Continuation, Continuation>>
  BY SMT DEF Following
<1>8.  b \notin 194..244 => Following(b) = <<>>
  BY SMT DEF Following
<1>9. QED
  BY <1>1, <1>2, <1>3, <1>4, <1>5, <1>6, <1>7, <1>8
\* What a backslash, a pair of halves, four digits stand for.
LEMMA Paired ==
  ASSUME NEW a, IsHigh(a), NEW b, IsLow(b)
  PROVE  Pair(a, b) \in Scalar
<1>1. a \in Nat /\ a >= 55296 /\ a <= 56319 /\ b \in Nat /\ b >= 56320 /\ b <= 57343
  BY SMT DEF IsHigh, IsLow
<1>2. Pair(a, b) \in Nat /\ Pair(a, b) >= 65536 /\ Pair(a, b) <= 1114111
  BY <1>1, SMT DEF Pair
<1>3. QED
  BY <1>2, SMT DEF Scalar
LEMMA Escaped ==
  ASSUME NEW c \in DOMAIN Escapes
  PROVE  Escapes[c] \in 0..127
BY SMT DEF Escapes
LEMMA HexDigits ==
  ASSUME NEW c, HexValue(c) # -1
  PROVE  HexValue(c) \in 0..15
BY SMT DEF HexValue, Digit
\* Tokens that are no strings.
LEMMA StructuralTokens ==
  ASSUME NEW c \in DOMAIN Structural
  PROVE  Structural[c] # "value_string"
<1>1. c \in {91, 93, 123, 125, 58, 44}
  BY DEF Structural
<1>2. c = 91 \/ c = 93 \/ c = 123 \/ c = 125 \/ c = 58 \/ c = 44
  BY <1>1
<1>3. QED
  BY <1>1, <1>2, Zenon DEF Structural
LEMMA LiteralTokens ==
  ASSUME NEW c \in DOMAIN Literals
  PROVE  Literals[c].token # "value_string"
<1>1. c \in {116, 102, 110}
  BY DEF Literals
<1>3. QED
  BY <1>1, Zenon DEF Literals
LEMMA NumberTokens == Number[1] # "value_string"
<1>1. \/ Number = <<"value_unsigned", Decimal(token_buffer)>>
      \/ Number = <<"value_integer", Strtoll(token_buffer)>>
      \/ Number = <<"value_float", token_buffer>>
  BY Zenon DEF Number
<1>2. QED
  BY <1>1

-----------------------------------------------------------------------------
(* Texts in UTF-8.                                                         *)

\* s is in the least set that holds the empty text and, with a text, every one
\* that goes on with the bytes of a character.
IsUtf8(s) ==
  \A W \in SUBSET Seq(Byte) :
    (<<>> \in W /\ \A w \in W : \A c \in Scalar : w \o Utf8(c) \in W) => s \in W

\* The bytes of q are those the label "utf8" expects when r is left; with them
\* p is the bytes of a character.
Fits(q, r) == Len(q) = Len(r) /\ \A i \in 1..Len(r) : q[i] \in r[i]
Begins(p, r) == \A q \in Seq(Byte) : Fits(q, r) => \E c \in Scalar : p \o q = Utf8(c)

LEMMA Utf8Bytes == ASSUME NEW c \in Scalar PROVE Utf8(c) \in Seq(Byte)
<1>1. CASE c < 128
  <2>1. c \in Byte
    BY <1>1, SMT DEF Byte, Scalar
  <2>2. Utf8(c) = <<c>>
    BY <1>1, SMT DEF Utf8, Scalar
  <2>3. QED
    BY <2>1, <2>2
<1>2. CASE c >= 128 /\ c < 2048
  <2>1. 192 + c \div 64 \in Byte /\ 128 + (c % 64) \in Byte
    BY <1>2, SMT DEF Byte, Scalar
  <2>2. Utf8(c) = <<192 + c \div 64, 128 + (c % 64)>>
    BY <1>2, SMT DEF Utf8, Scalar
  <2>3. QED
    BY <2>1, <2>2
<1>3. CASE c >= 2048 /\ c < 65536
  <2>1. 224 + c \div 4096 \in Byte /\ 128 + ((c \div 64) % 64) \in Byte /\ 128 + (c % 64) \in Byte
    BY <1>3, SMT DEF Byte, Scalar
  <2>2. Utf8(c) = <<224 + c \div 4096, 128 + ((c \div 64) % 64), 128 + (c % 64)>>
    BY <1>3, SMT DEF Utf8, Scalar
  <2>3. QED
    BY <2>1, <2>2
<1>4. CASE c >= 65536
  <2>1. /\ 240 + c \div 262144 \in Byte /\ 128 + ((c \div 4096) % 64) \in Byte
        /\ 128 + ((c \div 64) % 64) \in Byte /\ 128 + (c % 64) \in Byte
    BY <1>4, SMT DEF Byte, Scalar
  <2>2. Utf8(c) = <<240 + c \div 262144, 128 + ((c \div 4096) % 64), 128 + ((c \div 64) % 64), 128 + (c % 64)>>
    BY <1>4, SMT DEF Utf8, Scalar
  <2>3. QED
    BY <2>1, <2>2
<1>5. QED
  BY <1>1, <1>2, <1>3, <1>4, SMT DEF Scalar

LEMMA Utf8Closed ==
  /\ IsUtf8(<<>>)
  /\ \A s : IsUtf8(s) => s \in Seq(Byte)
  /\ \A s : \A c \in Scalar : IsUtf8(s) => IsUtf8(s \o Utf8(c))
<1>1. IsUtf8(<<>>)
  BY DEF IsUtf8
<1>2. ASSUME NEW s, IsUtf8(s) PROVE s \in Seq(Byte)
  <2>1. \A w \in Seq(Byte) : \A c \in Scalar : w \o Utf8(c) \in Seq(Byte)
    BY Utf8Bytes
  <2>2. <<>> \in Seq(Byte) /\ Seq(Byte) \in SUBSET Seq(Byte)
    OBVIOUS
  <2>3. QED
    BY <1>2, <2>1, <2>2, Zenon DEF IsUtf8
<1>3. ASSUME NEW s, NEW c \in Scalar, IsUtf8(s) PROVE IsUtf8(s \o Utf8(c))
  BY <1>3, Zenon DEF IsUtf8
<1>4. QED
  BY <1>1, <1>2, <1>3

\* Short texts, byte by byte.
LEMMA Spelt ==
  ASSUME NEW s \in Seq(Byte), NEW a \in Byte, NEW b \in Byte, NEW c \in Byte, NEW d \in Byte
  PROVE  /\ Len(s) = 2 /\ s[1] = a /\ s[2] = b => s = <<a, b>>
         /\ Len(s) = 3 /\ s[1] = a /\ s[2] = b /\ s[3] = c => s = <<a, b, c>>
         /\ Len(s) = 4 /\ s[1] = a /\ s[2] = b /\ s[3] = c /\ s[4] = d => s = <<a, b, c, d>>
<1>1. CASE Len(s) = 2 /\ s[1] = a /\ s[2] = b
  BY <1>1, SeqEqual
<1>2. CASE Len(s) = 3 /\ s[1] = a /\ s[2] = b /\ s[3] = c
  BY <1>2, SeqEqual
<1>3. CASE Len(s) = 4 /\ s[1] = a /\ s[2] = b /\ s[3] = c /\ s[4] = d
  BY <1>3, SeqEqual
<1>4. QED
  BY <1>1, <1>2, <1>3

LEMMA Fitting ==
  ASSUME NEW b \in Byte, NEW q \in Seq(Byte)
  PROVE  /\ \A P : Fits(q, <<P>>) => <<b>> \o q = <<b, q[1]>> /\ q[1] \in P
         /\ \A P, Q : Fits(q, <<P, Q>>) => <<b>> \o q = <<b, q[1], q[2]>> /\ q[1] \in P /\ q[2] \in Q
         /\ \A P, Q, R : Fits(q, <<P, Q, R>>) =>
              <<b>> \o q = <<b, q[1], q[2], q[3]>> /\ q[1] \in P /\ q[2] \in Q /\ q[3] \in R
<1>1. /\ <<b>> \o q \in Seq(Byte) /\ Len(<<b>> \o q) = Len(q) + 1 /\ (<<b>> \o q)[1] = b
      /\ \A i \in 2..Len(q) + 1 : (<<b>> \o q)[i] = q[i - 1]
  OBVIOUS
<1>2. ASSUME NEW P, Fits(q, <<P>>) PROVE <<b>> \o q = <<b, q[1]>> /\ q[1] \in P
  <2>1. Len(q) = 1 /\ q[1] \in P
    BY <1>2 DEF Fits
  <2>2. q[1] \in Byte /\ Len(<<b>> \o q) = 2 /\ (<<b>> \o q)[2] = q[1]
    BY <1>1, <2>1
  <2>3. QED
    BY <1>1, <2>1, <2>2, Spelt
<1>3. ASSUME NEW P, NEW Q, Fits(q, <<P, Q>>)
      PROVE  <<b>> \o q = <<b, q[1], q[2]>> /\ q[1] \in P /\ q[2] \in Q
  <2>1. Len(q) = 2 /\ q[1] \in P /\ q[2] \in Q
    BY <1>3 DEF Fits
  <2>2. /\ q[1] \in Byte /\ q[2] \in Byte
        /\ Len(<<b>> \o q) = 3 /\ (<<b>> \o q)[2] = q[1] /\ (<<b>> \o q)[3] = q[2]
    BY <1>1, <2>1
  <2>3. <<b>> \o q = <<b, q[1], q[2]>>
    <3>1. PICK s \in Seq(Byte) : s = <<b>> \o q
      BY <1>1
    <3>2. PICK x \in Byte, y \in Byte : x = q[1] /\ y = q[2]
      BY <2>2
    <3>3. s[1] = b /\ Len(s) = 3 /\ s[2] = x /\ s[3] = y
      BY <1>1, <2>2, <3>1, <3>2, Zenon
    <3>4. s = <<b, x, y>>
      BY <3>3, Spelt
    <3>5. QED
      BY <3>1, <3>2, <3>4
  <2>4. QED
    BY <2>3, <2>1, Zenon
<1>4. ASSUME NEW P, NEW Q, NEW R, Fits(q, <<P, Q, R>>)
      PROVE  <<b>> \o q = <<b, q[1], q[2], q[3]>> /\ q[1] \in P /\ q[2] \in Q /\ q[3] \in R
  <2>1. Len(q) = 3 /\ q[1] \in P /\ q[2] \in Q /\ q[3] \in R
    BY <1>4 DEF Fits
  <2>2. /\ q[1] \in Byte /\ q[2] \in Byte /\ q[3] \in Byte
        /\ Len(<<b>> \o q) = 4 /\ (<<b>> \o q)[2] = q[1] /\ (<<b>> \o q)[3] = q[2]
        /\ (<<b>> \o q)[4] = q[3]
    BY <1>1, <2>1
  <2>3. <<b>> \o q = <<b, q[1], q[2], q[3]>>
    <3>1. PICK s \in Seq(Byte) : s = <<b>> \o q
      BY <1>1
    <3>2. PICK x \in Byte, y \in Byte, z \in Byte : x = q[1] /\ y = q[2] /\ z = q[3]
      BY <2>2
    <3>3. s[1] = b /\ Len(s) = 4 /\ s[2] = x /\ s[3] = y /\ s[4] = z
      BY <1>1, <2>2, <3>1, <3>2, Zenon
    <3>4. s = <<b, x, y, z>>
      BY <3>3, Spelt
    <3>5. QED
      BY <3>1, <3>2, <3>4
  <2>4. QED
    BY <2>3, <2>1, Zenon
<1>5. QED
  BY <1>2, <1>3, <1>4

\* The first byte of a character, and the others.
LEMMA Begun ==
  ASSUME NEW b \in Int, Following(b) # <<>>
  PROVE  /\ b \in Byte
         /\ Following(b) \in Seq(SUBSET Byte)
         /\ Begins(<<b>>, Following(b))
<1>1. b \in 194..244
  BY Followed, SMT
<1>2. b \in Byte
  BY <1>1, SMT DEF Byte
<1>3. CASE b \in 194..223
  <2>1. Following(b) = <<Continuation>>
    BY <1>3, Followed
  <2>2. ASSUME NEW q \in Seq(Byte), Fits(q, <<Continuation>>)
        PROVE  \E c \in Scalar : <<b>> \o q = Utf8(c)
    <3>1. <<b>> \o q = <<b, q[1]>> /\ q[1] \in 128..191
      BY <1>2, <2>2, Fitting DEF Continuation
    <3>2. QED
      BY <1>3, <3>1, TwoBytes
  <2>3. <<Continuation>> \in Seq(SUBSET Byte)
    BY SMT DEF Continuation, Byte
  <2>4. QED
    BY <1>3, <2>1, <2>2, <2>3, SMT DEF Begins, Byte
<1>4. ASSUME NEW R, R \subseteq 128..191, b \in 224..239, \A x \in R : (b = 224 => x >= 160) /\ (b = 237 => x <= 159)
      PROVE  <<R, Continuation>> \in Seq(SUBSET Byte) /\ Begins(<<b>>, <<R, Continuation>>)
  <2>0. ASSUME NEW x \in R, NEW y \in 128..191 PROVE \E c \in Scalar : Utf8(c) = <<b, x, y>>
    <3>1. x \in 128..191 /\ (b = 224 => x >= 160) /\ (b = 237 => x <= 159)
      BY <1>4
    <3>2. QED
      BY <1>4, <3>1, ThreeBytes
  <2>1. ASSUME NEW q \in Seq(Byte), Fits(q, <<R, Continuation>>)
        PROVE  \E c \in Scalar : <<b>> \o q = Utf8(c)
    <3>1. <<b>> \o q = <<b, q[1], q[2]>> /\ q[1] \in R /\ q[2] \in 128..191
      BY <1>2, <2>1, Fitting DEF Continuation
    <3>2. QED
      BY <2>0, <3>1
  <2>2. R \subseteq Byte /\ Continuation \subseteq Byte
    BY <1>4, SMT DEF Continuation, Byte
  <2>3. QED
    BY <2>1, <2>2 DEF Begins
<1>5. ASSUME NEW R, R \subseteq 128..191, b \in 240..244, \A x \in R : (b = 240 => x >= 144) /\ (b = 244 => x <= 143)
      PROVE  <<R, Continuation, Continuation>> \in Seq(SUBSET Byte) /\ Begins(<<b>>, <<R, Continuation, Continuation>>)
  <2>0. ASSUME NEW x \in R, NEW y \in 128..191, NEW z \in 128..191
        PROVE  \E c \in Scalar : Utf8(c) = <<b, x, y, z>>
    <3>1. x \in 128..191 /\ (b = 240 => x >= 144) /\ (b = 244 => x <= 143)
      BY <1>5
    <3>2. QED
      BY <1>5, <3>1, FourBytes
  <2>1. ASSUME NEW q \in Seq(Byte), Fits(q, <<R, Continuation, Continuation>>)
        PROVE  \E c \in Scalar : <<b>> \o q = Utf8(c)
    <3>1. <<b>> \o q = <<b, q[1], q[2], q[3]>> /\ q[1] \in R /\ q[2] \in 128..191 /\ q[3] \in 128..191
      BY <1>2, <2>1, Fitting DEF Continuation
    <3>2. QED
      BY <2>0, <3>1
  <2>2. R \subseteq Byte /\ Continuation \subseteq Byte
    BY <1>5, SMT DEF Continuation, Byte
  <2>3. <<R, Continuation, Continuation>> \in Seq(SUBSET Byte)
    BY <2>2
  <2>4. QED
    BY <2>1, <2>3 DEF Begins
<1>6. CASE b \in 224..239
  <2>1. PICK R : /\ Following(b) = <<R, Continuation>> /\ R \subseteq 128..191
                 /\ \A x \in R : (b = 224 => x >= 160) /\ (b = 237 => x <= 159)
    <3>1. CASE b = 224
      <4>1. Following(b) = <<160..191, Continuation>>
        BY <3>1, Followed
      <4>2. 160..191 \subseteq 128..191 /\ \A x \in 160..191 : (b = 224 => x >= 160) /\ (b = 237 => x <= 159)
        BY <3>1, SMT
      <4>3. QED
        BY <4>1, <4>2
    <3>2. CASE b = 237
      <4>1. Following(b) = <<128..159, Continuation>>
        BY <3>2, Followed
      <4>2. 128..159 \subseteq 128..191 /\ \A x \in 128..159 : (b = 224 => x >= 160) /\ (b = 237 => x <= 159)
        BY <3>2, SMT
      <4>3. QED
        BY <4>1, <4>2
    <3>3. CASE b # 224 /\ b # 237
      <4>1. Following(b) = <<Continuation, Continuation>>
        <5>1. b \in (225..236) \cup {238, 239}
          BY <1>6, <3>3, SMT
        <5>2. QED
          BY <5>1, Followed
      <4>2. Continuation \subseteq 128..191
        BY DEF Continuation
      <4>3. QED
        BY <3>3, <4>1, <4>2
    <3>4. QED
      BY <3>1, <3>2, <3>3
  <2>2. b \in Byte
    BY <1>6, SMT DEF Byte
  <2>3. QED
    BY <1>4, <1>6, <2>1, <2>2
<1>7. CASE b \in 240..244
  <2>1. PICK R : /\ Following(b) = <<R, Continuation, Continuation>> /\ R \subseteq 128..191
                 /\ \A x \in R : (b = 240 => x >= 144) /\ (b = 244 => x <= 143)
    <3>1. CASE b = 240
      <4>1. Following(b) = <<144..191, Continuation, Continuation>>
        BY <3>1, Followed
      <4>2. 144..191 \subseteq 128..191 /\ \A x \in 144..191 : (b = 240 => x >= 144) /\ (b = 244 => x <= 143)
        BY <3>1, SMT
      <4>3. QED
        BY <4>1, <4>2
    <3>2. CASE b = 244
      <4>1. Following(b) = <<128..143, Continuation, Continuation>>
        BY <3>2, Followed
      <4>2. 128..143 \subseteq 128..191 /\ \A x \in 128..143 : (b = 240 => x >= 144) /\ (b = 244 => x <= 143)
        BY <3>2, SMT
      <4>3. QED
        BY <4>1, <4>2
    <3>3. CASE b # 240 /\ b # 244
      <4>1. Following(b) = <<Continuation, Continuation, Continuation>>
        <5>1. b \in 241..243
          BY <1>7, <3>3, SMT
        <5>2. QED
          BY <5>1, Followed
      <4>2. Continuation \subseteq 128..191
        BY DEF Continuation
      <4>3. QED
        BY <3>3, <4>1, <4>2
    <3>4. QED
      BY <3>1, <3>2, <3>3
  <2>2. b \in Byte
    BY <1>7, SMT DEF Byte
  <2>3. QED
    BY <1>5, <1>7, <2>1, <2>2
<1>8. QED
  BY <1>1, <1>3, <1>6, <1>7, SMT

LEMMA GoesOn ==
  ASSUME NEW p \in Seq(Byte), NEW r \in Seq(SUBSET Byte), r # <<>>, NEW b \in Head(r), Begins(p, r)
  PROVE  b \in Byte /\ Tail(r) \in Seq(SUBSET Byte) /\ Begins(p \o <<b>>, Tail(r))
<1>1. /\ Tail(r) \in Seq(SUBSET Byte) /\ Len(Tail(r)) = Len(r) - 1 /\ Len(r) \in Nat /\ Len(r) >= 1
      /\ Head(r) = r[1] /\ \A i \in 1..Len(r) - 1 : Tail(r)[i] = r[i + 1]
  <2>1. Len(r) # 0
    BY EmptySeq
  <2>2. QED
    BY <2>1
<1>2. b \in Byte /\ b \in r[1]
  BY <1>1
<1>3. ASSUME NEW q \in Seq(Byte), Fits(q, Tail(r))
      PROVE  \E c \in Scalar : (p \o <<b>>) \o q = Utf8(c)
  <2>1. /\ (p \o <<b>>) \o q = p \o (<<b>> \o q) /\ <<b>> \o q \in Seq(Byte)
        /\ Len(<<b>> \o q) = Len(q) + 1 /\ (<<b>> \o q)[1] = b
        /\ \A i \in 2..Len(q) + 1 : (<<b>> \o q)[i] = q[i - 1]
    BY <1>2
  <2>2. Len(q) = Len(r) - 1 /\ \A i \in 1..Len(r) - 1 : q[i] \in r[i + 1]
    BY <1>1, <1>3 DEF Fits
  <2>3. \A i \in 1..Len(r) : (<<b>> \o q)[i] \in r[i]
    <3> SUFFICES ASSUME NEW i \in 1..Len(r) PROVE (<<b>> \o q)[i] \in r[i]
      OBVIOUS
    <3>1. CASE i = 1
      BY <1>2, <2>1, <3>1
    <3>2. CASE i # 1
      <4>1. i - 1 \in 1..Len(r) - 1 /\ i \in 2..Len(q) + 1 /\ (i - 1) + 1 = i
        BY <1>1, <2>2, <3>2
      <4>2. QED
        BY <2>1, <2>2, <4>1
    <3>3. QED
      BY <3>1, <3>2
  <2>4. Fits(<<b>> \o q, r)
    <3>1. PICK n \in Nat : n = Len(r) /\ Len(q) = n - 1
      BY <1>1, <2>2
    <3>11. Len(<<b>> \o q) = n
      BY <2>1, <3>1
    <3>2. QED
      BY <2>3, <3>1, <3>11, Zenon DEF Fits
  <2>5. QED
    BY <2>1, <2>4 DEF Begins
<1>4. QED
  BY <1>1, <1>2, <1>3 DEF Begins

-----------------------------------------------------------------------------
(* The strings that the lexer returns.                                     *)

\* The labels of scan_string.
Inside == {"string", "escape", "hex", "codepoint", "surrogate", "surrogate2", "utf8"}

\* What was returned is UTF-8, and what is in the buffer between two characters.
TextInv ==
  /\ token[1] = "value_string" => IsUtf8(token[2])
  /\ label \in Inside \ {"utf8"} => IsUtf8(token_buffer)

\* In the middle of a character the buffer ends with the begin of its bytes.
CharacterInv ==
  label = "utf8" =>
    /\ rest \in Seq(SUBSET Byte) /\ rest # <<>>
    /\ \E s, p \in Seq(Byte) : token_buffer = s \o p /\ IsUtf8(s) /\ Begins(p, rest)

\* In an escape codepoint has the first half of a pair, or 0, and digits of a
\* number below 65536; only a first half waits for a second.
Places == {HexPlaces, <<256, 16, 1>>, <<16, 1>>, <<1>>}
EscapeInv ==
  /\ label = "hex" =>
       /\ rest \in Places
       /\ \E f, n \in Nat : /\ codepoint = <<f, n>> /\ (f = 0 \/ IsHigh(f))
                            /\ n + 16 * Head(rest) <= 65536
  /\ label = "codepoint" =>
       \E f, n \in Nat : codepoint = <<f, n>> /\ (f = 0 \/ IsHigh(f)) /\ n < 65536
  /\ label \in {"surrogate", "surrogate2"} => \E f \in Nat : codepoint = <<f, 0>> /\ IsHigh(f)

StringInv == TextInv /\ CharacterInv /\ EscapeInv

\* A step that leaves scan_string, or is not in it, returns no string.
Outside == label' \notin Inside /\ (token' = token \/ token'[1] # "value_string")

LEMMA OutsideString ==
  ASSUME TextInv, Outside
  PROVE  StringInv'
BY DEF TextInv, Outside, StringInv, CharacterInv, EscapeInv, Inside

LEMMA ByteRead ==
  ASSUME ReadInv' 
  PROVE  current' = EOF \/ current' \in Byte
<1>1. text' \in Seq(Byte) /\ at' \in Nat /\ at' <= Len(text')
  BY DEF ReadInv, ReadTypes
<1>2. current' # EOF => at' >= 1 /\ current' = text'[at']
  BY DEF ReadInv, ByteInv
<1>3. QED
  BY <1>1, <1>2

LEMMA Failed ==
  ASSUME NEW m, Fail(m)
  PROVE  Outside
BY DEF Fail, Return, Outside, Inside

LEMMA OutsideSteps ==
  ASSUME \/ SkipBom \/ SkipBomUnget \/ SkipBomRest \/ SkipSpace \/ ScanLiteral \/ ScanNumber
         \/ ScanNumberMinus \/ ScanNumberZero \/ ScanNumberAny1 \/ ScanNumberDecimal1
         \/ ScanNumberDecimal2 \/ ScanNumberExponent \/ ScanNumberSign \/ ScanNumberAny2
         \/ ScanNumberDone \/ (label = "idle" /\ Scan)
  PROVE  Outside
<1>1. CASE SkipBom \/ SkipBomUnget \/ SkipSpace
  BY <1>1 DEF SkipBom, SkipBomUnget, SkipSpace, Goto, Outside, Inside
<1>2. CASE SkipBomRest
  <2>1. Goto("bom3") \/ Goto("space") \/ Fail("invalid BOM")
    BY <1>2, Zenon DEF SkipBomRest
  <2>2. QED
    BY <2>1, Failed DEF Goto, Outside, Inside
<1>3. CASE ScanLiteral
  <2>1. Fail("invalid literal") \/ (label' \in {"idle", "literal"} /\ token' = token)
    BY <1>3, Zenon DEF ScanLiteral
  <2>2. QED
    BY <2>1, Failed DEF Outside, Inside
<1>4. ASSUME NEW l, AddGoto(l), l \in {"minus", "zero", "any1", "decimal1", "decimal2", "exponent", "sign", "any2"}
      PROVE  Outside
  BY <1>4 DEF AddGoto, Goto, Outside, Inside
<1>5. NumberEnds => Outside
  BY DEF NumberEnds, Goto, Outside, Inside
<1>6. ASSUME NEW m, NoNumber(m) PROVE Outside
  BY <1>6, Failed DEF NoNumber
<1>7. CASE ScanNumber
  BY <1>7, SMT DEF ScanNumber, Goto, Outside, Inside
<1>8. CASE ScanNumberMinus \/ ScanNumberDecimal1 \/ ScanNumberSign \/ ScanNumberAny2
  <2>1. \/ AddGoto("zero") \/ AddGoto("any1") \/ AddGoto("decimal2") \/ AddGoto("any2")
        \/ NumberEnds \/ \E m : NoNumber(m)
    BY <1>8, Zenon DEF ScanNumberMinus, ScanNumberDecimal1, ScanNumberSign, ScanNumberAny2
  <2>2. QED
    BY <1>4, <1>5, <1>6, <2>1
<1>9. CASE ScanNumberZero \/ ScanNumberAny1 \/ ScanNumberDecimal2 \/ ScanNumberExponent
  <2>1. \/ AddGoto("any1") \/ AddGoto("decimal1") \/ AddGoto("decimal2") \/ AddGoto("exponent")
        \/ AddGoto("sign") \/ AddGoto("any2") \/ NumberEnds \/ \E m : NoNumber(m)
    BY <1>9, Zenon DEF ScanNumberZero, ScanNumberAny1, ScanNumberDecimal2, ScanNumberExponent
  <2>2. QED
    BY <1>4, <1>5, <1>6, <2>1
<1>10. CASE ScanNumberDone
  <2>1. label' = "idle" /\ token' = Number
    BY <1>10 DEF ScanNumberDone, Return
  <2>2. QED
    BY <2>1, NumberTokens DEF Outside, Inside
<1>11. CASE label = "idle" /\ Scan
  BY <1>11 DEF Scan, Outside, Inside
<1>12. QED
  BY <1>1, <1>2, <1>3, <1>7, <1>8, <1>9, <1>10, <1>11

LEMMA DispatchString ==
  ASSUME StringInv, Dispatch
  PROVE  StringInv'
<1>1. TextInv
  BY DEF StringInv
<1>2. CASE current \in DOMAIN Structural /\ Return(<<Structural[current]>>)
  BY <1>1, <1>2, StructuralTokens, OutsideString DEF Return, Outside, Inside
<1>3. CASE current \in DOMAIN Literals /\ label' = "literal" /\ token' = <<Literals[current].token>>
  BY <1>1, <1>3, LiteralTokens, OutsideString DEF Outside, Inside
<1>4. CASE Reset /\ Goto("string")
  <2>1. token_buffer' = <<>> /\ label' = "string" /\ token' = token
    BY <1>4 DEF Reset, Goto
  <2>2. QED
    BY <1>1, <2>1, Utf8Closed DEF StringInv, TextInv, CharacterInv, EscapeInv
<1>5. CASE Return(<<"end_of_input">>) \/ Fail("invalid literal")
  <2>1. Return(<<"end_of_input">>) => Outside
    BY DEF Return, Outside, Inside
  <2>2. Outside
    BY <1>5, <2>1, Failed
  <2>3. QED
    BY <1>1, <2>2, OutsideString
<1>6. QED
  BY <1>2, <1>3, <1>4, <1>5, Zenon DEF Dispatch

LEMMA StringString ==
  ASSUME StringInv, ReadInv', ScanString
  PROVE  StringInv'
<1>1. TextInv /\ label = "string" /\ IsUtf8(token_buffer) /\ token_buffer \in Seq(Byte)
  BY Utf8Closed DEF StringInv, TextInv, ScanString, InString, Inside
<1>2. CASE Return(<<"value_string", token_buffer>>)
  BY <1>1, <1>2 DEF Return, StringInv, TextInv, CharacterInv, EscapeInv, Inside
<1>3. CASE Goto("escape") /\ UNCHANGED token_buffer
  BY <1>1, <1>3 DEF Goto, StringInv, TextInv, CharacterInv, EscapeInv, Inside
<1>4. CASE current' \in OneByte /\ Add(<<current'>>) /\ Goto("string")
  <2>1. current' \in 0..127
    BY <1>4, SMT DEF OneByte
  <2>2. IsUtf8(token_buffer')
    BY <1>1, <1>4, <2>1, OneByteOf, Utf8Closed DEF Add
  <2>3. QED
    BY <1>1, <1>4, <2>2 DEF Goto, StringInv, TextInv, CharacterInv, EscapeInv
<1>5. CASE Following(current') # <<>> /\ Add(<<current'>>) /\ Goto("utf8") /\ rest' = Following(current')
  <2>1. current' \in Int
    BY ByteRead, SMT DEF Byte, EOF
  <2>2. PICK b \in Int : b = current'
    BY <2>1
  <2>3. b \in Byte /\ rest' \in Seq(SUBSET Byte) /\ rest' # <<>> /\ Begins(<<b>>, rest')
    BY <1>5, <2>2, Begun
  <2>4. <<b>> \in Seq(Byte) /\ token_buffer' = token_buffer \o <<b>> /\ label' = "utf8" /\ token' = token
    BY <1>5, <2>2, <2>3 DEF Add, Goto
  <2>5. CharacterInv'
    BY <1>1, <2>3, <2>4 DEF CharacterInv
  <2>6. QED
    BY <1>1, <2>4, <2>5 DEF StringInv, TextInv, EscapeInv, Inside
<1>6. CASE \E m : Fail(m)
  BY <1>1, <1>6, Failed, OutsideString
<1>7. QED
  BY <1>2, <1>3, <1>4, <1>5, <1>6, Zenon DEF ScanString

LEMMA NextByteString ==
  ASSUME StringInv, NextByteInRange
  PROVE  StringInv'
<1>1. TextInv /\ label = "utf8" /\ rest \in Seq(SUBSET Byte) /\ rest # <<>>
  BY DEF StringInv, CharacterInv, NextByteInRange, InString
<1>2. PICK s, p \in Seq(Byte) : token_buffer = s \o p /\ IsUtf8(s) /\ Begins(p, rest)
  BY <1>1 DEF StringInv, CharacterInv
<1>3. CASE current' \in Head(rest)
  <2>1. /\ token_buffer' = token_buffer \o <<current'>> /\ rest' = Tail(rest)
        /\ label' = (IF rest' = <<>> THEN "string" ELSE "utf8") /\ token' = token
    BY <1>3 DEF NextByteInRange, Add, Goto
  <2>2. PICK b \in Head(rest) : b = current'
    BY <1>3
  <2>3. b \in Byte /\ rest' \in Seq(SUBSET Byte) /\ Begins(p \o <<b>>, rest')
    BY <1>1, <1>2, <2>1, GoesOn
  <2>4. token_buffer' = s \o (p \o <<b>>) /\ p \o <<b>> \in Seq(Byte)
    BY <1>2, <2>1, <2>2, <2>3
  <2>5. CASE rest' = <<>>
    <3>1. Fits(<<>>, rest') /\ <<>> \in Seq(Byte) /\ (p \o <<b>>) \o <<>> = p \o <<b>>
      BY <2>4, <2>5 DEF Fits
    <3>2. \E c \in Scalar : p \o <<b>> = Utf8(c)
      BY <2>3, <3>1 DEF Begins
    <3>3. IsUtf8(token_buffer')
      BY <1>2, <2>4, <3>2, Utf8Closed
    <3>4. QED
      BY <1>1, <2>1, <2>5, <3>3 DEF StringInv, TextInv, CharacterInv, EscapeInv
  <2>6. CASE rest' # <<>>
    <3>1. CharacterInv'
      BY <1>2, <2>3, <2>4, <2>6 DEF CharacterInv
    <3>2. QED
      BY <1>1, <2>1, <2>6, <3>1 DEF StringInv, TextInv, EscapeInv, Inside
  <2>7. QED
    BY <2>5, <2>6
<1>4. CASE current' \notin Head(rest)
  BY <1>1, <1>4, Failed, OutsideString DEF NextByteInRange
<1>5. QED
  BY <1>3, <1>4

LEMMA EscapeString ==
  ASSUME StringInv, ScanEscape
  PROVE  StringInv'
<1>1. TextInv /\ label = "escape" /\ IsUtf8(token_buffer)
  BY DEF StringInv, TextInv, ScanEscape, InString, Inside
<1>2. CASE current' \in DOMAIN Escapes /\ Add(<<Escapes[current']>>) /\ Goto("string")
  <2>1. IsUtf8(token_buffer')
    BY <1>1, <1>2, Escaped, OneByteOf, Utf8Closed DEF Add
  <2>2. QED
    BY <1>1, <1>2, <2>1 DEF Goto, StringInv, TextInv, CharacterInv, EscapeInv
<1>3. CASE Goto("hex") /\ rest' = HexPlaces /\ codepoint' = <<0, 0>> /\ UNCHANGED token_buffer
  <2>1. EscapeInv'
    <3>1. rest' \in Places /\ Head(rest') = 4096
      BY <1>3, SMT DEF Places, HexPlaces
    <3>2. QED
      BY <1>3, <3>1, SMT DEF EscapeInv, Goto
  <2>2. QED
    BY <1>1, <1>3, <2>1 DEF Goto, StringInv, TextInv, CharacterInv, Inside
<1>4. CASE \E m : Fail(m)
  BY <1>1, <1>4, Failed, OutsideString
<1>5. QED
  BY <1>2, <1>3, <1>4, Zenon DEF ScanEscape

LEMMA PlaceByPlace ==
  ASSUME NEW r \in Places
  PROVE  /\ Head(r) \in {4096, 256, 16, 1}
         /\ Head(r) = 1 => Tail(r) = <<>>
         /\ Head(r) # 1 => Tail(r) \in Places /\ Tail(r) # <<>> /\ 16 * Head(Tail(r)) = Head(r)
<1>1. CASE r = HexPlaces
  BY <1>1 DEF Places, HexPlaces
<1>2. CASE r = <<256, 16, 1>>
  BY <1>2 DEF Places
<1>3. CASE r = <<16, 1>>
  BY <1>3 DEF Places
<1>4. CASE r = <<1>>
  BY <1>4
<1>5. QED
  BY <1>1, <1>2, <1>3, <1>4 DEF Places

LEMMA CodepointString ==
  ASSUME StringInv, GetCodepoint
  PROVE  StringInv'
<1>1. label = "hex" /\ token_buffer' = token_buffer
  BY DEF GetCodepoint, InString
<1>2. TextInv /\ IsUtf8(token_buffer) /\ rest \in Places
  BY <1>1 DEF StringInv, TextInv, EscapeInv, Inside
<1>3. PICK f, n \in Nat :
        codepoint = <<f, n>> /\ (f = 0 \/ IsHigh(f)) /\ n + 16 * Head(rest) <= 65536
  BY <1>1 DEF StringInv, EscapeInv
<1>4. CASE HexValue(current') = -1
  BY <1>2, <1>4, Failed, OutsideString DEF GetCodepoint
<1>5. CASE HexValue(current') # -1
  <2>1. PICK h \in 0..15 : h = HexValue(current')
    BY <1>5, HexDigits
  <2>2. PICK k \in {4096, 256, 16, 1} : k = Head(rest)
    BY <1>2, PlaceByPlace
  <2>3. /\ codepoint' = <<f, n + h * k>> /\ rest' = Tail(rest) /\ token' = token
        /\ label' = IF rest' = <<>> THEN "codepoint" ELSE "hex"
    <3>1. codepoint' = [codepoint EXCEPT ![2] = @ + h * k]
      BY <1>5, <2>1, <2>2 DEF GetCodepoint
    <3>2. codepoint' = <<f, n + h * k>>
      BY <1>3, <3>1
    <3>3. QED
      BY <1>5, <3>2 DEF GetCodepoint, Goto
  <2>4. n + h * k \in Nat /\ n + h * k + k <= 65536
    <3>1. n + 16 * k <= 65536
      BY <1>3, <2>2
    <3>2. k = 4096 \/ k = 256 \/ k = 16 \/ k = 1
      OBVIOUS
    <3>3. QED
      BY <3>1, <3>2, SMT
  <2>5. CASE k = 1
    <3>1. rest' = <<>> /\ label' = "codepoint"
      BY <1>2, <2>2, <2>3, <2>5, PlaceByPlace
    <3>2. n + h * k < 65536
      BY <2>4, <2>5, SMT
    <3>3. EscapeInv'
      BY <1>3, <2>3, <2>4, <3>1, <3>2 DEF EscapeInv
    <3>4. QED
      BY <1>1, <1>2, <2>3, <3>1, <3>3 DEF StringInv, TextInv, CharacterInv, Inside
  <2>6. CASE k # 1
    <3>1. rest' \in Places /\ rest' # <<>> /\ label' = "hex" /\ 16 * Head(rest') = k
      BY <1>2, <2>2, <2>3, <2>6, PlaceByPlace
    <3>2. n + h * k + 16 * Head(rest') <= 65536
      BY <2>4, <3>1
    <3>3. EscapeInv'
      BY <1>3, <2>3, <2>4, <3>1, <3>2 DEF EscapeInv
    <3>4. QED
      BY <1>1, <1>2, <2>3, <3>1, <3>3 DEF StringInv, TextInv, CharacterInv, Inside
  <2>7. QED
    BY <2>5, <2>6
<1>6. QED
  BY <1>4, <1>5

LEMMA ReadString ==
  ASSUME StringInv, CodepointRead
  PROVE  StringInv'
<1>1. TextInv /\ label = "codepoint" /\ IsUtf8(token_buffer)
  BY DEF StringInv, TextInv, CodepointRead, Inside
<1>2. PICK f, n \in Nat : codepoint = <<f, n>> /\ (f = 0 \/ IsHigh(f)) /\ n < 65536
  BY <1>1 DEF StringInv, EscapeInv
<1>3. codepoint[1] = f /\ codepoint[2] = n
  BY <1>2
<1>4. CASE IsHigh(n) /\ codepoint' = <<n, 0>> /\ Goto("surrogate") /\ UNCHANGED token_buffer
  BY <1>1, <1>4 DEF Goto, StringInv, TextInv, CharacterInv, EscapeInv, Inside
<1>5. CASE ~IsHigh(n) /\ ~IsLow(n) /\ Add(Utf8(n)) /\ Goto("string")
  <2>1. n \in Scalar
    BY <1>2, <1>5, SMT DEF IsHigh, IsLow, Scalar
  <2>2. IsUtf8(token_buffer')
    BY <1>1, <1>5, <2>1, Utf8Closed DEF Add
  <2>3. QED
    BY <1>1, <1>5, <2>2 DEF Goto, StringInv, TextInv, CharacterInv, EscapeInv
<1>6. CASE f # 0 /\ IsLow(n) /\ Add(Utf8(Pair(f, n))) /\ Goto("string")
  <2>1. Pair(f, n) \in Scalar
    BY <1>2, <1>6, Paired
  <2>2. IsUtf8(token_buffer')
    BY <1>1, <1>6, <2>1, Utf8Closed DEF Add
  <2>3. QED
    BY <1>1, <1>6, <2>2 DEF Goto, StringInv, TextInv, CharacterInv, EscapeInv
<1>7. CASE \E m : Fail(m)
  BY <1>1, <1>7, Failed, OutsideString
<1>8. QED
  BY <1>3, <1>4, <1>5, <1>6, <1>7, Zenon DEF CodepointRead

LEMMA SurrogateString ==
  ASSUME StringInv, ScanSurrogate
  PROVE  StringInv'
<1>1. /\ TextInv /\ label \in {"surrogate", "surrogate2"} /\ IsUtf8(token_buffer)
      /\ token_buffer' = token_buffer /\ codepoint' = codepoint
  BY DEF StringInv, TextInv, ScanSurrogate, Inside
<1>2. PICK f \in Nat : codepoint = <<f, 0>> /\ IsHigh(f)
  BY <1>1 DEF StringInv, EscapeInv
<1>3. CASE Goto("surrogate2")
  BY <1>1, <1>2, <1>3 DEF Goto, StringInv, TextInv, CharacterInv, EscapeInv, Inside
<1>4. CASE Goto("hex") /\ rest' = HexPlaces
  <2>1. EscapeInv'
    <3>1. rest' \in Places /\ Head(rest') = 4096
      BY <1>4, SMT DEF Places, HexPlaces
    <3>2. QED
      BY <1>1, <1>2, <1>4, <3>1, SMT DEF EscapeInv, Goto
  <2>2. QED
    BY <1>1, <1>4, <2>1 DEF Goto, StringInv, TextInv, CharacterInv, Inside
<1>5. CASE \E m : Fail(m)
  BY <1>1, <1>5, Failed, OutsideString
<1>6. QED
  BY <1>3, <1>4, <1>5, Zenon DEF ScanSurrogate

\* A string that was read is UTF-8: of characters, none cut off and none of them
\* half a pair, whether its bytes were in the text as they are or were written
\* as escapes (lexer.hpp:232-811).
StringsWellFormed == token[1] = "value_string" => IsUtf8(token[2])

\* What is asserted of code points (lexer.hpp:176, 358).
CodepointsAsserted ==
  label = "codepoint" =>
    LET first == codepoint[1]
        code == codepoint[2] IN
      /\ code \in Nat /\ code <= 65535
      /\ first # 0 /\ IsLow(code) => Pair(first, code) \in Nat /\ Pair(first, code) <= 1114111

\* The strings of the values parse builds, and the names of their members, are
\* UTF-8 whatever the bytes of the text; dump throws at any other
\* (serializer.hpp:416-424, 518).  And the assertions of scan_string hold.
THEOREM LexerStrings == LexerSpec => [](StringsWellFormed /\ CodepointsAsserted)
<1>1. LexerInit => StringInv
  <2> SUFFICES ASSUME NEW t \in Seq(Byte), Start(t) PROVE StringInv
    BY DEF LexerInit
  <2>1. label = "bom" /\ token = <<"uninitialized">>
    BY DEF Start
  <2>2. QED
    BY <2>1 DEF StringInv, TextInv, CharacterInv, EscapeInv, Inside
<1>2. StringInv /\ ReadInv' /\ [LexerNext]_lexer => StringInv'
  <2> SUFFICES ASSUME StringInv, ReadInv', [LexerNext]_lexer PROVE StringInv'
    OBVIOUS
  <2>1. CASE ScanStep
    <3>1. TextInv
      BY DEF StringInv
    <3>2. QED
      BY <2>1, <3>1, OutsideSteps, OutsideString, DispatchString, StringString, NextByteString, EscapeString,
         CodepointString, ReadString, SurrogateString DEF ScanStep
  <2>2. CASE label = "idle" /\ Scan
    BY <2>2, OutsideSteps, OutsideString DEF StringInv
  <2>3. CASE UNCHANGED lexer
    BY <2>3 DEF lexer, StringInv, TextInv, CharacterInv, EscapeInv
  <2>4. QED
    BY <2>1, <2>2, <2>3 DEF LexerNext
<1>3. StringInv => StringsWellFormed
  BY DEF StringInv, TextInv, StringsWellFormed
<1>4. StringInv => CodepointsAsserted
  <2> SUFFICES ASSUME StringInv, label = "codepoint"
               PROVE  /\ codepoint[2] \in Nat /\ codepoint[2] <= 65535
                      /\ codepoint[1] # 0 /\ IsLow(codepoint[2]) =>
                           /\ Pair(codepoint[1], codepoint[2]) \in Nat
                           /\ Pair(codepoint[1], codepoint[2]) <= 1114111
    BY DEF CodepointsAsserted
  <2>1. PICK f, n \in Nat : codepoint = <<f, n>> /\ (f = 0 \/ IsHigh(f)) /\ n < 65536
    BY DEF StringInv, EscapeInv
  <2>2. codepoint[1] = f /\ codepoint[2] = n
    BY <2>1
  <2>3. f # 0 /\ IsLow(n) => Pair(f, n) \in Scalar
    BY <2>1, Paired
  <2>4. n <= 65535
    BY <2>1, SMT
  <2>5. QED
    BY <2>2, <2>3, <2>4 DEF Scalar
<1>5. QED
  BY <1>1, <1>2, <1>3, <1>4, ReadInvariance, PTL DEF LexerSpec
=============================================================================
