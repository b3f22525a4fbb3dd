---------------------------- MODULE MCStripeLife ----------------------------
(***************************************************************************)
(* The fragment files in two respects: what is in them (StripeLife), for   *)
(* every codigote of at most MaxBits bits, and what they are called        *)
(* (FileNames).  A behaviour is about one of the two; the variables of the *)
(* other stay as they are at the start.                                    *)
(***************************************************************************)
EXTENDS StripeLife

CONSTANTS
  MaxBits,
  Words, Endings, Images, MaxCalls     \* of FileNames

VARIABLES
  respect,      \* what the behaviour is about
  disk, column, c_disk, started, calls

BitStrings == UNION {[1..n -> Bit] : n \in 0..MaxBits}

\* "ba" ends with "a"; "imgPart" ends with a word of the program's own, and
\* one of these with "t".
TheWords == {"a", "ba", "t", "imgPart", "jpg"}
TheEndings ==
  {<<w, w>> : w \in TheWords \cup {"Part", "Parity", "Info", "ImgPt", "1", "2", "3", "txt"}}
    \cup {<<"a", "ba">>, <<"Part", "imgPart">>}
    \cup {<<"t", "imgPart">>, <<"t", "Part">>, <<"t", "ImgPt">>, <<"t", "txt">>}
\* a.jpg, ba.jpg, t.jpg, imgPart.jpg, a_ba.jpg, ba_a_a.jpg and a.ba.jpg.
TheImages ==
  {<< <<"a">>, <<"jpg">> >>, << <<"ba">>, <<"jpg">> >>, << <<"t">>, <<"jpg">> >>,
   << <<"imgPart">>, <<"jpg">> >>,
   << <<"a", "ba">>, <<"jpg">> >>, << <<"ba", "a", "a">>, <<"jpg">> >>,
   << <<"a">>, <<"ba">>, <<"jpg">> >>}

Names == INSTANCE FileNames

\* A path has a name, of a word at least, and an extension.
ASSUME ImagesAssumption ==
  \A img \in Images : /\ img \in Seq(Seq(Words)) /\ Len(img) >= 2
                      /\ img[1] # <<>>

\* A word ends with itself, and one the program adds with no other of these.
ASSUME EndingsAssumption ==
  /\ \A w \in Names!AllWords : <<w, w>> \in Endings
  /\ \A v, w \in Names!OwnWords : <<v, w>> \in Endings => v = w

names == <<disk, column, c_disk, started, calls>>

MCInit ==
  /\ respect \in {"content", "names"}
  /\ Init /\ (respect = "names" => codigote = <<>>)
  /\ Names!Init

MCNext ==
  \/ respect = "content" /\ Next /\ UNCHANGED <<respect, names>>
  \/ respect = "names" /\ Names!Next /\ UNCHANGED <<respect, vars>>

MCSpec == MCInit /\ [][MCNext]_<<respect, vars, names>>

-----------------------------------------------------------------------------
\* Of an image whose name has no underscore a file name says the same at every
\* restart as when it was written (RAID_Controller.cpp:450-496 against 139-198).
ReadAsWritten == Names!ReadAsWritten

\* The constructor throws (RAID_Controller.cpp:474) only when some image has a
\* name with one underscore.
ThrowsForUnderscore == Names!ThrowsForUnderscore

\* merge finds of a harmless name exactly its three data fragments
\* (RAID_Controller.cpp:662-693).
ReadsItsParts == Names!ReadsItsParts

\* A restart forgets only files of names with two underscores or more
\* (RAID_Controller.cpp:465-490).
RestartKeeps == Names!RestartKeeps
=============================================================================
