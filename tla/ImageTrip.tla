------------------------------ MODULE ImageTrip ------------------------------
(***************************************************************************)
(* A picture through the compressor and the stripe together: what          *)
(* compress encodes is cut and stored as four fragment files, one of them  *)
(* is lost and recovered from the others, merge joins the bits again, and  *)
(* decompress decodes them with the tree read back from the tree file.     *)
(* Source: imageDecomposer, XORrecovery, merge and getImage in             *)
(* RAID/RAID_Controller.cpp, over HuffmanCode and Striping.                *)
(***************************************************************************)
EXTENDS HuffmanCode

Stripe == INSTANCE Striping

VARIABLES
  files,        \* fragment number -> file, for the files that exist
  read          \* whether merge has read them

tripVars == <<vars, files, read>>

FragNumbs == 1..4

TripInit == Init /\ files = <<>> /\ read = FALSE

\* compress returns; diskWriter writes the fragments, then the tree file.
Store ==
  /\ EndEncode
  /\ files' = Stripe!StoredFrags(codigote)
  /\ UNCHANGED read

\* While nothing reads the picture, the disk of a fragment is lost.
Lose(k) ==
  /\ pc = "read" /\ i = 1 /\ ~read
  /\ DOMAIN files = FragNumbs
  /\ files' = [j \in FragNumbs \ {k} |-> files[j]]
  /\ UNCHANGED <<vars, read>>

\* repair; the total size comes from the Info file of another disk.
Recover(k) ==
  /\ k \in FragNumbs \ DOMAIN files /\ files # <<>>
  /\ files' = [j \in FragNumbs |->
                 IF j = k THEN Stripe!XORrecovery(files, k, Len(codigote)) ELSE files[j]]
  /\ UNCHANGED <<vars, read>>

\* merge, before treeReconstructor: from here on codigote is what was read.
Merge ==
  /\ pc = "read" /\ i = 1 /\ ~read /\ DOMAIN files = FragNumbs
  /\ codigote' = Stripe!merge(files)
  /\ read' = TRUE
  /\ UNCHANGED <<pc, digits, i, building, tree, todo, codes, reading, files>>

OtherSteps ==
  \/ Compress
  \/ backTrackCoder \/ EndCodify \/ EncodeByte
  \/ WriteLine \/ EndWrite
  \/ read /\ ReadLine
  \/ Decompress

TripNext ==
  \/ OtherSteps /\ UNCHANGED <<files, read>>
  \/ Store
  \/ \E k \in FragNumbs : Lose(k) \/ Recover(k)
  \/ Merge

\* One thread at work; a lost fragment is recovered, and merge, asked for again
\* and again, finds all of them at last.
TripSpec ==
  /\ TripInit /\ [][TripNext]_tripVars
  /\ WF_tripVars(OtherSteps /\ UNCHANGED <<files, read>>) /\ WF_tripVars(Store)
  /\ WF_tripVars(\E k \in FragNumbs : Recover(k)) /\ SF_tripVars(Merge)

-----------------------------------------------------------------------------
\* What getImage answers is the picture that was stored, byte for byte, for
\* every length of its encoding modulo three and whichever fragments were lost
\* and recovered: padding and size lines leave no bit more or less, and
\* decoding follows no null pointer and uses the tree that was written.  (One repeated byte comes back empty, and
\* a picture without bytes cannot be stored: RoundTrip, DiesOnlyEmpty.)
EndToEnd == SameTree /\ RoundTrip /\ DiesOnlyEmpty
=============================================================================
