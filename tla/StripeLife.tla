----------------------------- MODULE StripeLife -----------------------------
(***************************************************************************)
(* One stripe over its life: an image is stored as four fragment files,    *)
(* one of them is lost with its disk, XORrecovery writes it again from the *)
(* other three, and so on for as long as the array runs.  At most one      *)
(* fragment is missing at a time (RaidController has the other cases); all *)
(* the arithmetic is that of Striping.                                     *)
(***************************************************************************)
EXTENDS Striping

CONSTANT Codigotes    \* the encoded images that may be stored

ASSUME CodigotesAssumption == Codigotes \subseteq Codigote

VARIABLES
  codigote,           \* the encoded image that was stored last
  files               \* fragment number -> file, for the files that exist

vars == <<codigote, files>>

FragNumbs == 1..4

\* imageDecomposer stores an encoded image over the old one.
Store(c) ==
  /\ codigote' = c
  /\ files' = StoredFrags(c)

\* The disk of fragment k is lost.
Lose(k) ==
  /\ DOMAIN files = FragNumbs
  /\ files' = [j \in FragNumbs \ {k} |-> files[j]]
  /\ UNCHANGED codigote

\* repair calls XORrecovery for the fragment of the lost disk; the size line
\* comes from the Info file of the next disk, which holds TotalSize.
Recover(k) ==
  /\ k \in FragNumbs \ DOMAIN files
  /\ files' = [j \in DOMAIN files \cup {k} |->
                 IF j = k THEN XORrecovery(files, k, Len(codigote))
                          ELSE files[j]]
  /\ UNCHANGED codigote

Init ==
  /\ codigote \in Codigotes
  /\ files = StoredFrags(codigote)

Next ==
  \/ \E c \in Codigotes : Store(c)
  \/ \E k \in FragNumbs : Lose(k)
  \/ \E k \in FragNumbs : Recover(k)

Spec == Init /\ [][Next]_vars

-----------------------------------------------------------------------------
\* Every fragment file that exists, recovered or not, is the file diskWriter
\* stored: the padding, the size lines and the parity survive any number of
\* losses, whatever the length of the codigote modulo three.
FilesExact == \A k \in DOMAIN files : files[k] = StoredFrags(codigote)[k]

\* Whenever the three data fragments exist, merge joins exactly the bits that
\* imageDecomposer cut: none of the padding is read, no bit is dropped.
ReadsBack == 1..3 \subseteq DOMAIN files => merge(files) = codigote
=============================================================================
