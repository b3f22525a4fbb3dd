------------------------------ MODULE MCPicture ------------------------------
(***************************************************************************)
(* Every picture of at most MaxLen bytes out of the newline and NumBytes   *)
(* others, up to the names of these: they first occur in increasing order. *)
(***************************************************************************)
EXTENDS ImageTrip, FiniteSetsExt

CONSTANTS MaxLen, NumBytes

MCNewline == 10
MCBytes == {MCNewline} \cup 20..(19 + NumBytes)

InOrderOfBytes(s) ==
  \A k \in DOMAIN s : s[k] # MCNewline =>
    \A b \in 20..(s[k] - 1) : \E j \in 1..(k - 1) : s[j] = b

MCPictures ==
  {s \in UNION {[1..n -> MCBytes] : n \in 0..MaxLen} : InOrderOfBytes(s)}

-----------------------------------------------------------------------------
\* The least weight of a full binary tree over leaves with these weights: the
\* best of all choices of two to put under one node.
RECURSIVE LeastCost(_)
LeastCost(w) ==
  IF Len(w) <= 1 THEN 0
  ELSE Min({w[k] + w[l] + LeastCost(Append(RemoveAt(RemoveAt(w, l), k), w[k] + w[l])) :
              <<k, l>> \in {p \in (1..Len(w)) \X (1..Len(w)) : p[1] < p[2]}})

Counted(b) == Times(CHOOSE k \in DOMAIN digits : digits[k] = b /\ ~Found(k))

\* The bits that all codes together take, each as often as it was counted.
Cost == FoldSet(LAMBDA b, c : c + Len(codes[b]) * Counted(b), 0, Used)

\* The codes are a prefix code of the picture's bytes, and no other is shorter
\* for the counted occurrences, although new nodes are added at the end of the
\* list and a list of two is not sorted.
Optimal ==
  /\ PrefixFree
  /\ pc = "encode" /\ i = 1 =>
       Cost = LeastCost(FoldSet(LAMBDA b, w : Append(w, Counted(b)), <<>>, Used))
=============================================================================
