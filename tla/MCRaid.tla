------------------------------- MODULE MCRaid -------------------------------
(* Small instances of RaidController, and of RaidStore which extends it. *)
EXTENDS RaidStore

InOrder == [n \in Names |-> n]
Reversed == [n \in Names |-> NumNames + 1 - n]

NoHits == {<<n, n>> : n \in Names}
OneHit == NoHits \cup {<<1, 2>>}
=============================================================================
