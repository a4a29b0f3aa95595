------------------------------ MODULE MCGossip ------------------------------
(* Instances of Gossip for TLC. *)
EXTENDS Gossip, TLC

CONSTANTS n1, n2, n3

MCNodes == {n1, n2, n3}
\* Both others start with the address of n1, which knows nobody.
MCSeeds == [a \in MCNodes |-> IF a = n1 THEN {} ELSE {n1}]
MCSymmetry == Permutations({n2, n3})
=============================================================================
