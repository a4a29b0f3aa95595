--------------------------- MODULE MCReplication ---------------------------
(* Instances of Replication for TLC. *)
EXTENDS Replication

CONSTANTS a, b, f

OneKey  == {a}
TwoKeys == {a, b}
MCFollowers == {f}
=============================================================================
