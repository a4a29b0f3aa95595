--------------------------- MODULE MCShardedStore ---------------------------
(* Instances of ShardedStore for TLC. *)
EXTENDS ShardedStore, TLC

CONSTANTS s1, s2

MCScanners == {s1, s2}
\* The keys of the two shards alternate; with one shard all are in it.
MCRing == [c \in 1..2 |-> [k \in Keys |-> k % c]]
=============================================================================
