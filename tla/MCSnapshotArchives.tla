------------------------- MODULE MCSnapshotArchives -------------------------
(* Instances of SnapshotArchives for TLC. *)
EXTENDS SnapshotArchives, TLC

CONSTANTS p, q, timer, request

MCPages == {p, q}
MCThreads == {timer, request}
MCOne == {timer}
MCSymmetry == Permutations(MCPages) \cup Permutations(MCThreads)
=============================================================================
