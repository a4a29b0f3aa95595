----------------------------- MODULE MCLFUShard -----------------------------
(* Instances of LFUShard for TLC. *)
EXTENDS LFUShard, TLC

CONSTANTS a, b, c, number, text

MCKeys == {a, b, c}
MCVal == {number, text}
MCNumbers == {number}
MCTTLs == {0, 1}
KeySymmetry == Permutations(MCKeys)
=============================================================================
