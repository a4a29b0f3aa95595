----------------------------- MODULE MCLRUShard -----------------------------
(* Instances of LRUShard for TLC. *)
EXTENDS LRUShard, TLC

CONSTANTS a, b, c, text

MCKeys == {a, b, c}
MCTexts == {text}
MCTTLs == {1}
KeySymmetry == Permutations(MCKeys)
=============================================================================
