----------------------------- MODULE MCReadPath -----------------------------
(* Instances of ReadPath for TLC. *)
EXTENDS ReadPath, TLC

CONSTANTS r1, r2, w1, write, evict

MCReaders == {r1, r2}
MCWorkers == {w1}
=============================================================================
