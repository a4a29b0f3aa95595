---------------------------- MODULE MCDurability ----------------------------
(* Instances of Durability for TLC. *)
EXTENDS Durability, TLC

CONSTANT a

MCKeys == {a}
NoTTLs == {}
MCTTLs == {1}
Either == {TRUE, FALSE}
Never  == {FALSE}
Always == {TRUE}

\* Deadlines are set by CREATE alone.
Mixed == {e \in Request : e.op # "mset" /\ (e.ttl # None => e.op = "create")}

\* PUT without counters and batches.
Puts == {e \in Request : e.op \in {"create", "update"}}
=============================================================================
