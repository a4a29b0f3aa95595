----------------------------- MODULE MCObservers ----------------------------
(* Instances of Observers for TLC. *)
EXTENDS Observers

CONSTANTS k1, k2

MCKeys == {k1, k2}
\* The keys collide in row 1 and not in row 2.
MCHash == <<[key \in MCKeys |-> 0], [key \in MCKeys |-> IF key = k1 THEN 1 ELSE 0]>>
\* The observers share nothing: each is on in behaviours of its own.
MCEnabling == {{"hitters"}, {"windows"}, {"ttl"}, {"limiter"}}
MCPolicies == {<<1, 1>>, <<1, 2>>, <<2, 1>>}
=============================================================================
