------------------------------- MODULE Gossip -------------------------------
(***************************************************************************)
(* GossipMembership (pxkv/persistence/gossip.py) of several nodes, and the *)
(* handler of POST /gossip/membership in pxkv/api/server.py: who believes  *)
(* whom alive, beside crashes, restarts and lost requests.                 *)
(*                                                                         *)
(* Time goes in whole units, and only the wait between two rounds and a    *)
(* probe of a node that does not answer take any.  No code ever raises an  *)
(* incarnation: they are all 0, and the branches for a higher one are dead.*)
(***************************************************************************)
EXTENDS Naturals, FiniteSets

CONSTANTS
  Nodes, None,
  Seeds,            \* [Nodes -> SUBSET Nodes]: GOSSIP_SEED_PEERS
  Fanout,           \* how many peers a round probes at most
  Interval,         \* between two rounds
  ProbeTime,        \* the time limit of a probe
  FailureTimeout,   \* failure_timeout
  Settled,          \* how long the properties wait for a change to be known
  MaxFaults         \* bound on the crashes and the lost requests and answers

ASSUME GossipAssumption ==
  /\ IsFiniteSet(Nodes) /\ Seeds \in [Nodes -> SUBSET Nodes]
  /\ Fanout \in Nat \ {0} /\ Interval \in Nat \ {0} /\ ProbeTime \in Nat
  /\ FailureTimeout \in Nat \ {0} /\ Settled \in Nat
  /\ MaxFaults \in Nat

VARIABLES
  up,       \* the nodes that run
  view,     \* peers: for each node, the others it knows
  todo,     \* the peers a node has still to probe in this round
  probe,    \* its probe under way: to whom, the time left, and the answer
  wait,     \* the time left to its next round
  since,    \* a history: the time since each node started or crashed
  calm,     \* a history: the time since a request was lost
  faults

vars == <<up, view, todo, probe, wait, since, calm, faults>>

\* A peer is alive or not, and was last seen some time ago, at most FailureTimeout.
Peer == [alive: BOOLEAN, age: 0..FailureTimeout]
Known(a) == {b \in Nodes : view[a][b] # None}

\* A peer seen now; and one from a payload that a handler did not know, for which
\* update_peer leaves last_seen at 0.
Seen(alive) == [alive |-> alive, age |-> 0]
Unseen == [alive |-> TRUE, age |-> FailureTimeout]

\* initialize_gossip
Started(a) == [b \in Nodes |-> IF b \in Seeds[a] \ {a} THEN Seen(TRUE) ELSE None]
Nobody == [b \in Nodes |-> None]

Init ==
  /\ up = Nodes
  /\ view = [a \in Nodes |-> Started(a)]
  /\ todo = [a \in Nodes |-> {}] /\ probe = [a \in Nodes |-> None]
  /\ wait = [a \in Nodes |-> 0]
  /\ since = [a \in Nodes |-> 0] /\ calm = Settled
  /\ faults = 0

-----------------------------------------------------------------------------
(* A round of _run. *)

\* _get_random_peers
Begin(a) ==
  /\ a \in up /\ todo[a] = {} /\ probe[a] = None /\ wait[a] = 0
  /\ \E S \in SUBSET Known(a) :
       /\ IF Cardinality(Known(a)) <= Fanout THEN S = Known(a) ELSE Cardinality(S) = Fanout
       /\ todo' = [todo EXCEPT ![a] = S]
  /\ wait' = [wait EXCEPT ![a] = Interval]
  /\ UNCHANGED <<up, view, probe, since, calm, faults>>

\* Bug: the sender is taken for any other peer of its list, on which it is not.
HandledUnknown(a, b) ==
  [c \in Nodes |->
     IF c = b \/ view[b][c] # None THEN view[b][c]
     ELSE IF c \in Known(a) THEN Unseen ELSE None]

\* The handler at b of a payload of a: the sender is added, others that are not known
\* become peers without more; of known ones nothing changes.
Handled(a, b) ==
  [c \in Nodes |->
     IF c = b \/ view[b][c] # None THEN view[b][c]
     ELSE IF c = a THEN Seen(TRUE)
     ELSE IF c \in Known(a) THEN Unseen ELSE None]

\* What b answers: whom it knows, and itself.
Answer(w, b) == [c \in {c \in Nodes : w[c] # None} \cup {b} |-> c = b \/ w[c].alive]

Probing(a, b) == a \in up /\ b \in todo[a] /\ probe[a] = None

\* _gossip_with_peer, up to the answer.
Ask(a, b) ==
  /\ Probing(a, b) /\ b \in up
  /\ view' = [view EXCEPT ![b] = Handled(a, b)]
  /\ probe' = [probe EXCEPT ![a] = [to |-> b, left |-> 0, answer |-> Answer(view'[b], b)]]
  /\ UNCHANGED <<up, todo, wait, since, calm, faults>>

\* There is none: b is down, or the request or the answer is lost.
AskInVain(a, b) ==
  /\ Probing(a, b)
  /\ \E t \in 0..ProbeTime :
       probe' = [probe EXCEPT ![a] = [to |-> b, left |-> t, answer |-> None]]
  /\ \/ b \notin up /\ UNCHANGED <<view, faults, calm>>
     \/ /\ b \in up /\ faults < MaxFaults /\ faults' = faults + 1 /\ calm' = 0
        /\ view' \in {view, [view EXCEPT ![b] = Handled(a, b)]}
  /\ UNCHANGED <<up, todo, wait, since>>

\* The answer over what a knows: a new peer is taken over as it is there; a known one
\* has been seen, even if it is dead.
Merged(a, answer) ==
  [c \in Nodes |->
     IF c = a \/ c \notin DOMAIN answer THEN view[a][c]
     ELSE IF view[a][c] = None THEN Seen(answer[c])
     ELSE [view[a][c] EXCEPT !.age = 0]]

\* Bug: a peer that does not answer is left to its time limit.
FailedQuietly(a, b) == view[a]

\* update_peer(b, False) when the probe failed.
Failed(a, b) == [view[a] EXCEPT ![b] = Seen(FALSE)]

\* The rest of _gossip_with_peer, which ends in update_peer for b.
Heard(a) ==
  /\ a \in up /\ probe[a] # None /\ probe[a].left = 0
  /\ LET b == probe[a].to IN
       /\ view' = [view EXCEPT ![a] =
                     IF probe[a].answer = None THEN Failed(a, b)
                     ELSE [Merged(a, probe[a].answer) EXCEPT ![b] = Seen(TRUE)]]
       /\ todo' = [todo EXCEPT ![a] = @ \ {b}]
  /\ probe' = [probe EXCEPT ![a] = None]
  /\ UNCHANGED <<up, wait, since, calm, faults>>

\* get_alive_peers, with which GET /gossip/membership answers: it marks those it has
\* not seen for too long.
Listed(a) == {b \in Known(a) : view[a][b].alive /\ view[a][b].age < FailureTimeout}
Query(a) ==
  /\ a \in up
  /\ view' = [view EXCEPT ![a] =
                [b \in Nodes |-> IF b \in Known(a) \ Listed(a) THEN [@[b] EXCEPT !.alive = FALSE]
                                 ELSE @[b]]]
  /\ UNCHANGED <<up, todo, probe, wait, since, calm, faults>>

-----------------------------------------------------------------------------
Gone(a) ==
  /\ view' = [view EXCEPT ![a] = Nobody]
  /\ todo' = [todo EXCEPT ![a] = {}] /\ probe' = [probe EXCEPT ![a] = None]
  /\ wait' = [wait EXCEPT ![a] = 0]

Crash(a) ==
  /\ a \in up /\ faults < MaxFaults
  /\ up' = up \ {a} /\ faults' = faults + 1
  /\ Gone(a)
  /\ since' = [since EXCEPT ![a] = 0]
  /\ UNCHANGED calm

Restart(a) ==
  /\ a \notin up
  /\ up' = up \cup {a}
  /\ view' = [view EXCEPT ![a] = Started(a)]
  /\ since' = [since EXCEPT ![a] = 0]
  /\ UNCHANGED <<todo, probe, wait, calm, faults>>

Sum(x, most) == IF x < most THEN x + 1 ELSE x
Waits(a) ==
  IF probe[a] # None THEN probe[a].left > 0 ELSE todo[a] = {} /\ wait[a] > 0

\* Time passes when every node waits.
Tick ==
  /\ \A a \in up : Waits(a)
  /\ view' = [a \in Nodes |-> [b \in Nodes |->
                IF view[a][b] = None THEN None
                ELSE [view[a][b] EXCEPT !.age = Sum(@, FailureTimeout)]]]
  /\ probe' = [a \in Nodes |->
                 IF probe[a] = None THEN None ELSE [probe[a] EXCEPT !.left = @ - 1]]
  /\ wait' = [a \in Nodes |-> IF a \in up /\ probe[a] = None THEN wait[a] - 1 ELSE wait[a]]
  /\ since' = [a \in Nodes |-> Sum(since[a], Settled)]
  /\ calm' = Sum(calm, Settled)
  /\ UNCHANGED <<up, todo, faults>>

-----------------------------------------------------------------------------
Running(a) == Begin(a) \/ Heard(a) \/ \E b \in Nodes : Ask(a, b)

Next ==
  \/ \E a \in Nodes : Running(a) \/ Query(a) \/ Crash(a) \/ Restart(a)
  \/ \E a, b \in Nodes : AskInVain(a, b)
  \/ Tick

Spec == Init /\ [][Next]_vars

-----------------------------------------------------------------------------
(* Properties. *)

TypeOK ==
  /\ up \subseteq Nodes
  /\ view \in [Nodes -> [Nodes -> Peer \cup {None}]]
  /\ \A a \in Nodes :
       /\ view[a][a] = None /\ todo[a] \subseteq Known(a)
       /\ probe[a] # None => probe[a].to \in todo[a] /\ probe[a].left \in 0..ProbeTime
       /\ wait[a] \in 0..Interval
       /\ a \notin up => view[a] = Nobody /\ todo[a] = {} /\ probe[a] = None

\* Nothing has changed for a node, or between two, for as long as Settled.
Quiet(a) == since[a] = Settled

\* A node that is down for long is on no list of a node that has been up as long,
\* though others may keep it seen by talking of it.
DownAreDropped ==
  /\ TypeOK
  /\ \A a \in up, d \in Nodes \ up : Quiet(a) /\ Quiet(d) => d \notin Listed(a)

\* Two nodes that are up for long, when no request was lost, are on each other's
\* lists and stay there, when both started with the address of one that is up as long,
\* or one of them with the other's.
Meet(a, b) ==
  \E s \in up : Quiet(s) /\ {a, b} \subseteq {s} \cup {c \in Nodes : s \in Seeds[c]}
UpAreListed ==
  calm = Settled =>
    \A a, b \in up : a # b /\ Quiet(a) /\ Quiet(b) /\ Meet(a, b) => b \in Listed(a)
=============================================================================
