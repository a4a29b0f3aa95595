---------------------------- MODULE HeavyHitters ----------------------------
(***************************************************************************)
(* TopKHeavyHitters over a CountMinSketch (pxkv/core/heavy_hitters.py):    *)
(* the sketch, the candidates, and the decay that halves both.             *)
(*                                                                         *)
(* A record counts one access, as all callers do.  t is the clock.         *)
(***************************************************************************)
EXTENDS Naturals, FiniteSets, FiniteSetsExt

CONSTANTS
  Keys,
  Rows, Cols,   \* the depth and the width of the sketch, as sets
  Hash,         \* [Rows -> [Keys -> Cols]]: _index
  Interval,     \* _decay_interval_s
  MaxK          \* bound on k

VARIABLES
  cells,     \* _rows
  tracked,   \* _tracked: a function of the candidates
  k,         \* _k
  decayed,   \* _last_decay_ts
  counts,    \* a history: the accesses of each key, halved whenever the sketch is
  left       \* a history: the keys that were no candidates when room was made

hitters == <<cells, tracked, k, decayed, counts, left>>

ASSUME HeavyHittersAssumption ==
  /\ Rows # {} /\ Hash \in [Rows -> [Keys -> Cols]]
  /\ Interval \in Nat /\ MaxK \in Nat \ {0}

-----------------------------------------------------------------------------
Blank == [r \in Rows |-> [c \in Cols |-> 0]]
Candidates == DOMAIN tracked

HittersInit ==
  /\ cells = Blank /\ tracked = [key \in {} |-> 0]
  /\ k \in 1..MaxK /\ decayed = 0
  /\ counts = [key \in Keys |-> 0] /\ left = {}

Half(x) == x \div 2

\* The candidates in S, as they are in f.
Only(f, S) == [key \in DOMAIN f \cap S |-> f[key]]

\* CountMinSketch.estimate.
Estimate(c, key) == Min({c[r][Hash[r][key]] : r \in Rows})

\* Bug: the call returns at its first row.
AddedOnce(c, key) ==
  LET first == CHOOSE r \in Rows : TRUE
  IN [c EXCEPT ![first][Hash[first][key]] = @ + 1]

\* CountMinSketch.add.
Added(c, key) == [r \in Rows |-> [c[r] EXCEPT ![Hash[r][key]] = @ + 1]]

Due(t) == Interval > 0 /\ t >= decayed + Interval

\* _maybe_decay_locked: candidates without a count are dropped.
CellsAfter(t) ==
  IF Due(t) THEN [r \in Rows |-> [c \in Cols |-> Half(cells[r][c])]] ELSE cells
CandidatesAfter(t) ==
  IF Due(t) THEN [key \in {x \in Candidates : Half(tracked[x]) > 0} |-> Half(tracked[key])]
  ELSE tracked
CountsAfter(t) == IF Due(t) THEN [key \in Keys |-> Half(counts[key])] ELSE counts
DecayedAfter(t) == IF Due(t) THEN t ELSE decayed

-----------------------------------------------------------------------------
With(f, key, v) == [x \in DOMAIN f \cup {key} |-> IF x = key THEN v ELSE f[x]]

\* Bug: the last key that was accessed always replaces one.
EntersAlways(f, key, est) ==
  \/ /\ key \in DOMAIN f \/ Cardinality(DOMAIN f) < k
     /\ tracked' = With(f, key, est)
  \/ /\ key \notin DOMAIN f /\ Cardinality(DOMAIN f) >= k
     /\ \E x \in DOMAIN f :
          /\ \A y \in DOMAIN f : f[x] <= f[y]
          /\ tracked' = With(Only(f, DOMAIN f \ {x}), key, est)

\* The key is a candidate already, or finds room, or replaces a least one, if it has
\* more accesses than that.
Enters(f, key, est) ==
  \/ /\ key \in DOMAIN f \/ Cardinality(DOMAIN f) < k
     /\ tracked' = With(f, key, est)
  \/ /\ key \notin DOMAIN f /\ Cardinality(DOMAIN f) >= k
     /\ \E x \in DOMAIN f :
          /\ \A y \in DOMAIN f : f[x] <= f[y]
          /\ tracked' = IF est > f[x] THEN With(Only(f, DOMAIN f \ {x}), key, est) ELSE f

\* record
HittersRecord(key, t) ==
  /\ cells' = Added(CellsAfter(t), key)
  /\ Enters(CandidatesAfter(t), key, Estimate(cells', key))
  /\ counts' = [CountsAfter(t) EXCEPT ![key] = @ + 1]
  /\ decayed' = DecayedAfter(t)
  /\ left' = left \ {key}
  /\ UNCHANGED k

\* top_k refreshes what it lists.
TopK(t) ==
  /\ cells' = CellsAfter(t)
  /\ tracked' = [key \in DOMAIN CandidatesAfter(t) |-> Estimate(cells', key)]
  /\ counts' = CountsAfter(t)
  /\ decayed' = DecayedAfter(t)
  /\ UNCHANGED <<k, left>>

\* forget: the sketch keeps what it has.
HittersForget(key) ==
  /\ tracked' = Only(tracked, Keys \ {key})
  /\ counts' = [counts EXCEPT ![key] = 0]
  /\ left' = IF key \in Candidates THEN left \cup (Keys \ Candidates) ELSE left
  /\ UNCHANGED <<cells, k, decayed>>

\* configure with another k: least candidates leave, one by one.
HittersResize(m) ==
  /\ k' = m
  /\ \E S \in SUBSET Candidates :
       /\ Cardinality(Candidates) <= m => S = Candidates
       /\ Cardinality(Candidates) > m => Cardinality(S) = m
       /\ \A x \in S : \A y \in Candidates \ S : tracked[y] <= tracked[x]
       /\ tracked' = Only(tracked, S)
  /\ left' = IF m > k THEN left \cup (Keys \ Candidates) ELSE left
  /\ UNCHANGED <<cells, decayed, counts>>

\* reset; configure with another width or depth, which makes a new sketch.
HittersReset(t) ==
  /\ cells' = Blank /\ tracked' = [key \in {} |-> 0] /\ decayed' = t
  /\ counts' = [key \in Keys |-> 0] /\ left' = {}
  /\ UNCHANGED k

HittersNext ==
  \/ \E t \in Nat :
       TopK(t) \/ HittersReset(t) \/ \E key \in Keys : HittersRecord(key, t)
  \/ \E key \in Keys : HittersForget(key)
  \/ \E m \in 1..MaxK : HittersResize(m)

HittersSpec == HittersInit /\ [][HittersNext]_hitters

-----------------------------------------------------------------------------
(* Properties. *)

HittersTypeOK ==
  /\ cells \in [Rows -> [Cols -> Nat]]
  /\ Candidates \subseteq Keys /\ tracked \in [Candidates -> Nat]
  /\ k \in 1..MaxK /\ decayed \in Nat
  /\ counts \in [Keys -> Nat] /\ left \subseteq Keys

\* The sketch "may over-count, but never under-counts": no key has been accessed more
\* often since the last decay, and half as often before it, than it estimates; and
\* what a candidate is listed with lies between the two.
NeverUndercounts ==
  /\ \A key \in Keys : counts[key] <= Estimate(cells, key)
  /\ \A key \in Candidates :
       counts[key] <= tracked[key] /\ tracked[key] <= Estimate(cells, key)

\* There are at most k candidates, and no key has more accesses than one of them has
\* listed without being one; a key that was none when one was forgotten, or when k
\* grew, gets there with its next access only.
HeaviestAreListed ==
  /\ Cardinality(Candidates) <= k
  /\ \A key \in Keys \ (Candidates \cup left) :
       \A x \in Candidates : counts[key] <= tracked[x]
=============================================================================
