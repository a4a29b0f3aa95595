---------------------------- MODULE ShardedStore ----------------------------
(***************************************************************************)
(* ShardedKeyValueStore (pxkv/core/sharded.py) as a collection of shards:  *)
(* routing, the two scans, which hold the locks of several shards at once, *)
(* the membership of the vector index, purging, resharding, and a restart  *)
(* with a snapshot or from the log.                                        *)
(*                                                                         *)
(* Keys are numbers in the order of the strings; values, prefixes and the  *)
(* geometry of the vectors are left out.  Writes take the write lock, then *)
(* the lock of one shard: each is one step, at a time both are free.       *)
(***************************************************************************)
EXTENDS Naturals, FiniteSets, FiniteSetsExt

CONSTANTS
  Keys,        \* a set of positive numbers
  Counts,      \* the numbers of shards the store may run with
  Ring,        \* [Counts -> [Keys -> Nat]]: _idx, the ring of each number of shards
  Scanners,    \* clients, each with one scan in pages
  Limit,       \* keys in a page
  None,
  MaxChanges   \* bound on the calls that are not scans, restarts included

VARIABLES
  n,        \* len(self._shards)
  num,      \* _num, which reshard compares and sets
  placed,   \* the keys in each shard
  lapsed,   \* those in each whose deadline has passed, and that are still there
  vecs,     \* the keys in the vector index
  lock,     \* the scanner that holds each shard's lock
  pc,       \* where each scanner stands
  cursor,   \* its cursor: the number of shards, and the position in each
  heap,     \* the shards whose iterator had a key
  next,     \* the shard it opens next
  up,       \* the handler of POST /vector/upsert: its key, None outside
  exists,   \* what it found before it began
  at,       \* its step
  look,     \* vector_get or vector_search: the key it has from the index
  missed,   \* has the shard said KeyError?
  purging,  \* the shard purge_expired is at, None outside; it holds the write lock
  got,      \* a history, per scan: the keys returned, and those returned twice
  must, may,   \* a history: the keys there all the time, at some time of the scan
  keyed,    \* a history: the keys whose upsert ended with a vector, not revoked since
  raced,    \* a history: those that a reader dropped
  moved,    \* a history: snapshots were loaded across numbers of shards
  changes

scans == <<lock, pc, cursor, heap, next>>
upserts == <<up, exists, at>>
looks == <<look, missed>>
vars == <<n, num, placed, lapsed, vecs, scans, upserts, looks, purging,
          got, must, may, keyed, raced, moved, changes>>

Shards == 0..(n - 1)
Largest == UNION {0..(c - 1) : c \in Counts}

ASSUME ShardedStoreAssumption ==
  /\ Keys \subseteq Nat \ {0} /\ IsFiniteSet(Keys)
  /\ Counts \subseteq Nat \ {0} /\ Counts # {} /\ IsFiniteSet(Counts)
  /\ \A c \in Counts : Ring[c] \in [Keys -> 0..(c - 1)]
  /\ Limit \in Nat \ {0} /\ MaxChanges \in Nat
  /\ None \notin Scanners \cup Keys \cup Nat

-----------------------------------------------------------------------------
Idx(k) == Ring[n][k]
Live(s) == placed[s] \ lapsed[s]
Readable(k) == k \in Live(Idx(k))
Present == UNION {Live(s) : s \in Largest}
Lapsed == UNION {lapsed[s] : s \in Largest}
Running(p) == pc[p] = "open"

\* The keys K appear; or are gone from every reader.
Appear(K) ==
  /\ may' = [p \in Scanners |-> IF Running(p) THEN may[p] \cup K ELSE may[p]]
  /\ UNCHANGED must
Vanish(K) ==
  /\ must' = [p \in Scanners |-> IF Running(p) THEN must[p] \ K ELSE must[p]]
  /\ UNCHANGED may

Init ==
  /\ n \in Counts /\ num = n
  /\ \E K \in SUBSET Keys : placed = [s \in Largest |-> {k \in K : Idx(k) = s}]
  /\ lapsed = [s \in Largest |-> {}] /\ vecs = {}
  /\ lock = [s \in Largest |-> None]
  /\ pc = [p \in Scanners |-> "idle"]
  /\ cursor = [p \in Scanners |-> [of |-> n, pos |-> [s \in Largest |-> 0], plain |-> FALSE, again |-> FALSE]]
  /\ heap = [p \in Scanners |-> {}] /\ next = [p \in Scanners |-> 0]
  /\ up = None /\ exists = FALSE /\ at = "idle" /\ look = None /\ missed = FALSE
  /\ purging = None
  /\ got = [p \in Scanners |-> [once |-> {}, twice |-> {}]]
  /\ must = [p \in Scanners |-> {}] /\ may = [p \in Scanners |-> {}]
  /\ keyed = {} /\ raced = {} /\ moved = FALSE /\ changes = 0

-----------------------------------------------------------------------------
(* scan and scan_with_cursor: a page.  An iterator takes the lock of its    *)
(* shard at its first key, and keeps it until it is exhausted or dropped.   *)

\* A scan begins with no cursor.
Begin(p) ==
  /\ pc[p] = "idle"
  /\ pc' = [pc EXCEPT ![p] = "open"]
  /\ \E plain \in BOOLEAN :
       cursor' = [cursor EXCEPT ![p] =
                    [of |-> n, pos |-> [s \in Largest |-> 0], plain |-> plain, again |-> FALSE]]
  /\ heap' = [heap EXCEPT ![p] = {}] /\ next' = [next EXCEPT ![p] = 0]
  /\ must' = [must EXCEPT ![p] = Present]
  /\ may' = [may EXCEPT ![p] = Present]
  /\ UNCHANGED <<n, num, placed, lapsed, vecs, lock, upserts, looks, purging, got,
                 keyed, raced, moved, changes>>

\* The iterator's keys: those behind the position.
After(p, s) == {k \in placed[s] : k > cursor[p].pos[s]}

\* Bug: an old cursor's shards are opened from the last.
OpensDownward(p) == IF cursor[p].plain THEN next[p] ELSE (n - 1) - next[p]

\* The shard opened next.
Opens(p) == next[p]

\* Bug: the iterators of deadlines that have passed are not purged first.
OpenedUnpurged(s) == {}

\* iter_string_keys_sorted purges the shard before its first key.
Opened(s) == lapsed[s]

\* next(it) for one more shard.
Open(p) ==
  /\ pc[p] = "open" /\ next[p] < n
  /\ LET s == Opens(p) IN
       /\ lock[s] = None
       /\ placed' = [placed EXCEPT ![s] = @ \ Opened(s)]
       /\ lapsed' = [lapsed EXCEPT ![s] = @ \ Opened(s)]
       /\ LET more == After(p, s) \ Opened(s) # {} IN
            /\ lock' = IF more THEN [lock EXCEPT ![s] = p] ELSE lock
            /\ heap' = IF more THEN [heap EXCEPT ![p] = @ \cup {s}] ELSE heap
  /\ next' = [next EXCEPT ![p] = @ + 1]
  /\ UNCHANGED <<n, num, vecs, pc, cursor, upserts, looks, purging, got, must, may,
                 keyed, raced, moved, changes>>

\* The keys the iterators still hold, each with its shard, and the m that come first.
Held(p) == {x \in Keys \X heap[p] : x[1] \in After(p, x[2])}
Before(x, y) == x[1] < y[1] \/ (x[1] = y[1] /\ x[2] < y[2])
Smallest(S, m) == {x \in S : Cardinality({y \in S : Before(y, x)}) < m}
Names(K) == {x[1] : x \in K}

\* Where each shard's next page begins, once the keys K were returned.
Onward(p, K) ==
  [s \in Largest |->
     LET mine == Names({x \in K : cursor[p].plain \/ x[2] = s})
     IN IF mine = {} THEN cursor[p].pos[s] ELSE Max(mine)]

\* The merge, in the order of the keys, and the end of the iterators.  A plain scan
\* is over when a page is short, one with a cursor when nothing is left; until then
\* the client asks for the next page.
Page(p) ==
  /\ pc[p] = "open" /\ next[p] = n
  /\ LET K == Smallest(Held(p), Limit)
         over == IF cursor[p].plain THEN Cardinality(K) < Limit ELSE K = Held(p)
         pairs == {x \in K : \E y \in K : x[1] = y[1] /\ x # y}
     IN /\ got' = [got EXCEPT ![p] = [once |-> @.once \cup Names(K),
                                      twice |-> @.twice \cup (@.once \cap Names(K))
                                                \cup Names(pairs)]]
        /\ cursor' = [cursor EXCEPT ![p].pos = Onward(p, K)]
        /\ pc' = [pc EXCEPT ![p] = IF over THEN "done" ELSE "open"]
  /\ lock' = [s \in Largest |-> IF lock[s] = p THEN None ELSE lock[s]]
  /\ heap' = [heap EXCEPT ![p] = {}] /\ next' = [next EXCEPT ![p] = 0]
  /\ UNCHANGED <<n, num, placed, lapsed, vecs, upserts, looks, purging, must, may,
                 keyed, raced, moved, changes>>

\* _decode_cursor: a cursor of another number of shards starts again.
Decoded(c, m) ==
  IF c.plain \/ c.of = m
  THEN c ELSE [c EXCEPT !.of = m, !.pos = [s \in Largest |-> 0], !.again = TRUE]

-----------------------------------------------------------------------------
(* What changes the keys.  Writes and purge_expired exclude each other by the *)
(* write lock.                                                                *)

Change == changes < MaxChanges /\ changes' = changes + 1
Writes(k) == purging = None /\ lock[Idx(k)] = None

\* Bug: what the key's earlier life left stays.
CreatedStale(k) ==
  /\ placed' = [placed EXCEPT ![Idx(k)] = @ \cup {k}]
  /\ UNCHANGED lapsed

\* create, in the shard.
Created(k) ==
  /\ placed' = [placed EXCEPT ![Idx(k)] = @ \cup {k}]
  /\ lapsed' = [lapsed EXCEPT ![Idx(k)] = @ \ {k}]

\* The key leaves a shard.
Removed(k, s) ==
  /\ placed' = [placed EXCEPT ![s] = @ \ {k}]
  /\ lapsed' = [lapsed EXCEPT ![s] = @ \ {k}]
  /\ Vanish({k})
  /\ keyed' = keyed \ {k}

Create(k) ==
  /\ Change /\ Writes(k) /\ ~Readable(k)
  /\ Created(k) /\ Appear({k})
  /\ UNCHANGED <<n, num, vecs, scans, upserts, looks, purging, got, keyed, raced, moved>>

Delete(k) ==
  /\ Change /\ Writes(k) /\ Readable(k)
  /\ Removed(k, Idx(k))
  /\ vecs' = vecs \ {k}
  /\ UNCHANGED <<n, num, scans, upserts, looks, purging, got, raced, moved>>

\* _evict_if_needed, or a purge in any call of the shard: the index is not told.
Evict(k, s) ==
  /\ Change /\ lock[s] = None /\ k \in placed[s]
  /\ Removed(k, s)
  /\ UNCHANGED <<n, num, vecs, scans, upserts, looks, purging, got, raced, moved>>

\* A deadline of k passes.
Lapse(k, s) ==
  /\ Change /\ k \in Live(s)
  /\ lapsed' = [lapsed EXCEPT ![s] = @ \cup {k}]
  /\ Vanish({k}) /\ keyed' = keyed \ {k}
  /\ UNCHANGED <<n, num, placed, vecs, scans, upserts, looks, purging, got, raced, moved>>

\* purge_expired, shard by shard.
Purge ==
  /\ purging = None /\ Lapsed # {}
  /\ purging' = 0
  /\ UNCHANGED <<n, num, placed, lapsed, vecs, scans, upserts, looks, got, must, may,
                 keyed, raced, moved, changes>>

\* Here the index is told.
PurgeShard ==
  /\ purging # None /\ lock[purging] = None
  /\ placed' = [placed EXCEPT ![purging] = Live(purging)]
  /\ lapsed' = [lapsed EXCEPT ![purging] = {}]
  /\ vecs' = vecs \ lapsed[purging]
  /\ purging' = IF purging + 1 < n THEN purging + 1 ELSE None
  /\ UNCHANGED <<n, num, scans, upserts, looks, got, must, may, keyed, raced, moved, changes>>

-----------------------------------------------------------------------------
(* Vectors.  The index has no lock of its own: readers use it beside writers. *)

\* POST /vector/upsert finds out whether the key exists,
Upsert(k) ==
  /\ up = None /\ Change /\ lock[Idx(k)] = None
  /\ up' = k /\ exists' = Readable(k) /\ at' = "index"
  /\ UNCHANGED <<n, num, placed, lapsed, vecs, scans, looks, purging, got, must, may,
                 keyed, raced, moved>>

\* has vector_upsert put the vector in the index,
UpsertIndex ==
  /\ at = "index" /\ purging = None
  /\ at' = "store"
  /\ vecs' = vecs \cup {up} /\ raced' = raced \ {up}
  /\ UNCHANGED <<n, num, placed, lapsed, scans, up, exists, looks, purging, got, must,
                 may, keyed, moved, changes>>

\* A copy of k has lapsed in another shard: its purge will take the vector of k.
Strays(k) == \E s \in Largest \ {Idx(k)} : k \in lapsed[s]

\* and updates or creates the key, which may fail by now.
UpsertStore ==
  /\ at = "store" /\ Writes(up)
  /\ IF exists = Readable(up)
     THEN /\ Created(up) /\ Appear({up})
          /\ keyed' = IF Strays(up) THEN keyed ELSE keyed \cup ({up} \cap vecs)
     ELSE UNCHANGED <<placed, lapsed, must, may, keyed>>
  /\ up' = None /\ exists' = FALSE /\ at' = "idle"
  /\ UNCHANGED <<n, num, vecs, scans, looks, purging, got, raced, moved, changes>>

VectorDelete(k) ==
  /\ Change /\ purging = None /\ k \in vecs
  /\ vecs' = vecs \ {k} /\ keyed' = keyed \ {k}
  /\ UNCHANGED <<n, num, placed, lapsed, scans, upserts, looks, purging, got, must, may,
                 raced, moved>>

\* vector_get and vector_search take a key from the index,
Look(k) ==
  /\ Change /\ look = None /\ k \in vecs
  /\ look' = k /\ missed' = FALSE
  /\ UNCHANGED <<n, num, placed, lapsed, vecs, scans, upserts, purging, got, must, may,
                 keyed, raced, moved>>

\* read it in its shard,
LookUp ==
  /\ look # None /\ ~missed /\ lock[Idx(look)] = None
  /\ missed' = ~Readable(look)
  /\ look' = IF Readable(look) THEN None ELSE look
  /\ UNCHANGED <<n, num, placed, lapsed, vecs, scans, upserts, purging, got, must, may,
                 keyed, raced, moved, changes>>

\* and drop the vector of a key that has none, whatever happened since.
LookDrop ==
  /\ missed
  /\ vecs' = vecs \ {look}
  /\ raced' = IF look \in vecs THEN raced \cup {look} ELSE raced
  /\ look' = None /\ missed' = FALSE
  /\ UNCHANGED <<n, num, placed, lapsed, scans, upserts, purging, got, must, may,
                 keyed, moved, changes>>

-----------------------------------------------------------------------------
(* Other numbers of shards. *)

\* Bug: the new ring comes first.
ReshardRing(c) ==
  /\ Change /\ purging = None /\ c # num /\ \A s \in Shards : lock[s] = None
  /\ num' = c /\ n' = c
  /\ UNCHANGED <<placed, lapsed, vecs, scans, upserts, looks, purging, got, must, may,
                 keyed, raced, moved>>

\* reshard: _num is set, then _vnodes_per_shard is missing, and the call fails; the
\* same call made again finds nothing to do.
Reshard(c) ==
  /\ Change /\ purging = None /\ c # num /\ \A s \in Shards : lock[s] = None
  /\ num' = c
  /\ UNCHANGED <<n, placed, lapsed, vecs, scans, upserts, looks, purging, got, must, may,
                 keyed, raced, moved>>

\* load: by the number of the shard, which a snapshot of another number of shards
\* does not respect.
ByNumber(c) == [s \in Largest |-> IF s < c THEN Live(s) ELSE {}]
\* The replayed log routes every key.
ByRing(c) == [s \in Largest |-> {k \in Present : Ring[c][k] = s}]

\* The process ends and starts with c shards; pages in progress fail, and the
\* clients ask for them again.
Restart(c) ==
  /\ Change
  /\ n' = c /\ num' = c
  /\ \/ placed' = ByRing(c) /\ moved' = moved
     \/ placed' = ByNumber(c) /\ moved' = (moved \/ c # n)
  /\ lapsed' = [s \in Largest |-> {}]
  /\ LET there == UNION {placed'[s] : s \in Largest} IN
       must' = [p \in Scanners |-> IF Running(p) THEN must[p] \cap there ELSE must[p]]
  /\ keyed' = {k \in keyed : k \in placed'[Ring[c][k]]}
  /\ lock' = [s \in Largest |-> None]
  /\ cursor' = [p \in Scanners |-> IF Running(p) THEN Decoded(cursor[p], c) ELSE cursor[p]]
  /\ heap' = [p \in Scanners |-> {}] /\ next' = [p \in Scanners |-> 0]
  /\ up' = None /\ exists' = FALSE /\ at' = "idle"
  /\ look' = None /\ missed' = FALSE /\ purging' = None
  /\ UNCHANGED <<vecs, pc, got, may, raced>>

-----------------------------------------------------------------------------
Paging(p) == Open(p) \/ Page(p)

Next ==
  \/ \E p \in Scanners : Begin(p) \/ Paging(p)
  \/ \E k \in Keys :
       \/ Create(k) \/ Delete(k) \/ \E s \in Shards : Evict(k, s) \/ Lapse(k, s)
       \/ Upsert(k) \/ VectorDelete(k) \/ Look(k)
  \/ Purge \/ PurgeShard
  \/ UpsertIndex \/ UpsertStore \/ LookUp \/ LookDrop
  \/ \E c \in Counts : Reshard(c) \/ Restart(c)

Spec == Init /\ [][Next]_vars

-----------------------------------------------------------------------------
(* Properties. *)

\* The locks are those of the iterators that are open.
TypeOK ==
  /\ n \in Counts /\ num \in Counts
  /\ placed \in [Largest -> SUBSET Keys] /\ \A s \in Largest \ Shards : placed[s] = {}
  /\ \A s \in Largest : lapsed[s] \subseteq placed[s]
  /\ vecs \subseteq Keys
  /\ \A p \in Scanners :
       /\ pc[p] \in {"idle", "open", "done"}
       /\ heap[p] \subseteq 0..(next[p] - 1)
       /\ heap[p] = {s \in Largest : lock[s] = p}
       /\ pc[p] # "open" => heap[p] = {}
  /\ up \in Keys \cup {None} /\ (up = None <=> at = "idle")
  /\ look \in Keys \cup {None} /\ (missed => look # None)
  /\ purging \in Shards \cup {None}
  /\ keyed \subseteq Keys /\ raced \subseteq Keys
  /\ changes \in 0..MaxChanges

\* Every key lies in the shard its reads go to, also after a reshard that failed
\* half-way.  Only a snapshot of another number of shards breaks it.
KeysAreFound ==
  /\ TypeOK
  /\ ~moved => \A s \in Largest : \A k \in placed[s] : Idx(k) = s

\* A scan that is over has returned every key that was there all the time, and none
\* that was at no time; and no key twice, unless its cursor was of another number
\* of shards and started again, or a key lies in a shard it is not read from.
ScansAreExact ==
  \A p \in Scanners :
    pc[p] = "done" =>
      /\ must[p] \subseteq got[p].once
      /\ got[p].once \subseteq may[p]
      /\ got[p].twice # {} => cursor[p].again \/ moved

\* A vector that was there when its upsert ended stays as long as its key, unless it
\* is deleted; but a reader that missed the key before it was stored may drop it.
VectorsKept == keyed \subseteq vecs \cup raced

\* Scans hold the locks of many shards and wait for more, beside writes that hold the
\* write lock and wait for one: whoever waits, one of the holders can go on.
SomeoneGoesOn ==
  (\E s \in Shards : lock[s] # None) =>
    \E p \in Scanners :
      heap[p] # {} /\ (next[p] = n \/ lock[Opens(p)] = None)
=============================================================================
