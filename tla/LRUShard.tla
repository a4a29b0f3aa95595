------------------------------ MODULE LRUShard ------------------------------
(***************************************************************************)
(* One shard of the store under the LRU policy: class LRUKeyValueStore of  *)
(* pxkv/core/lru.py, with the sorted key index of pxkv/core/base.py and    *)
(* the spill-to-disk backend of pxkv/tiering/file.py.                      *)
(*                                                                         *)
(* The shard's lock is held for a whole call, so calls are serial; a call  *)
(* that evicts or loops is several steps here (pc says where it stands),   *)
(* because the eviction loop is a loop of the code and its termination is  *)
(* one of the questions.  Only the clock moves between those steps.        *)
(*                                                                         *)
(* A node object of the doubly linked list is a record; the list itself is *)
(* the sequence of its nodes from head to tail.  "live" says that          *)
(* _map[key] is this very object: a node that is in the list but not in    *)
(* the map is a ghost.  xmeta, etags and the string form of keys are left  *)
(* out.                                                                    *)
(***************************************************************************)
EXTENDS Naturals, Sequences, FiniteSets

CONSTANTS
  Keys,         \* the keys routed to this shard
  Texts,        \* values INCR refuses
  MaxNum,       \* numeric values are 0..MaxNum (bounds INCR)
  None,         \* Python's None: no deadline, no copy, no value
  TTLs,         \* the time-to-live values clients pass
  MaxTime,      \* bound on the clock
  Limit,        \* max_size; 0 is "unbounded", as the code's truth test has it
  HasTier,      \* is a tiering backend configured?
  TierMayFail,  \* may its calls raise (the exceptions are swallowed)?
  Hints,        \* are cold-key eviction hints enabled?
  ScanN,        \* how many list nodes the hints look at
  MaxGhosts     \* bound on the ghost nodes the administrative calls leave

Val  == (0..MaxNum) \cup Texts
Node == [key: Keys, val: Val, live: BOOLEAN]
Copy == [val: Val, exp: Nat \cup {None}]    \* a spilled entry and its deadline
Deadline == Nat \cup {None}
Mem  == [map: SUBSET Keys, order: Seq(Node), ttl: [Keys -> Deadline],
         skeys: SUBSET Keys, newer: [Keys -> SUBSET Keys]]

ASSUME LRUAssumption ==
  /\ MaxNum \in Nat /\ MaxTime \in Nat /\ Limit \in Nat /\ MaxGhosts \in Nat
  /\ ScanN \in Nat \ {0}          \* max(1, int(scan_candidates))
  /\ TTLs \subseteq Nat
  /\ Texts \cap 0..MaxNum = {}
  /\ None \notin Nat \cup Texts \cup Node \cup Copy
  /\ HasTier \in BOOLEAN /\ TierMayFail \in BOOLEAN /\ Hints \in BOOLEAN

VARIABLES
  mem,    \* the shard's memory: _map's keys, the list, _ttl, _skeys; newer[k] is
          \* a history: the keys used after the last use of k
  tier,   \* what the backend holds for each key
  now,    \* time.time()
  pc,     \* where the call that holds the lock stands; "idle": lock free
  cont,   \* what follows the eviction loop: the caller of _evict_if_needed
  node,   \* the local variable node of a call that promoted or patches
  rest,   \* keys a batch call still has to handle
  reply   \* what the last read or INCR returned for which key

vars == <<mem, tier, now, pc, cont, node, rest, reply>>

-----------------------------------------------------------------------------
(* The linked list and the maps. *)

\* The i-th smallest member of a finite set of numbers.
Nth(I, j) == CHOOSE i \in I : Cardinality({x \in I : x <= i}) = j

\* The subsequence of s at the positions in I.
Pick(s, I) == [j \in 1..Cardinality(I) |-> s[Nth(I, j)]]

\* Positions of the nodes _map refers to for the keys in K.
LiveAt(m, K) ==
  {i \in DOMAIN m.order : m.order[i].live /\ m.order[i].key \in K}

\* _remove of those nodes.
Unlinked(m, K) == Pick(m.order, DOMAIN m.order \ LiveAt(m, K))

NodeOf(m, k) == m.order[CHOOSE i \in LiveAt(m, {k}) : TRUE]

Used(m, k) ==
  [j \in Keys |-> IF j \in m.map \ {k} THEN m.newer[j] \cup {k} ELSE {}]

\* Bug: _delete without _ttl.pop.
DeletedKeepingDeadline(m, K) ==
  [m EXCEPT !.map   = @ \ K,
            !.order = Unlinked(m, K),
            !.skeys = @ \ K,
            !.newer = [k \in Keys |->
                         IF k \in K THEN {} ELSE m.newer[k] \ K]]

\* _delete of every key in K.
Deleted(m, K) ==
  [m EXCEPT !.map   = @ \ K,
            !.order = Unlinked(m, K),
            !.ttl   = [k \in Keys |-> IF k \in K THEN None ELSE m.ttl[k]],
            !.skeys = @ \ K,
            !.newer = [k \in Keys |->
                         IF k \in K THEN {} ELSE m.newer[k] \ K]]

\* A deadline that is over.
Passed(e) == e # None /\ e <= now

Expired(m) == {k \in Keys : Passed(m.ttl[k])}

\* _purge_expired.
Purged(m) == Deleted(m, Expired(m))

\* A new node for k: into _map, at the tail of the list, into the index.
Inserted(m, k, v, e) ==
  [m EXCEPT !.map   = @ \cup {k},
            !.order = Append(@, [key |-> k, val |-> v, live |-> TRUE]),
            !.ttl   = [@ EXCEPT ![k] = e],
            !.skeys = @ \cup {k},
            !.newer = Used(m, k)]

\* Bug: a hit that does not move the node.
MovedInPlace(m, n) ==
  [m EXCEPT !.order = [i \in DOMAIN @ |-> IF @[i].key = n.key THEN n ELSE @[i]],
            !.newer = Used(m, n.key)]

\* node.value = n.val; _move_to_tail(node).  When the node has meanwhile left
\* the list, _remove does nothing and _append links it in again: a ghost.
Moved(m, n) ==
  IF n.key \in m.map
  THEN [m EXCEPT !.order = Append(Unlinked(m, {n.key}), n),
                 !.newer = Used(m, n.key)]
  ELSE [m EXCEPT !.order = Append(@, [n EXCEPT !.live = FALSE])]

WithTTL(m, k, t) ==
  IF t = None THEN m ELSE [m EXCEPT !.ttl = [@ EXCEPT ![k] = now + t]]

\* Bug: the wrong sign.
DeadlineBehind(t) == IF t = None THEN None ELSE now - t

DeadlineOf(t) == IF t = None THEN None ELSE now + t

-----------------------------------------------------------------------------
(* The tiering backend; a call that raises leaves it as it was. *)

OrFails(new) == {new} \cup (IF TierMayFail THEN {tier} ELSE {})

TierDelete(k) ==
  IF HasTier THEN OrFails([tier EXCEPT ![k] = None]) ELSE {tier}

\* put, skipped when no time is left to live.
TierPut(n, e) ==
  IF HasTier /\ ~Passed(e)
  THEN OrFails([tier EXCEPT ![n.key] = [val |-> n.val, exp |-> e]])
  ELSE {tier}

TierFresh(k) == tier[k] # None /\ ~Passed(tier[k].exp)

\* A get that returns nothing: the call raised, or there is no copy, or the copy
\* has expired, which removes it.
TierMiss(k) ==
  IF TierFresh(k)
  THEN IF TierMayFail THEN {tier} ELSE {}
  ELSE OrFails([tier EXCEPT ![k] = None])

-----------------------------------------------------------------------------
TypeOK ==
  /\ mem \in Mem
  /\ tier \in [Keys -> Copy \cup {None}]
  /\ now \in Nat
  /\ pc \in {"idle", "mset", "read", "patch", "evict"}
  /\ cont \in {"return", "read", "patch"}
  /\ node \in Node \cup {None}
  /\ rest \subseteq Keys
  /\ reply \in [key: Keys, val: Val \cup {None}] \cup {None}

Init ==
  /\ mem = [map |-> {}, order |-> <<>>, ttl |-> [k \in Keys |-> None],
            skeys |-> {}, newer |-> [k \in Keys |-> {}]]
  /\ tier = [k \in Keys |-> None]
  /\ now = 0
  /\ pc = "idle" /\ cont = "return" /\ node = None /\ rest = {}
  /\ reply = None

Tick ==
  /\ now < MaxTime
  /\ now' = now + 1
  /\ UNCHANGED <<mem, tier, pc, cont, node, rest, reply>>

\* The call leaves by an exception, having done no more than purge.
Raises ==
  /\ mem' = Purged(mem)
  /\ reply' = None
  /\ UNCHANGED <<tier, now, pc, cont, node, rest>>

\* The tail of every write: _evict_if_needed, then return.
WriteDone ==
  /\ pc' = "evict" /\ cont' = "return" /\ node' = None /\ rest' = {}
  /\ UNCHANGED now

Create(k, v, t) ==
  /\ pc = "idle"
  /\ LET m == Purged(mem) IN
       \/ k \in m.map /\ Raises
       \/ /\ k \notin m.map
          /\ tier' \in TierDelete(k)
          /\ mem' = Inserted(m, k, v, DeadlineOf(t))
          /\ reply' = None
          /\ WriteDone

Update(k, v, t) ==
  /\ pc = "idle"
  /\ LET m == Purged(mem) IN
       \/ k \notin m.map /\ Raises
       \/ /\ k \in m.map
          /\ tier' \in TierDelete(k)
          /\ mem' = WithTTL(Moved(m, [key |-> k, val |-> v, live |-> TRUE]), k, t)
          /\ reply' = None
          /\ WriteDone

\* incr by 1.  The tier's copy is dropped before anything is known of the key,
\* so a spilled counter starts again from 0.
Incr(k, t) ==
  /\ pc = "idle"
  /\ tier' \in TierDelete(k)
  /\ LET m == Purged(mem)
         resident == k \in m.map
         current == IF resident THEN NodeOf(m, k).val ELSE 0
         new == [key |-> k, val |-> current + 1, live |-> TRUE]
     IN \/ /\ current \in Texts
           /\ mem' = m
           /\ reply' = None
           /\ UNCHANGED <<now, pc, cont, node, rest>>
        \/ /\ current \in 0..(MaxNum - 1)
           /\ mem' = WithTTL(IF resident THEN Moved(m, new)
                             ELSE Inserted(m, k, new.val, None), k, t)
           /\ reply' = [key |-> k, val |-> new.val]
           /\ WriteDone

\* delete does not purge: an expired key that is still in the map is deleted
\* with success, and a spilled one is refused.
Delete(k) ==
  /\ pc = "idle"
  /\ k \in mem.map
  /\ mem' = Deleted(mem, {k})
  /\ tier' \in TierDelete(k)
  /\ reply' = None
  /\ UNCHANGED <<now, pc, cont, node, rest>>

Persist(k) ==
  /\ pc = "idle"
  /\ LET m == Purged(mem) IN
       \/ k \notin m.map /\ Raises
       \/ /\ k \in m.map
          /\ mem' = [m EXCEPT !.ttl = [@ EXCEPT ![k] = None]]
          /\ reply' = None
          /\ UNCHANGED <<tier, now, pc, cont, node, rest>>

\* purge_expired, purge_expired_keys, keys, get_ttl, iter_string_keys_sorted,
\* dump_state and resolve_conflict: all they change is what they purge.
PurgeExpired == pc = "idle" /\ Raises

-----------------------------------------------------------------------------
(* mset: all its items, then one eviction loop. *)

MSetStart(S) ==
  /\ pc = "idle"
  /\ S # {}
  /\ mem' = Purged(mem)
  /\ pc' = "mset" /\ rest' = S /\ reply' = None
  /\ UNCHANGED <<tier, now, cont, node>>

\* Bug: the batch returns without evicting.
MSetItemUnbounded(k, v, t) ==
  /\ pc = "mset"
  /\ k \in rest
  /\ tier' \in TierDelete(k)
  /\ mem' = IF k \in mem.map
            THEN Moved(mem, [key |-> k, val |-> v, live |-> TRUE])
            ELSE Inserted(mem, k, v, DeadlineOf(t))
  /\ rest' = rest \ {k}
  /\ pc' = IF rest' = {} THEN "idle" ELSE "mset"
  /\ cont' = "return" /\ node' = None
  /\ UNCHANGED <<now, reply>>

\* A missing ttl argument clears the key's deadline.
MSetItem(k, v, t) ==
  /\ pc = "mset"
  /\ k \in rest
  /\ tier' \in TierDelete(k)
  /\ mem' = IF k \in mem.map
            THEN LET m == Moved(mem, [key |-> k, val |-> v, live |-> TRUE])
                 IN [m EXCEPT !.ttl = [@ EXCEPT ![k] = DeadlineOf(t)]]
            ELSE Inserted(mem, k, v, DeadlineOf(t))
  /\ rest' = rest \ {k}
  /\ pc' = IF rest' = {} THEN "evict" ELSE "mset"
  /\ cont' = "return" /\ node' = None
  /\ UNCHANGED <<now, reply>>

-----------------------------------------------------------------------------
(* read and read_with_etag (one key) and mget (several, in any order). *)

ReadStart(S) ==
  /\ pc = "idle"
  /\ S # {}
  /\ mem' = Purged(mem)
  /\ pc' = "read" /\ rest' = S /\ reply' = None
  /\ UNCHANGED <<tier, now, cont, node>>

ReadReturns(k, v) ==
  /\ reply' = [key |-> k, val |-> v]
  /\ pc' = IF rest' = {} THEN "idle" ELSE "read"

ReadHit(k) ==
  /\ pc = "read"
  /\ k \in rest \cap mem.map
  /\ rest' = rest \ {k}
  /\ mem' = Moved(mem, NodeOf(mem, k))
  /\ ReadReturns(k, NodeOf(mem, k).val)
  /\ UNCHANGED <<tier, now, cont, node>>

ReadMiss(k) ==
  /\ pc = "read"
  /\ k \in rest \ mem.map
  /\ tier' \in TierMiss(k)
  /\ rest' = rest \ {k}
  /\ ReadReturns(k, None)
  /\ UNCHANGED <<mem, now, cont, node>>

\* Bug: promotion leaves the copy in the tier.
PromoteCopying(k, caller) ==
  /\ TierFresh(k)
  /\ node' = [key |-> k, val |-> tier[k].val, live |-> TRUE]
  /\ UNCHANGED tier
  /\ pc' = "evict" /\ cont' = caller

\* A key found in the tier moves back into memory, with its deadline.
Promote(k, caller) ==
  /\ TierFresh(k)
  /\ node' = [key |-> k, val |-> tier[k].val, live |-> TRUE]
  /\ tier' \in TierDelete(k)
  /\ pc' = "evict" /\ cont' = caller

\* Bug: a promoted key forgets its deadline.
ReadPromoteForever(k) ==
  /\ pc = "read"
  /\ k \in rest \ mem.map
  /\ Promote(k, "read")
  /\ mem' = Inserted(mem, k, tier[k].val, None)
  /\ rest' = rest \ {k}
  /\ UNCHANGED <<now, reply>>

ReadPromote(k) ==
  /\ pc = "read"
  /\ k \in rest \ mem.map
  /\ Promote(k, "read")
  /\ mem' = Inserted(mem, k, tier[k].val, tier[k].exp)
  /\ rest' = rest \ {k}
  /\ UNCHANGED <<now, reply>>

-----------------------------------------------------------------------------
(* patch: promote if need be, evict, then apply the JSON patch. *)

PatchStart(k) ==
  /\ pc = "idle"
  /\ reply' = None
  /\ LET m == Purged(mem) IN
       \/ /\ k \in m.map
          /\ mem' = m
          /\ node' = NodeOf(m, k)
          /\ pc' = "patch"
          /\ UNCHANGED <<tier, cont>>
       \/ /\ k \notin m.map
          /\ Promote(k, "patch")
          /\ mem' = Inserted(m, k, tier[k].val, tier[k].exp)
       \/ /\ k \notin m.map
          /\ mem' = m
          /\ tier' \in TierMiss(k)
          /\ UNCHANGED <<pc, cont, node>>
  /\ UNCHANGED <<now, rest>>

\* Bug: the answer is computed, the node keeps its value.
PatchApplyLost(v, t) ==
  /\ pc = "patch"
  /\ tier' \in TierDelete(node.key)
  /\ mem' = WithTTL(Moved(mem, node), node.key, t)
  /\ reply' = [key |-> node.key, val |-> v]
  /\ WriteDone

PatchApply(v, t) ==
  /\ pc = "patch"
  /\ tier' \in TierDelete(node.key)
  /\ mem' = WithTTL(Moved(mem, [node EXCEPT !.val = v]), node.key, t)
  /\ reply' = [key |-> node.key, val |-> v]
  /\ WriteDone

\* apply_patch raises.
PatchFails ==
  /\ pc = "patch"
  /\ tier' \in TierDelete(node.key)
  /\ pc' = "idle" /\ cont' = "return" /\ node' = None
  /\ UNCHANGED <<mem, now, rest, reply>>

-----------------------------------------------------------------------------
(* _evict_if_needed *)

OverLimit(m) == Limit > 0 /\ Cardinality(m.map) > Limit

\* Bug: the victim is taken from the wrong end.
CandidatesAtTail(m) == {i \in DOMAIN m.order : i = Len(m.order)}

\* _pick_victim: the head, or with hints the one of the first ScanN nodes that
\* was used least in the hint window, which may be any of them.
Candidates(m) ==
  {i \in DOMAIN m.order : i <= (IF Hints THEN ScanN ELSE 1)}

\* Bug: a victim with no time left to live is skipped, not dropped.
EvictOneSkipping ==
  /\ pc = "evict"
  /\ OverLimit(mem)
  /\ \E i \in Candidates(mem) :
       LET victim == mem.order[i] IN
         /\ tier' \in TierPut(victim, mem.ttl[victim.key])
         /\ mem' = IF Passed(mem.ttl[victim.key])
                   THEN mem ELSE Deleted(mem, {victim.key})
  /\ UNCHANGED <<now, pc, cont, node, rest, reply>>

\* One iteration of the loop.  The victim's copy is spilled under the node's
\* key and value; _delete goes by the key.
EvictOne ==
  /\ pc = "evict"
  /\ OverLimit(mem)
  /\ \E i \in Candidates(mem) :
       LET victim == mem.order[i] IN
         /\ tier' \in TierPut(victim, mem.ttl[victim.key])
         /\ mem' = Deleted(mem, {victim.key})
  /\ UNCHANGED <<now, pc, cont, node, rest, reply>>

EvictEnds == pc = "evict" /\ (~OverLimit(mem) \/ mem.order = <<>>)

WriteReturns ==
  /\ EvictEnds /\ cont = "return"
  /\ pc' = "idle"
  /\ UNCHANGED <<mem, tier, now, cont, node, rest, reply>>

\* read and mget after a promotion: the local node moves to the tail.
ReadPromoted ==
  /\ EvictEnds /\ cont = "read"
  /\ mem' = Moved(mem, node)
  /\ node' = None /\ cont' = "return"
  /\ UNCHANGED <<tier, now, rest>>
  /\ ReadReturns(node.key, node.val)

PatchPromoted ==
  /\ EvictEnds /\ cont = "patch"
  /\ pc' = "patch"
  /\ UNCHANGED <<mem, tier, now, cont, node, rest, reply>>

Evicting == EvictOne \/ WriteReturns \/ ReadPromoted \/ PatchPromoted

-----------------------------------------------------------------------------
(* The calls that replace the contents wholesale. *)

Ghosts(m) == {i \in DOMAIN m.order : ~m.order[i].live}

\* Bug: the scan index is not cleared with the map.
AbandonedKeepingIndex(m, K) ==
  [m EXCEPT !.map   = @ \ K,
            !.order = [i \in DOMAIN @ |-> IF @[i].key \in K
                                          THEN [@[i] EXCEPT !.live = FALSE]
                                          ELSE @[i]],
            !.ttl   = [k \in Keys |-> IF k \in K THEN None ELSE m.ttl[k]],
            !.newer = [k \in Keys |->
                         IF k \in K THEN {} ELSE m.newer[k] \ K]]

\* _map.pop without _remove: the nodes stay in the list.
Abandoned(m, K) ==
  [m EXCEPT !.map   = @ \ K,
            !.order = [i \in DOMAIN @ |-> IF @[i].key \in K
                                          THEN [@[i] EXCEPT !.live = FALSE]
                                          ELSE @[i]],
            !.ttl   = [k \in Keys |-> IF k \in K THEN None ELSE m.ttl[k]],
            !.skeys = @ \ K,
            !.newer = [k \in Keys |->
                         IF k \in K THEN {} ELSE m.newer[k] \ K]]

\* FLUSHALL of the Redis front end, for the keys of one namespace.
FlushAll(S) ==
  /\ pc = "idle"
  /\ mem' = Abandoned(mem, S \cap mem.map)
  /\ Cardinality(Ghosts(mem')) <= MaxGhosts
  /\ reply' = None
  /\ UNCHANGED <<tier, now, pc, cont, node, rest>>

\* load_state: every map is cleared, the list is not; then the entries of the
\* dump, here at most two, are inserted.
LoadState(ks, v, t) ==
  /\ pc = "idle"
  /\ LET m0 == Abandoned(mem, Keys)
         m1 == IF Len(ks) > 0 THEN Inserted(m0, ks[1], v, DeadlineOf(t)) ELSE m0
     IN mem' = IF Len(ks) > 1 THEN Inserted(m1, ks[2], v, DeadlineOf(t)) ELSE m1
  /\ Cardinality(Ghosts(mem')) <= MaxGhosts
  /\ reply' = None
  /\ UNCHANGED <<tier, now, pc, cont, node, rest>>

Dumps == {<<>>} \cup {<<k>> : k \in Keys}
                \cup {<<p[1], p[2]>> : p \in {q \in Keys \X Keys : q[1] # q[2]}}

-----------------------------------------------------------------------------
Args == TTLs \cup {None}

KeyOps(k) ==
  \/ \E v \in Val, t \in Args : Create(k, v, t) \/ Update(k, v, t)
  \/ \E t \in Args : Incr(k, t)
  \/ Delete(k) \/ Persist(k) \/ PatchStart(k)
  \/ \E v \in Val, t \in Args : MSetItem(k, v, t)
  \/ ReadHit(k) \/ ReadMiss(k) \/ ReadPromote(k)

Next ==
  \/ Tick
  \/ \E k \in Keys : KeyOps(k)
  \/ \E S \in SUBSET Keys : MSetStart(S) \/ ReadStart(S)
  \/ \E v \in Val, t \in Args : PatchApply(v, t)
  \/ PatchFails
  \/ PurgeExpired
  \/ Evicting

Spec == Init /\ [][Next]_vars

\* A thread in the eviction loop keeps running.
FairSpec == Spec /\ WF_vars(Evicting)

AdminNext ==
  \/ Next
  \/ \E S \in SUBSET Keys : FlushAll(S)
  \/ \E ks \in Dumps, v \in Val, t \in Args : LoadState(ks, v, t)

AdminSpec == Init /\ [][AdminNext]_vars

FairAdminSpec == AdminSpec /\ WF_vars(Evicting)

-----------------------------------------------------------------------------
(* Properties. *)

\* The recency list holds the objects of the map and nothing else, each once, and
\* the scan index and the deadlines are about resident keys.  Every operation
\* edits four structures by hand (_map, list, _ttl, _skeys); a node left behind
\* makes the eviction loop spin, one left out is never evicted.
ListIsMap(m) ==
  /\ \A i \in DOMAIN m.order : m.order[i].live /\ m.order[i].key \in m.map
  /\ \A k \in m.map : \E i \in DOMAIN m.order : m.order[i].key = k
  /\ \A i, j \in DOMAIN m.order : m.order[i].key = m.order[j].key => i = j
  /\ m.skeys = m.map
  /\ \A k \in Keys : m.ttl[k] # None => k \in m.map

ListAndMapAgree == ListIsMap(mem)

\* What is left of that after load_state or FLUSHALL: whatever ghosts there are,
\* every resident key still has exactly one node of its own, and the scan index
\* is the map.
ResidentKeysListed ==
  /\ \A k \in mem.map : Cardinality(LiveAt(mem, {k})) = 1
  /\ \A i \in DOMAIN mem.order : mem.order[i].live => mem.order[i].key \in mem.map
  /\ mem.skeys = mem.map

\* A call that returns to its caller has brought the shard back to max_size, also
\* after a batch that overshot it.
WithinLimit == pc = "idle" => ~OverLimit(mem)

\* A key is never both resident and spilled: the copy left behind would come back
\* as a stale value once the resident one is gone.
OneCopy == \A k \in mem.map : tier[k] = None

\* The eviction loop removes the key whose last use is the longest ago: every
\* other resident key was used after it.
EvictsLeastRecentlyUsed ==
  [][pc = "evict" =>
       \A k \in mem.map \ mem'.map : mem.map \ {k} \subseteq mem.newer[k]]_vars

\* A promoted key is still in memory when the call that promoted it goes on to
\* use the node: the eviction it caused took another key.
PromotedStays ==
  (pc \in {"evict", "patch"} /\ node # None) => node.key \in mem.map

\* Whoever holds the lock gives it back.
LockReleased == pc = "evict" ~> pc # "evict"

\* The shard is a KVStore: spilling, promoting and the passage between the lists
\* never change what is stored, and reads return it.
Stored ==
  [k \in Keys |->
     IF k \in mem.map
     THEN [val |-> NodeOf(mem, k).val, exp |-> mem.ttl[k]]
     ELSE tier[k]]

\* PATCH answers with the new value, and that is what the key then holds: the
\* eviction in the middle of the call did not part the node from its key.
PatchTakesEffect ==
  [][pc = "patch" /\ pc' = "evict" =>
       /\ Stored'[node.key] # None
       /\ Stored'[node.key].val = reply'.val]_vars

Abstract == INSTANCE KVStore WITH db <- Stored, Lossy <- ~HasTier

ImplementsKVStore == Abstract!Spec
=============================================================================
