------------------------------ MODULE LFUShard ------------------------------
(***************************************************************************)
(* One shard under the LFU policy: class LFUKeyValueStore of               *)
(* pxkv/core/lfu.py, before the same tier as LRUShard.  Every call holds   *)
(* the shard's lock to its end and is one step; mget, which may evict once *)
(* per key, is one step for each.                                          *)
(*                                                                         *)
(* _seq and the numbers in _last only order the keys: newer[k] is the set  *)
(* of the keys whose number in _last is above that of k, those touched     *)
(* since k was.  The eviction loop compares scores that it does not        *)
(* change, so what it takes is the set of the lowest ones.  Failures of    *)
(* the tier are in LRUShard.                                               *)
(***************************************************************************)
EXTENDS Naturals, Sequences, FiniteSets

CONSTANTS
  Keys, None, TTLs, MaxTime,   \* as in LRUShard
  Val,        \* the values stored
  Numbers,    \* those INCR accepts; which of them it makes is left open
  Limit,      \* max_size
  MaxUses     \* bound on the frequency of a key

Copy == [val: Val, exp: Nat \cup {None}]

ASSUME LFUAssumption ==
  /\ MaxTime \in Nat /\ Limit \in Nat \ {0} /\ MaxUses \in Nat
  /\ TTLs \subseteq Nat /\ Numbers \subseteq Val
  /\ None \notin Nat \cup Val \cup Copy

VARIABLES
  mem,      \* val (_map, None: no entry), ttl, freq (0: no entry), newer, skeys;
            \* uses is a history: the calls that used the key since it came in
  tier,     \* the copies the backend holds
  now,      \* time.time()
  rest,     \* the keys mget still has to handle; <<>>: the lock is free
  reply,    \* what the last read (read, mget, a failed patch) answered for which key
  hints     \* are eviction hints enabled?  Fixed at the start.

vars == <<mem, tier, now, rest, reply, hints>>

Resident(m) == {k \in Keys : m.val[k] # None}
Passed(e) == e # None /\ e <= now
DeadlineOf(t) == IF t = None THEN None ELSE now + t

\* _touch: k gets the highest number in _last.
Touched(m, k) ==
  [m EXCEPT !.freq[k] = @ + 1,
            !.newer = [j \in Keys |-> IF j # k /\ m.freq[j] # 0
                                      THEN m.newer[j] \cup {k} ELSE {}]]

\* The touch that counts a call of a client as a use.
Used(m, k) == [Touched(m, k) EXCEPT !.uses[k] = @ + 1]

\* Bug: _delete without _freq.pop.
DeletedKeepingFreq(m, K) ==
  [val   |-> [k \in Keys |-> IF k \in K THEN None ELSE m.val[k]],
   ttl   |-> [k \in Keys |-> IF k \in K THEN None ELSE m.ttl[k]],
   freq  |-> m.freq,
   uses  |-> [k \in Keys |-> IF k \in K THEN 0 ELSE m.uses[k]],
   newer |-> [k \in Keys |-> IF k \in K THEN {} ELSE m.newer[k] \ K],
   skeys |-> m.skeys \ K]

\* _delete of every key in K.
Deleted(m, K) ==
  [val   |-> [k \in Keys |-> IF k \in K THEN None ELSE m.val[k]],
   ttl   |-> [k \in Keys |-> IF k \in K THEN None ELSE m.ttl[k]],
   freq  |-> [k \in Keys |-> IF k \in K THEN 0 ELSE m.freq[k]],
   uses  |-> [k \in Keys |-> IF k \in K THEN 0 ELSE m.uses[k]],
   newer |-> [k \in Keys |-> IF k \in K THEN {} ELSE m.newer[k] \ K],
   skeys |-> m.skeys \ K]

Purged(m) == Deleted(m, {k \in Keys : Passed(m.ttl[k])})

\* An assignment to _map[k] that also enters the scan index.
Stores(m, k, v) == [m EXCEPT !.val[k] = v, !.skeys = @ \cup {k}]

\* _ttl[k] when the call was given a time to live, or else what it was.
WithTTL(m, k, t) == IF t = None THEN m ELSE [m EXCEPT !.ttl[k] = now + t]

-----------------------------------------------------------------------------
(* _evict_if_needed *)

\* Bug: the age decides before the frequency.
LowerByAge(m, v, k) == k \in m.newer[v]

\* (freq, last) of v is lower than that of k.  The hints put a score of their
\* own between the two, so that any order of equally frequent keys may result.
Lower(m, v, k) ==
  \/ m.freq[v] < m.freq[k]
  \/ m.freq[v] = m.freq[k] /\ (hints \/ k \in m.newer[v])

\* What the loop may take: the keys with the lowest scores, down to the limit.
Victims(m) ==
  LET over == Cardinality(Resident(m)) - Limit IN
  IF over <= 0 THEN {{}}
  ELSE {V \in SUBSET Resident(m) :
          /\ Cardinality(V) = over
          /\ \A v \in V, k \in Resident(m) \ V : Lower(m, v, k)}

\* Bug: what is spilled stays for good.
SpilledForever(m, V, t) ==
  [k \in Keys |-> IF k \in V /\ ~Passed(m.ttl[k])
                  THEN [val |-> m.val[k], exp |-> None] ELSE t[k]]

\* The victims' copies go to the tier, those with time left to live.
Spilled(m, V, t) ==
  [k \in Keys |-> IF k \in V /\ ~Passed(m.ttl[k])
                  THEN [val |-> m.val[k], exp |-> m.ttl[k]] ELSE t[k]]

\* m after the eviction loop, with the tier t it spills to.
Evict(m, t) ==
  \E V \in Victims(m) : mem' = Deleted(m, V) /\ tier' = Spilled(m, V, t)

Forget(k) == [tier EXCEPT ![k] = None]

Fresh(k) == tier[k] # None /\ ~Passed(tier[k].exp)

-----------------------------------------------------------------------------
Blank == [val |-> [k \in Keys |-> None], ttl |-> [k \in Keys |-> None],
          freq |-> [k \in Keys |-> 0], uses |-> [k \in Keys |-> 0],
          newer |-> [k \in Keys |-> {}], skeys |-> {}]

\* The times to live given; a deadline after MaxTime is as good as none.
Args == {t \in TTLs : now + t <= MaxTime} \cup {None}

\* Batches are of two keys, in the order the call names them.
Batches == {ks \in [1..2 -> Keys] : ks[1] # ks[2]}

\* A new entry for k, by create and load_state.
Entered(m, k, v, t) == Used([Stores(m, k, v) EXCEPT !.ttl[k] = DeadlineOf(t)], k)

\* load_state on a new shard: every entry of a dump gets frequency 1.
Loaded(ks, v, t) == Entered(Entered(Blank, ks[1], v, t), ks[2], v, t)

\* A new shard, or one that start-up has loaded from a snapshot.
Init ==
  /\ now = 0 /\ rest = <<>> /\ reply = None
  /\ hints \in BOOLEAN
  /\ mem \in {Blank} \cup {Loaded(ks, v, t) : ks \in Batches, v \in Val, t \in Args}
  /\ tier = [k \in Keys |-> None]

Tick ==
  /\ now < MaxTime
  /\ now' = now + 1
  /\ UNCHANGED <<mem, tier, rest, reply, hints>>

\* What every call has in common that takes the lock and returns without an
\* answer that is modelled.
Call == rest = <<>> /\ rest' = <<>> /\ UNCHANGED <<now, hints>>

Raises(m) == mem' = m /\ tier' = tier /\ reply' = None

Create(k, v, t) ==
  /\ Call
  /\ LET m == Purged(mem) IN
       \/ k \in Resident(m) /\ Raises(m)
       \/ /\ k \notin Resident(m)
          /\ Evict(Entered(m, k, v, t), Forget(k))
          /\ reply' = None

Update(k, v, t) ==
  /\ Call
  /\ LET m == Purged(mem) IN
       \/ k \notin Resident(m) /\ Raises(m)
       \/ /\ k \in Resident(m)
          /\ Evict(Used(WithTTL([m EXCEPT !.val[k] = v], k, t), k), Forget(k))
          /\ reply' = None

\* A value for k, which may be new; it keeps its deadline unless given another.
Written(m, k, v, t) == Used(WithTTL(Stores(m, k, v), k, t), k)

\* Bug: a counter that INCR starts is not in the scan index.
IncrUnlisted(k, v, t) ==
  /\ Call
  /\ LET m == Purged(mem) IN
       /\ m.val[k] \in {None} \cup Numbers
       /\ Evict(Used(WithTTL([m EXCEPT !.val[k] = v], k, t), k), Forget(k))
       /\ reply' = None

\* The tier's copy is dropped before anything is known of the key, so a spilled
\* counter starts again from 0.
Incr(k, v, t) ==
  /\ Call
  /\ LET m == Purged(mem) IN
       \/ /\ m.val[k] \in Val \ Numbers
          /\ mem' = m /\ tier' = Forget(k) /\ reply' = None
       \/ /\ m.val[k] \in {None} \cup Numbers
          /\ Evict(Written(m, k, v, t), Forget(k))
          /\ reply' = None

Delete(k) ==
  /\ Call
  /\ k \in Resident(mem)
  /\ mem' = Deleted(mem, {k})
  /\ tier' = Forget(k)
  /\ reply' = None

\* mset: all items, then one eviction.
MSet(ks, v, t) ==
  /\ Call
  /\ Evict(Written(Written(Purged(mem), ks[1], v, t), ks[2], v, t),
           [k \in Keys |-> IF k \in {ks[1], ks[2]} THEN None ELSE tier[k]])
  /\ reply' = None

Persist(k) ==
  /\ Call
  /\ LET m == Purged(mem) IN
       IF k \in Resident(m) THEN Raises([m EXCEPT !.ttl[k] = None]) ELSE Raises(m)

\* purge_expired, purge_expired_keys, keys, get_ttl, iter_string_keys_sorted,
\* dump_state and resolve_conflict: all they change is what they purge.
PurgeExpired == Call /\ Raises(Purged(mem))

-----------------------------------------------------------------------------
(* Reads; patch, which reads and then writes. *)

\* Bug: the eviction runs before the promoted key is touched.
BackUntouched(m, k) == [Stores(m, k, tier[k].val) EXCEPT !.ttl[k] = tier[k].exp]

\* k is back in memory, with its deadline.
Back(m, k) ==
  Touched([Stores(m, k, tier[k].val) EXCEPT !.ttl[k] = tier[k].exp], k)

\* The contents and the tier after the promotion of k, if one is due, and the
\* eviction it brings, which may take k itself.
Promoted(m, k) ==
  IF k \in Resident(m) THEN {[mem |-> m, tier |-> tier]}
  ELSE IF ~Fresh(k) THEN {[mem |-> m, tier |-> Forget(k)]}
  ELSE LET m2 == Back(m, k) IN
       {[mem |-> Deleted(m2, V), tier |-> Spilled(m2, V, Forget(k))] : V \in Victims(m2)}

\* read, read_with_etag.  _touch comes before the value is looked up: when the
\* promoted key has been evicted again, an entry of _freq and _last for an absent
\* key stays behind, and the call raises.
Read(k) ==
  /\ Call
  /\ \E p \in Promoted(Purged(mem), k) :
       /\ mem' = IF k \in Resident(p.mem) \/ Fresh(k) THEN Used(p.mem, k) ELSE p.mem
       /\ tier' = p.tier
       /\ reply' = [key |-> k, val |-> p.mem.val[k]]

\* One turn of mget's loop, for the first of the keys ks.
MGetKey(m, ks) ==
  /\ LET k == Head(ks) IN
     \E p \in Promoted(m, k) :
       /\ mem' = IF k \in Resident(p.mem) THEN Used(p.mem, k) ELSE p.mem
       /\ tier' = p.tier
       /\ reply' = [key |-> k, val |-> p.mem.val[k]]
  /\ rest' = Tail(ks)
  /\ UNCHANGED <<now, hints>>

MGetStart(ks) == rest = <<>> /\ MGetKey(Purged(mem), ks)

MGetNext == rest # <<>> /\ MGetKey(mem, rest)

\* None for the new value: apply_patch raises, after the copy is dropped.
Patch(k, v, t) ==
  /\ Call
  /\ \E p \in Promoted(Purged(mem), k) :
       LET left == [p.tier EXCEPT ![k] = None] IN
       \/ /\ k \notin Resident(p.mem)
          /\ mem' = p.mem /\ tier' = p.tier
          /\ reply' = [key |-> k, val |-> None]
       \/ /\ k \in Resident(p.mem) /\ v = None
          /\ mem' = p.mem /\ tier' = left /\ reply' = None
       \/ /\ k \in Resident(p.mem) /\ v # None
          /\ Evict(Used(WithTTL([p.mem EXCEPT !.val[k] = v], k, t), k), left)
          /\ reply' = None

-----------------------------------------------------------------------------
Next ==
  /\ \/ Tick \/ PurgeExpired \/ MGetNext
     \/ \E k \in Keys :
          \/ \E v \in Val, t \in Args : Create(k, v, t) \/ Update(k, v, t)
          \/ \E v \in Numbers, t \in Args : Incr(k, v, t)
          \/ \E v \in Val \cup {None}, t \in Args : Patch(k, v, t)
          \/ Delete(k) \/ Persist(k) \/ Read(k)
     \/ \E ks \in Batches : MGetStart(ks)
     \/ \E ks \in Batches, v \in Val, t \in Args : MSet(ks, v, t)
  /\ \A k \in Keys : mem'.freq[k] <= MaxUses

Spec == Init /\ [][Next]_vars

-----------------------------------------------------------------------------
(* Properties. *)

Contents ==
  [val: [Keys -> Val \cup {None}], ttl: [Keys -> Nat \cup {None}],
   freq: [Keys -> Nat], uses: [Keys -> Nat],
   newer: [Keys -> SUBSET Keys], skeys: SUBSET Keys]

TypeOK ==
  /\ mem \in Contents
  /\ tier \in [Keys -> Copy \cup {None}]
  /\ now \in Nat
  /\ rest \in Seq(Keys)
  /\ reply \in [key: Keys, val: Val \cup {None}] \cup {None}
  /\ hints \in BOOLEAN

\* The five maps of a shard are edited by hand in every call: the scan index is
\* the map, and only a resident key has a deadline.
MapsAgree ==
  /\ TypeOK
  /\ mem.skeys = Resident(mem)
  /\ \A k \in Keys : mem.ttl[k] # None => k \in Resident(mem)

\* The frequency of a key is the number of calls that used it since it came in,
\* and one more if it came from the tier, where it is touched twice; the entry
\* that a read leaves behind for a key it evicted is a use of its own.  Whatever
\* sequence of creates, batches, reloads, evictions and promotions came before.
FreqCountsUses ==
  \A k \in Keys :
    mem.freq[k] - mem.uses[k] \in (IF k \in Resident(mem) THEN {0, 1} ELSE {0})

Stored ==
  [k \in Keys |-> IF mem.val[k] # None
                  THEN [val |-> mem.val[k], exp |-> mem.ttl[k]] ELSE tier[k]]

\* Eviction is by use: no key is spilled that was used two times more than one
\* that stays; and without hints, of two used equally often the one whose last
\* use is longer ago goes.
SpillsLeastUsed ==
  [][\A v \in Resident(mem), k \in Resident(mem) \cap Resident(mem') :
       v \notin Resident(mem') /\ tier'[v] # tier[v] /\ tier'[v] # None
       /\ ~Passed(mem.ttl[v]) =>
         /\ mem.uses[v] <= mem'.uses[k] + 1
         /\ ~hints /\ ~Passed(mem.ttl[k]) /\ mem.freq[k] = mem.freq[v] =>
              mem'.freq[k] > mem.freq[k] \/ k \in mem.newer[v]]_vars

SpuriousMiss == reply # None /\ reply.val = None /\ Stored[reply.key] # None

\* A read or patch that fails for a stored key (the eviction it caused took the
\* key it had promoted) is possible only in a full shard whose resident keys were
\* all touched more than once.
MissOnlyWhenCrowded ==
  [][reply' # reply /\ SpuriousMiss' =>
       /\ Cardinality(Resident(mem')) = Limit
       /\ \A k \in Resident(mem') : hints \/ mem'.freq[k] > 1]_vars

\* To its callers the shard is a KVStore, as one under the LRU policy is, except
\* that a failed read of a stored key is no answer.
Abstract == INSTANCE KVStore WITH
  db <- Stored, reply <- IF SpuriousMiss THEN None ELSE reply, Lossy <- FALSE

ImplementsKVStore == Abstract!Spec
=============================================================================
