------------------------- MODULE ShardedStoreProofs -------------------------
(***************************************************************************)
(* For any keys, numbers of shards, rings and scanners: keys lie where     *)
(* they are read, vectors last, nobody waits for good, and scans return    *)
(* what is there.                                                          *)
(***************************************************************************)
EXTENDS ShardedStore, FiniteSetTheorems, WellFoundedInduction, TLAPS

\* Where the keys are.
Placing ==
  /\ n \in Counts /\ num \in Counts
  /\ placed \in [Largest -> SUBSET Keys]
  /\ \A s \in Largest \ Shards : placed[s] = {}
  /\ lapsed \in [Largest -> SUBSET Keys] /\ \A s \in Largest : lapsed[s] \subseteq placed[s]

\* An iterator that is open belongs to a shard below the one its scan opens next.
Locks ==
  /\ lock \in [Largest -> Scanners \cup {None}]
  /\ pc \in [Scanners -> {"idle", "open", "done"}]
  /\ heap \in [Scanners -> SUBSET Largest] /\ next \in [Scanners -> Nat]
  /\ \A p \in Scanners :
       /\ next[p] <= n
       /\ heap[p] \subseteq 0..(next[p] - 1)
       /\ heap[p] = {s \in Largest : lock[s] = p}
       /\ pc[p] # "open" => heap[p] = {}

\* The calls of several steps.
Calls ==
  /\ vecs \subseteq Keys /\ keyed \subseteq Keys /\ raced \subseteq Keys
  /\ up \in Keys \cup {None} /\ (up = None <=> at = "idle")
  /\ look \in Keys \cup {None} /\ (missed => look # None)
  /\ purging \in Shards \cup {None}
  /\ changes \in 0..MaxChanges

\* A vector whose key has lapsed is not one that must last.
Kept ==
  /\ ~moved => \A s \in Largest : \A k \in placed[s] : Idx(k) = s
  /\ keyed \subseteq vecs \cup raced
  /\ \A s \in Largest : keyed \cap lapsed[s] = {}

IInv == Placing /\ Locks /\ Calls /\ Kept

-----------------------------------------------------------------------------
(* Shards. *)

\* The shards there are, and the one each key is read from.
LEMMA ShardsAreLargest ==
  ASSUME NEW c \in Counts
  PROVE  /\ c \in Nat \ {0} /\ 0..(c - 1) \subseteq Largest
         /\ \A k \in Keys : Ring[c][k] \in 0..(c - 1)
BY ShardedStoreAssumption DEF Largest

LEMMA LargestAreNumbers == \A s \in Largest : s \in Nat
BY ShardedStoreAssumption DEF Largest

\* Of the shards that are locked, one is the last.
LEMMA LastOfSome ==
  ASSUME NEW S, NEW m \in Nat, S \subseteq 0..(m - 1), S # {}
  PROVE  \E s \in S : \A t \in S : t <= s
<1> DEFINE T == {m - s : s \in S}
<1>1. T \subseteq Nat /\ T # {}
  OBVIOUS
<1>2. PICK x \in T : \A y \in T : ~(<<y, x>> \in OpToRel(<, Nat))
  BY <1>1, NatLessThanWellFounded, WFMin
<1>3. \A y \in T : ~(y < x)
  <2> SUFFICES ASSUME NEW y \in T, y < x PROVE FALSE
    OBVIOUS
  <2> HIDE DEF T
  <2>1. <<y, x>> \in OpToRel(<, Nat)
    BY <1>1 DEF OpToRel
  <2> QED
    BY <1>2, <2>1
<1>4. PICK s \in S : x = m - s
  OBVIOUS
<1>5. \A t \in S : m - t \in T
  OBVIOUS
<1>6. S \subseteq Nat
  OBVIOUS
<1>7. ASSUME NEW t \in S PROVE t <= s
  <2> HIDE DEF T
  <2>1. ~(m - t < m - s)
    BY <1>3, <1>4, <1>5
  <2>2. t \in Nat /\ s \in Nat
    BY <1>4, <1>6
  <2> QED
    BY <2>1, <2>2
<1> QED
  BY <1>7

\* A change is counted.
LEMMA ChangeCounted ==
  ASSUME changes \in 0..MaxChanges, Change
  PROVE  changes' \in 0..MaxChanges
BY ShardedStoreAssumption DEF Change

-----------------------------------------------------------------------------
(* What a purge of one shard, and a key that is stored, do. *)

LEMMA PurgeOne ==
  ASSUME Placing, NEW s \in Largest, UNCHANGED <<n, num>>,
         placed' = [placed EXCEPT ![s] = @ \ lapsed[s]],
         lapsed' = [lapsed EXCEPT ![s] = {}]
  PROVE  Placing'
BY DEF Placing, Shards

LEMMA StoreOne ==
  ASSUME Placing, NEW k \in Keys, Created(k), UNCHANGED <<n, num>>
  PROVE  Placing'
<1>1. Idx(k) \in Shards /\ Idx(k) \in Largest
  BY ShardsAreLargest DEF Placing, Idx, Shards
<1>2. /\ placed' \in [Largest -> SUBSET Keys]
      /\ \A t \in Largest : placed[t] \subseteq placed'[t]
      /\ \A t \in Largest \ Shards : placed'[t] = {}
  BY <1>1 DEF Placing, Created
<1>3. /\ lapsed' \in [Largest -> SUBSET Keys]
      /\ \A s \in Largest : lapsed'[s] \subseteq placed'[s]
  BY <1>1 DEF Placing, Created
<1> QED
  BY <1>2, <1>3 DEF Placing, Shards

-----------------------------------------------------------------------------
(* Each action in turn. *)

LEMMA BeginStep == ASSUME IInv, NEW p \in Scanners, Begin(p) PROVE IInv'
<1> USE ShardedStoreAssumption DEF IInv, scans, upserts, looks
<1>1. Placing'
  BY DEF Placing, Shards, Idx, Begin
<1>2. Locks'
  BY DEF Locks, Placing, Begin
<1>3. Calls'
  BY DEF Calls, Shards, Begin
<1>4. Kept'
  BY DEF Kept, Idx, Begin
<1> QED
  BY <1>1, <1>2, <1>3, <1>4

LEMMA OpenStep == ASSUME IInv, NEW p \in Scanners, Open(p) PROVE IInv'
<1> USE ShardedStoreAssumption, ShardsAreLargest DEF IInv, scans, upserts, looks
<1>1. Placing'
  <2>1. next[p] \in Largest
    BY DEF Placing, Locks, Open
  <2> QED
    <3>1. lapsed' = [lapsed EXCEPT ![next[p]] = {}]
      BY DEF Open, Opens, Opened, Placing
    <3> QED
      BY <2>1, <3>1, PurgeOne DEF Open, Opens, Opened
<1>2. Locks'
  BY DEF Locks, Placing, Open, Opens
<1>3. Calls'
  BY DEF Calls, Shards, Open
<1>4. Kept'
  BY DEF Kept, Idx, Open, Opens, Opened
<1> QED
  BY <1>1, <1>2, <1>3, <1>4

LEMMA PageStep == ASSUME IInv, NEW p \in Scanners, Page(p) PROVE IInv'
<1> USE ShardedStoreAssumption DEF IInv, scans, upserts, looks
<1>1. Placing'
  BY DEF Placing, Shards, Idx, Page
<1>2. Locks'
  BY DEF Locks, Page
<1>3. Calls'
  BY DEF Calls, Shards, Page
<1>4. Kept'
  BY DEF Kept, Idx, Page
<1> QED
  BY <1>1, <1>2, <1>3, <1>4

LEMMA CreateStep == ASSUME IInv, NEW k \in Keys, Create(k) PROVE IInv'
<1> USE ShardedStoreAssumption, ShardsAreLargest DEF IInv, scans, upserts, looks
<1>1. Placing'
  BY DEF Placing, Shards, Idx, Create, Change, Created, Readable, Live
<1>2. Locks'
  BY DEF Locks, Create, Change, Created, Readable, Live
<1>3. Calls'
  BY DEF Calls, Shards, Create, Change
<1>4. Kept'
  BY DEF Kept, Idx, Create, Change, Created, Readable, Live
<1> QED
  BY <1>1, <1>2, <1>3, <1>4

LEMMA DeleteStep == ASSUME IInv, NEW k \in Keys, Delete(k) PROVE IInv'
<1> USE ShardedStoreAssumption, ShardsAreLargest, LargestAreNumbers
    DEF IInv, scans, upserts, looks
<1>1. Placing'
  BY DEF Placing, Shards, Idx, Delete, Change, Removed
<1>2. Locks'
  BY DEF Locks, Delete, Change, Removed
<1>3. Calls'
  BY DEF Calls, Placing, Shards, Delete, Change, Removed
<1>4. Kept'
  BY DEF Kept, Idx, Delete, Change, Removed
<1> QED
  BY <1>1, <1>2, <1>3, <1>4

LEMMA EvictStep == ASSUME IInv, NEW k \in Keys, NEW s \in Shards, Evict(k, s) PROVE IInv'
<1> USE ShardedStoreAssumption, ShardsAreLargest DEF IInv, scans, upserts, looks
<1>1. Placing'
  BY DEF Placing, Shards, Idx, Evict, Change, Removed
<1>2. Locks'
  BY DEF Locks, Evict, Change, Removed
<1>3. Calls'
  <2>1. changes' \in 0..MaxChanges
    BY ChangeCounted DEF Calls, Evict
  <2> QED
    BY <2>1 DEF Calls, Shards, Evict, Removed
<1>4. Kept'
  BY DEF Kept, Idx, Evict, Change, Removed
<1> QED
  BY <1>1, <1>2, <1>3, <1>4

LEMMA LapseStep == ASSUME IInv, NEW k \in Keys, NEW s \in Shards, Lapse(k, s) PROVE IInv'
<1> USE ShardedStoreAssumption, ShardsAreLargest, LargestAreNumbers
    DEF IInv, scans, upserts, looks
<1>1. Placing'
  BY DEF Placing, Shards, Idx, Lapse, Change, Readable, Live
<1>2. Locks'
  BY DEF Locks, Lapse, Change, Readable, Live
<1>3. Calls'
  <2>1. changes' \in 0..MaxChanges
    BY ChangeCounted DEF Calls, Lapse
  <2> QED
    BY <2>1 DEF Calls, Shards, Lapse
<1>4. Kept'
  BY DEF Kept, Idx, Lapse, Change, Readable, Live
<1> QED
  BY <1>1, <1>2, <1>3, <1>4

LEMMA PurgeStep == ASSUME IInv, Purge PROVE IInv'
<1> USE ShardedStoreAssumption DEF IInv, scans, upserts, looks
<1>1. Placing'
  BY DEF Placing, Shards, Idx, Purge
<1>2. Locks'
  BY DEF Locks, Purge
<1>3. Calls'
  BY DEF Calls, Placing, Shards, Purge
<1>4. Kept'
  BY DEF Kept, Idx, Purge
<1> QED
  BY <1>1, <1>2, <1>3, <1>4

LEMMA PurgeShardStep == ASSUME IInv, PurgeShard PROVE IInv'
<1> USE ShardsAreLargest DEF IInv, scans, upserts, looks
<1>1. Placing'
  <2>1. purging \in Largest
    BY DEF Placing, Calls, Shards, PurgeShard
  <2> QED
    <3>1. placed' = [placed EXCEPT ![purging] = @ \ lapsed[purging]]
      BY DEF PurgeShard, Live
    <3> QED
      BY <2>1, <3>1, PurgeOne DEF PurgeShard
<1>2. Locks'
  BY DEF Locks, PurgeShard
<1>3. Calls'
  <2>1. n \in Nat /\ purging \in 0..(n - 1) /\ n' = n
    BY DEF Placing, Calls, Shards, PurgeShard
  <2>2. purging' \in 0..(n - 1) \cup {None}
    BY <2>1 DEF PurgeShard
  <2>3. vecs' \subseteq Keys
    BY DEF Calls, PurgeShard
  <2> QED
    BY <2>1, <2>2, <2>3 DEF Calls, Shards, PurgeShard
<1>4. Kept'
  <2>1. /\ purging \in Largest /\ vecs' = vecs \ lapsed[purging]
        /\ placed' = [placed EXCEPT ![purging] = Live(purging)]
        /\ lapsed' = [lapsed EXCEPT ![purging] = {}]
        /\ UNCHANGED <<n, keyed, raced, moved>>
    BY DEF Placing, Calls, Shards, PurgeShard
  <2>2. ~moved' => \A s \in Largest : \A k \in placed'[s] : Idx(k)' = s
    BY <2>1 DEF Kept, Placing, Idx, Live
  <2>3. keyed' \subseteq vecs' \cup raced'
    BY <2>1 DEF Kept
  <2>4. \A s \in Largest : keyed' \cap lapsed'[s] = {}
    BY <2>1 DEF Kept, Placing
  <2> QED
    BY <2>2, <2>3, <2>4 DEF Kept
<1> QED
  BY <1>1, <1>2, <1>3, <1>4

LEMMA UpsertStep == ASSUME IInv, NEW k \in Keys, Upsert(k) PROVE IInv'
<1> USE ShardedStoreAssumption DEF IInv, scans, upserts, looks
<1>1. Placing'
  BY DEF Placing, Shards, Idx, Upsert, Change
<1>2. Locks'
  BY DEF Locks, Upsert, Change
<1>3. Calls'
  BY DEF Calls, Shards, Upsert, Change
<1>4. Kept'
  BY DEF Kept, Idx, Upsert, Change
<1> QED
  BY <1>1, <1>2, <1>3, <1>4

LEMMA UpsertIndexStep == ASSUME IInv, UpsertIndex PROVE IInv'
<1> USE DEF IInv, scans, upserts, looks
<1>1. Placing'
  BY DEF Placing, Shards, Idx, UpsertIndex
<1>2. Locks'
  BY DEF Locks, UpsertIndex
<1>3. Calls'
  BY DEF Calls, UpsertIndex
<1>4. Kept'
  BY DEF Kept, Idx, UpsertIndex
<1> QED
  BY <1>1, <1>2, <1>3, <1>4

LEMMA UpsertStoreStep == ASSUME IInv, UpsertStore PROVE IInv'
<1> USE DEF IInv, scans, upserts, looks
<1>1. Placing'
  <2>1. up \in Keys
    BY DEF Calls, UpsertStore
  <2>2. CASE exists = Readable(up)
    BY <2>1, <2>2, StoreOne DEF UpsertStore
  <2>3. CASE exists # Readable(up)
    BY <2>3 DEF UpsertStore, Placing, Shards
  <2> QED
    BY <2>2, <2>3
<1>2. Locks'
  BY DEF Locks, UpsertStore, Created
<1>3. Calls'
  BY DEF Calls, Shards, UpsertStore
<1>4. Kept'
  <2>1. up \in Keys
    BY DEF Calls, UpsertStore
  <2>2. CASE exists = Readable(up)
    <3>1. /\ Created(up)
          /\ keyed' = IF Strays(up) THEN keyed ELSE keyed \cup ({up} \cap vecs)
          /\ UNCHANGED <<n, vecs, raced, moved>>
      BY <2>2 DEF UpsertStore
    <3>2. ~moved => \A s \in Largest : \A k \in placed'[s] : Idx(k) = s
      BY <2>1, <3>1 DEF Kept, Placing, Created
    <3>3. ASSUME NEW s \in Largest PROVE keyed' \cap lapsed'[s] = {}
      <4>1. lapsed'[s] \subseteq lapsed[s] /\ up \notin lapsed'[Idx(up)]
        BY <2>1, <3>1, ShardsAreLargest DEF Placing, Created, Idx
      <4>2. keyed \cap lapsed[s] = {}
        BY DEF Kept
      <4>3. up \in lapsed'[s] => Strays(up)
        BY <4>1 DEF Strays
      <4> QED
        BY <3>1, <4>1, <4>2, <4>3
    <3>4. keyed' \subseteq vecs' \cup raced'
      BY <3>1 DEF Kept
    <3> QED
      BY <3>1, <3>2, <3>3, <3>4 DEF Kept, Idx
  <2>3. CASE exists # Readable(up)
    BY <2>3 DEF UpsertStore, Kept, Idx
  <2> QED
    BY <2>2, <2>3
<1> QED
  BY <1>1, <1>2, <1>3, <1>4

LEMMA VectorDeleteStep == ASSUME IInv, NEW k \in Keys, VectorDelete(k) PROVE IInv'
<1> USE ShardedStoreAssumption DEF IInv, scans, upserts, looks
<1>1. Placing'
  BY DEF Placing, Shards, Idx, VectorDelete, Change
<1>2. Locks'
  BY DEF Locks, VectorDelete, Change
<1>3. Calls'
  BY DEF Calls, Placing, Shards, VectorDelete, Change
<1>4. Kept'
  BY DEF Kept, Idx, VectorDelete, Change
<1> QED
  BY <1>1, <1>2, <1>3, <1>4

LEMMA LookStep == ASSUME IInv, NEW k \in Keys, Look(k) PROVE IInv'
<1> USE ShardedStoreAssumption DEF IInv, scans, upserts, looks
<1>1. Placing'
  BY DEF Placing, Shards, Idx, Look, Change
<1>2. Locks'
  BY DEF Locks, Look, Change
<1>3. Calls'
  BY DEF Calls, Shards, Look, Change
<1>4. Kept'
  BY DEF Kept, Idx, Look, Change
<1> QED
  BY <1>1, <1>2, <1>3, <1>4

LEMMA LookUpStep == ASSUME IInv, LookUp PROVE IInv'
<1> USE DEF IInv, scans, upserts, looks
<1>1. Placing'
  BY DEF Placing, Shards, Idx, LookUp
<1>2. Locks'
  BY DEF Locks, LookUp
<1>3. Calls'
  BY DEF Calls, Shards, LookUp
<1>4. Kept'
  BY DEF Kept, Idx, LookUp
<1> QED
  BY <1>1, <1>2, <1>3, <1>4

LEMMA LookDropStep == ASSUME IInv, LookDrop PROVE IInv'
<1> USE DEF IInv, scans, upserts, looks
<1>1. Placing'
  BY DEF Placing, Shards, Idx, LookDrop
<1>2. Locks'
  BY DEF Locks, LookDrop
<1>3. Calls'
  BY DEF Calls, Shards, LookDrop
<1>4. Kept'
  BY DEF Kept, Idx, LookDrop
<1> QED
  BY <1>1, <1>2, <1>3, <1>4

LEMMA ReshardStep == ASSUME IInv, NEW c \in Counts, Reshard(c) PROVE IInv'
<1> USE ShardedStoreAssumption DEF IInv, scans, upserts, looks
<1>1. Placing'
  BY DEF Placing, Shards, Idx, Reshard, Change
<1>2. Locks'
  BY DEF Locks, Reshard, Change
<1>3. Calls'
  BY DEF Calls, Reshard, Change
<1>4. Kept'
  BY DEF Kept, Idx, Reshard, Change
<1> QED
  BY <1>1, <1>2, <1>3, <1>4

LEMMA RestartStep == ASSUME IInv, NEW c \in Counts, Restart(c) PROVE IInv'
<1> USE ShardedStoreAssumption, ShardsAreLargest, LargestAreNumbers
    DEF IInv, scans, upserts, looks
<1>1. Placing'
  <2>1. n' = c /\ num' = c /\ (placed' = ByRing(c) \/ placed' = ByNumber(c))
    BY DEF Restart
  <2>0. /\ lapsed' \in [Largest -> SUBSET Keys]
        /\ \A s \in Largest : lapsed'[s] \subseteq placed'[s]
    BY DEF Restart
  <2>2. Present \subseteq Keys
    BY DEF Placing, Present, Live
  <2>3. CASE placed' = ByRing(c)
    <3>1. placed' \in [Largest -> SUBSET Keys]
      BY <2>2, <2>3 DEF ByRing
    <3>2. \A s \in Largest \ 0..(c - 1) : placed'[s] = {}
      BY <2>2, <2>3 DEF ByRing
    <3> QED
      BY <2>0, <2>1, <3>1, <3>2 DEF Placing, Shards
  <2>4. CASE placed' = ByNumber(c)
    <3>1. placed' \in [Largest -> SUBSET Keys]
      BY <2>4 DEF Placing, ByNumber, Live
    <3>2. \A s \in Largest \ 0..(c - 1) : placed'[s] = {}
      BY <2>4 DEF ByNumber
    <3> QED
      BY <2>0, <2>1, <3>1, <3>2 DEF Placing, Shards
  <2> QED
    BY <2>1, <2>3, <2>4
<1>2. Locks'
  BY DEF Locks, Restart, Change, ByRing, ByNumber
<1>3. Calls'
  <2>1. keyed' \subseteq keyed /\ UNCHANGED <<vecs, raced>>
    BY DEF Restart
  <2>2. changes' \in 0..MaxChanges
    BY DEF Calls, Restart, Change
  <2>3. up' = None /\ at' = "idle" /\ look' = None /\ ~missed' /\ purging' = None
    BY DEF Restart
  <2> QED
    BY <2>1, <2>2, <2>3 DEF Calls
<1>4. Kept'
  <2>1. n' = c /\ (\A s \in Largest : lapsed'[s] = {}) /\ keyed' \subseteq keyed /\ UNCHANGED <<vecs, raced>>
    BY DEF Restart
  <2>2. ASSUME ~moved', NEW s \in Largest, NEW k \in placed'[s] PROVE Ring[c][k] = s
    <3>1. CASE placed' = ByRing(c)
      BY <2>2, <3>1 DEF ByRing
    <3>2. CASE placed' = ByNumber(c) /\ moved' = (moved \/ c # n)
      <4>1. ~moved /\ c = n /\ k \in placed[s]
        BY <2>2, <3>2 DEF ByNumber, Live
      <4> QED
        BY <4>1 DEF Kept, Idx
    <3> QED
      BY <3>1, <3>2 DEF Restart
  <2> QED
    BY <2>1, <2>2 DEF Kept, Idx
<1> QED
  BY <1>1, <1>2, <1>3, <1>4

-----------------------------------------------------------------------------
(* The theorems. *)

\* The inductive invariant holds in every reachable state.
THEOREM ShardedStoreInductive == Spec => []IInv
<1>1. ASSUME Init PROVE IInv
  <2>1. PICK K \in SUBSET Keys : placed = [s \in Largest |-> {k \in K : Idx(k) = s}]
    BY <1>1 DEF Init
  <2>2. Placing
    <3>1. n \in Counts /\ num \in Counts /\ lapsed = [s \in Largest |-> {}]
      BY <1>1 DEF Init
    <3>2. \A k \in Keys : Idx(k) \in Shards
      BY <3>1, ShardsAreLargest DEF Idx, Shards
    <3>3. \A s \in Largest \ Shards : placed[s] = {}
      BY <2>1, <3>2
    <3>4. placed \in [Largest -> SUBSET Keys]
      BY <2>1
    <3> QED
      BY <3>1, <3>3, <3>4 DEF Placing
  <2> USE <1>1, ShardedStoreAssumption, ShardsAreLargest DEF Init
  <2>3. Locks
    BY DEF Locks
  <2>4. Calls /\ Kept
    BY <2>1 DEF Calls, Kept, Idx
  <2> QED
    BY <2>2, <2>3, <2>4 DEF IInv
<1>2. ASSUME IInv, UNCHANGED vars PROVE IInv'
  BY <1>2 DEF vars, scans, upserts, looks, IInv, Placing, Shards, Locks,
     Calls, Kept, Idx
<1>3. ASSUME IInv, Next PROVE IInv'
  BY <1>3, BeginStep, OpenStep, PageStep, CreateStep, DeleteStep, EvictStep,
     LapseStep, PurgeStep, PurgeShardStep, UpsertStep, UpsertIndexStep,
     UpsertStoreStep, VectorDeleteStep, LookStep, LookUpStep, LookDropStep,
     ReshardStep, RestartStep DEF Next, Paging
<1> QED
  BY <1>1, <1>2, <1>3, PTL DEF Spec

\* Every key lies in the shard its reads ask, whatever was written, purged, evicted or
\* restarted, and through reshards that fail; only a snapshot of another number of
\* shards breaks it.
THEOREM KeysLieWhereTheyAreRead == Spec => []KeysAreFound
<1>1. IInv => KeysAreFound
  BY DEF IInv, Placing, Locks, Calls, Kept, KeysAreFound, TypeOK
<1> QED
  BY <1>1, ShardedStoreInductive, PTL

\* No order of writes, purges, upserts and readers takes the vector of a key that keeps
\* it, but for the race of a reader that missed the key.
THEOREM VectorsLast == Spec => []VectorsKept
<1>1. IInv => VectorsKept
  BY DEF IInv, Kept, VectorsKept
<1> QED
  BY <1>1, ShardedStoreInductive, PTL

\* However many scans hold however many shards, one of them can go on: whoever holds
\* the last locked shard has only free ones before it.
THEOREM ScansNeverBlockEachOther == Spec => []SomeoneGoesOn
<1>1. IInv => SomeoneGoesOn
  <2> SUFFICES ASSUME IInv, NEW z \in Shards, lock[z] # None
               PROVE  \E p \in Scanners :
                        heap[p] # {} /\ (next[p] = n \/ lock[Opens(p)] = None)
    BY DEF SomeoneGoesOn
  <2> DEFINE S == {s \in Shards : lock[s] # None}
  <2>1. n \in Nat /\ Shards = 0..(n - 1) /\ Shards \subseteq Largest
    BY ShardsAreLargest DEF IInv, Placing, Shards
  <2>2. PICK s \in S : \A t \in S : t <= s
    BY <2>1, LastOfSome, z \in S
  <2>3. PICK p \in Scanners : lock[s] = p
    BY <2>1, <2>2 DEF IInv, Locks
  <2>4. s \in heap[p] /\ next[p] \in Nat /\ s < next[p] /\ next[p] <= n
    BY <2>1, <2>3, LargestAreNumbers DEF IInv, Locks
  <2>5. next[p] # n => next[p] \in Shards \ S
    BY <2>1, <2>2, <2>4
  <2> QED
    BY <2>3, <2>4, <2>5 DEF Opens
<1> QED
  BY <1>1, ShardedStoreInductive, PTL

-----------------------------------------------------------------------------
(* The least of a finite set of keys and shards. *)

\* Keys and shards as the iterators hold them.
Slots == Keys \X Largest

\* How many of S come before x.
Rank(S, x) == Cardinality({y \in S : Before(y, x)})

LEMMA BeforeOrders ==
  /\ \A x \in Slots : ~Before(x, x)
  /\ \A x, y \in Slots : x = y \/ Before(x, y) \/ Before(y, x)
  /\ \A x, y, z \in Slots : Before(x, y) /\ Before(y, z) => Before(x, z)
<1>0. Keys \subseteq Nat /\ Largest \subseteq Nat
  <2>1. Keys \subseteq Nat
    BY ShardedStoreAssumption
  <2> QED
    BY <2>1, LargestAreNumbers
<1>1. \A x \in Slots : x[1] \in Nat /\ x[2] \in Nat /\ x = <<x[1], x[2]>>
  <2> TAKE x \in Slots
  <2>1. x \in Keys \X Largest
    BY DEF Slots
  <2>2. x[1] \in Keys /\ x[2] \in Largest /\ x = <<x[1], x[2]>>
    BY <2>1
  <2> QED
    BY <1>0, <2>2
<1> QED
  BY <1>1 DEF Before

LEMMA RankGrows ==
  ASSUME NEW S \in SUBSET Slots, IsFiniteSet(S), NEW x \in S, NEW y \in Slots, Before(x, y)
  PROVE  Rank(S, x) \in Nat /\ Rank(S, y) \in Nat /\ Rank(S, x) < Rank(S, y)
<1> DEFINE A == {z \in S : Before(z, x)}
           B == {z \in S : Before(z, y)}
<1>1. A \subseteq B /\ B \subseteq S
  BY BeforeOrders
<1>2. x \in B /\ x \notin A
  BY BeforeOrders
<1>3. IsFiniteSet(B) /\ Cardinality(B) \in Nat
  BY <1>1, FS_Subset, FS_CardinalityType
<1>4. /\ IsFiniteSet(A) /\ Cardinality(A) \in Nat /\ Cardinality(A) <= Cardinality(B)
      /\ Cardinality(A) = Cardinality(B) => A = B
  BY <1>1, <1>3, FS_Subset, FS_CardinalityType
<1>5. Cardinality(A) < Cardinality(B)
  BY <1>2, <1>3, <1>4
<1> QED
  BY <1>3, <1>4, <1>5 DEF Rank

\* Of a set of numbers one is the least.
LEMMA LeastOfSome ==
  ASSUME NEW T \in SUBSET Nat, T # {}
  PROVE  \E t \in T : \A u \in T : t <= u
<1>1. PICK x \in T : \A y \in T : ~(<<y, x>> \in OpToRel(<, Nat))
  BY NatLessThanWellFounded, WFMin
<1>2. ASSUME NEW u \in T PROVE x <= u
  <2>1. ~(u < x)
    BY <1>1 DEF OpToRel
  <2> QED
    BY <2>1
<1> QED
  BY <1>2

\* The first m of S come before all the others, and are m unless there are no others.
LEMMA SmallestFirst ==
  ASSUME NEW S \in SUBSET Slots, IsFiniteSet(S), NEW m \in Nat
  PROVE  /\ Smallest(S, m) \subseteq S
         /\ \A x \in Smallest(S, m), y \in S \ Smallest(S, m) : Before(x, y)
         /\ IsFiniteSet(Smallest(S, m))
         /\ Cardinality(Smallest(S, m)) < m => Smallest(S, m) = S
<1> DEFINE K == Smallest(S, m)
<1>1. K = {x \in S : Rank(S, x) < m} /\ K \subseteq S
  BY DEF Smallest, Rank
<1>2. \A x \in S : Rank(S, x) \in Nat
  <2> TAKE x \in S
  <2>1. {y \in S : Before(y, x)} \subseteq S
    OBVIOUS
  <2> QED
    BY <2>1, FS_Subset, FS_CardinalityType DEF Rank
<1>3. ASSUME NEW x \in K, NEW y \in S \ K PROVE Before(x, y)
  <2>1. Rank(S, x) < m /\ ~(Rank(S, y) < m) /\ x # y
    BY <1>1
  <2>2. ~Before(y, x)
    BY <1>1, <1>2, <2>1, RankGrows
  <2> QED
    BY <1>1, <2>1, <2>2, BeforeOrders
<1>4. IsFiniteSet(K)
  BY <1>1, FS_Subset
<1>5. ASSUME Cardinality(K) < m, S # K PROVE FALSE
  <2> DEFINE T == {Rank(S, x) : x \in S \ K}
  <2>1. T \subseteq Nat /\ T # {}
    BY <1>1, <1>2, <1>5
  <2>2. PICK x \in S \ K : \A y \in S \ K : Rank(S, x) <= Rank(S, y)
    <3> HIDE DEF T
    <3>1. PICK t \in T : \A u \in T : t <= u
      BY <2>1, LeastOfSome
    <3> QED
      BY <3>1 DEF T
  <2>3. {y \in S : Before(y, x)} \subseteq K
    <3> SUFFICES ASSUME NEW y \in S, Before(y, x), y \notin K PROVE FALSE
      OBVIOUS
    <3>1. Rank(S, y) < Rank(S, x) /\ Rank(S, y) \in Nat /\ Rank(S, x) \in Nat
      BY RankGrows
    <3> QED
      BY <2>2, <3>1
  <2>4. Rank(S, x) <= Cardinality(K) /\ Cardinality(K) \in Nat
    BY <1>4, <2>3, FS_Subset, FS_CardinalityType DEF Rank
  <2>5. ~(Rank(S, x) < m)
    BY <1>1
  <2> QED
    BY <1>2, <1>5, <2>4, <2>5
<1> QED
  BY <1>1, <1>3, <1>4, <1>5

\* A finite set of keys has a greatest.
LEMMA GreatestKey ==
  ASSUME NEW T \in SUBSET Keys, T # {}
  PROVE  Max(T) \in T /\ \A t \in T : t <= Max(T)
<1> DEFINE above(x) == {y \in T : x < y}
           C == {Cardinality(above(x)) : x \in T}
<1>1. Keys \subseteq Nat /\ IsFiniteSet(Keys)
  BY ShardedStoreAssumption
<1>2. IsFiniteSet(T)
  BY <1>1, FS_Subset
<1>3. \A x \in T : IsFiniteSet(above(x)) /\ Cardinality(above(x)) \in Nat
  <2> TAKE x \in T
  <2>1. above(x) \subseteq T
    OBVIOUS
  <2> QED
    BY <1>2, <2>1, FS_Subset, FS_CardinalityType
<1>4. PICK x \in T : \A y \in T : Cardinality(above(x)) <= Cardinality(above(y))
  <2>1. C \subseteq Nat /\ C # {}
    BY <1>3
  <2> HIDE DEF C
  <2>2. PICK t \in C : \A u \in C : t <= u
    BY <2>1, LeastOfSome
  <2> QED
    BY <2>2 DEF C
<1>5. ASSUME NEW y \in T PROVE y <= x
  <2> SUFFICES ASSUME x < y PROVE FALSE
    BY <1>1
  <2>1. above(y) \subseteq above(x) /\ y \in above(x) /\ y \notin above(y)
    <3>1. \A z \in T : z \in Nat
      BY <1>1
    <3> QED
      BY <1>4, <1>5, <3>1
  <2> HIDE DEF above
  <2>2. /\ Cardinality(above(y)) <= Cardinality(above(x))
        /\ Cardinality(above(y)) = Cardinality(above(x)) => above(y) = above(x)
    BY <1>3, <2>1, FS_Subset
  <2>3. Cardinality(above(y)) \in Nat /\ Cardinality(above(x)) \in Nat
        /\ Cardinality(above(x)) <= Cardinality(above(y))
    BY <1>3, <1>4
  <2> QED
    BY <2>1, <2>2, <2>3
<1>6. \E t \in T : \A u \in T : t >= u
  BY <1>1, <1>5
<1>7. Max(T) \in T /\ \A u \in T : Max(T) >= u
  BY <1>6 DEF Max
<1> QED
  BY <1>1, <1>7

-----------------------------------------------------------------------------
(* Scans.  What is said of the scan of p: *)

Cursor == [of: Counts, pos: [Largest -> Nat], plain: BOOLEAN, again: BOOLEAN]
Gotten == [once: SUBSET Keys, twice: SUBSET Keys]

ScanTypes(p) ==
  /\ cursor[p] \in Cursor /\ got[p] \in Gotten
  /\ must[p] \in SUBSET Keys /\ may[p] \in SUBSET Keys
  /\ pc[p] = "idle" => got[p].once = {} /\ got[p].twice = {}

\* The key k is in a shard that an iterator has or will have.
Ahead(p, k) == \E s \in Shards : k \in Live(s) /\ (s < next[p] => s \in heap[p])

\* What must still be returned lies behind every position.
Remaining(p) ==
  \A k \in must[p] \ got[p].once :
    Ahead(p, k) /\ \A s \in Largest : cursor[p].pos[s] < k

\* What is returned, or may be before another change, has been there.
Seen(p) ==
  /\ got[p].once \subseteq may[p]
  /\ \A s \in Largest : Live(s) \subseteq may[p]
  /\ \A s \in heap[p] : After(p, s) \subseteq may[p]

\* A plain scan has one position; that of a shard covers what was returned of it.
Onwards(p) ==
  /\ cursor[p].plain => \A s, t \in Largest : cursor[p].pos[s] = cursor[p].pos[t]
  /\ ~cursor[p].again /\ ~moved =>
       /\ got[p].twice = {}
       /\ cursor[p].plain \/ cursor[p].of = n
       /\ \A k \in got[p].once : k <= cursor[p].pos[Idx(k)]

Exact(p) ==
  /\ must[p] \subseteq got[p].once
  /\ got[p].once \subseteq may[p]
  /\ got[p].twice # {} => cursor[p].again \/ moved

ScanOK(p) ==
  /\ ScanTypes(p)
  /\ pc[p] = "open" => Remaining(p) /\ Seen(p) /\ Onwards(p)
  /\ pc[p] = "done" => Exact(p)

Domains ==
  /\ DOMAIN cursor = Scanners /\ DOMAIN got = Scanners
  /\ DOMAIN must = Scanners /\ DOMAIN may = Scanners

ScansInv == Domains /\ \A p \in Scanners : ScanOK(p)

\* The scan of p stands where it stood.
Stands(p) ==
  /\ n' = n /\ moved' = moved
  /\ pc'[p] = pc[p] /\ cursor'[p] = cursor[p] /\ heap'[p] = heap[p] /\ next'[p] = next[p]
  /\ got'[p] = got[p]

\* No key that must be returned has left its shard, and those that have come were
\* entered in may, in shards no iterator has.
Calm(p) ==
  IF Running(p)
  THEN /\ must'[p] \subseteq must[p] /\ may[p] \subseteq may'[p] /\ may'[p] \subseteq Keys
       /\ \A s \in Largest : Live(s) \cap must'[p] \subseteq Live(s)'
       /\ \A s \in Largest : Live(s)' \subseteq may'[p]
       /\ \A s \in heap[p] : placed'[s] \subseteq placed[s]
  ELSE must'[p] = must[p] /\ may'[p] = may[p]

LEMMA CalmKeeps ==
  ASSUME Placing, Locks, NEW p \in Scanners, ScanOK(p), Stands(p), Calm(p)
  PROVE  ScanOK(p)'
<1>0. Shards' = Shards /\ Shards \subseteq Largest /\ heap[p] \subseteq Largest
  BY ShardsAreLargest DEF Stands, Shards, Placing, Locks
<1>1. ScanTypes(p)'
  BY DEF ScanOK, ScanTypes, Stands, Calm, Running
<1>2. ASSUME pc[p] = "open" PROVE Remaining(p)' /\ Seen(p)' /\ Onwards(p)'
  <2>1. Remaining(p) /\ Seen(p) /\ Onwards(p)
    BY <1>2 DEF ScanOK
  <2>2. /\ must'[p] \subseteq must[p] /\ may[p] \subseteq may'[p]
        /\ \A s \in Largest : Live(s) \cap must'[p] \subseteq Live(s)'
        /\ \A s \in Largest : Live(s)' \subseteq may'[p]
        /\ \A s \in heap[p] : placed'[s] \subseteq placed[s]
    BY <1>2 DEF Calm, Running
  <2>3. Remaining(p)'
    <3> SUFFICES ASSUME NEW k \in must'[p] \ got'[p].once
                 PROVE  Ahead(p, k)' /\ \A s \in Largest : cursor'[p].pos[s] < k
      BY DEF Remaining
    <3>1. k \in must[p] \ got[p].once
      BY <2>2 DEF Stands
    <3>2. \A s \in Largest : cursor[p].pos[s] < k
      BY <2>1, <3>1 DEF Remaining
    <3>3. PICK s \in Shards : k \in Live(s) /\ (s < next[p] => s \in heap[p])
      BY <2>1, <3>1 DEF Remaining, Ahead
    <3>4. k \in Live(s)'
      BY <1>0, <2>2, <3>3
    <3>5. Ahead(p, k)'
      BY <1>0, <3>3, <3>4 DEF Ahead, Stands
    <3> QED
      BY <3>2, <3>5 DEF Stands
  <2>4. Seen(p)'
    <3>1. got'[p].once \subseteq may'[p]
      BY <2>1, <2>2 DEF Seen, Stands
    <3>2. \A s \in heap'[p] : After(p, s)' \subseteq may'[p]
      BY <2>1, <2>2 DEF Seen, Stands, After
    <3> QED
      BY <2>2, <3>1, <3>2 DEF Seen
  <2>5. Onwards(p)'
    BY <2>1 DEF Onwards, Stands, Idx
  <2> QED
    BY <2>3, <2>4, <2>5
<1>3. ASSUME pc[p] = "done" PROVE Exact(p)'
  <2>1. Exact(p) /\ must'[p] = must[p] /\ may'[p] = may[p]
    BY <1>3 DEF ScanOK, Calm, Running
  <2> QED
    BY <2>1 DEF Exact, Stands
<1> QED
  BY <1>1, <1>2, <1>3 DEF ScanOK, Stands

LEMMA AllCalm ==
  ASSUME Placing, Locks, ScansInv, UNCHANGED <<n, moved, scans, got>>,
         Domains', \A p \in Scanners : Calm(p)
  PROVE  ScansInv'
<1> SUFFICES ASSUME NEW p \in Scanners PROVE ScanOK(p)'
  BY DEF ScansInv
<1>1. Stands(p)
  BY DEF Stands, scans
<1> QED
  BY <1>1, CalmKeeps DEF ScansInv

\* What a scan under way may return contains what is there.
LEMMA RunningSees ==
  ASSUME ScansInv, NEW p \in Scanners, Running(p)
  PROVE  /\ may[p] \subseteq Keys /\ must[p] \subseteq Keys
         /\ \A s \in Largest : Live(s) \subseteq may[p]
BY DEF ScansInv, ScanOK, ScanTypes, Seen, Running

LEMMA NothingChanges ==
  ASSUME ScansInv, NEW p \in Scanners, UNCHANGED <<placed, lapsed, must, may>>
  PROVE  Calm(p)
BY RunningSees DEF Calm, Live

LEMMA KeyComes ==
  ASSUME Placing, Locks, ScansInv, NEW p \in Scanners, NEW k \in Keys,
         Created(k), Appear({k}), lock[Idx(k)] = None
  PROVE  Calm(p)
<1>1. Idx(k) \in Largest
  BY ShardsAreLargest DEF Placing, Idx
<1>2. Idx(k) \notin heap[p]
  BY <1>1, ShardedStoreAssumption DEF Locks
<1>3. CASE Running(p)
  <2>1. must'[p] = must[p] /\ may'[p] = may[p] \cup {k}
    BY <1>3 DEF Appear
  <2>2. \A s \in Largest : Live(s) \subseteq Live(s)' /\ Live(s)' \subseteq Live(s) \cup {k}
    BY <1>1 DEF Created, Live, Placing
  <2>3. \A s \in heap[p] : placed'[s] \subseteq placed[s]
    BY <1>1, <1>2 DEF Created, Placing
  <2>4. may[p] \subseteq Keys /\ \A s \in Largest : Live(s) \subseteq may[p]
    BY <1>3, RunningSees
  <2> QED
    BY <1>3, <2>1, <2>2, <2>3, <2>4 DEF Calm
<1>4. CASE ~Running(p)
  BY <1>4 DEF Calm, Appear
<1> QED
  BY <1>3, <1>4

LEMMA KeyLeaves ==
  ASSUME Placing, Locks, ScansInv, NEW p \in Scanners, NEW k \in Keys, NEW s \in Largest,
         Removed(k, s) \/ (lapsed' = [lapsed EXCEPT ![s] = @ \cup {k}] /\ placed' = placed),
         Vanish({k})
  PROVE  Calm(p)
<1>1. CASE Running(p)
  <2>1. must'[p] = must[p] \ {k} /\ may'[p] = may[p]
    BY <1>1 DEF Vanish
  <2>2. \A t \in Largest : /\ Live(t) \ {k} \subseteq Live(t)' /\ Live(t)' \subseteq Live(t)
                           /\ placed'[t] \subseteq placed[t]
    BY DEF Removed, Live, Placing
  <2>3. may[p] \subseteq Keys /\ \A t \in Largest : Live(t) \subseteq may[p]
    BY <1>1, RunningSees
  <2>4. \A t \in heap[p] : placed'[t] \subseteq placed[t]
    BY <2>2 DEF Locks
  <2> QED
    BY <1>1, <2>1, <2>2, <2>3, <2>4 DEF Calm
<1>2. CASE ~Running(p)
  BY <1>2 DEF Calm, Vanish
<1> QED
  BY <1>1, <1>2

\* A purge takes what had lapsed before.
LEMMA ShardPurged ==
  ASSUME Placing, ScansInv, NEW p \in Scanners, NEW s \in Largest,
         placed' = [placed EXCEPT ![s] = @ \ lapsed[s]], lapsed' = [lapsed EXCEPT ![s] = {}],
         UNCHANGED <<must, may>>
  PROVE  Calm(p)
<1>1. \A t \in Largest : Live(t)' = Live(t)
  BY DEF Live, Placing
<1>2. \A t \in heap[p] : placed'[t] \subseteq placed[t]
  BY DEF Placing
<1> QED
  BY <1>1, <1>2, RunningSees DEF Calm

\* All calls but those of the scans, and restarts, let the scans stand.
Others ==
  \/ \E k \in Keys :
       \/ Create(k) \/ Delete(k) \/ \E s \in Shards : Evict(k, s) \/ Lapse(k, s)
       \/ Upsert(k) \/ VectorDelete(k) \/ Look(k)
  \/ Purge \/ PurgeShard
  \/ UpsertIndex \/ UpsertStore \/ LookUp \/ LookDrop
  \/ \E c \in Counts : Reshard(c)

LEMMA OthersKeep ==
  ASSUME IInv, ScansInv, Others
  PROVE  ScansInv'
<1>0. Placing /\ Locks /\ Shards \subseteq Largest
  BY ShardsAreLargest DEF IInv, Placing, Shards
<1>1. UNCHANGED <<n, moved, scans, got>>
  BY DEF Others, Create, Delete, Evict, Lapse, Upsert, VectorDelete, Look, Purge,
     PurgeShard, UpsertIndex, UpsertStore, LookUp, LookDrop, Reshard
<1>2. ASSUME NEW p \in Scanners PROVE Calm(p)
  <2>1. ASSUME NEW k \in Keys, Create(k) PROVE Calm(p)
    BY <1>0, <2>1, KeyComes DEF Create, Writes
  <2>2. ASSUME NEW k \in Keys, Delete(k) PROVE Calm(p)
    <3>1. Idx(k) \in Largest
      BY ShardsAreLargest DEF IInv, Placing, Idx
    <3> QED
      BY <1>0, <2>2, <3>1, KeyLeaves DEF Delete, Removed
  <2>3. ASSUME NEW k \in Keys, NEW s \in Shards, Evict(k, s) \/ Lapse(k, s) PROVE Calm(p)
    BY <1>0, <2>3, KeyLeaves DEF Evict, Lapse, Removed
  <2>4. ASSUME PurgeShard PROVE Calm(p)
    <3>1. purging \in Largest
      BY <1>0, <2>4 DEF IInv, Calls, PurgeShard
    <3>2. /\ placed' = [placed EXCEPT ![purging] = @ \ lapsed[purging]]
          /\ lapsed' = [lapsed EXCEPT ![purging] = {}] /\ UNCHANGED <<must, may>>
      BY <2>4 DEF PurgeShard, Live
    <3> QED
      BY <1>0, <3>1, <3>2, ShardPurged
  <2>5. ASSUME UpsertStore PROVE Calm(p)
    <3>1. up \in Keys
      BY <2>5 DEF IInv, Calls, UpsertStore
    <3>2. CASE exists = Readable(up)
      BY <1>0, <2>5, <3>1, <3>2, KeyComes DEF UpsertStore, Writes
    <3>3. CASE exists # Readable(up)
      BY <2>5, <3>3, NothingChanges DEF UpsertStore
    <3> QED
      BY <3>2, <3>3
  <2>6. ASSUME \/ \E k \in Keys : Upsert(k) \/ VectorDelete(k) \/ Look(k)
               \/ Purge \/ UpsertIndex \/ LookUp \/ LookDrop
               \/ \E c \in Counts : Reshard(c)
        PROVE  Calm(p)
    <3>1. UNCHANGED <<placed, lapsed, must, may>>
      BY <2>6 DEF Upsert, VectorDelete, Look, Purge, UpsertIndex, LookUp, LookDrop, Reshard
    <3> QED
      BY <3>1, NothingChanges
  <2> QED
    BY <2>1, <2>2, <2>3, <2>4, <2>5, <2>6 DEF Others
<1>3. Domains'
  <2>1. Domains /\ UNCHANGED <<cursor, got>>
    BY <1>1 DEF ScansInv, scans
  <2>2. UNCHANGED <<must, may>> \/ \E K : Appear(K) \/ Vanish(K)
    BY DEF Others, Create, Delete, Evict, Lapse, Upsert, VectorDelete, Look, Purge, Removed,
       PurgeShard, UpsertIndex, UpsertStore, LookUp, LookDrop, Reshard
  <2> QED
    BY <2>1, <2>2 DEF Domains, Appear, Vanish
<1> QED
  BY <1>0, <1>1, <1>2, <1>3, AllCalm

LEMMA BeginScans ==
  ASSUME IInv, ScansInv, NEW p \in Scanners, Begin(p)
  PROVE  ScansInv'
<1>0. Placing /\ Locks /\ n \in Counts /\ Shards \subseteq Largest /\ n' = n
  BY ShardsAreLargest DEF IInv, Placing, Shards, Begin
<1>d. Domains /\ Domains'
  BY DEF Begin, ScansInv, Domains
<1> SUFFICES ASSUME NEW q \in Scanners PROVE ScanOK(q)'
  BY <1>d DEF ScansInv
<1>1. CASE q # p
  <2>1. must'[q] = must[q] /\ may'[q] = may[q] /\ UNCHANGED <<placed, lapsed>>
    BY <1>1 DEF Begin, ScansInv, ScanOK, ScanTypes
  <2>2. Calm(q)
    BY <2>1, RunningSees DEF Calm, Live
  <2>3. Stands(q)
    BY <1>1 DEF Stands, Begin
  <2> QED
    BY <1>0, <2>2, <2>3, CalmKeeps DEF ScansInv
<1>2. CASE q = p
  <2>1. /\ pc'[p] = "open" /\ heap'[p] = {} /\ next'[p] = 0 /\ got'[p] = got[p]
        /\ must'[p] = Present /\ may'[p] = Present /\ UNCHANGED <<placed, lapsed, moved>>
    BY <1>0, <1>d DEF Begin, Locks, Domains
  <2>2. PICK plain \in BOOLEAN :
          cursor'[p] = [of |-> n, pos |-> [s \in Largest |-> 0], plain |-> plain, again |-> FALSE]
    BY <1>d DEF Begin, Domains
  <2>3. Present \subseteq Keys
    BY <1>0 DEF Present, Live, Placing
  <2>4. got[p] \in Gotten /\ got[p].once = {} /\ got[p].twice = {}
    BY DEF Begin, ScansInv, ScanOK, ScanTypes
  <2>5. ScanTypes(p)'
    BY <1>0, <2>1, <2>2, <2>3, <2>4 DEF ScanTypes, Cursor
  <2>6. Remaining(p)'
    <3> SUFFICES ASSUME NEW k \in Present
                 PROVE  Ahead(p, k)' /\ \A s \in Largest : cursor'[p].pos[s] < k
      BY <2>1 DEF Remaining
    <3>1. PICK s \in Largest : k \in Live(s)
      BY DEF Present
    <3>2. s \in Shards /\ s \in Nat
      BY <1>0, <3>1, LargestAreNumbers DEF Live, Placing
    <3>3. Live(s)' = Live(s) /\ Shards' = Shards
      BY <1>0, <2>1 DEF Live, Shards
    <3>4. k \in Nat /\ 0 < k
      BY <2>3, ShardedStoreAssumption
    <3> QED
      BY <2>1, <2>2, <3>1, <3>2, <3>3, <3>4 DEF Ahead
  <2>7. Seen(p)'
    BY <2>1, <2>4 DEF Seen, Present, Live
  <2>8. Onwards(p)'
    BY <1>0, <2>1, <2>2, <2>4 DEF Onwards
  <2> QED
    BY <1>2, <2>1, <2>5, <2>6, <2>7, <2>8 DEF ScanOK
<1> QED
  BY <1>1, <1>2

LEMMA OpenScans ==
  ASSUME IInv, ScansInv, NEW p \in Scanners, Open(p)
  PROVE  ScansInv'
<1>s. PICK s : s = next[p]
  OBVIOUS
<1>0. /\ Placing /\ Locks /\ Shards \subseteq Largest /\ n' = n
      /\ s \in Nat /\ s \in Shards /\ s \in Largest /\ Shards' = Shards
  BY <1>s, ShardsAreLargest DEF IInv, Placing, Locks, Shards, Open
<1>1. /\ placed' = [placed EXCEPT ![s] = @ \ lapsed[s]]
      /\ lapsed' = [lapsed EXCEPT ![s] = {}]
      /\ UNCHANGED <<must, may, pc, cursor, got, moved>>
      /\ next' = [next EXCEPT ![p] = @ + 1]
      /\ heap' = IF After(p, s) \ lapsed[s] # {} THEN [heap EXCEPT ![p] = @ \cup {s}] ELSE heap
  BY <1>s, <1>0 DEF Open, Opens, Opened, Placing
<1>2. \A t \in Largest : Live(t)' = Live(t)
  BY <1>0, <1>1 DEF Live, Placing
<1>d. Domains'
  BY <1>1 DEF ScansInv, Domains
<1> SUFFICES ASSUME NEW q \in Scanners PROVE ScanOK(q)'
  BY <1>d DEF ScansInv
<1>3. CASE q # p
  <2>1. Calm(q)
    BY <1>0, <1>1, ShardPurged
  <2>2. Stands(q)
    BY <1>0, <1>1, <1>3 DEF Stands, Locks
  <2> QED
    BY <1>0, <2>1, <2>2, CalmKeeps DEF ScansInv
<1>4. CASE q = p
  <2>1. pc[p] = "open" /\ ScanTypes(p) /\ Remaining(p) /\ Seen(p) /\ Onwards(p)
    BY DEF Open, ScansInv, ScanOK
  <2>2. next'[p] = s + 1 /\ heap[p] \subseteq heap'[p] /\ heap'[p] \subseteq heap[p] \cup {s}
        /\ heap[p] \subseteq Largest
        /\ (s \in heap'[p] <=> s \in heap[p] \/ After(p, s) \ lapsed[s] # {})
    BY <1>s, <1>0, <1>1 DEF Locks
  <2>3. Remaining(p)'
    <3> SUFFICES ASSUME NEW k \in must[p] \ got[p].once
                 PROVE  Ahead(p, k)' /\ \A t \in Largest : cursor[p].pos[t] < k
      BY <1>1 DEF Remaining
    <3>1. \A t \in Largest : cursor[p].pos[t] < k
      BY <2>1 DEF Remaining
    <3>2. PICK t \in Shards : k \in Live(t) /\ (t < next[p] => t \in heap[p])
      BY <2>1 DEF Remaining, Ahead
    <3>3. k \in Live(t)' /\ t \in Shards'
      BY <1>0, <1>2, <3>2
    <3>4. t < next'[p] => t \in heap'[p]
      <4>1. t \in Nat
        BY <1>0, <3>2, LargestAreNumbers
      <4>2. CASE t < s
        BY <1>s, <2>2, <3>2, <4>2
      <4>3. CASE t = s
        <5>1. k \in After(p, s) \ lapsed[s]
          BY <1>0, <3>1, <3>2, <4>3 DEF After, Live
        <5> QED
          BY <2>2, <4>3, <5>1
      <4> QED
        BY <1>0, <2>2, <4>1, <4>2, <4>3
    <3> QED
      BY <3>1, <3>3, <3>4 DEF Ahead
  <2>4. Seen(p)'
    <3>1. got'[p].once \subseteq may'[p]
      BY <1>1, <2>1 DEF Seen
    <3>2. \A t \in Largest : Live(t)' \subseteq may'[p]
      BY <1>1, <1>2, <2>1 DEF Seen
    <3>0. \A t \in Largest : placed'[t] \subseteq placed[t] /\ placed'[s] = Live(s)
      BY <1>0, <1>1 DEF Live, Placing
    <3>c. cursor' = cursor
      BY <1>1
    <3>3. \A t \in Largest : After(p, t)' \subseteq After(p, t)
      BY <3>0, <3>c DEF After
    <3>4. After(p, s)' \subseteq Live(s)
      BY <1>0, <3>0 DEF After
    <3>5. \A t \in heap'[p] : After(p, t)' \subseteq may'[p]
      BY <1>0, <1>1, <2>1, <2>2, <3>3, <3>4 DEF Seen
    <3> QED
      BY <3>1, <3>2, <3>5 DEF Seen
  <2>5. Onwards(p)' /\ ScanTypes(p)'
    BY <1>0, <1>1, <2>1 DEF Onwards, ScanTypes, Idx
  <2> QED
    BY <1>1, <1>4, <2>1, <2>3, <2>4, <2>5 DEF ScanOK
<1> QED
  BY <1>3, <1>4

\* What the iterators hold is finite, and in the shards of the store.
LEMMA HeldSlots ==
  ASSUME IInv, NEW p \in Scanners
  PROVE  /\ Held(p) \in SUBSET Slots /\ IsFiniteSet(Held(p))
         /\ \A x \in Held(p) : x[2] \in heap[p] /\ x[2] \in Shards /\ x[1] \in After(p, x[2])
                               /\ x[1] \in Keys /\ x = <<x[1], x[2]>>
<1>1. n \in Nat /\ Shards \subseteq Largest /\ heap[p] \subseteq Shards
  <2>1. n \in Nat /\ Shards = 0..(n - 1) /\ Shards \subseteq Largest
    BY ShardsAreLargest DEF IInv, Placing, Shards
  <2>2. next[p] \in Nat /\ next[p] <= n /\ heap[p] \subseteq 0..(next[p] - 1)
    BY DEF IInv, Locks
  <2> QED
    BY <2>1, <2>2
<1>2. IsFiniteSet(Shards) /\ IsFiniteSet(Keys)
  BY <1>1, FS_Interval, ShardedStoreAssumption DEF Shards
<1>3. IsFiniteSet(Keys \X Shards)
  BY <1>2, FS_Product
<1>4. Held(p) \subseteq Keys \X Shards
  BY <1>1 DEF Held
<1>5. IsFiniteSet(Held(p))
  BY <1>3, <1>4, FS_Subset
<1>6. \A x \in Held(p) : x[2] \in heap[p] /\ x[1] \in After(p, x[2]) /\ x[1] \in Keys
                         /\ x = <<x[1], x[2]>>
  BY DEF Held
<1> QED
  BY <1>1, <1>4, <1>5, <1>6 DEF Slots

LEMMA PageScans ==
  ASSUME IInv, ScansInv, NEW p \in Scanners, Page(p)
  PROVE  ScansInv'
<1>0. /\ Placing /\ Locks /\ Kept /\ n \in Counts /\ n \in Nat /\ Shards \subseteq Largest
      /\ n' = n
  BY ShardsAreLargest DEF IInv, Placing, Shards, Page
<1>K. PICK K : K = Smallest(Held(p), Limit)
  OBVIOUS
<1>o. PICK over : over = IF cursor[p].plain THEN Cardinality(K) < Limit ELSE K = Held(p)
  OBVIOUS
<1>P. PICK pairs : pairs = {x \in K : \E y \in K : x[1] = y[1] /\ x # y}
  OBVIOUS
<1>1. /\ pc[p] = "open" /\ next[p] = n
      /\ got' = [got EXCEPT ![p] = [once |-> got[p].once \cup Names(K),
                                    twice |-> (got[p].twice \cup (got[p].once \cap Names(K)))
                                              \cup Names(pairs)]]
      /\ cursor' = [cursor EXCEPT ![p].pos = Onward(p, K)]
      /\ pc' = [pc EXCEPT ![p] = IF over THEN "done" ELSE "open"]
      /\ heap' = [heap EXCEPT ![p] = {}] /\ next' = [next EXCEPT ![p] = 0]
      /\ UNCHANGED <<placed, lapsed, must, may, moved>>
  BY <1>K, <1>o, <1>P DEF Page
<1>d. Domains /\ Domains'
  BY <1>1 DEF ScansInv, Domains
<1> SUFFICES ASSUME NEW q \in Scanners PROVE ScanOK(q)'
  BY <1>d DEF ScansInv
<1>2. CASE q # p
  <2>1. Calm(q)
    BY <1>1, NothingChanges
  <2>2. Stands(q)
    BY <1>0, <1>1, <1>2 DEF Stands
  <2> QED
    BY <1>0, <2>1, <2>2, CalmKeeps DEF ScansInv
<1>3. CASE q = p
  <2>1. ScanTypes(p) /\ Remaining(p) /\ Seen(p) /\ Onwards(p)
    BY <1>1 DEF ScansInv, ScanOK
  <2>2. /\ K \subseteq Held(p)
        /\ \A x \in K, y \in Held(p) \ K : Before(x, y)
        /\ Cardinality(K) < Limit => K = Held(p)
    BY <1>K, HeldSlots, SmallestFirst, ShardedStoreAssumption
  <2>3. over => K = Held(p)
    BY <1>o, <2>2
  <2>4. \A x \in Held(p) : /\ x[2] \in heap[p] /\ x[2] \in Shards /\ x[2] \in Largest
                           /\ x[1] \in After(p, x[2]) /\ x[1] \in Keys /\ x[1] \in Nat
                           /\ x[1] > cursor[p].pos[x[2]] /\ x[1] \in placed[x[2]]
                           /\ x = <<x[1], x[2]>>
    BY <1>0, HeldSlots, ShardedStoreAssumption DEF After
  <2>5. /\ got'[p].once = got[p].once \cup Names(K)
        /\ got'[p].twice = (got[p].twice \cup (got[p].once \cap Names(K))) \cup Names(pairs)
        /\ got'[p] = [once |-> got'[p].once, twice |-> got'[p].twice]
        /\ cursor'[p] = [cursor[p] EXCEPT !.pos = Onward(p, K)]
        /\ pc'[p] = IF over THEN "done" ELSE "open"
        /\ heap'[p] = {} /\ next'[p] = 0 /\ must'[p] = must[p] /\ may'[p] = may[p]
    BY <1>0, <1>1, <1>d DEF Domains, Locks
  <2>6. Names(K) \subseteq Keys /\ Names(pairs) \subseteq Names(K)
    BY <1>P, <2>2, <2>4 DEF Names
  <2>7. cursor[p] \in Cursor /\ Keys \subseteq Nat
    BY <2>1, ShardedStoreAssumption DEF ScanTypes
  \* The positions move to keys that were returned.
  <2>8. ASSUME NEW s \in Largest
        PROVE  LET mine == Names({x \in K : cursor[p].plain \/ x[2] = s})
               IN /\ mine \subseteq Names(K)
                  /\ mine = {} => Onward(p, K)[s] = cursor[p].pos[s]
                  /\ mine # {} => /\ Onward(p, K)[s] \in mine
                                  /\ \A k \in mine : k <= Onward(p, K)[s]
    <3> DEFINE mine == Names({x \in K : cursor[p].plain \/ x[2] = s})
    <3>1. mine \subseteq Names(K) /\ mine \subseteq Keys
      BY <2>6 DEF Names
    <3>2. Onward(p, K)[s] = IF mine = {} THEN cursor[p].pos[s] ELSE Max(mine)
      BY DEF Onward
    <3> HIDE DEF mine
    <3>3. mine # {} => Max(mine) \in mine /\ \A k \in mine : k <= Max(mine)
      BY <3>1, GreatestKey
    <3>4. /\ mine \subseteq Names(K)
          /\ mine = {} => Onward(p, K)[s] = cursor[p].pos[s]
          /\ mine # {} => /\ Onward(p, K)[s] \in mine
                          /\ \A k \in mine : k <= Onward(p, K)[s]
      BY <3>1, <3>2, <3>3
    <3> QED
      BY <3>4 DEF mine
  <2>9. \A s \in Largest : /\ Onward(p, K)[s] \in Nat
                           /\ Onward(p, K)[s] = cursor[p].pos[s] \/ Onward(p, K)[s] \in Names(K)
    BY <2>6, <2>7, <2>8 DEF Cursor
  <2>10. Onward(p, K) \in [Largest -> Nat]
    BY <2>9 DEF Onward
  <2>11. ScanTypes(p)'
    <3>1. cursor'[p] \in Cursor
      BY <2>5, <2>7, <2>10 DEF Cursor
    <3>2. got'[p] \in Gotten
      BY <2>1, <2>5, <2>6 DEF ScanTypes, Gotten
    <3> QED
      BY <2>1, <2>5, <3>1, <3>2 DEF ScanTypes
  \* What must come and was not returned is held, behind all that was.
  <2>12. ASSUME NEW k \in must[p] \ got'[p].once
         PROVE  /\ K # Held(p)
                /\ \A j \in Names(K) : j < k
                /\ \A s \in Largest : cursor[p].pos[s] < k
                /\ \E s \in Shards : k \in Live(s)
    <3>1. k \in must[p] \ got[p].once /\ k \notin Names(K) /\ k \in Keys
      BY <2>1, <2>5, <2>12 DEF ScanTypes
    <3>2. \A s \in Largest : cursor[p].pos[s] < k
      BY <2>1, <3>1 DEF Remaining
    <3>3. PICK s \in Shards : k \in Live(s) /\ (s < next[p] => s \in heap[p])
      BY <2>1, <3>1 DEF Remaining, Ahead
    <3>4. s < n
      BY <1>0, <3>3 DEF Shards
    <3>5. k \in After(p, s) /\ s \in heap[p]
      BY <1>0, <1>1, <3>2, <3>3, <3>4 DEF After, Live
    <3>6. <<k, s>> \in Held(p)
      BY <3>1, <3>5 DEF Held
    <3>7. <<k, s>> \notin K
      BY <3>1 DEF Names
    <3>8. ASSUME NEW x \in K PROVE x[1] < k
      <4>1. Before(x, <<k, s>>)
        BY <2>2, <3>6, <3>7
      <4>2. x[1] # k /\ x[1] \in Nat /\ k \in Nat
        BY <2>2, <2>4, <2>7, <3>1 DEF Names
      <4> QED
        BY <4>1, <4>2 DEF Before
    <3> QED
      BY <3>2, <3>3, <3>6, <3>7, <3>8 DEF Names
  <2>13. ASSUME ~over PROVE Remaining(p)'
    <3> SUFFICES ASSUME NEW k \in must'[p] \ got'[p].once
                 PROVE  Ahead(p, k)' /\ \A s \in Largest : cursor'[p].pos[s] < k
      BY DEF Remaining
    <3>1. /\ \A j \in Names(K) : j < k
          /\ \A s \in Largest : cursor[p].pos[s] < k
          /\ \E s \in Shards : k \in Live(s)
      BY <2>5, <2>12
    <3>2. Ahead(p, k)'
      <4>1. PICK s \in Shards : k \in Live(s)
        BY <3>1
      <4>2. s \in Shards' /\ k \in Live(s)' /\ s \in Nat
        BY <1>0, <1>1, <4>1, LargestAreNumbers DEF Shards, Live
      <4>3. ~(s < next'[p])
        BY <2>5, <4>2
      <4> QED
        BY <4>2, <4>3 DEF Ahead
    <3>3. \A s \in Largest : cursor'[p].pos[s] < k
      BY <2>5, <2>7, <2>9, <3>1 DEF Cursor
    <3> QED
      BY <3>2, <3>3
  <2>14. got'[p].once \subseteq may'[p]
    <3>1. Names(K) \subseteq may[p]
      BY <2>1, <2>2, <2>4 DEF Names, Seen
    <3> QED
      BY <2>1, <2>5, <3>1 DEF Seen
  <2>15. Seen(p)'
    BY <1>1, <2>1, <2>5, <2>14 DEF Seen, Live
  \* No key comes a second time.
  <2>16. ASSUME ~cursor[p].again, ~moved
         PROVE  /\ got'[p].twice = {}
                /\ cursor[p].plain \/ cursor[p].of = n
                /\ \A k \in got'[p].once : k <= Onward(p, K)[Idx(k)]
    <3>1. /\ got[p].twice = {}
          /\ cursor[p].plain \/ cursor[p].of = n
          /\ \A k \in got[p].once : k <= cursor[p].pos[Idx(k)]
      BY <2>1, <2>16 DEF Onwards
    <3>2. \A x \in K : x[2] = Idx(x[1]) /\ cursor[p].pos[Idx(x[1])] < x[1]
      BY <1>0, <2>2, <2>4, <2>16 DEF Kept
    <3>3. pairs = {}
      <4> SUFFICES ASSUME NEW x \in K, NEW y \in K, x[1] = y[1], x # y PROVE FALSE
        BY <1>P
      <4>1. x = <<x[1], x[2]>> /\ y = <<y[1], y[2]>>
        BY <2>2, <2>4
      <4> QED
        BY <3>2, <4>1
    <3>4. \A k \in Keys : Idx(k) \in Largest /\ cursor[p].pos[Idx(k)] \in Nat
      BY <1>0, <2>7, ShardsAreLargest DEF Idx, Cursor
    <3>5. got[p].once \cap Names(K) = {}
      <4> SUFFICES ASSUME NEW x \in K, x[1] \in got[p].once PROVE FALSE
        BY DEF Names
      <4>1. x[1] <= cursor[p].pos[Idx(x[1])] /\ cursor[p].pos[Idx(x[1])] < x[1]
        BY <3>1, <3>2
      <4>2. x[1] \in Keys
        BY <2>2, <2>4
      <4>3. PICK k \in Nat : k = x[1]
        BY <2>7, <4>2
      <4>4. PICK l \in Nat : l = cursor[p].pos[Idx(x[1])]
        BY <3>4, <4>2
      <4> QED
        BY <4>1, <4>3, <4>4
    <3>6. got'[p].twice = {}
      <4>1. Names(pairs) = {}
        BY <3>3 DEF Names
      <4> QED
        BY <2>5, <3>1, <3>5, <4>1
    <3>7. ASSUME NEW k \in Names(K) PROVE k <= Onward(p, K)[Idx(k)]
      <4>1. PICK x \in K : k = x[1]
        BY DEF Names
      <4>2. k \in Names({y \in K : cursor[p].plain \/ y[2] = Idx(k)}) /\ Idx(k) \in Largest
        BY <2>6, <3>2, <3>4, <4>1 DEF Names
      <4> DEFINE mine == Names({y \in K : cursor[p].plain \/ y[2] = Idx(k)})
      <4>3. mine # {} => \A j \in mine : j <= Onward(p, K)[Idx(k)]
        BY <2>8, <4>2
      <4>4. k \in mine
        BY <4>2
      <4> HIDE DEF mine
      <4> QED
        BY <4>3, <4>4
    <3>8. ASSUME NEW s \in Largest PROVE cursor[p].pos[s] <= Onward(p, K)[s]
      <4>1. CASE Names({x \in K : cursor[p].plain \/ x[2] = s}) = {}
        <5>1. cursor[p].pos[s] \in Nat
          BY <2>7 DEF Cursor
        <5>2. Onward(p, K)[s] = cursor[p].pos[s]
          BY <2>8, <4>1
        <5> QED
          BY <5>1, <5>2
      <4>2. CASE Names({x \in K : cursor[p].plain \/ x[2] = s}) # {}
        <5>1. PICK x \in K : (cursor[p].plain \/ x[2] = s) /\ Onward(p, K)[s] = x[1]
          BY <2>8, <4>2 DEF Names
        <5>2. cursor[p].pos[x[2]] < x[1] /\ x[2] \in Largest
          BY <2>2, <2>4
        <5>3. cursor[p].pos[s] = cursor[p].pos[x[2]]
          BY <2>1, <5>1, <5>2 DEF Onwards
        <5>4. cursor[p].pos[s] \in Nat /\ x[1] \in Nat
          BY <2>2, <2>4, <2>7 DEF Cursor
        <5> QED
          BY <5>1, <5>2, <5>3, <5>4
      <4> QED
        BY <4>1, <4>2
    <3>9. ASSUME NEW k \in got[p].once PROVE k <= Onward(p, K)[Idx(k)]
      <4>1. k \in Keys
        BY <2>1 DEF ScanTypes, Gotten
      <4> QED
        BY <2>7, <2>9, <3>1, <3>4, <3>8, <4>1
    <3> QED
      BY <2>5, <3>1, <3>6, <3>7, <3>9
  <2>17. ASSUME cursor[p].plain, NEW s \in Largest, NEW t \in Largest
         PROVE  Onward(p, K)[s] = Onward(p, K)[t]
    <3>1. cursor[p].pos[s] = cursor[p].pos[t]
      BY <2>1, <2>17 DEF Onwards
    <3>2. {x \in K : cursor[p].plain \/ x[2] = s} = {x \in K : cursor[p].plain \/ x[2] = t}
      BY <2>17
    <3> QED
      BY <3>1, <3>2 DEF Onward
  <2>18. cursor'[p].pos = Onward(p, K) /\ cursor'[p].plain = cursor[p].plain
         /\ cursor'[p].again = cursor[p].again /\ cursor'[p].of = cursor[p].of
    BY <2>5, <2>7 DEF Cursor
  <2>19. Onwards(p)'
    <3>1. \A k : Idx(k)' = Idx(k)
      BY <1>0 DEF Idx
    <3> QED
      BY <1>0, <1>1, <2>16, <2>17, <2>18, <3>1 DEF Onwards
  <2>20. ASSUME over PROVE Exact(p)'
    <3>1. must'[p] \subseteq got'[p].once
      BY <2>3, <2>5, <2>12, <2>20
    <3>2. got'[p].twice # {} => cursor'[p].again \/ moved'
      BY <2>19 DEF Onwards
    <3> QED
      BY <2>14, <3>1, <3>2 DEF Exact
  <2> QED
    BY <1>3, <2>5, <2>11, <2>13, <2>15, <2>19, <2>20 DEF ScanOK
<1> QED
  BY <1>2, <1>3

\* A restart makes the clients ask again for the pages they were at.
LEMMA RestartScans ==
  ASSUME IInv, ScansInv, NEW c \in Counts, Restart(c)
  PROVE  ScansInv'
<1>0. /\ Placing /\ IInv' /\ c \in Nat /\ Shards' = 0..(c - 1) /\ Shards' \subseteq Largest
      /\ n' = c /\ UNCHANGED <<pc, got, may>>
      /\ heap' = [p \in Scanners |-> {}] /\ next' = [p \in Scanners |-> 0]
  BY RestartStep, ShardsAreLargest DEF IInv, Placing, Shards, Restart
<1>there. PICK there : there = UNION {placed'[s] : s \in Largest}
  OBVIOUS
<1>1. \A p \in Scanners :
        /\ must'[p] = IF Running(p) THEN must[p] \cap there ELSE must[p]
        /\ cursor'[p] = IF Running(p) THEN Decoded(cursor[p], c) ELSE cursor[p]
  BY <1>there DEF Restart
<1>d. Domains'
  BY DEF Restart, ScansInv, Domains
<1>2. /\ \A s \in Largest : Live(s)' = placed'[s]
      /\ \A s \in Largest : placed'[s] \subseteq Present
  <2>1. \A s \in Largest : lapsed'[s] = {}
    BY DEF Restart
  <2>2. \A s \in Largest : placed'[s] \subseteq Present
    BY DEF Restart, ByRing, ByNumber, Present
  <2> QED
    BY <2>1, <2>2 DEF Live
<1>3. ~moved' => ~moved /\ (placed' = ByRing(c) \/ c = n)
  BY DEF Restart
<1> SUFFICES ASSUME NEW p \in Scanners PROVE ScanOK(p)'
  BY <1>d DEF ScansInv
<1>4. CASE ~Running(p)
  <2>1. /\ must'[p] = must[p] /\ cursor'[p] = cursor[p] /\ may'[p] = may[p]
        /\ got'[p] = got[p] /\ pc'[p] = pc[p]
    BY <1>0, <1>1, <1>4
  <2>2. pc[p] # "open" /\ ScanTypes(p) /\ (pc[p] = "done" => Exact(p))
    BY <1>4 DEF Running, ScansInv, ScanOK
  <2>3. ScanTypes(p)'
    BY <2>1, <2>2 DEF ScanTypes
  <2>4. pc[p] = "done" => Exact(p)'
    BY <1>3, <2>1, <2>2 DEF Exact
  <2> QED
    BY <2>1, <2>2, <2>3, <2>4 DEF ScanOK
<1>5. CASE Running(p)
  <2>1. /\ must'[p] = must[p] \cap there /\ may'[p] = may[p] /\ got'[p] = got[p]
        /\ pc'[p] = "open" /\ heap'[p] = {} /\ next'[p] = 0
    BY <1>0, <1>1, <1>5 DEF Running
  <2>2. ScanTypes(p) /\ Remaining(p) /\ Seen(p) /\ Onwards(p) /\ cursor[p] \in Cursor
    BY <1>5 DEF Running, ScansInv, ScanOK, ScanTypes
  \* The cursor is kept, or starts again.
  <2>c. PICK old \in Cursor : old = cursor[p]
    BY <2>2
  <2>d. PICK new : new = Decoded(old, c)
    OBVIOUS
  <2>e. cursor'[p] = new
    BY <1>1, <1>5, <2>c, <2>d
  <2>f. /\ new \in Cursor /\ new.plain = old.plain
        /\ \/ (old.plain \/ old.of = c) /\ new = old
           \/ /\ ~old.plain /\ old.of # c
              /\ new.again = TRUE /\ \A s \in Largest : new.pos[s] = 0
    <3>1. CASE old.plain \/ old.of = c
      BY <2>d, <3>1 DEF Decoded
    <3>2. CASE ~(old.plain \/ old.of = c)
      <4>1. new = [old EXCEPT !.of = c, !.pos = [s \in Largest |-> 0], !.again = TRUE]
        BY <2>d, <3>2 DEF Decoded
      <4> QED
        BY <3>2, <4>1 DEF Cursor
    <3> QED
      BY <3>1, <3>2
  <2>3. cursor'[p] \in Cursor /\ cursor'[p].plain = cursor[p].plain
    BY <2>c, <2>e, <2>f
  <2>4. \/ /\ cursor[p].plain \/ cursor[p].of = c
           /\ cursor'[p] = cursor[p]
        \/ /\ ~cursor[p].plain /\ cursor[p].of # c
           /\ cursor'[p].again = TRUE /\ \A s \in Largest : cursor'[p].pos[s] = 0
    BY <2>c, <2>e, <2>f
  <2>5. ScanTypes(p)'
    <3>1. must'[p] \in SUBSET Keys /\ pc'[p] # "idle"
      BY <2>1, <2>2 DEF ScanTypes
    <3> QED
      BY <2>1, <2>2, <2>3, <3>1 DEF ScanTypes
  <2>6. Remaining(p)'
    <3> SUFFICES ASSUME NEW k \in must'[p] \ got'[p].once
                 PROVE  Ahead(p, k)' /\ \A s \in Largest : cursor'[p].pos[s] < k
      BY DEF Remaining
    <3>0. k \in must[p] \ got[p].once /\ k \in there /\ k \in Keys
      BY <2>1, <2>2 DEF ScanTypes
    <3>1. k \in must[p] \ got[p].once /\ k \in there /\ k \in Nat /\ 0 < k
      BY <3>0, ShardedStoreAssumption
    <3>2. PICK s \in Largest : k \in placed'[s]
      BY <1>there, <3>1
    <3>3. s \in Shards' /\ s \in Nat
      BY <1>0, <3>2, LargestAreNumbers DEF IInv, Placing
    <3>4. Ahead(p, k)'
      BY <1>2, <2>1, <3>2, <3>3 DEF Ahead
    <3>5. \A t \in Largest : cursor[p].pos[t] < k
      BY <2>2, <3>1 DEF Remaining
    <3> QED
      BY <2>4, <3>1, <3>4, <3>5
  <2>7. Seen(p)'
    <3>1. Present \subseteq may[p]
      BY <2>2 DEF Seen, Present
    <3>2. \A s \in Largest : Live(s)' \subseteq may'[p]
      BY <1>2, <2>1, <3>1
    <3> QED
      BY <2>1, <2>2, <3>2 DEF Seen
  <2>8. Onwards(p)'
    <3>1. cursor'[p].plain => \A s, t \in Largest : cursor'[p].pos[s] = cursor'[p].pos[t]
      BY <2>2, <2>4 DEF Onwards
    <3>2. ASSUME ~cursor'[p].again, ~moved'
          PROVE  /\ got[p].twice = {}
                 /\ cursor'[p].plain \/ cursor'[p].of = c
                 /\ \A k \in got[p].once : k <= cursor'[p].pos[Ring[c][k]]
      <4>1. cursor'[p] = cursor[p] /\ (cursor[p].plain \/ cursor[p].of = c)
        BY <2>4, <3>2
      <4>2. /\ got[p].twice = {}
            /\ cursor[p].plain \/ cursor[p].of = n
            /\ \A k \in got[p].once : k <= cursor[p].pos[Ring[n][k]]
        BY <1>3, <2>2, <3>2, <4>1 DEF Onwards, Idx
      <4>3. ASSUME NEW k \in got[p].once PROVE cursor[p].pos[Ring[n][k]] = cursor[p].pos[Ring[c][k]]
        <5>1. k \in Keys
          BY <2>2 DEF ScanTypes, Gotten
        <5>2. Ring[n][k] \in Largest /\ Ring[c][k] \in Largest
          BY <1>0, <5>1, ShardsAreLargest DEF Placing
        <5>3. CASE cursor[p].plain
          BY <2>2, <5>2, <5>3 DEF Onwards
        <5>4. CASE ~cursor[p].plain
          BY <4>1, <4>2, <5>4
        <5> QED
          BY <5>3, <5>4
      <4>4. ASSUME NEW k \in got[p].once PROVE k <= cursor'[p].pos[Ring[c][k]]
        <5>1. k <= cursor[p].pos[Ring[n][k]]
          BY <4>2
        <5> QED
          BY <4>1, <4>3, <5>1
      <4> QED
        BY <4>1, <4>2, <4>4
    <3>3. \A k : Idx(k)' = Ring[c][k]
      BY <1>0 DEF Idx
    <3> QED
      BY <1>0, <2>1, <3>1, <3>2, <3>3 DEF Onwards
  <2> QED
    BY <2>1, <2>5, <2>6, <2>7, <2>8 DEF ScanOK
<1> QED
  BY <1>4, <1>5

\* A scan in pages, among all the others, and among all the writes, purges, evictions and
\* restarts between its pages and between its iterators, returns every key that was there
\* from its beginning to its end, none that was not there at some time of it, and none
\* twice, but for the cursor of another number of shards.
THEOREM ScansReturnWhatIsThere == Spec => []ScansAreExact
<1>1. ASSUME Init PROVE ScansInv
  <2>1. Domains
    BY <1>1 DEF Init, Domains
  <2>2. ASSUME NEW p \in Scanners PROVE ScanOK(p)
    <3>1. /\ n \in Counts
          /\ cursor[p] = [of |-> n, pos |-> [s \in Largest |-> 0], plain |-> FALSE, again |-> FALSE]
          /\ got[p] = [once |-> {}, twice |-> {}] /\ must[p] = {} /\ may[p] = {}
          /\ pc[p] = "idle"
      BY <1>1 DEF Init
    <3>2. cursor[p] \in Cursor /\ got[p] \in Gotten
      BY <3>1 DEF Cursor, Gotten
    <3> QED
      BY <3>1, <3>2 DEF ScanOK, ScanTypes
  <2> QED
    BY <2>1, <2>2 DEF ScansInv
<1>2. ASSUME IInv, ScansInv, UNCHANGED vars PROVE ScansInv'
  <2>1. \A p \in Scanners : Calm(p)
    BY <1>2, NothingChanges DEF vars
  <2>2. Domains'
    BY <1>2 DEF vars, scans, ScansInv, Domains
  <2> QED
    BY <1>2, <2>1, <2>2, AllCalm DEF vars, IInv
<1>3. ASSUME IInv, ScansInv, Next PROVE ScansInv'
  <2>1. CASE \E p \in Scanners : Begin(p) \/ Paging(p)
    BY <1>3, <2>1, BeginScans, OpenScans, PageScans DEF Paging
  <2>2. CASE Others
    BY <1>3, <2>2, OthersKeep
  <2>3. CASE \E c \in Counts : Restart(c)
    BY <1>3, <2>3, RestartScans
  <2> QED
    BY <1>3, <2>1, <2>2, <2>3 DEF Next, Others
<1>4. ScansInv => ScansAreExact
  BY DEF ScansInv, ScanOK, Exact, ScansAreExact
<1> QED
  BY <1>1, <1>2, <1>3, <1>4, ShardedStoreInductive, PTL DEF Spec
=============================================================================
