--------------------------- MODULE ReadPathProofs ---------------------------
(***************************************************************************)
(* The safety of the way of a read, for any readers and workers and any    *)
(* number of writes, reads and evictions.                                  *)
(***************************************************************************)
EXTENDS ReadPath, TLAPS

Vers == 1..MaxVersion

\* What was fetched and not raced is what the backend has; a copy that was prefetched
\* too, and none outlives the first half of a put or delete.
TierInv ==
  /\ backend \in Vers \cup {None}
  /\ \A w \in Workers : fetched[w] # None =>
       /\ fetched[w].ver \in Vers \cup {None}
       /\ ~fetched[w].raced => fetched[w].ver \in {None, backend}
  /\ cached # None =>
       /\ cached.ver \in Vers
       /\ ~cached.raced => ~pending /\ cached.ver = backend

\* What a shard that took over no raced copy holds, also in the middle of a call.
Sound ==
  /\ mem \in {None, ver}
  /\ ~live => mem = None
  /\ pending /\ live => mem = ver
  /\ ~pending =>
       /\ backend \in {None, ver}
       /\ live => mem = ver \/ backend = ver
       /\ ~live => backend = None

\* Who holds the lock, and what that says of the two places of a value.
ShardInv ==
  /\ wpc = "clear" <=> lock = Writer
  /\ \A r \in Readers : (pc[r] = "await" => mem = None) /\ (pc[r] = "clear" => mem # None)
  /\ lock = Evictor => mem # None
  /\ mem # None /\ lock \in {None, Evictor} => backend = None
  /\ ~tainted => Sound

\* Results are as new as the writes that have returned, or, once a read is over, had
\* when it began.
CacheInv ==
  /\ acked <= ver /\ silent <= ver
  /\ \A r \in Readers :
       /\ since[r] <= acked
       /\ pc[r] \in {"clear", "loaded"} /\ ~got[r].raced =>
            got[r].ver >= acked \/ got[r].ver < silent
       /\ pc[r] = "done" /\ ~got[r].raced =>
            got[r].ver >= since[r] \/ got[r].ver < silent
  /\ copy # None /\ ~copy.raced => copy.ver >= acked \/ copy.ver < silent

\* The parts of TypeOK.
Scalars ==
  /\ ver \in 0..MaxVersion /\ acked \in 0..MaxVersion /\ silent \in 0..MaxVersion
  /\ live \in BOOLEAN /\ tainted \in BOOLEAN
  /\ mem \in Vers \cup {None}
  /\ reads \in 0..MaxReads /\ spills \in 0..MaxSpills
Threads ==
  /\ lock \in Readers \cup {Writer, Evictor, None}
  /\ pc \in [Readers -> {"idle", "read", "wait", "await", "clear", "loaded", "done"}]
  /\ wpc \in {"idle", "clear", "announce"}
  /\ since \in [Readers -> 0..MaxVersion] /\ fetches \in [Readers -> BOOLEAN]
Locks ==
  /\ \A r \in Readers : lock = r <=> pc[r] \in {"await", "clear"}
  /\ pending <=> (lock \in {Writer, Evictor} \/ \E r \in Readers : pc[r] = "clear")
Results ==
  /\ got \in [Readers -> Result \cup {None}]
  /\ \A r \in Readers : got[r] # None <=> pc[r] \in {"clear", "loaded", "done"}
Waits == \A r \in Readers : on[r] # None <=> pc[r] = "wait"

Types == MitigationTypeOK /\ TierTypeOK /\ Scalars /\ Threads /\ Locks /\ Results /\ Waits

IInv == Types /\ TierInv /\ ShardInv /\ CacheInv

-----------------------------------------------------------------------------
(* Histories in records. *)

LEMMA RacedResult ==
  ASSUME NEW x \in Result
  PROVE  /\ [x EXCEPT !.raced = TRUE] \in Result /\ [x EXCEPT !.raced = TRUE] # None
         /\ [x EXCEPT !.raced = TRUE].ver = x.ver /\ [x EXCEPT !.raced = TRUE].raced
BY ReadPathAssumption DEF Result

LEMMA RacedFetched ==
  ASSUME NEW x \in Fetched, NEW b \in BOOLEAN
  PROVE  /\ [x EXCEPT !.raced = b] \in Fetched /\ [x EXCEPT !.raced = b] # None
         /\ [x EXCEPT !.raced = b].ver = x.ver /\ [x EXCEPT !.raced = b].raced = b
BY ReadPathAssumption DEF Fetched

-----------------------------------------------------------------------------
(* Each action in turn. *)

LEMMA LookupStep == ASSUME IInv, NEW r \in Readers, Lookup(r) PROVE IInv'
<1> USE ReadPathAssumption DEF IInv, Types, mitigation, tier, shard, calls, writes
<1>1. MitigationTypeOK'
  BY DEF MitigationTypeOK, Lookup, IsCached, Follows, Leads, IsCold
<1>2. TierTypeOK'
  BY DEF TierTypeOK, Lookup, IsCached, Follows, Leads, IsCold
<1>3. Scalars'
  BY DEF Scalars, Lookup, IsCached, Follows, Leads, IsCold
<1>4. Threads'
  BY DEF Threads, Scalars, Lookup
<1>5. Locks'
  BY DEF Locks, Threads, Lookup
<1>6. Results'
  BY DEF Results, Threads, MitigationTypeOK, Lookup, IsCached
<1>7. Waits'
  BY DEF Waits, Threads, MitigationTypeOK, Lookup, IsCached, Follows, Leads, IsCold
<1>8. TierInv'
  BY DEF TierInv, Lookup, IsCached, Follows, Leads, IsCold
<1>9. ShardInv'
  BY DEF ShardInv, Sound, Threads, Lookup
<1>10. CacheInv'
  BY DEF CacheInv, Results, Threads, Scalars, Lookup, IsCached, Follows, Leads, IsCold
<1> QED
  BY <1>1, <1>2, <1>3, <1>4, <1>5, <1>6, <1>7, <1>8, <1>9, <1>10

\* What the tier gives is a version, and the one of the backend unless it raced.
LEMMA FoundIsVersion ==
  ASSUME IInv
  PROVE  /\ Found.ver \in Vers \cup {None} /\ Found.raced \in BOOLEAN
         /\ Found.ver = None => backend = None
         /\ ~Found.raced => Found.ver = backend
BY ReadPathAssumption DEF IInv, Types, TierInv, TierTypeOK, Found, Fetched, Vers

\* Both ways to the tier's copy, for a reader that found nothing in memory.
LEMMA PromoteStep ==
  ASSUME IInv, NEW r \in Readers, pc[r] \in {"read", "await"}, lock \in {None, r},
         mem = None, Promote(r, Found),
         UNCHANGED <<fetches, since, reads, mitigation, writes, spills>>
  PROVE  IInv'
<1> USE ReadPathAssumption DEF IInv, Types, mitigation, writes, tier
<1> DEFINE result ==
             [ver |-> IF Found.ver # None THEN Found.ver ELSE IF live THEN 0 ELSE ver,
              hit |-> Found.ver # None, raced |-> tainted \/ Found.raced]
<1>1. ~pending /\ got' = [got EXCEPT ![r] = result] /\ UNCHANGED <<ver, live>>
  BY DEF Locks, Threads, Promote, Holds, ShardInv
<1>2. Found.ver \in Vers \cup {None} /\ Found.raced \in BOOLEAN
      /\ (Found.ver = None => backend = None) /\ (~Found.raced => Found.ver = backend)
  BY FoundIsVersion
<1>3. /\ result \in Result /\ result # None
      /\ ~result.raced => result.ver = ver
  <2>1. result.ver \in Nat /\ tainted \in BOOLEAN
    BY <1>2 DEF Scalars, Vers
  <2>2. result \in Result
    BY <1>2, <2>1 DEF Result
  <2>3. ~tainted /\ ~Found.raced => result.ver = ver
    BY <1>1, <1>2 DEF ShardInv, Sound, Scalars, Vers
  <2> QED
    BY <2>2, <2>3
<1> HIDE DEF result
<1>4. CASE Found.ver = None
  <2>0. /\ pc' = [pc EXCEPT ![r] = Loaded(r)] /\ lock' = None
        /\ UNCHANGED <<mem, tainted, tier>>
    BY <1>4 DEF Promote
  <2> USE <2>0 DEF Loaded
  <2>1. MitigationTypeOK'
    BY DEF MitigationTypeOK
  <2>2. TierTypeOK'
    BY DEF TierTypeOK
  <2>3. Scalars'
    BY <1>1 DEF Scalars
  <2>4. Threads'
    BY DEF Threads
  <2>5. Locks'
    BY DEF Locks, Threads
  <2>6. Results'
    BY <1>1, <1>3 DEF Results, Threads
  <2>7. Waits'
    BY DEF Waits
  <2>8. TierInv'
    BY <1>1 DEF TierInv
  <2>9. ShardInv'
    BY <1>1 DEF ShardInv, Sound
  <2>10. CacheInv'
    BY <1>1, <1>3 DEF CacheInv, Results, Threads, Scalars
  <2> QED
    BY <2>1, <2>2, <2>3, <2>4, <2>5, <2>6, <2>7, <2>8, <2>9, <2>10
<1>5. CASE Found.ver # None
  <2>0. /\ pc' = [pc EXCEPT ![r] = "clear"] /\ lock' = r /\ mem' = Found.ver
        /\ tainted' = (tainted \/ Found.raced)
        /\ cached' = None /\ inflight' = FALSE /\ pending' = TRUE
        /\ UNCHANGED <<backend, queue, fetched>>
    BY <1>5 DEF Promote, Drop
  <2> USE <2>0
  <2>1. MitigationTypeOK'
    BY DEF MitigationTypeOK
  <2>2. TierTypeOK'
    BY DEF TierTypeOK
  <2>3. Scalars'
    BY <1>1, <1>2 DEF Scalars
  <2>4. Threads'
    BY DEF Threads
  <2>5. Locks'
    BY DEF Locks, Threads
  <2>6. Results'
    BY <1>1, <1>3 DEF Results, Threads
  <2>7. Waits'
    BY DEF Waits
  <2>8. TierInv'
    BY <1>1 DEF TierInv
  <2>9. ShardInv'
    <3>1. ~tainted' => Sound'
      BY <1>1, <1>2, <1>5 DEF Sound, ShardInv, Scalars, Vers
    <3>2. \A q \in Readers : pc'[q] # "await" /\ (pc'[q] = "clear" => mem' # None)
      BY <1>1, <1>5 DEF Threads, Locks, ShardInv
    <3>3. wpc' # "clear" /\ lock' \notin {None, Writer, Evictor}
      BY DEF ShardInv
    <3> QED
      BY <3>1, <3>2, <3>3 DEF ShardInv
  <2>10. CacheInv'
    BY <1>1, <1>3 DEF CacheInv, Results
  <2> QED
    BY <2>1, <2>2, <2>3, <2>4, <2>5, <2>6, <2>7, <2>8, <2>9, <2>10
<1> QED
  BY <1>4, <1>5

LEMMA ShardReadStep == ASSUME IInv, NEW r \in Readers, ShardRead(r) PROVE IInv'
<1> USE ReadPathAssumption DEF IInv, Types, mitigation, writes
<1>0. /\ pc[r] = "read" /\ lock = None
      /\ UNCHANGED <<fetches, since, reads, mitigation, writes, spills>>
  BY DEF ShardRead
<1>1. CASE /\ mem # None /\ Holds(r, mem, tainted)
           /\ pc' = [pc EXCEPT ![r] = Loaded(r)]
           /\ UNCHANGED <<shard, tier, lock>>
  <2>a. /\ got' = [got EXCEPT ![r] = [ver |-> mem, hit |-> TRUE, raced |-> tainted]]
        /\ ~tainted => mem = ver
    BY <1>1 DEF Holds, ShardInv, Sound
  <2>b. [ver |-> mem, hit |-> TRUE, raced |-> tainted] \in Result
    <3>1. mem \in Nat /\ tainted \in BOOLEAN
      BY <1>1 DEF Scalars, Vers
    <3> QED
      BY <3>1 DEF Result
  <2> USE <1>0, <1>1, <2>a DEF shard, tier, Loaded
  <2>1. MitigationTypeOK'
    BY DEF MitigationTypeOK
  <2>2. TierTypeOK'
    BY DEF TierTypeOK
  <2>3. Scalars'
    BY DEF Scalars
  <2>4. Threads'
    BY DEF Threads
  <2>5. Locks'
    BY DEF Locks
  <2>6. Results'
    BY <2>b DEF Results, Threads
  <2>7. Waits'
    BY DEF Waits
  <2>8. TierInv'
    BY DEF TierInv
  <2>9. ShardInv'
    BY DEF ShardInv, Sound
  <2>10. CacheInv'
    BY DEF CacheInv, Results, Threads, Scalars
  <2> QED
    BY <2>1, <2>2, <2>3, <2>4, <2>5, <2>6, <2>7, <2>8, <2>9, <2>10
<1>2. CASE /\ mem = None /\ Prefetch
           /\ pc' = [pc EXCEPT ![r] = "await"] /\ lock' = r
           /\ UNCHANGED <<got, shard, backend, cached, fetched, pending>>
  <2> USE <1>0, <1>2 DEF shard, Prefetch
  <2>1. MitigationTypeOK'
    BY DEF MitigationTypeOK
  <2>2. TierTypeOK'
    <3>1. CASE cached # None \/ inflight
      BY <3>1 DEF TierTypeOK
    <3>2. CASE ~(cached # None \/ inflight)
      <4>1. inflight' = TRUE /\ queue' = queue + 1
        BY <3>2
      <4>2. queue' \in Nat
        BY DEF TierTypeOK
      <4> QED
        BY <4>1, <4>2 DEF TierTypeOK
    <3> QED
      BY <3>1, <3>2
  <2>3. Scalars'
    BY DEF Scalars
  <2>4. Threads'
    BY DEF Threads
  <2>5. Locks'
    BY DEF Locks, Threads
  <2>6. Results'
    BY DEF Results
  <2>7. Waits'
    BY DEF Waits
  <2>8. TierInv'
    BY DEF TierInv
  <2>9. ShardInv'
    BY DEF ShardInv, Sound
  <2>10. CacheInv'
    BY DEF CacheInv
  <2> QED
    BY <2>1, <2>2, <2>3, <2>4, <2>5, <2>6, <2>7, <2>8, <2>9, <2>10
<1>3. CASE /\ mem = None
           /\ pc' = [pc EXCEPT ![r] = "await"] /\ lock' = r
           /\ UNCHANGED <<got, shard, tier>>
  <2> USE <1>0, <1>3 DEF shard, tier
  <2>1. MitigationTypeOK'
    BY DEF MitigationTypeOK
  <2>2. TierTypeOK'
    BY DEF TierTypeOK
  <2>3. Scalars'
    BY DEF Scalars
  <2>4. Threads'
    BY DEF Threads
  <2>5. Locks'
    BY DEF Locks, Threads
  <2>6. Results'
    BY DEF Results
  <2>7. Waits'
    BY DEF Waits
  <2>8. TierInv'
    BY DEF TierInv
  <2>9. ShardInv'
    BY DEF ShardInv, Sound
  <2>10. CacheInv'
    BY DEF CacheInv
  <2> QED
    BY <2>1, <2>2, <2>3, <2>4, <2>5, <2>6, <2>7, <2>8, <2>9, <2>10
<1>4. CASE mem = None /\ Promote(r, Found)
  BY <1>0, <1>4, PromoteStep
<1> QED
  BY <1>1, <1>2, <1>3, <1>4 DEF ShardRead

LEMMA AwaitEndsStep == ASSUME IInv, NEW r \in Readers, AwaitEnds(r) PROVE IInv'
BY PromoteStep DEF AwaitEnds, IInv, Types, Locks, ShardInv

LEMMA ClearedStep == ASSUME IInv, NEW r \in Readers, Cleared(r) PROVE IInv'
<1> USE ReadPathAssumption DEF IInv, Types, mitigation, tier, shard, calls, writes
<1>1. MitigationTypeOK'
  BY DEF MitigationTypeOK, Cleared, Pass, Loaded
<1>2. TierTypeOK'
  <2>1. \A w \in Workers : fetched'[w] \in Fetched \cup {None}
    BY RacedFetched DEF TierTypeOK, Cleared, Pass
  <2>2. backend' \in Nat \cup {None}
    BY DEF Cleared, Pass
  <2> QED
    BY <2>1, <2>2 DEF TierTypeOK, Cleared, Pass
<1>3. Scalars'
  BY DEF Scalars, Cleared, Pass, Loaded
<1>4. Threads'
  BY DEF Threads, Cleared, Pass, Loaded
<1>5. Locks'
  BY DEF Locks, Threads, Cleared, Pass, Loaded
<1>6. Results'
  BY DEF Results, Cleared, Pass, Loaded
<1>7. Waits'
  BY DEF Waits, Cleared, Pass, Loaded
<1>8. TierInv'
  BY DEF TierInv, Cleared, Pass, Loaded
<1>9. ShardInv'
  BY DEF ShardInv, Sound, Locks, Cleared, Pass, Loaded
<1>10. CacheInv'
  BY DEF CacheInv, Results, Threads, Scalars, Result, Cleared
<1> QED
  BY <1>1, <1>2, <1>3, <1>4, <1>5, <1>6, <1>7, <1>8, <1>9, <1>10

LEMMA PublishesStep == ASSUME IInv, NEW r \in Readers, Publishes(r) PROVE IInv'
<1> USE ReadPathAssumption DEF IInv, Types, mitigation, tier, shard, calls, writes
<1>1. MitigationTypeOK'
  BY DEF MitigationTypeOK, Results, Publishes, Publish
<1>2. TierTypeOK'
  BY DEF TierTypeOK, Publishes, Publish, Followers
<1>3. Scalars'
  BY DEF Scalars, Publishes, Publish, Followers
<1>4. Threads'
  BY DEF Threads, Publishes, Publish, Followers
<1>5. Locks'
  BY DEF Locks, Waits, Publishes, Followers
<1>6. Results'
  BY DEF Results, Publishes, Publish, Followers
<1>7. Waits'
  BY DEF Waits, Publishes, Publish, Followers
<1>8. TierInv'
  BY DEF TierInv, Publishes, Publish, Followers
<1>9. ShardInv'
  BY DEF ShardInv, Sound, Publishes, Publish, Followers
<1>10. CacheInv'
  BY DEF CacheInv, Results, Threads, Scalars, Result, Publishes, Publish
<1> QED
  BY <1>1, <1>2, <1>3, <1>4, <1>5, <1>6, <1>7, <1>8, <1>9, <1>10

LEMMA ReturnStep == ASSUME IInv, NEW r \in Readers, Return(r) PROVE IInv'
<1> USE ReadPathAssumption DEF IInv, Types, mitigation, tier, shard, calls, writes
<1>1. MitigationTypeOK'
  BY DEF MitigationTypeOK, Return
<1>2. TierTypeOK'
  BY DEF TierTypeOK, Return
<1>3. Scalars'
  BY DEF Scalars, Return
<1>4. Threads'
  BY DEF Threads, Return
<1>5. Locks'
  BY DEF Locks, Return
<1>6. Results'
  BY DEF Results, Threads, Return
<1>7. Waits'
  BY DEF Waits, Return
<1>8. TierInv'
  BY DEF TierInv, Return
<1>9. ShardInv'
  BY DEF ShardInv, Sound, Return
<1>10. CacheInv'
  BY DEF CacheInv, Threads, Scalars, Return
<1> QED
  BY <1>1, <1>2, <1>3, <1>4, <1>5, <1>6, <1>7, <1>8, <1>9, <1>10

LEMMA WriteShardStep == ASSUME IInv, NEW put \in BOOLEAN, WriteShard(put) PROVE IInv'
<1> USE ReadPathAssumption DEF IInv, Types, mitigation, tier, shard, calls, writes
<1>1. MitigationTypeOK'
  BY DEF MitigationTypeOK, WriteShard, Change, Drop
<1>2. TierTypeOK'
  BY DEF TierTypeOK, WriteShard, Change, Drop
<1>3. Scalars'
  <2>1. live' \in BOOLEAN /\ tainted' \in BOOLEAN
    BY Zenon DEF WriteShard, Change
  <2>2. ver' = ver + 1 /\ ver < MaxVersion /\ (mem' = ver' \/ mem' = None)
    BY DEF WriteShard, Change
  <2> QED
    BY <2>1, <2>2 DEF Scalars, Vers, WriteShard
<1>4. Threads'
  BY DEF Threads, WriteShard, Change, Drop
<1>5. Locks'
  BY DEF Locks, WriteShard, Change, Drop
<1>6. Results'
  BY DEF Results, WriteShard, Change, Drop
<1>7. Waits'
  BY DEF Waits, WriteShard, Change, Drop
<1>8. TierInv'
  BY DEF TierInv, WriteShard, Change, Drop
<1>9. ShardInv'
  BY DEF ShardInv, Sound, Locks, WriteShard, Change, Drop
<1>10. CacheInv'
  BY DEF CacheInv, Scalars, WriteShard, Change
<1> QED
  BY <1>1, <1>2, <1>3, <1>4, <1>5, <1>6, <1>7, <1>8, <1>9, <1>10

LEMMA WriteClearedStep == ASSUME IInv, WriteCleared PROVE IInv'
<1> USE ReadPathAssumption DEF IInv, Types, mitigation, tier, shard, calls, writes
<1>1. MitigationTypeOK'
  BY DEF MitigationTypeOK, WriteCleared, Pass
<1>2. TierTypeOK'
  <2>1. \A w \in Workers : fetched'[w] \in Fetched \cup {None}
    BY RacedFetched DEF TierTypeOK, WriteCleared, Pass
  <2>2. backend' \in Nat \cup {None}
    BY DEF WriteCleared, Pass
  <2> QED
    BY <2>1, <2>2 DEF TierTypeOK, WriteCleared, Pass
<1>3. Scalars'
  BY DEF Scalars, WriteCleared, Pass
<1>4. Threads'
  BY DEF Threads, WriteCleared, Pass
<1>5. Locks'
  BY DEF Locks, ShardInv, WriteCleared, Pass
<1>6. Results'
  BY DEF Results, WriteCleared, Pass
<1>7. Waits'
  BY DEF Waits, WriteCleared, Pass
<1>8. TierInv'
  BY DEF TierInv, WriteCleared, Pass
<1>9. ShardInv'
  BY DEF ShardInv, Sound, WriteCleared, Pass
<1>10. CacheInv'
  BY DEF CacheInv, WriteCleared, Pass
<1> QED
  BY <1>1, <1>2, <1>3, <1>4, <1>5, <1>6, <1>7, <1>8, <1>9, <1>10

LEMMA WriteReturnsStep == ASSUME IInv, WriteReturns PROVE IInv'
<1> USE ReadPathAssumption DEF IInv, Types, mitigation, tier, shard, calls, writes
<1>1. MitigationTypeOK'
  BY DEF MitigationTypeOK, WriteReturns, Invalidate
<1>2. TierTypeOK'
  BY DEF TierTypeOK, WriteReturns, Invalidate
<1>3. Scalars'
  BY DEF Scalars, WriteReturns, Invalidate
<1>4. Threads'
  BY DEF Threads, WriteReturns, Invalidate
<1>5. Locks'
  BY DEF Locks, WriteReturns, Invalidate
<1>6. Results'
  <2>1. ASSUME NEW q \in Readers
        PROVE  got'[q] \in Result \cup {None} /\ (got'[q] = None <=> got[q] = None)
    BY RacedResult DEF Results, WriteReturns
  <2>2. got' \in [Readers -> Result \cup {None}]
    BY <2>1 DEF WriteReturns
  <2> QED
    BY <2>1, <2>2 DEF Results, WriteReturns
<1>7. Waits'
  BY DEF Waits, WriteReturns, Invalidate
<1>8. TierInv'
  BY DEF TierInv, WriteReturns, Invalidate
<1>9. ShardInv'
  BY DEF ShardInv, Sound, WriteReturns, Invalidate
<1>10. CacheInv'
  BY DEF CacheInv, Results, Threads, Scalars, Result, WriteReturns, Invalidate
<1> QED
  BY <1>1, <1>2, <1>3, <1>4, <1>5, <1>6, <1>7, <1>8, <1>9, <1>10

LEMMA ChangeSilentlyStep ==
  ASSUME IInv, NEW put \in BOOLEAN, ChangeSilently(put)
  PROVE  IInv'
<1> USE ReadPathAssumption DEF IInv, Types, mitigation, tier, shard, calls, writes
<1>1. MitigationTypeOK'
  BY DEF MitigationTypeOK, ChangeSilently, Change
<1>2. TierTypeOK'
  BY DEF TierTypeOK, ChangeSilently, Change
<1>3. Scalars'
  <2>1. live' \in BOOLEAN /\ tainted' \in BOOLEAN
    BY Zenon DEF ChangeSilently, Change
  <2>2. ver' = ver + 1 /\ ver < MaxVersion /\ (mem' = ver' \/ mem' = None)
    BY DEF ChangeSilently, Change
  <2> QED
    BY <2>1, <2>2 DEF Scalars, Vers, ChangeSilently
<1>4. Threads'
  BY DEF Threads, ChangeSilently, Change
<1>5. Locks'
  BY DEF Locks, ChangeSilently, Change
<1>6. Results'
  BY DEF Results, ChangeSilently, Change
<1>7. Waits'
  BY DEF Waits, ChangeSilently, Change
<1>8. TierInv'
  BY DEF TierInv, ChangeSilently, Change
<1>9. ShardInv'
  BY DEF ShardInv, Sound, Locks, ChangeSilently, Change
<1>10. CacheInv'
  BY DEF CacheInv, Results, Threads, Scalars, MitigationTypeOK, Result,
     ChangeSilently, Change
<1> QED
  BY <1>1, <1>2, <1>3, <1>4, <1>5, <1>6, <1>7, <1>8, <1>9, <1>10

LEMMA SpillStep == ASSUME IInv, Spill PROVE IInv'
<1> USE ReadPathAssumption DEF IInv, Types, mitigation, tier, shard, calls, writes
<1>1. MitigationTypeOK'
  BY DEF MitigationTypeOK, Spill, Drop
<1>2. TierTypeOK'
  BY DEF TierTypeOK, Spill, Drop
<1>3. Scalars'
  BY DEF Scalars, Spill, Drop
<1>4. Threads'
  BY DEF Threads, Spill, Drop
<1>5. Locks'
  BY DEF Locks, Spill, Drop
<1>6. Results'
  BY DEF Results, Spill, Drop
<1>7. Waits'
  BY DEF Waits, Spill, Drop
<1>8. TierInv'
  BY DEF TierInv, Spill, Drop
<1>9. ShardInv'
  BY DEF ShardInv, Sound, Spill, Drop
<1>10. CacheInv'
  BY DEF CacheInv, Spill, Drop
<1> QED
  BY <1>1, <1>2, <1>3, <1>4, <1>5, <1>6, <1>7, <1>8, <1>9, <1>10

LEMMA SpilledStep == ASSUME IInv, Spilled PROVE IInv'
<1> USE ReadPathAssumption DEF IInv, Types, mitigation, tier, shard, calls, writes
<1>1. MitigationTypeOK'
  BY DEF MitigationTypeOK, Spilled, Pass
<1>2. TierTypeOK'
  <2>1. \A w \in Workers : fetched'[w] \in Fetched \cup {None}
    BY RacedFetched DEF TierTypeOK, Spilled, Pass
  <2>2. backend' \in Nat \cup {None}
    BY DEF Scalars, Vers, Spilled, Pass
  <2> QED
    BY <2>1, <2>2 DEF TierTypeOK, Spilled, Pass
<1>3. Scalars'
  BY DEF Scalars, Spilled, Pass
<1>4. Threads'
  BY DEF Threads, Spilled, Pass
<1>5. Locks'
  BY DEF Locks, Spilled, Pass
<1>6. Results'
  BY DEF Results, Spilled, Pass
<1>7. Waits'
  BY DEF Waits, Spilled, Pass
<1>8. TierInv'
  BY DEF TierInv, Scalars, Spilled, Pass
<1>9. ShardInv'
  BY DEF ShardInv, Sound, Locks, Spilled, Pass
<1>10. CacheInv'
  BY DEF CacheInv, Spilled, Pass
<1> QED
  BY <1>1, <1>2, <1>3, <1>4, <1>5, <1>6, <1>7, <1>8, <1>9, <1>10

LEMMA WorkingStep == ASSUME IInv, NEW w \in Workers, Working(w) PROVE IInv'
<1> USE ReadPathAssumption DEF IInv, Types, mitigation, tier, shard, calls, writes
<1>1. MitigationTypeOK'
  BY DEF MitigationTypeOK, Working, Fetch, Deliver
<1>2. TierTypeOK'
  <2>1. CASE Fetch(w)
    <3>1. \A v \in {backend, None} : [ver |-> v, raced |-> FALSE] \in Fetched
      BY DEF Fetched, TierTypeOK
    <3>2. queue' \in Nat
      BY <2>1 DEF Fetch, TierTypeOK
    <3>3. /\ fetched' \in [Workers -> Fetched \cup {None}]
          /\ UNCHANGED <<backend, cached, inflight, pending>>
      BY <2>1, <3>1 DEF Fetch, TierTypeOK
    <3> QED
      BY <3>2, <3>3 DEF TierTypeOK
  <2>2. CASE Deliver(w)
    <3>1. fetched[w] \in Fetched /\ pending \in BOOLEAN
      BY <2>2 DEF Deliver, TierTypeOK
    <3>2. fetched[w].raced \in BOOLEAN
      BY <3>1 DEF Fetched
    <3>3. cached' = IF fetched[w].ver = None THEN cached
                    ELSE [fetched[w] EXCEPT !.raced = fetched[w].raced \/ pending]
      BY <2>2 DEF Deliver
    <3>4. cached' \in Fetched \cup {None} /\ (cached' # None => cached'.ver # None)
      BY <3>1, <3>3, RacedFetched DEF TierTypeOK
    <3> QED
      BY <2>2, <3>4 DEF Deliver, TierTypeOK
  <2> QED
    BY <2>1, <2>2 DEF Working
<1>3. Scalars'
  BY DEF Scalars, Working, Fetch, Deliver
<1>4. Threads'
  BY DEF Threads, Working, Fetch, Deliver
<1>5. Locks'
  BY DEF Locks, Working, Fetch, Deliver
<1>6. Results'
  BY DEF Results, Working, Fetch, Deliver
<1>7. Waits'
  BY DEF Waits, Working, Fetch, Deliver
<1>8. TierInv'
  BY DEF TierInv, TierTypeOK, Fetched, Working, Fetch, Deliver
<1>9. ShardInv'
  BY DEF ShardInv, Sound, Working, Fetch, Deliver
<1>10. CacheInv'
  BY DEF CacheInv, Working, Fetch, Deliver
<1> QED
  BY <1>1, <1>2, <1>3, <1>4, <1>5, <1>6, <1>7, <1>8, <1>9, <1>10

LEMMA MitigatingStep == ASSUME IInv, Mitigating PROVE IInv'
<1> USE ReadPathAssumption DEF IInv, Types, mitigation, tier, shard, calls, writes
<1>1. MitigationTypeOK'
  BY DEF MitigationTypeOK, Mitigating, RefreshHotSet, LoseCopy
<1>2. TierTypeOK'
  BY DEF TierTypeOK, Mitigating, RefreshHotSet, LoseCopy
<1>3. Scalars'
  BY DEF Scalars, Mitigating, RefreshHotSet, LoseCopy
<1>4. Threads'
  BY DEF Threads, Mitigating, RefreshHotSet, LoseCopy
<1>5. Locks'
  BY DEF Locks, Mitigating, RefreshHotSet, LoseCopy
<1>6. Results'
  BY DEF Results, Mitigating, RefreshHotSet, LoseCopy
<1>7. Waits'
  BY DEF Waits, Mitigating, RefreshHotSet, LoseCopy
<1>8. TierInv'
  BY DEF TierInv, Mitigating, RefreshHotSet, LoseCopy
<1>9. ShardInv'
  BY DEF ShardInv, Sound, Mitigating, RefreshHotSet, LoseCopy
<1>10. CacheInv'
  BY DEF CacheInv, Mitigating, RefreshHotSet, LoseCopy
<1> QED
  BY <1>1, <1>2, <1>3, <1>4, <1>5, <1>6, <1>7, <1>8, <1>9, <1>10

\* The parts are those of TypeOK.
LEMMA TypesAreTypeOK == Types => TypeOK
BY DEF Types, TypeOK, Scalars, Threads, Locks, Results, Waits, Vers

-----------------------------------------------------------------------------
(* The theorems. *)

\* The inductive invariant holds in every reachable state.
THEOREM ReadPathInductive == Spec => []IInv
<1>1. ASSUME Init PROVE IInv
  <2> USE <1>1, ReadPathAssumption DEF Init, MitigationInit, TierInit
  <2>1. MitigationTypeOK /\ TierTypeOK
    BY DEF MitigationTypeOK, TierTypeOK
  <2>2. Scalars /\ Waits
    <3>1. 0 \in 0..MaxVersion /\ 0 \in 0..MaxReads /\ 0 \in 0..MaxSpills
      OBVIOUS
    <3>2. live \in BOOLEAN /\ tainted \in BOOLEAN
      OBVIOUS
    <3>3. ver = 0 /\ acked = 0 /\ silent = 0 /\ reads = 0 /\ spills = 0 /\ mem = None
      OBVIOUS
    <3> QED
      BY <3>1, <3>2, <3>3 DEF Scalars, Waits
  <2>3. Threads /\ Locks /\ Results
    BY DEF Threads, Locks, Results
  <2>4. TierInv /\ ShardInv /\ CacheInv
    BY DEF TierInv, ShardInv, Sound, CacheInv
  <2> QED
    BY <2>1, <2>2, <2>3, <2>4 DEF IInv, Types
<1>2. ASSUME IInv, UNCHANGED vars PROVE IInv'
  <2> USE <1>2 DEF vars, IInv, Types
  <2>1. MitigationTypeOK' /\ TierTypeOK' /\ TierInv'
    BY DEF MitigationTypeOK, TierTypeOK, TierInv
  <2>2. Scalars' /\ Threads' /\ Locks' /\ Results' /\ Waits'
    BY DEF Scalars, Threads, Locks, Results, Waits
  <2>3. ShardInv' /\ CacheInv'
    BY DEF ShardInv, Sound, CacheInv
  <2> QED
    BY <2>1, <2>2, <2>3
<1>3. IInv /\ Next => IInv'
  BY LookupStep, ShardReadStep, AwaitEndsStep, ClearedStep, PublishesStep, ReturnStep,
     WriteShardStep, WriteClearedStep, WriteReturnsStep, ChangeSilentlyStep,
     SpillStep, SpilledStep, WorkingStep, MitigatingStep DEF Next, Reading
<1> QED
  BY <1>1, <1>2, <1>3, PTL DEF Spec

\* No value that was overwritten or deleted is ever in memory or in the tier again, and
\* no write is lost there, whatever the order of the calls, as long as no worker caches
\* a copy over a write.
THEOREM DeletedStaysDeleted == Spec => []NothingComesBack
<1>1. IInv => NothingComesBack
  <2> SUFFICES ASSUME IInv PROVE NothingComesBack
    OBVIOUS
  <2>1. TypeOK
    BY TypesAreTypeOK DEF IInv
  <2>2. lock = None => ~pending
    BY ReadPathAssumption DEF IInv, Types, Locks
  <2> QED
    BY <2>1, <2>2 DEF IInv, ShardInv, Sound, NothingComesBack
<1> QED
  BY <1>1, ReadPathInductive, PTL

\* A read that began after a write had returned answers with that write or a later
\* one, through any number of cache hits and single flights, the two races and the
\* silent changes that are named aside.
THEOREM AcknowledgedWritesAreRead == Spec => []ReadsAcknowledgedWrites
<1>1. IInv => ReadsAcknowledgedWrites
  BY DEF IInv, CacheInv, ReadsAcknowledgedWrites
<1> QED
  BY <1>1, ReadPathInductive, PTL
=============================================================================
