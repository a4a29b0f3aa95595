------------------------------ MODULE ReadPath ------------------------------
(***************************************************************************)
(* The way of a read through ShardedKeyValueStore (pxkv/core/sharded.py):  *)
(* mitigation, shard, prefetching tier, beside the writes, evictions and   *)
(* prefetch workers, for one key.  Keys share only the locks, the queue    *)
(* and the workers.                                                        *)
(*                                                                         *)
(* Every change of the key makes a new version.  Writes hold the write     *)
(* lock from their first step to their last, so one writer stands for all. *)
(***************************************************************************)
EXTENDS Naturals

CONSTANTS
  Readers, Workers, None,
  Writer, Evictor,   \* the holders of the shard's lock that are not readers
  MaxVersion,        \* bound on the changes
  MaxReads,          \* bound on the reads
  MaxSpills          \* bound on the evictions

VARIABLES
  hot, copy, flight, on,                                 \* of HotKeyMitigation
  backend, cached, inflight, queue, fetched, pending,    \* of TieringPrefetch
  ver,      \* the version the shard was last given
  live,     \* is it a value, or the key's absence?
  mem,      \* the version in the shard's map
  lock,     \* who holds the shard's lock across steps
  pc,       \* where each reader stands
  wpc,      \* where the writer stands
  got,      \* the result a reader has
  fetches,  \* is its read an mget, which prefetches?
  acked,    \* the version of the last write that returned
  since,    \* acked when the read began
  silent,   \* a history: the version of the last change that nothing announced
  tainted,  \* a history: since the last write, the shard took over a raced copy
  reads, spills

INSTANCE HotKeyMitigation
INSTANCE TieringPrefetch

vars == <<hot, copy, flight, on, backend, cached, inflight, queue, fetched, pending, ver, live,
          mem, lock, pc, wpc, got, fetches, acked, since, silent, tainted, reads, spills>>
mitigation == <<hot, copy, flight, on>>
tier == <<backend, cached, inflight, queue, fetched, pending>>
shard == <<ver, live, mem, tainted>>
calls == <<pc, got, fetches, since, reads>>
writes == <<wpc, acked, silent>>

ASSUME ReadPathAssumption ==
  /\ MaxVersion \in Nat /\ MaxReads \in Nat /\ MaxSpills \in Nat
  /\ {Writer, Evictor} \cap Readers = {} /\ Writer # Evictor
  /\ None \notin Nat \cup Readers \cup {Writer, Evictor}
  /\ None \notin Result /\ None \notin Fetched

Init ==
  /\ MitigationInit /\ TierInit
  /\ ver = 0 /\ live = FALSE /\ mem = None /\ lock = None
  /\ pc = [r \in Readers |-> "idle"] /\ wpc = "idle"
  /\ got = [r \in Readers |-> None] /\ fetches = [r \in Readers |-> FALSE]
  /\ acked = 0 /\ since = [r \in Readers |-> 0] /\ silent = 0 /\ tainted = FALSE
  /\ reads = 0 /\ spills = 0

-----------------------------------------------------------------------------
(* read, read_with_etag, mget. *)

\* read_through: in the first section the call is answered, or begins to wait, or
\* has to load.
Lookup(r) ==
  /\ pc[r] = "idle" /\ reads < MaxReads
  /\ reads' = reads + 1
  /\ since' = [since EXCEPT ![r] = acked]
  /\ \/ /\ IsCached
        /\ pc' = [pc EXCEPT ![r] = "done"]
        /\ got' = [got EXCEPT ![r] = copy]
        /\ UNCHANGED fetches
     \/ /\ Follows(r)
        /\ pc' = [pc EXCEPT ![r] = "wait"]
        /\ UNCHANGED <<got, fetches>>
     \/ /\ Leads(r)
        /\ pc' = [pc EXCEPT ![r] = "read"]
        /\ fetches' = [fetches EXCEPT ![r] = FALSE]
        /\ UNCHANGED got
     \/ /\ IsCold
        /\ pc' = [pc EXCEPT ![r] = "read"]
        /\ \E m \in BOOLEAN : fetches' = [fetches EXCEPT ![r] = m]
        /\ UNCHANGED got
  /\ UNCHANGED <<tier, shard, lock, writes, spills>>

\* What reader r has when the shard, tainted or not, found version v, or nothing.  A
\* miss tells of the present version, if that is an absence.
Holds(r, v, taint) ==
  got' = [got EXCEPT ![r] =
    [ver |-> IF v # None THEN v ELSE IF live THEN 0 ELSE ver,
     hit |-> v # None, raced |-> taint]]

\* The loader returns: a cold read is over, a leader has yet to publish.
Loaded(r) == IF flight = r THEN "loaded" ELSE "done"

\* The shard goes on with what the tier found: a copy is promoted, and its removal
\* from the tier begins.
Promote(r, found) ==
  /\ Holds(r, found.ver, tainted \/ found.raced)
  /\ IF found.ver = None
     THEN /\ pc' = [pc EXCEPT ![r] = Loaded(r)] /\ lock' = None
          /\ UNCHANGED <<mem, tainted, tier>>
     ELSE /\ pc' = [pc EXCEPT ![r] = "clear"] /\ lock' = r
          /\ mem' = found.ver
          /\ tainted' = (tainted \/ found.raced)
          /\ Drop
  /\ UNCHANGED <<ver, live>>

\* read or mget of the shard, up to where it waits for the prefetch.
ShardRead(r) ==
  /\ pc[r] = "read" /\ lock = None
  /\ \/ /\ mem # None
        /\ Holds(r, mem, tainted)
        /\ pc' = [pc EXCEPT ![r] = Loaded(r)]
        /\ UNCHANGED <<shard, tier, lock>>
     \/ /\ mem = None /\ fetches[r] /\ cached = None
        /\ Prefetch
        /\ pc' = [pc EXCEPT ![r] = "await"] /\ lock' = r
        /\ UNCHANGED <<got, shard, backend, cached, fetched, pending>>
     \/ /\ mem = None /\ ~fetches[r] /\ cached = None /\ inflight
        /\ pc' = [pc EXCEPT ![r] = "await"] /\ lock' = r
        /\ UNCHANGED <<got, shard, tier>>
     \/ /\ mem = None /\ (cached # None \/ (~inflight /\ ~fetches[r]))
        /\ Promote(r, Found)
  /\ UNCHANGED <<fetches, since, reads, mitigation, writes, spills>>

\* The event is set, or the wait times out; the lock is held all the while.
AwaitEnds(r) ==
  /\ pc[r] = "await"
  /\ Promote(r, Found)
  /\ UNCHANGED <<fetches, since, reads, mitigation, writes, spills>>

\* The promoted key has left the tier.
Cleared(r) ==
  /\ pc[r] = "clear"
  /\ Pass(None)
  /\ lock' = None
  /\ pc' = [pc EXCEPT ![r] = Loaded(r)]
  /\ UNCHANGED <<shard, got, fetches, since, reads, mitigation, writes, spills>>

\* The end of a leader's call, and of those that waited for it.
Publishes(r) ==
  /\ pc[r] = "loaded"
  /\ Publish(r, got[r])
  /\ LET woken == {f \in Followers(r) : on'[f] = None} IN
       /\ pc' = [q \in Readers |-> IF q = r \/ q \in woken THEN "done" ELSE pc[q]]
       /\ got' = [q \in Readers |-> IF q \in woken THEN got[r] ELSE got[q]]
  /\ UNCHANGED <<fetches, since, reads, shard, lock, tier, writes, spills>>

Return(r) ==
  /\ pc[r] = "done"
  /\ pc' = [pc EXCEPT ![r] = "idle"]
  /\ got' = [got EXCEPT ![r] = None]
  /\ fetches' = [fetches EXCEPT ![r] = FALSE] /\ since' = [since EXCEPT ![r] = 0]
  /\ UNCHANGED <<reads, mitigation, shard, lock, tier, writes, spills>>

-----------------------------------------------------------------------------
(* create, update, mset, incr, patch, delete; evictions. *)

\* The shard's part of a write; delete refuses a key that is not in memory.
Change(put) ==
  /\ lock = None /\ ver < MaxVersion
  /\ put \/ mem # None
  /\ ver' = ver + 1 /\ live' = put
  /\ mem' = IF put THEN ver' ELSE None
  /\ tainted' = FALSE

\* The write lock, the shard's lock, the map; the tier's copy starts to go.
WriteShard(put) ==
  /\ wpc = "idle"
  /\ Change(put)
  /\ Drop
  /\ lock' = Writer /\ wpc' = "clear"
  /\ UNCHANGED <<acked, silent, calls, mitigation, spills>>

WriteCleared ==
  /\ wpc = "clear"
  /\ Pass(None)
  /\ lock' = None /\ wpc' = "announce"
  /\ UNCHANGED <<acked, silent, shard, calls, mitigation, spills>>

\* Bug: the cache is left as it is, as the calls outside this class leave it.
ReturnUnannounced ==
  /\ wpc = "announce"
  /\ wpc' = "idle" /\ acked' = ver
  /\ UNCHANGED <<silent, shard, lock, calls, mitigation, tier, spills>>

\* After the log, the replication queue and the notifier: invalidate, and return.
\* A leader that has loaded will still publish what it has.
WriteReturns ==
  /\ wpc = "announce"
  /\ Invalidate
  /\ wpc' = "idle" /\ acked' = ver
  /\ got' = [r \in Readers |->
               IF pc[r] \in {"clear", "loaded"} /\ got[r].ver < ver
               THEN [got[r] EXCEPT !.raced = TRUE] ELSE got[r]]
  /\ UNCHANGED <<silent, shard, lock, pc, fetches, since, reads, tier, spills>>

\* What changes a resident key and invalidates nothing: an expiry, FLUSHALL, a
\* snapshot that is loaded.
ChangeSilently(put) ==
  /\ wpc = "idle" /\ mem # None
  /\ Change(put)
  /\ silent' = ver' /\ acked' = ver'
  /\ UNCHANGED <<wpc, lock, calls, mitigation, tier, spills>>

\* _evict_if_needed takes the key, in a call for another one.
Spill ==
  /\ lock = None /\ mem # None /\ spills < MaxSpills
  /\ spills' = spills + 1
  /\ Drop
  /\ lock' = Evictor
  /\ UNCHANGED <<shard, calls, writes, mitigation>>

Spilled ==
  /\ lock = Evictor
  /\ Pass(mem)
  /\ mem' = None
  /\ lock' = None
  /\ UNCHANGED <<ver, live, tainted, calls, writes, mitigation, spills>>

-----------------------------------------------------------------------------
Reading(r) == ShardRead(r) \/ AwaitEnds(r) \/ Cleared(r) \/ Publishes(r) \/ Return(r)

Working(w) ==
  /\ Fetch(w) \/ Deliver(w)
  /\ UNCHANGED <<shard, lock, calls, writes, mitigation, spills>>

Mitigating ==
  /\ RefreshHotSet \/ LoseCopy
  /\ UNCHANGED <<shard, lock, calls, writes, tier, spills>>

Next ==
  \/ \E r \in Readers : Lookup(r) \/ Reading(r)
  \/ \E put \in BOOLEAN : WriteShard(put) \/ ChangeSilently(put)
  \/ WriteCleared \/ WriteReturns \/ Spill \/ Spilled
  \/ \E w \in Workers : Working(w)
  \/ Mitigating

Spec == Init /\ [][Next]_vars

\* Every thread inside a call goes on.
FairSpec ==
  /\ Spec
  /\ \A r \in Readers : WF_vars(Reading(r))
  /\ WF_vars(WriteCleared) /\ WF_vars(WriteReturns) /\ WF_vars(Spilled)

-----------------------------------------------------------------------------
(* Properties. *)

TypeOK ==
  /\ MitigationTypeOK /\ TierTypeOK
  /\ {ver, acked, silent} \subseteq 0..MaxVersion
  /\ live \in BOOLEAN /\ tainted \in BOOLEAN
  /\ mem \in 1..MaxVersion \cup {None}
  /\ lock \in Readers \cup {Writer, Evictor, None}
  /\ pc \in [Readers -> {"idle", "read", "wait", "await", "clear", "loaded", "done"}]
  /\ wpc \in {"idle", "clear", "announce"}
  /\ \A r \in Readers :
       /\ got[r] # None <=> pc[r] \in {"clear", "loaded", "done"}
       /\ got[r] # None => got[r] \in Result
       /\ on[r] # None <=> pc[r] = "wait"
       /\ lock = r <=> pc[r] \in {"await", "clear"}
  /\ pending <=> (lock \in {Writer, Evictor} \/ \E r \in Readers : pc[r] = "clear")
  /\ since \in [Readers -> 0..MaxVersion] /\ fetches \in [Readers -> BOOLEAN]
  /\ reads \in 0..MaxReads /\ spills \in 0..MaxSpills

\* The shard and its tier hold what the last write left: its value in one of the
\* two places, nothing after a delete.  The one way to lose a write, or to see a
\* deleted key again, is a worker that had fetched the old copy and cached it after
\* the write had dropped what was prefetched.
NothingComesBack ==
  /\ TypeOK
  /\ lock = None /\ ~tainted =>
       /\ mem \in {None, ver} /\ backend \in {None, ver}
       /\ live => mem = ver \/ backend = ver
       /\ ~live => mem = None /\ backend = None

\* A read returns no version older than the last write that had returned when the
\* read began.  Otherwise the result is of a leader that had loaded before that
\* write and published after it, the change was one that invalidates nothing, or
\* the shard itself was given back an old copy.
ReadsAcknowledgedWrites ==
  \A r \in Readers :
    pc[r] = "done" /\ ~got[r].raced =>
      got[r].ver >= since[r] \/ got[r].ver < silent

\* Single flight answers: a read that waits for a leader returns, also when the
\* leader's load fails, and no lock is held for good.
ReadsReturn == \A r \in Readers : pc[r] # "idle" ~> pc[r] = "idle"
=============================================================================
