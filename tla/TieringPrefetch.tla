--------------------------- MODULE TieringPrefetch ---------------------------
(***************************************************************************)
(* AsyncPrefetchTieringBackend of pxkv/tiering/prefetch.py, for one key.   *)
(* prefetch, put, get and delete are called by the holder of the lock of   *)
(* the key's shard, so that only the workers run beside them.  The backend *)
(* behind it is external: what the last put or delete left there.  The     *)
(* copies are version numbers; deadlines are left out.                     *)
(***************************************************************************)
EXTENDS Naturals

CONSTANTS
  Workers,
  None

VARIABLES
  backend,   \* the version the backend holds
  cached,    \* the entry of _cache: [ver, raced]
  inflight,  \* is there an event for the key in _inflight?
  queue,     \* how often the key is in the queue
  fetched,   \* what each worker got and has not yet put into the cache
  pending    \* is a put or delete between its two halves?

\* What a worker got: a version, or nothing.
Fetched == [ver: Nat \cup {None}, raced: BOOLEAN]

TierTypeOK ==
  /\ backend \in Nat \cup {None}
  /\ cached \in Fetched \cup {None} /\ (cached # None => cached.ver # None)
  /\ inflight \in BOOLEAN /\ queue \in Nat /\ pending \in BOOLEAN
  /\ fetched \in [Workers -> Fetched \cup {None}]

TierInit ==
  /\ backend = None /\ cached = None /\ inflight = FALSE /\ queue = 0
  /\ fetched = [w \in Workers |-> None] /\ pending = FALSE

\* _worker, first half: the backend is asked outside the lock, and may fail.
Fetch(w) ==
  /\ queue > 0 /\ fetched[w] = None
  /\ queue' = queue - 1
  /\ \E v \in {backend, None} :
       fetched' = [fetched EXCEPT ![w] = [ver |-> v, raced |-> FALSE]]
  /\ UNCHANGED <<backend, cached, inflight, pending>>

\* _worker, second half.  It takes away whatever event the key has by now, and
\* caches its copy even when there is none.  The history raced tells that a put or
\* delete ended since the copy was fetched, or has not yet ended.
Deliver(w) ==
  /\ fetched[w] # None
  /\ inflight' = FALSE
  /\ cached' = IF fetched[w].ver = None THEN cached
               ELSE [fetched[w] EXCEPT !.raced = @ \/ pending]
  /\ fetched' = [fetched EXCEPT ![w] = None]
  /\ UNCHANGED <<backend, queue, pending>>

\* prefetch.
Prefetch ==
  /\ IF cached # None \/ inflight THEN UNCHANGED <<inflight, queue>>
     ELSE inflight' = TRUE /\ queue' = queue + 1

\* Bug: only the event is dropped.
DropEvent ==
  /\ inflight' = FALSE /\ pending' = TRUE
  /\ UNCHANGED <<cached, backend, queue, fetched>>

\* put and delete, first half: what was prefetched is dropped.
Drop ==
  /\ cached' = None /\ inflight' = FALSE /\ pending' = TRUE
  /\ UNCHANGED <<backend, queue, fetched>>

\* put and delete, second half: the call to the backend, which then holds v.
Pass(v) ==
  /\ pending
  /\ backend' = v /\ pending' = FALSE
  /\ fetched' = [w \in Workers |-> IF fetched[w] = None THEN None
                                   ELSE [fetched[w] EXCEPT !.raced = TRUE]]
  /\ UNCHANGED <<cached, inflight, queue>>

\* get, where it does not wait: the prefetched copy, or what the backend has.
Found == IF cached # None THEN cached ELSE [ver |-> backend, raced |-> FALSE]
=============================================================================
