-------------------------- MODULE HotKeyMitigation --------------------------
(***************************************************************************)
(* HotKeyMitigator of pxkv/core/hotkey_mitigation.py, for one key: a short *)
(* cache and single flight for a key the detector calls hot.  Every        *)
(* operation here is one section under its lock.  Loading is up to the     *)
(* caller.  An _Inflight object is known by the thread that leads it.      *)
(***************************************************************************)
EXTENDS Naturals

CONSTANTS Readers, None

VARIABLES
  hot,      \* is the key in _hot_set?
  copy,     \* the entry of _cache: the result of a load
  flight,   \* the leader in _inflight
  on        \* whose result each follower waits for

\* A result: the version read and was it there?  raced is a history: a write was
\* announced after the load and before the result was there for others, or the shard
\* had gone back to an old version.
Result == [ver: Nat, hit: BOOLEAN, raced: BOOLEAN]

MitigationTypeOK ==
  /\ hot \in BOOLEAN
  /\ copy \in Result \cup {None}
  /\ flight \in Readers \cup {None}
  /\ on \in [Readers -> Readers \cup {None}]

MitigationInit ==
  /\ hot = FALSE /\ copy = None /\ flight = None /\ on = [r \in Readers |-> None]

\* _refresh_hot_set_locked: the cache entry of a key that cooled goes.
RefreshHotSet ==
  /\ hot' = ~hot
  /\ copy' = IF hot THEN None ELSE copy
  /\ UNCHANGED <<flight, on>>

\* The entry is past its time, or one too many is in the cache.
LoseCopy ==
  /\ copy # None
  /\ copy' = None
  /\ UNCHANGED <<hot, flight, on>>

\* The four ways through the first section of _read_through_inner.
IsCold == ~hot /\ UNCHANGED <<hot, copy, flight, on>>

IsCached == hot /\ copy # None /\ UNCHANGED <<hot, copy, flight, on>>

Leads(r) ==
  /\ hot /\ copy = None /\ flight = None
  /\ flight' = r
  /\ UNCHANGED <<hot, copy, on>>

Follows(r) ==
  /\ hot /\ copy = None /\ flight # None
  /\ on' = [on EXCEPT ![r] = flight]
  /\ UNCHANGED <<hot, copy, flight>>

Followers(r) == {f \in Readers : on[f] = r}

\* Bug: a leader whose load failed does not set the event.
PublishValues(r, result) ==
  /\ copy' = IF result.hit THEN result ELSE copy
  /\ flight' = None
  /\ on' = IF result.hit THEN [f \in Readers |-> IF on[f] = r THEN None ELSE on[f]] ELSE on
  /\ UNCHANGED hot

\* The leader's result: a value is cached, and, like an error, passed to those
\* who wait.
Publish(r, result) ==
  /\ copy' = IF result.hit THEN result ELSE copy
  /\ flight' = None
  /\ on' = [f \in Readers |-> IF on[f] = r THEN None ELSE on[f]]
  /\ UNCHANGED hot

\* invalidate, invalidate_many.
Invalidate ==
  /\ copy' = None
  /\ UNCHANGED <<hot, flight, on>>
=============================================================================
