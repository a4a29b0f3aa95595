----------------------------- MODULE AdaptiveTTL ----------------------------
(***************************************************************************)
(* AdaptiveTTLController (pxkv/core/adaptive_ttl.py), and what its tuning  *)
(* of every write makes of the times to live in the log when the log is    *)
(* replayed through the same writes.                                       *)
(*                                                                         *)
(* Times to live are whole numbers, None if there is none; the recency     *)
(* halves at each half-life.  t is the clock.                              *)
(***************************************************************************)
EXTENDS Naturals, SequencesExt, Lists

CONSTANTS
  Keys, None,
  Bases,              \* the times to live that clients give
  MinTTL, MaxTTL,
  DefaultBase,        \* _default_base_ttl
  HalfLife,
  MaxStats            \* max_tracked_keys

VARIABLES
  on,       \* _enabled
  stats,    \* _stats: hits, misses, last_access_ts of the tracked keys
  recent,   \* their order of insertion
  lines,    \* the writes in the log: keys and times to live, 0 for a delete
  ttl       \* the time to live the last write gave each key, 0 before any

-----------------------------------------------------------------------------
New(t) == [hits |-> 0, misses |-> 0, last |-> t]

TTLInit ==
  /\ on \in BOOLEAN /\ stats = [key \in {} |-> New(0)] /\ recent = <<>>
  /\ lines = <<>> /\ ttl = [key \in Keys |-> 0]

Clamped(x) == IF x < MinTTL THEN MinTTL ELSE IF x > MaxTTL THEN MaxTTL ELSE x

\* 2^n
Twice(n) == LET twice[i \in 0..n] == IF i = 0 THEN 1 ELSE 2 * twice[i - 1] IN twice[n]

\* Bug: a key without accesses scores as one that was always found.
TunedUp(st, b, t) == Clamped(2 * b)

\* suggest_ttl with the factors 2 and 1/2: between half and twice the base, by the
\* rate of the hits and the time since the last access.
Tuned(st, b, t) ==
  LET all == (st.hits + st.misses) * Twice((t - st.last) \div HalfLife)
  IN Clamped(IF st.hits + st.misses = 0 THEN b \div 2
             ELSE (b * (all + 3 * st.hits)) \div (2 * all))

Suggested(f, key, base, t) ==
  LET b == IF base = None THEN DefaultBase ELSE base
  IN IF key \in DOMAIN f THEN Tuned(f[key], b, t) ELSE Clamped(b)

\* _tune_ttl, in every write.
TuneTTL(f, key, base, t) == IF on THEN Suggested(f, key, base, t) ELSE base

\* _stat_locked: a key that is touched goes to the end.
Moved(seq, key) == Latest(Append(Those(seq, Keys \ {key}), key), MaxStats)

\* The statistics once key is found or made, and st is what it has now.
Touched(f, seq, key, st) ==
  [x \in Range(Moved(seq, key)) |-> IF x = key THEN st ELSE f[x]]
Present(f, key, t) == IF key \in DOMAIN f THEN f[key] ELSE New(t)

\* forget
Others(f, key) == [x \in DOMAIN f \ {key} |-> f[x]]

-----------------------------------------------------------------------------
Touch(key, st) ==
  IF on
  THEN /\ stats' = Touched(stats, recent, key, st)
       /\ recent' = Moved(recent, key)
  ELSE UNCHANGED <<stats, recent>>

\* record_hit, record_miss
TTLRead(key, hit, t) ==
  LET st == Present(stats, key, t) IN
  /\ Touch(key, IF hit THEN [st EXCEPT !.hits = @ + 1, !.last = t]
                ELSE [st EXCEPT !.misses = @ + 1, !.last = t])
  /\ UNCHANGED <<on, lines, ttl>>

\* create, update: the time to live is tuned, recorded, given to the shard, logged.
TTLWrite(key, base, t) ==
  LET tuned == TuneTTL(stats, key, base, t) IN
  /\ ttl' = [ttl EXCEPT ![key] = tuned]
  /\ lines' = Append(lines, <<key, tuned>>)
  /\ Touch(key, Present(stats, key, t))
  /\ UNCHANGED on

\* delete, of a key that was written; of another it does nothing.
TTLForget(key) ==
  /\ ttl[key] # 0
  /\ ttl' = [ttl EXCEPT ![key] = 0]
  /\ lines' = Append(lines, <<key, 0>>)
  /\ stats' = Others(stats, key) /\ recent' = Those(recent, Keys \ {key})
  /\ UNCHANGED on

\* configure: switched off, it forgets.
TTLSwitch ==
  /\ on' = ~on
  /\ IF on THEN stats' = [key \in {} |-> New(0)] /\ recent' = <<>>
     ELSE UNCHANGED <<stats, recent>>
  /\ UNCHANGED <<lines, ttl>>

\* A line of the log goes through create, update or delete once more, and its time to
\* live is tuned once more.
Redone(r, l, t) ==
  IF l[2] = 0
  THEN [ttl |-> [r.ttl EXCEPT ![l[1]] = 0],
        stats |-> Others(r.stats, l[1]), recent |-> Those(r.recent, Keys \ {l[1]})]
  ELSE [ttl |-> [r.ttl EXCEPT ![l[1]] = TuneTTL(r.stats, l[1], l[2], t)],
        stats |-> IF on THEN Touched(r.stats, r.recent, l[1], Present(r.stats, l[1], t))
                  ELSE r.stats,
        recent |-> IF on THEN Moved(r.recent, l[1]) ELSE r.recent]

\* A restart, with statistics that begin anew.
Replayed(t) ==
  LET redone[i \in 0..Len(lines)] ==
        IF i = 0
        THEN [ttl |-> [key \in Keys |-> 0], stats |-> [key \in {} |-> New(0)], recent |-> <<>>]
        ELSE Redone(redone[i - 1], lines[i], t)
  IN redone[Len(lines)]

TTLRestart(t) ==
  LET r == Replayed(t) IN
  /\ ttl' = r.ttl /\ stats' = r.stats /\ recent' = r.recent
  /\ UNCHANGED <<on, lines>>

-----------------------------------------------------------------------------
(* Properties. *)

TTLTypeOK ==
  /\ on \in BOOLEAN
  /\ DOMAIN stats = Range(recent) /\ Range(recent) \subseteq Keys /\ IsInjective(recent)
  /\ Len(recent) <= MaxStats
  /\ ttl \in [Keys -> Nat \cup {None}]

\* A key has the time to live its last write was logged with, or after a restart one
\* that is no longer, for it is tuned again without hits; only a line of a time when
\* tuning was off may be lengthened to the least time, and a line without one is
\* given a deadline.
ReplayLengthensNothing ==
  \A key \in Keys :
    \A i \in 1..Len(lines) :
      /\ lines[i][1] = key /\ \A j \in 1..Len(lines) : j > i => lines[j][1] # key
      /\ lines[i][2] # None /\ lines[i][2] >= MinTTL
      => ttl[key] <= lines[i][2]
=============================================================================
