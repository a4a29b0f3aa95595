------------------------------ MODULE Observers -----------------------------
(***************************************************************************)
(* The observers of the accesses, as ShardedKeyValueStore feeds them       *)
(* (pxkv/core/sharded.py): each under a lock of its own, in the order of   *)
(* the calls, here in one step.  Readers of their reports are the admin    *)
(* endpoints, the mitigation and the evictions.  And before them all, the  *)
(* rate limiter of the requests, with which they share only the clock.     *)
(***************************************************************************)
EXTENDS HeavyHitters

CONSTANTS
  Buckets, BucketTime, ScanN,                                         \* of AccessWindows
  None, Bases, MinTTL, MaxTTL, DefaultBase, HalfLife, MaxStats,       \* of AdaptiveTTL
  Policies, NoPolicy, Reloads, Clients,                               \* of RateLimiter
  Enabling,    \* the choices of observers that are switched on
  Limits,      \* the bounds the hints may be given on their keys
  Gaps,        \* by how much the clock may go on
  MaxEvents,   \* bound on the length of a behaviour
  MaxAdmin     \* bound on the restarts and changes of settings in it

VARIABLES
  hot, cold, order, most, hotLog, coldLog,      \* of AccessWindows
  on, stats, recent, lines, ttl,                \* of AdaptiveTTL
  policy, buckets, held, grants, limits, refusal,   \* of RateLimiter
  enabled,  \* the observers that are on
  now,      \* the clock
  events, admin

ASSUME ObserversAssumption ==
  /\ Buckets \in Nat \ {0} /\ BucketTime \in Nat \ {0}
  /\ Gaps \subseteq Nat /\ Limits \subseteq Nat /\ ScanN \in Nat \ {0}
  /\ Bases \subseteq Nat \ {0} /\ DefaultBase \in Nat \ {0} /\ None \notin Nat
  /\ MinTTL \in Nat \ {0} /\ MaxTTL \in Nat /\ MinTTL <= MaxTTL
  /\ HalfLife \in Nat \ {0} /\ MaxStats \in Nat
  /\ Policies \subseteq (Nat \ {0}) \X (Nat \ {0}) /\ NoPolicy \notin Policies
  /\ Reloads \in Nat /\ MaxEvents \in Nat /\ MaxAdmin \in Nat

INSTANCE AccessWindows
INSTANCE AdaptiveTTL
INSTANCE RateLimiter

windows == <<hot, cold, order, most, hotLog, coldLog>>
controller == <<on, stats, recent, lines, ttl>>
limiter == <<policy, buckets, held, grants, limits, refusal>>
vars == <<hitters, windows, controller, limiter, enabled, now, events, admin>>

Init ==
  /\ enabled \in Enabling
  /\ HittersInit /\ ("hitters" \notin enabled => k = MaxK)
  /\ WindowsInit /\ most \in Limits /\ ("windows" \notin enabled => most = Max(Limits))
  /\ TTLInit /\ ("ttl" \notin enabled => ~on)
  /\ LimiterInit /\ ("limiter" \notin enabled => policy = NoPolicy)
  /\ now = Window /\ events = 0 /\ admin = 0

Event == events < MaxEvents /\ events' = events + 1 /\ UNCHANGED <<enabled, admin, limiter>>
\* An event that some observer is told of.
Observed == Event /\ enabled # {"limiter"}
AdminEvent ==
  /\ events < MaxEvents /\ events' = events + 1
  /\ enabled # {"limiter"}
  /\ admin < MaxAdmin /\ admin' = admin + 1
  /\ UNCHANGED <<enabled, limiter>>

\* What happens to an observer that is on.
Hitters(step) == IF "hitters" \in enabled THEN step ELSE UNCHANGED hitters
Windows(step) == IF "windows" \in enabled THEN step ELSE UNCHANGED windows
TTL(step) == IF "ttl" \in enabled THEN step ELSE UNCHANGED controller

\* read, read_with_etag, mget.
Read(key, hit) ==
  /\ Observed /\ UNCHANGED now
  /\ Hitters(HittersRecord(key, now))
  /\ Windows(DetectorRecord(key, now)
             /\ IF hit THEN HintsRecord(key, now) ELSE UNCHANGED <<cold, order, most, coldLog>>)
  /\ TTL(TTLRead(key, hit, now))

\* create, update, mset, patch.
Write(key, base) ==
  /\ Observed /\ UNCHANGED <<now, hitters>>
  /\ Windows(HintsRecord(key, now) /\ UNCHANGED <<hot, hotLog>>)
  /\ TTL(TTLWrite(key, base, now))

Delete(key) ==
  /\ Observed /\ UNCHANGED now
  /\ Hitters(HittersForget(key)) /\ Windows(WindowsForget(key)) /\ TTL(TTLForget(key))

\* A report of each, and an eviction that asks the hints.
Report ==
  /\ Observed /\ UNCHANGED <<now, controller>>
  /\ Hitters(TopK(now)) /\ Windows(WindowsQuery(now))

Tick(gap) ==
  /\ Event /\ now' = now + gap
  /\ UNCHANGED <<hitters, windows, controller>>

Resize(m) ==
  /\ AdminEvent /\ m # k /\ Hitters(HittersResize(m))
  /\ UNCHANGED <<now, windows, controller>>

Bound(m) ==
  /\ AdminEvent /\ m # most /\ Windows(HintsResize(m) /\ UNCHANGED <<hot, hotLog>>)
  /\ UNCHANGED <<now, hitters, controller>>

Switch ==
  /\ AdminEvent /\ TTL(TTLSwitch)
  /\ UNCHANGED <<now, hitters, windows>>

Reset ==
  /\ AdminEvent /\ Hitters(HittersReset(now)) /\ Windows(WindowsReset)
  /\ UNCHANGED <<now, controller>>

Restart ==
  /\ AdminEvent
  /\ Hitters(HittersReset(now)) /\ Windows(WindowsReset) /\ TTL(TTLRestart(now))
  /\ UNCHANGED now

\* A request on its way through the limiter, and changes of its settings.
Limiter ==
  /\ "limiter" \in enabled
  /\ UNCHANGED <<hitters, windows, controller, enabled, now>>
  /\ \/ Find(now) /\ UNCHANGED <<events, admin>>
     \/ /\ events < MaxEvents /\ events' = events + 1 /\ UNCHANGED admin
        /\ Configure \/ \E g \in Numbers : Take(g, now)
     \/ /\ admin < MaxAdmin /\ admin' = admin + 1 /\ UNCHANGED events
        /\ \E p \in Policies \cup {NoPolicy} : SetPolicy(p)

Next ==
  \/ \E key \in Keys :
       \/ \E hit \in BOOLEAN : Read(key, hit)
       \/ \E base \in Bases \cup {None} : Write(key, base)
       \/ Delete(key)
  \/ \E gap \in Gaps : Tick(gap)
  \/ \E m \in 1..MaxK : Resize(m)
  \/ \E m \in Limits : Bound(m)
  \/ Report \/ Switch \/ Reset \/ Restart \/ Limiter

Spec == Init /\ [][Next]_vars

-----------------------------------------------------------------------------
TypeOK ==
  /\ HittersTypeOK /\ WindowsTypeOK /\ TTLTypeOK /\ LimiterTypeOK
  /\ enabled \in Enabling /\ now \in Nat /\ events \in 0..MaxEvents /\ admin \in 0..MaxAdmin

\* As in AccessWindows, at every time.
WindowCounted == WindowsTypeOK /\ WindowIsCounted(now)
ColdGoFirst == ColdKeysGoFirst(now)

\* As in AdaptiveTTL.
NothingLengthened == TypeOK /\ ReplayLengthensNothing
=============================================================================
