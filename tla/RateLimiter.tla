----------------------------- MODULE RateLimiter ----------------------------
(***************************************************************************)
(* _RateLimiter and _TokenBucket of pxkv/api/server.py, for the requests   *)
(* of one route that share a bucket, beside the reload of the settings.    *)
(*                                                                         *)
(* A request finds its bucket under the limiter's lock, and takes from it  *)
(* later, under the bucket's own.  The reload drops the buckets: those who *)
(* have found one still take from it.  The buckets are numbered as they    *)
(* replace each other; tokens and rates are whole numbers.  t is the clock.*)
(***************************************************************************)
EXTENDS Naturals, Sequences, FiniteSetsExt

CONSTANTS
  Policies,       \* pairs of a rate and a burst that the settings may name
  NoPolicy,       \* the settings name none
  Reloads,        \* bound on the reloads
  Clients         \* how many requests may be under way

VARIABLES
  policy,     \* that of the settings
  buckets,    \* the buckets there have been: the last is in _buckets
  held,       \* how many requests are about to take from each
  grants,     \* a history: for each bucket, the times it granted a request,
  limits,     \* the limits it has had,
  refusal     \* and the time of a refusal that no grant has followed

TokenBucket == [rate: Nat, capacity: Nat, tokens: Nat, updated: Nat]
Numbers == 0..Reloads
Newest == Len(buckets) - 1     \* the number of the last one
NoBucket == [rate |-> 0, capacity |-> 0, tokens |-> 0, updated |-> 0]

LimiterInit ==
  /\ policy \in Policies \cup {NoPolicy}
  /\ buckets = <<NoBucket>>
  /\ held = [g \in Numbers |-> 0]
  /\ grants = [g \in Numbers |-> <<>>]
  /\ limits = [g \in Numbers |-> {}]
  /\ refusal = [g \in Numbers |-> <<>>]

Least(x, y) == IF x < y THEN x ELSE y

\* Bug: the tokens that were saved up are not cut to the capacity.
RefilledForever(b, t) ==
  [b EXCEPT !.tokens = @ + (t - b.updated) * b.rate, !.updated = t]

\* The refill that update_limits and allow begin with.
Refilled(b, t) ==
  [b EXCEPT !.tokens = Least(b.capacity, @ + (t - b.updated) * b.rate), !.updated = t]

\* update_limits
Limited(b, p, t) ==
  LET r == Refilled(b, t)
  IN [r EXCEPT !.rate = p[1], !.capacity = p[2], !.tokens = Least(p[2], @)]

\* _RateLimiter.allow, up to the end of its lock: a request without a policy passes.
Find(t) ==
  /\ policy # NoPolicy /\ held[Newest] < Clients
  /\ LET b == buckets[Newest + 1] IN
     buckets' = [buckets EXCEPT ![Newest + 1] =
       IF b = NoBucket
       THEN [rate |-> policy[1], capacity |-> policy[2], tokens |-> policy[2], updated |-> t]
       ELSE IF <<b.rate, b.capacity>> # policy THEN Limited(b, policy, t) ELSE b]
  /\ held' = [held EXCEPT ![Newest] = @ + 1]
  /\ limits' = [limits EXCEPT ![Newest] = @ \cup {policy}]
  /\ UNCHANGED <<policy, grants, refusal>>

\* _TokenBucket.allow
Take(g, t) ==
  /\ held[g] > 0
  /\ held' = [held EXCEPT ![g] = @ - 1]
  /\ LET r == Refilled(buckets[g + 1], t) IN
     IF r.tokens >= 1
     THEN /\ buckets' = [buckets EXCEPT ![g + 1] = [r EXCEPT !.tokens = @ - 1]]
          /\ grants' = [grants EXCEPT ![g] = Append(@, t)]
          /\ refusal' = [refusal EXCEPT ![g] = <<>>]
     ELSE /\ buckets' = [buckets EXCEPT ![g + 1] = r]
          /\ refusal' = [refusal EXCEPT ![g] = <<t>>]
          /\ UNCHANGED grants
  /\ UNCHANGED <<policy, limits>>

\* settings.update or reload: the next request goes by the new policy.
SetPolicy(p) ==
  /\ p # policy /\ policy' = p
  /\ UNCHANGED <<buckets, held, grants, limits, refusal>>

\* configure, which _apply_runtime_config calls next, and on a reload that changes
\* nothing here.
Configure ==
  /\ Newest < Reloads
  /\ buckets' = Append(buckets, NoBucket)
  /\ UNCHANGED <<policy, held, grants, limits, refusal>>

-----------------------------------------------------------------------------
(* Properties. *)

LimiterTypeOK ==
  /\ policy \in Policies \cup {NoPolicy}
  /\ \A g \in 0..Newest :
       LET b == buckets[g + 1] IN
         b \in TokenBucket /\ b.tokens <= b.capacity /\ (held[g] > 0 => b # NoBucket)

\* The sum of what a bucket of limits (rate, burst) can have granted from time s to
\* time e.
Budget(p, s, e) == p[2] + p[1] * (e - s)

\* From any grant to any later one a bucket grants no more than the highest limits it
\* has had allow for that time; and it refuses no request when the lowest limits it
\* has had allowed for one more, in every span of time that ends with the refusal.
AdmitsTheBudget ==
  \A g \in 0..Newest :
    LET n == Len(grants[g])
        rates == {p[1] : p \in limits[g]}
        bursts == {p[2] : p \in limits[g]}
        high == <<Max(rates), Max(bursts)>>
        low == <<Min(rates), Min(bursts)>>
    IN /\ \A i \in 1..n : \A j \in i..n :
            j - i + 1 <= Budget(high, grants[g][i], grants[g][j])
       /\ refusal[g] # <<>> =>
            \E i \in 1..n : n - i + 2 > Budget(low, grants[g][i], refusal[g][1])
=============================================================================
