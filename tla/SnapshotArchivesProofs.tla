----------------------- MODULE SnapshotArchivesProofs -----------------------
(***************************************************************************)
(* For any pages, threads and bounds: the snapshot at its path is whole,   *)
(* every archive kept can be loaded, and a recovery to a point in time     *)
(* gives back what the snapshot and the log can give.                      *)
(***************************************************************************)
EXTENDS SnapshotArchives, FiniteSetTheorems, WellFoundedInduction, TLAPS

\* Numbers have a least one among any.
LEMMA LeastOfSome ==
  ASSUME NEW T \in SUBSET Nat, T # {}
  PROVE  \E t \in T : \A u \in T : t <= u
<1>1. PICK x \in T : \A y \in T : ~(<<y, x>> \in OpToRel(<, Nat))
  BY NatLessThanWellFounded, WFMin
<1>2. ASSUME NEW u \in T PROVE x <= u
  <2>1. ~(u < x)
    BY <1>1 DEF OpToRel
  <2> QED
    BY <2>1
<1> QED
  BY <1>2

-----------------------------------------------------------------------------
(* Lines over contents, for any log: the same in a step and after it. *)

ApplyIn(lg, c, l) ==
  [c EXCEPT ![lg[l].page] =
     CASE lg[l].kind = "put"    -> l
       [] lg[l].kind = "delete" -> None
       [] lg[l].kind = "incr"   -> IF @ = None THEN 1 ELSE @ + 1]

Runs(lg, c, from, to) ==
  CHOOSE f : f = [n \in (from - 1)..to |-> IF n < from THEN c ELSE ApplyIn(lg, f[n - 1], n)]

ReplayIn(lg, c, from, to) == IF to < from THEN c ELSE Runs(lg, c, from, to)[to]

LEMMA ReplayIsIn ==
  ASSUME NEW c, NEW from, NEW to
  PROVE  Replay(c, from, to) = ReplayIn(log, c, from, to)
BY DEF Replay, ReplayIn, Runs, Apply, ApplyIn

LEMMA ReplayIsInNext ==
  ASSUME NEW c, NEW from, NEW to
  PROVE  Replay(c, from, to)' = ReplayIn(log', c, from, to)
BY DEF Replay, ReplayIn, Runs, Apply, ApplyIn

\* The function that Replay computes with exists.
LEMMA RunsAt ==
  ASSUME NEW lg, NEW c, NEW from \in Nat \ {0}, NEW to \in Nat
  PROVE  \A k \in (from - 1)..to :
           Runs(lg, c, from, to)[k] =
             IF k < from THEN c ELSE ApplyIn(lg, Runs(lg, c, from, to)[k - 1], k)
<1> DEFINE Is(f, k) == f = [n \in (from - 1)..k |->
                              IF n < from THEN c ELSE ApplyIn(lg, f[n - 1], n)]
           T == {k \in Nat : k <= to /\ ~\E f : Is(f, k)}
<1>1. T = {}
  <2> SUFFICES ASSUME T # {} PROVE FALSE
    OBVIOUS
  <2>1. PICK k \in T : \A j \in T : k <= j
    BY LeastOfSome
  <2>2. CASE k < from
    <3> DEFINE g == [n \in (from - 1)..k |-> c]
    <3>1. Is(g, k)
      BY <2>2
    <3> QED
      BY <2>1, <3>1
  <2>3. CASE k >= from
    <3>0. k \in Nat /\ k <= to /\ k - 1 \in Nat
      BY <2>1, <2>3
    <3>1. k - 1 \in Nat /\ k - 1 <= to /\ k - 1 \notin T
      <4> HIDE DEF T
      <4> QED
        BY <2>1, <3>0
    <3>2. PICK f : Is(f, k - 1)
      BY <3>1
    <3> DEFINE g == [n \in (from - 1)..k |->
                       IF n < from THEN c ELSE ApplyIn(lg, f[n - 1], n)]
    <3>3. ASSUME NEW n \in (from - 1)..(k - 1) PROVE g[n] = f[n]
      BY <3>2
    <3>4. ASSUME NEW n \in (from - 1)..k, ~(n < from) PROVE g[n] = ApplyIn(lg, g[n - 1], n)
      <4>1. n - 1 \in (from - 1)..(k - 1)
        BY <3>4
      <4>2. g[n - 1] = f[n - 1]
        BY <3>3, <4>1
      <4>3. g[n] = ApplyIn(lg, f[n - 1], n)
        BY <3>4
      <4> HIDE DEF g
      <4> QED
        BY <4>2, <4>3
    <3>5. g = [n \in (from - 1)..k |-> g[n]]
      OBVIOUS
    <3>6. \A n \in (from - 1)..k : g[n] = IF n < from THEN c ELSE ApplyIn(lg, g[n - 1], n)
      <4> SUFFICES ASSUME NEW n \in (from - 1)..k
                   PROVE  g[n] = IF n < from THEN c ELSE ApplyIn(lg, g[n - 1], n)
        OBVIOUS
      <4>1. n < from => g[n] = c
        OBVIOUS
      <4> QED
        BY <3>4, <4>1
    <3>7. Is(g, k)
      <4> HIDE DEF g
      <4> QED
        BY <3>5, <3>6
    <3> QED
      BY <2>1, <3>7
  <2> QED
    BY <2>1, <2>2, <2>3
<1>2. \E f : Is(f, to)
  BY <1>1
<1>3. PICK f : Is(f, to)
  BY <1>2
<1>4. Is(Runs(lg, c, from, to), to)
  BY <1>3 DEF Runs
<1> QED
  BY <1>4

\* Two of these functions agree where both are defined.
LEMMA RunsAgree ==
  ASSUME NEW lg, NEW c, NEW from \in Nat \ {0}, NEW to \in Nat, from <= to
  PROVE  Runs(lg, c, from, to + 1)[to] = Runs(lg, c, from, to)[to]
<1> DEFINE F == Runs(lg, c, from, to + 1)
           G == Runs(lg, c, from, to)
           T == {k \in Nat : from - 1 <= k /\ k <= to /\ F[k] # G[k]}
<1>0. to + 1 \in Nat
  OBVIOUS
<1>3. SUFFICES ASSUME T # {} PROVE FALSE
  OBVIOUS
<1> HIDE DEF F, G
<1>4. PICK k \in T : \A j \in T : k <= j
  BY <1>3, LeastOfSome
<1>5. k \in (from - 1)..to /\ k \in (from - 1)..(to + 1) /\ k \in Nat
  BY <1>4
<1>6. CASE k < from
  <2>1. F[k] = c /\ G[k] = c
    BY <1>0, <1>5, <1>6, RunsAt DEF F, G
  <2> QED
    BY <1>4, <2>1
<1>7. CASE ~(k < from)
  <2>1. F[k] = ApplyIn(lg, F[k - 1], k) /\ G[k] = ApplyIn(lg, G[k - 1], k)
    BY <1>0, <1>5, <1>7, RunsAt DEF F, G
  <2>2. k - 1 \in Nat /\ from - 1 <= k - 1 /\ k - 1 <= to /\ k - 1 \notin T
    BY <1>4, <1>5, <1>7
  <2>3. F[k - 1] = G[k - 1]
    BY <2>2
  <2> QED
    BY <1>4, <2>1, <2>3
<1> QED
  BY <1>6, <1>7

\* One line more.
LEMMA ReplayStep ==
  ASSUME NEW lg, NEW c, NEW from \in Nat \ {0}, NEW to \in Nat
  PROVE  /\ to < from => ReplayIn(lg, c, from, to) = c
         /\ from <= to =>
              ReplayIn(lg, c, from, to) = ApplyIn(lg, ReplayIn(lg, c, from, to - 1), to)
<1>1. to < from => ReplayIn(lg, c, from, to) = c
  BY DEF ReplayIn
<1> DEFINE F == Runs(lg, c, from, to)
<1>2. ASSUME from <= to
      PROVE  ReplayIn(lg, c, from, to) = ApplyIn(lg, ReplayIn(lg, c, from, to - 1), to)
  <2>2. ReplayIn(lg, c, from, to) = F[to]
    BY <1>2 DEF ReplayIn
  <2> HIDE DEF F
  <2>3. F[to] = ApplyIn(lg, F[to - 1], to)
    BY <1>2, RunsAt DEF F
  <2>4. F[to - 1] = ReplayIn(lg, c, from, to - 1)
    <3>1. CASE to - 1 < from
      <4>1. F[to - 1] = c
        BY <1>2, <3>1, RunsAt DEF F
      <4> QED
        BY <3>1, <4>1 DEF ReplayIn
    <3>2. CASE ~(to - 1 < from)
      <4>1. PICK m \in Nat : m = to - 1
        BY <1>2
      <4>2. from <= m /\ m + 1 = to
        BY <1>2, <3>2, <4>1
      <4>3. Runs(lg, c, from, m + 1)[m] = Runs(lg, c, from, m)[m]
        BY <4>2, RunsAgree
      <4> QED
        BY <3>2, <4>1, <4>2, <4>3 DEF F, ReplayIn
    <3> QED
      BY <3>1, <3>2
  <2> QED
    BY <2>2, <2>3, <2>4
<1> QED
  BY <1>1, <1>2

\* A line changes its own page, by what the page was at most.
LEMMA ApplyPage ==
  ASSUME NEW lg \in Seq(Line), NEW c \in Contents, NEW d \in Contents, NEW l \in 1..Len(lg)
  PROVE  /\ ApplyIn(lg, c, l) \in Contents
         /\ \A x \in Pages :
              /\ lg[l].page # x => ApplyIn(lg, c, l)[x] = c[x]
              /\ c[x] = d[x] => ApplyIn(lg, c, l)[x] = ApplyIn(lg, d, l)[x]
              /\ lg[l].page = x /\ lg[l].kind # "incr" =>
                   ApplyIn(lg, c, l)[x] = ApplyIn(lg, d, l)[x]
<1>1. l \in Nat /\ lg[l] \in Line
  OBVIOUS
<1>2. PICK z \in Pages, k \in {"put", "delete", "incr"} : lg[l].page = z /\ lg[l].kind = k
  BY <1>1 DEF Line
<1>3. ASSUME NEW b \in Contents
      PROVE  /\ ApplyIn(lg, b, l) \in Contents
             /\ \A x \in Pages :
                  ApplyIn(lg, b, l)[x] =
                    IF x # z THEN b[x]
                    ELSE IF k = "put" THEN l ELSE IF k = "delete" THEN None
                    ELSE IF b[x] = None THEN 1 ELSE b[x] + 1
  <2>1. ApplyIn(lg, b, l) =
          [b EXCEPT ![z] = IF k = "put" THEN l ELSE IF k = "delete" THEN None
                           ELSE IF b[z] = None THEN 1 ELSE b[z] + 1]
    <3>1. CASE k = "put"
      BY <1>2, <3>1 DEF ApplyIn
    <3>2. CASE k = "delete"
      BY <1>2, <3>2 DEF ApplyIn
    <3>3. CASE k = "incr"
      BY <1>2, <3>3 DEF ApplyIn
    <3> QED
      BY <3>1, <3>2, <3>3
  <2>2. b \in [Pages -> Nat \cup {None}]
    BY DEF Contents
  <2>3. b[z] # None => b[z] \in Nat
    BY <2>2
  <2> QED
    BY <1>1, <2>1, <2>2, <2>3 DEF Contents
<1> QED
  BY <1>2, <1>3

\* Replay yields contents.
LEMMA ReplayType ==
  ASSUME NEW lg \in Seq(Line), NEW c \in Contents, NEW from \in Nat \ {0},
         NEW to \in Nat, to <= Len(lg)
  PROVE  ReplayIn(lg, c, from, to) \in Contents
<1> DEFINE R(k) == ReplayIn(lg, c, from, k)
           T == {k \in Nat : k <= to /\ R(k) \notin Contents}
<1>1. SUFFICES ASSUME T # {} PROVE FALSE
  OBVIOUS
<1>2. PICK k \in T : \A j \in T : k <= j
  BY <1>1, LeastOfSome
<1>3. k \in Nat /\ k <= to /\ R(k) \notin Contents
  BY <1>2
<1>4. from <= k
  <2>1. k \in Nat
    BY <1>3
  <2> HIDE DEF T
  <2>2. k < from => ReplayIn(lg, c, from, k) = c
    BY DEF ReplayIn
  <2> QED
    BY <1>3, <2>1, <2>2
<1>5. k - 1 \in Nat /\ k - 1 <= to /\ k - 1 \notin T
  <2>1. k - 1 \in Nat /\ k - 1 <= to /\ ~(k <= k - 1)
    BY <1>3, <1>4
  <2> HIDE DEF T
  <2> QED
    BY <1>2, <2>1
<1>6. R(k - 1) \in Contents
  BY <1>5
<1>7. R(k) = ApplyIn(lg, R(k - 1), k)
  BY <1>3, <1>4, ReplayStep
<1>8. k \in 1..Len(lg)
  BY <1>3, <1>4
<1> HIDE DEF R, T
<1> QED
  BY <1>3, <1>6, <1>7, <1>8, ApplyPage

\* What was logged before a line does not change with it.
LEMMA ReplayAppend ==
  ASSUME NEW lg \in Seq(Line), NEW line \in Line, NEW c, NEW from \in Nat \ {0},
         NEW to \in Nat, to <= Len(lg)
  PROVE  ReplayIn(Append(lg, line), c, from, to) = ReplayIn(lg, c, from, to)
<1> DEFINE lh == Append(lg, line)
           T == {k \in Nat : k <= to /\ ReplayIn(lh, c, from, k) # ReplayIn(lg, c, from, k)}
<1>1. SUFFICES ASSUME T # {} PROVE FALSE
  OBVIOUS
<1>2. PICK k \in T : \A j \in T : k <= j
  BY <1>1, LeastOfSome
<1>3. k \in Nat /\ k <= to /\ ReplayIn(lh, c, from, k) # ReplayIn(lg, c, from, k)
  BY <1>2
<1>0. k \in 1..Len(lg) => lh[k] = lg[k]
  OBVIOUS
<1> HIDE DEF lh
<1>4. from <= k
  <2>1. k \in Nat
    BY <1>3
  <2> HIDE DEF T
  <2>2. k < from => ReplayIn(lh, c, from, k) = c /\ ReplayIn(lg, c, from, k) = c
    BY DEF ReplayIn
  <2> QED
    BY <1>3, <2>1, <2>2
<1>5. k - 1 \in Nat /\ k - 1 <= to /\ k - 1 \notin T
  <2>1. k - 1 \in Nat /\ k - 1 <= to /\ ~(k <= k - 1)
    BY <1>3, <1>4
  <2> HIDE DEF T
  <2> QED
    BY <1>2, <2>1
<1>6. ReplayIn(lh, c, from, k - 1) = ReplayIn(lg, c, from, k - 1)
  BY <1>5
<1>7. /\ ReplayIn(lh, c, from, k) = ApplyIn(lh, ReplayIn(lh, c, from, k - 1), k)
      /\ ReplayIn(lg, c, from, k) = ApplyIn(lg, ReplayIn(lg, c, from, k - 1), k)
  BY <1>3, <1>4, ReplayStep
<1>8. k \in 1..Len(lg)
  BY <1>3, <1>4
<1>9. \A b : ApplyIn(lh, b, k) = ApplyIn(lg, b, k)
  BY <1>0, <1>8 DEF ApplyIn
<1> QED
  BY <1>3, <1>6, <1>7, <1>9

\* Two replays that agree on a page after line a agree on it from there on.
LEMMA ReplaysJoin ==
  ASSUME NEW lg \in Seq(Line), NEW c \in Contents, NEW d \in Contents,
         NEW from \in Nat \ {0}, NEW start \in Nat \ {0}, NEW a \in Nat, NEW b \in Nat,
         from <= a + 1, start <= a + 1, a <= b, b <= Len(lg), NEW x \in Pages,
         ReplayIn(lg, c, from, a)[x] = ReplayIn(lg, d, start, a)[x]
  PROVE  ReplayIn(lg, c, from, b)[x] = ReplayIn(lg, d, start, b)[x]
<1> DEFINE R(k) == ReplayIn(lg, c, from, k)
           S(k) == ReplayIn(lg, d, start, k)
           T == {k \in Nat : a <= k /\ k <= b /\ R(k)[x] # S(k)[x]}
<1>1. SUFFICES ASSUME T # {} PROVE FALSE
  OBVIOUS
<1>2. PICK k \in T : \A j \in T : k <= j
  BY <1>1, LeastOfSome
<1>3. k \in Nat /\ a <= k /\ k <= b /\ R(k)[x] # S(k)[x]
  BY <1>2
<1>4. a < k
  BY <1>3
<1>5. PICK m \in Nat : m = k - 1
  BY <1>3, <1>4
<1>6. m \in Nat /\ a <= m /\ m <= b /\ m \notin T
  <2>1. m \in Nat /\ a <= m /\ m <= b /\ ~(k <= m)
    BY <1>3, <1>4, <1>5
  <2> HIDE DEF T
  <2> QED
    BY <1>2, <2>1
<1>7. R(m)[x] = S(m)[x]
  BY <1>6
<1>8. R(k) = ApplyIn(lg, R(m), k) /\ S(k) = ApplyIn(lg, S(m), k)
  <2>1. from <= k /\ start <= k
    BY <1>3, <1>4
  <2> QED
    BY <1>3, <1>5, <2>1, ReplayStep
<1>9. k \in 1..Len(lg)
  BY <1>3, <1>4
<1>10. R(m) \in Contents /\ S(m) \in Contents
  <2>1. m <= Len(lg)
    BY <1>6
  <2> QED
    BY <2>1, ReplayType
<1> HIDE DEF R, S, T
<1> QED
  BY <1>3, <1>7, <1>8, <1>9, <1>10, ApplyPage

\* Without a line of its own a page stays as it was.
LEMMA ReplayKeeps ==
  ASSUME NEW lg \in Seq(Line), NEW c \in Contents, NEW from \in Nat \ {0},
         NEW a \in Nat, NEW b \in Nat, from <= a + 1, a <= b, b <= Len(lg), NEW x \in Pages,
         \A l \in (a + 1)..b : lg[l].page # x
  PROVE  ReplayIn(lg, c, from, b)[x] = ReplayIn(lg, c, from, a)[x]
<1> DEFINE R(k) == ReplayIn(lg, c, from, k)
           T == {k \in Nat : a <= k /\ k <= b /\ R(k)[x] # R(a)[x]}
<1>1. SUFFICES ASSUME T # {} PROVE FALSE
  OBVIOUS
<1>2. PICK k \in T : \A j \in T : k <= j
  BY <1>1, LeastOfSome
<1>3. k \in Nat /\ a <= k /\ k <= b /\ R(k)[x] # R(a)[x]
  BY <1>2
<1>4. a < k
  BY <1>3
<1>5. PICK m \in Nat : m = k - 1
  BY <1>3, <1>4
<1>6. m \in Nat /\ a <= m /\ m <= b /\ m \notin T
  <2>1. m \in Nat /\ a <= m /\ m <= b /\ ~(k <= m)
    BY <1>3, <1>4, <1>5
  <2> HIDE DEF T
  <2> QED
    BY <1>2, <2>1
<1>7. R(m)[x] = R(a)[x]
  BY <1>6
<1>8. R(k) = ApplyIn(lg, R(m), k)
  <2>1. from <= k
    BY <1>3, <1>4
  <2> QED
    BY <1>3, <1>5, <2>1, ReplayStep
<1>9. k \in 1..Len(lg) /\ lg[k].page # x
  BY <1>3, <1>4
<1>10. R(m) \in Contents
  <2>1. m <= Len(lg)
    BY <1>6
  <2> QED
    BY <2>1, ReplayType
<1> HIDE DEF R, T
<1> QED
  BY <1>3, <1>7, <1>8, <1>9, <1>10, ApplyPage

\* After a line that sets a page all replays agree on it.
LEMMA ReplaysSet ==
  ASSUME NEW lg \in Seq(Line), NEW c \in Contents, NEW d \in Contents,
         NEW from \in Nat \ {0}, NEW start \in Nat \ {0}, NEW l \in 1..Len(lg),
         from <= l, start <= l, NEW x \in Pages, lg[l].page = x, lg[l].kind # "incr"
  PROVE  ReplayIn(lg, c, from, l)[x] = ReplayIn(lg, d, start, l)[x]
<1>1. PICK m \in Nat : m = l - 1
  OBVIOUS
<1>2. /\ ReplayIn(lg, c, from, l) = ApplyIn(lg, ReplayIn(lg, c, from, m), l)
      /\ ReplayIn(lg, d, start, l) = ApplyIn(lg, ReplayIn(lg, d, start, m), l)
  BY <1>1, ReplayStep
<1>3. ReplayIn(lg, c, from, m) \in Contents /\ ReplayIn(lg, d, start, m) \in Contents
  <2>1. m <= Len(lg)
    BY <1>1
  <2> QED
    BY <2>1, ReplayType
<1> QED
  BY <1>2, <1>3, ApplyPage

-----------------------------------------------------------------------------
(* The invariant. *)

PastIn(lg, l) == ReplayIn(lg, Empty, 1, l)

\* The pages c are those after line l of the log lg, but for what is gone.
IsTrue(lg, gone, c, l) ==
  /\ l \in 0..Len(lg)
  /\ \A x \in Pages \ gone : c[x] = PastIn(lg, l)[x]

\* All that was dumped is the contents after the line it names.
Trues ==
  /\ Len(log) <= MaxLsn
  /\ found = None => lsn = Len(log) /\ IsTrue(log, lapsed, store, lsn)
  /\ \A t \in Threads :
       /\ job[t] # None => IsTrue(log, lapsed, job[t].pages, job[t].lsn)
       /\ pc[t] = "archive" => IsTrue(log, lapsed, plan[t].manifest, plan[t].lsn)
  /\ \A i \in Inode : disk[i] \in Payload => IsTrue(log, lapsed, disk[i].pages, disk[i].lsn)
  /\ \A f \in archives : IsTrue(log, lapsed, f.manifest, f.lsn)

\* A full archive holds its manifest; a diff names an older archive.
Chained(f) == IF f.base = None THEN f.body = f.manifest ELSE f.base \in 0..(f.lsn - 1)

Bodies ==
  /\ \A f \in archives : Chained(f)
  /\ \A t \in Threads : pc[t] = "archive" => Chained(plan[t])

\* A diff has a base among A and gives its manifest over the true contents of then.
Rests(lg, A, f) ==
  f.base # None => /\ \E g \in A : g.lsn = f.base
                   /\ Patched(PastIn(lg, f.base), f.body) = f.manifest

\* Threads that take turns in their archive steps do not take a base away.
Alone ==
  ~rushed =>
    /\ \A t, u \in Threads : t # u => ~({pc[t], pc[u]} \subseteq {"archive", "prune"})
    /\ lapsed = {} => /\ \A f \in archives : Rests(log, archives, f)
                      /\ \A t \in Threads : pc[t] = "archive" => Rests(log, archives, plan[t])

\* Threads that take turns in the temporary file write their own payload in it.
Files ==
  ~mixed =>
    /\ main # None => disk[main] \in Payload
    /\ \A t, u \in Threads : t # u => ~({pc[t], pc[u]} \subseteq {"write", "replace"})
    /\ tmp # None => tmp # main /\ \E t \in Threads : pc[t] \in {"write", "replace"}
    /\ \A t \in Threads :
         /\ pc[t] = "write" => tmp # None /\ fd[t] = tmp /\ disk[tmp] = None
         /\ pc[t] = "replace" => tmp # None /\ disk[tmp] \in Payload

IInv == TypeOK /\ Trues /\ Bodies /\ Alone /\ Files

-----------------------------------------------------------------------------
(* What archives load as. *)

LoadBody(F, g) ==
  IF g.base = None THEN {g.body}
  ELSE LET bases == {b \in archives : b.lsn = g.base} IN
       IF bases = {} THEN {None}
       ELSE {IF c # None /\ Patched(c, g.body) = g.manifest
             THEN g.manifest ELSE None : c \in UNION {F[b] : b \in bases}}

LoadFn == CHOOSE F : F = [g \in archives |-> LoadBody(F, g)]

LEMMA LoadsIs ==
  ASSUME NEW f
  PROVE  Loads(f) = LoadFn[f]
BY DEF Loads, LoadFn, LoadBody

\* What an archive loads as depends on what its bases load as.
LEMMA LoadBodyAgrees ==
  ASSUME NEW F, NEW G, NEW g, \A b \in archives : b.lsn = g.base => F[b] = G[b]
  PROVE  LoadBody(F, g) = LoadBody(G, g)
<1> DEFINE bases == {b \in archives : b.lsn = g.base}
<1>1. \A b \in bases : F[b] = G[b]
  OBVIOUS
<1> HIDE DEF bases
<1>2. {F[b] : b \in bases} = {G[b] : b \in bases}
  BY <1>1
<1> QED
  BY <1>2 DEF LoadBody, bases

\* The function that Loads computes with exists: a base has a lower LSN.
LEMMA LoadFnAt ==
  ASSUME IInv
  PROVE  \A g \in archives : LoadFn[g] = LoadBody(LoadFn, g)
<1> DEFINE below(k) == {g \in archives : g.lsn < k}
           Is(F, k) == F = [g \in below(k) |-> LoadBody(F, g)]
           T == {k \in Nat : ~\E F : Is(F, k)}
<1>0. /\ MaxLsn \in Nat
      /\ \A g \in archives : g.lsn \in 0..MaxLsn /\ Chained(g)
  BY ArchiveAssumption DEF IInv, TypeOK, Bodies, IsArchive, Lsn
<1>1. T = {}
  <2> SUFFICES ASSUME T # {} PROVE FALSE
    OBVIOUS
  <2>1. PICK k \in T : \A j \in T : k <= j
    BY LeastOfSome
  <2>2. k \in Nat /\ ~\E F : Is(F, k)
    BY <2>1
  <2>3. CASE k = 0
    <3>1. below(k) = {}
      BY <1>0, <2>3
    <3> DEFINE F == [g \in below(k) |-> {}]
    <3>2. Is(F, k)
      BY <3>1
    <3> QED
      BY <2>2, <3>2
  <2>4. CASE k # 0
    <3>1. PICK m \in Nat : m = k - 1
      BY <2>2, <2>4
    <3>2. m \notin T
      <4>1. m \in Nat /\ ~(k <= m)
        BY <2>2, <3>1
      <4> HIDE DEF T
      <4> QED
        BY <2>1, <4>1
    <3>3. PICK F : Is(F, m)
      BY <3>2
    <3> DEFINE G == [g \in below(k) |-> LoadBody(F, g)]
    <3>4. ASSUME NEW g \in below(k) PROVE LoadBody(F, g) = LoadBody(G, g)
      <4>1. ASSUME NEW b \in archives, b.lsn = g.base PROVE F[b] = G[b]
        <5>1. g \in archives /\ g.lsn < k /\ g.lsn \in Nat /\ Chained(g)
          BY <1>0
        <5>2. b.lsn \in Nat /\ b.lsn # None
          BY <1>0, ArchiveAssumption
        <5>3. g.base \in 0..(g.lsn - 1)
          BY <4>1, <5>1, <5>2 DEF Chained
        <5>4. b.lsn < m /\ b.lsn < k
          BY <2>2, <3>1, <4>1, <5>1, <5>2, <5>3
        <5>5. b \in below(m) /\ b \in below(k)
          BY <5>4
        <5>6. F[b] = LoadBody(F, b)
          BY <3>3, <5>5
        <5>7. G[b] = LoadBody(F, b)
          BY <5>5
        <5> HIDE DEF G
        <5> QED
          BY <5>6, <5>7
      <4> HIDE DEF G
      <4> QED
        BY <4>1, LoadBodyAgrees
    <3>5. Is(G, k)
      <4> DEFINE H == [g \in below(k) |-> LoadBody(G, g)]
      <4>1. \A g \in below(k) : G[g] = H[g]
        BY <3>4
      <4>2. DOMAIN G = below(k) /\ DOMAIN H = below(k)
        OBVIOUS
      <4>3. G = H
        BY <3>4
      <4> HIDE DEF G
      <4> QED
        BY <4>3
    <3> QED
      BY <2>2, <3>5
  <2> QED
    BY <2>3, <2>4
<1>2. MaxLsn + 1 \in Nat /\ MaxLsn + 1 \notin T
  <2>1. MaxLsn + 1 \in Nat
    BY <1>0
  <2> QED
    BY <1>1, <2>1
<1>3. PICK F : Is(F, MaxLsn + 1)
  BY <1>2
<1>4. below(MaxLsn + 1) = archives
  BY <1>0
<1>5. F = [g \in archives |-> LoadBody(F, g)]
  BY <1>3, <1>4
<1>6. LoadFn = [g \in archives |-> LoadBody(LoadFn, g)]
  BY <1>5 DEF LoadFn
<1> QED
  BY <1>6

\* An archive loads as its manifest or not at all.
LEMMA LoadsManifest ==
  ASSUME IInv, NEW f \in archives, NEW c \in Loads(f)
  PROVE  c \in {f.manifest, None}
<1>1. Loads(f) = LoadBody(LoadFn, f)
  BY LoadFnAt, LoadsIs
<1>2. Chained(f)
  BY DEF IInv, Bodies
<1> QED
  BY <1>1, <1>2 DEF LoadBody, Chained

LEMMA PastType ==
  ASSUME NEW lg \in Seq(Line), NEW l \in 0..Len(lg)
  PROVE  PastIn(lg, l) \in Contents
<1>1. Empty \in Contents
  BY DEF Empty, Contents
<1>2. l \in Nat /\ l <= Len(lg)
  OBVIOUS
<1> QED
  BY <1>1, <1>2, ReplayType DEF PastIn

\* Nothing lapsed: what is true is exact.
LEMMA TrueIsPast ==
  ASSUME NEW lg \in Seq(Line), NEW c \in Contents, NEW l, IsTrue(lg, {}, c, l)
  PROVE  c = PastIn(lg, l)
<1>1. l \in 0..Len(lg)
  BY DEF IsTrue
<1>2. PastIn(lg, l) \in Contents
  BY <1>1, PastType
<1>3. \A x \in Pages : c[x] = PastIn(lg, l)[x]
  BY DEF IsTrue
<1> QED
  BY <1>2, <1>3 DEF Contents

\* While threads take turns and nothing lapses, every archive loads.
LEMMA LoadsWhole ==
  ASSUME IInv
  PROVE  ArchivesLoad
<1> SUFFICES ASSUME ~rushed, lapsed = {}
             PROVE  \A f \in archives : Loads(f) = {f.manifest}
  BY DEF ArchivesLoad
<1> DEFINE T == {k \in Nat : \E f \in archives : f.lsn = k /\ Loads(f) # {f.manifest}}
<1>0. ASSUME NEW f \in archives
      PROVE  /\ f.lsn \in Nat /\ f.manifest \in Contents
             /\ f.manifest = PastIn(log, f.lsn) /\ Chained(f) /\ Rests(log, archives, f)
             /\ Loads(f) = LoadBody(LoadFn, f)
  <2>0. log \in Seq(Line)
    BY DEF IInv, TypeOK
  <2>1. /\ IsArchive(f) /\ IsTrue(log, {}, f.manifest, f.lsn) /\ Chained(f)
        /\ Rests(log, archives, f)
    BY DEF IInv, TypeOK, Trues, Bodies, Alone
  <2>2. Loads(f) = LoadBody(LoadFn, f)
    BY LoadFnAt, LoadsIs
  <2> QED
    BY <2>0, <2>1, <2>2, TrueIsPast, ArchiveAssumption DEF IsArchive, Lsn
<1>1. T = {}
  <2> SUFFICES ASSUME T # {} PROVE FALSE
    OBVIOUS
  <2>1. PICK k \in T : \A j \in T : k <= j
    BY LeastOfSome
  <2>2. PICK f \in archives : f.lsn = k /\ Loads(f) # {f.manifest}
    BY <2>1
  <2>3. CASE f.base = None
    BY <1>0, <2>2, <2>3 DEF LoadBody, Chained
  <2>4. CASE f.base # None
    <3> DEFINE bases == {b \in archives : b.lsn = f.base}
               old == PastIn(log, f.base)
    <3>1. bases # {} /\ Patched(old, f.body) = f.manifest
      BY <1>0, <2>4 DEF Rests
    <3>2. ASSUME NEW b \in bases PROVE b.manifest = old /\ LoadFn[b] = {old}
      <4>1. b \in archives /\ b.lsn = f.base
        OBVIOUS
      <4>2. b.manifest = old
        BY <1>0, <4>1
      <4>3. f.base \in 0..(f.lsn - 1) /\ f.lsn \in Nat
        BY <1>0, <2>4 DEF Chained
      <4>4. b.lsn \in Nat /\ ~(k <= b.lsn)
        BY <2>2, <4>1, <4>3
      <4>5. b.lsn \notin T
        <5> HIDE DEF T
        <5> QED
          BY <2>1, <4>4
      <4>6. Loads(b) = {b.manifest}
        BY <4>1, <4>4, <4>5
      <4> QED
        BY <4>2, <4>6, LoadsIs
    <3>3. old # None
      <4>1. PICK b \in bases : TRUE
        BY <3>1
      <4>2. b.manifest \in Contents
        BY <1>0, <4>1
      <4> HIDE DEF old
      <4> QED
        BY <3>2, <4>1, <4>2, ArchiveAssumption
    <3> HIDE DEF old
    <3>4. UNION {LoadFn[b] : b \in bases} = {old}
      <4> HIDE DEF bases
      <4> QED
        BY <3>1, <3>2
    <3>5. LoadBody(LoadFn, f) = {f.manifest}
      <4>1. LoadBody(LoadFn, f) =
              {IF c # None /\ Patched(c, f.body) = f.manifest
               THEN f.manifest ELSE None : c \in {old}}
        BY <2>4, <3>1, <3>4 DEF LoadBody
      <4> QED
        BY <3>1, <3>3, <4>1
    <3> QED
      BY <1>0, <2>2, <3>5
  <2> QED
    BY <2>3, <2>4
<1>2. ASSUME NEW f \in archives PROVE Loads(f) = {f.manifest}
  BY <1>0, <1>1
<1> QED
  BY <1>2

-----------------------------------------------------------------------------
(* Facts about single steps. *)

\* A write applies the line it logs.
LEMMA WriteApplies ==
  ASSUME IInv, found = None, NEW line \in Line, Write(line)
  PROVE  /\ log' = Append(log, line) /\ log' \in Seq(Line) /\ Len(log') = Len(log) + 1
         /\ lsn' = Len(log') /\ lsn = Len(log) /\ lsn' <= MaxLsn
         /\ store' = ApplyIn(log', store, lsn') /\ store' \in Contents
<1>1. log \in Seq(Line) /\ lsn = Len(log) /\ store \in Contents
  BY DEF IInv, TypeOK, Trues
<1>2. log' = Append(log, line) /\ lsn' = lsn + 1 /\ lsn < MaxLsn
  BY DEF Write
<1>3. log' \in Seq(Line) /\ Len(log') = Len(log) + 1 /\ log'[Len(log) + 1] = line
  BY <1>1, <1>2
<1>4. lsn' = Len(log') /\ lsn' \in 1..Len(log')
  BY <1>1, <1>2, <1>3
<1>5. store' = ApplyIn(log', store, lsn')
  BY <1>1, <1>2, <1>3 DEF Write, ApplyIn
<1>6. store' \in Contents
  BY <1>1, <1>3, <1>4, <1>5, ApplyPage
<1> QED
  BY <1>1, <1>2, <1>3, <1>4, <1>5, <1>6, ArchiveAssumption

\* There is always an inode for a new file.
LEMMA FreshInode ==
  ASSUME IInv
  PROVE  \E j \in Inode : j # main /\ \A u \in Threads : fd[u] # j
<1> DEFINE open == {fd[u] : u \in Threads}
           n == Cardinality(Threads)
<1>1. IsFiniteSet(Threads) /\ n \in Nat
  BY ArchiveAssumption, FS_CardinalityType
<1>2. fd \in [Threads -> Inode \cup {None}]
  BY DEF IInv, TypeOK
<1>3. fd \in Surjection(Threads, open)
  BY <1>2 DEF Surjection
<1>4. IsFiniteSet(open) /\ Cardinality(open) <= n
  BY <1>1, <1>3, FS_Surjection
<1>5. IsFiniteSet(open \cup {main}) /\ Cardinality(open \cup {main}) <= n + 1
  <2>1. Cardinality(open) \in Nat
    BY <1>4, FS_CardinalityType
  <2> HIDE DEF open, n
  <2>2. IsFiniteSet(open \cup {main})
    BY <1>4, FS_AddElement
  <2>3. Cardinality(open \cup {main}) \in {Cardinality(open), Cardinality(open) + 1}
    BY <1>4, FS_AddElement
  <2> QED
    BY <1>1, <1>4, <2>1, <2>2, <2>3
<1>6. Cardinality(Inode) = n + 2
  <2>1. n + 2 \in Int /\ 1 \in Int
    BY <1>1
  <2> HIDE DEF n
  <2>2. Cardinality(1..(n + 2)) = n + 2
    BY <1>1, <2>1, FS_Interval
  <2> QED
    BY <2>2 DEF Inode, n
<1>7. ~(Inode \subseteq open \cup {main})
  <2> SUFFICES ASSUME Inode \subseteq open \cup {main} PROVE FALSE
    OBVIOUS
  <2> HIDE DEF open, n
  <2>1. Cardinality(Inode) <= Cardinality(open \cup {main})
    BY <1>5, FS_Subset
  <2>2. Cardinality(open \cup {main}) \in Nat
    BY <1>5, FS_CardinalityType
  <2> QED
    BY <1>1, <1>5, <1>6, <2>1, <2>2
<1> QED
  BY <1>7

\* What a recovery may start from: true, and not past its target.
Good(s, target) ==
  /\ s \in Source /\ s.lsn <= target
  /\ s.pages # None => IsTrue(log, lapsed, s.pages, s.lsn)

LEMMA MainGood ==
  ASSUME IInv, NEW target \in Lsn, NEW s \in Main(target)
  PROVE  Good(s, target) /\ s.pages # None
<1>1. /\ main # None /\ disk[main] \notin {None, Torn} /\ disk[main].lsn <= target
      /\ s = [lsn |-> disk[main].lsn, pages |-> disk[main].pages, diff |-> FALSE]
  BY DEF Main
<1>2. main \in Inode /\ disk[main] \in Payload
  BY <1>1 DEF IInv, TypeOK
<1>3. IsTrue(log, lapsed, disk[main].pages, disk[main].lsn)
  BY <1>2 DEF IInv, Trues
<1>4. disk[main].lsn \in Lsn /\ disk[main].pages \in Contents
  BY <1>2 DEF Payload
<1> QED
  BY <1>1, <1>3, <1>4, ArchiveAssumption DEF Good, Source

LEMMA LoadsNewestGood ==
  ASSUME IInv, NEW target \in Lsn, NEW A, A \subseteq archives,
         \A f \in A : f.lsn <= target, NEW s \in LoadsNewest(A)
  PROVE  Good(s, target)
<1>1. PICK f \in Newest(A) : \E c \in Loads(f) :
         s = [lsn |-> f.lsn, pages |-> c, diff |-> f.base # None]
  BY DEF LoadsNewest
<1>2. PICK c \in Loads(f) : s = [lsn |-> f.lsn, pages |-> c, diff |-> f.base # None]
  BY <1>1
<1>3. f \in archives /\ f.lsn <= target
  BY DEF Newest
<1>4. c \in {f.manifest, None}
  BY <1>3, LoadsManifest
<1>5. IsArchive(f) /\ IsTrue(log, lapsed, f.manifest, f.lsn)
  BY <1>3 DEF IInv, TypeOK, Trues
<1>6. s \in Source
  BY <1>2, <1>4, <1>5 DEF IsArchive, Source
<1> QED
  BY <1>2, <1>3, <1>4, <1>5, <1>6 DEF Good

LEMMA StartGood ==
  ASSUME IInv, NEW target \in Lsn, NEW s \in Starts(target), s # None
  PROVE  Good(s, target)
<1> DEFINE A == {f \in archives : f.lsn <= target}
<1>1. CASE A # {}
  <2>1. s \in LoadsNewest(A)
    BY <1>1 DEF Starts
  <2>2. A \subseteq archives /\ \A f \in A : f.lsn <= target
    OBVIOUS
  <2> HIDE DEF A
  <2> QED
    BY <2>1, <2>2, LoadsNewestGood
<1>2. CASE A = {}
  <2>1. s \in Main(target)
    BY <1>2 DEF Starts
  <2> QED
    BY <2>1, MainGood
<1> QED
  BY <1>1, <1>2

\* What both recoveries do, and from what.
RestoresFrom(target, s) ==
  /\ target \in Lsn /\ (s = None \/ Good(s, target))
  /\ found' = [target |-> target, start |-> s, done |-> s = None \/ s.pages # None]
  /\ store' \in Contents /\ lsn' \in Lsn
  /\ UNCHANGED <<log, lapsed, logFrom, pc, job, plan, files, archives, rushed, snaps>>
  /\ found'.done =>
       \/ target <= Len(log) /\ store' = ReplayIn(log, LoadedFrom(s), logFrom + 1, target)
       \/ target <= logFrom /\ store' = LoadedFrom(s)

LEMMA LoadedType ==
  ASSUME IInv, NEW target, NEW s, s = None \/ Good(s, target)
  PROVE  LoadedFrom(s) \in Contents
<1>1. store \in Contents
  BY DEF IInv, TypeOK
<1>2. CASE s = None \/ s.pages = None
  BY <1>1, <1>2 DEF LoadedFrom
<1>3. CASE s # None /\ s.pages # None
  <2>1. s.pages \in Contents
    BY <1>3 DEF Good, Source
  <2> QED
    BY <1>1, <1>3, <2>1 DEF LoadedFrom, Contents
<1> QED
  BY <1>2, <1>3

LEMMA RecoversLsn ==
  ASSUME IInv, found = None, NEW target \in Lsn, RecoverToLsn(target)
  PROVE  \E s : RestoresFrom(target, s)
<1>1. PICK s \in Starts(target) :
         Recovered(target, s, Replay(LoadedFrom(s), logFrom + 1, target),
                   IF target > logFrom THEN target ELSE 0)
  BY DEF RecoverToLsn
<1>2. s = None \/ Good(s, target)
  BY StartGood
<1>3. /\ log \in Seq(Line) /\ logFrom \in 0..Len(log) /\ lsn = Len(log) /\ target <= lsn
      /\ target \in Nat /\ store \in Contents /\ lsn \in Lsn
  BY ArchiveAssumption DEF IInv, TypeOK, Trues, RecoverToLsn, Lsn
<1>4. Replay(LoadedFrom(s), logFrom + 1, target) =
        ReplayIn(log, LoadedFrom(s), logFrom + 1, target)
  BY ReplayIsIn
<1>5. ReplayIn(log, LoadedFrom(s), logFrom + 1, target) \in Contents
  <2>1. logFrom + 1 \in Nat \ {0} /\ target <= Len(log)
    BY <1>3
  <2> QED
    BY <1>2, <1>3, <2>1, LoadedType, ReplayType
<1>6. (IF target > logFrom THEN target ELSE 0) \in Lsn
  BY <1>3, ArchiveAssumption DEF Lsn
<1>7. store' \in Contents /\ lsn' \in Lsn
  BY <1>1, <1>3, <1>4, <1>5, <1>6 DEF Recovered
<1> QED
  BY <1>1, <1>2, <1>3, <1>4, <1>7 DEF RestoresFrom, Recovered

LEMMA RecoversTimestamp ==
  ASSUME IInv, found = None, NEW target \in Lsn, RecoverToTimestamp(target)
  PROVE  \E s : RestoresFrom(target, s)
<1> DEFINE usable == {f \in archives : f.lsn <= target /\ Loads(f) # {None}}
<1>1. PICK s \in IF Main(target) # {} THEN Main(target)
                 ELSE {r \in LoadsNewest(usable) : r.pages # None} :
         Recovered(target, s, LoadedFrom(s), lsn)
  BY DEF RecoverToTimestamp
<1>2. Good(s, target)
  <2>1. CASE Main(target) # {}
    BY <1>1, <2>1, MainGood
  <2>2. CASE Main(target) = {}
    <3>1. s \in LoadsNewest(usable)
      BY <1>1, <2>2
    <3>2. usable \subseteq archives /\ \A f \in usable : f.lsn <= target
      OBVIOUS
    <3> HIDE DEF usable
    <3> QED
      BY <3>1, <3>2, LoadsNewestGood
  <2> QED
    BY <2>1, <2>2
<1>3. target <= logFrom /\ store \in Contents /\ lsn \in Lsn
  BY DEF IInv, TypeOK, RecoverToTimestamp
<1>4. LoadedFrom(s) \in Contents
  BY <1>2, LoadedType
<1> QED
  BY <1>1, <1>2, <1>3, <1>4 DEF RestoresFrom, Recovered

LEMMA RestoredFound ==
  ASSUME IInv, NEW target, NEW s, RestoresFrom(target, s)
  PROVE  found' # None
<1>1. s \in Source \cup {None} /\ target \in Lsn
  BY DEF RestoresFrom, Good
<1>2. (s = None \/ s.pages # None) \in BOOLEAN
  OBVIOUS
<1>3. found' \in Recovery
  BY <1>1, <1>2 DEF RestoresFrom, Recovery
<1> QED
  BY <1>3, ArchiveAssumption

\* The steps, one case each.
LEMMA Steps ==
  ASSUME IInv, [Next]_vars
  PROVE  \/ UNCHANGED vars
         \/ /\ found = None /\ found' = found
            /\ \/ \E p \in Pages : Lapse(p)
               \/ \E line \in Line : Write(line)
               \/ \E t \in Threads :
                    \/ Dump(t) \/ Open(t) \/ WriteTmp(t) \/ Replace(t)
                    \/ Build(t) \/ WriteArchive(t) \/ Prune(t) \/ Rotate(t)
         \/ found = None /\ \E target, s : RestoresFrom(target, s)
BY RecoversLsn, RecoversTimestamp DEF Next

LEMMA LsnsAreNumbers == Lsn \subseteq Nat /\ None \notin Lsn
<1>1. MaxLsn \in Nat /\ None \notin Nat
  BY ArchiveAssumption
<1> QED
  BY <1>1 DEF Lsn

\* The archive that Build makes: the whole dump, or what differs from an older one.
Built(t, a) ==
  /\ IsArchive(a) /\ Chained(a) /\ a.lsn = job[t].lsn /\ a.manifest = job[t].pages
  /\ a.base # None =>
       \E f \in archives : \E c \in Loads(f) :
         /\ f.lsn = a.base /\ f.lsn < a.lsn /\ c # None
         /\ c \in Contents /\ a.body = Diff(a.manifest, c)

LEMMA BuildMakes ==
  ASSUME IInv, NEW t \in Threads, Build(t)
  PROVE  \E a : plan' = [plan EXCEPT ![t] = a] /\ Built(t, a)
<1> DEFINE below == {f \in archives : f.lsn < job[t].lsn}
           older == Newest(below)
           diff(f, c) == [Full(t) EXCEPT !.base = f.lsn, !.body = Diff(job[t].pages, c)]
           diffs(f) == {IF c = None \/ c = job[t].pages THEN Full(t) ELSE diff(f, c) : c \in Loads(f)}
<1>1. PICK a \in IF older = {} THEN {Full(t)} ELSE UNION {diffs(f) : f \in older} :
         plan' = [plan EXCEPT ![t] = a]
  BY DEF Build
<1>2. job[t] \in Payload /\ job[t].lsn \in Lsn /\ job[t].pages \in Contents
  <2>1. job[t] \in Payload
    BY DEF IInv, TypeOK, Build, Step
  <2> QED
    BY <2>1 DEF Payload
<1>3. CASE a = Full(t)
  <2>1. IsArchive(a)
    BY <1>2, <1>3 DEF Full, IsArchive, Contents
  <2> QED
    BY <1>1, <1>3, <2>1 DEF Full, Built, Chained
<1>4. CASE a # Full(t)
  <2>1. PICK f \in older : a \in diffs(f)
    BY <1>1, <1>4
  <2>2. PICK c \in Loads(f) : c # None /\ a = diff(f, c)
    BY <1>4, <2>1
  <2>3. f \in archives /\ f.lsn < job[t].lsn
    BY DEF Newest
  <2>4. IsArchive(f) /\ c \in Contents
    <3>1. c \in {f.manifest, None} /\ IsArchive(f)
      BY <2>3, LoadsManifest DEF IInv, TypeOK
    <3> QED
      BY <2>2, <3>1 DEF IsArchive
  <2>5. /\ a.lsn = job[t].lsn /\ a.manifest = job[t].pages /\ a.base = f.lsn
        /\ a.body = Diff(job[t].pages, c)
    BY <2>2 DEF Full
  <2>6. f.lsn \in Lsn /\ f.lsn # None /\ f.lsn \in 0..(a.lsn - 1)
    <3>1. f.lsn \in Lsn /\ a.lsn \in Lsn /\ f.lsn < a.lsn
      BY <1>2, <2>3, <2>4, <2>5 DEF IsArchive
    <3> HIDE DEF below, older, diff, diffs
    <3>2. f.lsn \in Nat /\ a.lsn \in Nat /\ f.lsn # None
      BY <3>1, LsnsAreNumbers
    <3>3. f.lsn \in 0..(a.lsn - 1)
      BY <3>1, <3>2
    <3> QED
      BY <3>1, <3>2, <3>3
  <2>7. /\ Diff(job[t].pages, c) \in [DOMAIN Diff(job[t].pages, c) -> Nat \cup {None}]
        /\ DOMAIN Diff(job[t].pages, c) \subseteq Pages
    BY <1>2 DEF Diff, Contents
  <2>8. IsArchive(a) /\ Chained(a)
    BY <1>2, <2>5, <2>6, <2>7 DEF IsArchive, Chained
  <2> QED
    BY <1>1, <2>2, <2>3, <2>4, <2>5, <2>6, <2>8 DEF Built
<1> QED
  BY <1>3, <1>4

\* The inode that Open opens: the temporary file's, or one that nothing leads to.
LEMMA OpenMakes ==
  ASSUME IInv, NEW t \in Threads, Open(t)
  PROVE  \E i \in Inode :
           /\ tmp' = i /\ fd' = [fd EXCEPT ![t] = i] /\ disk' = [disk EXCEPT ![i] = None]
           /\ IF tmp # None THEN i = tmp ELSE i # main /\ \A u \in Threads : fd[u] # i
<1> DEFINE new == CHOOSE j \in Inode : j # main /\ \A u \in Threads : fd[u] # j
           i == IF tmp # None THEN tmp ELSE new
<1>1. tmp' = i /\ fd' = [fd EXCEPT ![t] = i] /\ disk' = [disk EXCEPT ![i] = None]
  BY DEF Open
<1>2. new \in Inode /\ new # main /\ \A u \in Threads : fd[u] # new
  BY FreshInode
<1>3. tmp \in Inode \cup {None}
  BY DEF IInv, TypeOK
<1> HIDE DEF new
<1> QED
  BY <1>1, <1>2, <1>3

LEMMA TypesStep ==
  ASSUME IInv, [Next]_vars
  PROVE  TypeOK'
<1> DEFINE states == {"idle", "open", "write", "replace", "build", "archive", "prune", "rotate"}
<1>0. /\ store \in Contents /\ lsn \in Lsn /\ logFrom \in 0..Len(log)
      /\ log \in Seq(Line) /\ lapsed \subseteq Pages
      /\ pc \in [Threads -> states]
      /\ job \in [Threads -> Payload \cup {None}] /\ DOMAIN plan = Threads
      /\ fd \in [Threads -> Inode \cup {None}]
      /\ \A t \in Threads :
           /\ job[t] # None <=> pc[t] \notin {"idle", "rotate"}
           /\ IF pc[t] = "archive" THEN IsArchive(plan[t]) ELSE plan[t] = None
           /\ fd[t] # None <=> pc[t] = "write"
      /\ tmp \in Inode \cup {None} /\ main \in Inode \cup {None}
      /\ disk \in [Inode -> Payload \cup {None, Torn}]
      /\ \A f \in archives : IsArchive(f)
      /\ snaps \in 0..MaxSnaps
  BY DEF IInv, TypeOK
<1>a. None \notin Payload /\ None \notin Inode
  BY ArchiveAssumption DEF Inode
<1>1. CASE UNCHANGED vars
  BY <1>0, <1>1 DEF vars, TypeOK, IsArchive
<1>2. ASSUME NEW x \in Pages, Lapse(x) PROVE TypeOK'
  <2>1. store' \in Contents
    BY <1>0, <1>2 DEF Lapse, Contents
  <2>2. lapsed' \subseteq Pages
    BY <1>0, <1>2 DEF Lapse
  <2> QED
    BY <1>0, <1>2, <2>1, <2>2 DEF TypeOK, Lapse, files, IsArchive
<1>3. ASSUME found = None, NEW line \in Line, Write(line) PROVE TypeOK'
  <2>1. /\ log' \in Seq(Line) /\ Len(log') = Len(log) + 1 /\ lsn' = Len(log')
        /\ lsn' <= MaxLsn /\ store' \in Contents
    BY <1>3, WriteApplies
  <2>2. lsn' \in Lsn /\ logFrom \in 0..Len(log')
    <3>1. Len(log) \in Nat /\ MaxLsn \in Nat
      BY <1>0, ArchiveAssumption
    <3> QED
      BY <1>0, <2>1, <3>1 DEF Lsn
  <2> QED
    BY <1>0, <1>3, <2>1, <2>2 DEF TypeOK, Write, files, IsArchive
<1>4. ASSUME NEW t \in Threads, Dump(t) PROVE TypeOK'
  <2>1. [lsn |-> lsn, pages |-> store] \in Payload
    BY <1>0 DEF Payload
  <2>2. snaps' \in 0..MaxSnaps
    BY <1>0, <1>4, ArchiveAssumption DEF Dump
  <2>3. job' \in [Threads -> Payload \cup {None}] /\ pc' \in [Threads -> states]
    BY <1>0, <1>4, <2>1 DEF Dump, Step
  <2>4. ASSUME NEW u \in Threads
        PROVE  /\ job'[u] # None <=> pc'[u] \notin {"idle", "rotate"}
               /\ IF pc'[u] = "archive" THEN IsArchive(plan[u]) ELSE plan[u] = None
               /\ fd[u] # None <=> pc'[u] = "write"
    BY <1>0, <1>a, <1>4, <2>1 DEF Dump, Step
  <2> QED
    BY <1>0, <1>4, <2>2, <2>3, <2>4 DEF TypeOK, Dump, memory, files, IsArchive
<1>5. ASSUME NEW t \in Threads, Open(t) PROVE TypeOK'
  <2>1. PICK i \in Inode : /\ tmp' = i /\ fd' = [fd EXCEPT ![t] = i]
                           /\ disk' = [disk EXCEPT ![i] = None]
    BY <1>5, OpenMakes
  <2>2. pc[t] = "open" /\ pc' = [pc EXCEPT ![t] = "write"]
    BY <1>5 DEF Open, Step
  <2>3. /\ tmp' \in Inode \cup {None} /\ fd' \in [Threads -> Inode \cup {None}]
        /\ disk' \in [Inode -> Payload \cup {None, Torn}]
    BY <1>0, <2>1, <2>2
  <2>4. pc' \in [Threads -> states]
    BY <1>0, <1>5 DEF Open, Step
  <2>5. ASSUME NEW u \in Threads
        PROVE  /\ job[u] # None <=> pc'[u] \notin {"idle", "rotate"}
               /\ IF pc'[u] = "archive" THEN IsArchive(plan[u]) ELSE plan[u] = None
               /\ fd'[u] # None <=> pc'[u] = "write"
    BY <1>0, <1>a, <2>1, <2>2
  <2> QED
    BY <1>0, <1>5, <2>3, <2>4, <2>5 DEF TypeOK, Open, memory, IsArchive
<1>6. ASSUME NEW t \in Threads, WriteTmp(t) PROVE TypeOK'
  <2>1. PICK c \in {job[t], Torn} : disk' = [disk EXCEPT ![fd[t]] = c]
    BY <1>6 DEF WriteTmp
  <2>2. fd[t] \in Inode /\ job[t] \in Payload
    BY <1>0, <1>6 DEF WriteTmp, Step
  <2>3. disk' \in [Inode -> Payload \cup {None, Torn}]
    BY <1>0, <2>1, <2>2
  <2>4. pc' \in [Threads -> states] /\ fd' \in [Threads -> Inode \cup {None}]
    BY <1>0, <1>6 DEF WriteTmp, Step
  <2>5. ASSUME NEW u \in Threads
        PROVE  /\ job[u] # None <=> pc'[u] \notin {"idle", "rotate"}
               /\ IF pc'[u] = "archive" THEN IsArchive(plan[u]) ELSE plan[u] = None
               /\ fd'[u] # None <=> pc'[u] = "write"
    BY <1>0, <1>6 DEF WriteTmp, Step
  <2> QED
    BY <1>0, <1>6, <2>3, <2>4, <2>5 DEF TypeOK, WriteTmp, memory, IsArchive
<1>7. ASSUME NEW t \in Threads, Replace(t) PROVE TypeOK'
  <2>1. main' \in Inode \cup {None} /\ tmp' = None
    BY <1>0, <1>7 DEF Replace
  <2>2. pc' \in [Threads -> states] /\ job' \in [Threads -> Payload \cup {None}]
    BY <1>0, <1>7 DEF Replace, Step
  <2>3. ASSUME NEW u \in Threads
        PROVE  /\ job'[u] # None <=> pc'[u] \notin {"idle", "rotate"}
               /\ IF pc'[u] = "archive" THEN IsArchive(plan[u]) ELSE plan[u] = None
               /\ fd[u] # None <=> pc'[u] = "write"
    BY <1>0, <1>7 DEF Replace, Step
  <2> QED
    BY <1>0, <1>7, <2>1, <2>2, <2>3 DEF TypeOK, Replace, memory, IsArchive
<1>8. ASSUME NEW t \in Threads, Build(t) PROVE TypeOK'
  <2>1. PICK a : /\ plan' = [plan EXCEPT ![t] = a]
                 /\ Built(t, a)
    BY <1>8, BuildMakes
  <2>2. IsArchive(a)
    BY <2>1 DEF Built
  <2>3. pc' \in [Threads -> states] /\ DOMAIN plan' = Threads
    BY <1>0, <1>8, <2>1 DEF Build, Step
  <2>4. ASSUME NEW u \in Threads
        PROVE  /\ job[u] # None <=> pc'[u] \notin {"idle", "rotate"}
               /\ IF pc'[u] = "archive" THEN IsArchive(plan'[u]) ELSE plan'[u] = None
               /\ fd[u] # None <=> pc'[u] = "write"
    BY <1>0, <1>8, <2>1, <2>2 DEF Build, Step
  <2> QED
    BY <1>0, <1>8, <2>3, <2>4 DEF TypeOK, Build, memory, files, IsArchive
<1>9. ASSUME NEW t \in Threads, WriteArchive(t) PROVE TypeOK'
  <2>1. archives' \subseteq archives \cup {plan[t]} /\ IsArchive(plan[t])
    BY <1>0, <1>9 DEF WriteArchive, Step
  <2>2. \A f \in archives' : IsArchive(f)
    BY <1>0, <2>1
  <2>3. pc' \in [Threads -> states] /\ DOMAIN plan' = Threads
    BY <1>0, <1>9 DEF WriteArchive, Step
  <2>4. ASSUME NEW u \in Threads
        PROVE  /\ job[u] # None <=> pc'[u] \notin {"idle", "rotate"}
               /\ IF pc'[u] = "archive" THEN IsArchive(plan'[u]) ELSE plan'[u] = None
               /\ fd[u] # None <=> pc'[u] = "write"
    BY <1>0, <1>9 DEF WriteArchive, Step
  <2> QED
    BY <1>0, <1>9, <2>2, <2>3, <2>4 DEF TypeOK, WriteArchive, memory, files, IsArchive
<1>10. ASSUME NEW t \in Threads, Prune(t) PROVE TypeOK'
  <2>1. archives' \subseteq archives
    BY <1>10 DEF Prune, Closures
  <2>2. \A f \in archives' : IsArchive(f)
    BY <1>0, <2>1
  <2>3. pc' \in [Threads -> states] /\ job' \in [Threads -> Payload \cup {None}]
    BY <1>0, <1>10 DEF Prune, Step
  <2>4. ASSUME NEW u \in Threads
        PROVE  /\ job'[u] # None <=> pc'[u] \notin {"idle", "rotate"}
               /\ IF pc'[u] = "archive" THEN IsArchive(plan[u]) ELSE plan[u] = None
               /\ fd[u] # None <=> pc'[u] = "write"
    BY <1>0, <1>10 DEF Prune, Step
  <2> QED
    BY <1>0, <1>10, <2>2, <2>3, <2>4 DEF TypeOK, Prune, memory, files, IsArchive
<1>11. ASSUME NEW t \in Threads, Rotate(t), found = None PROVE TypeOK'
  <2>1. logFrom' \in 0..Len(log)
    <3>1. lsn = Len(log) /\ Len(log) \in Nat
      BY <1>0, <1>11 DEF IInv, Trues
    <3> QED
      BY <1>11, <3>1 DEF Rotate
  <2>2. pc' \in [Threads -> states]
    BY <1>0, <1>11 DEF Rotate, Step
  <2>3. ASSUME NEW u \in Threads
        PROVE  /\ job[u] # None <=> pc'[u] \notin {"idle", "rotate"}
               /\ IF pc'[u] = "archive" THEN IsArchive(plan[u]) ELSE plan[u] = None
               /\ fd[u] # None <=> pc'[u] = "write"
    BY <1>0, <1>11 DEF Rotate, Step
  <2> QED
    BY <1>0, <1>11, <2>1, <2>2, <2>3 DEF TypeOK, Rotate, memory, files, IsArchive
<1>12. ASSUME NEW target, NEW s, RestoresFrom(target, s) PROVE TypeOK'
  BY <1>0, <1>12 DEF TypeOK, RestoresFrom, files, IsArchive
<1> HIDE DEF states
<1> QED
  BY <1>1, <1>2, <1>3, <1>4, <1>5, <1>6, <1>7, <1>8, <1>9, <1>10, <1>11, <1>12, Steps

\* What is true stays true as the log grows and more is gone.
LEMMA TrueStays ==
  ASSUME NEW lg \in Seq(Line), NEW line \in Line, NEW lh \in {lg, Append(lg, line)},
         NEW gone, NEW lost, gone \subseteq lost, NEW c, NEW l, IsTrue(lg, gone, c, l)
  PROVE  IsTrue(lh, lost, c, l)
<1>1. l \in 0..Len(lg) /\ l \in Nat /\ l <= Len(lg)
  BY DEF IsTrue
<1>2. l \in 0..Len(lh)
  BY <1>1
<1>3. PastIn(lh, l) = PastIn(lg, l)
  <2>1. 1 \in Nat \ {0}
    OBVIOUS
  <2>2. ReplayIn(Append(lg, line), Empty, 1, l) = ReplayIn(lg, Empty, 1, l)
    BY <1>1, <2>1, ReplayAppend
  <2> QED
    BY <2>2 DEF PastIn
<1> QED
  BY <1>2, <1>3 DEF IsTrue

LEMMA TruesStep ==
  ASSUME IInv, [Next]_vars
  PROVE  Trues'
<1>0. /\ log \in Seq(Line) /\ lsn \in Nat /\ Len(log) <= MaxLsn
      /\ found = None => lsn = Len(log) /\ IsTrue(log, lapsed, store, lsn)
      /\ \A t \in Threads :
           /\ job[t] # None => IsTrue(log, lapsed, job[t].pages, job[t].lsn)
           /\ pc[t] = "archive" => IsTrue(log, lapsed, plan[t].manifest, plan[t].lsn)
      /\ \A i \in Inode : disk[i] \in Payload => IsTrue(log, lapsed, disk[i].pages, disk[i].lsn)
      /\ \A f \in archives : IsTrue(log, lapsed, f.manifest, f.lsn)
  BY LsnsAreNumbers DEF IInv, TypeOK, Trues
<1>a. /\ pc \in [Threads -> {"idle", "open", "write", "replace", "build", "archive",
                             "prune", "rotate"}]
      /\ job \in [Threads -> Payload \cup {None}] /\ DOMAIN plan = Threads
      /\ disk \in [Inode -> Payload \cup {None, Torn}]
      /\ fd \in [Threads -> Inode \cup {None}]
      /\ \A t \in Threads : /\ job[t] # None <=> pc[t] \notin {"idle", "rotate"}
                            /\ fd[t] # None <=> pc[t] = "write"
      /\ store \in Contents
  BY DEF IInv, TypeOK
<1>b. None \notin Payload /\ Torn \notin Payload
  BY ArchiveAssumption
<1>1. CASE UNCHANGED vars
  BY <1>0, <1>1 DEF vars, Trues
<1>2. ASSUME found = None, NEW x \in Pages, Lapse(x) PROVE Trues'
  <2>1. /\ log' = log /\ lsn' = lsn /\ lapsed' = lapsed \cup {x} /\ job' = job /\ pc' = pc
        /\ plan' = plan /\ disk' = disk /\ archives' = archives
        /\ store' = [store EXCEPT ![x] = None]
    BY <1>2 DEF Lapse, files
  <2>2. ASSUME NEW c, NEW l, IsTrue(log, lapsed, c, l) PROVE IsTrue(log', lapsed', c, l)
    BY <2>1, <2>2 DEF IsTrue
  <2>3. IsTrue(log', lapsed', store', lsn')
    BY <1>0, <1>2, <1>a, <2>1 DEF IsTrue, Contents
  <2> QED
    BY <1>0, <1>2, <2>1, <2>2, <2>3 DEF Trues
<1>3. ASSUME found = None, NEW line \in Line, Write(line) PROVE Trues'
  <2>1. /\ lapsed' = lapsed /\ job' = job /\ pc' = pc
        /\ plan' = plan /\ disk' = disk /\ archives' = archives
    BY <1>3 DEF Write, files
  <2>2. /\ log' = Append(log, line) /\ log' \in Seq(Line) /\ Len(log') = Len(log) + 1
        /\ lsn' = Len(log') /\ lsn = Len(log) /\ lsn' <= MaxLsn
        /\ store' = ApplyIn(log', store, lsn') /\ store' \in Contents
    BY <1>3, WriteApplies
  <2>3. ASSUME NEW c, NEW l, IsTrue(log, lapsed, c, l) PROVE IsTrue(log', lapsed', c, l)
    BY <1>0, <2>1, <2>2, <2>3, TrueStays
  <2>4. IsTrue(log', lapsed', store', lsn')
    <3>1. PICK lg, c, d, m : lg = log' /\ c = store /\ d = store' /\ m = lsn
      OBVIOUS
    <3>2. m \in Nat /\ m + 1 = lsn' /\ m + 1 \in 1..Len(lg) /\ m + 1 \in 0..Len(lg)
          /\ m \in 0..Len(lg)
      BY <1>0, <2>2, <3>1
    <3>3. IsTrue(lg, lapsed, c, m)
      BY <1>0, <1>3, <2>1, <2>3, <3>1
    <3>4. PastIn(lg, m + 1) = ApplyIn(lg, PastIn(lg, m), m + 1)
      <4>1. m + 1 \in Nat /\ 1 <= m + 1 /\ (m + 1) - 1 = m
        BY <3>2
      <4> QED
        BY <4>1, ReplayStep DEF PastIn
    <3>5. PastIn(lg, m) \in Contents
      BY <2>2, <3>1, <3>2, PastType
    <3>6. ASSUME NEW x \in Pages \ lapsed
          PROVE  ApplyIn(lg, c, m + 1)[x] = ApplyIn(lg, PastIn(lg, m), m + 1)[x]
      <4>1. c[x] = PastIn(lg, m)[x]
        BY <3>3 DEF IsTrue
      <4> QED
        <5>1. lg \in Seq(Line) /\ c \in Contents /\ m + 1 \in 1..Len(lg) /\ x \in Pages
          BY <1>a, <2>2, <3>1, <3>2
        <5> QED
          BY <3>5, <4>1, <5>1, ApplyPage
    <3>7. d = ApplyIn(lg, c, m + 1)
      BY <2>2, <3>1, <3>2
    <3>8. IsTrue(lg, lapsed, d, m + 1)
      BY <3>2, <3>4, <3>6, <3>7 DEF IsTrue
    <3> QED
      BY <2>1, <3>1, <3>2, <3>8
  <2> QED
    BY <1>0, <1>3, <2>1, <2>2, <2>3, <2>4 DEF Trues
<1>4. ASSUME found = None, found' = found, NEW t \in Threads, Dump(t) PROVE Trues'
  <2>1. /\ log' = log /\ lapsed' = lapsed /\ lsn' = lsn /\ store' = store
        /\ pc[t] = "idle" /\ pc' = [pc EXCEPT ![t] = "open"]
        /\ plan' = plan /\ disk' = disk /\ archives' = archives
        /\ job' = [job EXCEPT ![t] = [lsn |-> lsn, pages |-> store]]
    BY <1>4 DEF Dump, Step, memory, files
  <2>2. ASSUME NEW u \in Threads
        PROVE  /\ job'[u] # None => IsTrue(log', lapsed', job'[u].pages, job'[u].lsn)
               /\ pc'[u] = "archive" => IsTrue(log', lapsed', plan'[u].manifest, plan'[u].lsn)
    BY <1>0, <1>4, <1>a, <2>1
  <2> QED
    BY <1>0, <1>4, <2>1, <2>2 DEF Trues
<1>5. ASSUME found = None, found' = found, NEW t \in Threads, Open(t) PROVE Trues'
  <2>1. PICK i \in Inode : disk' = [disk EXCEPT ![i] = None]
    BY <1>5, OpenMakes
  <2>2. /\ log' = log /\ lapsed' = lapsed /\ lsn' = lsn /\ store' = store /\ job' = job
        /\ pc' = [pc EXCEPT ![t] = "write"] /\ plan' = plan /\ archives' = archives
    BY <1>5 DEF Open, Step, memory
  <2>3. \A j \in Inode : disk'[j] \in Payload => disk'[j] = disk[j]
    BY <1>a, <1>b, <2>1
  <2>4. \A u \in Threads : pc'[u] = "archive" => pc[u] = "archive"
    BY <1>a, <2>2
  <2> QED
    BY <1>0, <1>5, <2>2, <2>3, <2>4 DEF Trues
<1>6. ASSUME found = None, found' = found, NEW t \in Threads, WriteTmp(t) PROVE Trues'
  <2>1. PICK c \in {job[t], Torn} : disk' = [disk EXCEPT ![fd[t]] = c]
    BY <1>6 DEF WriteTmp
  <2>2. /\ log' = log /\ lapsed' = lapsed /\ lsn' = lsn /\ store' = store /\ job' = job
        /\ pc[t] = "write" /\ pc' = [pc EXCEPT ![t] = "replace"]
        /\ plan' = plan /\ archives' = archives
    BY <1>6 DEF WriteTmp, Step, memory
  <2>3. \A j \in Inode : disk'[j] \in Payload => disk'[j] \in {disk[j], job[t]}
    BY <1>a, <1>b, <2>1
  <2>4. \A u \in Threads : pc'[u] = "archive" => pc[u] = "archive"
    BY <1>a, <2>2
  <2>5. IsTrue(log, lapsed, job[t].pages, job[t].lsn)
    BY <1>0, <1>a, <2>2
  <2>6. \A j \in Inode : disk'[j] \in Payload => IsTrue(log, lapsed, disk'[j].pages, disk'[j].lsn)
    <3> SUFFICES ASSUME NEW j \in Inode, disk'[j] \in Payload
                 PROVE  IsTrue(log, lapsed, disk'[j].pages, disk'[j].lsn)
      OBVIOUS
    <3>1. CASE disk'[j] = disk[j]
      BY <1>0, <3>1
    <3>2. CASE disk'[j] = job[t]
      BY <2>5, <3>2
    <3> QED
      BY <2>3, <3>1, <3>2
  <2> QED
    BY <1>0, <1>6, <2>2, <2>4, <2>6 DEF Trues
<1>7. ASSUME found = None, found' = found, NEW t \in Threads, Replace(t) PROVE Trues'
  <2>1. /\ log' = log /\ lapsed' = lapsed /\ lsn' = lsn /\ store' = store /\ disk' = disk
        /\ plan' = plan /\ archives' = archives
    BY <1>7 DEF Replace, memory
  <2>2. ASSUME NEW u \in Threads
        PROVE  /\ job'[u] # None => job'[u] = job[u]
               /\ pc'[u] = "archive" => pc[u] = "archive"
    BY <1>7, <1>a DEF Replace, Step
  <2> QED
    BY <1>0, <1>7, <2>1, <2>2 DEF Trues
<1>8. ASSUME found = None, found' = found, NEW t \in Threads, Build(t) PROVE Trues'
  <2>1. PICK a : plan' = [plan EXCEPT ![t] = a] /\ Built(t, a)
    BY <1>8, BuildMakes
  <2>2. /\ log' = log /\ lapsed' = lapsed /\ lsn' = lsn /\ store' = store /\ job' = job
        /\ pc[t] = "build" /\ pc' = [pc EXCEPT ![t] = "archive"]
        /\ disk' = disk /\ archives' = archives
    BY <1>8 DEF Build, Step, memory, files
  <2>3. a.lsn = job[t].lsn /\ a.manifest = job[t].pages
    BY <2>1 DEF Built
  <2>4. IsTrue(log, lapsed, a.manifest, a.lsn)
    BY <1>0, <1>a, <2>2, <2>3
  <2>5. ASSUME NEW u \in Threads, pc'[u] = "archive"
        PROVE  IsTrue(log, lapsed, plan'[u].manifest, plan'[u].lsn)
    BY <1>0, <1>a, <2>1, <2>2, <2>4, <2>5
  <2> QED
    BY <1>0, <1>8, <2>2, <2>5 DEF Trues
<1>9. ASSUME found = None, found' = found, NEW t \in Threads, WriteArchive(t) PROVE Trues'
  <2>1. /\ log' = log /\ lapsed' = lapsed /\ lsn' = lsn /\ store' = store /\ job' = job
        /\ pc[t] = "archive" /\ pc' = [pc EXCEPT ![t] = "prune"]
        /\ disk' = disk /\ plan' = [plan EXCEPT ![t] = None]
    BY <1>9 DEF WriteArchive, Step, memory, files
  <2>2. \A f \in archives' : f \in archives \/ f = plan[t]
    BY <1>9 DEF WriteArchive
  <2>3. ASSUME NEW u \in Threads, pc'[u] = "archive" PROVE pc[u] = "archive" /\ plan'[u] = plan[u]
    BY <1>a, <2>1, <2>3
  <2>4. \A f \in archives' : IsTrue(log, lapsed, f.manifest, f.lsn)
    BY <1>0, <2>1, <2>2
  <2> QED
    BY <1>0, <1>9, <2>1, <2>3, <2>4 DEF Trues
<1>10. ASSUME found = None, found' = found, NEW t \in Threads, Prune(t) PROVE Trues'
  <2>1. /\ log' = log /\ lapsed' = lapsed /\ lsn' = lsn /\ store' = store /\ disk' = disk
        /\ plan' = plan
    BY <1>10 DEF Prune, memory, files
  <2>2. archives' \subseteq archives
    BY <1>10 DEF Prune, Closures
  <2>3. ASSUME NEW u \in Threads
        PROVE  /\ job'[u] # None => job'[u] = job[u]
               /\ pc'[u] = "archive" => pc[u] = "archive"
    BY <1>10, <1>a DEF Prune, Step
  <2> QED
    BY <1>0, <1>10, <2>1, <2>2, <2>3 DEF Trues
<1>11. ASSUME found = None, found' = found, NEW t \in Threads, Rotate(t) PROVE Trues'
  <2>1. /\ log' = log /\ lapsed' = lapsed /\ lsn' = lsn /\ store' = store /\ disk' = disk
        /\ plan' = plan /\ job' = job /\ archives' = archives
    BY <1>11 DEF Rotate, memory, files
  <2>2. ASSUME NEW u \in Threads PROVE pc'[u] = "archive" => pc[u] = "archive"
    BY <1>11, <1>a DEF Rotate, Step
  <2> QED
    BY <1>0, <1>11, <2>1, <2>2 DEF Trues
<1>12. ASSUME NEW target, NEW s, RestoresFrom(target, s) PROVE Trues'
  <2>1. /\ log' = log /\ lapsed' = lapsed /\ job' = job /\ pc' = pc
        /\ plan' = plan /\ disk' = disk /\ archives' = archives
    BY <1>12 DEF RestoresFrom, files
  <2>2. found' # None
    BY <1>12, RestoredFound
  <2> QED
    BY <1>0, <2>1, <2>2 DEF Trues
<1> QED
  BY <1>1, <1>2, <1>3, <1>4, <1>5, <1>6, <1>7, <1>8, <1>9, <1>10, <1>11, <1>12, Steps

LEMMA BodiesStep ==
  ASSUME IInv, [Next]_vars
  PROVE  Bodies'
<1>0. /\ \A f \in archives : Chained(f)
      /\ \A t \in Threads : pc[t] = "archive" => Chained(plan[t])
      /\ pc \in [Threads -> {"idle", "open", "write", "replace", "build", "archive",
                             "prune", "rotate"}]
      /\ DOMAIN plan = Threads
  BY DEF IInv, TypeOK, Bodies
<1>1. CASE UNCHANGED <<archives, plan, pc>>
  BY <1>0, <1>1 DEF Bodies, Chained
<1>2. ASSUME NEW t \in Threads, archives' \subseteq archives, plan' = plan, NEW from, NEW to,
             Step(t, from, to), to # "archive"
      PROVE  Bodies'
  <2>1. ASSUME NEW u \in Threads PROVE pc'[u] = "archive" => pc[u] = "archive"
    BY <1>0, <1>2 DEF Step
  <2> QED
    BY <1>0, <1>2, <2>1 DEF Bodies, Chained
<1>3. ASSUME NEW t \in Threads,
             \/ Dump(t) \/ Open(t) \/ WriteTmp(t) \/ Replace(t) \/ Prune(t) \/ Rotate(t)
      PROVE  Bodies'
  <2>1. archives' \subseteq archives /\ plan' = plan
    BY <1>3 DEF Dump, Open, WriteTmp, Replace, Prune, Closures, Rotate
  <2>2. \/ Step(t, "idle", "open") \/ Step(t, "open", "write") \/ Step(t, "write", "replace")
        \/ Step(t, "replace", "build") \/ Step(t, "replace", "idle") \/ Step(t, "prune", "rotate")
        \/ Step(t, "prune", "idle") \/ Step(t, "rotate", "idle")
    BY <1>3 DEF Dump, Open, WriteTmp, Replace, Prune, Rotate
  <2> QED
    BY <1>2, <2>1, <2>2
<1>4. ASSUME NEW t \in Threads, Build(t) PROVE Bodies'
  <2>1. PICK a : plan' = [plan EXCEPT ![t] = a] /\ Chained(a)
    BY <1>4, BuildMakes DEF Built
  <2>2. archives' = archives /\ pc' = [pc EXCEPT ![t] = "archive"]
    BY <1>4 DEF Build, Step
  <2>3. ASSUME NEW u \in Threads, pc'[u] = "archive" PROVE Chained(plan'[u])
    BY <1>0, <2>1, <2>2, <2>3
  <2> QED
    BY <1>0, <2>2, <2>3 DEF Bodies, Chained
<1>5. ASSUME NEW t \in Threads, WriteArchive(t) PROVE Bodies'
  <2>1. /\ pc[t] = "archive" /\ pc' = [pc EXCEPT ![t] = "prune"]
        /\ plan' = [plan EXCEPT ![t] = None]
    BY <1>5 DEF WriteArchive, Step
  <2>2. \A f \in archives' : f \in archives \/ f = plan[t]
    BY <1>5 DEF WriteArchive
  <2>3. \A f \in archives' : Chained(f)
    BY <1>0, <2>1, <2>2
  <2>4. ASSUME NEW u \in Threads, pc'[u] = "archive" PROVE Chained(plan'[u])
    BY <1>0, <2>1, <2>4
  <2> QED
    BY <2>3, <2>4 DEF Bodies, Chained
<1>6. CASE \/ UNCHANGED vars \/ (\E x \in Pages : Lapse(x)) \/ (\E line \in Line : Write(line))
           \/ \E target, s : RestoresFrom(target, s)
  BY <1>1, <1>6 DEF vars, Lapse, Write, RestoresFrom
<1> QED
  BY <1>3, <1>4, <1>5, <1>6, Steps

\* The diff of two contents, over the one, is the other.
LEMMA DiffPatches ==
  ASSUME NEW c \in Contents, NEW d \in Contents
  PROVE  Patched(c, Diff(d, c)) = d
BY DEF Patched, Diff, Contents

LEMMA RestsStay ==
  ASSUME NEW lg \in Seq(Line), NEW line \in Line, NEW lh \in {lg, Append(lg, line)},
         NEW A, NEW B, \A g \in A : \E h \in B : h.lsn = g.lsn,
         NEW f, f.base # None => f.base \in 0..Len(lg), Rests(lg, A, f)
  PROVE  Rests(lh, B, f)
<1> SUFFICES ASSUME f.base # None PROVE Rests(lh, B, f)
  BY DEF Rests
<1>1. (\E h \in B : h.lsn = f.base) /\ Patched(PastIn(lg, f.base), f.body) = f.manifest
  BY DEF Rests
<1>2. PastIn(lh, f.base) = PastIn(lg, f.base)
  <2>1. 1 \in Nat \ {0} /\ f.base \in Nat /\ f.base <= Len(lg)
    OBVIOUS
  <2>2. ReplayIn(Append(lg, line), Empty, 1, f.base) = ReplayIn(lg, Empty, 1, f.base)
    BY <2>1, ReplayAppend
  <2> QED
    BY <2>2 DEF PastIn
<1> QED
  BY <1>1, <1>2 DEF Rests

LEMMA AloneStep ==
  ASSUME IInv, [Next]_vars
  PROVE  Alone'
<1> DEFINE late(p) == p \in {"archive", "prune"}
<1>0. /\ log \in Seq(Line) /\ DOMAIN plan = Threads
      /\ pc \in [Threads -> {"idle", "open", "write", "replace", "build", "archive",
                             "prune", "rotate"}]
  BY DEF IInv, TypeOK
<1>a. ASSUME ~rushed
      PROVE  /\ \A t, u \in Threads : t # u => ~(late(pc[t]) /\ late(pc[u]))
             /\ lapsed = {} => /\ \A f \in archives : Rests(log, archives, f)
                               /\ \A t \in Threads :
                                    pc[t] = "archive" => Rests(log, archives, plan[t])
  BY <1>a DEF IInv, Alone
<1>b. /\ \A f \in archives : f.base # None => f.base \in 0..Len(log)
      /\ \A t \in Threads : pc[t] = "archive" /\ plan[t].base # None => plan[t].base \in 0..Len(log)
  <2>1. ASSUME NEW f, Chained(f), IsTrue(log, lapsed, f.manifest, f.lsn), f.base # None
        PROVE  f.base \in 0..Len(log)
    <3>1. f.base \in 0..(f.lsn - 1) /\ f.lsn \in 0..Len(log)
      BY <2>1 DEF Chained, IsTrue
    <3> QED
      BY <3>1
  <2> QED
    BY <2>1 DEF IInv, Bodies, Trues
<1>c. \A p, q : ~({p, q} \subseteq {"archive", "prune"}) <=> ~(late(p) /\ late(q))
  OBVIOUS
<1> HIDE DEF late
\* Steps that leave the archives and who is at them alone.
<1>1. ASSUME archives' = archives, rushed' = rushed, lapsed \subseteq lapsed', plan' = plan,
             NEW line \in Line, log' \in {log, Append(log, line)},
             \A t \in Threads : /\ late(pc'[t]) => late(pc[t])
                                /\ pc'[t] = "archive" => pc[t] = "archive"
      PROVE  Alone'
  <2> SUFFICES ASSUME ~rushed'
               PROVE  /\ \A t, u \in Threads : t # u => ~(late(pc'[t]) /\ late(pc'[u]))
                      /\ lapsed' = {} => /\ \A f \in archives' : Rests(log', archives', f)
                                         /\ \A t \in Threads :
                                              pc'[t] = "archive" => Rests(log', archives', plan'[t])
    BY <1>c DEF Alone
  <2>1. \A t, u \in Threads : t # u => ~(late(pc'[t]) /\ late(pc'[u]))
    BY <1>1, <1>a
  <2>2. ASSUME lapsed' = {}
        PROVE  /\ \A f \in archives' : Rests(log', archives', f)
               /\ \A t \in Threads : pc'[t] = "archive" => Rests(log', archives', plan'[t])
    <3>1. lapsed = {} /\ ~rushed
      BY <1>1, <2>2
    <3>2. ASSUME NEW f, f.base # None => f.base \in 0..Len(log), Rests(log, archives, f)
          PROVE  Rests(log', archives', f)
      BY <1>0, <1>1, <3>2, RestsStay
    <3>3. ASSUME NEW f \in archives' PROVE Rests(log', archives', f)
      BY <1>1, <1>a, <1>b, <3>1, <3>2
    <3>4. ASSUME NEW t \in Threads, pc'[t] = "archive" PROVE Rests(log', archives', plan'[t])
      <4>1. PICK f : f = plan[t]
        OBVIOUS
      <4>2. (f.base # None => f.base \in 0..Len(log)) /\ Rests(log, archives, f)
        BY <1>1, <1>a, <1>b, <3>1, <3>4, <4>1
      <4>3. Rests(log', archives', f)
        BY <3>2, <4>2
      <4> QED
        BY <1>1, <4>1, <4>3
    <3> QED
      BY <3>3, <3>4
  <2> QED
    BY <2>1, <2>2
<1>3. CASE UNCHANGED vars
  <2>1. UNCHANGED <<archives, rushed, lapsed, plan, log, pc>>
    BY <1>3 DEF vars
  <2> QED
    BY <1>0, <2>1 DEF IInv, Alone, Rests
<1>4. ASSUME NEW x \in Pages, Lapse(x) PROVE Alone'
  <2>1. UNCHANGED <<archives, rushed, plan, log, pc>> /\ lapsed' = lapsed \cup {x}
    BY <1>4 DEF Lapse
  <2>2. lapsed' # {}
    BY <2>1
  <2> QED
    BY <1>0, <2>1, <2>2 DEF IInv, Alone
<1>5. ASSUME NEW line \in Line, Write(line) PROVE Alone'
  <2>1. UNCHANGED <<archives, rushed, plan, lapsed, pc>> /\ log' = Append(log, line)
    BY <1>5 DEF Write
  <2> QED
    BY <1>1, <2>1
<1>6. ASSUME NEW t \in Threads, NEW from, NEW to, Step(t, from, to), ~late(to),
             archives' = archives, rushed' = rushed, lapsed' = lapsed, plan' = plan, log' = log
      PROVE  Alone'
  <2>1. ASSUME NEW u \in Threads
        PROVE  /\ late(pc'[u]) => late(pc[u])
               /\ pc'[u] = "archive" => pc[u] = "archive"
    BY <1>0, <1>6 DEF Step, late
  <2>2. ASSUME NEW f PROVE Rests(log', archives', f) <=> Rests(log, archives, f)
    BY <1>6
  <2> QED
    BY <1>6, <1>a, <1>c, <2>1 DEF Alone
<1>7. ASSUME NEW t \in Threads,
             Dump(t) \/ Open(t) \/ WriteTmp(t) \/ Replace(t) \/ Rotate(t)
      PROVE  Alone'
  <2>1. archives' = archives /\ rushed' = rushed /\ lapsed' = lapsed /\ plan' = plan /\ log' = log
    BY <1>7 DEF Dump, Open, WriteTmp, Replace, Rotate, memory
  <2>2. \/ Step(t, "idle", "open") \/ Step(t, "open", "write") \/ Step(t, "write", "replace")
        \/ Step(t, "replace", "build") \/ Step(t, "replace", "idle") \/ Step(t, "rotate", "idle")
    BY <1>7 DEF Dump, Open, WriteTmp, Replace, Rotate
  <2>3. ~late("open") /\ ~late("write") /\ ~late("replace") /\ ~late("build") /\ ~late("idle")
    BY DEF late
  <2> QED
    BY <1>6, <2>1, <2>2, <2>3
<1>8. ASSUME NEW t \in Threads, Build(t) PROVE Alone'
  <2>1. PICK a : plan' = [plan EXCEPT ![t] = a] /\ Built(t, a)
    BY <1>8, BuildMakes
  <2>2. /\ archives' = archives /\ lapsed' = lapsed /\ log' = log
        /\ pc' = [pc EXCEPT ![t] = "archive"]
        /\ rushed' = (rushed \/ \E u \in Threads \ {t} : pc[u] \in {"archive", "prune"})
    BY <1>8 DEF Build, Step, memory
  <2> SUFFICES ASSUME ~rushed'
               PROVE  /\ \A v, u \in Threads : v # u => ~(late(pc'[v]) /\ late(pc'[u]))
                      /\ lapsed' = {} => /\ \A f \in archives' : Rests(log', archives', f)
                                         /\ \A u \in Threads :
                                              pc'[u] = "archive" => Rests(log', archives', plan'[u])
    BY <1>c DEF Alone
  <2>3. ~rushed /\ \A u \in Threads \ {t} : ~late(pc[u]) /\ pc'[u] = pc[u]
    BY <1>0, <2>2 DEF late
  <2>4. \A v, u \in Threads : v # u => ~(late(pc'[v]) /\ late(pc'[u]))
    BY <2>3
  <2>5. ASSUME lapsed = {} PROVE Rests(log, archives, a)
    <3> SUFFICES ASSUME a.base # None PROVE Rests(log, archives, a)
      BY DEF Rests
    <3>0. PICK f \in archives : \E c \in Loads(f) :
             /\ f.lsn = a.base /\ c # None /\ c \in Contents /\ a.body = Diff(a.manifest, c)
      BY <2>1 DEF Built
    <3>1. PICK c \in Loads(f) :
             /\ f.lsn = a.base /\ c # None /\ c \in Contents /\ a.body = Diff(a.manifest, c)
      BY <3>0
    <3>2. c = f.manifest
      BY <2>3, <2>5, <3>1, LoadsWhole DEF ArchivesLoad
    <3>3. IsTrue(log, {}, f.manifest, f.lsn)
      BY <2>5 DEF IInv, Trues
    <3>4. c = PastIn(log, a.base)
      BY <1>0, <3>1, <3>2, <3>3, TrueIsPast
    <3>5. a.manifest \in Contents
      BY <2>1 DEF Built, IsArchive
    <3>6. Patched(c, a.body) = a.manifest
      BY <3>1, <3>5, DiffPatches
    <3> QED
      BY <3>1, <3>4, <3>6 DEF Rests
  <2>6. ASSUME NEW u \in Threads, pc'[u] = "archive" PROVE u = t /\ plan'[u] = a
    BY <1>0, <2>1, <2>2, <2>3, <2>6 DEF late
  <2> QED
    BY <1>a, <2>2, <2>3, <2>4, <2>5, <2>6
<1>9. ASSUME NEW t \in Threads, WriteArchive(t) PROVE Alone'
  <2>1. /\ lapsed' = lapsed /\ log' = log /\ rushed' = rushed
        /\ pc[t] = "archive" /\ pc' = [pc EXCEPT ![t] = "prune"]
        /\ plan' = [plan EXCEPT ![t] = None]
    BY <1>9 DEF WriteArchive, Step, memory
  <2>2. PICK over \in SUBSET {f \in archives : f.lsn = plan[t].lsn} :
           archives' = (archives \ over) \cup {plan[t]}
    BY <1>9 DEF WriteArchive
  <2> SUFFICES ASSUME ~rushed
               PROVE  /\ \A v, u \in Threads : v # u => ~(late(pc'[v]) /\ late(pc'[u]))
                      /\ lapsed' = {} => /\ \A f \in archives' : Rests(log', archives', f)
                                         /\ \A u \in Threads :
                                              pc'[u] = "archive" => Rests(log', archives', plan'[u])
    BY <1>c, <2>1 DEF Alone
  <2>3. ASSUME NEW u \in Threads, late(pc'[u]) PROVE u = t
    BY <1>0, <1>a, <2>1, <2>3 DEF late
  <2>4. ASSUME NEW u \in Threads PROVE pc'[u] # "archive"
    BY <1>0, <2>1, <2>3 DEF late
  <2>5. \A g \in archives : \E h \in archives' : h.lsn = g.lsn
    BY <2>2
  <2>6. ASSUME NEW f, f.base # None => f.base \in 0..Len(log), Rests(log, archives, f)
        PROVE  Rests(log', archives', f)
    BY <2>1, <2>5, <2>6 DEF Rests
  <2>7. ASSUME lapsed = {}, NEW f \in archives' PROVE Rests(log', archives', f)
    <3>1. f \in archives \/ f = plan[t]
      BY <2>2
    <3>2. Rests(log, archives, f) /\ (f.base # None => f.base \in 0..Len(log))
      BY <1>a, <1>b, <2>1, <2>7, <3>1
    <3> QED
      BY <2>6, <3>2
  <2> QED
    BY <2>1, <2>3, <2>4, <2>7
<1>10. ASSUME NEW t \in Threads, Prune(t) PROVE Alone'
  <2>1. /\ lapsed' = lapsed /\ log' = log /\ rushed' = rushed /\ plan' = plan
        /\ pc[t] = "prune" /\ \E to \in {"rotate", "idle"} : pc' = [pc EXCEPT ![t] = to]
    BY <1>10 DEF Prune, Step, memory
  <2>2. /\ archives' \subseteq archives
        /\ \A f \in archives' : f.base # None /\ (\E g \in archives : g.lsn = f.base) =>
             \E g \in archives' : g.lsn = f.base
    BY <1>10 DEF Prune, Closures
  <2> SUFFICES ASSUME ~rushed
               PROVE  /\ \A v, u \in Threads : v # u => ~(late(pc'[v]) /\ late(pc'[u]))
                      /\ lapsed' = {} => /\ \A f \in archives' : Rests(log', archives', f)
                                         /\ \A u \in Threads :
                                              pc'[u] = "archive" => Rests(log', archives', plan'[u])
    BY <1>c, <2>1 DEF Alone
  <2>3. ASSUME NEW u \in Threads PROVE ~late(pc'[u])
    BY <1>0, <1>a, <2>1 DEF late
  <2>4. ASSUME NEW u \in Threads PROVE pc'[u] # "archive"
    BY <2>3 DEF late
  <2>5. ASSUME lapsed = {}, NEW f \in archives' PROVE Rests(log', archives', f)
    <3>1. Rests(log, archives, f)
      BY <1>a, <2>2, <2>5
    <3> QED
      BY <2>1, <2>2, <3>1 DEF Rests
  <2> QED
    BY <2>1, <2>3, <2>4, <2>5
<1>11. ASSUME NEW target, NEW s, RestoresFrom(target, s) PROVE Alone'
  <2>1. UNCHANGED <<archives, rushed, lapsed, plan, log, pc>>
    BY <1>11 DEF RestoresFrom
  <2> QED
    BY <2>1 DEF IInv, Alone, Rests
<1> HIDE DEF late
<1> QED
  BY <1>3, <1>4, <1>5, <1>7, <1>8, <1>9, <1>10, <1>11, Steps

LEMMA FilesStep ==
  ASSUME IInv, [Next]_vars
  PROVE  Files'
<1> DEFINE busy(p) == p \in {"write", "replace"}
<1>0. /\ pc \in [Threads -> {"idle", "open", "write", "replace", "build", "archive",
                             "prune", "rotate"}]
      /\ fd \in [Threads -> Inode \cup {None}] /\ job \in [Threads -> Payload \cup {None}]
      /\ \A t \in Threads : /\ job[t] # None <=> pc[t] \notin {"idle", "rotate"}
                            /\ fd[t] # None <=> pc[t] = "write"
      /\ tmp \in Inode \cup {None} /\ main \in Inode \cup {None}
      /\ disk \in [Inode -> Payload \cup {None, Torn}]
      /\ None \notin Inode
  BY ArchiveAssumption DEF IInv, TypeOK, Inode
<1>a. ASSUME ~mixed
      PROVE  /\ main # None => disk[main] \in Payload
             /\ \A t, u \in Threads : t # u => ~(busy(pc[t]) /\ busy(pc[u]))
             /\ tmp # None => tmp # main /\ \E t \in Threads : busy(pc[t])
             /\ \A t \in Threads :
                  /\ pc[t] = "write" => tmp # None /\ fd[t] = tmp /\ disk[tmp] = None
                  /\ pc[t] = "replace" => tmp # None /\ disk[tmp] \in Payload
  BY <1>a DEF IInv, Files
<1>c. \A p, q : ~({p, q} \subseteq {"write", "replace"}) <=> ~(busy(p) /\ busy(q))
  OBVIOUS
<1>1. CASE UNCHANGED <<files, pc>>
  BY <1>1 DEF IInv, Files, files
<1>2. ASSUME NEW t \in Threads, NEW from, NEW to, Step(t, from, to), ~busy(from), ~busy(to),
             UNCHANGED files
      PROVE  Files'
  <2>1. \A u \in Threads : /\ busy(pc'[u]) <=> busy(pc[u])
                           /\ pc'[u] = "write" <=> pc[u] = "write"
                           /\ pc'[u] = "replace" <=> pc[u] = "replace"
    BY <1>0, <1>2 DEF Step
  <2>2. UNCHANGED <<tmp, main, fd, disk, mixed>>
    BY <1>2 DEF files
  <2> HIDE DEF busy
  <2> SUFFICES ASSUME ~mixed
               PROVE  /\ main # None => disk[main] \in Payload
                      /\ \A v, u \in Threads : v # u => ~(busy(pc'[v]) /\ busy(pc'[u]))
                      /\ tmp # None => tmp # main /\ \E u \in Threads : busy(pc'[u])
                      /\ \A u \in Threads :
                           /\ pc'[u] = "write" => tmp # None /\ fd[u] = tmp /\ disk[tmp] = None
                           /\ pc'[u] = "replace" => tmp # None /\ disk[tmp] \in Payload
    BY <1>c, <2>2 DEF Files, busy
  <2> QED
    BY <1>a, <2>1
<1>3. ASSUME NEW t \in Threads,
             Dump(t) \/ Build(t) \/ WriteArchive(t) \/ Prune(t) \/ Rotate(t)
      PROVE  Files'
  <2>1. UNCHANGED files
    BY <1>3 DEF Dump, Build, WriteArchive, Prune, Rotate
  <2>2. \/ Step(t, "idle", "open") \/ Step(t, "build", "archive") \/ Step(t, "archive", "prune")
        \/ Step(t, "prune", "rotate") \/ Step(t, "prune", "idle") \/ Step(t, "rotate", "idle")
    BY <1>3 DEF Dump, Build, WriteArchive, Prune, Rotate
  <2> QED
    BY <1>2, <2>1, <2>2
<1>4. ASSUME NEW t \in Threads, Open(t) PROVE Files'
  <2>1. PICK i \in Inode :
           /\ tmp' = i /\ fd' = [fd EXCEPT ![t] = i] /\ disk' = [disk EXCEPT ![i] = None]
           /\ IF tmp # None THEN i = tmp ELSE i # main /\ \A u \in Threads : fd[u] # i
    BY <1>4, OpenMakes
  <2>2. /\ main' = main /\ pc[t] = "open" /\ pc' = [pc EXCEPT ![t] = "write"]
        /\ mixed' = (mixed \/ \E u \in Threads \ {t} : pc[u] \in {"write", "replace"})
    BY <1>4 DEF Open, Step
  <2> SUFFICES ASSUME ~mixed'
               PROVE  /\ main' # None => disk'[main'] \in Payload
                      /\ \A v, u \in Threads : v # u => ~(busy(pc'[v]) /\ busy(pc'[u]))
                      /\ tmp' # None => tmp' # main' /\ \E u \in Threads : busy(pc'[u])
                      /\ \A u \in Threads :
                           /\ pc'[u] = "write" => tmp' # None /\ fd'[u] = tmp' /\ disk'[tmp'] = None
                           /\ pc'[u] = "replace" => tmp' # None /\ disk'[tmp'] \in Payload
    BY <1>c DEF Files
  <2>3. ~mixed /\ \A u \in Threads : ~busy(pc[u])
    BY <2>2
  <2>4. tmp = None /\ i # main
    BY <1>a, <2>1, <2>3
  <2>5. \A u \in Threads : IF u = t THEN pc'[u] = "write" ELSE ~busy(pc'[u])
    BY <1>0, <2>2, <2>3
  <2>6. main # None => disk'[main] \in Payload
    BY <1>0, <1>a, <2>1, <2>3, <2>4
  <2>7. fd'[t] = i /\ disk'[i] = None /\ i # None
    BY <1>0, <2>1
  <2> QED
    BY <2>1, <2>2, <2>4, <2>5, <2>6, <2>7
<1>5. ASSUME NEW t \in Threads, WriteTmp(t) PROVE Files'
  <2>1. PICK c \in {job[t]} \cup
               (IF disk[fd[t]] # None \/ \E u \in Threads \ {t} : fd[u] = fd[t]
                THEN {Torn} ELSE {}) :
          disk' = [disk EXCEPT ![fd[t]] = c]
    BY <1>5 DEF WriteTmp
  <2>2. /\ main' = main /\ tmp' = tmp /\ mixed' = mixed /\ fd' = [fd EXCEPT ![t] = None]
        /\ pc[t] = "write" /\ pc' = [pc EXCEPT ![t] = "replace"]
    BY <1>5 DEF WriteTmp, Step
  <2> SUFFICES ASSUME ~mixed
               PROVE  /\ main # None => disk'[main] \in Payload
                      /\ \A v, u \in Threads : v # u => ~(busy(pc'[v]) /\ busy(pc'[u]))
                      /\ tmp # None => tmp # main /\ \E u \in Threads : busy(pc'[u])
                      /\ \A u \in Threads :
                           /\ pc'[u] = "write" => tmp # None /\ fd'[u] = tmp /\ disk'[tmp] = None
                           /\ pc'[u] = "replace" => tmp # None /\ disk'[tmp] \in Payload
    BY <1>c, <2>2 DEF Files
  <2>3. tmp # None /\ fd[t] = tmp /\ disk[tmp] = None /\ tmp # main
    BY <1>a, <2>2
  <2>4. \A u \in Threads \ {t} : ~busy(pc[u])
    BY <1>a, <2>2
  <2>5. c = job[t] /\ c \in Payload
    BY <1>0, <2>1, <2>2, <2>3, <2>4
  <2>6. disk'[tmp] \in Payload /\ (main # None => disk'[main] \in Payload)
    BY <1>0, <1>a, <2>1, <2>3, <2>5
  <2>7. \A u \in Threads : IF u = t THEN pc'[u] = "replace" ELSE ~busy(pc'[u])
    BY <1>0, <2>2, <2>4
  <2> QED
    BY <2>3, <2>6, <2>7
<1>6. ASSUME NEW t \in Threads, Replace(t) PROVE Files'
  <2>1. /\ tmp' = None /\ mixed' = mixed /\ fd' = fd /\ disk' = disk /\ pc[t] = "replace"
        /\ tmp # None => main' = tmp
        /\ \E to \in {"build", "idle"} : pc' = [pc EXCEPT ![t] = to]
    BY <1>6 DEF Replace, Step
  <2> SUFFICES ASSUME ~mixed
               PROVE  /\ main' # None => disk[main'] \in Payload
                      /\ \A u \in Threads : ~busy(pc'[u])
    BY <1>c, <2>1 DEF Files
  <2>2. main' = tmp /\ disk[tmp] \in Payload /\ \A u \in Threads \ {t} : ~busy(pc[u])
    BY <1>a, <2>1
  <2>3. \A u \in Threads : ~busy(pc'[u])
    BY <1>0, <2>1, <2>2
  <2> QED
    BY <2>2, <2>3
<1>7. CASE \/ UNCHANGED vars \/ (\E x \in Pages : Lapse(x)) \/ (\E line \in Line : Write(line))
           \/ \E target, s : RestoresFrom(target, s)
  BY <1>1, <1>7 DEF vars, Lapse, Write, RestoresFrom, files
<1> HIDE DEF busy
<1> QED
  BY <1>3, <1>4, <1>5, <1>6, <1>7, Steps

\* The log from line from + 1 on, over contents that have the page as after line m, ends
\* with the page as after the target: when a line sets it, or when none of its lines is
\* between from and m, either way around.
LEMMA Restored ==
  ASSUME NEW lg \in Seq(Line), NEW c \in Contents, NEW from \in Nat, NEW target \in Nat,
         from <= Len(lg), target <= Len(lg), NEW x \in Pages,
         \/ \E l \in (from + 1)..target : lg[l].page = x /\ lg[l].kind # "incr"
         \/ \E m \in Nat :
              /\ m <= target /\ c[x] = PastIn(lg, m)[x]
              /\ \A l \in 1..target : lg[l].page = x => (l <= m <=> l <= from)
  PROVE  ReplayIn(lg, c, from + 1, target)[x] = PastIn(lg, target)[x]
<1>0. Empty \in Contents /\ from + 1 \in Nat \ {0} /\ 1 \in Nat \ {0}
  BY DEF Empty, Contents
<1>1. \A m : PastIn(lg, m) = ReplayIn(lg, Empty, 1, m)
  BY DEF PastIn
\* A line sets the page: from there on the lg decides.
<1>2. ASSUME NEW l \in (from + 1)..target, lg[l].page = x, lg[l].kind # "incr"
      PROVE  ReplayIn(lg, c, from + 1, target)[x] = PastIn(lg, target)[x]
  <2>2. /\ l \in 1..Len(lg) /\ l \in Nat /\ from + 1 <= l /\ 1 <= l /\ l <= target
        /\ from + 1 <= l + 1 /\ 1 <= l + 1
    BY <1>0
  <2>3. ReplayIn(lg, c, from + 1, l)[x] = ReplayIn(lg, Empty, 1, l)[x]
    <3>1. PICK k \in Nat \ {0} : k = from + 1
      BY <1>0
    <3>2. k <= l
      BY <2>2, <3>1
    <3>3. ReplayIn(lg, c, k, l)[x] = ReplayIn(lg, Empty, 1, l)[x]
      BY <1>0, <1>2, <2>2, <3>2, ReplaysSet
    <3> QED
      BY <3>1, <3>3
  <2>4. ReplayIn(lg, c, from + 1, target)[x] = ReplayIn(lg, Empty, 1, target)[x]
    <3>1. PICK k \in Nat \ {0} : k = from + 1
      BY <1>0
    <3>2. k <= l + 1 /\ ReplayIn(lg, c, k, l)[x] = ReplayIn(lg, Empty, 1, l)[x]
      BY <2>2, <2>3, <3>1
    <3>3. ReplayIn(lg, c, k, target)[x] = ReplayIn(lg, Empty, 1, target)[x]
      BY <1>0, <2>2, <3>2, ReplaysJoin
    <3> QED
      BY <3>1, <3>3
  <2> QED
    BY <1>1, <2>4
\* The snapshot carries the page to where the lg continues.
<1>3. ASSUME NEW m \in Nat, m <= target, c[x] = PastIn(lg, m)[x],
             \A l \in 1..target : lg[l].page = x => (l <= m <=> l <= from)
      PROVE  ReplayIn(lg, c, from + 1, target)[x] = PastIn(lg, target)[x]
  <2>5. c[x] = ReplayIn(lg, Empty, 1, m)[x] /\ m <= Len(lg)
    BY <1>1, <1>3
  <2>7. CASE target <= from
    <3>1. ReplayIn(lg, c, from + 1, target) = c
      BY <2>7 DEF ReplayIn
    <3>2. \A l \in (m + 1)..target : lg[l].page # x
      BY <1>3, <2>7
    <3>3. ReplayIn(lg, Empty, 1, target)[x] = ReplayIn(lg, Empty, 1, m)[x]
      <4>1. 1 <= m + 1
        OBVIOUS
      <4> QED
        BY <1>0, <1>3, <2>5, <3>2, <4>1, ReplayKeeps
    <3> QED
      BY <1>1, <2>5, <3>1, <3>3
  <2>8. CASE m <= from /\ from < target
    <3>1. \A l \in (m + 1)..from : lg[l].page # x
      BY <1>3, <2>8
    <3>2. ReplayIn(lg, Empty, 1, from)[x] = ReplayIn(lg, Empty, 1, m)[x]
      <4>1. 1 <= m + 1
        OBVIOUS
      <4> QED
        BY <1>0, <1>3, <2>8, <3>1, <4>1, ReplayKeeps
    <3>3. ReplayIn(lg, c, from + 1, from) = c
      <4>1. from < from + 1
        OBVIOUS
      <4> QED
        BY <4>1 DEF ReplayIn
    <3>4. ReplayIn(lg, c, from + 1, from)[x] = ReplayIn(lg, Empty, 1, from)[x]
      BY <2>5, <3>2, <3>3
    <3>5. ReplayIn(lg, c, from + 1, target)[x] = ReplayIn(lg, Empty, 1, target)[x]
      <4>1. from + 1 <= from + 1 /\ 1 <= from + 1 /\ from <= target
        BY <2>8
      <4> QED
        BY <1>0, <1>3, <3>4, <4>1, ReplaysJoin
    <3> QED
      BY <1>1, <3>5
  <2>9. CASE from < m /\ from < target
    <3>1. \A l \in (from + 1)..m : lg[l].page # x
      BY <1>3, <2>9
    <3>2. ReplayIn(lg, c, from + 1, m)[x] = ReplayIn(lg, c, from + 1, from)[x]
      <4>1. from + 1 <= from + 1 /\ from <= m
        BY <2>9
      <4> QED
        BY <1>0, <1>3, <2>5, <3>1, <4>1, ReplayKeeps
    <3>3. ReplayIn(lg, c, from + 1, from) = c
      <4>1. from < from + 1
        OBVIOUS
      <4> QED
        BY <4>1 DEF ReplayIn
    <3>4. ReplayIn(lg, c, from + 1, m)[x] = ReplayIn(lg, Empty, 1, m)[x]
      BY <2>5, <3>2, <3>3
    <3>5. ReplayIn(lg, c, from + 1, target)[x] = ReplayIn(lg, Empty, 1, target)[x]
      <4>1. from + 1 <= m + 1 /\ 1 <= m + 1
        BY <2>9
      <4> QED
        <5>1. PICK k \in Nat \ {0} : k = from + 1
          BY <1>0
        <5>2. k <= m + 1 /\ ReplayIn(lg, c, k, m)[x] = ReplayIn(lg, Empty, 1, m)[x]
          BY <3>4, <4>1, <5>1
        <5>3. ReplayIn(lg, c, k, target)[x] = ReplayIn(lg, Empty, 1, target)[x]
          BY <1>0, <1>3, <2>5, <4>1, <5>2, ReplaysJoin
        <5> QED
          BY <5>1, <5>3
    <3> QED
      BY <1>1, <3>5
  <2> QED
    BY <2>7, <2>8, <2>9
<1> QED
  BY <1>2, <1>3

\* A recovery gives back what it can.
LEMMA RestoresStep ==
  ASSUME IInv, NEW target, NEW s, RestoresFrom(target, s)
  PROVE  RestoresWhatItCan'
<1>0. /\ log \in Seq(Line) /\ logFrom \in Nat /\ logFrom <= Len(log) /\ target \in Nat
      /\ log' = log /\ lapsed' = lapsed /\ logFrom' = logFrom
      /\ found' = [target |-> target, start |-> s, done |-> s = None \/ s.pages # None]
  BY LsnsAreNumbers DEF IInv, TypeOK, RestoresFrom
<1>a. found'.target = target /\ found'.start = s /\ found'.done = (s = None \/ s.pages # None)
  BY <1>0
<1>1. SUFFICES ASSUME found'.done, NEW x \in Pages \ lapsed, Sets(x)' # {} \/ Carried(x)'
               PROVE  store'[x] = PastIn(log, target)[x]
  <2>1. Past(found.target)' = PastIn(log, target)
    <3>1. Past(found.target)' = ReplayIn(log', Empty, 1, found'.target)
      BY DEF Past, Empty, Replay, ReplayIn, Runs, Apply, ApplyIn
    <3> QED
      BY <1>0, <1>a, <3>1 DEF PastIn
  <2> QED
    BY <1>0, <2>1 DEF RestoresWhatItCan
<1>2. PICK c \in Contents : c = LoadedFrom(s)
  BY LoadedType DEF RestoresFrom
<1>3. target <= Len(log) /\ store' = ReplayIn(log, c, logFrom + 1, target)
  <2>1. \/ target <= Len(log) /\ store' = ReplayIn(log, c, logFrom + 1, target)
        \/ target <= logFrom /\ store' = c
    BY <1>1, <1>2 DEF RestoresFrom
  <2>2. target <= logFrom => ReplayIn(log, c, logFrom + 1, target) = c
    BY <1>0 DEF ReplayIn
  <2> QED
    BY <1>0, <2>1, <2>2
<1>4. CASE Sets(x)' # {}
  <2>1. \E l \in (logFrom + 1)..target : log[l].page = x /\ log[l].kind # "incr"
    BY <1>0, <1>a, <1>4 DEF Sets
  <2> QED
    BY <1>0, <1>3, <2>1, Restored
<1>5. CASE Carried(x)'
  <2>1. /\ s # None /\ ~(s.diff /\ s.pages[x] = None)
        /\ \A l \in 1..target : log[l].page = x => (l <= s.lsn <=> l <= logFrom)
    BY <1>0, <1>a, <1>5 DEF Carried
  <2>2. s.pages # None /\ s.lsn \in Lsn /\ s.lsn <= target /\ IsTrue(log, lapsed, s.pages, s.lsn)
    <3>1. Good(s, target) /\ s.pages # None
      BY <1>1, <1>a, <2>1 DEF RestoresFrom
    <3> QED
      BY <3>1 DEF Good, Source
  <2>3. c[x] = s.pages[x]
    BY <1>2, <2>1, <2>2 DEF LoadedFrom
  <2>4. PICK m \in Nat : m = s.lsn
    BY <2>2, LsnsAreNumbers
  <2>5. /\ m <= target /\ c[x] = PastIn(log, m)[x]
        /\ \A l \in 1..target : log[l].page = x => (l <= m <=> l <= logFrom)
    BY <2>1, <2>2, <2>3, <2>4 DEF IsTrue
  <2> QED
    BY <1>0, <1>3, <2>5, Restored
<1> QED
  BY <1>1, <1>4, <1>5

-----------------------------------------------------------------------------
(* The theorems. *)

LEMMA InvariantStart ==
  ASSUME Init
  PROVE  IInv /\ RestoresWhatItCan
<1>1. /\ MaxLsn \in Nat /\ MaxSnaps \in Nat
      /\ None \notin Nat /\ None \notin Payload /\ None \notin Inode
  BY ArchiveAssumption DEF Inode
<1>2. Empty \in Contents /\ log \in Seq(Line) /\ Len(log) = 0
  BY DEF Init, Empty, Contents
<1>3. TypeOK
  BY <1>1, <1>2 DEF Init, TypeOK, Lsn, IsArchive
<1>4. IsTrue(log, lapsed, store, lsn)
  <2>1. PastIn(log, 0) = Empty
    BY DEF PastIn, ReplayIn
  <2> QED
    BY <1>2, <2>1 DEF Init, IsTrue
<1>5. Trues
  BY <1>1, <1>2, <1>4 DEF Init, Trues
<1>6. Bodies /\ Alone /\ Files
  BY <1>1 DEF Init, Bodies, Alone, Files
<1> QED
  BY <1>3, <1>5, <1>6 DEF IInv, RestoresWhatItCan, Init

LEMMA InvariantStep ==
  ASSUME IInv, [Next]_vars
  PROVE  IInv'
BY TypesStep, TruesStep, BodiesStep, AloneStep, FilesStep DEF IInv

\* The types, what is true, what rests on what and who is alone where, of the snapshot
\* files and of the threads in snapshot_once (pxkv/persistence/snapshot.py), hold in
\* every reachable state.
THEOREM ArchivesInductive == Spec => []IInv
<1>1. Init => IInv
  BY InvariantStart
<1>2. IInv /\ [Next]_vars => IInv'
  BY InvariantStep
<1> QED
  BY <1>1, <1>2, PTL DEF Spec

\* Whatever the interleaving of two or more snapshots, the file at the path of the
\* snapshot (_write_json_atomic) is the whole payload of one dump, unless two threads
\* had the temporary file at the same time.
THEOREM SnapshotFileIsADump == Spec => []MainIsADump
<1>1. IInv => MainIsADump
  BY DEF IInv, Files, MainIsADump
<1> QED
  BY <1>1, ArchivesInductive, PTL

\* Every archive that pruning keeps (prune_snapshot_archives) can be loaded through its
\* chain of diffs (_load_snapshot_payload), however long, and gives what was dumped.
THEOREM KeptArchivesLoad == Spec => []ArchivesLoad
<1>1. IInv => ArchivesLoad
  BY LoadsWhole
<1> QED
  BY <1>1, ArchivesInductive, PTL

\* recover_to_lsn and recover_to_timestamp, from any snapshot, archive or chain of
\* diffs and any log, give every page its value after the target line where the log
\* sets it or the snapshot carries it.
THEOREM RecoveryToAPoint == Spec => []RestoresWhatItCan
<1>1. Init => RestoresWhatItCan
  BY InvariantStart
<1>2. IInv /\ RestoresWhatItCan /\ [Next]_vars => RestoresWhatItCan'
  <2> SUFFICES ASSUME IInv, RestoresWhatItCan, [Next]_vars PROVE RestoresWhatItCan'
    OBVIOUS
  <2>1. CASE UNCHANGED vars
    <3>1. log' = log /\ found' = found /\ store' = store /\ lapsed' = lapsed /\ logFrom' = logFrom
      BY <2>1 DEF vars
    <3>2. Past(found.target)' = Past(found.target)
      <4>1. /\ Past(found.target)' = ReplayIn(log', Empty, 1, found'.target)
            /\ Past(found.target) = ReplayIn(log, Empty, 1, found.target)
        BY DEF Past, Empty, Replay, ReplayIn, Runs, Apply, ApplyIn
      <4> QED
        BY <3>1, <4>1
    <3> QED
      BY <3>1, <3>2 DEF RestoresWhatItCan, Sets, Carried
  <2>2. CASE found = None /\ found' = found
    BY <2>2 DEF RestoresWhatItCan
  <2> QED
    BY <2>1, <2>2, RestoresStep, Steps
<1> QED
  BY <1>1, <1>2, ArchivesInductive, PTL DEF Spec
=============================================================================
