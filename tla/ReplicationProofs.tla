------------------------- MODULE ReplicationProofs --------------------------
(***************************************************************************)
(* Theorems about Replication, for any keys, followers, settings and       *)
(* bounds.                                                                 *)
(***************************************************************************)
EXTENDS Replication, FiniteSetTheorems, SequenceTheorems, TLAPS

-----------------------------------------------------------------------------
(* The inductive invariant. *)

\* What the change c makes of the value x of k.
Effect(x, c, k) ==
  IF k \notin c.keys THEN x
  ELSE CASE c.op \in {"set", "mset"} -> c.val
         [] c.op = "incr" -> (IF x = None THEN 0 ELSE x) + c.val
         [] c.op = "delete" -> None

\* A thread at s has changes w to apply exactly when it is at them, in the order of
\* their LSNs, and contents i to load when it loads.
Fits(s, w, i) ==
  /\ s \in {"check", "do", "mark"} <=> w # <<>>
  /\ s = "load" => i # None
  /\ \A m, n \in 1..Len(w) : m < n => w[m].lsn <= w[n].lsn
WorkFits ==
  \A f \in Followers, t \in Threads : Fits(step[f][t], work[f][t], image[f][t])

WalOrdered == \A i, j \in 1..Len(wal) : i < j => wal[i].lsn < wal[j].lsn

\* Every change stands, on its way to a follower, under an LSN of the leader that
\* the follower has heard of or will hear of with the change.
QueueNews == \A i \in 1..Len(queue) : queue[i].lsn <= lsn
WalNews   == \A i \in 1..Len(wal) : wal[i].lsn <= lsn
BatchNews == \A i \in 1..Len(batch.changes) : batch.changes[i].lsn <= batch.lsn
PostNews  ==
  \A f \in Followers : \A p \in 1..Len(posts[f]) : \A i \in 1..Len(posts[f][p].changes) :
    posts[f][p].changes[i].lsn <= posts[f][p].lsn
WorkNews  ==
  \A f \in Followers, t \in Threads : \A i \in 1..Len(work[f][t]) :
    work[f][t][i].lsn <= known[f]
News == QueueNews /\ WalNews /\ BatchNews /\ PostNews /\ WorkNews

Unbroken == lsn = clock

\* The log numbers the changes from 1, unless the leader has lost some of them.
Chronicle ==
  /\ lsn <= clock /\ Len(log) = clock /\ Len(made) = clock + 1
  /\ made[1] = Contents(NoItems)
  /\ ~setting.log => wal = <<>>
  /\ \A n \in 1..clock : log[n].ts = n
  /\ \A k \in Keys : stored[k] # None => stored[k].ts <= clock
  /\ Unbroken =>
       /\ \A n \in 1..clock : log[n].lsn = n
       /\ \A n \in 1..clock : \A k \in Keys : made[n + 1][k] = Effect(made[n][k], log[n], k)
       /\ made[clock + 1] = Contents(stored)

\* What is on its way through posts are changes of the log.
Logged(c) == c.lsn \in 1..clock /\ c = log[c.lsn]
QueueLogged == \A i \in 1..Len(queue) : Logged(queue[i])
BatchLogged == \A i \in 1..Len(batch.changes) : Logged(batch.changes[i])
PostsLogged ==
  \A f \in Followers : \A p \in 1..Len(posts[f]) : \A i \in 1..Len(posts[f][p].changes) :
    Logged(posts[f][p].changes[i])
WorkLogged ==
  \A f \in Followers : \A i \in 1..Len(work[f]["push"]) : Logged(work[f]["push"][i])
InTransit == QueueLogged /\ BatchLogged /\ PostsLogged /\ WorkLogged

\* The change n is among the changes s; one that is no earlier is.
Among(n, s)   == \E i \in 1..Len(s) : s[i].lsn = n
Reaches(n, s) == \E i \in 1..Len(s) : s[i].lsn >= n

\* The change n is at the follower, or will be once its first p posts are served, once
\* the batch is posted, once the first j changes of the queue are.
Posted(f, p, n) ==
  \/ Among(n, work[f]["push"])
  \/ \E q \in 1..p : Among(n, posts[f][q].changes)
Batched(f, n) ==
  \/ Posted(f, Len(posts[f]), n)
  \/ f \in todo /\ Among(n, batch.changes)
Queued(f, j, n) ==
  \/ Batched(f, n)
  \/ \E i \in 1..j : queue[i].lsn = n

\* The change n is on its way to f, and no later one overtakes it.
Coming(f, n) ==
  /\ Reaches(n, work[f]["push"]) => Among(n, work[f]["push"])
  /\ \A p \in 1..Len(posts[f]) : Reaches(n, posts[f][p].changes) => Posted(f, p, n)
  /\ f \in todo /\ Reaches(n, batch.changes) => Batched(f, n)
  /\ \A j \in 1..Len(queue) : queue[j].lsn >= n => Queued(f, j, n)
  /\ Queued(f, Len(queue), n)
Complete(f, b) == \A n \in b+1..lsn : Coming(f, n)

Counted(k) == \E j \in 1..Len(log) : log[j].op = "incr" /\ k \in log[j].keys

\* A smooth follower is at the LSN it reports, or one change beyond it.
At(f) == IF step[f]["push"] = "mark" THEN applied[f] + 1 ELSE applied[f]
Follows(f) ==
  /\ \A k \in Keys : ~Incremented(k) => Contents(data[f])[k] = made[At(f) + 1][k]
  /\ \A k \in Keys : ~Counted(k) /\ data[f][k] # None => data[f][k].ts <= At(f)

Smooth(f) ==
  /\ \A t \in Threads \ {"push"} : step[f][t] \in {"idle", "sync"}
  /\ step[f]["push"] # "load"
  /\ applied[f] <= lsn
  /\ step[f]["push"] \in {"do", "mark"} => work[f]["push"][1].lsn = applied[f] + 1
  /\ Complete(f, applied[f])
  /\ Follows(f)

\* A synchronising follower loads what the leader held at the image's LSN.
Loads(f, t) ==
  /\ step[f][t] = "load"
  /\ Quiet(f, t)
  /\ image[f][t] # None
  /\ image[f][t].lsn <= lsn
  /\ Complete(f, image[f][t].lsn)
  /\ \A k \in Keys :
       /\ Contents(image[f][t].data)[k] = made[image[f][t].lsn + 1][k]
       /\ image[f][t].data[k] # None => image[f][t].data[k].ts <= image[f][t].lsn
       /\ k \notin left[f][t] => data[f][k] = image[f][t].data[k]

InStepAt(f) ==
  /\ course[f] = "smooth" => Smooth(f)
  /\ course[f] = "syncing" => \E t \in Threads : Loads(f, t)
InStep == \A f \in Followers : InStepAt(f)

IInv ==
  /\ TypeOK
  /\ LagNotUnderstated
  /\ WalOrdered
  /\ WorkFits
  /\ News
  /\ Chronicle
  /\ Unbroken => InTransit /\ InStep
-----------------------------------------------------------------------------
(* Sequences. *)

\* What RemoveAt leaves of a sequence.
LEMMA RemoveAtFacts ==
  ASSUME NEW S, NEW s \in Seq(S), NEW i \in 1..Len(s)
  PROVE  /\ RemoveAt(s, i) \in Seq(S)
         /\ Len(RemoveAt(s, i)) = Len(s) - 1
         /\ \A j \in 1..Len(s)-1 :
              RemoveAt(s, i)[j] = IF j < i THEN s[j] ELSE s[j + 1]
<1>a. \A j \in 1..Len(s) : s[j] \in S
  OBVIOUS
<1>b. \A m, n \in Int : 1 <= m /\ n <= Len(s) => \A j \in m..n : s[j] \in S
  BY <1>a
<1> DEFINE u == SubSeq(s, 1, i - 1)
           v == SubSeq(s, i + 1, Len(s))
<1>1. /\ u \in Seq(S) /\ Len(u) = i - 1
      /\ \A j \in 1..i-1 : u[j] = s[j]
  <2>1. \A j \in 1..i-1 : s[j] \in S
    BY <1>b
  <2>2. /\ u \in Seq(S) /\ Len(u) = IF 1 <= i - 1 THEN (i - 1) - 1 + 1 ELSE 0
        /\ \A j \in 1..(i-1)-1+1 : u[j] = s[1 + j - 1]
    BY <2>1, SubSeqProperties
  <2> QED
    BY <2>2
<1>2. /\ v \in Seq(S) /\ Len(v) = Len(s) - i
      /\ \A j \in 1..Len(s)-i : v[j] = s[i + j]
  <2>1. \A j \in i+1..Len(s) : s[j] \in S
    BY <1>b
  <2>2. /\ v \in Seq(S)
        /\ Len(v) = IF i + 1 <= Len(s) THEN Len(s) - (i + 1) + 1 ELSE 0
        /\ \A j \in 1..Len(s)-(i+1)+1 : v[j] = s[(i + 1) + j - 1]
    BY <2>1, SubSeqProperties
  <2> QED
    BY <2>2
<1> HIDE DEF u, v
<1>3. RemoveAt(s, i) = u \o v
  BY DEF RemoveAt, u, v
<1>4. /\ u \o v \in Seq(S)
      /\ Len(u \o v) = Len(u) + Len(v)
      /\ \A j \in 1..Len(u)+Len(v) :
           (u \o v)[j] = IF j <= Len(u) THEN u[j] ELSE v[j - Len(u)]
  BY <1>1, <1>2, ConcatProperties
<1>5. ASSUME NEW j \in 1..Len(s)-1
      PROVE  (u \o v)[j] = IF j < i THEN s[j] ELSE s[j + 1]
  <2>1. CASE j < i
    BY <2>1, <1>1, <1>2, <1>4
  <2>2. CASE ~(j < i)
    <3>1. j \in 1..Len(u)+Len(v) /\ ~(j <= Len(u)) /\ j - (i - 1) \in 1..Len(s)-i
      BY <2>2, <1>1, <1>2
    <3>2. (u \o v)[j] = v[j - Len(u)]
      BY <3>1, <1>4
    <3>3. (u \o v)[j] = v[j - (i - 1)]
      BY <3>2, <1>1
    <3>4. v[j - (i - 1)] = s[i + (j - (i - 1))]
      BY <3>1, <1>2
    <3>5. i + (j - (i - 1)) = j + 1
      OBVIOUS
    <3> QED
      BY <3>3, <3>4, <3>5, <2>2
  <2> QED
    BY <2>1, <2>2
<1> QED
  BY <1>1, <1>2, <1>3, <1>4, <1>5

\* The part of a sequence from place m to its place n.
LEMMA PartFacts ==
  ASSUME NEW S, NEW s \in Seq(S), NEW m \in 1..Len(s)+1, NEW n \in m-1..Len(s)
  PROVE  /\ SubSeq(s, m, n) \in Seq(S)
         /\ Len(SubSeq(s, m, n)) = n - m + 1
         /\ \A j \in 1..n-m+1 : SubSeq(s, m, n)[j] = s[m + j - 1]
<1>1. \A j \in 1..Len(s) : s[j] \in S
  OBVIOUS
<1>2. \A j \in m..n : s[j] \in S
  BY <1>1
<1> QED
  BY <1>2, SubSeqProperties

\* The rest of a sequence.
LEMMA TailFacts ==
  ASSUME NEW S, NEW s \in Seq(S), s # <<>>
  PROVE  /\ Tail(s) \in Seq(S)
         /\ Len(Tail(s)) = Len(s) - 1
         /\ \A j \in 1..Len(s)-1 : Tail(s)[j] = s[j + 1]
         /\ Len(s) # 0 /\ Len(s) \in Nat
         /\ s[1] = Head(s) /\ s[1] \in S
  OBVIOUS

\* w has the changes of cs at the places S, in the order of their LSNs.
Sorts(w, cs, S) ==
  /\ w \in Seq(Change)
  /\ \A i \in 1..Len(w) : \E j \in S : w[i] = cs[j]
  /\ \A j \in S : \E i \in 1..Len(w) : w[i] = cs[j]
  /\ \A i, j \in 1..Len(w) : i < j => w[i].lsn <= w[j].lsn
  /\ w = <<>> <=> S = {}

\* A thread begins with the changes it was given, sorted.
LEMMA BeginFacts ==
  ASSUME NEW f \in Followers, NEW t \in Threads, NEW cs \in Seq(Change),
         NEW S \in SUBSET (1..Len(cs)),
         Begin(f, t, cs, S)
  PROVE  \E w : /\ Sorts(w, cs, S)
                /\ work' = [work EXCEPT ![f][t] = w]
                /\ step' = [step EXCEPT ![f][t] = IF S = {} THEN "idle" ELSE "check"]
                /\ UNCHANGED <<image, left>>
<1> DEFINE n == Cardinality(S)
<1>1. IsFiniteSet(S) /\ n \in Nat /\ (n = 0 <=> S = {})
  <2>1. IsFiniteSet(1..Len(cs))
    BY FS_Interval
  <2>2. IsFiniteSet(S)
    BY <2>1, FS_Subset
  <2> QED
    BY <2>2, FS_CardinalityType, FS_EmptySet
<1> HIDE DEF n
<1>2. PICK q \in Bijection(1..n, S) :
        /\ \A i, j \in DOMAIN q : i < j =>
             \/ cs[q[i]].lsn < cs[q[j]].lsn
             \/ cs[q[i]].lsn = cs[q[j]].lsn /\ q[i] < q[j]
        /\ work' = [work EXCEPT ![f][t] = [i \in DOMAIN q |-> cs[q[i]]]]
        /\ step' = [step EXCEPT ![f][t] = IF S = {} THEN "idle" ELSE "check"]
        /\ UNCHANGED <<image, left>>
  BY DEF Begin, n
<1>3. q \in [1..n -> S] /\ \A j \in S : \E i \in 1..n : q[i] = j
  BY <1>2 DEF Bijection, Injection, Surjection
<1>4. \A j \in 1..Len(cs) : cs[j] \in Change /\ cs[j].lsn \in Nat
  <2>1. \A c \in Change : c.lsn \in Nat
    BY DEF Change
  <2>2. \A j \in 1..Len(cs) : cs[j] \in Change
    OBVIOUS
  <2> QED
    BY <2>1, <2>2
<1> DEFINE w == [i \in 1..n |-> cs[q[i]]]
<1>5. w \in Seq(Change) /\ Len(w) = n
  <2>1. \A i \in 1..n : cs[q[i]] \in Change
    BY <1>3, <1>4
  <2>2. w \in [1..n -> Change]
    BY <2>1
  <2> QED
    BY <2>2, <1>1
<1>6. \A i \in 1..Len(w) : \E j \in S : w[i] = cs[j]
  BY <1>3, <1>5
<1>7. \A j \in S : \E i \in 1..Len(w) : w[i] = cs[j]
  BY <1>3, <1>5
<1>8. \A i, j \in 1..Len(w) : i < j => w[i].lsn <= w[j].lsn
  <2>1. SUFFICES ASSUME NEW i \in 1..n, NEW j \in 1..n, i < j
                 PROVE  cs[q[i]].lsn <= cs[q[j]].lsn
    BY <1>5
  <2>2. \/ cs[q[i]].lsn < cs[q[j]].lsn
        \/ cs[q[i]].lsn = cs[q[j]].lsn
    BY <2>1, <1>2, <1>3
  <2>3. q[i] \in 1..Len(cs) /\ q[j] \in 1..Len(cs)
    BY <1>3
  <2>4. cs[q[i]].lsn \in Nat /\ cs[q[j]].lsn \in Nat
    BY <2>3, <1>4
  <2> QED
    BY <2>2, <2>4
<1>9. w = <<>> <=> S = {}
  <2>1. w = <<>> <=> n = 0
    BY <1>1, <1>5
  <2> QED
    BY <2>1, <1>1
<1>10. work' = [work EXCEPT ![f][t] = w]
  BY <1>2, <1>3
<1> HIDE DEF w
<1>11. Sorts(w, cs, S)
  BY <1>5, <1>6, <1>7, <1>8, <1>9 DEF Sorts
<1> QED
  BY <1>2, <1>10, <1>11
-----------------------------------------------------------------------------
(* Types. *)

LEMMA ChangeFields ==
  \A c \in Change : /\ c.op \in {"set", "mset", "delete", "incr"}
                    /\ c.keys \subseteq Keys /\ c.val \in Nat
                    /\ c.ts \in Nat \cup {None} /\ c.lsn \in Nat
  BY DEF Change

LEMMA PostFields ==
  \A p \in Post : p.changes \in Seq(Change) /\ p.lsn \in Nat
  BY DEF Post

\* An item is not None, and has a value and a time.
LEMMA ItemFields ==
  \A x \in Item : x # None /\ x.val \in Nat /\ x.ts \in Nat
  BY ReplicationAssumption DEF Item

\* What After makes of a key.
LEMMA AfterFacts ==
  ASSUME NEW d \in Data, NEW c \in Change, NEW t \in Nat
  PROVE  /\ After(d, c, t) \in Data
         /\ \A k \in Keys :
              /\ k \notin c.keys => After(d, c, t)[k] = d[k]
              /\ k \in c.keys /\ c.op \in {"set", "mset"}
                   => /\ After(d, c, t)[k].val = c.val
                      /\ c.ts # None => After(d, c, t)[k].ts = c.ts
                      /\ c.ts = None => After(d, c, t)[k].ts = t
              /\ k \in c.keys /\ c.op = "incr"
                   => /\ After(d, c, t)[k].val =
                           (IF d[k] = None THEN 0 ELSE d[k].val) + c.val
                      /\ After(d, c, t)[k].ts = t
              /\ k \in c.keys /\ c.op = "delete" => After(d, c, t)[k] = None
              /\ k \in c.keys /\ c.op # "delete" => After(d, c, t)[k] \in Item
<1>1. /\ c.op \in {"set", "mset", "delete", "incr"}
      /\ c.val \in Nat /\ c.ts \in Nat \cup {None}
  BY ChangeFields
<1> DEFINE x(k) == [val |-> c.val, ts |-> IF c.ts = None THEN t ELSE c.ts]
           y(k) == [val |-> (IF d[k] = None THEN 0 ELSE d[k].val) + c.val, ts |-> t]
           a == After(d, c, t)
<1>2. a = [k \in Keys |-> IF k \notin c.keys THEN d[k]
                         ELSE CASE c.op \in {"set", "mset"} -> x(k)
                                [] c.op = "incr" -> y(k)
                                [] c.op = "delete" -> None]
  BY DEF After
<1> HIDE DEF x, y, a
<1>3. ASSUME NEW k \in Keys
      PROVE  /\ k \notin c.keys => a[k] = d[k]
             /\ k \in c.keys /\ c.op \in {"set", "mset"} => a[k] = x(k)
             /\ k \in c.keys /\ c.op = "incr" => a[k] = y(k)
             /\ k \in c.keys /\ c.op = "delete" => a[k] = None
  BY <1>2, <1>3
<1>4. ASSUME NEW k \in Keys
      PROVE  d[k] \in Item \cup {None}
  BY DEF Data
<1>5. ASSUME NEW k \in Keys
      PROVE  /\ x(k) \in Item /\ y(k) \in Item
             /\ x(k).val = c.val
             /\ c.ts # None => x(k).ts = c.ts
             /\ c.ts = None => x(k).ts = t
             /\ y(k).val = (IF d[k] = None THEN 0 ELSE d[k].val) + c.val
             /\ y(k).ts = t
  <2>1. (IF d[k] = None THEN 0 ELSE d[k].val) \in Nat
    BY <1>4, ItemFields
  <2>2. (IF d[k] = None THEN 0 ELSE d[k].val) + c.val \in Nat
    BY <2>1, <1>1
  <2>3. (IF c.ts = None THEN t ELSE c.ts) \in Nat
    BY <1>1
  <2>4. x(k) \in Item /\ y(k) \in Item
    BY <1>1, <2>2, <2>3 DEF x, y, Item
  <2> QED
    BY <2>4 DEF x, y
<1>6. ASSUME NEW k \in Keys
      PROVE  a[k] \in Item \cup {None} /\ (k \in c.keys /\ c.op # "delete" => a[k] \in Item)
  BY <1>1, <1>3, <1>4, <1>5
<1>7. a \in Data
  BY <1>2, <1>6 DEF Data
<1>8. ASSUME NEW k \in Keys
      PROVE  /\ k \notin c.keys => a[k] = d[k]
             /\ k \in c.keys /\ c.op \in {"set", "mset"}
                  => /\ a[k].val = c.val
                     /\ c.ts # None => a[k].ts = c.ts
                     /\ c.ts = None => a[k].ts = t
             /\ k \in c.keys /\ c.op = "incr"
                  => /\ a[k].val = (IF d[k] = None THEN 0 ELSE d[k].val) + c.val
                     /\ a[k].ts = t
             /\ k \in c.keys /\ c.op = "delete" => a[k] = None
  BY <1>3, <1>5
<1> QED
  BY <1>6, <1>7, <1>8 DEF a

LEMMA ContentsFacts ==
  ASSUME NEW d \in Data
  PROVE  /\ Contents(d) \in [Keys -> Nat \cup {None}]
         /\ \A k \in Keys : /\ d[k] \in Item \cup {None}
                            /\ d[k] = None <=> Contents(d)[k] = None
                            /\ d[k] # None => Contents(d)[k] = d[k].val
<1>1. \A k \in Keys : d[k] \in Item \cup {None}
  BY DEF Data
<1>2. \A k \in Keys : d[k] # None => d[k].val \in Nat /\ d[k].val # None
  BY <1>1, ItemFields, ReplicationAssumption
<1>3. \A k \in Keys : Contents(d)[k] = IF d[k] = None THEN None ELSE d[k].val
  BY DEF Contents
<1>4. Contents(d) \in [Keys -> Nat \cup {None}]
  BY <1>2 DEF Contents
<1> QED
  BY <1>1, <1>2, <1>3, <1>4

LEMMA NoItemsFacts == NoItems \in Data /\ \A k \in Keys : NoItems[k] = None
  BY DEF NoItems, Data

LEMMA NoPostFacts == NoPost \in Post /\ NoPost.changes = <<>> /\ NoPost.lsn = 0
  BY DEF NoPost, Post

LEMMA LargerFacts ==
  \A i, j \in Nat : Larger(i, j) \in Nat /\ i <= Larger(i, j) /\ j <= Larger(i, j)
  BY DEF Larger

\* The change a write makes.
Made1(r) == [op |-> r.op, keys |-> r.keys,
             val |-> IF r.op = "incr" THEN 1 ELSE clock + 1,
             ts |-> clock + 1, lsn |-> lsn + 1]

LEMMA WriteChange ==
  ASSUME TypeOK, NEW r \in Request
  PROVE  /\ Made1(r) \in Change
         /\ [Made1(r) EXCEPT !.ts = None] \in Change
         /\ [Made1(r) EXCEPT !.ts = None].lsn = lsn + 1
<1>1. /\ r.op \in Ops /\ r.keys \in SUBSET Keys
  BY DEF Request
<1>2. r.op \in {"set", "mset", "delete", "incr"}
  BY <1>1, ReplicationAssumption
<1>3. clock \in Nat /\ lsn \in Nat
  BY DEF TypeOK
<1>4. (IF r.op = "incr" THEN 1 ELSE clock + 1) \in Nat
  BY <1>3
<1>5. Made1(r) \in Change
  BY <1>1, <1>2, <1>3, <1>4 DEF Made1, Change
<1> QED
  BY <1>5 DEF Change, Made1
\* What a thread is at.
LEMMA AtWorkFacts ==
  ASSUME TypeOK, WorkFits, NEW f \in Followers, NEW t \in Threads,
         step[f][t] \in {"check", "do", "mark"}
  PROVE  /\ work[f][t] \in Seq(Change) /\ work[f][t] # <<>>
         /\ Next1(f, t) = work[f][t][1] /\ Next1(f, t) \in Change
         /\ Tail(work[f][t]) \in Seq(Change)
         /\ Len(Tail(work[f][t])) = Len(work[f][t]) - 1
         /\ \A j \in 1..Len(work[f][t])-1 : Tail(work[f][t])[j] = work[f][t][j + 1]
         /\ Len(work[f][t]) \in Nat \ {0}
         /\ Tail(work[f][t]) = <<>> <=> Len(work[f][t]) = 1
<1>1. work[f][t] \in Seq(Change)
  BY DEF TypeOK
<1>2. work[f][t] # <<>>
  BY DEF WorkFits, Fits
<1>3. /\ Tail(work[f][t]) \in Seq(Change)
      /\ Len(Tail(work[f][t])) = Len(work[f][t]) - 1
      /\ \A j \in 1..Len(work[f][t])-1 : Tail(work[f][t])[j] = work[f][t][j + 1]
      /\ Len(work[f][t]) # 0 /\ Len(work[f][t]) \in Nat
      /\ work[f][t][1] = Head(work[f][t]) /\ work[f][t][1] \in Change
  BY <1>1, <1>2, TailFacts
<1>4. Tail(work[f][t]) = <<>> <=> Len(work[f][t]) = 1
  <2> DEFINE u == Tail(work[f][t])
  <2> HIDE DEF u
  <2>1. u \in Seq(Change) => (u = <<>> <=> Len(u) = 0)
    OBVIOUS
  <2> QED
    BY <2>1, <1>3 DEF u
<1> QED
  BY <1>1, <1>2, <1>3, <1>4 DEF Next1

LEMMA InitType == Init => TypeOK
<1> SUFFICES ASSUME Init PROVE TypeOK
  OBVIOUS
<1>1. /\ stored \in Data /\ lsn \in Nat /\ wal \in Seq(Change) /\ base \in Nat
      /\ queue \in Seq(Change) /\ batch \in Post /\ todo \subseteq Followers
      /\ {clock, rotates, faults} \subseteq Nat
      /\ log \in Seq(Change)
  BY NoItemsFacts, NoPostFacts DEF Init
<1>2. made \in Seq([Keys -> Nat \cup {None}])
  <2>1. Contents(NoItems) \in [Keys -> Nat \cup {None}]
    BY NoItemsFacts, ContentsFacts
  <2> DEFINE m == Contents(NoItems)
  <2> HIDE DEF m
  <2>2. m \in [Keys -> Nat \cup {None}] /\ made = <<m>>
    BY <2>1 DEF m, Init
  <2> QED
    BY <2>2
<1>3. /\ posts \in [Followers -> Seq(Post)]
      /\ data \in [Followers -> Data]
      /\ applied \in [Followers -> Nat] /\ known \in [Followers -> Nat]
      /\ age \in [Followers -> {"never", "recent", "old"}]
      /\ course \in [Followers -> {"smooth", "syncing", "rough"}]
  BY NoItemsFacts DEF Init
<1>4. /\ step \in [Followers -> [Threads -> {"idle", "check", "do", "mark", "sync", "load"}]]
      /\ work \in [Followers -> [Threads -> Seq(Change)]]
      /\ image \in [Followers -> [Threads -> Image \cup {None}]]
      /\ left \in [Followers -> [Threads -> SUBSET Keys]]
  BY DEF Init, Started
<1>5. setting \in [log: BOOLEAN, shed: {"drop_newest", "drop_oldest"},
                   policy: {"last_write_wins", "always"}]
  BY ReplicationAssumption DEF Init
<1> QED
  BY <1>1, <1>2, <1>3, <1>4, <1>5 DEF TypeOK

\* A write, its place in the queue.
LEMMA EnqueueFacts ==
  ASSUME TypeOK, NEW c \in Change, Enqueue(c)
  PROVE  /\ queue' \in Seq(Change)
         /\ course' \in [Followers -> {"smooth", "syncing", "rough"}]
         /\ \A i \in 1..Len(queue') :
              queue'[i] = c \/ \E j \in 1..Len(queue) : queue'[i] = queue[j]
         /\ \/ queue' = Append(queue, c) /\ course' = course
            \/ course' = [f \in Followers |-> "rough"]
<1>1. queue \in Seq(Change)
      /\ course \in [Followers -> {"smooth", "syncing", "rough"}]
  BY DEF TypeOK
<1>2. CASE queue' = Append(queue, c) /\ course' = course
  BY <1>1, <1>2
<1>3. CASE course' = [f \in Followers |-> "rough"] /\ queue' = queue
  BY <1>1, <1>3
<1>4. CASE /\ course' = [f \in Followers |-> "rough"]
           /\ queue' = Append(Tail(queue), c) /\ queue # <<>>
  <2>1. /\ Tail(queue) \in Seq(Change) /\ Len(Tail(queue)) = Len(queue) - 1
        /\ \A j \in 1..Len(queue)-1 : Tail(queue)[j] = queue[j + 1]
        /\ Len(queue) # 0 /\ Len(queue) \in Nat
    BY <1>1, <1>4, TailFacts
  <2>2. /\ queue' \in Seq(Change) /\ Len(queue') = Len(queue)
        /\ \A j \in 1..Len(queue)-1 : queue'[j] = Tail(queue)[j]
        /\ queue'[Len(queue)] = c
    <3> DEFINE u == Tail(queue)
    <3>1. u \in Seq(Change) /\ Len(u) = Len(queue) - 1 /\ queue' = Append(u, c)
      BY <1>4, <2>1
    <3> HIDE DEF u
    <3>2. /\ Append(u, c) \in Seq(Change) /\ Len(Append(u, c)) = Len(u) + 1
          /\ \A j \in 1..Len(u) : Append(u, c)[j] = u[j]
          /\ Append(u, c)[Len(u) + 1] = c
      BY <3>1
    <3>3. /\ queue' \in Seq(Change) /\ Len(queue') = Len(queue)
          /\ \A j \in 1..Len(queue)-1 : queue'[j] = u[j]
          /\ queue'[Len(queue)] = c
      BY <2>1, <3>1, <3>2
    <3> QED
      BY <3>3 DEF u
  <2>3. ASSUME NEW i \in 1..Len(queue')
        PROVE  queue'[i] = c \/ \E j \in 1..Len(queue) : queue'[i] = queue[j]
    <3>1. i = Len(queue) \/ (i \in 1..Len(queue)-1 /\ i + 1 \in 1..Len(queue))
      <4>1. Len(queue) \in Nat /\ i \in 1..Len(queue)
        BY <2>1, <2>2
      <4> QED
        BY <4>1
    <3>2. CASE i \in 1..Len(queue)-1 /\ i + 1 \in 1..Len(queue)
      BY <2>1, <2>2, <3>2
    <3> QED
      BY <2>2, <3>1, <3>2
  <2> QED
    BY <1>4, <2>2, <2>3
<1>5. Len(queue) < QueueMax \/ queue # <<>>
  <2>1. QueueMax \in Nat \ {0}
    BY ReplicationAssumption
  <2> QED
    BY <2>1, <1>1
<1> QED
  BY <1>2, <1>3, <1>4, <1>5 DEF Enqueue
\* Every step keeps the types.
LEMMA TypeStep ==
  ASSUME TypeOK, WorkFits, [Next]_vars
  PROVE  TypeOK'
<1> USE DEF leader, sender, contents, threads, env, past, history
<1>0. /\ stored \in Data /\ lsn \in Nat /\ wal \in Seq(Change) /\ base \in Nat
      /\ queue \in Seq(Change) /\ batch \in Post /\ todo \subseteq Followers
      /\ posts \in [Followers -> Seq(Post)]
      /\ data \in [Followers -> Data]
      /\ applied \in [Followers -> Nat] /\ known \in [Followers -> Nat]
      /\ age \in [Followers -> {"never", "recent", "old"}]
      /\ step \in [Followers -> [Threads -> {"idle", "check", "do", "mark", "sync", "load"}]]
      /\ work \in [Followers -> [Threads -> Seq(Change)]]
      /\ image \in [Followers -> [Threads -> Image \cup {None}]]
      /\ left \in [Followers -> [Threads -> SUBSET Keys]]
      /\ clock \in Nat /\ rotates \in Nat /\ faults \in Nat
      /\ log \in Seq(Change) /\ made \in Seq([Keys -> Nat \cup {None}])
      /\ course \in [Followers -> {"smooth", "syncing", "rough"}]
  BY DEF TypeOK
<1>1. CASE UNCHANGED vars
  BY <1>1 DEF vars, TypeOK
<1>2. ASSUME NEW r \in Request, Write(r)
      PROVE  TypeOK'
  <2> DEFINE c == Made1(r)
             d == [c EXCEPT !.ts = None]
  <2>1. c \in Change /\ d \in Change
    BY WriteChange
  <2>2. /\ clock' = clock + 1 /\ lsn' = lsn + 1
        /\ stored' = After(stored, c, clock + 1)
        /\ wal' = IF setting.log THEN Append(wal, d) ELSE wal
        /\ log' = Append(log, c)
        /\ made' = Append(made, Contents(stored'))
        /\ Enqueue(c)
        /\ UNCHANGED <<base, batch, todo, posts, contents, known, threads, setting,
                       rotates, faults>>
    BY <1>2 DEF Write, Made1
  <2> HIDE DEF c, d
  <2>3. stored' \in Data
    BY <1>0, <2>1, <2>2, AfterFacts
  <2>4. Contents(stored') \in [Keys -> Nat \cup {None}]
    BY <2>3, ContentsFacts
  <2>5. made' \in Seq([Keys -> Nat \cup {None}])
    <3> DEFINE m == Contents(stored')
    <3>1. m \in [Keys -> Nat \cup {None}] /\ made' = Append(made, m)
      BY <2>2, <2>4
    <3> HIDE DEF m
    <3> QED
      BY <1>0, <3>1
  <2>6. wal' \in Seq(Change) /\ log' \in Seq(Change)
    BY <1>0, <2>1, <2>2
  <2>7. /\ queue' \in Seq(Change)
        /\ course' \in [Followers -> {"smooth", "syncing", "rough"}]
    BY <2>1, <2>2, EnqueueFacts
  <2>8. clock' \in Nat /\ lsn' \in Nat
    BY <1>0, <2>2
  <2> QED
    BY <2>2, <2>3, <2>5, <2>6, <2>7, <2>8, SMTT(20) DEF TypeOK
<1>3. CASE Dispatch
  <2> DEFINE n == IF Len(queue) < BatchMax THEN Len(queue) ELSE BatchMax
  <2>1. n \in 0..Len(queue)
    BY <1>0, ReplicationAssumption
  <2>2. /\ batch' = [changes |-> SubSeq(queue, 1, n), lsn |-> lsn]
        /\ queue' = SubSeq(queue, n + 1, Len(queue))
    BY <1>3 DEF Dispatch
  <2> HIDE DEF n
  <2>3. /\ SubSeq(queue, 1, n) \in Seq(Change)
        /\ SubSeq(queue, n + 1, Len(queue)) \in Seq(Change)
    BY <1>0, <2>1, PartFacts
  <2>4. batch' \in Post /\ queue' \in Seq(Change)
    BY <1>0, <2>2, <2>3 DEF Post
  <2> QED
    BY <1>3, <2>4 DEF Dispatch, TypeOK
<1>4. CASE Rotate
  <2>1. wal' \in Seq(Change) /\ base' \in Nat /\ rotates' \in Nat
    BY <1>0, <1>4 DEF Rotate
  <2> QED
    BY <1>4, <2>1 DEF Rotate, TypeOK
<1>5. CASE LeaderRestart
  <2>1. stored' \in Data
    <3> DEFINE rep == UNION {wal[i].keys : i \in DOMAIN wal}
    <3>1. stored' = IF ~setting.log THEN NoItems
                    ELSE [k \in Keys |->
                            IF stored[k] # None /\ k \in rep
                            THEN [stored[k] EXCEPT !.ts = clock] ELSE stored[k]]
      BY <1>5 DEF LeaderRestart
    <3> HIDE DEF rep
    <3>2. \A k \in Keys : stored[k] \in Item \cup {None}
      BY <1>0 DEF Data
    <3>3. ASSUME NEW k \in Keys, stored[k] # None
          PROVE  [stored[k] EXCEPT !.ts = clock] \in Item
      BY <1>0, <3>2, <3>3 DEF Item
    <3> QED
      BY <3>1, <3>2, <3>3, NoItemsFacts DEF Data
  <2>2. lsn' \in Nat
    <3>1. CASE wal = <<>>
      BY <1>5, <3>1 DEF LeaderRestart
    <3>2. CASE wal # <<>>
      <4>1. Len(wal) \in 1..Len(wal)
        BY <1>0, <3>2
      <4>2. wal[Len(wal)] \in Change
        BY <1>0, <4>1
      <4>3. lsn' = wal[Len(wal)].lsn
        BY <1>5, <3>2 DEF LeaderRestart, Last
      <4> QED
        BY <4>2, <4>3, ChangeFields
    <3> QED
      BY <3>1, <3>2
  <2>3. /\ faults' \in Nat /\ queue' \in Seq(Change) /\ batch' \in Post
        /\ todo' \subseteq Followers
        /\ course' \in [Followers -> {"smooth", "syncing", "rough"}]
    BY <1>0, <1>5, NoPostFacts DEF LeaderRestart
  <2> QED
    BY <1>5, <2>1, <2>2, <2>3 DEF LeaderRestart, TypeOK
<1>6. ASSUME NEW f \in Followers, PostTo(f)
      PROVE  TypeOK'
  <2>1. todo' \subseteq Followers /\ batch' \in Post
    BY <1>0, <1>6, NoPostFacts DEF PostTo
  <2>2. Append(posts[f], batch) \in Seq(Post)
    BY <1>0
  <2>5. \/ posts' = [posts EXCEPT ![f] = Append(posts[f], batch)]
           /\ faults' = faults /\ course' = course
        \/ posts' = posts /\ faults' = faults + 1
           /\ course' = [course EXCEPT ![f] = "rough"]
    BY <1>6 DEF PostTo
  <2>3. /\ posts' \in [Followers -> Seq(Post)]
        /\ course' \in [Followers -> {"smooth", "syncing", "rough"}] /\ faults' \in Nat
    <3>1. CASE /\ posts' = [posts EXCEPT ![f] = Append(posts[f], batch)]
               /\ faults' = faults /\ course' = course
      BY <1>0, <2>2, <3>1
    <3>2. CASE /\ posts' = posts /\ faults' = faults + 1
               /\ course' = [course EXCEPT ![f] = "rough"]
      BY <1>0, <3>2
    <3> QED
      BY <2>5, <3>1, <3>2
  <2> QED
    <3>1. UNCHANGED <<leader, queue, contents, known, threads, setting, clock, rotates, past>>
      BY <1>6 DEF PostTo
    <3> QED
      BY <2>1, <2>3, <3>1 DEF TypeOK
<1>7. ASSUME NEW f \in Followers, NEW i \in DOMAIN posts[f], Serve(f, i)
      PROVE  TypeOK'
  <2> DEFINE p == posts[f][i]
  <2>1. posts[f] \in Seq(Post) /\ i \in 1..Len(posts[f])
    BY <1>0, <1>7
  <2>2. p \in Post /\ p.changes \in Seq(Change) /\ p.lsn \in Nat
    BY <2>1, PostFields
  <2>3. RemoveAt(posts[f], i) \in Seq(Post)
    BY <2>1, RemoveAtFacts
  <2>4. Larger(known[f], p.lsn) \in Nat
    BY <1>0, <2>2, LargerFacts
  <2>5. Begin(f, "push", p.changes, DOMAIN p.changes)
    BY <1>7 DEF Serve
  <2>6. DOMAIN p.changes \in SUBSET (1..Len(p.changes))
    BY <2>2
  <2> HIDE DEF p
  <2>7. "push" \in Threads
    BY DEF Threads
  <2>8. PICK w : /\ Sorts(w, p.changes, DOMAIN p.changes)
                 /\ work' = [work EXCEPT ![f]["push"] = w]
                 /\ step' = [step EXCEPT ![f]["push"] =
                               IF DOMAIN p.changes = {} THEN "idle" ELSE "check"]
                 /\ UNCHANGED <<image, left>>
    BY <2>2, <2>5, <2>6, <2>7, BeginFacts
  <2>9. w \in Seq(Change)
    BY <2>8 DEF Sorts
  <2>10. /\ work' \in [Followers -> [Threads -> Seq(Change)]]
         /\ step' \in [Followers -> [Threads ->
              {"idle", "check", "do", "mark", "sync", "load"}]]
    BY <1>0, <2>7, <2>8, <2>9
  <2>11. posts' \in [Followers -> Seq(Post)] /\ known' \in [Followers -> Nat]
    BY <1>0, <1>7, <2>3, <2>4 DEF Serve, p
  <2>12. course' \in [Followers -> {"smooth", "syncing", "rough"}]
    BY <1>0, <1>7 DEF Serve
  <2> QED
    BY <1>7, <2>8, <2>10, <2>11, <2>12 DEF Serve, TypeOK
<1>8. ASSUME NEW f \in Followers, Pull(f)
      PROVE  TypeOK'
  <2> DEFINE news == {i \in DOMAIN wal : wal[i].lsn > applied[f]}
  <2>1. news \in SUBSET (1..Len(wal))
    BY <1>0
  <2>2. "pull" \in Threads
    BY DEF Threads
  <2>3. CASE /\ step' = [step EXCEPT ![f]["pull"] = "sync"]
             /\ UNCHANGED <<work, image, left, known, course>>
    <3>1. step' \in [Followers -> [Threads -> {"idle", "check", "do", "mark", "sync", "load"}]]
      BY <1>0, <2>2, <2>3
    <3> QED
      BY <1>8, <2>3, <3>1 DEF Pull, TypeOK
  <2>4. CASE /\ known' = [known EXCEPT ![f] = Larger(@, lsn)]
             /\ Begin(f, "pull", wal, news)
             /\ course' = [course EXCEPT ![f] = IF news = {} THEN @ ELSE "rough"]
    <3> HIDE DEF news
    <3>1. PICK w : /\ Sorts(w, wal, news)
                   /\ work' = [work EXCEPT ![f]["pull"] = w]
                   /\ step' = [step EXCEPT ![f]["pull"] = IF news = {} THEN "idle" ELSE "check"]
                   /\ UNCHANGED <<image, left>>
      BY <1>0, <2>1, <2>2, <2>4, BeginFacts
    <3>2. w \in Seq(Change)
      BY <3>1 DEF Sorts
    <3>3. /\ work' \in [Followers -> [Threads -> Seq(Change)]]
          /\ step' \in [Followers -> [Threads ->
               {"idle", "check", "do", "mark", "sync", "load"}]]
      BY <1>0, <2>2, <3>1, <3>2
    <3>4. Larger(known[f], lsn) \in Nat
      BY <1>0, LargerFacts
    <3>5. /\ known' \in [Followers -> Nat]
          /\ course' \in [Followers -> {"smooth", "syncing", "rough"}]
      BY <1>0, <2>4, <3>4
    <3> QED
      BY <1>8, <3>1, <3>3, <3>5 DEF Pull, TypeOK
  <2> QED
    BY <1>8, <2>3, <2>4 DEF Pull
<1>9. ASSUME NEW f \in Followers, Ages(f)
      PROVE  TypeOK'
  <2>1. age' \in [Followers -> {"never", "recent", "old"}]
    BY <1>0, <1>9 DEF Ages
  <2> QED
    BY <1>9, <2>1 DEF Ages, TypeOK
<1>10. ASSUME NEW f \in Followers, Repair(f)
      PROVE  TypeOK'
  <2>1. step' \in [Followers -> [Threads -> {"idle", "check", "do", "mark", "sync", "load"}]]
    BY <1>0, <1>10 DEF Repair, Threads
  <2> QED
    BY <1>10, <2>1 DEF Repair, TypeOK
<1>11. ASSUME NEW f \in Followers, FollowerRestart(f)
      PROVE  TypeOK'
  <2>1. /\ faults' \in Nat
        /\ data' \in [Followers -> Data]
        /\ applied' \in [Followers -> Nat] /\ known' \in [Followers -> Nat]
        /\ age' \in [Followers -> {"never", "recent", "old"}]
        /\ posts' \in [Followers -> Seq(Post)]
        /\ course' \in [Followers -> {"smooth", "syncing", "rough"}]
    BY <1>0, <1>11, NoItemsFacts DEF FollowerRestart
  <2>2. /\ step' \in [Followers -> [Threads -> {"idle", "check", "do", "mark", "sync", "load"}]]
        /\ work' \in [Followers -> [Threads -> Seq(Change)]]
        /\ image' \in [Followers -> [Threads -> Image \cup {None}]]
        /\ left' \in [Followers -> [Threads -> SUBSET Keys]]
    BY <1>0, <1>11 DEF FollowerRestart, Started
  <2> QED
    BY <1>11, <2>1, <2>2, SMTT(20) DEF FollowerRestart, TypeOK
<1>12. ASSUME NEW f \in Followers, NEW t \in Threads, Check(f, t)
      PROVE  TypeOK'
  <2>1. Tail(work[f][t]) \in Seq(Change)
    BY <1>12, AtWorkFacts DEF Check
  <2>2. work' \in [Followers -> [Threads -> Seq(Change)]]
    <3>1. work' = work \/ work' = [work EXCEPT ![f][t] = Tail(work[f][t])]
      BY <1>12 DEF Check
    <3>2. CASE work' = work
      BY <1>0, <3>2
    <3>3. CASE work' = [work EXCEPT ![f][t] = Tail(work[f][t])]
      BY <1>0, <2>1, <3>3
    <3> QED
      BY <3>1, <3>2, <3>3
  <2>3. step' \in [Followers -> [Threads -> {"idle", "check", "do", "mark", "sync", "load"}]]
    <3>1. \E s \in {"idle", "check", "do", "mark"} : step' = [step EXCEPT ![f][t] = s]
      BY <1>12 DEF Check
    <3> QED
      BY <1>0, <3>1
  <2> QED
    BY <1>12, <2>2, <2>3 DEF Check, TypeOK
<1>13. ASSUME NEW f \in Followers, NEW t \in Threads, Do(f, t)
      PROVE  TypeOK'
  <2>1. Next1(f, t) \in Change
    BY <1>13, AtWorkFacts DEF Do
  <2>2. After(data[f], Next1(f, t), clock) \in Data
    BY <1>0, <2>1, AfterFacts
  <2>3. /\ step' \in [Followers -> [Threads -> {"idle", "check", "do", "mark", "sync", "load"}]]
        /\ data' \in [Followers -> Data]
    BY <1>0, <1>13, <2>2 DEF Do
  <2> QED
    BY <1>13, <2>3 DEF Do, TypeOK
<1>14. ASSUME NEW f \in Followers, NEW t \in Threads, Mark(f, t)
      PROVE  TypeOK'
  <2>1. Next1(f, t) \in Change /\ Tail(work[f][t]) \in Seq(Change)
    BY <1>14, AtWorkFacts DEF Mark
  <2>2. Next1(f, t).lsn \in Nat
    BY <2>1, ChangeFields
  <2>3. /\ step' \in [Followers -> [Threads -> {"idle", "check", "do", "mark", "sync", "load"}]]
        /\ work' \in [Followers -> [Threads -> Seq(Change)]]
        /\ applied' \in [Followers -> Nat]
        /\ age' \in [Followers -> {"never", "recent", "old"}]
    BY <1>0, <1>14, <2>1, <2>2 DEF Mark
  <2> QED
    BY <1>14, <2>3 DEF Mark, TypeOK
<1>15. ASSUME NEW f \in Followers, NEW t \in Threads, SyncDump(f, t)
      PROVE  TypeOK'
  <2>1. [data |-> stored, lsn |-> lsn] \in Image
    BY <1>0 DEF Image
  <2>2. /\ step' \in [Followers -> [Threads -> {"idle", "check", "do", "mark", "sync", "load"}]]
        /\ image' \in [Followers -> [Threads -> Image \cup {None}]]
        /\ left' \in [Followers -> [Threads -> SUBSET Keys]]
        /\ course' \in [Followers -> {"smooth", "syncing", "rough"}]
    BY <1>0, <1>15, <2>1 DEF SyncDump
  <2> QED
    BY <1>15, <2>2 DEF SyncDump, TypeOK
<1>16. ASSUME NEW f \in Followers, NEW t \in Threads, NEW k \in Keys, SyncLoad(f, t, k),
              image[f][t] # None
      PROVE  TypeOK'
  <2>1. image[f][t].data[k] \in Item \cup {None}
    BY <1>0, <1>16 DEF Image, Data
  <2>2. /\ data' \in [Followers -> Data]
        /\ left' \in [Followers -> [Threads -> SUBSET Keys]]
    BY <1>0, <1>16, <2>1 DEF SyncLoad, Data
  <2> QED
    BY <1>16, <2>2 DEF SyncLoad, TypeOK
<1>17. ASSUME NEW f \in Followers, NEW t \in Threads, SyncMark(f, t), image[f][t] # None
      PROVE  TypeOK'
  <2>1. image[f][t].lsn \in Nat
    BY <1>0, <1>17 DEF Image
  <2>2. Larger(known[f], image[f][t].lsn) \in Nat
    BY <1>0, <2>1, LargerFacts
  <2>3. /\ step' \in [Followers -> [Threads -> {"idle", "check", "do", "mark", "sync", "load"}]]
        /\ image' \in [Followers -> [Threads -> Image \cup {None}]]
        /\ applied' \in [Followers -> Nat] /\ known' \in [Followers -> Nat]
        /\ age' \in [Followers -> {"never", "recent", "old"}]
        /\ course' \in [Followers -> {"smooth", "syncing", "rough"}]
    BY <1>0, <1>17, <2>1, <2>2 DEF SyncMark
  <2> QED
    BY <1>17, <2>3 DEF SyncMark, TypeOK
<1>18. ASSUME NEW f \in Followers, NEW t \in Threads, SyncFails(f, t)
      PROVE  TypeOK'
  <2>1. step' \in [Followers -> [Threads -> {"idle", "check", "do", "mark", "sync", "load"}]]
    <3>1. \E s \in {"idle", "sync"} : step' = [step EXCEPT ![f][t] = s]
      BY <1>18 DEF SyncFails
    <3> QED
      BY <1>0, <3>1
  <2>2. /\ image' \in [Followers -> [Threads -> Image \cup {None}]]
        /\ left' \in [Followers -> [Threads -> SUBSET Keys]]
    BY <1>0, <1>18 DEF SyncFails
  <2>3. course' \in [Followers -> {"smooth", "syncing", "rough"}] /\ faults' \in Nat
    <3>1. course' = [course EXCEPT ![f] = "rough"] /\ faults' = faults + 1
      BY <1>18 DEF SyncFails
    <3> QED
      BY <1>0, <3>1
  <2> QED
    <3>1. UNCHANGED <<leader, sender, posts, contents, known, work, setting, clock, rotates, past>>
      BY <1>18 DEF SyncFails
    <3> QED
      BY <2>1, <2>2, <2>3, <3>1 DEF TypeOK
<1>19. ASSUME NEW f \in Followers, NEW t \in Threads, step[f][t] = "load"
      PROVE  image[f][t] # None
  BY <1>19 DEF WorkFits, Fits
<1> QED
  BY <1>1, <1>2, <1>3, <1>4, <1>5, <1>6, <1>7, <1>8, <1>9, <1>10, <1>11, <1>12, <1>13,
     <1>14, <1>15, <1>16, <1>17, <1>18, <1>19
  DEF Next, Continues, SyncLoad, SyncMark
-----------------------------------------------------------------------------
(* The threads of the followers. *)

\* One thread goes from one fitting state to another.
LEMMA ThreadStep ==
  ASSUME TypeOK, WorkFits, NEW f \in Followers, NEW t \in Threads,
         NEW s, NEW w, NEW i, Fits(s, w, i),
         step' = [step EXCEPT ![f][t] = s],
         work' = [work EXCEPT ![f][t] = w],
         image' = [image EXCEPT ![f][t] = i]
  PROVE  WorkFits'
<1>1. SUFFICES ASSUME NEW g \in Followers, NEW u \in Threads
               PROVE  Fits(step'[g][u], work'[g][u], image'[g][u])
  BY DEF WorkFits
<1>2. /\ step \in [Followers -> [Threads -> {"idle", "check", "do", "mark", "sync", "load"}]]
      /\ work \in [Followers -> [Threads -> Seq(Change)]]
      /\ image \in [Followers -> [Threads -> Image \cup {None}]]
  BY DEF TypeOK
<1>3. CASE g = f /\ u = t
  <2>1. step'[g][u] = s /\ work'[g][u] = w /\ image'[g][u] = i
    BY <1>2, <1>3
  <2> QED
    BY <2>1
<1>4. CASE ~(g = f /\ u = t)
  <2>1. step'[g][u] = step[g][u] /\ work'[g][u] = work[g][u] /\ image'[g][u] = image[g][u]
    BY <1>2, <1>4
  <2> QED
    BY <2>1 DEF WorkFits
<1> QED
  BY <1>3, <1>4

\* What a thread keeps is the same when it is written again.
LEMMA Rewritten ==
  ASSUME TypeOK, NEW f \in Followers, NEW t \in Threads
  PROVE  /\ step = [step EXCEPT ![f][t] = step[f][t]]
         /\ work = [work EXCEPT ![f][t] = work[f][t]]
         /\ image = [image EXCEPT ![f][t] = image[f][t]]
         /\ left = [left EXCEPT ![f][t] = left[f][t]]
<1>1. /\ step \in [Followers -> [Threads -> {"idle", "check", "do", "mark", "sync", "load"}]]
      /\ work \in [Followers -> [Threads -> Seq(Change)]]
      /\ image \in [Followers -> [Threads -> Image \cup {None}]]
      /\ left \in [Followers -> [Threads -> SUBSET Keys]]
  BY DEF TypeOK
<1>2. step = [step EXCEPT ![f][t] = step[f][t]]
  BY <1>1
<1>3. work = [work EXCEPT ![f][t] = work[f][t]]
  BY <1>1
<1>4. image = [image EXCEPT ![f][t] = image[f][t]]
  BY <1>1
<1>5. left = [left EXCEPT ![f][t] = left[f][t]]
  BY <1>1
<1> QED
  BY <1>2, <1>3, <1>4, <1>5

\* The rest of a thread's changes is in order, and the thread at rest when there is
\* none.
LEMMA RestFits ==
  ASSUME TypeOK, WorkFits, NEW f \in Followers, NEW t \in Threads,
         step[f][t] \in {"check", "do", "mark"}
  PROVE  Fits(IF Len(work[f][t]) = 1 THEN "idle" ELSE "check", Tail(work[f][t]), image[f][t])
<1> DEFINE w == work[f][t]
           u == Tail(w)
<1>1. /\ u \in Seq(Change) /\ Len(w) \in Nat \ {0}
      /\ Len(u) = Len(w) - 1
      /\ \A j \in 1..Len(w)-1 : u[j] = w[j + 1]
      /\ u = <<>> <=> Len(w) = 1
  BY AtWorkFacts
<1>2. \A m, n \in 1..Len(w) : m < n => w[m].lsn <= w[n].lsn
  BY DEF WorkFits, Fits
<1> HIDE DEF w, u
<1>3. ASSUME NEW m \in 1..Len(u), NEW n \in 1..Len(u), m < n
      PROVE  u[m].lsn <= u[n].lsn
  <2>1. m \in 1..Len(w)-1 /\ n \in 1..Len(w)-1
    BY <1>1
  <2>2. m + 1 \in 1..Len(w) /\ n + 1 \in 1..Len(w) /\ m + 1 < n + 1
    BY <1>1, <1>3, <2>1
  <2>3. w[m + 1].lsn <= w[n + 1].lsn
    BY <1>2, <2>2
  <2> QED
    BY <1>1, <2>1, <2>3
<1> QED
  BY <1>1, <1>3 DEF Fits, w, u

LEMMA WorkStep ==
  ASSUME TypeOK, WorkFits, [Next]_vars
  PROVE  WorkFits'
<1> USE DEF leader, sender, contents, threads, env, past, history
<1>0. \A f \in Followers, t \in Threads : Fits(step[f][t], work[f][t], image[f][t])
  BY DEF WorkFits
<1>1. CASE UNCHANGED <<step, work, image>>
  BY <1>1 DEF WorkFits
<1>2. ASSUME NEW f \in Followers, NEW t \in Threads, NEW cs \in Seq(Change),
             NEW S \in SUBSET (1..Len(cs)), Begin(f, t, cs, S)
      PROVE  WorkFits'
  <2>1. PICK w : /\ Sorts(w, cs, S)
                 /\ work' = [work EXCEPT ![f][t] = w]
                 /\ step' = [step EXCEPT ![f][t] = IF S = {} THEN "idle" ELSE "check"]
                 /\ UNCHANGED <<image, left>>
    BY <1>2, BeginFacts
  <2>2. Fits(IF S = {} THEN "idle" ELSE "check", w, image[f][t])
    BY <2>1 DEF Sorts, Fits
  <2>3. image' = [image EXCEPT ![f][t] = image[f][t]]
    BY <2>1, Rewritten
  <2> QED
    BY <2>1, <2>2, <2>3, ThreadStep
<1>3. ASSUME NEW f \in Followers, NEW i \in DOMAIN posts[f], Serve(f, i)
      PROVE  WorkFits'
  <2>1. posts[f] \in Seq(Post) /\ i \in 1..Len(posts[f])
    BY <1>3 DEF TypeOK
  <2>2. posts[f][i].changes \in Seq(Change)
    BY <2>1, PostFields
  <2>3. DOMAIN posts[f][i].changes \in SUBSET (1..Len(posts[f][i].changes))
    BY <2>2
  <2>4. Begin(f, "push", posts[f][i].changes, DOMAIN posts[f][i].changes) /\ "push" \in Threads
    BY <1>3 DEF Serve, Threads
  <2> QED
    BY <1>2, <2>2, <2>3, <2>4
<1>4. ASSUME NEW f \in Followers, Pull(f)
      PROVE  WorkFits'
  <2> DEFINE news == {i \in DOMAIN wal : wal[i].lsn > applied[f]}
  <2>1. wal \in Seq(Change) /\ news \in SUBSET (1..Len(wal)) /\ "pull" \in Threads
    BY DEF TypeOK, Threads
  <2>2. CASE Begin(f, "pull", wal, news)
    BY <1>2, <2>1, <2>2
  <2>3. CASE /\ step[f]["pull"] = "idle"
             /\ step' = [step EXCEPT ![f]["pull"] = "sync"]
             /\ UNCHANGED <<work, image>>
    <3>1. Fits("sync", work[f]["pull"], image[f]["pull"])
      BY <1>0, <2>1, <2>3 DEF Fits
    <3>2. /\ work' = [work EXCEPT ![f]["pull"] = work[f]["pull"]]
          /\ image' = [image EXCEPT ![f]["pull"] = image[f]["pull"]]
      BY <2>1, <2>3, Rewritten
    <3> QED
      BY <2>1, <2>3, <3>1, <3>2, ThreadStep
  <2> QED
    BY <1>4, <2>2, <2>3 DEF Pull
<1>5. ASSUME NEW f \in Followers, Repair(f)
      PROVE  WorkFits'
  <2>1. "repair" \in Threads /\ step[f]["repair"] = "idle"
        /\ step' = [step EXCEPT ![f]["repair"] = "sync"]
        /\ UNCHANGED <<work, image>>
    BY <1>5 DEF Repair, Threads
  <2>2. Fits("sync", work[f]["repair"], image[f]["repair"])
    BY <1>0, <2>1 DEF Fits
  <2>3. /\ work' = [work EXCEPT ![f]["repair"] = work[f]["repair"]]
        /\ image' = [image EXCEPT ![f]["repair"] = image[f]["repair"]]
    BY <2>1, Rewritten
  <2> QED
    BY <2>1, <2>2, <2>3, ThreadStep
<1>6. ASSUME NEW f \in Followers, FollowerRestart(f)
      PROVE  WorkFits'
  <2>1. SUFFICES ASSUME NEW g \in Followers, NEW u \in Threads
                 PROVE  Fits(step'[g][u], work'[g][u], image'[g][u])
    BY DEF WorkFits
  <2>2. CASE g = f
    <3>1. step'[g][u] \in {"idle", "sync"} /\ work'[g][u] = <<>>
      BY <1>6, <2>2 DEF FollowerRestart, TypeOK, Started
    <3> QED
      BY <3>1 DEF Fits
  <2>3. CASE g # f
    <3>1. step'[g][u] = step[g][u] /\ work'[g][u] = work[g][u] /\ image'[g][u] = image[g][u]
      BY <1>6, <2>3 DEF FollowerRestart, TypeOK
    <3> QED
      BY <1>0, <3>1
  <2> QED
    BY <2>2, <2>3
<1>7. ASSUME NEW f \in Followers, NEW t \in Threads, Check(f, t)
      PROVE  WorkFits'
  <2>0. image' = [image EXCEPT ![f][t] = image[f][t]]
    BY <1>7, Rewritten DEF Check
  <2>1. CASE /\ work' = [work EXCEPT ![f][t] = Tail(work[f][t])]
             /\ step' = [step EXCEPT ![f][t] =
                           IF Len(work[f][t]) = 1 THEN "idle" ELSE "check"]
    <3>1. step[f][t] = "check"
      BY <1>7 DEF Check
    <3> QED
      BY <2>0, <2>1, <3>1, RestFits, ThreadStep
  <2>2. CASE /\ step' = [step EXCEPT ![f][t] =
                           IF ShouldApply(data[f], Next1(f, t)) THEN "do" ELSE "mark"]
             /\ UNCHANGED work
    <3>1. Fits(IF ShouldApply(data[f], Next1(f, t)) THEN "do" ELSE "mark",
               work[f][t], image[f][t])
      BY <1>0, <1>7 DEF Check, Fits
    <3>2. work' = [work EXCEPT ![f][t] = work[f][t]]
      BY <2>2, Rewritten
    <3> QED
      BY <2>0, <2>2, <3>1, <3>2, ThreadStep
  <2> QED
    BY <1>7, <2>1, <2>2 DEF Check
<1>8. ASSUME NEW f \in Followers, NEW t \in Threads, Do(f, t)
      PROVE  WorkFits'
  <2>1. /\ work' = [work EXCEPT ![f][t] = work[f][t]]
        /\ image' = [image EXCEPT ![f][t] = image[f][t]]
    BY <1>8, Rewritten DEF Do
  <2>2. Fits("mark", work[f][t], image[f][t])
    BY <1>0, <1>8 DEF Do, Fits
  <2>3. step' = [step EXCEPT ![f][t] = "mark"]
    BY <1>8 DEF Do
  <2> QED
    BY <2>1, <2>2, <2>3, ThreadStep
<1>9. ASSUME NEW f \in Followers, NEW t \in Threads, Mark(f, t)
      PROVE  WorkFits'
  <2>1. image' = [image EXCEPT ![f][t] = image[f][t]]
    BY <1>9, Rewritten DEF Mark
  <2>2. /\ work' = [work EXCEPT ![f][t] = Tail(work[f][t])]
        /\ step' = [step EXCEPT ![f][t] = IF Len(work[f][t]) = 1 THEN "idle" ELSE "check"]
        /\ step[f][t] = "mark"
    BY <1>9 DEF Mark
  <2> QED
    BY <2>1, <2>2, RestFits, ThreadStep
<1>10. ASSUME NEW f \in Followers, NEW t \in Threads, NEW s \in {"idle", "sync", "load"},
              NEW i, s = "load" => i # None,
              step[f][t] \in {"sync", "load"},
              step' = [step EXCEPT ![f][t] = s],
              image' = [image EXCEPT ![f][t] = i],
              UNCHANGED work
       PROVE  WorkFits'
  <2>1. work' = [work EXCEPT ![f][t] = work[f][t]]
    BY <1>10, Rewritten
  <2>2. Fits(s, work[f][t], i)
    BY <1>0, <1>10 DEF Fits
  <2> QED
    BY <1>10, <2>1, <2>2, ThreadStep
<1>11. ASSUME NEW f \in Followers, NEW t \in Threads, SyncDump(f, t)
       PROVE  WorkFits'
  <2>1. [data |-> stored, lsn |-> lsn] # None
    <3>1. [data |-> stored, lsn |-> lsn] \in Image
      BY DEF Image, TypeOK
    <3> QED
      BY <3>1, ReplicationAssumption
  <2> QED
    BY <1>10, <1>11, <2>1 DEF SyncDump
<1>12. ASSUME NEW f \in Followers, NEW t \in Threads, SyncMark(f, t)
       PROVE  WorkFits'
  BY <1>10, <1>12 DEF SyncMark
<1>13. ASSUME NEW f \in Followers, NEW t \in Threads, SyncFails(f, t)
       PROVE  WorkFits'
  <2>1. \E s \in {"idle", "sync"} : step' = [step EXCEPT ![f][t] = s]
    BY <1>13 DEF SyncFails
  <2>2. /\ step[f][t] \in {"sync", "load"} /\ UNCHANGED work
        /\ image' = [image EXCEPT ![f][t] = None]
    BY <1>13 DEF SyncFails
  <2> QED
    BY <1>10, <2>1, <2>2
<1>14. CASE \/ UNCHANGED vars
            \/ \E r \in Request : Write(r)
            \/ Dispatch \/ Rotate \/ LeaderRestart
            \/ \E f \in Followers : PostTo(f) \/ Ages(f)
            \/ \E f \in Followers, t \in Threads, k \in Keys : SyncLoad(f, t, k)
  BY <1>1, <1>14 DEF vars, Write, Dispatch, Rotate, LeaderRestart, PostTo, Ages, SyncLoad
<1> QED
  BY <1>3, <1>4, <1>5, <1>6, <1>7, <1>8, <1>9, <1>11, <1>12, <1>13, <1>14
  DEF Next, Continues
-----------------------------------------------------------------------------
(* What a follower has heard of. *)

\* A part of News of which no variable has changed.
LEMMA NewsKept ==
  ASSUME News
  PROVE  /\ UNCHANGED <<queue, lsn>> => QueueNews'
         /\ UNCHANGED <<wal, lsn>> => WalNews'
         /\ UNCHANGED batch => BatchNews'
         /\ UNCHANGED posts => PostNews'
         /\ UNCHANGED <<work, known>> => WorkNews'
<1>1. UNCHANGED <<queue, lsn>> => QueueNews'
  BY DEF News, QueueNews
<1>2. UNCHANGED <<wal, lsn>> => WalNews'
  BY DEF News, WalNews
<1>3. UNCHANGED batch => BatchNews'
  BY DEF News, BatchNews
<1>4. UNCHANGED posts => PostNews'
  BY DEF News, PostNews
<1>5. UNCHANGED <<work, known>> => WorkNews'
  BY DEF News, WorkNews
<1> QED
  BY <1>1, <1>2, <1>3, <1>4, <1>5

\* Thread t of f has taken up w, and its news.
LEMMA ThreadNews ==
  ASSUME TypeOK, News, NEW f \in Followers, NEW t \in Threads, NEW w \in Seq(Change),
         NEW n \in Nat, known[f] <= n,
         \A i \in 1..Len(w) : w[i].lsn <= n,
         work' = [work EXCEPT ![f][t] = w],
         known' = [known EXCEPT ![f] = n]
  PROVE  WorkNews'
<1>1. SUFFICES ASSUME NEW g \in Followers, NEW u \in Threads, NEW i \in 1..Len(work'[g][u])
               PROVE  work'[g][u][i].lsn <= known'[g]
  BY DEF WorkNews
<1>2. /\ work \in [Followers -> [Threads -> Seq(Change)]]
      /\ known \in [Followers -> Nat]
  BY DEF TypeOK
<1>3. CASE g = f /\ u = t
  <2>1. work'[g][u] = w /\ known'[g] = n
    BY <1>2, <1>3
  <2> QED
    BY <1>1, <2>1
<1>4. CASE ~(g = f /\ u = t)
  <2>1. work'[g][u] = work[g][u]
    BY <1>2, <1>4
  <2>2. known'[g] \in Nat /\ known[g] \in Nat /\ known[g] <= known'[g]
    <3>1. CASE g = f
      BY <1>2, <3>1
    <3>2. CASE g # f
      BY <1>2, <3>2
    <3> QED
      BY <3>1, <3>2
  <2>3. work[g][u][i].lsn <= known[g]
    BY <1>1, <2>1 DEF News, WorkNews
  <2>4. work[g][u] \in Seq(Change) /\ i \in 1..Len(work[g][u])
    BY <1>1, <1>2, <2>1
  <2>5. work[g][u][i].lsn \in Nat
    BY <2>4, ChangeFields
  <2> QED
    BY <2>1, <2>2, <2>3, <2>5
<1> QED
  BY <1>3, <1>4

LEMMA NewsStep ==
  ASSUME TypeOK, WorkFits, News, WalOrdered, [Next]_vars
  PROVE  News' /\ WalOrdered'
<1> USE DEF leader, sender, contents, threads, env, past, history
<1>0. /\ lsn \in Nat /\ wal \in Seq(Change) /\ queue \in Seq(Change) /\ batch \in Post
      /\ posts \in [Followers -> Seq(Post)]
      /\ known \in [Followers -> Nat]
      /\ work \in [Followers -> [Threads -> Seq(Change)]]
  BY DEF TypeOK
<1>q. /\ \A i \in 1..Len(queue) : queue[i] \in Change /\ queue[i].lsn \in Nat
                                  /\ queue[i].lsn <= lsn
      /\ \A i \in 1..Len(wal) : wal[i] \in Change /\ wal[i].lsn \in Nat
                                  /\ wal[i].lsn <= lsn
  <2>1. \A i \in 1..Len(queue) : queue[i] \in Change
    BY <1>0
  <2>2. \A i \in 1..Len(wal) : wal[i] \in Change
    BY <1>0
  <2> QED
    BY <2>1, <2>2, ChangeFields DEF News, QueueNews, WalNews
<1>w. UNCHANGED wal => WalOrdered'
  BY DEF WalOrdered
<1>1. CASE UNCHANGED vars
  BY <1>1, <1>w, NewsKept DEF vars, News
<1>2. ASSUME NEW r \in Request, Write(r)
      PROVE  News' /\ WalOrdered'
  <2> DEFINE c == Made1(r)
             d == [c EXCEPT !.ts = None]
  <2>1. c \in Change /\ d \in Change /\ d.lsn = lsn + 1 /\ c.lsn = lsn + 1
    BY WriteChange DEF Made1
  <2>2. /\ lsn' = lsn + 1
        /\ wal' = IF setting.log THEN Append(wal, d) ELSE wal
        /\ Enqueue(c)
        /\ UNCHANGED <<batch, posts, work, known>>
    BY <1>2 DEF Write, Made1
  <2> HIDE DEF c, d
  <2>3. ASSUME NEW i \in 1..Len(queue')
        PROVE  queue'[i].lsn <= lsn'
    <3>1. queue'[i] = c \/ \E j \in 1..Len(queue) : queue'[i] = queue[j]
      BY <2>1, <2>2, EnqueueFacts
    <3> QED
      BY <1>0, <1>q, <2>1, <2>2, <3>1
  <2>4. /\ \A i \in 1..Len(wal') : wal'[i].lsn <= lsn'
        /\ WalOrdered'
    <3>1. CASE wal' = wal
      BY <1>0, <1>q, <2>2, <3>1 DEF WalOrdered
    <3>2. CASE wal' = Append(wal, d)
      <4>1. /\ Len(wal') = Len(wal) + 1 /\ Len(wal) \in Nat
            /\ \A i \in 1..Len(wal) : wal'[i] = wal[i]
            /\ wal'[Len(wal) + 1] = d
        BY <1>0, <2>1, <3>2
      <4>2. \A i \in 1..Len(wal)+1 : i \in 1..Len(wal) \/ i = Len(wal) + 1
        BY <4>1
      <4>3. \A i \in 1..Len(wal') : wal'[i].lsn <= lsn'
        BY <1>0, <1>q, <2>1, <2>2, <4>1, <4>2
      <4>4. ASSUME NEW i \in 1..Len(wal'), NEW j \in 1..Len(wal'), i < j
            PROVE  wal'[i].lsn < wal'[j].lsn
        <5>1. i \in 1..Len(wal) /\ wal'[i] = wal[i]
          BY <4>1, <4>4
        <5>2. CASE j \in 1..Len(wal)
          BY <4>1, <4>4, <5>1, <5>2 DEF WalOrdered
        <5>3. CASE j = Len(wal) + 1
          BY <1>0, <1>q, <2>1, <4>1, <5>1, <5>3
        <5> QED
          BY <4>1, <4>2, <5>2, <5>3
      <4> QED
        BY <4>3, <4>4 DEF WalOrdered
    <3> QED
      BY <2>2, <3>1, <3>2
  <2> QED
    BY <2>2, <2>3, <2>4, NewsKept DEF News, QueueNews, WalNews, BatchNews, PostNews
<1>3. CASE Dispatch
  <2> DEFINE n == IF Len(queue) < BatchMax THEN Len(queue) ELSE BatchMax
  <2>1. n \in 0..Len(queue)
    BY <1>0, ReplicationAssumption
  <2>2. /\ batch' = [changes |-> SubSeq(queue, 1, n), lsn |-> lsn]
        /\ queue' = SubSeq(queue, n + 1, Len(queue))
        /\ UNCHANGED <<lsn, wal, posts, work, known>>
    BY <1>3 DEF Dispatch
  <2> HIDE DEF n
  <2>3. /\ Len(SubSeq(queue, 1, n)) = n
        /\ \A j \in 1..n : SubSeq(queue, 1, n)[j] = queue[1 + j - 1]
        /\ Len(SubSeq(queue, n + 1, Len(queue))) = Len(queue) - n
        /\ \A j \in 1..Len(queue)-n :
             SubSeq(queue, n + 1, Len(queue))[j] = queue[n + 1 + j - 1]
    <3>1. /\ Len(SubSeq(queue, 1, n)) = n - 1 + 1
          /\ \A j \in 1..n-1+1 : SubSeq(queue, 1, n)[j] = queue[1 + j - 1]
      BY <1>0, <2>1, PartFacts
    <3>2. /\ Len(SubSeq(queue, n + 1, Len(queue))) = Len(queue) - (n + 1) + 1
          /\ \A j \in 1..Len(queue)-(n+1)+1 :
               SubSeq(queue, n + 1, Len(queue))[j] = queue[n + 1 + j - 1]
      BY <1>0, <2>1, PartFacts
    <3> QED
      BY <1>0, <2>1, <3>1, <3>2
  <2>4. ASSUME NEW i \in 1..Len(batch'.changes)
        PROVE  batch'.changes[i].lsn <= batch'.lsn
    <3>1. i \in 1..n /\ i \in 1..Len(queue) /\ batch'.changes[i] = queue[i] /\ batch'.lsn = lsn
      BY <2>1, <2>2, <2>3
    <3> QED
      BY <1>q, <3>1
  <2>5. ASSUME NEW i \in 1..Len(queue')
        PROVE  queue'[i].lsn <= lsn'
    <3>1. n + i \in 1..Len(queue) /\ queue'[i] = queue[n + i]
      BY <2>1, <2>2, <2>3
    <3> QED
      BY <1>q, <2>2, <3>1
  <2> QED
    BY <1>w, <2>2, <2>4, <2>5, NewsKept DEF News, QueueNews, WalNews, BatchNews, PostNews
<1>4. CASE Rotate
  <2>1. wal' = <<>> /\ UNCHANGED <<lsn, queue, batch, posts, work, known>>
    BY <1>4 DEF Rotate
  <2>2. WalOrdered' /\ \A i \in 1..Len(wal') : wal'[i].lsn <= lsn'
    BY <2>1 DEF WalOrdered
  <2> QED
    BY <2>1, <2>2, NewsKept DEF News, QueueNews, WalNews, BatchNews, PostNews
<1>5. CASE LeaderRestart
  <2>1. /\ queue' = <<>> /\ batch' = NoPost /\ UNCHANGED <<wal, posts, work, known>>
        /\ lsn' = IF wal = <<>> THEN 0 ELSE Last(wal).lsn
    BY <1>5 DEF LeaderRestart
  <2>2. ASSUME NEW i \in 1..Len(wal)
        PROVE  wal[i].lsn <= lsn'
    <3>1. wal # <<>> /\ lsn' = wal[Len(wal)].lsn /\ Len(wal) \in 1..Len(wal)
      BY <1>0, <2>1, <2>2 DEF Last
    <3>2. i < Len(wal) => wal[i].lsn < wal[Len(wal)].lsn
      BY <3>1, <2>2 DEF WalOrdered
    <3>3. i < Len(wal) \/ i = Len(wal)
      BY <1>0, <2>2
    <3> QED
      BY <1>q, <3>1, <3>2, <3>3
  <2>3. /\ \A i \in 1..Len(queue') : queue'[i].lsn <= lsn'
        /\ \A i \in 1..Len(batch'.changes) : batch'.changes[i].lsn <= batch'.lsn
    BY <2>1, NoPostFacts
  <2>4. \A i \in 1..Len(wal') : wal'[i].lsn <= lsn'
    BY <2>1, <2>2
  <2> QED
    BY <1>w, <2>1, <2>3, <2>4, NewsKept DEF News, QueueNews, WalNews, BatchNews, PostNews
<1>6. ASSUME NEW f \in Followers, PostTo(f)
      PROVE  News' /\ WalOrdered'
  <2>1. /\ UNCHANGED <<lsn, wal, queue, work, known>>
        /\ batch' = NoPost \/ batch' = batch
        /\ posts' = posts \/ posts' = [posts EXCEPT ![f] = Append(posts[f], batch)]
    BY <1>6 DEF PostTo
  <2>2. \A i \in 1..Len(batch'.changes) : batch'.changes[i].lsn <= batch'.lsn
    <3>1. CASE batch' = NoPost
      BY <3>1, NoPostFacts
    <3>2. CASE batch' = batch
      BY <3>2 DEF News, BatchNews
    <3> QED
      BY <2>1, <3>1, <3>2
  <2>3. ASSUME NEW g \in Followers, NEW p \in 1..Len(posts'[g]),
               NEW i \in 1..Len(posts'[g][p].changes)
        PROVE  posts'[g][p].changes[i].lsn <= posts'[g][p].lsn
    <3>1. posts'[g][p] = batch \/ (p \in 1..Len(posts[g]) /\ posts'[g][p] = posts[g][p])
      <4>1. CASE posts' = posts \/ g # f
        <5>1. posts'[g] = posts[g]
          BY <1>0, <2>1, <4>1
        <5> QED
          BY <2>3, <5>1
      <4>2. CASE posts' = [posts EXCEPT ![f] = Append(posts[f], batch)] /\ g = f
        <5>1. posts'[g] = Append(posts[g], batch)
          BY <1>0, <4>2
        <5>2. posts[g] \in Seq(Post)
          BY <1>0
        <5> QED
          BY <1>0, <2>3, <5>1, <5>2
      <4> QED
        BY <2>1, <4>1, <4>2
    <3>2. CASE posts'[g][p] = batch
      BY <2>3, <3>2 DEF News, BatchNews
    <3>3. CASE p \in 1..Len(posts[g]) /\ posts'[g][p] = posts[g][p]
      BY <2>3, <3>3 DEF News, PostNews
    <3> QED
      BY <3>1, <3>2, <3>3
  <2> QED
    BY <1>w, <2>1, <2>2, <2>3, NewsKept DEF News, QueueNews, WalNews, BatchNews, PostNews
<1>7. ASSUME NEW f \in Followers, NEW i \in DOMAIN posts[f], Serve(f, i)
      PROVE  News' /\ WalOrdered'
  <2> DEFINE p == posts[f][i]
  <2>1. posts[f] \in Seq(Post) /\ i \in 1..Len(posts[f])
    BY <1>0, <1>7
  <2>2. p \in Post /\ p.changes \in Seq(Change) /\ p.lsn \in Nat
    BY <2>1, PostFields
  <2>3. \A j \in 1..Len(p.changes) : p.changes[j].lsn <= p.lsn
    BY <2>1 DEF News, PostNews
  <2>4. /\ Begin(f, "push", p.changes, DOMAIN p.changes)
        /\ posts' = [posts EXCEPT ![f] = RemoveAt(posts[f], i)]
        /\ known' = [known EXCEPT ![f] = Larger(known[f], p.lsn)]
        /\ UNCHANGED <<lsn, wal, queue, batch>>
    BY <1>7 DEF Serve
  <2>5. DOMAIN p.changes = 1..Len(p.changes) /\ "push" \in Threads
    BY <2>2 DEF Threads
  <2> HIDE DEF p
  <2>6. PICK w : /\ Sorts(w, p.changes, 1..Len(p.changes))
                 /\ work' = [work EXCEPT ![f]["push"] = w]
    BY <2>2, <2>4, <2>5, BeginFacts
  <2>7. WorkNews'
    <3>1. /\ Larger(known[f], p.lsn) \in Nat /\ known[f] <= Larger(known[f], p.lsn)
          /\ p.lsn <= Larger(known[f], p.lsn)
      BY <1>0, <2>2, LargerFacts
    <3>2. w \in Seq(Change)
      BY <2>6 DEF Sorts
    <3>3. ASSUME NEW j \in 1..Len(w)
          PROVE  w[j].lsn <= Larger(known[f], p.lsn)
      <4>1. PICK m \in 1..Len(p.changes) : w[j] = p.changes[m]
        BY <2>6, <3>3 DEF Sorts
      <4>2. w[j] \in Change
        BY <3>2, <3>3
      <4>3. w[j].lsn \in Nat /\ w[j].lsn <= p.lsn
        BY <2>3, <4>1, <4>2, ChangeFields
      <4> QED
        BY <2>2, <3>1, <4>3
    <3> QED
      BY <2>4, <2>5, <2>6, <3>1, <3>2, <3>3, ThreadNews
  <2>8. ASSUME NEW g \in Followers, NEW q \in 1..Len(posts'[g]),
               NEW j \in 1..Len(posts'[g][q].changes)
        PROVE  posts'[g][q].changes[j].lsn <= posts'[g][q].lsn
    <3>1. \E m \in 1..Len(posts[g]) : posts'[g][q] = posts[g][m]
      <4>1. CASE g # f
        <5>1. posts'[g] = posts[g]
          BY <1>0, <2>4, <4>1
        <5> QED
          BY <2>8, <5>1
      <4>2. CASE g = f
        <5>1. posts'[g] = RemoveAt(posts[f], i)
          BY <1>0, <2>4, <4>2
        <5>2. /\ Len(RemoveAt(posts[f], i)) = Len(posts[f]) - 1
              /\ \A m \in 1..Len(posts[f])-1 : RemoveAt(posts[f], i)[m] =
                                     IF m < i THEN posts[f][m] ELSE posts[f][m + 1]
          BY <2>1, RemoveAtFacts
        <5>3. q \in 1..Len(posts[f])-1 /\ q \in 1..Len(posts[f]) /\ q + 1 \in 1..Len(posts[f])
          BY <2>1, <2>8, <5>1, <5>2
        <5> QED
          BY <4>2, <5>1, <5>2, <5>3
      <4> QED
        BY <4>1, <4>2
    <3> QED
      BY <2>8, <3>1 DEF News, PostNews
  <2> QED
    BY <1>w, <2>4, <2>7, <2>8, NewsKept DEF News, QueueNews, WalNews, BatchNews, PostNews
<1>8. ASSUME NEW f \in Followers, Pull(f)
      PROVE  News' /\ WalOrdered'
  <2> DEFINE news == {i \in DOMAIN wal : wal[i].lsn > applied[f]}
  <2>0. UNCHANGED <<lsn, wal, queue, batch, posts>>
    BY <1>8 DEF Pull
  <2>1. news \in SUBSET (1..Len(wal)) /\ "pull" \in Threads
    BY <1>0 DEF Threads
  <2>2. CASE UNCHANGED <<work, known>>
    BY <1>w, <2>0, <2>2, NewsKept DEF News, QueueNews, WalNews, BatchNews, PostNews
  <2>3. CASE /\ known' = [known EXCEPT ![f] = Larger(@, lsn)]
             /\ Begin(f, "pull", wal, news)
    <3> HIDE DEF news
    <3>b. Begin(f, "pull", wal, news)
      BY <2>3
    <3>a. wal \in Seq(Change) /\ "pull" \in Threads /\ news \in SUBSET (1..Len(wal))
      BY <1>0, <2>1
    <3>1. PICK w : /\ Sorts(w, wal, news)
                   /\ work' = [work EXCEPT ![f]["pull"] = w]
                   /\ step' = [step EXCEPT ![f]["pull"] = IF news = {} THEN "idle" ELSE "check"]
                   /\ UNCHANGED <<image, left>>
      BY <3>a, <3>b, BeginFacts
    <3>2. /\ Larger(known[f], lsn) \in Nat /\ known[f] <= Larger(known[f], lsn)
          /\ lsn <= Larger(known[f], lsn)
      BY <1>0, LargerFacts
    <3>3. w \in Seq(Change)
      BY <3>1 DEF Sorts
    <3>4. ASSUME NEW j \in 1..Len(w)
          PROVE  w[j].lsn <= Larger(known[f], lsn)
      <4>1. PICK m \in 1..Len(wal) : w[j] = wal[m]
        BY <2>1, <3>1, <3>4 DEF Sorts
      <4> QED
        BY <1>0, <1>q, <3>2, <4>1
    <3>5. WorkNews'
      BY <2>1, <2>3, <3>1, <3>2, <3>3, <3>4, ThreadNews
    <3> QED
      BY <1>w, <2>0, <3>5, NewsKept DEF News, QueueNews, WalNews, BatchNews, PostNews
  <2> QED
    BY <1>8, <2>2, <2>3 DEF Pull
<1>9. ASSUME NEW f \in Followers, FollowerRestart(f)
      PROVE  News' /\ WalOrdered'
  <2>1. UNCHANGED <<lsn, wal, queue, batch>>
    BY <1>9 DEF FollowerRestart
  <2>2. ASSUME NEW g \in Followers, NEW p \in 1..Len(posts'[g]),
               NEW i \in 1..Len(posts'[g][p].changes)
        PROVE  posts'[g][p].changes[i].lsn <= posts'[g][p].lsn
    <3>1. g # f
      BY <1>0, <1>9, <2>2 DEF FollowerRestart
    <3>2. posts'[g] = posts[g]
      BY <1>0, <1>9, <3>1 DEF FollowerRestart
    <3> QED
      BY <2>2, <3>2 DEF News, PostNews
  <2>3. ASSUME NEW g \in Followers, NEW u \in Threads, NEW i \in 1..Len(work'[g][u])
        PROVE  work'[g][u][i].lsn <= known'[g]
    <3>1. g # f
      BY <1>0, <1>9, <2>3 DEF FollowerRestart
    <3>2. work'[g] = work[g] /\ known'[g] = known[g]
      BY <1>0, <1>9, <3>1 DEF FollowerRestart
    <3> QED
      BY <2>3, <3>2 DEF News, WorkNews
  <2> QED
    BY <1>w, <2>1, <2>2, <2>3, NewsKept DEF News, PostNews, WorkNews
<1>10. ASSUME NEW f \in Followers, NEW t \in Threads,
              step[f][t] \in {"check", "mark"},
              work' = [work EXCEPT ![f][t] = Tail(work[f][t])],
              UNCHANGED <<lsn, wal, queue, batch, posts, known>>
      PROVE  News' /\ WalOrdered'
  <2> DEFINE w == work[f][t]
  <2>1. /\ Tail(w) \in Seq(Change) /\ Len(Tail(w)) = Len(w) - 1
        /\ \A j \in 1..Len(w)-1 : Tail(w)[j] = w[j + 1]
        /\ Len(w) \in Nat
    BY <1>10, AtWorkFacts
  <2>2. \A i \in 1..Len(w) : w[i].lsn <= known[f]
    BY DEF News, WorkNews
  <2> HIDE DEF w
  <2>3. ASSUME NEW j \in 1..Len(Tail(w))
        PROVE  Tail(w)[j].lsn <= known[f]
    <3>1. j \in 1..Len(w)-1 /\ j + 1 \in 1..Len(w)
      BY <2>1
    <3> QED
      BY <2>1, <2>2, <3>1
  <2>4. /\ known' = [known EXCEPT ![f] = known[f]]
        /\ work' = [work EXCEPT ![f][t] = Tail(w)]
        /\ known[f] \in Nat /\ known[f] <= known[f]
    BY <1>0, <1>10 DEF w
  <2>5. WorkNews'
    BY <2>1, <2>3, <2>4, ThreadNews
  <2> QED
    BY <1>w, <1>10, <2>5, NewsKept DEF News, QueueNews, WalNews, BatchNews, PostNews
<1>11. ASSUME NEW f \in Followers, NEW t \in Threads, SyncMark(f, t)
       PROVE  News' /\ WalOrdered'
  <2>1. /\ known' = [known EXCEPT ![f] = Larger(@, image[f][t].lsn)]
        /\ UNCHANGED <<lsn, wal, queue, batch, posts, work>>
        /\ step[f][t] = "load"
    BY <1>11 DEF SyncMark
  <2>2. image[f][t].lsn \in Nat
    <3>1. image[f][t] \in Image
      BY <2>1 DEF WorkFits, Fits, TypeOK
    <3> QED
      BY <3>1 DEF Image
  <2>3. /\ Larger(known[f], image[f][t].lsn) \in Nat
        /\ known[f] <= Larger(known[f], image[f][t].lsn)
    BY <1>0, <2>2, LargerFacts
  <2>4. /\ work' = [work EXCEPT ![f][t] = work[f][t]] /\ work[f][t] \in Seq(Change)
    BY <1>0, <2>1, Rewritten
  <2>5. ASSUME NEW j \in 1..Len(work[f][t])
        PROVE  work[f][t][j].lsn <= Larger(known[f], image[f][t].lsn)
    <3>1. work[f][t][j] \in Change
      BY <2>4
    <3>2. work[f][t][j].lsn \in Nat /\ work[f][t][j].lsn <= known[f]
      BY <3>1, ChangeFields DEF News, WorkNews
    <3> QED
      BY <1>0, <2>3, <3>2
  <2>6. WorkNews'
    BY <2>1, <2>3, <2>4, <2>5, ThreadNews
  <2> QED
    BY <1>w, <2>1, <2>6, NewsKept DEF News, QueueNews, WalNews, BatchNews, PostNews
<1>12. CASE UNCHANGED <<lsn, wal, queue, batch, posts, work, known>>
  BY <1>w, <1>12, NewsKept DEF News, QueueNews, WalNews, BatchNews, PostNews
<1>13. ASSUME NEW f \in Followers, NEW t \in Threads, Check(f, t) \/ Mark(f, t)
       PROVE  News' /\ WalOrdered'
  BY <1>10, <1>12, <1>13 DEF Check, Mark
<1>14. CASE \/ \E f \in Followers : Ages(f) \/ Repair(f)
            \/ \E f \in Followers, t \in Threads :
                 \/ Do(f, t) \/ SyncDump(f, t) \/ SyncFails(f, t)
                 \/ \E k \in Keys : SyncLoad(f, t, k)
  BY <1>12, <1>14 DEF Ages, Repair, Do, SyncDump, SyncFails, SyncLoad
<1> QED
  BY <1>1, <1>2, <1>3, <1>4, <1>5, <1>6, <1>7, <1>8, <1>9, <1>11, <1>13, <1>14
  DEF Next, Continues
LEMMA LagStep ==
  ASSUME TypeOK, WorkFits, News, LagNotUnderstated, [Next]_vars
  PROVE  LagNotUnderstated'
<1> USE DEF leader, sender, contents, threads, env, past, history
<1>0. /\ lsn \in Nat /\ posts \in [Followers -> Seq(Post)]
      /\ applied \in [Followers -> Nat] /\ known \in [Followers -> Nat]
  BY DEF TypeOK
<1>1. \A f \in Followers : applied[f] <= known[f]
  BY DEF LagNotUnderstated
<1>2. CASE UNCHANGED <<applied, known>>
  BY <1>2 DEF LagNotUnderstated
<1>3. ASSUME NEW f \in Followers, NEW m \in Nat, NEW n \in Nat, m <= n,
             applied' = [applied EXCEPT ![f] = m], known' = [known EXCEPT ![f] = n]
      PROVE  LagNotUnderstated'
  <2>1. ASSUME NEW g \in Followers PROVE applied'[g] <= known'[g]
    BY <1>0, <1>1, <1>3
  <2> QED
    BY <2>1 DEF LagNotUnderstated
<1>4. ASSUME NEW f \in Followers, NEW n \in Nat,
             known' = [known EXCEPT ![f] = Larger(known[f], n)], UNCHANGED applied
      PROVE  LagNotUnderstated'
  <2>1. Larger(known[f], n) \in Nat /\ known[f] <= Larger(known[f], n)
    BY <1>0, LargerFacts
  <2>2. applied' = [applied EXCEPT ![f] = applied[f]] /\ applied[f] \in Nat
    BY <1>0, <1>4
  <2>3. applied[f] <= Larger(known[f], n)
    BY <1>0, <1>1, <2>1
  <2> QED
    BY <1>3, <1>4, <2>1, <2>2, <2>3
<1>5. ASSUME NEW f \in Followers, NEW i \in DOMAIN posts[f], Serve(f, i)
      PROVE  LagNotUnderstated'
  <2>1. posts[f][i].lsn \in Nat
    BY <1>0, <1>5, PostFields
  <2> QED
    BY <1>4, <1>5, <2>1 DEF Serve
<1>6. ASSUME NEW f \in Followers, Pull(f)
      PROVE  LagNotUnderstated'
  <2>1. UNCHANGED applied /\ (known' = known \/ known' = [known EXCEPT ![f] = Larger(known[f], lsn)])
    BY <1>6 DEF Pull
  <2> QED
    BY <1>0, <1>2, <1>4, <2>1
<1>7. ASSUME NEW f \in Followers, FollowerRestart(f)
      PROVE  LagNotUnderstated'
  <2>1. applied' = [applied EXCEPT ![f] = 0] /\ known' = [known EXCEPT ![f] = 0]
    BY <1>7 DEF FollowerRestart
  <2>2. 0 \in Nat /\ 0 <= 0
    OBVIOUS
  <2> QED
    BY <1>3, <2>1, <2>2
<1>8. ASSUME NEW f \in Followers, NEW t \in Threads, Mark(f, t)
      PROVE  LagNotUnderstated'
  <2>1. /\ step[f][t] = "mark" /\ UNCHANGED known
        /\ applied' = [applied EXCEPT ![f] = Next1(f, t).lsn]
    BY <1>8 DEF Mark
  <2>2. /\ Next1(f, t) = work[f][t][1] /\ Next1(f, t) \in Change
        /\ Len(work[f][t]) \in Nat \ {0}
    BY <2>1, AtWorkFacts
  <2>3. Next1(f, t).lsn \in Nat /\ Next1(f, t).lsn <= known[f]
    BY <2>2, ChangeFields DEF News, WorkNews
  <2>4. known' = [known EXCEPT ![f] = known[f]] /\ known[f] \in Nat
    BY <1>0, <2>1
  <2> QED
    BY <1>3, <2>1, <2>3, <2>4
<1>9. ASSUME NEW f \in Followers, NEW t \in Threads, SyncMark(f, t)
      PROVE  LagNotUnderstated'
  <2>1. /\ step[f][t] = "load"
        /\ applied' = [applied EXCEPT ![f] = image[f][t].lsn]
        /\ known' = [known EXCEPT ![f] = Larger(known[f], image[f][t].lsn)]
    BY <1>9 DEF SyncMark
  <2>2. image[f][t].lsn \in Nat
    <3>1. image[f][t] \in Image
      BY <2>1 DEF WorkFits, Fits, TypeOK
    <3> QED
      BY <3>1 DEF Image
  <2>3. /\ Larger(known[f], image[f][t].lsn) \in Nat
        /\ image[f][t].lsn <= Larger(known[f], image[f][t].lsn)
    BY <1>0, <2>2, LargerFacts
  <2> QED
    BY <1>3, <2>1, <2>2, <2>3
<1>10. CASE \/ UNCHANGED vars
            \/ \E r \in Request : Write(r)
            \/ Dispatch \/ Rotate \/ LeaderRestart
            \/ \E f \in Followers : PostTo(f) \/ Ages(f) \/ Repair(f)
            \/ \E f \in Followers, t \in Threads :
                 \/ Check(f, t) \/ Do(f, t) \/ SyncDump(f, t) \/ SyncFails(f, t)
                 \/ \E k \in Keys : SyncLoad(f, t, k)
  <2>1. UNCHANGED vars => UNCHANGED <<applied, known>>
    BY DEF vars
  <2>2. \A r \in Request : Write(r) => UNCHANGED <<applied, known>>
    BY DEF Write
  <2>3. Dispatch \/ Rotate \/ LeaderRestart => UNCHANGED <<applied, known>>
    BY DEF Dispatch, Rotate, LeaderRestart
  <2>4. \A f \in Followers : PostTo(f) \/ Ages(f) \/ Repair(f) => UNCHANGED <<applied, known>>
    BY DEF PostTo, Ages, Repair
  <2>5. \A f \in Followers, t \in Threads :
          Check(f, t) \/ Do(f, t) \/ SyncDump(f, t) \/ SyncFails(f, t)
            => UNCHANGED <<applied, known>>
    BY DEF Check, Do, SyncDump, SyncFails
  <2>6. \A f \in Followers, t \in Threads, k \in Keys :
          SyncLoad(f, t, k) => UNCHANGED <<applied, known>>
    BY DEF SyncLoad
  <2> QED
    BY <1>2, <1>10, <2>1, <2>2, <2>3, <2>4, <2>5, <2>6
<1> QED
  BY <1>5, <1>6, <1>7, <1>8, <1>9, <1>10 DEF Next, Continues
-----------------------------------------------------------------------------
(* The chronicle. *)

\* A change stamps what it writes with its time.
LEMMA AfterTimes ==
  ASSUME NEW d \in Data, NEW c \in Change, NEW t \in Nat, NEW k \in Keys,
         c.ts = t, After(d, c, t)[k] # None
  PROVE  \/ k \notin c.keys /\ After(d, c, t)[k] = d[k]
         \/ k \in c.keys /\ After(d, c, t)[k].ts = t
<1> DEFINE a == After(d, c, t)
<1>1. /\ k \notin c.keys => a[k] = d[k]
      /\ k \in c.keys /\ c.op \in {"set", "mset"} => (c.ts # None => a[k].ts = c.ts)
      /\ k \in c.keys /\ c.op = "incr" => a[k].ts = t
      /\ k \in c.keys /\ c.op = "delete" => a[k] = None
  BY AfterFacts
<1>2. t # None
  BY ReplicationAssumption
<1>3. c.op \in {"set", "mset", "delete", "incr"} /\ a[k] # None
  BY ChangeFields
<1> HIDE DEF a
<1>4. k \in c.keys => a[k].ts = t
  BY <1>1, <1>2, <1>3
<1> QED
  BY <1>1, <1>4 DEF a

\* A change does to the values what it does to the items.
LEMMA EffectFacts ==
  ASSUME NEW d \in Data, NEW c \in Change, NEW t \in Nat, NEW k \in Keys
  PROVE  Contents(After(d, c, t))[k] = Effect(Contents(d)[k], c, k)
<1> DEFINE a == After(d, c, t)
<1>1. /\ a \in Data
      /\ k \notin c.keys => a[k] = d[k]
      /\ k \in c.keys /\ c.op \in {"set", "mset"} => a[k].val = c.val
      /\ k \in c.keys /\ c.op = "incr" =>
           a[k].val = (IF d[k] = None THEN 0 ELSE d[k].val) + c.val
      /\ k \in c.keys /\ c.op = "delete" => a[k] = None
      /\ k \in c.keys /\ c.op # "delete" => a[k] \in Item
  BY AfterFacts
<1> HIDE DEF a
<1>2. /\ a[k] = None <=> Contents(a)[k] = None
      /\ a[k] # None => Contents(a)[k] = a[k].val
      /\ d[k] = None <=> Contents(d)[k] = None
      /\ d[k] # None => Contents(d)[k] = d[k].val
  BY <1>1, ContentsFacts
<1>3. c.op \in {"set", "mset", "delete", "incr"}
  BY ChangeFields
<1>4. CASE k \notin c.keys
  <2>1. Contents(a)[k] = Contents(d)[k]
    BY <1>1, <1>2, <1>4
  <2> QED
    BY <1>4, <2>1 DEF Effect, a
<1>5. CASE k \in c.keys /\ c.op = "delete"
  BY <1>1, <1>2, <1>5 DEF Effect, a
<1>6. CASE k \in c.keys /\ c.op \in {"set", "mset"}
  <2>1. a[k] # None
    BY <1>1, <1>6, ItemFields
  <2>2. Contents(a)[k] = c.val
    BY <1>1, <1>2, <1>6, <2>1
  <2> QED
    BY <1>6, <2>2 DEF Effect, a
<1>7. CASE k \in c.keys /\ c.op = "incr"
  <2>1. a[k] # None
    BY <1>1, <1>7, ItemFields
  <2>2. Contents(a)[k] = (IF d[k] = None THEN 0 ELSE d[k].val) + c.val
    BY <1>1, <1>2, <1>7, <2>1
  <2>3. Contents(a)[k] = (IF Contents(d)[k] = None THEN 0 ELSE Contents(d)[k]) + c.val
    BY <1>2, <2>2
  <2> QED
    BY <1>7, <2>3 DEF Effect, a
<1> QED
  BY <1>3, <1>4, <1>5, <1>6, <1>7

\* What has been is not changed, and what is broken is not mended.
LEMMA PastKept ==
  ASSUME TypeOK, WalNews, Chronicle, [Next]_vars
  PROVE  /\ clock \in Nat /\ lsn \in Nat /\ clock' \in Nat /\ clock <= clock'
         /\ \A n \in 1..clock : log'[n] = log[n]
         /\ \A n \in 1..clock+1 : made'[n] = made[n]
         /\ lsn' <= clock'
         /\ Unbroken' => Unbroken
         /\ \A c : Logged(c) => c.lsn \in 1..clock' /\ c = log'[c.lsn]
<1> USE DEF leader, sender, contents, threads, env, past, history
<1>0. /\ clock \in Nat /\ lsn \in Nat /\ lsn <= clock
      /\ log \in Seq(Change) /\ made \in Seq([Keys -> Nat \cup {None}])
      /\ wal \in Seq(Change)
      /\ Len(log) = clock /\ Len(made) = clock + 1
  BY DEF TypeOK, Chronicle
<1>1. /\ clock' \in Nat /\ clock <= clock' /\ lsn' <= clock' /\ (Unbroken' => Unbroken)
      /\ \A n \in 1..clock : log'[n] = log[n]
      /\ \A n \in 1..clock+1 : made'[n] = made[n]
  <2>1. CASE UNCHANGED <<clock, lsn, log, made>>
    BY <1>0, <2>1 DEF Unbroken
  <2>2. ASSUME NEW r \in Request, Write(r)
        PROVE  /\ clock' \in Nat /\ clock <= clock' /\ lsn' <= clock' /\ (Unbroken' => Unbroken)
               /\ \A n \in 1..clock : log'[n] = log[n]
               /\ \A n \in 1..clock+1 : made'[n] = made[n]
    <3> DEFINE m == Contents(stored')
    <3>1. /\ clock' = clock + 1 /\ lsn' = lsn + 1
          /\ log' = Append(log, Made1(r)) /\ made' = Append(made, m)
      BY <2>2 DEF Write, Made1
    <3>2. Made1(r) \in Change
      BY WriteChange
    <3>3. m \in [Keys -> Nat \cup {None}]
      <4>1. stored' = After(stored, Made1(r), clock + 1)
        BY <2>2 DEF Write, Made1
      <4>2. stored' \in Data
        BY <1>0, <3>2, <4>1, AfterFacts DEF TypeOK
      <4> QED
        BY <4>2, ContentsFacts
    <3> HIDE DEF m
    <3>4. \A n \in 1..clock : log'[n] = log[n]
      BY <1>0, <3>1, <3>2
    <3>5. \A n \in 1..clock+1 : made'[n] = made[n]
      BY <1>0, <3>1, <3>3
    <3> QED
      BY <1>0, <3>1, <3>4, <3>5 DEF Unbroken
  <2>3. CASE LeaderRestart
    <3>1. /\ lsn' = (IF wal = <<>> THEN 0 ELSE Last(wal).lsn) /\ UNCHANGED <<clock, log, made>>
      BY <2>3 DEF LeaderRestart
    <3>2. lsn' \in Nat /\ lsn' <= lsn
      <4>1. CASE wal = <<>>
        BY <1>0, <3>1, <4>1
      <4>2. CASE wal # <<>>
        <5>1. Len(wal) \in 1..Len(wal) /\ wal[Len(wal)] \in Change
              /\ lsn' = wal[Len(wal)].lsn
          BY <1>0, <3>1, <4>2 DEF Last
        <5> QED
          BY <5>1, ChangeFields DEF WalNews
      <4> QED
        BY <4>1, <4>2
    <3> QED
      BY <1>0, <3>1, <3>2 DEF Unbroken
  <2>4. UNCHANGED <<clock, lsn, log, made>> \/ LeaderRestart \/ \E r \in Request : Write(r)
    <3>1. UNCHANGED vars => UNCHANGED <<clock, lsn, log, made>>
      BY DEF vars
    <3>2. Dispatch \/ Rotate => UNCHANGED <<clock, lsn, log, made>>
      BY DEF Dispatch, Rotate
    <3>3. \A f \in Followers : PostTo(f) \/ Pull(f) \/ Ages(f) \/ Repair(f) \/ FollowerRestart(f)
                                => UNCHANGED <<clock, lsn, log, made>>
      BY DEF PostTo, Pull, Ages, Repair, FollowerRestart
    <3>4. \A f \in Followers : \A i \in DOMAIN posts[f] :
            Serve(f, i) => UNCHANGED <<clock, lsn, log, made>>
      BY DEF Serve
    <3>5. \A f \in Followers, t \in Threads :
            Check(f, t) \/ Do(f, t) \/ Mark(f, t) \/ SyncDump(f, t) \/ SyncMark(f, t)
              \/ SyncFails(f, t) => UNCHANGED <<clock, lsn, log, made>>
      BY DEF Check, Do, Mark, SyncDump, SyncMark, SyncFails
    <3>6. \A f \in Followers, t \in Threads, k \in Keys :
            SyncLoad(f, t, k) => UNCHANGED <<clock, lsn, log, made>>
      BY DEF SyncLoad
    <3> QED
      BY <3>1, <3>2, <3>3, <3>4, <3>5, <3>6 DEF Next, Continues
  <2> QED
    BY <2>1, <2>2, <2>3, <2>4
<1>2. \A c : Logged(c) => c.lsn \in 1..clock' /\ c = log'[c.lsn]
  BY <1>0, <1>1 DEF Logged
<1> QED
  BY <1>0, <1>1, <1>2

LEMMA ChronicleStep ==
  ASSUME TypeOK, WalNews, Chronicle, [Next]_vars
  PROVE  Chronicle'
<1> USE DEF leader, sender, contents, threads, env, past, history
<1>0. /\ clock \in Nat /\ lsn \in Nat /\ lsn <= clock
      /\ log \in Seq(Change) /\ made \in Seq([Keys -> Nat \cup {None}])
      /\ wal \in Seq(Change) /\ stored \in Data
      /\ Len(log) = clock /\ Len(made) = clock + 1
      /\ made[1] = Contents(NoItems)
      /\ \A n \in 1..clock : log[n].ts = n
      /\ \A k \in Keys : stored[k] # None => stored[k].ts <= clock
  BY DEF TypeOK, Chronicle
<1>1. CASE UNCHANGED <<stored, lsn, wal, setting, clock, log, made>>
  BY <1>1 DEF Chronicle, Unbroken
<1>2. ASSUME NEW r \in Request, Write(r)
      PROVE  Chronicle'
  <2> DEFINE c == Made1(r)
             m == Contents(stored')
  <2>1. /\ c \in Change /\ c.ts = clock + 1 /\ c.lsn = lsn + 1
    BY WriteChange DEF Made1
  <2>2. /\ clock' = clock + 1 /\ lsn' = lsn + 1 /\ setting' = setting
        /\ stored' = After(stored, c, clock + 1)
        /\ log' = Append(log, c) /\ made' = Append(made, m)
        /\ ~setting.log => wal' = wal
    BY <1>2 DEF Write, Made1
  <2>3. clock + 1 \in Nat
    BY <1>0
  <2> HIDE DEF c
  <2>4. stored' \in Data
    BY <1>0, <2>1, <2>2, <2>3, AfterFacts
  <2>5. m \in [Keys -> Nat \cup {None}]
    BY <2>4, ContentsFacts
  <2>6. ASSUME NEW k \in Keys
        PROVE  m[k] = Effect(Contents(stored)[k], c, k)
    BY <1>0, <2>1, <2>2, <2>3, EffectFacts
  <2> HIDE DEF m
  <2>7. /\ Len(log') = clock' /\ log'[clock + 1] = c
        /\ \A n \in 1..clock : log'[n] = log[n]
    BY <1>0, <2>1, <2>2
  <2>8. /\ Len(made') = clock' + 1 /\ made'[clock + 2] = m
        /\ \A n \in 1..clock+1 : made'[n] = made[n]
    BY <1>0, <2>2, <2>5
  <2>9. made'[1] = Contents(NoItems)
    BY <1>0, <2>8
  <2>10. \A n \in 1..clock' : n \in 1..clock \/ n = clock + 1
    BY <1>0, <2>2
  <2>11. \A n \in 1..clock' : log'[n].ts = n
    BY <1>0, <2>1, <2>7, <2>10
  <2>12. ASSUME NEW k \in Keys, stored'[k] # None
         PROVE  stored'[k].ts <= clock'
    <3>1. PICK t \in Nat : t = clock + 1
      BY <2>3
    <3>2. \/ k \notin c.keys /\ stored'[k] = stored[k]
          \/ stored'[k].ts = t
      BY <1>0, <2>1, <2>2, <2>12, <3>1, AfterTimes
    <3>3. stored[k] # None => stored[k].ts \in Nat /\ stored[k].ts <= clock
      BY <1>0, ItemFields DEF Data
    <3> QED
      BY <1>0, <2>2, <2>12, <3>1, <3>2, <3>3
  <2>13. ASSUME Unbroken'
         PROVE  /\ \A n \in 1..clock' : log'[n].lsn = n
                /\ \A n \in 1..clock' : \A k \in Keys :
                     made'[n + 1][k] = Effect(made'[n][k], log'[n], k)
                /\ made'[clock' + 1] = Contents(stored')
    <3>1. Unbroken /\ lsn = clock
      BY <1>0, <2>2, <2>13 DEF Unbroken
    <3>2. /\ \A n \in 1..clock : log[n].lsn = n
          /\ \A n \in 1..clock : \A k \in Keys : made[n + 1][k] = Effect(made[n][k], log[n], k)
          /\ made[clock + 1] = Contents(stored)
      BY <3>1 DEF Chronicle
    <3>3. \A n \in 1..clock' : log'[n].lsn = n
      BY <2>1, <2>7, <2>10, <3>1, <3>2
    <3>4. ASSUME NEW n \in 1..clock', NEW k \in Keys
          PROVE  made'[n + 1][k] = Effect(made'[n][k], log'[n], k)
      <4>1. CASE n \in 1..clock
        <5>1. n \in 1..clock+1 /\ n + 1 \in 1..clock+1
          BY <1>0, <4>1
        <5>2. made'[n + 1] = made[n + 1] /\ made'[n] = made[n] /\ log'[n] = log[n]
          BY <2>7, <2>8, <4>1, <5>1
        <5> QED
          BY <3>2, <4>1, <5>2
      <4>2. CASE n = clock + 1
        <5>1. made'[n + 1] = m /\ log'[n] = c
          BY <1>0, <2>7, <2>8, <4>2
        <5>2. made'[n] = Contents(stored)
          BY <1>0, <2>8, <3>2, <4>2
        <5> QED
          BY <2>6, <5>1, <5>2
      <4> QED
        BY <2>10, <4>1, <4>2
    <3>5. made'[clock' + 1] = Contents(stored')
      BY <1>0, <2>2, <2>8 DEF m
    <3> QED
      BY <3>3, <3>4, <3>5
  <2>14. lsn' <= clock' /\ (~setting'.log => wal' = <<>>)
    BY <1>0, <2>2 DEF Chronicle
  <2> QED
    BY <2>7, <2>8, <2>9, <2>11, <2>12, <2>13, <2>14 DEF Chronicle
<1>3. CASE LeaderRestart
  <2> DEFINE rep == UNION {wal[i].keys : i \in DOMAIN wal}
  <2>1. /\ stored' = IF ~setting.log THEN NoItems
                     ELSE [k \in Keys |->
                             IF stored[k] # None /\ k \in rep
                             THEN [stored[k] EXCEPT !.ts = clock] ELSE stored[k]]
        /\ lsn' = IF wal = <<>> THEN 0 ELSE Last(wal).lsn
        /\ UNCHANGED <<wal, setting, clock, log, made>>
    BY <1>3 DEF LeaderRestart
  <2> HIDE DEF rep
  <2>2. lsn' <= clock' /\ (Unbroken' => Unbroken)
    BY PastKept
  <2>3. \A k \in Keys : stored[k] \in Item \cup {None}
    BY <1>0 DEF Data
  <2>4. ASSUME NEW k \in Keys, setting.log
        PROVE  /\ stored[k] = None <=> stored'[k] = None
               /\ stored[k] # None => stored'[k].val = stored[k].val
               /\ stored'[k] # None => stored'[k].ts <= clock
    <3> DEFINE y == [stored[k] EXCEPT !.ts = clock]
    <3>1. stored[k] # None => y \in Item /\ y.ts = clock /\ y.val = stored[k].val
      BY <1>0, <2>3 DEF Item
    <3>2. stored'[k] = IF stored[k] # None /\ k \in rep THEN y ELSE stored[k]
      BY <2>1, <2>4
    <3> HIDE DEF y
    <3>3. CASE stored[k] # None /\ k \in rep
      BY <1>0, <3>1, <3>2, <3>3, ItemFields
    <3>4. CASE ~(stored[k] # None /\ k \in rep)
      BY <1>0, <3>2, <3>4
    <3> QED
      BY <3>3, <3>4
  <2>5. ASSUME NEW k \in Keys, stored'[k] # None
        PROVE  stored'[k].ts <= clock'
    <3>1. CASE setting.log
      BY <2>1, <2>4, <2>5, <3>1
    <3>2. CASE ~setting.log
      BY <2>1, <2>5, <3>2, NoItemsFacts
    <3> QED
      BY <3>1, <3>2
  <2>6. ASSUME Unbroken'
        PROVE  made'[clock' + 1] = Contents(stored')
    <3>1. Unbroken /\ made[clock + 1] = Contents(stored)
      BY <2>2, <2>6 DEF Chronicle
    <3>2. CASE setting.log
      <4>1. \A k \in Keys : (IF stored'[k] = None THEN None ELSE stored'[k].val)
                              = (IF stored[k] = None THEN None ELSE stored[k].val)
        BY <2>4, <3>2
      <4>2. Contents(stored') = Contents(stored)
        BY <4>1 DEF Contents
      <4> QED
        BY <2>1, <3>1, <4>2
    <3>3. CASE ~setting.log
      <4>1. wal = <<>> /\ lsn' = 0 /\ clock = 0
        BY <2>1, <2>6, <3>3 DEF Chronicle, Unbroken
      <4>2. made[clock + 1] = Contents(NoItems)
        BY <1>0, <4>1
      <4> QED
        BY <2>1, <3>3, <4>2
    <3> QED
      BY <3>2, <3>3
  <2>7. ASSUME Unbroken'
        PROVE  /\ \A n \in 1..clock' : log'[n].lsn = n
               /\ \A n \in 1..clock' : \A k \in Keys :
                    made'[n + 1][k] = Effect(made'[n][k], log'[n], k)
    BY <2>1, <2>2, <2>7 DEF Chronicle
  <2>8. /\ Len(log') = clock' /\ Len(made') = clock' + 1 /\ made'[1] = Contents(NoItems)
        /\ ~setting'.log => wal' = <<>>
        /\ \A n \in 1..clock' : log'[n].ts = n
    BY <1>0, <2>1 DEF Chronicle
  <2> QED
    BY <2>2, <2>5, <2>6, <2>7, <2>8 DEF Chronicle
<1>4. CASE Rotate
  <2>1. wal' = <<>> /\ UNCHANGED <<stored, lsn, setting, clock, log, made>>
    BY <1>4 DEF Rotate
  <2> QED
    BY <2>1 DEF Chronicle, Unbroken
<1>5. \/ UNCHANGED <<stored, lsn, wal, setting, clock, log, made>>
      \/ LeaderRestart \/ Rotate \/ \E r \in Request : Write(r)
  <2>1. UNCHANGED vars => UNCHANGED <<stored, lsn, wal, setting, clock, log, made>>
    BY DEF vars
  <2>2. Dispatch => UNCHANGED <<stored, lsn, wal, setting, clock, log, made>>
    BY DEF Dispatch
  <2>3. \A f \in Followers : PostTo(f) \/ Pull(f) \/ Ages(f) \/ Repair(f) \/ FollowerRestart(f)
                              => UNCHANGED <<stored, lsn, wal, setting, clock, log, made>>
    BY DEF PostTo, Pull, Ages, Repair, FollowerRestart
  <2>4. \A f \in Followers : \A i \in DOMAIN posts[f] :
          Serve(f, i) => UNCHANGED <<stored, lsn, wal, setting, clock, log, made>>
    BY DEF Serve
  <2>5. \A f \in Followers, t \in Threads :
          Check(f, t) \/ Do(f, t) \/ Mark(f, t) \/ SyncDump(f, t) \/ SyncMark(f, t)
            \/ SyncFails(f, t) => UNCHANGED <<stored, lsn, wal, setting, clock, log, made>>
    BY DEF Check, Do, Mark, SyncDump, SyncMark, SyncFails
  <2>6. \A f \in Followers, t \in Threads, k \in Keys :
          SyncLoad(f, t, k) => UNCHANGED <<stored, lsn, wal, setting, clock, log, made>>
    BY DEF SyncLoad
  <2> QED
    BY <2>1, <2>2, <2>3, <2>4, <2>5, <2>6 DEF Next, Continues
<1> QED
  BY <1>1, <1>2, <1>3, <1>4, <1>5
-----------------------------------------------------------------------------
(* What the steps do to the changes on their way. *)

LEMMA DispatchFacts ==
  ASSUME TypeOK, Dispatch
  PROVE  /\ todo = {} /\ todo' = Followers
         /\ UNCHANGED <<leader, posts, contents, known, threads, env, history>>
         /\ batch'.lsn = lsn
         /\ \E n \in 0..Len(queue) :
              /\ Len(batch'.changes) = n
              /\ \A i \in 1..n : batch'.changes[i] = queue[i]
              /\ Len(queue') = Len(queue) - n
              /\ \A j \in 1..Len(queue)-n : queue'[j] = queue[n + j]
<1>0. queue \in Seq(Change)
  BY DEF TypeOK
<1> DEFINE n == IF Len(queue) < BatchMax THEN Len(queue) ELSE BatchMax
<1>1. n \in 0..Len(queue)
  BY <1>0, ReplicationAssumption
<1>2. /\ batch' = [changes |-> SubSeq(queue, 1, n), lsn |-> lsn]
      /\ queue' = SubSeq(queue, n + 1, Len(queue))
      /\ todo = {} /\ todo' = Followers
      /\ UNCHANGED <<leader, posts, contents, known, threads, env, history>>
  BY DEF Dispatch
<1> HIDE DEF n
<1>3. /\ Len(SubSeq(queue, 1, n)) = n - 1 + 1
      /\ \A j \in 1..n-1+1 : SubSeq(queue, 1, n)[j] = queue[1 + j - 1]
  BY <1>0, <1>1, PartFacts
<1>4. /\ Len(SubSeq(queue, n + 1, Len(queue))) = Len(queue) - (n + 1) + 1
      /\ \A j \in 1..Len(queue)-(n+1)+1 :
           SubSeq(queue, n + 1, Len(queue))[j] = queue[n + 1 + j - 1]
  BY <1>0, <1>1, PartFacts
<1>5. Len(batch'.changes) = n /\ \A i \in 1..n : batch'.changes[i] = queue[i]
  BY <1>0, <1>1, <1>2, <1>3
<1>6. Len(queue') = Len(queue) - n /\ \A j \in 1..Len(queue)-n : queue'[j] = queue[n + j]
  BY <1>0, <1>1, <1>2, <1>4
<1> QED
  BY <1>1, <1>2, <1>5, <1>6

LEMMA PostToFacts ==
  ASSUME TypeOK, NEW f \in Followers, PostTo(f)
  PROVE  /\ f \in todo /\ todo' = todo \ {f}
         /\ UNCHANGED <<leader, queue, contents, known, threads, setting, clock, rotates, past>>
         /\ batch' = batch \/ (batch' = NoPost /\ todo' = {})
         /\ \A g \in Followers : g # f => posts'[g] = posts[g] /\ course'[g] = course[g]
         /\ \/ /\ Len(posts'[f]) = Len(posts[f]) + 1
               /\ \A p \in 1..Len(posts[f]) : posts'[f][p] = posts[f][p]
               /\ posts'[f][Len(posts[f]) + 1] = batch
               /\ course' = course
            \/ posts' = posts /\ course'[f] = "rough"
<1>1. /\ posts \in [Followers -> Seq(Post)] /\ batch \in Post
      /\ course \in [Followers -> {"smooth", "syncing", "rough"}]
  BY DEF TypeOK
<1>2. /\ f \in todo /\ todo' = todo \ {f}
      /\ UNCHANGED <<leader, queue, contents, known, threads, setting, clock, rotates, past>>
      /\ batch' = batch \/ (batch' = NoPost /\ todo' = {})
  BY DEF PostTo
<1>3. \/ posts' = [posts EXCEPT ![f] = Append(posts[f], batch)] /\ course' = course
      \/ posts' = posts /\ course' = [course EXCEPT ![f] = "rough"]
  BY DEF PostTo
<1>4. CASE posts' = [posts EXCEPT ![f] = Append(posts[f], batch)] /\ course' = course
  <2>1. posts'[f] = Append(posts[f], batch) /\ posts[f] \in Seq(Post)
    BY <1>1, <1>4
  <2>2. /\ Len(posts'[f]) = Len(posts[f]) + 1
        /\ \A p \in 1..Len(posts[f]) : posts'[f][p] = posts[f][p]
        /\ posts'[f][Len(posts[f]) + 1] = batch
    BY <1>1, <2>1
  <2>3. \A g \in Followers : g # f => posts'[g] = posts[g] /\ course'[g] = course[g]
    BY <1>1, <1>4
  <2> QED
    BY <1>2, <1>4, <2>2, <2>3
<1>5. CASE posts' = posts /\ course' = [course EXCEPT ![f] = "rough"]
  <2>1. \A g \in Followers : g # f => posts'[g] = posts[g] /\ course'[g] = course[g]
    BY <1>1, <1>5
  <2>2. course'[f] = "rough"
    BY <1>1, <1>5
  <2> QED
    BY <1>2, <1>5, <2>1, <2>2
<1> QED
  BY <1>3, <1>4, <1>5

LEMMA ServeFacts ==
  ASSUME TypeOK, NEW f \in Followers, NEW i \in DOMAIN posts[f], Serve(f, i)
  PROVE  /\ i \in 1..Len(posts[f]) /\ posts[f][i].changes \in Seq(Change)
         /\ step[f]["push"] = "idle"
         /\ UNCHANGED <<leader, sender, contents, env, past, image, left>>
         /\ Len(posts'[f]) = Len(posts[f]) - 1
         /\ \A p \in 1..Len(posts[f])-1 :
              posts'[f][p] = IF p < i THEN posts[f][p] ELSE posts[f][p + 1]
         /\ Sorts(work'[f]["push"], posts[f][i].changes, 1..Len(posts[f][i].changes))
         /\ step'[f]["push"] \in {"idle", "check"}
         /\ \A t \in Threads : t # "push" => step'[f][t] = step[f][t] /\ work'[f][t] = work[f][t]
         /\ \A g \in Followers : g # f =>
              /\ posts'[g] = posts[g] /\ course'[g] = course[g]
              /\ step'[g] = step[g] /\ work'[g] = work[g]
         /\ course'[f] = IF i = 1 /\ Quiet(f, "push") THEN course[f] ELSE "rough"
<1>0. /\ posts \in [Followers -> Seq(Post)]
      /\ course \in [Followers -> {"smooth", "syncing", "rough"}]
      /\ step \in [Followers -> [Threads -> {"idle", "check", "do", "mark", "sync", "load"}]]
      /\ work \in [Followers -> [Threads -> Seq(Change)]]
  BY DEF TypeOK
<1>1. posts[f] \in Seq(Post) /\ i \in 1..Len(posts[f])
  BY <1>0
<1> DEFINE cs == posts[f][i].changes
<1>2. cs \in Seq(Change)
  BY <1>1, PostFields
<1>3. DOMAIN cs = 1..Len(cs) /\ "push" \in Threads
  BY <1>2 DEF Threads
<1>4. /\ Begin(f, "push", cs, DOMAIN cs)
      /\ posts' = [posts EXCEPT ![f] = RemoveAt(posts[f], i)]
      /\ course' = [course EXCEPT ![f] = IF i = 1 /\ Quiet(f, "push") THEN course[f] ELSE "rough"]
      /\ UNCHANGED <<leader, sender, contents, env, past>>
      /\ step[f]["push"] = "idle"
  BY DEF Serve
<1> HIDE DEF cs
<1>5. Begin(f, "push", cs, 1..Len(cs))
  BY <1>3, <1>4
<1>6. PICK w : /\ Sorts(w, cs, 1..Len(cs))
               /\ work' = [work EXCEPT ![f]["push"] = w]
               /\ step' = [step EXCEPT ![f]["push"] = IF 1..Len(cs) = {} THEN "idle" ELSE "check"]
               /\ UNCHANGED <<image, left>>
  BY <1>2, <1>3, <1>5, BeginFacts
<1>7. /\ Len(RemoveAt(posts[f], i)) = Len(posts[f]) - 1
      /\ \A p \in 1..Len(posts[f])-1 :
           RemoveAt(posts[f], i)[p] = IF p < i THEN posts[f][p] ELSE posts[f][p + 1]
  BY <1>1, RemoveAtFacts
<1>8. posts'[f] = RemoveAt(posts[f], i)
  BY <1>0, <1>4
<1>9. work'[f]["push"] = w
  BY <1>0, <1>3, <1>6
<1>10. step'[f]["push"] \in {"idle", "check"}
  <2> DEFINE s == IF 1..Len(cs) = {} THEN "idle" ELSE "check"
  <2>1. s \in {"idle", "check"} /\ step' = [step EXCEPT ![f]["push"] = s]
    BY <1>6
  <2> HIDE DEF s
  <2> QED
    BY <1>0, <1>3, <2>1
<1>11. \A t \in Threads : t # "push" => step'[f][t] = step[f][t] /\ work'[f][t] = work[f][t]
  BY <1>0, <1>3, <1>6
<1>12. \A g \in Followers : g # f => /\ posts'[g] = posts[g] /\ course'[g] = course[g]
                                     /\ step'[g] = step[g] /\ work'[g] = work[g]
  BY <1>0, <1>4, <1>6
<1>13. course'[f] = IF i = 1 /\ Quiet(f, "push") THEN course[f] ELSE "rough"
  BY <1>0, <1>4
<1>14. Sorts(work'[f]["push"], cs, 1..Len(cs))
  BY <1>6, <1>9
<1>15. /\ Len(posts'[f]) = Len(posts[f]) - 1
       /\ \A p \in 1..Len(posts[f])-1 :
            posts'[f][p] = IF p < i THEN posts[f][p] ELSE posts[f][p + 1]
  BY <1>7, <1>8
<1> QED
  BY <1>1, <1>2, <1>4, <1>6, <1>10, <1>11, <1>12, <1>13, <1>14, <1>15 DEF cs

LEMMA PullFacts ==
  ASSUME TypeOK, WorkFits, NEW f \in Followers, Pull(f)
  PROVE  /\ step[f]["pull"] = "idle"
         /\ UNCHANGED <<leader, sender, posts, contents, env, past, image, left>>
         /\ \A t \in Threads : t # "pull" => step'[f][t] = step[f][t] /\ work'[f][t] = work[f][t]
         /\ \A g \in Followers : g # f =>
              course'[g] = course[g] /\ step'[g] = step[g] /\ work'[g] = work[g]
         /\ course'[f] = "rough" \/ /\ course'[f] = course[f]
                                    /\ step'[f]["pull"] \in {"idle", "sync"}
<1>0. /\ course \in [Followers -> {"smooth", "syncing", "rough"}]
      /\ step \in [Followers -> [Threads -> {"idle", "check", "do", "mark", "sync", "load"}]]
      /\ work \in [Followers -> [Threads -> Seq(Change)]]
      /\ wal \in Seq(Change)
  BY DEF TypeOK
<1>1. "pull" \in Threads
  BY DEF Threads
<1>2. step[f]["pull"] = "idle" /\ UNCHANGED <<leader, sender, posts, contents, env, past>>
  BY DEF Pull
<1> DEFINE news == {i \in DOMAIN wal : wal[i].lsn > applied[f]}
<1>3. CASE /\ step' = [step EXCEPT ![f]["pull"] = "sync"]
           /\ UNCHANGED <<work, image, left, course>>
  BY <1>0, <1>1, <1>2, <1>3
<1>4. CASE /\ Begin(f, "pull", wal, news)
           /\ course' = [course EXCEPT ![f] = IF news = {} THEN @ ELSE "rough"]
  <2>1. wal \in Seq(Change) /\ news \in SUBSET (1..Len(wal))
    BY <1>0
  <2>b. Begin(f, "pull", wal, news)
    BY <1>4
  <2> HIDE DEF news
  <2>2. PICK w : /\ Sorts(w, wal, news)
                 /\ work' = [work EXCEPT ![f]["pull"] = w]
                 /\ step' = [step EXCEPT ![f]["pull"] = IF news = {} THEN "idle" ELSE "check"]
                 /\ UNCHANGED <<image, left>>
    BY <1>1, <2>1, <2>b, BeginFacts
  <2>3. course'[f] = "rough" \/ (course'[f] = course[f] /\ step'[f]["pull"] \in {"idle", "sync"})
    <3>1. CASE news = {}
      BY <1>0, <1>1, <1>4, <2>2, <3>1
    <3>2. CASE news # {}
      BY <1>0, <1>4, <3>2
    <3> QED
      BY <3>1, <3>2
  <2>4. \A t \in Threads : t # "pull" => step'[f][t] = step[f][t] /\ work'[f][t] = work[f][t]
    BY <1>0, <1>1, <2>2
  <2>5. \A g \in Followers : g # f =>
          course'[g] = course[g] /\ step'[g] = step[g] /\ work'[g] = work[g]
    BY <1>0, <1>4, <2>2
  <2> QED
    BY <1>2, <2>2, <2>3, <2>4, <2>5
<1> QED
  BY <1>3, <1>4 DEF Pull
\* A thread drops its first change.
LEMMA AdvanceFacts ==
  ASSUME TypeOK, WorkFits, NEW f \in Followers, NEW t \in Threads,
         step[f][t] \in {"check", "do", "mark"},
         work' = [work EXCEPT ![f][t] = Tail(work[f][t])]
  PROVE  /\ Len(work[f][t]) \in Nat \ {0}
         /\ Len(work'[f][t]) = Len(work[f][t]) - 1
         /\ \A j \in 1..Len(work[f][t])-1 : work'[f][t][j] = work[f][t][j + 1]
         /\ \A u \in Threads : u # t => work'[f][u] = work[f][u]
         /\ \A g \in Followers : g # f => work'[g] = work[g]
<1>1. work \in [Followers -> [Threads -> Seq(Change)]]
  BY DEF TypeOK
<1>2. work'[f][t] = Tail(work[f][t])
  BY <1>1
<1>3. /\ Len(work[f][t]) \in Nat \ {0}
      /\ Len(Tail(work[f][t])) = Len(work[f][t]) - 1
      /\ \A j \in 1..Len(work[f][t])-1 : Tail(work[f][t])[j] = work[f][t][j + 1]
  BY AtWorkFacts
<1>4. \A u \in Threads : u # t => work'[f][u] = work[f][u]
  BY <1>1
<1>5. \A g \in Followers : g # f => work'[g] = work[g]
  BY <1>1
<1> QED
  BY <1>2, <1>3, <1>4, <1>5

LEMMA TransitStep ==
  ASSUME TypeOK, WorkFits, WalNews, Chronicle, InTransit, [Next]_vars, Unbroken'
  PROVE  InTransit'
<1> USE DEF leader, sender, contents, threads, env, past, history
<1> DEFINE L(c) == c.lsn \in 1..clock' /\ c = log'[c.lsn]
<1>0. \A c : Logged(c) => L(c)
  BY PastKept
<1>q. \A i \in 1..Len(queue) : L(queue[i])
  BY <1>0 DEF InTransit, QueueLogged
<1>b. \A i \in 1..Len(batch.changes) : L(batch.changes[i])
  BY <1>0 DEF InTransit, BatchLogged
<1>p. \A f \in Followers : \A p \in 1..Len(posts[f]) : \A i \in 1..Len(posts[f][p].changes) :
        L(posts[f][p].changes[i])
  BY <1>0 DEF InTransit, PostsLogged
<1>w. \A f \in Followers : \A i \in 1..Len(work[f]["push"]) : L(work[f]["push"][i])
  BY <1>0 DEF InTransit, WorkLogged
<1>Q. (\A i \in 1..Len(queue') : L(queue'[i])) => QueueLogged'
  BY DEF QueueLogged, Logged
<1>B. (\A i \in 1..Len(batch'.changes) : L(batch'.changes[i])) => BatchLogged'
  BY DEF BatchLogged, Logged
<1>P. (\A f \in Followers : \A p \in 1..Len(posts'[f]) : \A i \in 1..Len(posts'[f][p].changes) :
         L(posts'[f][p].changes[i])) => PostsLogged'
  BY DEF PostsLogged, Logged
<1>W. (\A f \in Followers : \A i \in 1..Len(work'[f]["push"]) : L(work'[f]["push"][i]))
        => WorkLogged'
  BY DEF WorkLogged, Logged
<1> HIDE DEF L
<1>k. /\ UNCHANGED queue => QueueLogged'
      /\ UNCHANGED batch => BatchLogged'
      /\ UNCHANGED posts => PostsLogged'
      /\ UNCHANGED work => WorkLogged'
  <2>1. UNCHANGED queue => QueueLogged'
    BY <1>q, <1>Q
  <2>2. UNCHANGED batch => BatchLogged'
    BY <1>b, <1>B
  <2>3. UNCHANGED posts => PostsLogged'
    BY <1>p, <1>P
  <2>4. UNCHANGED work => WorkLogged'
    BY <1>w, <1>W
  <2> QED
    BY <2>1, <2>2, <2>3, <2>4
<1>1. CASE UNCHANGED <<queue, batch, posts, work>>
  BY <1>1, <1>k DEF InTransit
<1>2. ASSUME NEW r \in Request, Write(r)
      PROVE  InTransit'
  <2> DEFINE c == Made1(r)
  <2>1. c \in Change /\ c.lsn = lsn + 1
    BY WriteChange DEF Made1
  <2>2. /\ clock' = clock + 1 /\ lsn' = lsn + 1 /\ log' = Append(log, c)
        /\ Enqueue(c) /\ UNCHANGED <<batch, posts, work>>
    BY <1>2 DEF Write, Made1
  <2> HIDE DEF c
  <2>3. L(c)
    <3>1. clock \in Nat /\ lsn = clock /\ log \in Seq(Change) /\ Len(log) = clock
      BY PastKept DEF Unbroken, Chronicle, TypeOK
    <3>2. c.lsn = clock + 1 /\ log'[clock + 1] = c
      BY <2>1, <2>2, <3>1
    <3> QED
      BY <2>2, <3>1, <3>2 DEF L
  <2>4. ASSUME NEW i \in 1..Len(queue')
        PROVE  L(queue'[i])
    <3>1. queue'[i] = c \/ \E j \in 1..Len(queue) : queue'[i] = queue[j]
      BY <2>1, <2>2, EnqueueFacts
    <3> QED
      BY <1>q, <2>3, <3>1
  <2> QED
    BY <1>k, <1>Q, <2>2, <2>4 DEF InTransit
<1>3. CASE Dispatch
  <2>1. UNCHANGED <<posts, work>>
    BY <1>3, DispatchFacts
  <2>2. PICK n \in 0..Len(queue) :
          /\ Len(batch'.changes) = n
          /\ \A i \in 1..n : batch'.changes[i] = queue[i]
          /\ Len(queue') = Len(queue) - n
          /\ \A j \in 1..Len(queue)-n : queue'[j] = queue[n + j]
    BY <1>3, DispatchFacts
  <2>3. Len(queue) \in Nat
    BY DEF TypeOK
  <2>4. ASSUME NEW i \in 1..n PROVE L(batch'.changes[i])
    <3>1. i \in 1..Len(queue)
      BY <2>3
    <3> QED
      BY <1>q, <2>2, <3>1
  <2>5. ASSUME NEW j \in 1..Len(queue)-n PROVE L(queue'[j])
    <3>1. n + j \in 1..Len(queue)
      BY <2>3
    <3> QED
      BY <1>q, <2>2, <3>1
  <2> QED
    BY <1>k, <1>Q, <1>B, <2>1, <2>2, <2>4, <2>5 DEF InTransit
<1>4. CASE LeaderRestart
  <2>1. queue' = <<>> /\ batch' = NoPost /\ UNCHANGED <<posts, work>>
    BY <1>4 DEF LeaderRestart
  <2>2. /\ \A i \in 1..Len(queue') : L(queue'[i])
        /\ \A i \in 1..Len(batch'.changes) : L(batch'.changes[i])
    BY <2>1, NoPostFacts
  <2> QED
    BY <1>k, <1>Q, <1>B, <2>1, <2>2 DEF InTransit
<1>5. ASSUME NEW f \in Followers, PostTo(f)
      PROVE  InTransit'
  <2>1. UNCHANGED <<queue, work>> /\ (batch' = batch \/ batch' = NoPost)
    BY <1>5, PostToFacts
  <2>2. \A i \in 1..Len(batch'.changes) : L(batch'.changes[i])
    <3>1. CASE batch' = batch
      BY <1>b, <3>1
    <3>2. CASE batch' = NoPost
      BY <3>2, NoPostFacts
    <3> QED
      BY <2>1, <3>1, <3>2
  <2>3. ASSUME NEW g \in Followers, NEW p \in 1..Len(posts'[g]),
               NEW i \in 1..Len(posts'[g][p].changes)
        PROVE  L(posts'[g][p].changes[i])
    <3>1. posts'[g][p] = batch \/ (p \in 1..Len(posts[g]) /\ posts'[g][p] = posts[g][p])
      <4>1. CASE g # f \/ posts' = posts
        <5>1. posts'[g] = posts[g]
          BY <1>5, <4>1, PostToFacts
        <5> QED
          BY <2>3, <5>1
      <4>2. CASE /\ g = f
                 /\ Len(posts'[f]) = Len(posts[f]) + 1
                 /\ \A q \in 1..Len(posts[f]) : posts'[f][q] = posts[f][q]
                 /\ posts'[f][Len(posts[f]) + 1] = batch
        <5>1. Len(posts[f]) \in Nat
          BY DEF TypeOK
        <5>2. p \in 1..Len(posts[f]) \/ p = Len(posts[f]) + 1
          BY <2>3, <4>2, <5>1
        <5> QED
          BY <4>2, <5>2
      <4> QED
        BY <1>5, <4>1, <4>2, PostToFacts
    <3>2. CASE posts'[g][p] = batch
      BY <1>b, <2>3, <3>2
    <3>3. CASE p \in 1..Len(posts[g]) /\ posts'[g][p] = posts[g][p]
      BY <1>p, <2>3, <3>3
    <3> QED
      BY <3>1, <3>2, <3>3
  <2> QED
    BY <1>k, <1>B, <1>P, <2>1, <2>2, <2>3 DEF InTransit
<1>6. ASSUME NEW f \in Followers, NEW i \in DOMAIN posts[f], Serve(f, i)
      PROVE  InTransit'
  <2>1. /\ UNCHANGED <<queue, batch>>
        /\ i \in 1..Len(posts[f]) /\ posts[f][i].changes \in Seq(Change)
        /\ Len(posts'[f]) = Len(posts[f]) - 1
        /\ \A p \in 1..Len(posts[f])-1 :
             posts'[f][p] = IF p < i THEN posts[f][p] ELSE posts[f][p + 1]
        /\ Sorts(work'[f]["push"], posts[f][i].changes, 1..Len(posts[f][i].changes))
        /\ \A g \in Followers : g # f => posts'[g] = posts[g] /\ work'[g] = work[g]
    BY <1>6, ServeFacts
  <2>2. Len(posts[f]) \in Nat
    BY DEF TypeOK
  <2>3. ASSUME NEW g \in Followers, NEW p \in 1..Len(posts'[g]),
               NEW j \in 1..Len(posts'[g][p].changes)
        PROVE  L(posts'[g][p].changes[j])
    <3>1. \E m \in 1..Len(posts[g]) : posts'[g][p] = posts[g][m]
      <4>1. CASE g # f
        BY <2>1, <2>3, <4>1
      <4>2. CASE g = f
        <5>1. p \in 1..Len(posts[f])-1 /\ p \in 1..Len(posts[f]) /\ p + 1 \in 1..Len(posts[f])
          BY <2>1, <2>2, <2>3, <4>2
        <5> QED
          BY <2>1, <4>2, <5>1
      <4> QED
        BY <4>1, <4>2
    <3> QED
      BY <1>p, <2>3, <3>1
  <2>4. ASSUME NEW g \in Followers, NEW j \in 1..Len(work'[g]["push"])
        PROVE  L(work'[g]["push"][j])
    <3>1. CASE g # f
      BY <1>w, <2>1, <2>4, <3>1
    <3>2. CASE g = f
      <4>1. \E m \in 1..Len(posts[f][i].changes) :
              work'[f]["push"][j] = posts[f][i].changes[m]
        BY <2>1, <2>4, <3>2 DEF Sorts
      <4> QED
        BY <1>p, <2>1, <3>2, <4>1
    <3> QED
      BY <3>1, <3>2
  <2> QED
    BY <1>k, <1>P, <1>W, <2>1, <2>3, <2>4 DEF InTransit
<1>7. ASSUME NEW f \in Followers, Pull(f)
      PROVE  InTransit'
  <2>1. /\ UNCHANGED <<queue, batch, posts>>
        /\ \A t \in Threads : t # "pull" => work'[f][t] = work[f][t]
        /\ \A g \in Followers : g # f => work'[g] = work[g]
    BY <1>7, PullFacts
  <2>2. \A g \in Followers : work'[g]["push"] = work[g]["push"]
    BY <2>1 DEF Threads
  <2>3. \A g \in Followers : \A i \in 1..Len(work'[g]["push"]) : L(work'[g]["push"][i])
    BY <1>w, <2>2
  <2> QED
    BY <1>k, <1>W, <2>1, <2>3 DEF InTransit
<1>8. ASSUME NEW f \in Followers, FollowerRestart(f)
      PROVE  InTransit'
  <2>1. UNCHANGED <<queue, batch>>
    BY <1>8 DEF FollowerRestart
  <2>2. /\ posts'[f] = <<>> /\ \A g \in Followers : g # f => posts'[g] = posts[g]
        /\ \A g \in Followers : g # f => work'[g] = work[g]
    BY <1>8 DEF FollowerRestart, TypeOK
  <2>3. work'[f]["push"] = <<>>
    BY <1>8 DEF FollowerRestart, TypeOK, Threads
  <2>4. \A g \in Followers : \A p \in 1..Len(posts'[g]) : \A i \in 1..Len(posts'[g][p].changes) :
          L(posts'[g][p].changes[i])
    <3>1. TAKE g \in Followers
    <3>2. CASE g = f
      BY <2>2, <3>2
    <3>3. CASE g # f
      BY <1>p, <2>2, <3>3
    <3> QED
      BY <3>2, <3>3
  <2>5. \A g \in Followers : \A i \in 1..Len(work'[g]["push"]) : L(work'[g]["push"][i])
    <3>1. TAKE g \in Followers
    <3>2. CASE g = f
      BY <2>3, <3>2
    <3>3. CASE g # f
      BY <1>w, <2>2, <3>3
    <3> QED
      BY <3>2, <3>3
  <2> QED
    BY <1>k, <1>P, <1>W, <2>1, <2>4, <2>5 DEF InTransit
<1>9. ASSUME NEW f \in Followers, NEW t \in Threads,
             step[f][t] \in {"check", "do", "mark"},
             work' = [work EXCEPT ![f][t] = Tail(work[f][t])],
             UNCHANGED <<queue, batch, posts>>
      PROVE  InTransit'
  <2>1. /\ Len(work[f][t]) \in Nat \ {0}
        /\ Len(work'[f][t]) = Len(work[f][t]) - 1
        /\ \A j \in 1..Len(work[f][t])-1 : work'[f][t][j] = work[f][t][j + 1]
        /\ \A u \in Threads : u # t => work'[f][u] = work[f][u]
        /\ \A g \in Followers : g # f => work'[g] = work[g]
    BY <1>9, AdvanceFacts
  <2>2. ASSUME NEW g \in Followers, NEW j \in 1..Len(work'[g]["push"])
        PROVE  L(work'[g]["push"][j])
    <3>1. CASE g = f /\ t = "push"
      <4>1. j \in 1..Len(work[f]["push"])-1 /\ j + 1 \in 1..Len(work[f]["push"])
        BY <2>1, <2>2, <3>1
      <4>2. work'[f]["push"][j] = work[f]["push"][j + 1]
        BY <2>1, <3>1, <4>1
      <4> QED
        BY <1>w, <3>1, <4>1, <4>2
    <3>2. CASE ~(g = f /\ t = "push")
      <4>1. work'[g]["push"] = work[g]["push"]
        BY <2>1, <3>2 DEF Threads
      <4> QED
        BY <1>w, <2>2, <4>1
    <3> QED
      BY <3>1, <3>2
  <2> QED
    BY <1>k, <1>W, <1>9, <2>2 DEF InTransit
<1>10. ASSUME NEW f \in Followers, NEW t \in Threads, Check(f, t) \/ Mark(f, t)
       PROVE  InTransit'
  BY <1>1, <1>9, <1>10 DEF Check, Mark
<1>11. \/ UNCHANGED <<queue, batch, posts, work>>
       \/ \E r \in Request : Write(r)
       \/ Dispatch \/ LeaderRestart
       \/ \E f \in Followers :
            \/ PostTo(f) \/ Pull(f) \/ FollowerRestart(f)
            \/ \E i \in DOMAIN posts[f] : Serve(f, i)
            \/ \E t \in Threads : Check(f, t) \/ Mark(f, t)
  <2>1. UNCHANGED vars => UNCHANGED <<queue, batch, posts, work>>
    BY DEF vars
  <2>2. Rotate => UNCHANGED <<queue, batch, posts, work>>
    BY DEF Rotate
  <2>3. \A f \in Followers : Ages(f) \/ Repair(f) => UNCHANGED <<queue, batch, posts, work>>
    BY DEF Ages, Repair
  <2>4. \A f \in Followers, t \in Threads :
          Do(f, t) \/ SyncDump(f, t) \/ SyncMark(f, t) \/ SyncFails(f, t)
            => UNCHANGED <<queue, batch, posts, work>>
    BY DEF Do, SyncDump, SyncMark, SyncFails
  <2>5. \A f \in Followers, t \in Threads, k \in Keys :
          SyncLoad(f, t, k) => UNCHANGED <<queue, batch, posts, work>>
    BY DEF SyncLoad
  <2> QED
    BY <2>1, <2>2, <2>3, <2>4, <2>5 DEF Next, Continues
<1> QED
  BY <1>1, <1>2, <1>3, <1>4, <1>5, <1>6, <1>7, <1>8, <1>10, <1>11
-----------------------------------------------------------------------------
(* A change on its way stays on its way, and none overtakes it. *)

LEMMA ComingKept ==
  ASSUME NEW f \in Followers, NEW n, Coming(f, n),
         queue' = queue, posts'[f] = posts[f], work'[f]["push"] = work[f]["push"],
         f \in todo' => f \in todo /\ batch' = batch,
         f \in todo => f \in todo'
  PROVE  Coming(f, n)'
<1>1. Among(n, work[f]["push"])' <=> Among(n, work[f]["push"])
  BY DEF Among
<1>2. \A p : Posted(f, p, n) <=> Posted(f, p, n)'
  BY <1>1 DEF Posted, Among
<1>3. Batched(f, n) <=> Batched(f, n)'
  BY <1>2 DEF Batched, Among
<1>4. \A j : Queued(f, j, n) <=> Queued(f, j, n)'
  BY <1>3 DEF Queued
<1>5. /\ Reaches(n, work[f]["push"])' <=> Reaches(n, work[f]["push"])
      /\ \A p : Reaches(n, posts[f][p].changes)' <=> Reaches(n, posts[f][p].changes)
      /\ f \in todo' => (Reaches(n, batch.changes)' <=> Reaches(n, batch.changes))
  BY DEF Reaches
<1> QED
  BY <1>1, <1>2, <1>3, <1>4, <1>5 DEF Coming

\* A write adds to the queue.
LEMMA ComingWrite ==
  ASSUME TypeOK, NEW f \in Followers, NEW n \in Nat, NEW c \in Change,
         queue' = Append(queue, c), UNCHANGED <<batch, todo, posts, work>>,
         \/ Coming(f, n)
         \/ /\ c.lsn = n
            /\ ~Reaches(n, work[f]["push"]) /\ ~Reaches(n, batch.changes)
            /\ \A p \in 1..Len(posts[f]) : ~Reaches(n, posts[f][p].changes)
            /\ \A i \in 1..Len(queue) : ~(queue[i].lsn >= n)
  PROVE  Coming(f, n)'
<1>q. queue \in Seq(Change)
  BY DEF TypeOK
<1>m. PICK m \in Nat : m = Len(queue)
  BY <1>q
<1>0. /\ Len(queue') = m + 1
      /\ \A i \in 1..m : queue'[i] = queue[i]
      /\ queue'[m + 1] = c
  BY <1>q, <1>m
<1>r. \A i \in 1..m+1 : i \in 1..m \/ i = m + 1
  BY <1>m
<1>1. /\ Among(n, work[f]["push"])' <=> Among(n, work[f]["push"])
      /\ Reaches(n, work[f]["push"])' <=> Reaches(n, work[f]["push"])
      /\ Reaches(n, batch.changes)' <=> Reaches(n, batch.changes)
      /\ \A p : Reaches(n, posts[f][p].changes)' <=> Reaches(n, posts[f][p].changes)
  BY DEF Among, Reaches
<1>2. \A p : Posted(f, p, n) <=> Posted(f, p, n)'
  BY <1>1 DEF Posted, Among
<1>3. Batched(f, n) <=> Batched(f, n)'
  BY <1>2 DEF Batched, Among
<1>4. ASSUME NEW j \in Nat, j <= m, Queued(f, j, n)
      PROVE  Queued(f, j, n)'
  <2>1. CASE Batched(f, n)
    BY <1>3, <2>1 DEF Queued
  <2>2. CASE \E i \in 1..j : queue[i].lsn = n
    <3>1. PICK i \in 1..j : queue[i].lsn = n
      BY <2>2
    <3>2. i \in 1..m
      BY <1>4, <1>m, <3>1
    <3>3. queue'[i].lsn = n
      BY <1>0, <3>1, <3>2
    <3> QED
      BY <3>1, <3>3 DEF Queued
  <2> QED
    BY <1>4, <2>1, <2>2 DEF Queued
<1>5. ASSUME Queued(f, m, n)
      PROVE  Queued(f, m + 1, n)'
  <2>1. Queued(f, m, n)'
    BY <1>4, <1>5, <1>m
  <2>2. \A i \in 1..m : i \in 1..m+1
    BY <1>m
  <2> QED
    BY <2>1, <2>2 DEF Queued
<1>6. CASE Coming(f, n)
  <2>1. /\ Reaches(n, work[f]["push"])' => Among(n, work[f]["push"])'
        /\ \A p \in 1..Len(posts'[f]) : Reaches(n, posts[f][p].changes)' => Posted(f, p, n)'
        /\ f \in todo' /\ Reaches(n, batch.changes)' => Batched(f, n)'
    BY <1>1, <1>2, <1>3, <1>6 DEF Coming
  <2>2. Queued(f, m, n)
    BY <1>6, <1>m DEF Coming
  <2>3. Queued(f, m + 1, n)'
    BY <1>5, <2>2
  <2>4. \A j \in 1..m+1 : queue'[j].lsn >= n => Queued(f, j, n)'
    <3>1. SUFFICES ASSUME NEW j \in 1..m+1, queue'[j].lsn >= n
                   PROVE  Queued(f, j, n)'
      OBVIOUS
    <3>2. CASE j \in 1..m
      <4>1. queue[j].lsn >= n /\ j \in 1..Len(queue)
        BY <1>0, <1>m, <3>1, <3>2
      <4>2. Queued(f, j, n)
        BY <1>6, <4>1 DEF Coming
      <4>3. j \in Nat /\ j <= m
        BY <1>m, <3>2
      <4> QED
        BY <1>4, <4>2, <4>3
    <3>3. CASE j = m + 1
      BY <2>3, <3>3
    <3> QED
      BY <1>r, <3>2, <3>3
  <2>5. Queued(f, Len(queue), n)'
    BY <1>0, <2>3 DEF Queued
  <2> QED
    BY <1>0, <2>1, <2>4, <2>5 DEF Coming
<1>7. CASE /\ c.lsn = n
           /\ ~Reaches(n, work[f]["push"]) /\ ~Reaches(n, batch.changes)
           /\ \A p \in 1..Len(posts[f]) : ~Reaches(n, posts[f][p].changes)
           /\ \A i \in 1..Len(queue) : ~(queue[i].lsn >= n)
  <2>1. /\ ~Reaches(n, work[f]["push"])' /\ ~Reaches(n, batch.changes)'
        /\ \A p \in 1..Len(posts'[f]) : ~Reaches(n, posts[f][p].changes)'
    BY <1>1, <1>7
  <2>2. queue'[m + 1].lsn = n /\ m + 1 \in 1..m+1
    BY <1>0, <1>7, <1>m
  <2>3. Queued(f, m + 1, n)'
    BY <2>2 DEF Queued
  <2>4. \A j \in 1..m+1 : queue'[j].lsn >= n => Queued(f, j, n)'
    <3>1. SUFFICES ASSUME NEW j \in 1..m+1, queue'[j].lsn >= n
                   PROVE  Queued(f, j, n)'
      OBVIOUS
    <3>2. CASE j \in 1..m
      BY <1>0, <1>7, <1>m, <3>1, <3>2
    <3>3. CASE j = m + 1
      BY <2>3, <3>3
    <3> QED
      BY <1>r, <3>2, <3>3
  <2>5. Queued(f, Len(queue), n)'
    BY <1>0, <2>3 DEF Queued
  <2> QED
    BY <1>0, <2>1, <2>4, <2>5 DEF Coming
<1> QED
  BY <1>6, <1>7

LEMMA ComingDispatch ==
  ASSUME TypeOK, NEW f \in Followers, NEW n \in Nat, Coming(f, n), Dispatch
  PROVE  Coming(f, n)'
<1>1. /\ todo = {} /\ todo' = Followers /\ posts' = posts /\ work' = work
  BY DispatchFacts DEF threads
<1>2. PICK m \in 0..Len(queue) :
        /\ Len(batch'.changes) = m
        /\ \A i \in 1..m : batch'.changes[i] = queue[i]
        /\ Len(queue') = Len(queue) - m
        /\ \A j \in 1..Len(queue)-m : queue'[j] = queue[m + j]
  BY DispatchFacts
<1>3. Len(queue) \in Nat
  BY DEF TypeOK
<1>4. /\ Among(n, work[f]["push"])' <=> Among(n, work[f]["push"])
      /\ Reaches(n, work[f]["push"])' <=> Reaches(n, work[f]["push"])
      /\ \A p : Reaches(n, posts[f][p].changes)' <=> Reaches(n, posts[f][p].changes)
  BY <1>1 DEF Among, Reaches
<1>5. \A p : Posted(f, p, n) <=> Posted(f, p, n)'
  BY <1>1, <1>4 DEF Posted, Among
<1>6. Batched(f, n) => Batched(f, n)'
  BY <1>1, <1>5 DEF Batched
<1>7. ASSUME NEW j \in 1..m, Queued(f, j, n)
      PROVE  Batched(f, n)'
  <2>1. CASE Batched(f, n)
    BY <1>6, <2>1
  <2>2. CASE \E i \in 1..j : queue[i].lsn = n
    <3>1. PICK i \in 1..j : queue[i].lsn = n
      BY <2>2
    <3>2. i \in 1..m
      OBVIOUS
    <3>3. Among(n, batch.changes)'
      BY <1>2, <3>1, <3>2 DEF Among
    <3> QED
      BY <1>1, <3>3 DEF Batched
  <2> QED
    BY <1>7, <2>1, <2>2 DEF Queued
<1>8. ASSUME NEW j \in 0..Len(queue)-m, Queued(f, m + j, n)
      PROVE  Queued(f, j, n)'
  <2>1. CASE Batched(f, n)
    BY <1>6, <2>1 DEF Queued
  <2>2. CASE \E i \in 1..m+j : queue[i].lsn = n
    <3>1. PICK i \in 1..m+j : queue[i].lsn = n
      BY <2>2
    <3>2. CASE i <= m
      <4>1. i \in 1..m /\ Queued(f, i, n)
        BY <3>1, <3>2 DEF Queued
      <4> QED
        BY <1>7, <4>1 DEF Queued
    <3>3. CASE i > m
      <4>1. i - m \in 1..j /\ i - m \in 1..Len(queue)-m /\ m + (i - m) = i
        BY <1>3, <3>3
      <4>2. queue'[i - m] = queue[i]
        BY <1>2, <4>1
      <4> QED
        BY <3>1, <4>1, <4>2 DEF Queued
    <3> QED
      BY <3>2, <3>3
  <2> QED
    BY <1>8, <2>1, <2>2 DEF Queued
<1>9. /\ Reaches(n, work[f]["push"])' => Among(n, work[f]["push"])'
      /\ \A p \in 1..Len(posts'[f]) : Reaches(n, posts[f][p].changes)' => Posted(f, p, n)'
  BY <1>1, <1>4, <1>5 DEF Coming
<1>10. Reaches(n, batch.changes)' => Batched(f, n)'
  <2>1. SUFFICES ASSUME NEW i \in 1..m, batch'.changes[i].lsn >= n
                 PROVE  Batched(f, n)'
    BY <1>2 DEF Reaches
  <2>2. i \in 1..Len(queue) /\ queue[i].lsn >= n
    BY <1>2, <1>3, <2>1
  <2>3. Queued(f, i, n)
    BY <2>2 DEF Coming
  <2> QED
    BY <1>7, <2>3
<1>11. ASSUME NEW j \in 1..Len(queue'), queue'[j].lsn >= n
       PROVE  Queued(f, j, n)'
  <2>1. j \in 1..Len(queue)-m /\ j \in 0..Len(queue)-m /\ m + j \in 1..Len(queue)
    BY <1>2, <1>3
  <2>2. queue[m + j].lsn >= n
    BY <1>2, <1>11, <2>1
  <2>3. Queued(f, m + j, n)
    BY <2>1, <2>2 DEF Coming
  <2> QED
    BY <1>8, <2>1, <2>3
<1>12. Queued(f, Len(queue), n)'
  <2>1. Len(queue) - m \in 0..Len(queue)-m /\ m + (Len(queue) - m) = Len(queue)
    BY <1>3
  <2>2. Queued(f, Len(queue), n)
    BY DEF Coming
  <2>3. PICK j \in 0..Len(queue)-m : j = Len(queue) - m
    BY <2>1
  <2>4. Queued(f, j, n)'
    BY <1>8, <2>1, <2>2, <2>3
  <2>5. j = Len(queue')
    BY <1>2, <2>3
  <2> QED
    BY <2>4, <2>5 DEF Queued
<1> QED
  BY <1>9, <1>10, <1>11, <1>12 DEF Coming

LEMMA ComingPost ==
  ASSUME TypeOK, NEW f \in Followers, NEW n \in Nat, Coming(f, n),
         queue' = queue, work' = work, f \in todo, f \notin todo',
         Len(posts'[f]) = Len(posts[f]) + 1,
         \A p \in 1..Len(posts[f]) : posts'[f][p] = posts[f][p],
         posts'[f][Len(posts[f]) + 1] = batch
  PROVE  Coming(f, n)'
<1>m. PICK m \in Nat : m = Len(posts[f])
  BY DEF TypeOK
<1>0. /\ Len(posts'[f]) = m + 1
      /\ \A p \in 1..m : posts'[f][p] = posts[f][p]
      /\ posts'[f][m + 1] = batch
  BY <1>m
<1>r. /\ \A p \in 1..m+1 : p \in 1..m \/ p = m + 1
      /\ \A p \in 1..m : p \in 1..m+1
      /\ m \in 0..m /\ m + 1 \in 1..m+1
  BY <1>m
<1>1. /\ Among(n, work[f]["push"])' <=> Among(n, work[f]["push"])
      /\ Reaches(n, work[f]["push"])' <=> Reaches(n, work[f]["push"])
      /\ \A p \in 1..m : Reaches(n, posts[f][p].changes)' <=> Reaches(n, posts[f][p].changes)
      /\ Reaches(n, posts'[f][m + 1].changes) <=> Reaches(n, batch.changes)
  BY <1>0 DEF Among, Reaches
<1>2. ASSUME NEW p \in 0..m, Posted(f, p, n) PROVE Posted(f, p, n)'
  <2>1. \A q \in 1..p : q \in 1..m
    BY <1>m
  <2>2. \A q \in 1..p : Among(n, posts[f][q].changes) => Among(n, posts'[f][q].changes)
    BY <1>0, <2>1
  <2> QED
    BY <1>1, <1>2, <2>2 DEF Posted, Among
<1>3. ASSUME Batched(f, n) PROVE Posted(f, m + 1, n)' /\ Batched(f, n)'
  <2>1. Posted(f, m + 1, n)'
    <3>1. CASE Posted(f, Len(posts[f]), n)
      <4>1. Posted(f, m, n)'
        BY <1>2, <1>m, <1>r, <3>1
      <4> QED
        BY <1>r, <4>1 DEF Posted
    <3>2. CASE Among(n, batch.changes)
      <4>1. Among(n, posts'[f][m + 1].changes)
        BY <1>0, <3>2
      <4> QED
        BY <1>r, <4>1 DEF Posted, Among
    <3> QED
      BY <1>3, <3>1, <3>2 DEF Batched
  <2>2. Posted(f, Len(posts[f]), n)'
    BY <1>0, <2>1 DEF Posted
  <2> QED
    BY <2>1, <2>2 DEF Batched
<1>4. \A j : Queued(f, j, n) => Queued(f, j, n)'
  BY <1>3 DEF Queued
<1>5. \A p \in 1..Len(posts'[f]) : Reaches(n, posts[f][p].changes)' => Posted(f, p, n)'
  <2>1. SUFFICES ASSUME NEW p \in 1..m+1, Reaches(n, posts'[f][p].changes)
                 PROVE  Posted(f, p, n)'
    BY <1>0 DEF Reaches
  <2>2. CASE p \in 1..m
    <3>1. p \in 0..m /\ p \in 1..Len(posts[f])
      BY <1>m, <2>2
    <3>2. Reaches(n, posts[f][p].changes)
      BY <1>0, <2>1, <2>2
    <3>3. Posted(f, p, n)
      BY <3>1, <3>2 DEF Coming
    <3> QED
      BY <1>2, <3>1, <3>3
  <2>3. CASE p = m + 1
    <3>1. Reaches(n, batch.changes)
      BY <1>0, <2>1, <2>3
    <3>2. Batched(f, n)
      BY <3>1 DEF Coming
    <3>3. Posted(f, m + 1, n)'
      BY <1>3, <3>2
    <3> QED
      BY <2>3, <3>3
  <2> QED
    BY <1>r, <2>2, <2>3
<1>6. Queued(f, Len(queue), n)'
  BY <1>4 DEF Coming, Queued
<1>7. \A j \in 1..Len(queue') : queue'[j].lsn >= n => Queued(f, j, n)'
  BY <1>4 DEF Coming
<1>8. Reaches(n, work[f]["push"])' => Among(n, work[f]["push"])'
  BY <1>1 DEF Coming
<1> QED
  BY <1>5, <1>6, <1>7, <1>8 DEF Coming
\* Sorting loses no change and adds none.
LEMMA SortsKeeps ==
  ASSUME NEW w, NEW cs, Sorts(w, cs, 1..Len(cs)), NEW n
  PROVE  /\ Among(n, cs) => Among(n, w)
         /\ Reaches(n, w) => Reaches(n, cs)
<1>1. \A i \in 1..Len(w) : \E j \in 1..Len(cs) : w[i] = cs[j]
  BY DEF Sorts
<1>2. \A j \in 1..Len(cs) : \E i \in 1..Len(w) : w[i] = cs[j]
  BY DEF Sorts
<1>3. Among(n, cs) => Among(n, w)
  BY <1>2 DEF Among
<1>4. Reaches(n, w) => Reaches(n, cs)
  BY <1>1 DEF Reaches
<1> QED
  BY <1>3, <1>4

LEMMA Shift ==
  \A m \in Nat : /\ (m + 1) - 1 = m
                 /\ \A j \in 1..m : j + 1 \in 1..m+1
OBVIOUS

\* The oldest post is taken up.
LEMMA ComingServe ==
  ASSUME TypeOK, NEW f \in Followers, NEW n \in Nat, Coming(f, n),
         UNCHANGED <<queue, batch, todo>>,
         work[f]["push"] = <<>>, Len(posts[f]) >= 1,
         Len(posts'[f]) = Len(posts[f]) - 1,
         \A p \in 1..Len(posts[f])-1 : posts'[f][p] = posts[f][p + 1],
         Sorts(work'[f]["push"], posts[f][1].changes, 1..Len(posts[f][1].changes))
  PROVE  Coming(f, n)'
<1>m. PICK m \in Nat : Len(posts[f]) = m + 1
  <2>1. Len(posts[f]) \in Nat
    BY DEF TypeOK
  <2>2. Len(posts[f]) - 1 \in Nat /\ Len(posts[f]) = (Len(posts[f]) - 1) + 1
    BY <2>1
  <2> QED
    BY <2>2
<1>0. /\ Len(posts'[f]) = m
      /\ \A p \in 1..m : posts'[f][p] = posts[f][p + 1]
  <2>1. Len(posts[f]) - 1 = m
    BY <1>m, Shift
  <2> QED
    BY <2>1
<1>r. /\ \A p \in 1..m : p + 1 \in 1..m+1
      /\ 1 \in 1..m+1
  BY <1>m
<1>1. /\ Among(n, posts[f][1].changes) => Among(n, work'[f]["push"])
      /\ Reaches(n, work'[f]["push"]) => Reaches(n, posts[f][1].changes)
  BY SortsKeeps
<1>w. ~Among(n, work[f]["push"])
  BY DEF Among
<1>2. ASSUME NEW p \in 0..m, Posted(f, p + 1, n) PROVE Posted(f, p, n)'
  <2>1. PICK q \in 1..p+1 : Among(n, posts[f][q].changes)
    BY <1>2, <1>w DEF Posted
  <2>2. CASE q = 1
    <3>1. Among(n, work'[f]["push"])
      BY <1>1, <2>1, <2>2
    <3> QED
      BY <3>1 DEF Posted, Among
  <2>3. CASE q # 1
    <3>1. q - 1 \in 1..p /\ q - 1 \in 1..m /\ (q - 1) + 1 = q
      BY <1>m, <2>3
    <3>2. Among(n, posts'[f][q - 1].changes)
      BY <1>0, <2>1, <3>1
    <3>3. PICK x \in 1..p : Among(n, posts'[f][x].changes)
      BY <3>1, <3>2
    <3> QED
      BY <3>3 DEF Posted, Among
  <2> QED
    BY <2>2, <2>3
<1>3. Batched(f, n) => Batched(f, n)'
  <2>1. CASE Posted(f, Len(posts[f]), n)
    <3>1. m \in 0..m
      BY <1>m
    <3>2. Posted(f, m, n)'
      BY <1>2, <1>m, <2>1, <3>1
    <3> QED
      BY <1>0, <3>2 DEF Batched, Posted
  <2>2. CASE f \in todo /\ Among(n, batch.changes)
    BY <2>2 DEF Batched, Among
  <2> QED
    BY <2>1, <2>2 DEF Batched
<1>4. \A j : Queued(f, j, n) => Queued(f, j, n)'
  BY <1>3 DEF Queued
<1>5. Reaches(n, work[f]["push"])' => Among(n, work[f]["push"])'
  <2>1. SUFFICES ASSUME Reaches(n, work'[f]["push"])
                 PROVE  Among(n, work'[f]["push"])
    BY DEF Reaches, Among
  <2>2. Posted(f, 1, n)
    BY <1>1, <1>m, <1>r, <2>1 DEF Coming
  <2>3. Among(n, posts[f][1].changes)
    BY <1>w, <2>2 DEF Posted
  <2> QED
    BY <1>1, <2>3
<1>6. \A p \in 1..Len(posts'[f]) : Reaches(n, posts[f][p].changes)' => Posted(f, p, n)'
  <2>1. SUFFICES ASSUME NEW p \in 1..m, Reaches(n, posts'[f][p].changes)
                 PROVE  Posted(f, p, n)'
    BY <1>0 DEF Reaches
  <2>2. Reaches(n, posts[f][p + 1].changes)
    BY <1>0, <2>1
  <2>3. Posted(f, p + 1, n)
    BY <1>m, <1>r, <2>2 DEF Coming
  <2>4. p \in 0..m
    BY <1>m
  <2> QED
    BY <1>2, <2>3, <2>4
<1>7. f \in todo' /\ Reaches(n, batch.changes)' => Batched(f, n)'
  BY <1>3 DEF Coming, Reaches
<1>8. \A j \in 1..Len(queue') : queue'[j].lsn >= n => Queued(f, j, n)'
  BY <1>4 DEF Coming
<1>9. Queued(f, Len(queue), n)'
  BY <1>4 DEF Coming, Queued
<1> QED
  BY <1>5, <1>6, <1>7, <1>8, <1>9 DEF Coming

\* The pushing thread is done with an earlier change.
LEMMA ComingAdvance ==
  ASSUME TypeOK, NEW f \in Followers, NEW n \in Nat, Coming(f, n),
         UNCHANGED <<queue, batch, todo, posts>>,
         Len(work[f]["push"]) \in Nat \ {0},
         Len(work'[f]["push"]) = Len(work[f]["push"]) - 1,
         \A j \in 1..Len(work[f]["push"])-1 : work'[f]["push"][j] = work[f]["push"][j + 1],
         work[f]["push"][1].lsn < n, work[f]["push"][1].lsn \in Nat
  PROVE  Coming(f, n)'
<1>m. PICK m \in Nat : Len(work[f]["push"]) = m + 1
  <2>1. /\ Len(work[f]["push"]) - 1 \in Nat
        /\ Len(work[f]["push"]) = (Len(work[f]["push"]) - 1) + 1
    OBVIOUS
  <2> QED
    BY <2>1
<1>0. /\ Len(work'[f]["push"]) = m
      /\ \A j \in 1..m : work'[f]["push"][j] = work[f]["push"][j + 1]
  <2>1. Len(work[f]["push"]) - 1 = m
    BY <1>m, Shift
  <2> QED
    BY <2>1
<1>1. Among(n, work[f]["push"])' <=> Among(n, work[f]["push"])
  <2>1. ASSUME NEW j \in 1..m, work'[f]["push"][j].lsn = n
        PROVE  Among(n, work[f]["push"])
    <3>1. j + 1 \in 1..m+1
      BY Shift
    <3>2. work[f]["push"][j + 1].lsn = n
      BY <1>0, <2>1
    <3> QED
      BY <1>m, <3>1, <3>2 DEF Among
  <2>2. ASSUME NEW i \in 1..m+1, work[f]["push"][i].lsn = n
        PROVE  \E j \in 1..m : work'[f]["push"][j].lsn = n
    <3>1. i # 1
      BY <2>2
    <3>2. i - 1 \in 1..m /\ (i - 1) + 1 = i
      BY <1>m, <3>1
    <3> QED
      BY <1>0, <2>2, <3>2
  <2> QED
    BY <1>0, <1>m, <2>1, <2>2 DEF Among
<1>2. Reaches(n, work[f]["push"])' => Reaches(n, work[f]["push"])
  <2>1. ASSUME NEW j \in 1..m, work'[f]["push"][j].lsn >= n
        PROVE  Reaches(n, work[f]["push"])
    <3>1. j + 1 \in 1..m+1
      BY Shift
    <3>2. work[f]["push"][j + 1].lsn >= n
      BY <1>0, <2>1
    <3> QED
      BY <1>m, <3>1, <3>2 DEF Reaches
  <2> QED
    BY <1>0, <2>1 DEF Reaches
<1>3. \A p : Posted(f, p, n) <=> Posted(f, p, n)'
  BY <1>1 DEF Posted, Among
<1>4. Batched(f, n) <=> Batched(f, n)'
  BY <1>3 DEF Batched, Among
<1>5. \A j : Queued(f, j, n) <=> Queued(f, j, n)'
  BY <1>4 DEF Queued
<1>6. Reaches(n, work[f]["push"])' => Among(n, work[f]["push"])'
  BY <1>1, <1>2 DEF Coming
<1>7. \A p \in 1..Len(posts'[f]) : Reaches(n, posts[f][p].changes)' => Posted(f, p, n)'
  BY <1>3 DEF Coming, Reaches
<1>8. f \in todo' /\ Reaches(n, batch.changes)' => Batched(f, n)'
  BY <1>4 DEF Coming, Reaches
<1>9. \A j \in 1..Len(queue') : queue'[j].lsn >= n => Queued(f, j, n)'
  BY <1>5 DEF Coming
<1>10. Queued(f, Len(queue), n)'
  BY <1>5 DEF Coming, Queued
<1> QED
  BY <1>6, <1>7, <1>8, <1>9, <1>10 DEF Coming
-----------------------------------------------------------------------------
(* A smooth follower, and one that synchronises, stay in step. *)

LEMMA CountsKept ==
  ASSUME TypeOK, WalNews, Chronicle, [Next]_vars, NEW k
  PROVE  /\ Counted(k) => Counted(k)'
         /\ Incremented(k) => Incremented(k)'
<1>1. /\ log \in Seq(Change) /\ Len(log) = clock
      /\ clock \in Nat /\ clock' \in Nat /\ clock <= clock'
      /\ \A n \in 1..clock : log'[n] = log[n]
  BY PastKept DEF Chronicle, TypeOK
<1>2. log' \in Seq(Change) /\ Len(log') = clock'
  <2>1. Len(log') = clock'
    BY ChronicleStep DEF Chronicle
  <2>2. log' = log \/ \E c \in Change : log' = Append(log, c)
    <3> USE DEF past, history
    <3>1. CASE UNCHANGED vars
      BY <3>1 DEF vars
    <3>2. ASSUME NEW r \in Request, Write(r)
          PROVE  \E c \in Change : log' = Append(log, c)
      BY <3>2, WriteChange DEF Write, Made1
    <3>3. CASE Dispatch
      BY <3>3 DEF Dispatch
    <3>4. CASE Rotate
      BY <3>4 DEF Rotate
    <3>5. CASE LeaderRestart
      BY <3>5 DEF LeaderRestart
    <3>6. ASSUME NEW f \in Followers, PostTo(f) \/ Pull(f) \/ Ages(f) \/ Repair(f) \/ FollowerRestart(f)
          PROVE  log' = log
      BY <3>6 DEF PostTo, Pull, Ages, Repair, FollowerRestart
    <3>7. ASSUME NEW f \in Followers, NEW i \in DOMAIN posts[f], Serve(f, i)
          PROVE  log' = log
      BY <3>7 DEF Serve
    <3>8. ASSUME NEW f \in Followers, NEW t \in Threads,
                 Check(f, t) \/ Do(f, t) \/ Mark(f, t)
          PROVE  log' = log
      BY <3>8 DEF Check, Do, Mark
    <3>9. ASSUME NEW f \in Followers, NEW t \in Threads,
                 SyncDump(f, t) \/ (\E k1 \in Keys : SyncLoad(f, t, k1)) \/ SyncMark(f, t) \/ SyncFails(f, t)
          PROVE  log' = log
      BY <3>9 DEF SyncDump, SyncLoad, SyncMark, SyncFails
    <3> QED
      BY <3>1, <3>2, <3>3, <3>4, <3>5, <3>6, <3>7, <3>8, <3>9 DEF Next, Continues
  <2>3. log' \in Seq(Change)
    BY <1>1, <2>2
  <2> QED
    BY <2>1, <2>3
<1>3. DOMAIN log = 1..clock /\ DOMAIN log' = 1..clock'
  BY <1>1, <1>2
<1>4. \A j \in 1..clock : j \in 1..clock'
  BY <1>1
<1>5. Counted(k) => Counted(k)'
  BY <1>1, <1>2, <1>4 DEF Counted
<1>6. Incremented(k) => Incremented(k)'
  BY <1>1, <1>3, <1>4 DEF Incremented
<1> QED
  BY <1>5, <1>6

\* Where a smooth follower is, and the change it is at.
LEMMA AtFacts ==
  ASSUME TypeOK, WorkFits, Chronicle, Unbroken, WorkLogged, NEW f \in Followers, Smooth(f)
  PROVE  /\ At(f) \in 0..clock /\ applied[f] \in Nat /\ lsn = clock /\ clock \in Nat
         /\ step[f]["push"] \in {"do", "mark"} =>
              /\ applied[f] + 1 \in 1..clock
              /\ work[f]["push"][1] = log[applied[f] + 1]
<1>1. /\ applied[f] \in Nat /\ lsn = clock /\ clock \in Nat /\ "push" \in Threads
      /\ applied[f] <= clock
  BY DEF TypeOK, Unbroken, Smooth, Threads
<1>2. ASSUME step[f]["push"] \in {"do", "mark"}
      PROVE  applied[f] + 1 \in 1..clock /\ work[f]["push"][1] = log[applied[f] + 1]
  <2>1. work[f]["push"] # <<>> /\ Len(work[f]["push"]) \in Nat \ {0}
    BY <1>1, <1>2, AtWorkFacts
  <2>2. 1 \in 1..Len(work[f]["push"])
    BY <2>1
  <2>3. Logged(work[f]["push"][1])
    BY <2>2 DEF WorkLogged
  <2>4. work[f]["push"][1].lsn = applied[f] + 1
    BY <1>2 DEF Smooth
  <2> QED
    BY <2>3, <2>4 DEF Logged
<1>3. At(f) \in 0..clock
  <2>1. CASE step[f]["push"] = "mark"
    BY <1>1, <1>2, <2>1 DEF At
  <2>2. CASE step[f]["push"] # "mark"
    BY <1>1, <2>2 DEF At
  <2> QED
    BY <2>1, <2>2
<1> QED
  BY <1>1, <1>2, <1>3

\* Nothing else is at work at a follower that is in step.
LEMMA AloneAtWork ==
  ASSUME TypeOK, NEW f \in Followers, NEW t \in Threads, step[f][t] \notin {"idle", "sync"}
  PROVE  /\ Smooth(f) => t = "push" /\ step[f][t] # "load"
         /\ \A u \in Threads : Loads(f, u) => t = u /\ step[f][t] = "load"
BY DEF Smooth, Loads, Quiet

\* A follower that no step touches, but for a thread that decides to synchronise, or
\* has found nothing to do.
LEMMA Untouched ==
  ASSUME TypeOK, WorkFits, WalNews, Chronicle, InTransit, [Next]_vars, Unbroken',
         NEW f \in Followers, InStepAt(f),
         \A t \in Threads : \/ step'[f][t] = step[f][t]
                            \/ /\ t # "push" /\ step[f][t] = "idle"
                               /\ step'[f][t] \in {"idle", "sync"},
         work'[f]["push"] = work[f]["push"],
         applied'[f] = applied[f], data'[f] = data[f],
         image'[f] = image[f], left'[f] = left[f],
         course'[f] \in {course[f], "rough"},
         lsn <= lsn',
         \A n \in Nat : n <= lsn' /\ (n <= lsn => Coming(f, n)) => Coming(f, n)'
  PROVE  InStepAt(f)'
<1>0. /\ lsn = clock /\ clock \in Nat /\ lsn' \in Nat
      /\ \A n \in 1..clock+1 : made'[n] = made[n]
      /\ "push" \in Threads
  BY PastKept, TypeStep DEF Unbroken, TypeOK, Threads
<1>1. ASSUME NEW b \in Nat, Complete(f, b)
      PROVE  \A n \in b+1..lsn' : Coming(f, n)'
  <2>1. TAKE n \in b+1..lsn'
  <2>2. n \in Nat /\ n <= lsn'
    BY <1>0
  <2>3. n <= lsn => n \in b+1..lsn
    BY <1>0
  <2>4. n <= lsn => Coming(f, n)
    BY <1>1, <2>3 DEF Complete
  <2> QED
    BY <2>2, <2>4
<1>2. step'[f]["push"] = step[f]["push"]
  BY <1>0
<1>3. ASSUME course'[f] = "smooth" PROVE Smooth(f)'
  <2>1. Smooth(f)
    BY <1>3 DEF InStepAt
  <2>2. Unbroken /\ WorkLogged
    BY PastKept DEF InTransit
  <2>3. At(f) \in 0..clock /\ applied[f] \in Nat
    BY <2>1, <2>2, AtFacts
  <2>4. At(f)' = At(f)
    BY <1>2 DEF At
  <2>5. \A t \in Threads \ {"push"} : step'[f][t] \in {"idle", "sync"}
    BY <2>1 DEF Smooth
  <2>6. /\ step'[f]["push"] # "load" /\ applied'[f] <= lsn'
        /\ step'[f]["push"] \in {"do", "mark"} => work'[f]["push"][1].lsn = applied'[f] + 1
    <3>1. applied[f] <= lsn'
      BY <1>0, <2>1, <2>3 DEF Smooth
    <3> QED
      BY <1>2, <2>1, <3>1 DEF Smooth
  <2>7. Complete(f, applied[f])'
    <3>1. Complete(f, applied[f])
      BY <2>1 DEF Smooth
    <3>2. \A n \in applied[f]+1..lsn' : Coming(f, n)'
      BY <1>1, <2>3, <3>1
    <3> QED
      BY <3>2 DEF Complete
  <2>8. made'[At(f) + 1] = made[At(f) + 1]
    BY <1>0, <2>3
  <2>9. Follows(f)'
    <3>1. \A k \in Keys : ~Incremented(k)' => ~Incremented(k)
      BY CountsKept
    <3>2. \A k \in Keys : ~Counted(k)' => ~Counted(k)
      BY CountsKept
    <3>3. Contents(data[f])' = Contents(data[f])
      BY DEF Contents
    <3>4. Follows(f)
      BY <2>1 DEF Smooth
    <3> QED
      BY <2>4, <2>8, <3>1, <3>2, <3>3, <3>4 DEF Follows
  <2> QED
    BY <2>5, <2>6, <2>7, <2>9 DEF Smooth
<1>4. ASSUME course'[f] = "syncing" PROVE \E t \in Threads : Loads(f, t)'
  <2>1. PICK t \in Threads : Loads(f, t)
    BY <1>4 DEF InStepAt
  <2>2. step'[f][t] = "load"
    BY <2>1 DEF Loads
  <2>3. Quiet(f, t)'
    BY <2>1 DEF Loads, Quiet
  <2>4. PICK b \in Nat : b = image[f][t].lsn
    BY <2>1 DEF Loads, TypeOK, Image
  <2>5. b <= lsn' /\ b + 1 \in 1..clock+1
    BY <1>0, <2>1, <2>4 DEF Loads
  <2>6. Complete(f, image[f][t].lsn)'
    <3>1. Complete(f, b)
      BY <2>1, <2>4 DEF Loads
    <3>2. \A n \in b+1..lsn' : Coming(f, n)'
      BY <1>1, <3>1
    <3> QED
      BY <2>4, <3>2 DEF Complete
  <2>7. made'[b + 1] = made[b + 1]
    BY <1>0, <2>5
  <2>8. \A k \in Keys :
       /\ Contents(image'[f][t].data)[k] = made'[b + 1][k]
       /\ image'[f][t].data[k] # None => image'[f][t].data[k].ts <= b
       /\ k \notin left'[f][t] => data'[f][k] = image'[f][t].data[k]
    BY <2>1, <2>4, <2>7 DEF Loads
  <2>9. Contents(image[f][t].data)' = Contents(image'[f][t].data)
    BY DEF Contents
  <2>10. image'[f][t] # None /\ image'[f][t].lsn = b
    BY <2>1, <2>4 DEF Loads
  <2>11. Loads(f, t)'
    BY <2>2, <2>3, <2>5, <2>6, <2>8, <2>9, <2>10 DEF Loads
  <2> QED
    BY <2>11
<1> QED
  BY <1>3, <1>4 DEF InStepAt
LEMMA RoughInStep ==
  ASSUME NEW f \in Followers, course'[f] = "rough"
  PROVE  InStepAt(f)'
BY DEF InStepAt

\* The leader writes.
LEMMA WriteInStep ==
  ASSUME TypeOK, WorkFits, WalNews, Chronicle, InTransit, [Next]_vars, Unbroken',
         NEW r \in Request, Write(r), NEW f \in Followers, InStepAt(f)
  PROVE  InStepAt(f)'
<1> DEFINE c == Made1(r)
<1>1. c \in Change /\ c.lsn = lsn + 1
  BY WriteChange DEF Made1
<1>2. /\ lsn' = lsn + 1 /\ Enqueue(c)
      /\ UNCHANGED <<batch, todo, posts, work, step, applied, data, image, left>>
  BY DEF Write, Made1, contents, threads
<1> HIDE DEF c
<1>3. CASE course' = [g \in Followers |-> "rough"]
  BY <1>3, RoughInStep
<1>4. CASE queue' = Append(queue, c) /\ course' = course
  <2>1. lsn \in Nat /\ lsn = clock
    BY PastKept DEF Unbroken
  <2>2. ASSUME NEW n \in Nat, n <= lsn', n <= lsn => Coming(f, n)
        PROVE  Coming(f, n)'
    <3>1. CASE n <= lsn
      BY <1>1, <1>2, <1>4, <2>2, <3>1, ComingWrite
    <3>2. CASE n > lsn
      <4>0. c.lsn = n
        BY <1>1, <1>2, <2>1, <2>2, <3>2
      <4>1. \A x : Logged(x) => ~(x.lsn >= n)
        BY <2>1, <3>2 DEF Logged
      <4>2. /\ ~Reaches(n, work[f]["push"]) /\ ~Reaches(n, batch.changes)
            /\ \A p \in 1..Len(posts[f]) : ~Reaches(n, posts[f][p].changes)
            /\ \A i \in 1..Len(queue) : ~(queue[i].lsn >= n)
        BY <4>1 DEF InTransit, QueueLogged, BatchLogged, PostsLogged, WorkLogged, Reaches
      <4> QED
        BY <1>1, <1>2, <1>4, <4>0, <4>2, ComingWrite
    <3> QED
      BY <2>1, <3>1, <3>2
  <2>3. lsn <= lsn'
    BY <1>2, <2>1
  <2> QED
    BY <1>2, <1>4, <2>2, <2>3, Untouched
<1> QED
  BY <1>1, <1>2, <1>3, <1>4, EnqueueFacts

\* The leader's thread takes a batch.
LEMMA DispatchInStep ==
  ASSUME TypeOK, WorkFits, WalNews, Chronicle, InTransit, [Next]_vars, Unbroken',
         Dispatch, NEW f \in Followers, InStepAt(f)
  PROVE  InStepAt(f)'
<1>1. UNCHANGED <<lsn, course, step, work, applied, data, image, left>>
  BY DispatchFacts DEF leader, threads, contents, history
<1>2. \A n \in Nat : Coming(f, n) => Coming(f, n)'
  BY ComingDispatch
<1>3. lsn \in Nat /\ lsn <= lsn
  BY DEF TypeOK
<1> QED
  BY <1>1, <1>2, <1>3, Untouched

\* ... and posts it.
LEMMA PostInStep ==
  ASSUME TypeOK, WorkFits, WalNews, Chronicle, InTransit, [Next]_vars, Unbroken',
         NEW g \in Followers, PostTo(g), NEW f \in Followers, InStepAt(f)
  PROVE  InStepAt(f)'
<1>1. /\ UNCHANGED <<lsn, queue, step, work, applied, data, image, left>>
      /\ g \in todo /\ todo' = todo \ {g}
      /\ batch' = batch \/ (batch' = NoPost /\ todo' = {})
  BY PostToFacts DEF leader, threads, contents
<1>0. lsn \in Nat /\ lsn <= lsn
  BY DEF TypeOK
<1>2. CASE f # g
  <2>1. posts'[f] = posts[f] /\ course'[f] = course[f]
    BY <1>2, PostToFacts
  <2>2. /\ f \in todo' => f \in todo /\ batch' = batch
        /\ f \in todo => f \in todo'
    BY <1>1, <1>2
  <2>3. \A n \in Nat : Coming(f, n) => Coming(f, n)'
    BY <1>1, <2>1, <2>2, ComingKept
  <2> QED
    BY <1>0, <1>1, <2>1, <2>3, Untouched
<1>3. CASE /\ f = g
           /\ Len(posts'[f]) = Len(posts[f]) + 1
           /\ \A p \in 1..Len(posts[f]) : posts'[f][p] = posts[f][p]
           /\ posts'[f][Len(posts[f]) + 1] = batch
           /\ course' = course
  <2>1. \A n \in Nat : Coming(f, n) => Coming(f, n)'
    BY <1>1, <1>3, ComingPost
  <2> QED
    BY <1>0, <1>1, <1>3, <2>1, Untouched
<1>4. CASE course'[f] = "rough"
  BY <1>4, RoughInStep
<1> QED
  BY <1>2, <1>3, <1>4, PostToFacts

\* A follower takes up a post: in order and undisturbed it stays smooth.
LEMMA ServeInStep ==
  ASSUME TypeOK, WorkFits, WalNews, Chronicle, InTransit, [Next]_vars, Unbroken',
         NEW f \in Followers, NEW i \in DOMAIN posts[f], Serve(f, i), InStepAt(f)
  PROVE  InStepAt(f)'
<1>1. /\ UNCHANGED <<lsn, queue, batch, todo, applied, data, image, left, log, made>>
      /\ step[f]["push"] = "idle" /\ step'[f]["push"] \in {"idle", "check"}
      /\ \A t \in Threads : t # "push" => step'[f][t] = step[f][t]
      /\ Len(posts'[f]) = Len(posts[f]) - 1
      /\ i \in 1..Len(posts[f])
      /\ course'[f] = IF i = 1 /\ Quiet(f, "push") THEN course[f] ELSE "rough"
  BY ServeFacts DEF leader, sender, contents, env, past
<1>2. CASE course'[f] = "rough"
  BY <1>2, RoughInStep
<1>3. CASE i = 1 /\ Quiet(f, "push") /\ course'[f] = course[f]
  <2>1. Len(posts[f]) \in Nat /\ Len(posts[f]) >= 1
    <3>1. Len(posts[f]) \in Nat
      BY DEF TypeOK
    <3> QED
      BY <1>1, <3>1
  <2>2. \A p \in 1..Len(posts[f])-1 : posts'[f][p] = posts[f][p + 1]
    <3>1. \A p \in 1..Len(posts[f])-1 :
            posts'[f][p] = IF p < i THEN posts[f][p] ELSE posts[f][p + 1]
      BY ServeFacts
    <3>2. \A p \in 1..Len(posts[f])-1 : ~(p < i)
      BY <1>3, <2>1
    <3> QED
      BY <3>1, <3>2
  <2>3. Sorts(work'[f]["push"], posts[f][1].changes, 1..Len(posts[f][1].changes))
    BY <1>3, ServeFacts
  <2>4. work[f]["push"] = <<>> /\ "push" \in Threads
    BY <1>1 DEF WorkFits, Fits, Threads
  <2>5. \A n \in Nat : Coming(f, n) => Coming(f, n)'
    BY <1>1, <2>1, <2>2, <2>3, <2>4, ComingServe
  <2>6. course[f] # "syncing"
    <3>1. \A t \in Threads : step[f][t] # "load"
      BY <1>1, <1>3 DEF Quiet
    <3> QED
      BY <3>1 DEF InStepAt, Loads
  <2>7. ASSUME course[f] = "smooth" PROVE Smooth(f)'
    <3>1. Smooth(f)
      BY <2>7 DEF InStepAt
    <3>2. At(f)' = At(f)
      BY <1>1 DEF At
    <3>3. Follows(f)'
      <4>1. \A k : Incremented(k)' <=> Incremented(k)
        BY <1>1 DEF Incremented
      <4>2. \A k : Counted(k)' <=> Counted(k)
        BY <1>1 DEF Counted
      <4>3. Contents(data[f])' = Contents(data[f])
        BY <1>1 DEF Contents
      <4> QED
        BY <1>1, <3>1, <3>2, <4>1, <4>2, <4>3 DEF Follows, Smooth
    <3>4. Complete(f, applied[f])'
      <4>1. applied[f] \in Nat /\ lsn \in Nat
        BY DEF TypeOK
      <4>2. \A n \in applied[f]+1..lsn : n \in Nat
        BY <4>1
      <4>3. \A n \in applied[f]+1..lsn : Coming(f, n)'
        BY <2>5, <3>1, <4>2 DEF Smooth, Complete
      <4> QED
        BY <1>1, <4>3 DEF Complete
    <3>5. /\ \A t \in Threads \ {"push"} : step'[f][t] \in {"idle", "sync"}
          /\ step'[f]["push"] \notin {"load", "do", "mark"}
          /\ applied'[f] <= lsn'
      BY <1>1, <3>1 DEF Smooth
    <3> QED
      BY <3>3, <3>4, <3>5 DEF Smooth
  <2> QED
    BY <1>3, <2>6, <2>7 DEF InStepAt
<1> QED
  BY <1>1, <1>2, <1>3
\* Steps of a thread that applies changes: it is the one that serves posts, or the
\* follower is in no course.
LEMMA OnlyPush ==
  ASSUME TypeOK, NEW f \in Followers, NEW t \in Threads, InStepAt(f),
         step[f][t] \in {"check", "do", "mark"}
  PROVE  /\ course[f] = "smooth" => Smooth(f) /\ t = "push"
         /\ course[f] # "syncing"
<1>1. step[f][t] \notin {"idle", "sync"} /\ step[f][t] # "load"
  OBVIOUS
<1> QED
  BY <1>1, AloneAtWork DEF InStepAt

\* The next change of the serving thread of a smooth follower is the one after those
\* applied, unless it has been applied.
LEMMA NextFacts ==
  ASSUME TypeOK, WorkFits, Chronicle, Unbroken, InTransit,
         NEW f \in Followers, Smooth(f), step[f]["push"] \in {"check", "do", "mark"}
  PROVE  /\ Next1(f, "push") = work[f]["push"][1]
         /\ Next1(f, "push") \in Change
         /\ Next1(f, "push").lsn \in 1..clock
         /\ Next1(f, "push") = log[Next1(f, "push").lsn]
         /\ Next1(f, "push").lsn > applied[f] => Next1(f, "push").lsn = applied[f] + 1
<1>0. "push" \in Threads
  BY DEF Threads
<1>1. /\ Next1(f, "push") = work[f]["push"][1] /\ Next1(f, "push") \in Change
      /\ Len(work[f]["push"]) \in Nat \ {0}
  BY <1>0, AtWorkFacts
<1>2. 1 \in 1..Len(work[f]["push"])
  BY <1>1
<1>3. /\ Next1(f, "push").lsn \in 1..clock
      /\ Next1(f, "push") = log[Next1(f, "push").lsn]
  BY <1>1, <1>2 DEF InTransit, WorkLogged, Logged
<1>4. lsn = clock /\ clock \in Nat /\ applied[f] \in Nat
  BY DEF Unbroken, TypeOK
<1>5. ASSUME Next1(f, "push").lsn > applied[f]
      PROVE  Next1(f, "push").lsn = applied[f] + 1
  <2>1. PICK l \in Nat : l = Next1(f, "push").lsn
    BY <1>3, <1>4
  <2>2. applied[f] + 1 \in applied[f]+1..lsn /\ l >= applied[f] + 1
    BY <1>3, <1>4, <1>5, <2>1
  <2>3. Coming(f, applied[f] + 1)
    BY <2>2 DEF Smooth, Complete
  <2>4. Reaches(applied[f] + 1, work[f]["push"])
    BY <1>1, <1>2, <2>1, <2>2 DEF Reaches
  <2>5. PICK i \in 1..Len(work[f]["push"]) : work[f]["push"][i].lsn = applied[f] + 1
    BY <2>3, <2>4 DEF Coming, Among
  <2>6. \A m, n \in 1..Len(work[f]["push"]) : m < n => work[f]["push"][m].lsn <= work[f]["push"][n].lsn
    BY <1>0 DEF WorkFits, Fits
  <2>7. l <= applied[f] + 1
    <3>1. CASE i = 1
      BY <1>1, <1>4, <2>1, <2>5, <3>1
    <3>2. CASE i # 1
      <4>1. 1 < i
        BY <3>2
      <4>2. work[f]["push"][1].lsn <= work[f]["push"][i].lsn
        BY <1>2, <2>6, <4>1
      <4> QED
        BY <1>1, <2>1, <2>5, <4>2
    <3> QED
      BY <3>1, <3>2
  <2> QED
    BY <1>4, <2>1, <2>2, <2>7
<1> QED
  BY <1>1, <1>3, <1>5

\* The counts and the contents that are not changed.
LEMMA SameCounts ==
  ASSUME NEW f \in Followers, UNCHANGED past
  PROVE  /\ \A k : Incremented(k)' <=> Incremented(k)
         /\ \A k : Counted(k)' <=> Counted(k)
         /\ made' = made
BY DEF past, Incremented, Counted

\* A change that loses a conflict has a key that was counted: its keys are incremented.
LEMMA LosersAreIncremented ==
  ASSUME TypeOK, Chronicle, Unbroken, NEW f \in Followers, Follows(f),
         step[f]["push"] = "check", NEW n \in 1..clock, n = applied[f] + 1,
         ~ShouldApply(data[f], log[n])
  PROVE  \A k \in log[n].keys : Incremented(k)
<1>t. log \in Seq(Change) /\ clock \in Nat /\ applied[f] \in Nat /\ data[f] \in Data
  BY DEF TypeOK
<1>l. Len(log) = clock /\ log[n].ts = n /\ log[n].lsn = n
  BY DEF Chronicle
<1>1. /\ log \in Seq(Change) /\ Len(log) = clock /\ clock \in Nat /\ DOMAIN log = 1..clock
      /\ log[n].ts = n /\ log[n].lsn = n /\ applied[f] \in Nat /\ data[f] \in Data
  BY <1>t, <1>l
<1>2. log[n] \in Change /\ log[n].keys \subseteq Keys
  BY <1>1, ChangeFields
<1>3. PICK x \in log[n].keys : ~ResolveConflict(data[f], x, n)
  BY <1>1 DEF ShouldApply
<1>4. n # None
  BY <1>1, ReplicationAssumption
<1>5. data[f][x] # None /\ ~(n > data[f][x].ts)
  BY <1>3, <1>4 DEF ResolveConflict
<1>6. data[f][x] \in Item /\ data[f][x].ts \in Nat
  BY <1>1, <1>2, <1>5, ContentsFacts, ItemFields
<1>7. At(f) = applied[f]
  BY DEF At
<1>8. Counted(x)
  <2>1. SUFFICES ASSUME ~Counted(x) PROVE FALSE
    OBVIOUS
  <2>2. data[f][x].ts <= applied[f]
    BY <1>2, <1>5, <1>7, <2>1 DEF Follows
  <2> QED
    BY <1>1, <1>5, <1>6, <2>2
<1>9. PICK j \in 1..Len(log) : log[j].op = "incr" /\ x \in log[j].keys
  BY <1>8 DEF Counted
<1>10. n \in DOMAIN log /\ j \in DOMAIN log /\ log[n].keys \cap log[j].keys # {}
  BY <1>1, <1>9
<1> QED
  BY <1>9, <1>10 DEF Incremented

LEMMA CheckInStep ==
  ASSUME TypeOK, WorkFits, WalNews, Chronicle, InTransit, [Next]_vars, Unbroken',
         NEW f \in Followers, NEW t \in Threads, Check(f, t), InStepAt(f)
  PROVE  InStepAt(f)'
<1>0. /\ step[f][t] = "check"
      /\ UNCHANGED <<course, data, applied, lsn, queue, batch, todo, posts, image, left, past>>
  BY DEF Check, leader, sender, contents, history
<1>1. course[f] # "syncing" /\ (course[f] = "smooth" => Smooth(f) /\ t = "push")
  BY <1>0, OnlyPush
<1>2. ASSUME course[f] = "smooth" PROVE Smooth(f)'
  <2>0. Smooth(f) /\ t = "push" /\ step[f]["push"] = "check" /\ "push" \in Threads
    BY <1>0, <1>1, <1>2 DEF Threads
  <2> DEFINE c == Next1(f, "push")
  <2>u. Unbroken
    BY PastKept
  <2>1. /\ c = work[f]["push"][1] /\ c \in Change /\ c.lsn \in 1..clock /\ c = log[c.lsn]
        /\ c.lsn > applied[f] => c.lsn = applied[f] + 1
    BY <2>0, <2>u, NextFacts
  <2>2. /\ applied[f] \in Nat /\ lsn \in Nat /\ clock \in Nat
        /\ step \in [Followers -> [Threads -> {"idle", "check", "do", "mark", "sync", "load"}]]
    BY DEF TypeOK
  <2>3. \/ /\ c.lsn <= applied[f]
           /\ work' = [work EXCEPT ![f]["push"] = Tail(work[f]["push"])]
           /\ step' = [step EXCEPT ![f]["push"] =
                         IF Len(work[f]["push"]) = 1 THEN "idle" ELSE "check"]
        \/ /\ c.lsn > applied[f]
           /\ step' = [step EXCEPT ![f]["push"] =
                         IF ShouldApply(data[f], c) THEN "do" ELSE "mark"]
           /\ work' = work
    BY <2>0 DEF Check
  <2> HIDE DEF c
  <2>4. \A u \in Threads \ {"push"} : step'[f][u] = step[f][u]
    BY <2>0, <2>2, <2>3
  <2>5. \A u \in Threads \ {"push"} : step'[f][u] \in {"idle", "sync"}
    BY <2>0, <2>4 DEF Smooth
  <2>6. Contents(data[f])' = Contents(data[f])
    BY <1>0 DEF Contents
  <2>s. /\ \A k : Incremented(k)' <=> Incremented(k)
        /\ \A k : Counted(k)' <=> Counted(k)
        /\ made' = made
    BY <1>0, SameCounts
  <2>7. At(f) = applied[f] /\ Follows(f) /\ applied'[f] <= lsn'
    BY <1>0, <2>0 DEF At, Smooth
  <2>8. ASSUME step'[f]["push"] # "mark" PROVE Follows(f)'
    <3>1. At(f)' = At(f)
      BY <1>0, <2>7, <2>8 DEF At
    <3> QED
      BY <1>0, <2>6, <2>7, <2>s, <3>1 DEF Follows
  <2>9. CASE /\ c.lsn <= applied[f]
             /\ work' = [work EXCEPT ![f]["push"] = Tail(work[f]["push"])]
             /\ step' = [step EXCEPT ![f]["push"] =
                           IF Len(work[f]["push"]) = 1 THEN "idle" ELSE "check"]
    <3>1. step'[f]["push"] \in {"idle", "check"}
      <4>1. step'[f]["push"] = IF Len(work[f]["push"]) = 1 THEN "idle" ELSE "check"
        BY <2>0, <2>2, <2>9
      <4> QED
        BY <4>1
    <3>2. /\ Len(work[f]["push"]) \in Nat \ {0}
          /\ Len(work'[f]["push"]) = Len(work[f]["push"]) - 1
          /\ \A j \in 1..Len(work[f]["push"])-1 : work'[f]["push"][j] = work[f]["push"][j + 1]
      BY <2>0, <2>9, AdvanceFacts
    <3>3. ASSUME NEW n \in applied[f]+1..lsn PROVE Coming(f, n)'
      <4>1. Coming(f, n)
        BY <2>0 DEF Smooth, Complete
      <4>2. n \in Nat /\ work[f]["push"][1].lsn < n /\ work[f]["push"][1].lsn \in Nat
        <5>1. PICK l \in Nat : l = c.lsn
          BY <2>1, <2>2
        <5>2. n \in Nat /\ l < n
          BY <2>2, <2>9, <5>1
        <5> QED
          BY <2>1, <5>1, <5>2
      <4> QED
        BY <1>0, <3>2, <4>1, <4>2, ComingAdvance
    <3>4. Complete(f, applied[f])'
      BY <1>0, <3>3 DEF Complete
    <3>5. Follows(f)'
      BY <2>8, <3>1
    <3> QED
      BY <2>5, <2>7, <3>1, <3>4, <3>5 DEF Smooth
  <2>10. CASE /\ c.lsn > applied[f]
              /\ step' = [step EXCEPT ![f]["push"] =
                            IF ShouldApply(data[f], c) THEN "do" ELSE "mark"]
              /\ work' = work
    <3>0. c.lsn = applied[f] + 1 /\ applied[f] + 1 \in 1..clock /\ c = log[applied[f] + 1]
      BY <2>1, <2>10
    <3>1. step'[f]["push"] = IF ShouldApply(data[f], c) THEN "do" ELSE "mark"
      BY <2>0, <2>2, <2>10
    <3>2. step'[f]["push"] \in {"do", "mark"}
      BY <3>1
    <3>3. ASSUME NEW n \in applied[f]+1..lsn PROVE Coming(f, n)'
      <4>1. Coming(f, n)
        BY <2>0 DEF Smooth, Complete
      <4> QED
        BY <1>0, <2>10, <4>1, ComingKept
    <3>4. Complete(f, applied[f])'
      BY <1>0, <3>3 DEF Complete
    <3>5. work'[f]["push"][1].lsn = applied'[f] + 1
      BY <1>0, <2>1, <2>10, <3>0
    <3>6. Follows(f)'
      <4>1. CASE step'[f]["push"] # "mark"
        BY <2>8, <4>1
      <4>2. CASE step'[f]["push"] = "mark"
        <5>1. ~ShouldApply(data[f], c)
          BY <3>1, <4>2
        <5>2. PICK a \in Nat : a = applied[f] + 1
          BY <2>2
        <5>3. a \in 1..clock /\ c = log[a]
          BY <3>0, <5>2
        <5>4. \A k \in log[a].keys : Incremented(k)
          BY <2>0, <2>7, <2>u, <5>1, <5>2, <5>3, LosersAreIncremented
        <5>5. At(f)' = a
          BY <1>0, <4>2, <5>2 DEF At
        <5>6. ASSUME NEW k \in Keys, ~Incremented(k)
              PROVE  Contents(data[f])[k] = made[a + 1][k]
          <6>1. k \notin log[a].keys
            BY <5>4, <5>6
          <6>2. made[a + 1][k] = Effect(made[a][k], log[a], k)
            BY <2>u, <5>3 DEF Chronicle
          <6>3. made[a + 1][k] = made[a][k]
            BY <6>1, <6>2 DEF Effect
          <6>4. Contents(data[f])[k] = made[a][k]
            BY <2>7, <5>2, <5>6 DEF Follows
          <6> QED
            BY <6>3, <6>4
        <5>7. ASSUME NEW k \in Keys, ~Counted(k), data[f][k] # None
              PROVE  data[f][k].ts <= a
          <6>1. data[f][k].ts <= applied[f]
            BY <2>7, <5>7 DEF Follows
          <6>2. data[f][k].ts \in Nat
            <7>1. data[f] \in Data
              BY DEF TypeOK
            <7> QED
              BY <5>7, <7>1, ContentsFacts, ItemFields
          <6> QED
            BY <2>2, <5>2, <6>1, <6>2
        <5>8. \A k \in Keys : ~Incremented(k)' => Contents(data[f])'[k] = made'[a + 1][k]
          BY <2>6, <2>s, <5>6
        <5>9. \A k \in Keys : ~Counted(k)' /\ data'[f][k] # None => data'[f][k].ts <= a
          BY <1>0, <2>s, <5>7
        <5> QED
          BY <5>5, <5>8, <5>9 DEF Follows
      <4> QED
        BY <4>1, <4>2
    <3> QED
      BY <2>5, <2>7, <3>2, <3>4, <3>5, <3>6 DEF Smooth
  <2> QED
    BY <2>3, <2>9, <2>10
<1> QED
  BY <1>0, <1>1, <1>2 DEF InStepAt
LEMMA DoInStep ==
  ASSUME TypeOK, WorkFits, WalNews, Chronicle, InTransit, [Next]_vars, Unbroken',
         NEW f \in Followers, NEW t \in Threads, Do(f, t), InStepAt(f)
  PROVE  InStepAt(f)'
<1>0. /\ step[f][t] = "do"
      /\ data' = [data EXCEPT ![f] = After(data[f], Next1(f, t), clock)]
      /\ step' = [step EXCEPT ![f][t] = "mark"]
      /\ UNCHANGED <<course, applied, lsn, queue, batch, todo, posts, work, past>>
  BY DEF Do, leader, sender, history
<1>1. course[f] # "syncing" /\ (course[f] = "smooth" => Smooth(f) /\ t = "push")
  BY <1>0, OnlyPush
<1>2. ASSUME course[f] = "smooth" PROVE Smooth(f)'
  <2>0. Smooth(f) /\ t = "push" /\ step[f]["push"] = "do" /\ "push" \in Threads
    BY <1>0, <1>1, <1>2 DEF Threads
  <2> DEFINE c == Next1(f, "push")
  <2>u. Unbroken
    BY PastKept
  <2>1. /\ c = work[f]["push"][1] /\ c \in Change /\ c.lsn \in 1..clock /\ c = log[c.lsn]
    BY <2>0, <2>u, NextFacts
  <2>2. /\ applied[f] \in Nat /\ lsn \in Nat /\ clock \in Nat /\ data[f] \in Data
        /\ Len(log) = clock
    BY DEF TypeOK, Chronicle
  <2>3. work[f]["push"][1].lsn = applied[f] + 1
    BY <2>0 DEF Smooth
  <2>4. PICK a \in Nat : a = applied[f] + 1
    BY <2>2
  <2>5. a \in 1..clock /\ c = log[a] /\ c.ts = a
    BY <2>1, <2>3, <2>4 DEF Chronicle
  <2>6. data'[f] = After(data[f], c, clock)
    BY <1>0, <2>0 DEF TypeOK
  <2>7. step'[f]["push"] = "mark" /\ \A u \in Threads \ {"push"} : step'[f][u] = step[f][u]
    BY <1>0, <2>0 DEF TypeOK
  <2> HIDE DEF c
  <2>8. At(f) = applied[f] /\ Follows(f)
    BY <2>0 DEF At, Smooth
  <2>9. At(f)' = a
    BY <1>0, <2>4, <2>7 DEF At
  <2>s. /\ \A k : Incremented(k)' <=> Incremented(k)
        /\ \A k : Counted(k)' <=> Counted(k)
        /\ made' = made
    BY <1>0, SameCounts
  <2>10. ASSUME NEW k \in Keys, ~Incremented(k)
         PROVE  Contents(data'[f])[k] = made[a + 1][k]
    <3>1. Contents(data'[f])[k] = Effect(Contents(data[f])[k], c, k)
      BY <2>1, <2>2, <2>6, EffectFacts
    <3>2. Contents(data[f])[k] = made[a][k]
      BY <2>4, <2>8, <2>10 DEF Follows
    <3>3. made[a + 1][k] = Effect(made[a][k], log[a], k)
      BY <2>u, <2>5 DEF Chronicle
    <3> QED
      BY <2>5, <3>1, <3>2, <3>3
  <2>11. ASSUME NEW k \in Keys, ~Counted(k), data'[f][k] # None
         PROVE  data'[f][k].ts <= a
    <3>0. /\ k \notin c.keys => data'[f][k] = data[f][k]
          /\ k \in c.keys /\ c.op \in {"set", "mset"} /\ c.ts # None => data'[f][k].ts = c.ts
          /\ k \in c.keys /\ c.op = "delete" => data'[f][k] = None
      <4>1. /\ k \notin c.keys => After(data[f], c, clock)[k] = data[f][k]
            /\ k \in c.keys /\ c.op \in {"set", "mset"} /\ c.ts # None
                 => After(data[f], c, clock)[k].ts = c.ts
            /\ k \in c.keys /\ c.op = "delete" => After(data[f], c, clock)[k] = None
        <5>1. c \in Change /\ data[f] \in Data /\ clock \in Nat
          BY <2>1, <2>2
        <5> QED
          BY <5>1, AfterFacts
      <4> QED
        BY <2>6, <4>1
    <3>1. CASE k \notin c.keys
      <4>1. data'[f][k] = data[f][k]
        BY <3>0, <3>1
      <4>2. data[f][k].ts <= applied[f]
        BY <2>8, <2>11, <4>1 DEF Follows
      <4>3. data[f][k].ts \in Nat
        BY <2>2, <2>11, <4>1, ContentsFacts, ItemFields
      <4> QED
        BY <2>2, <2>4, <4>1, <4>2, <4>3
    <3>2. CASE k \in c.keys
      <4>1. c.op # "incr"
        <5>1. SUFFICES ASSUME c.op = "incr" PROVE Counted(k)
          BY <2>11
        <5>2. a \in 1..Len(log) /\ log[a].op = "incr" /\ k \in log[a].keys
          BY <2>2, <2>5, <3>2, <5>1
        <5> QED
          BY <5>2 DEF Counted
      <4>2. c.op \in {"set", "mset"}
        <5>1. c.op # "delete"
          BY <2>11, <3>0, <3>2
        <5> QED
          BY <2>1, <4>1, <5>1, ChangeFields
      <4>3. c.ts # None
        BY <2>5, ReplicationAssumption
      <4>4. data'[f][k].ts = a
        BY <2>5, <3>0, <3>2, <4>2, <4>3
      <4> QED
        BY <2>4, <4>4
    <3> QED
      BY <3>1, <3>2
  <2>12. Follows(f)'
    <3>1. \A k \in Keys : ~Incremented(k)' => Contents(data[f])'[k] = made'[a + 1][k]
      <4>1. Contents(data[f])' = Contents(data'[f])
        BY DEF Contents
      <4> QED
        BY <2>s, <2>10, <4>1
    <3>2. \A k \in Keys : ~Counted(k)' /\ data'[f][k] # None => data'[f][k].ts <= a
      BY <2>s, <2>11
    <3> QED
      BY <2>9, <3>1, <3>2 DEF Follows
  <2>13. ASSUME NEW n \in applied[f]+1..lsn PROVE Coming(f, n)'
    <3>1. Coming(f, n)
      BY <2>0 DEF Smooth, Complete
    <3> QED
      BY <1>0, <3>1, ComingKept
  <2>14. Complete(f, applied[f])'
    BY <1>0, <2>13 DEF Complete
  <2>15. /\ \A u \in Threads \ {"push"} : step'[f][u] \in {"idle", "sync"}
         /\ step'[f]["push"] # "load"
         /\ applied'[f] <= lsn'
         /\ work'[f]["push"][1].lsn = applied'[f] + 1
    BY <1>0, <2>0, <2>3, <2>7 DEF Smooth
  <2> QED
    BY <2>12, <2>14, <2>15 DEF Smooth
<1> QED
  BY <1>0, <1>1, <1>2 DEF InStepAt

LEMMA MarkInStep ==
  ASSUME TypeOK, WorkFits, WalNews, Chronicle, InTransit, [Next]_vars, Unbroken',
         NEW f \in Followers, NEW t \in Threads, Mark(f, t), InStepAt(f)
  PROVE  InStepAt(f)'
<1>0. /\ step[f][t] = "mark"
      /\ applied' = [applied EXCEPT ![f] = Next1(f, t).lsn]
      /\ work' = [work EXCEPT ![f][t] = Tail(work[f][t])]
      /\ step' = [step EXCEPT ![f][t] = IF Len(work[f][t]) = 1 THEN "idle" ELSE "check"]
      /\ UNCHANGED <<course, data, lsn, queue, batch, todo, posts, past>>
  BY DEF Mark, leader, sender, history
<1>1. course[f] # "syncing" /\ (course[f] = "smooth" => Smooth(f) /\ t = "push")
  BY <1>0, OnlyPush
<1>2. ASSUME course[f] = "smooth" PROVE Smooth(f)'
  <2>0. Smooth(f) /\ t = "push" /\ step[f]["push"] = "mark" /\ "push" \in Threads
    BY <1>0, <1>1, <1>2 DEF Threads
  <2>u. Unbroken
    BY PastKept
  <2>1. Next1(f, "push") = work[f]["push"][1] /\ Next1(f, "push").lsn \in 1..clock
    BY <2>0, <2>u, NextFacts
  <2>2. /\ applied \in [Followers -> Nat] /\ lsn \in Nat /\ clock \in Nat
        /\ step \in [Followers -> [Threads -> {"idle", "check", "do", "mark", "sync", "load"}]]
    BY DEF TypeOK
  <2>3. work[f]["push"][1].lsn = applied[f] + 1
    BY <2>0 DEF Smooth
  <2>4. PICK a \in Nat : a = applied[f] + 1
    BY <2>2
  <2>5. applied'[f] = a
    BY <1>0, <2>0, <2>1, <2>2, <2>3, <2>4
  <2>6. step'[f]["push"] = IF Len(work[f]["push"]) = 1 THEN "idle" ELSE "check"
    BY <1>0, <2>0, <2>2
  <2>7. step'[f]["push"] \in {"idle", "check"}
    BY <2>6
  <2>8. \A u \in Threads \ {"push"} : step'[f][u] \in {"idle", "sync"}
    BY <1>0, <2>0, <2>2 DEF Smooth
  <2>9. At(f) = a /\ At(f)' = a /\ Follows(f)
    BY <2>0, <2>4, <2>5, <2>7 DEF At, Smooth
  <2>s. /\ \A k : Incremented(k)' <=> Incremented(k)
        /\ \A k : Counted(k)' <=> Counted(k)
        /\ made' = made
    BY <1>0, SameCounts
  <2>10. Follows(f)'
    <3>1. Contents(data[f])' = Contents(data[f])
      BY <1>0 DEF Contents
    <3> QED
      BY <1>0, <2>9, <2>s, <3>1 DEF Follows
  <2>11. a <= lsn
    BY <2>1, <2>3, <2>4, <2>u DEF Unbroken
  <2>12. /\ Len(work[f]["push"]) \in Nat \ {0}
         /\ Len(work'[f]["push"]) = Len(work[f]["push"]) - 1
         /\ \A j \in 1..Len(work[f]["push"])-1 : work'[f]["push"][j] = work[f]["push"][j + 1]
    BY <1>0, <2>0, AdvanceFacts
  <2>13. ASSUME NEW n \in a+1..lsn PROVE Coming(f, n)'
    <3>1. n \in applied[f]+1..lsn
      BY <2>2, <2>4
    <3>2. Coming(f, n)
      BY <2>0, <3>1 DEF Smooth, Complete
    <3>3. n \in Nat /\ a < n
      BY <2>2
    <3>4. work[f]["push"][1].lsn < n /\ work[f]["push"][1].lsn \in Nat
      BY <2>3, <2>4, <3>3
    <3> QED
      BY <1>0, <2>12, <3>2, <3>3, <3>4, ComingAdvance
  <2>14. Complete(f, applied[f])'
    BY <1>0, <2>5, <2>13 DEF Complete
  <2>15. step'[f]["push"] \notin {"load", "do", "mark"} /\ applied'[f] <= lsn'
    BY <1>0, <2>5, <2>7, <2>11
  <2> QED
    BY <2>8, <2>10, <2>14, <2>15 DEF Smooth
<1> QED
  BY <1>0, <1>1, <1>2 DEF InStepAt

\* What the leader dumps is complete up to its LSN.
LEMMA DumpInStep ==
  ASSUME TypeOK, WorkFits, WalNews, Chronicle, InTransit, [Next]_vars, Unbroken',
         NEW f \in Followers, NEW t \in Threads, SyncDump(f, t), InStepAt(f)
  PROVE  InStepAt(f)'
<1>0. /\ step[f][t] = "sync"
      /\ step' = [step EXCEPT ![f][t] = "load"]
      /\ image' = [image EXCEPT ![f][t] = [data |-> stored, lsn |-> lsn]]
      /\ left' = [left EXCEPT ![f][t] = Keys]
      /\ course' = [course EXCEPT ![f] = IF Quiet(f, t) THEN "syncing" ELSE "rough"]
      /\ lsn' = lsn /\ made' = made
  BY DEF SyncDump, leader, past
<1>1. /\ lsn \in Nat /\ stored \in Data
      /\ image \in [Followers -> [Threads -> Image \cup {None}]]
      /\ left \in [Followers -> [Threads -> SUBSET Keys]]
      /\ step \in [Followers -> [Threads -> {"idle", "check", "do", "mark", "sync", "load"}]]
      /\ course \in [Followers -> {"smooth", "syncing", "rough"}]
  BY DEF TypeOK
<1>2. course'[f] = IF Quiet(f, t) THEN "syncing" ELSE "rough"
  BY <1>0, <1>1
<1>3. CASE ~Quiet(f, t)
  BY <1>2, <1>3, RoughInStep
<1>4. CASE Quiet(f, t)
  <2>1. PICK i \in Image : i = [data |-> stored, lsn |-> lsn]
    BY <1>1 DEF Image
  <2>2. image'[f][t] = i /\ i.data = stored /\ i.lsn = lsn /\ i # None
    BY <1>0, <1>1, <2>1, ReplicationAssumption
  <2>3. step'[f][t] = "load" /\ left'[f][t] = Keys
    BY <1>0, <1>1
  <2>4. \A u \in Threads \ {t} : step'[f][u] = step[f][u]
    BY <1>0, <1>1
  <2>5. Quiet(f, t)'
    BY <1>4, <2>4 DEF Quiet
  <2>6. Complete(f, image[f][t].lsn)'
    <3>1. \A n \in lsn+1..lsn : Coming(f, n)'
      BY <1>1
    <3> QED
      BY <1>0, <2>2, <3>1 DEF Complete
  <2>7. Unbroken /\ lsn = clock
    BY PastKept DEF Unbroken
  <2>8. made[lsn + 1] = Contents(stored) /\ \A k \in Keys : stored[k] # None => stored[k].ts <= lsn
    BY <2>7 DEF Chronicle
  <2>9. Contents(image[f][t].data)' = Contents(stored)
    BY <2>2 DEF Contents
  <2>10. /\ image'[f][t] # None /\ image'[f][t].lsn <= lsn'
         /\ \A k \in Keys :
             /\ Contents(image[f][t].data)'[k] = made'[image'[f][t].lsn + 1][k]
             /\ image'[f][t].data[k] # None => image'[f][t].data[k].ts <= image'[f][t].lsn
             /\ k \notin left'[f][t] => data'[f][k] = image'[f][t].data[k]
    BY <1>0, <1>1, <2>2, <2>3, <2>8, <2>9
  <2>11. Loads(f, t)'
    BY <2>3, <2>5, <2>6, <2>10 DEF Loads
  <2> QED
    BY <1>2, <1>4, <2>11 DEF InStepAt
<1> QED
  BY <1>3, <1>4
LEMMA LoadInStep ==
  ASSUME TypeOK, WorkFits, WalNews, Chronicle, InTransit, [Next]_vars, Unbroken',
         NEW f \in Followers, NEW t \in Threads, NEW k \in Keys, SyncLoad(f, t, k),
         InStepAt(f)
  PROVE  InStepAt(f)'
<1>0. /\ step[f][t] = "load" /\ k \in left[f][t]
      /\ data' = [data EXCEPT ![f][k] = image[f][t].data[k]]
      /\ left' = [left EXCEPT ![f][t] = left[f][t] \ {k}]
      /\ UNCHANGED <<step, image, course, lsn, made, queue, batch, todo, posts, work>>
  BY DEF SyncLoad, leader, sender, history, past
<1>1. /\ data \in [Followers -> [Keys -> Item \cup {None}]]
      /\ left \in [Followers -> [Threads -> SUBSET Keys]]
      /\ step[f][t] \notin {"idle", "sync"} /\ lsn \in Nat
  BY <1>0 DEF TypeOK, Data
<1>2. course[f] # "smooth"
  BY <1>0, <1>1, AloneAtWork DEF InStepAt
<1>3. ASSUME course[f] = "syncing" PROVE Loads(f, t)'
  <2>1. Loads(f, t)
    BY <1>1, <1>3, AloneAtWork DEF InStepAt
  <2>2. PICK i \in Image : i = image[f][t]
    BY <2>1 DEF Loads, TypeOK
  <2>3. i.lsn \in Nat
    BY DEF Image
  <2>4. step'[f][t] = "load" /\ Quiet(f, t)'
    BY <1>0, <2>1 DEF Loads, Quiet
  <2>5. Complete(f, image[f][t].lsn)'
    <3>1. \A n \in i.lsn+1..lsn : Coming(f, n)
      BY <2>1, <2>2 DEF Loads, Complete
    <3>2. \A n \in i.lsn+1..lsn : Coming(f, n)'
      BY <1>0, <3>1, ComingKept
    <3> QED
      BY <1>0, <2>2, <3>2 DEF Complete
  <2>6. ASSUME NEW x \in Keys, x \notin left'[f][t]
        PROVE  data'[f][x] = i.data[x]
    <3>1. CASE x = k
      BY <1>0, <1>1, <2>2, <3>1
    <3>2. CASE x # k
      <4>1. x \notin left[f][t]
        BY <1>0, <1>1, <2>6, <3>2
      <4>2. data'[f][x] = data[f][x]
        BY <1>0, <1>1, <3>2
      <4> QED
        BY <2>1, <2>2, <4>1, <4>2 DEF Loads
    <3> QED
      BY <3>1, <3>2
  <2>7. Contents(image[f][t].data)' = Contents(image[f][t].data)
    BY <1>0 DEF Contents
  <2>8. \A x \in Keys :
         /\ Contents(image[f][t].data)'[x] = made'[image'[f][t].lsn + 1][x]
         /\ image'[f][t].data[x] # None => image'[f][t].data[x].ts <= image'[f][t].lsn
         /\ x \notin left'[f][t] => data'[f][x] = image'[f][t].data[x]
    BY <1>0, <2>1, <2>2, <2>6, <2>7 DEF Loads
  <2>9. image'[f][t] # None /\ image'[f][t].lsn <= lsn'
    BY <1>0, <2>1 DEF Loads
  <2> QED
    BY <2>4, <2>5, <2>8, <2>9 DEF Loads
<1> QED
  BY <1>0, <1>2, <1>3 DEF InStepAt

\* With the mark, a follower that has loaded everything becomes smooth.
LEMMA SyncMarkInStep ==
  ASSUME TypeOK, WorkFits, WalNews, Chronicle, InTransit, [Next]_vars, Unbroken',
         NEW f \in Followers, NEW t \in Threads, SyncMark(f, t), InStepAt(f)
  PROVE  InStepAt(f)'
<1>0. /\ step[f][t] = "load" /\ left[f][t] = {}
      /\ applied' = [applied EXCEPT ![f] = image[f][t].lsn]
      /\ step' = [step EXCEPT ![f][t] = "idle"]
      /\ course' = [course EXCEPT ![f] = IF course[f] = "syncing" THEN "smooth" ELSE course[f]]
      /\ UNCHANGED <<data, lsn, queue, batch, todo, posts, work, past>>
  BY DEF SyncMark, leader, sender
<1>1. /\ applied \in [Followers -> Nat] /\ lsn \in Nat
      /\ step \in [Followers -> [Threads -> {"idle", "check", "do", "mark", "sync", "load"}]]
      /\ course \in [Followers -> {"smooth", "syncing", "rough"}]
      /\ step[f][t] \notin {"idle", "sync"}
  BY <1>0 DEF TypeOK
<1>2. course[f] # "smooth"
  BY <1>0, <1>1, AloneAtWork DEF InStepAt
<1>3. CASE course[f] = "rough"
  <2>1. course'[f] = "rough"
    BY <1>0, <1>1, <1>3
  <2> QED
    BY <2>1, RoughInStep
<1>4. CASE course[f] = "syncing"
  <2>1. Loads(f, t)
    BY <1>1, <1>4, AloneAtWork DEF InStepAt
  <2>2. PICK i \in Image : i = image[f][t]
    BY <2>1 DEF Loads, TypeOK
  <2>3. PICK a \in Nat : a = i.lsn
    BY DEF Image
  <2>4. applied'[f] = a /\ a <= lsn
    BY <1>0, <1>1, <2>1, <2>2, <2>3 DEF Loads
  <2>5. \A u \in Threads : step'[f][u] \in {"idle", "sync"}
    <3>1. step'[f][t] = "idle"
      BY <1>0, <1>1
    <3>2. \A u \in Threads \ {t} : step'[f][u] = step[f][u]
      BY <1>0, <1>1
    <3> QED
      BY <2>1, <3>1, <3>2 DEF Loads, Quiet
  <2>6. step'[f]["push"] \in {"idle", "sync"}
    BY <2>5 DEF Threads
  <2>7. At(f)' = a
    BY <2>4, <2>6 DEF At
  <2>8. Complete(f, applied[f])'
    <3>1. \A n \in a+1..lsn : Coming(f, n)
      BY <2>1, <2>2, <2>3 DEF Loads, Complete
    <3>2. \A n \in a+1..lsn : Coming(f, n)'
      BY <1>0, <3>1, ComingKept
    <3> QED
      BY <1>0, <2>4, <3>2 DEF Complete
  <2>9. \A k \in Keys :
          /\ Contents(i.data)[k] = made[a + 1][k]
          /\ i.data[k] # None => i.data[k].ts <= a
          /\ data[f][k] = i.data[k]
    BY <1>0, <2>1, <2>2, <2>3 DEF Loads
  <2>10. Follows(f)'
    <3>1. \A k \in Keys : Contents(data[f])'[k] = made'[a + 1][k]
      <4>1. \A k \in Keys : Contents(data[f])'[k] = Contents(i.data)[k]
        BY <1>0, <2>9 DEF Contents
      <4> QED
        BY <1>0, <2>9, <4>1 DEF past
    <3>2. \A k \in Keys : data'[f][k] # None => data'[f][k].ts <= a
      BY <1>0, <2>9
    <3> QED
      BY <2>7, <3>1, <3>2 DEF Follows
  <2>11. Smooth(f)'
    <3>1. applied'[f] <= lsn'
      BY <1>0, <2>4
    <3>2. step'[f]["push"] \notin {"load", "do", "mark"}
      BY <2>6
    <3> QED
      BY <2>5, <2>8, <2>10, <3>1, <3>2 DEF Smooth
  <2>12. course'[f] = "smooth"
    BY <1>0, <1>1, <1>4
  <2> QED
    BY <2>11, <2>12 DEF InStepAt
<1> QED
  BY <1>1, <1>2, <1>3, <1>4

\* What does not touch the changes on their way nor, but for what Untouched allows,
\* the follower.
LEMMA BesideInStep ==
  ASSUME TypeOK, WorkFits, WalNews, Chronicle, InTransit, [Next]_vars, Unbroken',
         NEW f \in Followers, InStepAt(f),
         \A t \in Threads : \/ step'[f][t] = step[f][t]
                            \/ /\ t # "push" /\ step[f][t] = "idle"
                               /\ step'[f][t] \in {"idle", "sync"},
         work'[f]["push"] = work[f]["push"],
         applied'[f] = applied[f], data'[f] = data[f],
         image'[f] = image[f], left'[f] = left[f],
         course'[f] \in {course[f], "rough"},
         UNCHANGED <<lsn, queue, batch, todo>>, posts'[f] = posts[f]
  PROVE  InStepAt(f)'
<1>1. \A n \in Nat : Coming(f, n) => Coming(f, n)'
  BY ComingKept
<1>2. lsn \in Nat /\ lsn <= lsn
  BY DEF TypeOK
<1> QED
  BY <1>1, <1>2, Untouched

LEMMA InStepStep ==
  ASSUME TypeOK, WorkFits, WalNews, Chronicle, InTransit, InStep, [Next]_vars, Unbroken',
         NEW f \in Followers
  PROVE  InStepAt(f)'
<1> USE DEF leader, sender, contents, threads, env, past, history
<1>0. InStepAt(f)
  BY DEF InStep
<1>t. /\ posts \in [Followers -> Seq(Post)] /\ data \in [Followers -> Data]
      /\ applied \in [Followers -> Nat]
      /\ step \in [Followers -> [Threads -> {"idle", "check", "do", "mark", "sync", "load"}]]
      /\ work \in [Followers -> [Threads -> Seq(Change)]]
      /\ image \in [Followers -> [Threads -> Image \cup {None}]]
      /\ left \in [Followers -> [Threads -> SUBSET Keys]]
      /\ course \in [Followers -> {"smooth", "syncing", "rough"}]
  BY DEF TypeOK
<1>e. \* a step of another follower
  ASSUME /\ step'[f] = step[f] /\ work'[f] = work[f]
         /\ applied'[f] = applied[f] /\ data'[f] = data[f]
         /\ image'[f] = image[f] /\ left'[f] = left[f]
         /\ course'[f] \in {course[f], "rough"}
         /\ UNCHANGED <<lsn, queue, batch, todo>> /\ posts'[f] = posts[f]
  PROVE  InStepAt(f)'
  BY <1>0, <1>e, BesideInStep
<1>1. CASE UNCHANGED vars
  BY <1>1, <1>e DEF vars
<1>2. ASSUME NEW r \in Request, Write(r) PROVE InStepAt(f)'
  BY <1>0, <1>2, WriteInStep
<1>3. CASE Dispatch
  BY <1>0, <1>3, DispatchInStep
<1>4. CASE Rotate
  BY <1>4, <1>e DEF Rotate
<1>5. CASE LeaderRestart
  <2>1. course'[f] = "rough"
    BY <1>5 DEF LeaderRestart
  <2> QED
    BY <2>1, RoughInStep
<1>6. ASSUME NEW g \in Followers, PostTo(g) PROVE InStepAt(f)'
  BY <1>0, <1>6, PostInStep
<1>7. ASSUME NEW g \in Followers, NEW i \in DOMAIN posts[g], Serve(g, i) PROVE InStepAt(f)'
  <2>1. CASE g = f
    BY <1>0, <1>7, <2>1, ServeInStep
  <2>2. CASE g # f
    <3>1. /\ UNCHANGED <<leader, sender, contents, env, past, image, left>>
          /\ posts'[f] = posts[f] /\ course'[f] = course[f]
          /\ step'[f] = step[f] /\ work'[f] = work[f]
      BY <1>7, <2>2, ServeFacts
    <3> QED
      BY <1>e, <3>1
  <2> QED
    BY <2>1, <2>2
<1>8. ASSUME NEW g \in Followers, Pull(g) PROVE InStepAt(f)'
  <2>1. UNCHANGED <<leader, sender, posts, contents, env, past, image, left>>
    BY <1>8, PullFacts
  <2>2. CASE g # f
    <3>1. course'[f] = course[f] /\ step'[f] = step[f] /\ work'[f] = work[f]
      BY <1>8, <2>2, PullFacts
    <3> QED
      BY <1>e, <2>1, <3>1
  <2>3. CASE g = f /\ course'[f] = "rough"
    BY <2>3, RoughInStep
  <2>4. CASE g = f /\ course'[f] = course[f] /\ step'[f]["pull"] \in {"idle", "sync"}
    <3>1. /\ step[f]["pull"] = "idle"
          /\ \A t \in Threads : t # "pull" => step'[f][t] = step[f][t] /\ work'[f][t] = work[f][t]
      BY <1>8, <2>4, PullFacts
    <3>2. work'[f]["push"] = work[f]["push"]
      BY <3>1 DEF Threads
    <3>3. \A t \in Threads : \/ step'[f][t] = step[f][t]
                             \/ /\ t # "push" /\ step[f][t] = "idle"
                                /\ step'[f][t] \in {"idle", "sync"}
      BY <2>4, <3>1
    <3> QED
      BY <1>0, <2>1, <2>4, <3>2, <3>3, BesideInStep
  <2> QED
    BY <1>8, <2>2, <2>3, <2>4, PullFacts
<1>9. ASSUME NEW g \in Followers, Ages(g) PROVE InStepAt(f)'
  BY <1>9, <1>e DEF Ages
<1>10. ASSUME NEW g \in Followers, Repair(g) PROVE InStepAt(f)'
  <2>1. /\ step[g]["repair"] = "idle" /\ step' = [step EXCEPT ![g]["repair"] = "sync"]
        /\ UNCHANGED <<lsn, queue, batch, todo, posts, applied, data, work, image, left, course>>
    BY <1>10 DEF Repair
  <2>2. \A t \in Threads : \/ step'[f][t] = step[f][t]
                           \/ /\ t # "push" /\ step[f][t] = "idle"
                              /\ step'[f][t] \in {"idle", "sync"}
    <3>1. CASE g # f
      <4>1. step'[f] = step[f]
        BY <1>t, <2>1, <3>1
      <4> QED
        BY <4>1
    <3>2. CASE g = f
      <4>1. /\ step'[f]["repair"] = "sync"
            /\ \A t \in Threads : t # "repair" => step'[f][t] = step[f][t]
        BY <1>t, <2>1, <3>2 DEF Threads
      <4> QED
        BY <2>1, <3>2, <4>1
    <3> QED
      BY <3>1, <3>2
  <2> QED
    BY <1>0, <2>1, <2>2, BesideInStep
<1>11. ASSUME NEW g \in Followers, FollowerRestart(g) PROVE InStepAt(f)'
  <2>1. CASE g = f
    <3>1. course'[f] = "rough"
      BY <1>11, <1>t, <2>1 DEF FollowerRestart
    <3> QED
      BY <3>1, RoughInStep
  <2>2. CASE g # f
    BY <1>11, <1>e, <1>t, <2>2 DEF FollowerRestart
  <2> QED
    BY <2>1, <2>2
<1>12. ASSUME NEW g \in Followers, NEW t \in Threads, Check(g, t) PROVE InStepAt(f)'
  <2>1. CASE g = f
    BY <1>0, <1>12, <2>1, CheckInStep
  <2>2. CASE g # f
    <3>1. UNCHANGED <<leader, sender, posts, contents, image, left, history>>
      BY <1>12 DEF Check
    <3>2. work'[f] = work[f]
      BY <1>12, <1>t, <2>2 DEF Check
    <3>3. step'[f] = step[f]
      BY <1>12, <1>t, <2>2 DEF Check
    <3> QED
      BY <1>e, <3>1, <3>2, <3>3
  <2> QED
    BY <2>1, <2>2
<1>13. ASSUME NEW g \in Followers, NEW t \in Threads, Do(g, t) PROVE InStepAt(f)'
  <2>1. CASE g = f
    BY <1>0, <1>13, <2>1, DoInStep
  <2>2. CASE g # f
    BY <1>13, <1>e, <1>t, <2>2 DEF Do
  <2> QED
    BY <2>1, <2>2
<1>14. ASSUME NEW g \in Followers, NEW t \in Threads, Mark(g, t) PROVE InStepAt(f)'
  <2>1. CASE g = f
    BY <1>0, <1>14, <2>1, MarkInStep
  <2>2. CASE g # f
    BY <1>14, <1>e, <1>t, <2>2 DEF Mark
  <2> QED
    BY <2>1, <2>2
<1>15. ASSUME NEW g \in Followers, NEW t \in Threads, SyncDump(g, t) PROVE InStepAt(f)'
  <2>1. CASE g = f
    BY <1>0, <1>15, <2>1, DumpInStep
  <2>2. CASE g # f
    BY <1>15, <1>e, <1>t, <2>2 DEF SyncDump
  <2> QED
    BY <2>1, <2>2
<1>16. ASSUME NEW g \in Followers, NEW t \in Threads, NEW k \in Keys, SyncLoad(g, t, k)
       PROVE  InStepAt(f)'
  <2>1. CASE g = f
    BY <1>0, <1>16, <2>1, LoadInStep
  <2>2. CASE g # f
    BY <1>16, <1>e, <1>t, <2>2 DEF SyncLoad
  <2> QED
    BY <2>1, <2>2
<1>17. ASSUME NEW g \in Followers, NEW t \in Threads, SyncMark(g, t) PROVE InStepAt(f)'
  <2>1. CASE g = f
    BY <1>0, <1>17, <2>1, SyncMarkInStep
  <2>2. CASE g # f
    BY <1>17, <1>e, <1>t, <2>2 DEF SyncMark
  <2> QED
    BY <2>1, <2>2
<1>18. ASSUME NEW g \in Followers, NEW t \in Threads, SyncFails(g, t) PROVE InStepAt(f)'
  <2>1. CASE g = f
    <3>1. course'[f] = "rough"
      BY <1>18, <1>t, <2>1 DEF SyncFails
    <3> QED
      BY <3>1, RoughInStep
  <2>2. CASE g # f
    <3>1. /\ UNCHANGED <<leader, sender, posts, contents, work>>
          /\ image'[f] = image[f] /\ left'[f] = left[f] /\ course'[f] = course[f]
      BY <1>18, <1>t, <2>2 DEF SyncFails
    <3>2. step'[f] = step[f]
      BY <1>18, <1>t, <2>2 DEF SyncFails
    <3> QED
      BY <1>e, <3>1, <3>2
  <2> QED
    BY <2>1, <2>2
<1> QED
  BY <1>1, <1>2, <1>3, <1>4, <1>5, <1>6, <1>7, <1>8, <1>9, <1>10, <1>11, <1>12, <1>13,
     <1>14, <1>15, <1>16, <1>17, <1>18 DEF Next, Continues
-----------------------------------------------------------------------------
(* The invariant, and what it says. *)

LEMMA Initially == Init => IInv
<1> SUFFICES ASSUME Init PROVE IInv
  OBVIOUS
<1>1. TypeOK
  BY InitType
<1>2. LagNotUnderstated
  BY DEF Init, LagNotUnderstated
<1>3. WalOrdered
  BY DEF Init, WalOrdered
<1>4. WorkFits
  BY DEF Init, WorkFits, Fits, Started, Threads
<1>5. News
  BY NoPostFacts DEF Init, News, QueueNews, WalNews, BatchNews, PostNews, WorkNews
<1>6. Chronicle
  <2>1. /\ lsn = 0 /\ clock = 0 /\ log = <<>> /\ made = <<Contents(NoItems)>>
        /\ wal = <<>> /\ stored = NoItems
    BY DEF Init
  <2>2. /\ Len(log) = 0 /\ Len(made) = 1 /\ made[1] = Contents(NoItems)
        /\ 0 + 1 = 1 /\ 1..0 = {}
    BY <2>1
  <2>3. \A k \in Keys : stored[k] = None
    BY <2>1, NoItemsFacts
  <2> QED
    BY <2>1, <2>2, <2>3 DEF Chronicle
<1>7. InTransit
  <2>1. /\ queue = <<>> /\ batch.changes = <<>>
        /\ \A f \in Followers : posts[f] = <<>>
        /\ \A f \in Followers : work[f]["push"] = <<>>
    BY NoPostFacts DEF Init, Threads
  <2> QED
    BY <2>1 DEF InTransit, QueueLogged, BatchLogged, PostsLogged, WorkLogged
<1>8. InStep
  BY DEF Init, InStep, InStepAt
<1> QED
  BY <1>1, <1>2, <1>3, <1>4, <1>5, <1>6, <1>7, <1>8 DEF IInv

LEMMA Preserved == IInv /\ [Next]_vars => IInv'
<1> SUFFICES ASSUME IInv, [Next]_vars PROVE IInv'
  OBVIOUS
<1>0. /\ TypeOK /\ LagNotUnderstated /\ WalOrdered /\ WorkFits /\ News /\ Chronicle /\ WalNews
      /\ Unbroken => InTransit /\ InStep
  BY DEF IInv, News
<1>1. TypeOK' /\ WorkFits'
  BY <1>0, TypeStep, WorkStep
<1>2. News' /\ WalOrdered'
  BY <1>0, NewsStep
<1>3. LagNotUnderstated'
  BY <1>0, LagStep
<1>4. Chronicle'
  BY <1>0, ChronicleStep
<1>5. ASSUME Unbroken' PROVE InTransit' /\ InStep'
  <2>1. Unbroken /\ InTransit /\ InStep
    BY <1>0, <1>5, PastKept
  <2>2. InTransit'
    BY <1>0, <1>5, <2>1, TransitStep
  <2>3. \A f \in Followers : InStepAt(f)'
    BY <1>0, <1>5, <2>1, InStepStep
  <2> QED
    BY <2>2, <2>3 DEF InStep
<1> QED
  BY <1>1, <1>2, <1>3, <1>4, <1>5 DEF IInv

\* IInv holds in every behaviour: what the two processes send each other are changes
\* of the leader's log, and, as long as the leader has lost none, an undisturbed
\* follower still gets every change after the LSN it reports, in order.
THEOREM Inductive == Spec => []IInv
<1>1. Init => IInv
  BY Initially
<1>2. IInv /\ [Next]_vars => IInv'
  BY Preserved
<1> QED
  BY <1>1, <1>2, PTL DEF Spec

\* The variables of ReplicationManager on both sides keep their types.
THEOREM TypeCorrect == Spec => []TypeOK
<1>1. IInv => TypeOK
  BY DEF IInv
<1> QED
  BY <1>1, Inductive, PTL

\* The LSN a follower reports is never beyond what it takes the leader's to be
\* (lag_lsn of get_status): every post and every synchronisation brings the leader's
\* LSN along with the changes.
THEOREM LagCovered == Spec => []LagNotUnderstated
<1>1. IInv => LagNotUnderstated
  BY DEF IInv
<1> QED
  BY <1>1, Inductive, PTL

LEMMA Follow ==
  ASSUME IInv
  PROVE  FollowerIsPrefixOfPuts
<1>1. TypeOK
  BY DEF IInv
<1>2. ASSUME NEW f \in Followers, course[f] = "smooth", AtRest(f), lsn = clock
      PROVE  \A k \in Keys : ~Incremented(k) => Contents(data[f])[k] = Made(applied[f])[k]
  <2>1. InStep
    BY <1>2 DEF IInv, Unbroken
  <2>2. Follows(f)
    BY <1>2, <2>1 DEF InStep, InStepAt, Smooth
  <2>3. step[f]["push"] \in {"idle", "sync"}
    BY <1>2 DEF AtRest, Threads
  <2>4. At(f) = applied[f]
    BY <2>3 DEF At
  <2> QED
    BY <2>2, <2>4 DEF Follows, Made
<1> QED
  BY <1>1, <1>2 DEF FollowerIsPrefixOfPuts

\* A follower that gets its posts in order, undisturbed since a full synchronisation,
\* holds what the leader held at the LSN it reports, whatever the keys, the batches
\* and the number of followers, but for keys that have to do with increments.
THEOREM PrefixOfPuts == Spec => []FollowerIsPrefixOfPuts
<1>1. IInv => FollowerIsPrefixOfPuts
  BY Follow
<1> QED
  BY <1>1, Inductive, PTL
=============================================================================
