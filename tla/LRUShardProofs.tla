--------------------------- MODULE LRUShardProofs ---------------------------
(***************************************************************************)
(* Theorems about LRUShard, for any set of keys, any limit and any clock.  *)
(***************************************************************************)
EXTENDS LRUShard, FiniteSetTheorems, SequenceTheorems, TLAPS

-----------------------------------------------------------------------------
(* The operators the list is edited with. *)

\* Nth enumerates a finite set of positions in increasing order, each once.
LEMMA NthFacts ==
  ASSUME NEW n \in Nat, NEW I \in SUBSET (1..n)
  PROVE  /\ Cardinality(I) \in Nat
         /\ \A j \in 1..Cardinality(I) : Nth(I, j) \in I
         /\ \A j, l \in 1..Cardinality(I) : j < l => Nth(I, j) < Nth(I, l)
         /\ \A i \in I : \E j \in 1..Cardinality(I) : Nth(I, j) = i
<1> DEFINE Upto(i) == {x \in I : x <= i}
           N == Cardinality(I)
           rank == [i \in I |-> Cardinality(Upto(i))]
<1>0. \A i \in I : i \in Nat
  OBVIOUS
<1>1. IsFiniteSet(I) /\ N \in Nat
  <2>1. IsFiniteSet(1..n)
    BY FS_Interval
  <2>2. IsFiniteSet(I)
    BY <2>1, FS_Subset
  <2> QED
    BY <2>2, FS_CardinalityType
<1>2. \A i \in I : IsFiniteSet(Upto(i)) /\ Cardinality(Upto(i)) \in 1..N
  <2> TAKE i \in I
  <2>1. Upto(i) \in SUBSET I /\ i \in Upto(i)
    BY <1>0
  <2>2. IsFiniteSet(Upto(i)) /\ Cardinality(Upto(i)) <= N
    BY <1>1, <2>1, FS_Subset
  <2>3. Cardinality(Upto(i)) \in Nat /\ Cardinality(Upto(i)) # 0
    BY <2>1, <2>2, FS_CardinalityType, FS_EmptySet
  <2> QED
    BY <1>1, <2>2, <2>3
<1>3. \A i, l \in I : i < l => rank[i] < rank[l]
  <2> TAKE i, l \in I
  <2> HAVE i < l
  <2>0. i \in Nat /\ l \in Nat
    BY <1>0
  <2>1. Upto(i) \in SUBSET Upto(l) /\ l \in Upto(l) /\ l \notin Upto(i)
    <3>1. \A x \in I : x <= i => x <= l
      BY <1>0, <2>0
    <3>2. Upto(i) \in SUBSET Upto(l)
      BY <3>1
    <3>3. l \in Upto(l)
      BY <2>0
    <3>4. l \notin Upto(i)
      BY <2>0
    <3> QED
      BY <3>2, <3>3, <3>4
  <2>2. /\ Cardinality(Upto(i)) <= Cardinality(Upto(l))
        /\ Cardinality(Upto(i)) # Cardinality(Upto(l))
    <3>1. IsFiniteSet(Upto(l))
      BY <1>2
    <3> HIDE DEF Upto
    <3> QED
      BY <2>1, <3>1, FS_Subset
  <2> QED
    BY <1>2, <2>2
<1>4. rank \in Injection(I, 1..N)
  <2>1. rank \in [I -> 1..N]
    BY <1>2
  <2>2. \A i, l \in I : rank[i] = rank[l] => i = l
    <3> SUFFICES ASSUME NEW i \in I, NEW l \in I, rank[i] = rank[l], i # l
                 PROVE  FALSE
      OBVIOUS
    <3>1. i < l \/ l < i
      BY <1>0
    <3>2. rank[i] \in Nat /\ rank[l] \in Nat
      BY <1>1, <2>1
    <3> HIDE DEF rank
    <3> QED
      BY <1>3, <3>1, <3>2
  <2> QED
    BY <2>1, <2>2 DEF Injection, IsInjective
<1>5. \A j \in 1..N : \E i \in I : rank[i] = j
  <2>1. IsFiniteSet(1..N) /\ Cardinality(1..N) = N
    BY <1>1, FS_Interval
  <2>2. rank \in Surjection(I, 1..N)
    BY <1>4, <2>1, FS_Injection
  <2> QED
    BY <2>2 DEF Surjection
<1>6. \A j \in 1..N : Nth(I, j) \in I /\ rank[Nth(I, j)] = j
  BY <1>5 DEF Nth
<1>7. \A j, l \in 1..N : j < l => Nth(I, j) < Nth(I, l)
  <2> TAKE j, l \in 1..N
  <2> HAVE j < l
  <2> DEFINE x == Nth(I, j)
             y == Nth(I, l)
  <2>1. x \in I /\ y \in I /\ rank[x] = j /\ rank[y] = l
    BY <1>6
  <2>2. x \in Nat /\ y \in Nat /\ j \in Nat /\ l \in Nat
    <3> HIDE DEF rank, x, y
    <3> QED
      BY <1>0, <1>1, <2>1
  <2>3. ~(y < x) /\ x # y
    <3> HIDE DEF rank, x, y
    <3> QED
      BY <1>3, <2>1, <2>2
  <2> QED
    BY <2>2, <2>3
<1>8. \A i \in I : \E j \in 1..N : Nth(I, j) = i
  <2> TAKE i \in I
  <2>1. rank[i] \in 1..N
    BY <1>2
  <2>2. Nth(I, rank[i]) \in I /\ rank[Nth(I, rank[i])] = rank[i]
    BY <1>6, <2>1
  <2>3. Nth(I, rank[i]) = i
    <3> DEFINE x == Nth(I, rank[i])
    <3> HIDE DEF rank, x
    <3> QED
      BY <1>4, <2>2 DEF Injection, IsInjective, x
  <2> QED
    BY <2>1, <2>3
<1> QED
  BY <1>1, <1>6, <1>7, <1>8

\* Pick keeps the chosen nodes, and only them, in their order.
LEMMA PickFacts ==
  ASSUME NEW s \in Seq(Node), NEW I \in SUBSET DOMAIN s
  PROVE  /\ Pick(s, I) \in Seq(Node)
         /\ Len(Pick(s, I)) = Cardinality(I)
         /\ \A j \in DOMAIN Pick(s, I) : \E i \in I : Pick(s, I)[j] = s[i]
         /\ \A i \in I : \E j \in DOMAIN Pick(s, I) : Pick(s, I)[j] = s[i]
         /\ \A j, l \in DOMAIN Pick(s, I) : j < l =>
              \E x, y \in I : x < y /\ Pick(s, I)[j] = s[x] /\ Pick(s, I)[l] = s[y]
<1>1. Len(s) \in Nat /\ I \in SUBSET (1..Len(s))
  BY LenProperties
<1>2. /\ Cardinality(I) \in Nat
      /\ \A j \in 1..Cardinality(I) : Nth(I, j) \in I
      /\ \A j, l \in 1..Cardinality(I) : j < l => Nth(I, j) < Nth(I, l)
      /\ \A i \in I : \E j \in 1..Cardinality(I) : Nth(I, j) = i
  BY <1>1, NthFacts
<1>3. DOMAIN Pick(s, I) = 1..Cardinality(I)
  BY DEF Pick
<1>4. \A j \in 1..Cardinality(I) : Pick(s, I)[j] = s[Nth(I, j)]
  BY DEF Pick
<1>5. \A i \in I : s[i] \in Node
  BY <1>1, ElementOfSeq
<1>6. Pick(s, I) \in [1..Cardinality(I) -> Node]
  BY <1>2, <1>5 DEF Pick
<1>7. Pick(s, I) \in Seq(Node) /\ Len(Pick(s, I)) = Cardinality(I)
  BY <1>2, <1>6
<1>8. \A i \in I : \E j \in DOMAIN Pick(s, I) : Pick(s, I)[j] = s[i]
  BY <1>2, <1>3, <1>4
<1>9. ASSUME NEW j \in DOMAIN Pick(s, I), NEW l \in DOMAIN Pick(s, I), j < l
      PROVE  \E x, y \in I : x < y /\ Pick(s, I)[j] = s[x] /\ Pick(s, I)[l] = s[y]
  BY <1>2, <1>3, <1>4, <1>9
<1>10. \A j \in DOMAIN Pick(s, I) : \E i \in I : Pick(s, I)[j] = s[i]
  BY <1>2, <1>3, <1>4
<1> QED
  BY <1>7, <1>8, <1>9, <1>10

-----------------------------------------------------------------------------
(* The operators on the shard's memory keep list and maps in agreement. *)

Agree(m) == m \in Mem /\ ListIsMap(m)

\* The last node of the list is the one of key k.
AtTail(m, k) ==
  /\ Len(m.order) > 0
  /\ m.order[Len(m.order)].key = k

\* In agreement, a key is in the map exactly when the list has its node.
LEMMA NodeOfFacts ==
  ASSUME NEW m, Agree(m), NEW k \in m.map
  PROVE  NodeOf(m, k) \in Node /\ NodeOf(m, k).key = k /\ NodeOf(m, k).live
<1>1. m.order \in Seq(Node) /\ Len(m.order) \in Nat
  BY LenProperties DEF Agree, Mem
<1>2. \A i \in DOMAIN m.order : m.order[i] \in Node
  BY <1>1, ElementOfSeq, LenProperties
<1>3. \E i \in DOMAIN m.order : i \in LiveAt(m, {k})
  BY DEF Agree, ListIsMap, LiveAt
<1>4. PICK i \in DOMAIN m.order : /\ NodeOf(m, k) = m.order[i]
                                  /\ i \in LiveAt(m, {k})
  BY <1>3 DEF NodeOf, LiveAt
<1> QED
  BY <1>2, <1>4 DEF LiveAt

\* Unlinking nodes leaves exactly the nodes of the other keys.
LEMMA UnlinkedFacts ==
  ASSUME NEW m, Agree(m), NEW K
  PROVE  /\ Unlinked(m, K) \in Seq(Node)
         /\ \A j \in DOMAIN Unlinked(m, K) :
              /\ Unlinked(m, K)[j].live
              /\ Unlinked(m, K)[j].key \in m.map \ K
         /\ \A k \in m.map \ K :
              \E j \in DOMAIN Unlinked(m, K) : Unlinked(m, K)[j].key = k
         /\ \A j, l \in DOMAIN Unlinked(m, K) :
              Unlinked(m, K)[j].key = Unlinked(m, K)[l].key => j = l
<1> DEFINE s == m.order
           I == DOMAIN s \ LiveAt(m, K)
           u == Unlinked(m, K)
<1>1. s \in Seq(Node) /\ I \in SUBSET DOMAIN s
  BY DEF Agree, Mem
<1>2. u = Pick(s, I)
  BY DEF Unlinked
<1>3. \A i \in DOMAIN s : s[i].live /\ s[i].key \in m.map
  BY DEF Agree, ListIsMap
<1>4. I = {i \in DOMAIN s : s[i].key \notin K}
  BY <1>3 DEF LiveAt
<1>5. \A k \in m.map : \E i \in DOMAIN s : s[i].key = k
  BY DEF Agree, ListIsMap
<1>6. \A i, l \in DOMAIN s : s[i].key = s[l].key => i = l
  BY DEF Agree, ListIsMap
<1>7. /\ u \in Seq(Node)
      /\ \A j \in DOMAIN u : \E i \in I : u[j] = s[i]
      /\ \A i \in I : \E j \in DOMAIN u : u[j] = s[i]
      /\ \A j, l \in DOMAIN u : j < l =>
           \E x, y \in I : x < y /\ u[j] = s[x] /\ u[l] = s[y]
  <2> HIDE DEF s, I, u
  <2> QED
    BY <1>1, <1>2, PickFacts
<1>8. DOMAIN u \subseteq Nat /\ DOMAIN s \subseteq Nat
  BY <1>1, <1>7, LenProperties
<1>9. \A j, l \in DOMAIN u : u[j].key = u[l].key => j = l
  <2> SUFFICES ASSUME NEW j \in DOMAIN u, NEW l \in DOMAIN u, j < l
               PROVE  u[j].key # u[l].key
    <3> HIDE DEF u
    <3> QED
      BY <1>8
  <2>1. PICK x, y \in I : x < y /\ u[j] = s[x] /\ u[l] = s[y]
    BY <1>7
  <2>2. x \in DOMAIN s /\ y \in DOMAIN s /\ x \in Nat /\ y \in Nat
    BY <1>1, <1>8
  <2> HIDE DEF s, I, u
  <2> QED
    BY <1>6, <2>1, <2>2
<1> HIDE DEF s, I, u
<1>10. \A j \in DOMAIN u : u[j].live /\ u[j].key \in m.map \ K
  BY <1>3, <1>4, <1>7
<1>11. \A k \in m.map \ K : \E j \in DOMAIN u : u[j].key = k
  BY <1>4, <1>5, <1>7
<1> QED
  BY <1>7, <1>9, <1>10, <1>11 DEF u

LEMMA DeletedAgrees ==
  ASSUME NEW m, Agree(m), NEW K
  PROVE  Agree(Deleted(m, K)) /\ Deleted(m, K).map = m.map \ K
<1> DEFINE d == Deleted(m, K)
<1>1. m \in Mem /\ m.ttl \in [Keys -> Deadline] /\ m.newer \in [Keys -> SUBSET Keys]
  BY DEF Agree, Mem
<1>2. /\ d.map = m.map \ K
      /\ d.order = Unlinked(m, K)
      /\ d.skeys = m.skeys \ K
      /\ d.ttl = [k \in Keys |-> IF k \in K THEN None ELSE m.ttl[k]]
  BY <1>1 DEF Deleted, Mem
<1>3. d \in Mem
  BY <1>1, UnlinkedFacts DEF Deleted, Mem, Deadline
<1>4. ListIsMap(d)
  <2>1. d.skeys = d.map /\ \A k \in Keys : d.ttl[k] # None => k \in d.map
    BY <1>1, <1>2 DEF Agree, ListIsMap, Deadline
  <2> HIDE DEF d
  <2> QED
    BY <1>2, <2>1, UnlinkedFacts DEF ListIsMap
<1> QED
  BY <1>2, <1>3, <1>4 DEF Agree

\* A fresh node appended for a key that was not in the map.
LEMMA InsertedAgrees ==
  ASSUME NEW m, Agree(m), NEW k \in Keys, k \notin m.map,
         NEW v \in Val, NEW e \in Deadline
  PROVE  /\ Agree(Inserted(m, k, v, e))
         /\ Inserted(m, k, v, e).map = m.map \cup {k}
         /\ AtTail(Inserted(m, k, v, e), k)
<1> DEFINE n == [key |-> k, val |-> v, live |-> TRUE]
           d == Inserted(m, k, v, e)
<1>1. /\ m \in Mem /\ m.order \in Seq(Node) /\ n \in Node
      /\ m.ttl \in [Keys -> Deadline]
      /\ m.newer \in [Keys -> SUBSET Keys] /\ m.map \subseteq Keys
  BY DEF Agree, Mem, Node
<1>2. /\ d.map = m.map \cup {k}
      /\ d.order = Append(m.order, n)
      /\ d.skeys = m.skeys \cup {k}
      /\ d.ttl = [m.ttl EXCEPT ![k] = e]
  BY <1>1 DEF Inserted, Mem
<1>3. Used(m, k) \in [Keys -> SUBSET Keys]
  BY <1>1 DEF Used
<1>4. d \in Mem
  <2>1. Append(m.order, n) \in Seq(Node)
    BY <1>1, AppendProperties
  <2>2. [m.ttl EXCEPT ![k] = e] \in [Keys -> Deadline]
    BY <1>1
  <2>3. m.map \cup {k} \in SUBSET Keys /\ m.skeys \cup {k} \in SUBSET Keys
    BY <1>1 DEF Mem
  <2> HIDE DEF n
  <2> QED
    BY <1>1, <1>3, <2>1, <2>2, <2>3 DEF Inserted, Mem, n
<1>5. /\ Len(m.order) \in Nat /\ DOMAIN m.order = 1..Len(m.order)
      /\ DOMAIN d.order = 1..(Len(m.order) + 1)
      /\ Len(d.order) = Len(m.order) + 1
      /\ d.order[Len(m.order) + 1] = n
      /\ \A i \in 1..Len(m.order) : d.order[i] = m.order[i]
  BY <1>1, <1>2, LenProperties, AppendProperties
<1>6. ListIsMap(d)
  <2> HIDE DEF d
  <2>1. \A i \in DOMAIN d.order : d.order[i].live /\ d.order[i].key \in d.map
    BY <1>2, <1>5 DEF Agree, ListIsMap
  <2>2. \A j \in d.map : \E i \in DOMAIN d.order : d.order[i].key = j
    BY <1>2, <1>5 DEF Agree, ListIsMap
  <2>3. \A i, j \in DOMAIN d.order : d.order[i].key = d.order[j].key => i = j
    BY <1>2, <1>5 DEF Agree, ListIsMap
  <2>4. d.skeys = d.map /\ \A j \in Keys : d.ttl[j] # None => j \in d.map
    BY <1>1, <1>2 DEF Agree, ListIsMap
  <2> QED
    BY <2>1, <2>2, <2>3, <2>4 DEF ListIsMap
<1> QED
  BY <1>2, <1>4, <1>5, <1>6 DEF Agree, AtTail

\* Moving a resident node to the tail, with a new value or the old one.
LEMMA MovedAgrees ==
  ASSUME NEW m, Agree(m), NEW n \in Node, n.live, n.key \in m.map
  PROVE  Agree(Moved(m, n)) /\ Moved(m, n).map = m.map
<1> DEFINE u == Unlinked(m, {n.key})
           d == Moved(m, n)
<1>1. /\ m \in Mem /\ m.newer \in [Keys -> SUBSET Keys] /\ m.map \subseteq Keys
  BY DEF Agree, Mem
<1>2. /\ d.map = m.map /\ d.order = Append(u, n)
      /\ d.skeys = m.skeys /\ d.ttl = m.ttl
  BY <1>1 DEF Moved, Mem
<1>3. /\ u \in Seq(Node)
      /\ \A j \in DOMAIN u : u[j].live /\ u[j].key \in m.map \ {n.key}
      /\ \A k \in m.map \ {n.key} : \E j \in DOMAIN u : u[j].key = k
      /\ \A j, l \in DOMAIN u : u[j].key = u[l].key => j = l
  BY UnlinkedFacts
<1>4. Used(m, n.key) \in [Keys -> SUBSET Keys]
  BY <1>1 DEF Used
<1>5. d \in Mem
  <2>1. Append(u, n) \in Seq(Node)
    BY <1>3, AppendProperties
  <2> HIDE DEF u
  <2> QED
    BY <1>1, <1>4, <2>1 DEF Moved, Mem, u
<1> HIDE DEF u, d
<1>6. /\ Len(u) \in Nat /\ DOMAIN u = 1..Len(u)
      /\ DOMAIN d.order = 1..(Len(u) + 1)
      /\ d.order[Len(u) + 1] = n
      /\ \A i \in 1..Len(u) : d.order[i] = u[i]
  BY <1>2, <1>3, LenProperties, AppendProperties
<1>7. ListIsMap(d)
  <2>1. \A i \in DOMAIN d.order : d.order[i].live /\ d.order[i].key \in d.map
    BY <1>2, <1>3, <1>6
  <2>2. \A j \in d.map : \E i \in DOMAIN d.order : d.order[i].key = j
    BY <1>2, <1>3, <1>6
  <2>3. \A i, j \in DOMAIN d.order : d.order[i].key = d.order[j].key => i = j
    BY <1>3, <1>6
  <2>4. d.skeys = d.map /\ \A j \in Keys : d.ttl[j] # None => j \in d.map
    BY <1>1, <1>2 DEF Agree, ListIsMap
  <2> QED
    BY <2>1, <2>2, <2>3, <2>4 DEF ListIsMap
<1> QED
  BY <1>2, <1>5, <1>7 DEF Agree, d

\* The node a move has put at the tail is the one its key now has.
LEMMA MovedNode ==
  ASSUME NEW m, Agree(m), NEW n \in Node, n.live, n.key \in m.map
  PROVE  NodeOf(Moved(m, n), n.key) = n
<1> DEFINE u == Unlinked(m, {n.key})
           d == Moved(m, n)
<1>1. Agree(d)
  BY MovedAgrees
<1>2. u \in Seq(Node) /\ d.order = Append(u, n)
  BY UnlinkedFacts DEF Moved, Mem, Agree
<1> HIDE DEF u, d
<1>3. /\ Len(u) + 1 \in DOMAIN d.order
      /\ d.order[Len(u) + 1] = n
  BY <1>2, LenProperties, AppendProperties
<1>4. LiveAt(d, {n.key}) = {Len(u) + 1}
  BY <1>1, <1>3 DEF Agree, ListIsMap, LiveAt
<1>5. NodeOf(d, n.key) = n
  BY <1>3, <1>4 DEF NodeOf
<1> QED
  BY <1>5 DEF d

\* A deadline set on, or cleared from, a resident key.
LEMMA DeadlineAgrees ==
  ASSUME NEW m, Agree(m), NEW k \in m.map, NEW e \in Deadline
  PROVE  /\ Agree([m EXCEPT !.ttl = [@ EXCEPT ![k] = e]])
         /\ [m EXCEPT !.ttl = [@ EXCEPT ![k] = e]].map = m.map
<1> DEFINE d == [m EXCEPT !.ttl = [@ EXCEPT ![k] = e]]
<1>1. m \in Mem /\ m.ttl \in [Keys -> Deadline]
  BY DEF Agree, Mem
<1>2. /\ d.map = m.map /\ d.order = m.order /\ d.skeys = m.skeys
      /\ d.ttl = [m.ttl EXCEPT ![k] = e]
  BY <1>1 DEF Mem
<1>3. d \in Mem
  BY <1>1 DEF Mem
<1> HIDE DEF d
<1>4. ListIsMap(d)
  BY <1>1, <1>2 DEF Agree, ListIsMap
<1> QED
  BY <1>2, <1>3, <1>4 DEF Agree, d

\* The deadline a time to live stands for is never behind.
LEMMA DeadlineOfFacts ==
  ASSUME NEW t \in Args, now \in Nat
  PROVE  /\ DeadlineOf(t) \in Deadline
         /\ DeadlineOf(t) = None \/ DeadlineOf(t) >= now
BY LRUAssumption DEF DeadlineOf, Deadline, Args

LEMMA WithTTLAgrees ==
  ASSUME NEW m, Agree(m), NEW k \in m.map, NEW t \in Args, now \in Nat
  PROVE  Agree(WithTTL(m, k, t)) /\ WithTTL(m, k, t).map = m.map
<1>1. CASE t = None
  BY <1>1 DEF WithTTL
<1>2. CASE t # None
  <2>1. now + t \in Deadline
    BY <1>2, LRUAssumption DEF Args, Deadline
  <2> QED
    BY <1>2, <2>1, DeadlineAgrees DEF WithTTL
<1> QED
  BY <1>1, <1>2

\* Evicting the head of a list of two or more leaves the tail where it is.
LEMMA HeadDeletedKeepsTail ==
  ASSUME NEW m, Agree(m), NEW k, AtTail(m, k), m.order[1].key # k
  PROVE  AtTail(Deleted(m, {m.order[1].key}), k)
<1> DEFINE s == m.order
           K == {s[1].key}
           I == DOMAIN s \ LiveAt(m, K)
           u == Pick(s, I)
<1>1. /\ s \in Seq(Node) /\ I \in SUBSET DOMAIN s /\ Len(s) \in Nat
      /\ DOMAIN s = 1..Len(s)
  BY LenProperties DEF Agree, Mem
<1>2. Deleted(m, K).order = u
  BY DEF Deleted, Unlinked, Agree, Mem
<1>3. Len(s) \in I /\ s[Len(s)].key = k
  BY <1>1 DEF AtTail, LiveAt
<1>4. \A i, l \in DOMAIN s : s[i].key = s[l].key => i = l
  BY DEF Agree, ListIsMap
<1>5. /\ u \in Seq(Node)
      /\ \A i \in I : \E j \in DOMAIN u : u[j] = s[i]
      /\ \A j, l \in DOMAIN u : j < l =>
           \E x, y \in I : x < y /\ u[j] = s[x] /\ u[l] = s[y]
  <2> HIDE DEF s, I, u
  <2> QED
    BY <1>1, PickFacts DEF u
<1> HIDE DEF s, I, u
<1>6. Len(u) \in Nat /\ DOMAIN u = 1..Len(u)
  BY <1>5, LenProperties
<1>7. PICK j \in DOMAIN u : u[j] = s[Len(s)]
  BY <1>3, <1>5
<1>8. ~(j < Len(u))
  <2> SUFFICES ASSUME j < Len(u) PROVE FALSE
    OBVIOUS
  <2>1. PICK x, y \in I : x < y /\ u[j] = s[x] /\ u[Len(u)] = s[y]
    BY <1>5, <1>6
  <2>2. x \in 1..Len(s) /\ y \in 1..Len(s) /\ Len(s) \in 1..Len(s)
    BY <1>1, <1>3
  <2>3. x = Len(s)
    BY <1>1, <1>4, <1>7, <2>1, <2>2
  <2> QED
    BY <1>1, <2>1, <2>2, <2>3
<1>9. j = Len(u) /\ Len(u) > 0
  BY <1>6, <1>8
<1> QED
  BY <1>2, <1>3, <1>7, <1>9 DEF AtTail, s

\* A list that ends in k while the map is over the limit starts with another key.
LEMMA HeadIsNotTail ==
  ASSUME NEW m, Agree(m), OverLimit(m), NEW k, AtTail(m, k)
  PROVE  1 \in DOMAIN m.order /\ m.order[1].key # k
<1>1. /\ Len(m.order) \in Nat /\ Len(m.order) > 0
      /\ DOMAIN m.order = 1..Len(m.order)
  BY LenProperties DEF Agree, Mem, AtTail
<1>2. SUFFICES ASSUME m.order[1].key = k PROVE FALSE
  BY <1>1
<1>3. Len(m.order) = 1
  <2>1. 1 \in DOMAIN m.order /\ Len(m.order) \in DOMAIN m.order
    BY <1>1
  <2>2. m.order[1].key = m.order[Len(m.order)].key
    BY <1>2 DEF AtTail
  <2> QED
    BY <2>1, <2>2 DEF Agree, ListIsMap
<1>4. m.map \in SUBSET {k}
  BY <1>1, <1>2, <1>3 DEF Agree, ListIsMap
<1>5. Cardinality(m.map) <= 1 /\ Cardinality(m.map) \in Nat
  <2>1. IsFiniteSet({k}) /\ Cardinality({k}) = 1
    BY FS_Singleton
  <2>2. IsFiniteSet(m.map) /\ Cardinality(m.map) <= 1
    BY <1>4, <2>1, FS_Subset
  <2> QED
    BY <2>2, FS_CardinalityType
<1> QED
  BY <1>5, LRUAssumption DEF OverLimit

-----------------------------------------------------------------------------
(***************************************************************************)
(* The inductive invariant.  Agreement of list and map alone is not        *)
(* inductive: a call that promoted a key moves its node after the eviction *)
(* loop, which is safe only because that node sits at the tail, so that    *)
(* the victim at the head of a list of two or more is another one.         *)
(***************************************************************************)
LocalNode ==
  /\ pc = "patch" => node \in Node /\ node.live /\ node.key \in mem.map
  /\ pc = "evict" /\ cont # "return" =>
       HasTier /\ node \in Node /\ node.live /\ AtTail(mem, node.key)
  /\ pc = "evict" /\ cont = "return" => node = None

TierUnused == ~HasTier => \A k \in Keys : tier[k] = None

IInv ==
  /\ TypeOK
  /\ ListIsMap(mem)
  /\ LocalNode
  /\ TierUnused
  /\ ~TierMayFail => OneCopy

\* What a call does to the tier, in one place.
LEMMA TierFacts ==
  ASSUME TypeOK, TierUnused, NEW k \in Keys
  PROVE  /\ \A t \in TierDelete(k) :
              /\ t \in [Keys -> Copy \cup {None}]
              /\ ~HasTier => t = tier
              /\ \A j \in Keys : tier[j] = None => t[j] = None
              /\ ~TierMayFail => t[k] = None
         /\ \A t \in TierMiss(k) :
              /\ t \in [Keys -> Copy \cup {None}]
              /\ \A j \in Keys : tier[j] = None => t[j] = None
<1>1. tier \in [Keys -> Copy \cup {None}]
  BY DEF TypeOK
<1> QED
  BY <1>1 DEF TierDelete, TierMiss, OrFails, TierUnused

-----------------------------------------------------------------------------
(* Every step preserves it, action by action. *)

LEMMA InitIInv == Init => IInv
<1> SUFFICES ASSUME Init PROVE IInv
  OBVIOUS
<1>1. mem \in Mem /\ ListIsMap(mem)
  BY DEF Init, Mem, ListIsMap, Deadline
<1> QED
  BY <1>1, LRUAssumption DEF Init, IInv, TypeOK, LocalNode, TierUnused, OneCopy

\* Purging at the head of a call.
LEMMA PurgedAgrees ==
  ASSUME IInv
  PROVE  Agree(Purged(mem)) /\ Purged(mem).map \subseteq mem.map
BY DeletedAgrees DEF IInv, TypeOK, Agree, Purged

\* What all successful writes to one key have in common: the shard's memory
\* stays in agreement, the key may be new, its tier copy is dropped.
LEMMA WriteStep ==
  ASSUME IInv, NEW k \in Keys, Agree(mem'), mem'.map \subseteq mem.map \cup {k},
         tier' \in TierDelete(k)
  PROVE  /\ tier' \in [Keys -> Copy \cup {None}]
         /\ mem' \in Mem /\ ListIsMap(mem')
         /\ TierUnused'
         /\ ~TierMayFail => OneCopy'
<1>1. /\ tier' \in [Keys -> Copy \cup {None}]
      /\ ~HasTier => tier' = tier
      /\ \A j \in Keys : tier[j] = None => tier'[j] = None
      /\ ~TierMayFail => tier'[k] = None
  BY TierFacts DEF IInv
<1>2. ~TierMayFail => OneCopy'
  BY <1>1 DEF IInv, OneCopy, Agree, Mem
<1> QED
  BY <1>1, <1>2 DEF IInv, TierUnused, Agree

LEMMA CreateStep ==
  ASSUME IInv, NEW k \in Keys, NEW v \in Val, NEW t \in Args, Create(k, v, t)
  PROVE  IInv'
<1> DEFINE m == Purged(mem)
<1>1. Agree(m) /\ m.map \subseteq mem.map
  BY PurgedAgrees
<1> HIDE DEF m
<1>2. CASE k \in m.map /\ Raises
  BY <1>1, <1>2 DEF IInv, TypeOK, Raises, Create, LocalNode, TierUnused, OneCopy,
                    Agree, m
<1>3. CASE /\ k \notin m.map
           /\ tier' \in TierDelete(k)
           /\ mem' = Inserted(m, k, v, DeadlineOf(t))
           /\ reply' = None
           /\ WriteDone
  <2>1. DeadlineOf(t) \in Deadline
    BY DeadlineOfFacts DEF IInv, TypeOK
  <2>2. Agree(mem') /\ mem'.map = m.map \cup {k}
    BY <1>1, <1>3, <2>1, InsertedAgrees
  <2>3. /\ tier' \in [Keys -> Copy \cup {None}]
        /\ mem' \in Mem /\ ListIsMap(mem') /\ TierUnused'
        /\ ~TierMayFail => OneCopy'
    BY <1>1, <1>3, <2>2, WriteStep
  <2> QED
    BY <1>3, <2>3 DEF IInv, TypeOK, WriteDone, LocalNode
<1> QED
  BY <1>2, <1>3 DEF Create, m

LEMMA UpdateStep ==
  ASSUME IInv, NEW k \in Keys, NEW v \in Val, NEW t \in Args, Update(k, v, t)
  PROVE  IInv'
<1> DEFINE m == Purged(mem)
           n == [key |-> k, val |-> v, live |-> TRUE]
<1>1. Agree(m) /\ m.map \subseteq mem.map /\ now \in Nat
  BY PurgedAgrees DEF IInv, TypeOK
<1> HIDE DEF m
<1>2. CASE k \notin m.map /\ Raises
  BY <1>1, <1>2 DEF IInv, TypeOK, Raises, Update, LocalNode, TierUnused, OneCopy,
                    Agree, m
<1>3. CASE /\ k \in m.map
           /\ tier' \in TierDelete(k)
           /\ mem' = WithTTL(Moved(m, n), k, t)
           /\ reply' = None
           /\ WriteDone
  <2>1. n \in Node /\ n.live /\ n.key = k
    BY DEF Node
  <2>2. Agree(Moved(m, n)) /\ Moved(m, n).map = m.map
    <3> HIDE DEF n
    <3> QED
      BY <1>1, <1>3, <2>1, MovedAgrees
  <2>3. Agree(mem') /\ mem'.map = m.map
    BY <1>1, <1>3, <2>2, WithTTLAgrees
  <2>4. /\ tier' \in [Keys -> Copy \cup {None}]
        /\ mem' \in Mem /\ ListIsMap(mem') /\ TierUnused'
        /\ ~TierMayFail => OneCopy'
    BY <1>1, <1>3, <2>3, WriteStep
  <2> QED
    BY <1>3, <2>4 DEF IInv, TypeOK, WriteDone, LocalNode
<1> QED
  BY <1>2, <1>3 DEF Update, m

LEMMA IncrStep ==
  ASSUME IInv, NEW k \in Keys, NEW t \in Args, Incr(k, t)
  PROVE  IInv'
<1> DEFINE m == Purged(mem)
           resident == k \in m.map
           current == IF resident THEN NodeOf(m, k).val ELSE 0
           n == [key |-> k, val |-> current + 1, live |-> TRUE]
<1>1. Agree(m) /\ m.map \subseteq mem.map /\ now \in Nat
  BY PurgedAgrees DEF IInv, TypeOK
<1> HIDE DEF m
<1>2. CASE /\ current \in Texts
           /\ mem' = m
           /\ reply' = None
           /\ UNCHANGED <<now, pc, cont, node, rest>>
  <2>1. tier' \in TierDelete(k) /\ pc = "idle"
    BY DEF Incr
  <2>2. /\ tier' \in [Keys -> Copy \cup {None}]
        /\ mem' \in Mem /\ ListIsMap(mem') /\ TierUnused'
        /\ ~TierMayFail => OneCopy'
    BY <1>1, <1>2, <2>1, WriteStep
  <2> QED
    BY <1>2, <2>1, <2>2 DEF IInv, TypeOK, LocalNode
<1>3. CASE /\ current \in 0..(MaxNum - 1)
           /\ mem' = WithTTL(IF resident THEN Moved(m, n)
                             ELSE Inserted(m, k, n.val, None), k, t)
           /\ reply' = [key |-> k, val |-> n.val]
           /\ WriteDone
  <2>1. n \in Node /\ n.live /\ n.key = k /\ n.val \in Val
    <3>1. current + 1 \in 0..MaxNum
      <4> HIDE DEF current
      <4> QED
        BY <1>3, LRUAssumption
    <3> HIDE DEF current
    <3> QED
      BY <3>1 DEF Node, Val
  <2> HIDE DEF n, current
  <2> DEFINE Kept == /\ tier' \in [Keys -> Copy \cup {None}]
                     /\ mem' \in Mem /\ ListIsMap(mem') /\ TierUnused'
                     /\ ~TierMayFail => OneCopy'
  <2>2. ASSUME resident PROVE Kept
    <3>1. Agree(Moved(m, n)) /\ Moved(m, n).map = m.map
      BY <1>1, <2>1, <2>2, MovedAgrees
    <3>2. Agree(mem') /\ mem'.map = m.map
      BY <1>1, <1>3, <2>2, <3>1, WithTTLAgrees
    <3> QED
      BY <1>1, <3>2, WriteStep DEF Incr
  <2>3. ASSUME ~resident PROVE Kept
    <3> DEFINE d == Inserted(m, k, n.val, None)
    <3>0. None \in Deadline
      BY DEF Deadline
    <3>1. Agree(d) /\ d.map = m.map \cup {k}
      BY <1>1, <2>1, <2>3, <3>0, InsertedAgrees
    <3>2. mem' = WithTTL(d, k, t)
      BY <1>3, <2>3
    <3> HIDE DEF d
    <3>3. Agree(mem') /\ mem'.map = d.map
      BY <1>1, <3>1, <3>2, WithTTLAgrees
    <3> QED
      BY <1>1, <3>1, <3>3, WriteStep DEF Incr
  <2>4. Kept
    BY <2>2, <2>3
  <2> QED
    BY <1>3, <2>1, <2>4 DEF IInv, TypeOK, WriteDone, LocalNode
<1> QED
  BY <1>2, <1>3 DEF Incr, m

LEMMA DeleteStep ==
  ASSUME IInv, NEW k \in Keys, Delete(k)
  PROVE  IInv'
<1>1. Agree(mem') /\ mem'.map \subseteq mem.map \cup {k}
  BY DeletedAgrees DEF IInv, TypeOK, Agree, Delete
<1>2. /\ tier' \in [Keys -> Copy \cup {None}]
      /\ mem' \in Mem /\ ListIsMap(mem') /\ TierUnused'
      /\ ~TierMayFail => OneCopy'
  BY <1>1, WriteStep DEF Delete
<1> QED
  BY <1>2 DEF Delete, IInv, TypeOK, LocalNode

\* A call that at most purges.
LEMMA RaisesStep ==
  ASSUME IInv, pc = "idle", Raises
  PROVE  IInv'
<1> DEFINE m == Purged(mem)
<1>1. Agree(m) /\ m.map \subseteq mem.map
  BY PurgedAgrees
<1> HIDE DEF m
<1> QED
  BY <1>1 DEF IInv, TypeOK, Raises, LocalNode, TierUnused, OneCopy, Agree, m

LEMMA PersistStep ==
  ASSUME IInv, NEW k \in Keys, Persist(k)
  PROVE  IInv'
<1> DEFINE m == Purged(mem)
           d == [m EXCEPT !.ttl = [@ EXCEPT ![k] = None]]
<1>1. Agree(m) /\ m.map \subseteq mem.map
  BY PurgedAgrees
<1> HIDE DEF m
<1>2. CASE k \notin m.map /\ Raises
  BY <1>2, RaisesStep DEF Persist
<1>3. CASE /\ k \in m.map
           /\ mem' = d
           /\ reply' = None
           /\ UNCHANGED <<tier, now, pc, cont, node, rest>>
  <2>0. None \in Deadline
    BY DEF Deadline
  <2>1. Agree(d) /\ d.map = m.map
    BY <1>1, <1>3, <2>0, DeadlineAgrees
  <2> HIDE DEF d
  <2>2. pc = "idle"
    BY DEF Persist
  <2> QED
    BY <1>1, <1>3, <2>1, <2>2
       DEF IInv, TypeOK, LocalNode, TierUnused, OneCopy, Agree
<1> QED
  BY <1>2, <1>3 DEF Persist, m

LEMMA BatchStartStep ==
  ASSUME IInv, NEW S \in SUBSET Keys, MSetStart(S) \/ ReadStart(S)
  PROVE  IInv'
<1> DEFINE m == Purged(mem)
<1>1. Agree(m) /\ m.map \subseteq mem.map
  BY PurgedAgrees
<1> HIDE DEF m
<1>2. /\ mem' = m /\ rest' = S /\ reply' = None /\ pc' \in {"mset", "read"}
      /\ UNCHANGED <<tier, now, cont, node>>
  BY DEF MSetStart, ReadStart, m
<1> QED
  BY <1>1, <1>2 DEF IInv, TypeOK, LocalNode, TierUnused, OneCopy, Agree

LEMMA MSetItemStep ==
  ASSUME IInv, NEW k \in Keys, NEW v \in Val, NEW t \in Args, MSetItem(k, v, t)
  PROVE  IInv'
<1> DEFINE n == [key |-> k, val |-> v, live |-> TRUE]
           m == Moved(mem, n)
           e == DeadlineOf(t)
<1>1. /\ Agree(mem) /\ n \in Node /\ n.live /\ n.key = k
      /\ e \in Deadline
  <2>1. Agree(mem) /\ n \in Node
    BY DEF IInv, TypeOK, Agree, Node
  <2>2. e \in Deadline
    BY DeadlineOfFacts DEF IInv, TypeOK
  <2> QED
    BY <2>1, <2>2
<1>2. Agree(mem') /\ mem'.map \subseteq mem.map \cup {k}
  <2> HIDE DEF n, e
  <2>1. CASE k \in mem.map
    <3>1. mem' = [m EXCEPT !.ttl = [@ EXCEPT ![k] = e]]
      BY <2>1 DEF MSetItem, n, e
    <3>2. Agree(m) /\ m.map = mem.map
      BY <1>1, <2>1, MovedAgrees
    <3> HIDE DEF m
    <3> QED
      BY <1>1, <2>1, <3>1, <3>2, DeadlineAgrees
  <2>2. CASE k \notin mem.map
    <3>1. mem' = Inserted(mem, k, v, e)
      BY <2>2 DEF MSetItem, e
    <3> QED
      BY <1>1, <2>2, <3>1, InsertedAgrees
  <2> QED
    BY <2>1, <2>2
<1>3. /\ tier' \in [Keys -> Copy \cup {None}]
      /\ mem' \in Mem /\ ListIsMap(mem') /\ TierUnused'
      /\ ~TierMayFail => OneCopy'
  BY <1>2, WriteStep DEF MSetItem
<1> QED
  BY <1>3 DEF MSetItem, IInv, TypeOK, LocalNode

LEMMA ReadHitStep ==
  ASSUME IInv, NEW k \in Keys, ReadHit(k)
  PROVE  IInv'
<1> DEFINE n == NodeOf(mem, k)
<1>1. Agree(mem) /\ k \in mem.map
  BY DEF IInv, TypeOK, Agree, ReadHit
<1>2. n \in Node /\ n.key = k /\ n.live
  BY <1>1, NodeOfFacts
<1>3. mem' = Moved(mem, n) /\ reply' = [key |-> k, val |-> n.val]
  BY DEF ReadHit, ReadReturns
<1> HIDE DEF n
<1>4. Agree(mem') /\ mem'.map = mem.map
  BY <1>1, <1>2, <1>3, MovedAgrees
<1>5. n.val \in Val
  BY <1>2 DEF Node
<1> QED
  BY <1>3, <1>4, <1>5 DEF ReadHit, ReadReturns, IInv, TypeOK, LocalNode, TierUnused,
                          OneCopy, Agree

LEMMA ReadMissStep ==
  ASSUME IInv, NEW k \in Keys, ReadMiss(k)
  PROVE  IInv'
<1>1. /\ tier' \in [Keys -> Copy \cup {None}]
      /\ \A j \in Keys : tier[j] = None => tier'[j] = None
  BY TierFacts DEF ReadMiss, IInv
<1>2. UNCHANGED <<mem, now, cont, node>> /\ pc' \in {"idle", "read"}
  BY DEF ReadMiss, ReadReturns
<1>3. reply' = [key |-> k, val |-> None] /\ rest' \subseteq Keys
  BY DEF ReadMiss, ReadReturns, IInv, TypeOK
<1> QED
  BY <1>1, <1>2, <1>3 DEF IInv, TypeOK, LocalNode, TierUnused, OneCopy, Mem

LEMMA TickStep ==
  ASSUME IInv, Tick
  PROVE  IInv'
BY DEF Tick, IInv, TypeOK, LocalNode, TierUnused, OneCopy, ListIsMap, AtTail

\* A copy found in the tier moves into memory.
LEMMA PromoteStep ==
  ASSUME IInv, NEW k \in Keys, NEW m, Agree(m), m.map \subseteq mem.map,
         k \notin m.map, NEW caller \in {"read", "patch"}, Promote(k, caller),
         mem' = Inserted(m, k, tier[k].val, tier[k].exp),
         UNCHANGED now, rest' \subseteq Keys,
         reply' \in [key: Keys, val: Val \cup {None}] \cup {None}
  PROVE  IInv'
<1>1. tier[k] \in Copy /\ tier[k] # None /\ tier' \in TierDelete(k)
  BY DEF Promote, TierFresh, IInv, TypeOK
<1>2. tier[k].val \in Val /\ tier[k].exp \in Deadline /\ HasTier
  BY <1>1 DEF Copy, Deadline, IInv, TierUnused
<1>3. /\ Agree(mem') /\ mem'.map = m.map \cup {k}
      /\ AtTail(mem', k)
  BY <1>2, InsertedAgrees
<1>4. /\ tier' \in [Keys -> Copy \cup {None}]
      /\ mem' \in Mem /\ ListIsMap(mem') /\ TierUnused'
      /\ ~TierMayFail => OneCopy'
  BY <1>1, <1>3, WriteStep
<1>5. node' \in Node /\ node'.live /\ node'.key = k
  BY <1>2 DEF Promote, Node
<1>6. pc' = "evict" /\ cont' = caller
  BY DEF Promote
<1>7. LocalNode'
  BY <1>2, <1>3, <1>5, <1>6 DEF LocalNode
<1> QED
  BY <1>4, <1>5, <1>6, <1>7 DEF IInv, TypeOK

LEMMA ReadPromoteStep ==
  ASSUME IInv, NEW k \in Keys, ReadPromote(k)
  PROVE  IInv'
<1>1. Agree(mem)
  BY DEF IInv, TypeOK, Agree
<1>2. rest' \subseteq Keys
  BY DEF ReadPromote, IInv, TypeOK
<1>3. reply' \in [key: Keys, val: Val \cup {None}] \cup {None}
  BY DEF ReadPromote, IInv, TypeOK
<1> QED
  BY <1>1, <1>2, <1>3, PromoteStep DEF ReadPromote

LEMMA PatchStartStep ==
  ASSUME IInv, NEW k \in Keys, PatchStart(k)
  PROVE  IInv'
<1> DEFINE m == Purged(mem)
<1>1. Agree(m) /\ m.map \subseteq mem.map
  BY PurgedAgrees
<1>2. UNCHANGED <<now, rest>> /\ reply' = None
  BY DEF PatchStart
<1>3. CASE /\ k \in m.map
           /\ mem' = m
           /\ node' = NodeOf(m, k)
           /\ pc' = "patch"
           /\ UNCHANGED <<tier, cont>>
  <2>1. node' \in Node /\ node'.key = k /\ node'.live
    BY <1>1, <1>3, NodeOfFacts
  <2> HIDE DEF m
  <2> QED
    BY <1>1, <1>2, <1>3, <2>1
       DEF IInv, TypeOK, LocalNode, TierUnused, OneCopy, Agree
<1>4. CASE /\ k \notin m.map
           /\ Promote(k, "patch")
           /\ mem' = Inserted(m, k, tier[k].val, tier[k].exp)
  <2>1. rest' \subseteq Keys
    BY <1>2 DEF IInv, TypeOK
  <2> HIDE DEF m
  <2> QED
    BY <1>1, <1>2, <1>4, <2>1, PromoteStep
<1>5. CASE /\ k \notin m.map
           /\ mem' = m
           /\ tier' \in TierMiss(k)
           /\ UNCHANGED <<pc, cont, node>>
  <2>1. /\ tier' \in [Keys -> Copy \cup {None}]
        /\ \A j \in Keys : tier[j] = None => tier'[j] = None
    BY <1>5, TierFacts DEF IInv
  <2>2. pc = "idle"
    BY DEF PatchStart
  <2> HIDE DEF m
  <2> QED
    BY <1>1, <1>2, <1>5, <2>1, <2>2
       DEF IInv, TypeOK, LocalNode, TierUnused, OneCopy, Agree, Mem
<1> QED
  BY <1>3, <1>4, <1>5 DEF PatchStart

LEMMA PatchApplyStep ==
  ASSUME IInv, NEW v \in Val, NEW t \in Args, PatchApply(v, t)
  PROVE  IInv'
<1> DEFINE n == [node EXCEPT !.val = v]
           k == node.key
<1>1. /\ Agree(mem) /\ node \in Node /\ node.live /\ k \in mem.map
      /\ k \in Keys /\ now \in Nat
  BY DEF PatchApply, IInv, TypeOK, Agree, LocalNode, Mem
<1>2. n \in Node /\ n.live /\ n.key = k
  BY <1>1 DEF Node
<1>3. /\ mem' = WithTTL(Moved(mem, n), k, t)
      /\ tier' \in TierDelete(k)
      /\ reply' = [key |-> k, val |-> v]
      /\ WriteDone
  BY DEF PatchApply
<1> HIDE DEF n, k
<1>4. Agree(Moved(mem, n)) /\ Moved(mem, n).map = mem.map
  BY <1>1, <1>2, MovedAgrees
<1>5. Agree(mem') /\ mem'.map = mem.map
  BY <1>1, <1>3, <1>4, WithTTLAgrees
<1>6. /\ tier' \in [Keys -> Copy \cup {None}]
      /\ mem' \in Mem /\ ListIsMap(mem') /\ TierUnused'
      /\ ~TierMayFail => OneCopy'
  BY <1>1, <1>3, <1>5, WriteStep
<1> QED
  BY <1>1, <1>3, <1>6 DEF IInv, TypeOK, WriteDone, LocalNode

LEMMA PatchFailsStep ==
  ASSUME IInv, PatchFails
  PROVE  IInv'
<1>1. node \in Node /\ node.key \in Keys /\ mem.map \subseteq Keys
  BY DEF PatchFails, IInv, TypeOK, LocalNode, Node, Mem
<1>2. /\ UNCHANGED <<mem, now, rest, reply>> /\ tier' \in TierDelete(node.key)
      /\ pc' = "idle" /\ cont' = "return" /\ node' = None
  BY DEF PatchFails
<1>3. /\ tier' \in [Keys -> Copy \cup {None}]
      /\ ~HasTier => tier' = tier
      /\ \A j \in Keys : tier[j] = None => tier'[j] = None
  BY <1>1, <1>2, TierFacts DEF IInv
<1> QED
  BY <1>1, <1>2, <1>3 DEF IInv, TypeOK, LocalNode, TierUnused, OneCopy

LEMMA EvictOneStep ==
  ASSUME IInv, ~(Hints /\ HasTier), EvictOne
  PROVE  IInv'
<1>1. PICK i \in Candidates(mem) :
        /\ tier' \in TierPut(mem.order[i], mem.ttl[mem.order[i].key])
        /\ mem' = Deleted(mem, {mem.order[i].key})
  BY DEF EvictOne
<1> DEFINE victim == mem.order[i]
           x == victim.key
<1>2. /\ Agree(mem) /\ mem.order \in Seq(Node) /\ i \in DOMAIN mem.order
      /\ mem.ttl \in [Keys -> Deadline]
  BY DEF IInv, TypeOK, Agree, Mem, Candidates
<1>3. victim \in Node /\ x \in mem.map /\ x \in Keys /\ victim.val \in Val
  <2>1. victim \in Node
    BY <1>2, ElementOfSeq, LenProperties
  <2>2. x \in mem.map
    BY <1>2 DEF Agree, ListIsMap
  <2> QED
    BY <2>1, <2>2 DEF Node
<1>4. Agree(mem') /\ mem'.map = mem.map \ {x}
  BY <1>1, <1>2, DeletedAgrees
<1>5. /\ tier' \in [Keys -> Copy \cup {None}]
      /\ ~HasTier => tier' = tier
      /\ \A j \in Keys \ {x} : tier'[j] = tier[j]
  <2>1. [val |-> victim.val, exp |-> mem.ttl[x]] \in Copy
    BY <1>2, <1>3 DEF Copy, Deadline
  <2>2. tier \in [Keys -> Copy \cup {None}]
    BY DEF IInv, TypeOK
  <2> HIDE DEF victim
  <2> QED
    BY <1>1, <1>3, <2>1, <2>2 DEF TierPut, OrFails, victim
<1>6. UNCHANGED <<now, pc, cont, node, rest, reply>> /\ pc = "evict"
  BY DEF EvictOne
<1>7. LocalNode'
  <2>1. CASE cont = "return"
    BY <1>6, <2>1 DEF IInv, LocalNode
  <2>2. CASE cont # "return"
    <3>1. HasTier /\ node \in Node /\ node.live /\ AtTail(mem, node.key)
      BY <1>6, <2>2 DEF IInv, LocalNode
    <3>2. i = 1
      BY <1>2, <3>1, LenProperties DEF Candidates
    <3>3. mem.order[1].key # node.key
      BY <1>2, <3>1, HeadIsNotTail DEF EvictOne
    <3>4. AtTail(mem', node.key)
      BY <1>1, <1>2, <3>1, <3>2, <3>3, HeadDeletedKeepsTail
    <3>5. pc' = "evict" /\ cont' = cont /\ node' = node
      BY <1>6
    <3>6. AtTail(mem', node'.key) /\ node' \in Node /\ node'.live
      BY <3>1, <3>4, <3>5
    <3> QED
      BY <2>2, <3>1, <3>5, <3>6 DEF LocalNode
  <2> QED
    BY <2>1, <2>2
<1>8. ~TierMayFail => OneCopy'
  <2> HIDE DEF x
  <2> QED
    BY <1>2, <1>4, <1>5 DEF IInv, OneCopy, Agree, Mem
<1>9. TierUnused'
  BY <1>5 DEF IInv, TierUnused
<1> QED
  BY <1>4, <1>5, <1>6, <1>7, <1>8, <1>9 DEF IInv, TypeOK, Agree

\* The node a promoting call still holds is that of a resident key.
LEMMA TailIsResident ==
  ASSUME NEW m, Agree(m), NEW k, AtTail(m, k)
  PROVE  k \in m.map
<1>1. Len(m.order) \in DOMAIN m.order
  BY LenProperties DEF Agree, Mem, AtTail
<1> QED
  BY <1>1 DEF AtTail, Agree, ListIsMap

LEMMA EvictEndsStep ==
  ASSUME IInv, WriteReturns \/ ReadPromoted \/ PatchPromoted
  PROVE  IInv'
<1>1. Agree(mem) /\ pc = "evict"
  BY DEF IInv, TypeOK, Agree, WriteReturns, ReadPromoted, PatchPromoted, EvictEnds
<1>2. CASE WriteReturns
  BY <1>2 DEF WriteReturns, IInv, TypeOK, LocalNode, TierUnused, OneCopy
<1>3. CASE ReadPromoted
  <2>1. node \in Node /\ node.live /\ node.key \in mem.map
    BY <1>1, <1>3, TailIsResident DEF ReadPromoted, IInv, LocalNode
  <2>2. mem' = Moved(mem, node)
    BY <1>3 DEF ReadPromoted
  <2>3. Agree(mem') /\ mem'.map = mem.map
    BY <1>1, <2>1, <2>2, MovedAgrees
  <2>4. /\ UNCHANGED <<tier, now, rest>> /\ node' = None /\ cont' = "return"
        /\ pc' \in {"idle", "read"} /\ reply' = [key |-> node.key, val |-> node.val]
    BY <1>3 DEF ReadPromoted, ReadReturns
  <2>5. node.key \in Keys /\ node.val \in Val
    BY <2>1 DEF Node
  <2> QED
    BY <2>3, <2>4, <2>5 DEF IInv, TypeOK, LocalNode, TierUnused, OneCopy, Agree
<1>4. CASE PatchPromoted
  <2>1. node \in Node /\ node.live /\ node.key \in mem.map
    BY <1>1, <1>4, TailIsResident DEF PatchPromoted, IInv, LocalNode
  <2>2. pc' = "patch" /\ UNCHANGED <<mem, tier, now, cont, node, rest, reply>>
    BY <1>4 DEF PatchPromoted
  <2> QED
    BY <2>1, <2>2 DEF IInv, TypeOK, LocalNode, TierUnused, OneCopy
<1> QED
  BY <1>2, <1>3, <1>4

LEMMA NextStep ==
  ASSUME IInv, ~(Hints /\ HasTier), [Next]_vars
  PROVE  IInv'
<1>1. CASE Tick
  BY <1>1, TickStep
<1>2. ASSUME NEW k \in Keys, KeyOps(k) PROVE IInv'
  <2>1. ASSUME NEW v \in Val, NEW t \in Args,
               Create(k, v, t) \/ Update(k, v, t) \/ MSetItem(k, v, t)
        PROVE  IInv'
    BY <2>1, CreateStep, UpdateStep, MSetItemStep
  <2>2. ASSUME NEW t \in Args, Incr(k, t) PROVE IInv'
    BY <2>2, IncrStep
  <2>3. CASE Delete(k) \/ Persist(k) \/ PatchStart(k)
    BY <2>3, DeleteStep, PersistStep, PatchStartStep
  <2>4. CASE ReadHit(k) \/ ReadMiss(k) \/ ReadPromote(k)
    BY <2>4, ReadHitStep, ReadMissStep, ReadPromoteStep
  <2> QED
    BY <1>2, <2>1, <2>2, <2>3, <2>4 DEF KeyOps
<1>3. ASSUME NEW S \in SUBSET Keys, MSetStart(S) \/ ReadStart(S) PROVE IInv'
  BY <1>3, BatchStartStep
<1>4. ASSUME NEW v \in Val, NEW t \in Args, PatchApply(v, t) PROVE IInv'
  BY <1>4, PatchApplyStep
<1>5. CASE PatchFails
  BY <1>5, PatchFailsStep
<1>6. CASE PurgeExpired
  BY <1>6, RaisesStep DEF PurgeExpired
<1>7. CASE Evicting
  BY <1>7, EvictOneStep, EvictEndsStep DEF Evicting
<1>8. CASE UNCHANGED vars
  BY <1>8 DEF vars, IInv, TypeOK, LocalNode, TierUnused, OneCopy, ListIsMap, AtTail
<1> QED
  BY <1>1, <1>2, <1>3, <1>4, <1>5, <1>6, <1>7, <1>8 DEF Next

-----------------------------------------------------------------------------
(* The theorems.  Hints and a tier together are excluded: a hint may make the *)
(* node a call has just promoted the victim, and moving it to the tail then   *)
(* leaves a node in the list whose key is not in the map.                     *)

THEOREM Inductive == ~(Hints /\ HasTier) => (Spec => []IInv)
<1> SUFFICES ASSUME ~(Hints /\ HasTier) PROVE Spec => []IInv
  OBVIOUS
<1>1. Init => IInv
  BY InitIInv
<1>2. IInv /\ [Next]_vars => IInv'
  BY NextStep
<1> QED
  BY <1>1, <1>2, PTL DEF Spec

\* Every variable of the shard keeps its type under every call.
THEOREM TypeCorrect == ~(Hints /\ HasTier) => (Spec => []TypeOK)
<1> SUFFICES ASSUME ~(Hints /\ HasTier) PROVE Spec => []TypeOK
  OBVIOUS
<1>1. Spec => []IInv
  BY Inductive
<1>2. IInv => TypeOK
  BY DEF IInv
<1> QED
  BY <1>1, <1>2, PTL

\* The recency list, the deadlines and the scan index stay in step with the map
\* through every call, each of which edits the four by hand.
THEOREM ListAgreement == ~(Hints /\ HasTier) => (Spec => []ListAndMapAgree)
<1> SUFFICES ASSUME ~(Hints /\ HasTier) PROVE Spec => []ListAndMapAgree
  OBVIOUS
<1>1. Spec => []IInv
  BY Inductive
<1>2. IInv => ListAndMapAgree
  BY DEF IInv, ListAndMapAgree
<1> QED
  BY <1>1, <1>2, PTL

\* With a tier whose calls never raise, spilling and promoting move an entry and
\* never copy it.
THEOREM NoStaleCopy ==
  ~(Hints /\ HasTier) /\ ~TierMayFail => (Spec => []OneCopy)
<1> SUFFICES ASSUME ~(Hints /\ HasTier), ~TierMayFail PROVE Spec => []OneCopy
  OBVIOUS
<1>1. Spec => []IInv
  BY Inductive
<1>2. IInv => OneCopy
  BY DEF IInv
<1> QED
  BY <1>1, <1>2, PTL

\* The eviction a promotion causes never takes the promoted key.
THEOREM PromotedKeySurvives == ~(Hints /\ HasTier) => (Spec => []PromotedStays)
<1> SUFFICES ASSUME ~(Hints /\ HasTier) PROVE Spec => []PromotedStays
  OBVIOUS
<1>1. Spec => []IInv
  BY Inductive
<1>2. IInv => PromotedStays
  <2> SUFFICES ASSUME IInv, pc \in {"evict", "patch"}, node # None
               PROVE  node.key \in mem.map
    BY DEF PromotedStays
  <2>1. Agree(mem)
    BY DEF IInv, TypeOK, Agree
  <2> QED
    BY <2>1, TailIsResident DEF IInv, LocalNode
<1> QED
  BY <1>1, <1>2, PTL

\* A PATCH that answers has given the key, in memory, the value it answers with.
THEOREM PatchedKeyIsThere == ~(Hints /\ HasTier) => (Spec => PatchTakesEffect)
<1> SUFFICES ASSUME ~(Hints /\ HasTier) PROVE Spec => PatchTakesEffect
  OBVIOUS
<1>1. Spec => []IInv
  BY Inductive
<1>2. ASSUME IInv, [Next]_vars, pc = "patch", pc' = "evict"
      PROVE  Stored'[node.key] # None /\ Stored'[node.key].val = reply'.val
  <2>1. node \in Node /\ node.live /\ node.key \in mem.map /\ Agree(mem)
        /\ now \in Nat
    BY <1>2 DEF IInv, TypeOK, Agree, LocalNode
  <2>2. PICK v \in Val, t \in Args : PatchApply(v, t)
    BY <1>2 DEF Next, KeyOps, Tick, Create, Update, Incr, Delete, Persist, PatchStart,
         MSetItem, ReadHit, ReadMiss, ReadPromote, MSetStart, ReadStart, PatchFails,
         PurgeExpired, Evicting, EvictOne, WriteReturns, ReadPromoted, PatchPromoted,
         EvictEnds, vars
  <2> DEFINE k == node.key
             n == [node EXCEPT !.val = v]
             d == Moved(mem, n)
  <2>3. n \in Node /\ n.live /\ n.key = k /\ n.val = v /\ k \in Keys
    BY <2>1 DEF Node
  <2>4. mem' = WithTTL(d, k, t) /\ reply'.val = v
    BY <2>2 DEF PatchApply
  <2>5. Agree(d) /\ d.map = mem.map /\ NodeOf(d, k) = n
    <3> HIDE DEF n
    <3> QED
      BY <2>1, <2>3, MovedAgrees, MovedNode
  <2> HIDE DEF n, k, d
  <2>6. Agree(mem') /\ mem'.map = d.map
    BY <2>1, <2>4, <2>5, WithTTLAgrees DEF k
  <2>7. mem'.order = d.order
    BY <2>4, <2>5 DEF WithTTL, Agree, Mem
  <2>8. NodeOf(mem', k) = n
    BY <2>5, <2>7 DEF NodeOf, LiveAt
  <2>9. mem'.ttl[k] \in Deadline /\ k \in mem'.map
    BY <2>1, <2>3, <2>5, <2>6 DEF Agree, Mem, k
  <2>10. Stored'[k] = [val |-> v, exp |-> mem'.ttl[k]]
    BY <2>3, <2>8, <2>9 DEF Stored
  <2>11. Stored'[k] \in Copy
    BY <2>3, <2>9, <2>10 DEF Copy, Deadline
  <2> QED
    BY <2>4, <2>10, <2>11, LRUAssumption DEF k
<1> QED
  BY <1>1, <1>2, PTL DEF Spec, PatchTakesEffect

-----------------------------------------------------------------------------
(* What the list operators do to the node, the deadline and the rank of one   *)
(* key.                                                                       *)

\* In agreement, the node of a key is the one node of the list that bears it.
LEMMA NodeAt ==
  ASSUME NEW m, Agree(m), NEW i \in DOMAIN m.order
  PROVE  NodeOf(m, m.order[i].key) = m.order[i]
<1>1. LiveAt(m, {m.order[i].key}) = {i}
  BY DEF Agree, ListIsMap, LiveAt
<1> QED
  BY <1>1 DEF NodeOf

LEMMA NodeFound ==
  ASSUME NEW m, Agree(m), NEW k \in m.map
  PROVE  \E i \in DOMAIN m.order : m.order[i].key = k /\ NodeOf(m, k) = m.order[i]
<1>1. PICK i \in DOMAIN m.order : m.order[i].key = k
  BY DEF Agree, ListIsMap
<1> QED
  BY <1>1, NodeAt

\* The nodes that stay keep their order.
LEMMA UnlinkedOrder ==
  ASSUME NEW m, Agree(m), NEW K
  PROVE  /\ Unlinked(m, K) \in Seq(Node)
         /\ \A j \in DOMAIN Unlinked(m, K) :
              \E x \in DOMAIN m.order : Unlinked(m, K)[j] = m.order[x]
         /\ \A j, l \in DOMAIN Unlinked(m, K) : j < l =>
              \E x, y \in DOMAIN m.order :
                /\ x < y
                /\ Unlinked(m, K)[j] = m.order[x]
                /\ Unlinked(m, K)[l] = m.order[y]
<1> DEFINE s == m.order
           I == DOMAIN s \ LiveAt(m, K)
<1>1. s \in Seq(Node) /\ I \in SUBSET DOMAIN s /\ Unlinked(m, K) = Pick(s, I)
  BY DEF Agree, Mem, Unlinked
<1> HIDE DEF s, I
<1>2. /\ Pick(s, I) \in Seq(Node)
      /\ \A j \in DOMAIN Pick(s, I) : \E i \in I : Pick(s, I)[j] = s[i]
      /\ \A j, l \in DOMAIN Pick(s, I) : j < l =>
           \E x, y \in I : x < y /\ Pick(s, I)[j] = s[x] /\ Pick(s, I)[l] = s[y]
  BY <1>1, PickFacts
<1> QED
  BY <1>1, <1>2 DEF s

\* What is left of a shard after a deletion is as it was.
LEMMA DeletedEntry ==
  ASSUME NEW m, Agree(m), NEW K, NEW k \in m.map \ K
  PROVE  /\ NodeOf(Deleted(m, K), k) = NodeOf(m, k)
         /\ Deleted(m, K).ttl[k] = m.ttl[k]
<1> DEFINE d == Deleted(m, K)
           u == Unlinked(m, K)
<1>1. Agree(d) /\ d.map = m.map \ K
  BY DeletedAgrees
<1>2. /\ d.order = u /\ k \in Keys
      /\ d.ttl = [j \in Keys |-> IF j \in K THEN None ELSE m.ttl[j]]
  BY DEF Deleted, Agree, Mem
<1>3. \A j \in DOMAIN u : \E x \in DOMAIN m.order : u[j] = m.order[x]
  BY UnlinkedOrder
<1> HIDE DEF d, u
<1>4. PICK j \in DOMAIN d.order : d.order[j].key = k /\ NodeOf(d, k) = d.order[j]
  BY <1>1, NodeFound
<1>5. PICK x \in DOMAIN m.order : d.order[j] = m.order[x]
  BY <1>2, <1>3, <1>4
<1>6. NodeOf(m, k) = m.order[x]
  BY <1>4, <1>5, NodeAt
<1>7. d.ttl[k] = m.ttl[k]
  BY <1>2
<1> QED
  BY <1>4, <1>5, <1>6, <1>7 DEF d

LEMMA InsertedEntry ==
  ASSUME NEW m, Agree(m), NEW k \in Keys, k \notin m.map,
         NEW v \in Val, NEW e \in Deadline
  PROVE  /\ NodeOf(Inserted(m, k, v, e), k) = [key |-> k, val |-> v, live |-> TRUE]
         /\ Inserted(m, k, v, e).ttl[k] = e
         /\ \A j \in m.map : /\ NodeOf(Inserted(m, k, v, e), j) = NodeOf(m, j)
                             /\ Inserted(m, k, v, e).ttl[j] = m.ttl[j]
<1> DEFINE n == [key |-> k, val |-> v, live |-> TRUE]
           d == Inserted(m, k, v, e)
<1>1. Agree(d)
  BY InsertedAgrees
<1>2. /\ m.order \in Seq(Node) /\ n \in Node /\ n.key = k
      /\ m.ttl \in [Keys -> Deadline] /\ m.map \subseteq Keys
      /\ d.order = Append(m.order, n) /\ d.ttl = [m.ttl EXCEPT ![k] = e]
  BY DEF Inserted, Agree, Mem, Node
<1> HIDE DEF n, d
<1>3. /\ Len(m.order) \in Nat /\ DOMAIN m.order = 1..Len(m.order)
      /\ DOMAIN d.order = 1..(Len(m.order) + 1)
      /\ d.order[Len(m.order) + 1] = n
      /\ \A i \in 1..Len(m.order) : d.order[i] = m.order[i]
  BY <1>2, LenProperties, AppendProperties
<1>4. NodeOf(d, k) = n
  BY <1>1, <1>2, <1>3, NodeAt
<1>5. ASSUME NEW j \in m.map PROVE NodeOf(d, j) = NodeOf(m, j)
  <2>1. PICK i \in DOMAIN m.order : m.order[i].key = j /\ NodeOf(m, j) = m.order[i]
    BY NodeFound
  <2>2. i \in DOMAIN d.order /\ d.order[i] = m.order[i]
    BY <1>3
  <2> QED
    BY <1>1, <2>1, <2>2, NodeAt
<1>6. d.ttl[k] = e /\ \A j \in m.map : d.ttl[j] = m.ttl[j]
  BY <1>2
<1> QED
  BY <1>4, <1>5, <1>6 DEF n, d

LEMMA MovedEntry ==
  ASSUME NEW m, Agree(m), NEW n \in Node, n.live, n.key \in m.map
  PROVE  /\ NodeOf(Moved(m, n), n.key) = n
         /\ Moved(m, n).ttl = m.ttl
         /\ \A j \in m.map \ {n.key} : NodeOf(Moved(m, n), j) = NodeOf(m, j)
<1> DEFINE u == Unlinked(m, {n.key})
           d == Moved(m, n)
<1>1. Agree(d) /\ d.map = m.map /\ NodeOf(d, n.key) = n
  BY MovedAgrees, MovedNode
<1>2. u \in Seq(Node) /\ d.order = Append(u, n) /\ d.ttl = m.ttl
  BY UnlinkedFacts DEF Moved, Mem, Agree
<1>3. \A j \in DOMAIN u : \E x \in DOMAIN m.order : u[j] = m.order[x]
  BY UnlinkedOrder
<1> HIDE DEF u, d
<1>4. /\ Len(u) \in Nat /\ DOMAIN u = 1..Len(u)
      /\ DOMAIN d.order = 1..(Len(u) + 1)
      /\ d.order[Len(u) + 1] = n
      /\ \A i \in 1..Len(u) : d.order[i] = u[i]
  BY <1>2, LenProperties, AppendProperties
<1>5. ASSUME NEW j \in m.map \ {n.key} PROVE NodeOf(d, j) = NodeOf(m, j)
  <2>1. PICK i \in DOMAIN d.order : d.order[i].key = j /\ NodeOf(d, j) = d.order[i]
    BY <1>1, NodeFound
  <2>2. i \in DOMAIN u /\ d.order[i] = u[i]
    BY <1>4, <2>1
  <2>3. PICK x \in DOMAIN m.order : u[i] = m.order[x]
    BY <1>3, <2>2
  <2> QED
    BY <2>1, <2>2, <2>3, NodeAt
<1> QED
  BY <1>1, <1>2, <1>5 DEF d

LEMMA DeadlineEntry ==
  ASSUME NEW m, Agree(m), NEW k \in m.map, NEW e \in Deadline
  PROVE  /\ [m EXCEPT !.ttl = [@ EXCEPT ![k] = e]].ttl[k] = e
         /\ \A j \in m.map :
              NodeOf([m EXCEPT !.ttl = [@ EXCEPT ![k] = e]], j) = NodeOf(m, j)
         /\ \A j \in m.map \ {k} :
              [m EXCEPT !.ttl = [@ EXCEPT ![k] = e]].ttl[j] = m.ttl[j]
<1> DEFINE d == [m EXCEPT !.ttl = [@ EXCEPT ![k] = e]]
<1>1. d.order = m.order /\ d.ttl = [m.ttl EXCEPT ![k] = e]
      /\ m.ttl \in [Keys -> Deadline] /\ m.map \subseteq Keys
  BY DEF Agree, Mem
<1> HIDE DEF d
<1>2. \A j \in m.map : NodeOf(d, j) = NodeOf(m, j)
  BY <1>1 DEF NodeOf, LiveAt
<1>3. d.ttl[k] = e /\ \A j \in m.map \ {k} : d.ttl[j] = m.ttl[j]
  BY <1>1
<1> QED
  BY <1>2, <1>3 DEF d

-----------------------------------------------------------------------------
(***************************************************************************)
(* The list is in order of use: of two nodes, the later one's key was used *)
(* after the last use of the earlier one's.  Each list operator keeps it   *)
(* so, because what is used goes to the tail and unlinking keeps the order *)
(* of the others.                                                          *)
(***************************************************************************)
UseOrder(m) ==
  \A i, j \in DOMAIN m.order :
    i < j => m.order[j].key \in m.newer[m.order[i].key]

LEMMA DeletedOrder ==
  ASSUME NEW m, Agree(m), UseOrder(m), NEW K
  PROVE  UseOrder(Deleted(m, K))
<1> DEFINE u == Unlinked(m, K)
           d == Deleted(m, K)
<1>1. /\ d.order = u
      /\ d.newer = [k \in Keys |-> IF k \in K THEN {} ELSE m.newer[k] \ K]
      /\ m.map \subseteq Keys
  BY DEF Deleted, Agree, Mem
<1>2. /\ \A j \in DOMAIN u : u[j].key \in m.map \ K
      /\ \A j, l \in DOMAIN u : j < l =>
           \E x, y \in DOMAIN m.order :
             x < y /\ u[j] = m.order[x] /\ u[l] = m.order[y]
  BY UnlinkedFacts, UnlinkedOrder
<1> HIDE DEF u, d
<1>3. ASSUME NEW j \in DOMAIN u, NEW l \in DOMAIN u, j < l
      PROVE  u[l].key \in d.newer[u[j].key]
  <2>1. PICK x, y \in DOMAIN m.order :
          x < y /\ u[j] = m.order[x] /\ u[l] = m.order[y]
    BY <1>2, <1>3
  <2>2. u[l].key \in m.newer[u[j].key]
    BY <2>1 DEF UseOrder
  <2> QED
    BY <1>1, <1>2, <2>2
<1> QED
  BY <1>1, <1>3 DEF UseOrder, d

\* A list to which the node of a key just used is appended.
LEMMA AppendedOrder ==
  ASSUME NEW m, NEW d, Agree(m), UseOrder(m), NEW u \in Seq(Node), NEW n \in Node,
         d.order = Append(u, n), d.newer = Used(m, n.key),
         \A j \in DOMAIN u : u[j].key \in m.map \ {n.key},
         \A j, l \in DOMAIN u : j < l =>
           \E x, y \in DOMAIN m.order :
             x < y /\ u[j] = m.order[x] /\ u[l] = m.order[y]
  PROVE  UseOrder(d)
<1>1. /\ Len(u) \in Nat /\ DOMAIN u = 1..Len(u)
      /\ DOMAIN d.order = 1..(Len(u) + 1)
      /\ d.order[Len(u) + 1] = n
      /\ \A i \in 1..Len(u) : d.order[i] = u[i]
  BY LenProperties, AppendProperties
<1>2. m.map \subseteq Keys
  BY DEF Agree, Mem
<1>3. \A k \in m.map \ {n.key} : d.newer[k] = m.newer[k] \cup {n.key}
  BY <1>2 DEF Used
<1>4. ASSUME NEW i \in DOMAIN d.order, NEW j \in DOMAIN d.order, i < j
      PROVE  d.order[j].key \in d.newer[d.order[i].key]
  <2>1. i \in DOMAIN u /\ d.order[i] = u[i] /\ u[i].key \in m.map \ {n.key}
    BY <1>1, <1>4
  <2>2. CASE j = Len(u) + 1
    BY <1>1, <1>3, <2>1, <2>2
  <2>3. CASE j # Len(u) + 1
    <3>1. j \in DOMAIN u /\ d.order[j] = u[j]
      BY <1>1, <2>3
    <3>2. PICK x, y \in DOMAIN m.order :
            x < y /\ u[i] = m.order[x] /\ u[j] = m.order[y]
      BY <1>4, <2>1, <3>1
    <3> QED
      BY <1>3, <2>1, <3>1, <3>2 DEF UseOrder
  <2> QED
    BY <2>2, <2>3
<1> QED
  BY <1>4 DEF UseOrder

LEMMA InsertedOrder ==
  ASSUME NEW m, Agree(m), UseOrder(m), NEW k \in Keys, k \notin m.map,
         NEW v \in Val, NEW e \in Deadline
  PROVE  UseOrder(Inserted(m, k, v, e))
<1> DEFINE n == [key |-> k, val |-> v, live |-> TRUE]
           d == Inserted(m, k, v, e)
           u == m.order
<1>1. /\ u \in Seq(Node) /\ n \in Node /\ n.key = k
      /\ d.order = Append(u, n) /\ d.newer = Used(m, k)
  BY DEF Inserted, Agree, Mem, Node
<1>2. \A j \in DOMAIN u : u[j].key \in m.map \ {n.key}
  BY DEF Agree, ListIsMap
<1>3. UseOrder(d)
  <2> HIDE DEF n, d
  <2> QED
    BY <1>1, <1>2, AppendedOrder
<1> QED
  BY <1>3

LEMMA MovedOrder ==
  ASSUME NEW m, Agree(m), UseOrder(m), NEW n \in Node, n.live, n.key \in m.map
  PROVE  UseOrder(Moved(m, n))
<1> DEFINE u == Unlinked(m, {n.key})
           d == Moved(m, n)
<1>1. d.order = Append(u, n) /\ d.newer = Used(m, n.key)
  BY DEF Moved, Agree, Mem
<1>2. /\ u \in Seq(Node)
      /\ \A j \in DOMAIN u : u[j].key \in m.map \ {n.key}
      /\ \A j, l \in DOMAIN u : j < l =>
           \E x, y \in DOMAIN m.order :
             x < y /\ u[j] = m.order[x] /\ u[l] = m.order[y]
  <2> DEFINE K == {n.key}
  <2>1. u = Unlinked(m, K)
    OBVIOUS
  <2> HIDE DEF u, K
  <2>2. /\ u \in Seq(Node)
        /\ \A j \in DOMAIN u : u[j].key \in m.map \ K
    BY <2>1, UnlinkedFacts
  <2>3. \A j, l \in DOMAIN u : j < l =>
          \E x, y \in DOMAIN m.order :
            x < y /\ u[j] = m.order[x] /\ u[l] = m.order[y]
    BY <2>1, UnlinkedOrder
  <2> QED
    BY <2>2, <2>3 DEF K
<1>3. UseOrder(d)
  <2> HIDE DEF u, d
  <2> QED
    BY <1>1, <1>2, AppendedOrder
<1> QED
  BY <1>3

\* A change of deadlines leaves list and ranks alone.
LEMMA DeadlineOrder ==
  ASSUME NEW m, Agree(m), UseOrder(m), NEW k, NEW e
  PROVE  UseOrder([m EXCEPT !.ttl = [@ EXCEPT ![k] = e]])
<1> DEFINE d == [m EXCEPT !.ttl = [@ EXCEPT ![k] = e]]
<1>1. d.order = m.order /\ d.newer = m.newer
  BY DEF Agree, Mem
<1> QED
  BY <1>1 DEF UseOrder

LEMMA WithTTLOrder ==
  ASSUME NEW m, Agree(m), UseOrder(m), NEW k, NEW t
  PROVE  UseOrder(WithTTL(m, k, t))
BY DeadlineOrder DEF WithTTL

\* Every step keeps the order of use.
LEMMA OrderStep ==
  ASSUME IInv, IInv', UseOrder(mem), [Next]_vars
  PROVE  UseOrder(mem')
<1> DEFINE m == Purged(mem)
<1>1. Agree(mem) /\ Agree(m) /\ now \in Nat
  BY PurgedAgrees DEF IInv, TypeOK, Agree
<1>2. UseOrder(m)
  BY <1>1, DeletedOrder DEF Purged
<1>3. \A t \in Args : DeadlineOf(t) \in Deadline
  BY <1>1, LRUAssumption DEF DeadlineOf, Deadline, Args
<1>4. \A k \in Keys, v \in Val : [key |-> k, val |-> v, live |-> TRUE] \in Node
  BY DEF Node
<1>5. None \in Deadline
  BY DEF Deadline
<1> HIDE DEF m
<1>6. ASSUME NEW k \in Keys, NEW v \in Val, NEW t \in Args,
             Create(k, v, t) \/ Update(k, v, t) \/ MSetItem(k, v, t)
      PROVE  UseOrder(mem')
  <2> DEFINE n == [key |-> k, val |-> v, live |-> TRUE]
             e == DeadlineOf(t)
  <2>0. n \in Node /\ n.live /\ n.key = k /\ e \in Deadline
    BY <1>3, <1>4
  <2> HIDE DEF n, e
  <2>1. CASE mem' = m
    BY <1>2, <2>1
  <2>2. CASE k \notin m.map /\ mem' = Inserted(m, k, v, e)
    BY <1>1, <1>2, <2>0, <2>2, InsertedOrder
  <2>3. CASE k \in m.map /\ mem' = WithTTL(Moved(m, n), k, t)
    BY <1>1, <1>2, <2>0, <2>3, MovedAgrees, MovedOrder, WithTTLOrder
  <2>4. CASE k \notin mem.map /\ mem' = Inserted(mem, k, v, e)
    BY <1>1, <2>0, <2>4, InsertedOrder
  <2>5. CASE /\ k \in mem.map
             /\ mem' = [Moved(mem, n) EXCEPT !.ttl = [@ EXCEPT ![k] = e]]
    BY <1>1, <2>0, <2>5, MovedAgrees, MovedOrder, DeadlineOrder
  <2> QED
    BY <1>6, <2>1, <2>2, <2>3, <2>4, <2>5
       DEF Create, Update, MSetItem, Raises, m, n, e
<1>7. ASSUME NEW k \in Keys, NEW t \in Args, Incr(k, t) PROVE UseOrder(mem')
  <2> DEFINE current == IF k \in m.map THEN NodeOf(m, k).val ELSE 0
             n == [key |-> k, val |-> current + 1, live |-> TRUE]
  <2>1. CASE mem' = m
    BY <1>2, <2>1
  <2>2. CASE /\ current \in 0..(MaxNum - 1)
             /\ mem' = WithTTL(IF k \in m.map THEN Moved(m, n)
                               ELSE Inserted(m, k, n.val, None), k, t)
    <3>1. current + 1 \in Val
      <4> HIDE DEF current
      <4> QED
        BY <2>2, LRUAssumption DEF Val
    <3>2. n \in Node /\ n.live /\ n.key = k /\ n.val \in Val
      BY <1>4, <3>1
    <3> HIDE DEF current, n
    <3>3. CASE k \in m.map
      BY <1>1, <1>2, <2>2, <3>2, <3>3, MovedAgrees, MovedOrder, WithTTLOrder
    <3>4. CASE k \notin m.map
      BY <1>1, <1>2, <1>5, <2>2, <3>2, <3>4, InsertedAgrees, InsertedOrder,
         WithTTLOrder
    <3> QED
      BY <3>3, <3>4
  <2> QED
    BY <1>7, <2>1, <2>2 DEF Incr, m
<1>8. ASSUME NEW k \in Keys, Delete(k) PROVE UseOrder(mem')
  BY <1>1, <1>8, DeletedOrder DEF Delete
<1>9. ASSUME NEW k \in Keys, Persist(k) PROVE UseOrder(mem')
  BY <1>1, <1>2, <1>9, DeadlineOrder DEF Persist, Raises, m
<1>10. ASSUME NEW k \in Keys, k \in mem.map, mem' = Moved(mem, NodeOf(mem, k))
       PROVE  UseOrder(mem')
  BY <1>1, <1>10, NodeOfFacts, MovedOrder
<1>11. ASSUME NEW k \in Keys, NEW d, Agree(d), UseOrder(d), k \notin d.map,
              TierFresh(k), mem' = Inserted(d, k, tier[k].val, tier[k].exp)
       PROVE  UseOrder(mem')
  <2>1. tier[k].val \in Val /\ tier[k].exp \in Deadline
    BY <1>11 DEF TierFresh, IInv, TypeOK, Copy, Deadline
  <2> QED
    BY <1>11, <2>1, InsertedOrder
<1>12. ASSUME NEW k \in Keys,
              PatchStart(k) \/ ReadHit(k) \/ ReadMiss(k) \/ ReadPromote(k)
       PROVE  UseOrder(mem')
  BY <1>1, <1>2, <1>10, <1>11, <1>12
     DEF PatchStart, ReadHit, ReadMiss, ReadPromote, Promote, m
<1>13. ASSUME NEW v \in Val, NEW t \in Args, PatchApply(v, t)
       PROVE  UseOrder(mem')
  <2> DEFINE n == [node EXCEPT !.val = v]
  <2>1. node \in Node /\ node.live /\ node.key \in mem.map
    BY <1>13 DEF PatchApply, IInv, LocalNode
  <2>2. n \in Node /\ n.live /\ n.key = node.key
    BY <2>1 DEF Node
  <2>3. mem' = WithTTL(Moved(mem, n), node.key, t)
    BY <1>13 DEF PatchApply
  <2> HIDE DEF n
  <2> QED
    BY <1>1, <2>1, <2>2, <2>3, MovedAgrees, MovedOrder, WithTTLOrder
<1>14. CASE Evicting
  <2>1. CASE EvictOne
    BY <1>1, <2>1, DeletedOrder DEF EvictOne
  <2>2. CASE ReadPromoted
    <3>1. node \in Node /\ node.live /\ node.key \in mem.map
      BY <1>1, <2>2, TailIsResident DEF ReadPromoted, EvictEnds, IInv, LocalNode
    <3> QED
      BY <1>1, <2>2, <3>1, MovedOrder DEF ReadPromoted
  <2> QED
    BY <1>14, <2>1, <2>2 DEF Evicting, WriteReturns, PatchPromoted
<1>15. CASE \/ Tick \/ PatchFails \/ PurgeExpired \/ UNCHANGED vars
            \/ \E S \in SUBSET Keys : MSetStart(S) \/ ReadStart(S)
  BY <1>2, <1>15 DEF Tick, PatchFails, PurgeExpired, Raises, MSetStart, ReadStart,
                     vars, m
<1> QED
  BY <1>6, <1>7, <1>8, <1>9, <1>12, <1>13, <1>14, <1>15 DEF Next, KeyOps

\* Without hints the victim is the first node, and every other resident key's node
\* comes after it.
THEOREM EvictionOrder == ~Hints => (Spec => EvictsLeastRecentlyUsed)
<1> SUFFICES ASSUME ~Hints PROVE Spec => EvictsLeastRecentlyUsed
  OBVIOUS
<1>1. Spec => []IInv
  BY Inductive
<1>2. Init => UseOrder(mem)
  BY DEF Init, UseOrder
<1>3. IInv /\ IInv' /\ UseOrder(mem) /\ [Next]_vars => UseOrder(mem)'
  <2> SUFFICES ASSUME IInv, IInv', UseOrder(mem), [Next]_vars PROVE UseOrder(mem')
    BY DEF UseOrder
  <2> QED
    BY OrderStep
<1>4. ASSUME IInv, UseOrder(mem), [Next]_vars, pc = "evict",
             NEW k \in mem.map \ mem'.map
      PROVE  mem.map \ {k} \subseteq mem.newer[k]
  <2>1. Agree(mem) /\ mem.order \in Seq(Node)
    BY <1>4 DEF IInv, TypeOK, Agree, Mem
  <2>2. EvictOne \/ WriteReturns \/ ReadPromoted \/ PatchPromoted \/ mem' = mem
    BY <1>4 DEF Next, KeyOps, Tick, Create, Update, Incr, Delete, Persist, PatchStart,
         MSetItem, ReadHit, ReadMiss, ReadPromote, MSetStart, ReadStart, PatchApply,
         PatchFails, PurgeExpired, Evicting, vars
  <2>3. CASE EvictOne
    <3>1. PICK i \in Candidates(mem) : mem' = Deleted(mem, {mem.order[i].key})
      BY <2>3 DEF EvictOne
    <3>2. i = 1 /\ 1 \in DOMAIN mem.order
      BY <2>1, <3>1, LenProperties DEF Candidates
    <3>3. k = mem.order[1].key
      BY <1>4, <2>1, <3>1, <3>2, DeletedAgrees
    <3>4. ASSUME NEW j \in mem.map \ {k} PROVE j \in mem.newer[k]
      <4>1. PICK l \in DOMAIN mem.order : mem.order[l].key = j
        BY <2>1 DEF Agree, ListIsMap
      <4>2. 1 < l
        BY <2>1, <3>3, <3>4, <4>1, LenProperties
      <4> QED
        BY <1>4, <3>2, <3>3, <4>1, <4>2 DEF UseOrder
    <3> QED
      BY <3>4
  <2>4. CASE ReadPromoted
    <3>1. node \in Node /\ node.live /\ node.key \in mem.map
      BY <1>4, <2>1, <2>4, TailIsResident DEF ReadPromoted, EvictEnds, IInv, LocalNode
    <3>2. mem'.map = mem.map
      BY <2>1, <2>4, <3>1, MovedAgrees DEF ReadPromoted
    <3> QED
      BY <1>4, <3>2
  <2>5. mem' = mem => FALSE
    BY <1>4
  <2> QED
    BY <2>2, <2>3, <2>4, <2>5 DEF WriteReturns, PatchPromoted
<1>5. IInv /\ UseOrder(mem) /\ [Next]_vars =>
        (pc = "evict" => \A k \in mem.map \ mem'.map :
                           mem.map \ {k} \subseteq mem.newer[k])
  BY <1>4
<1> QED
  BY <1>1, <1>2, <1>3, <1>5, PTL DEF Spec, EvictsLeastRecentlyUsed

-----------------------------------------------------------------------------
(* The limit. *)

\* The map is as finite as the list.
LEMMA MapIsFinite ==
  ASSUME NEW m, Agree(m)
  PROVE  IsFiniteSet(m.map) /\ Cardinality(m.map) \in Nat
<1> DEFINE f == [i \in DOMAIN m.order |-> m.order[i].key]
           I == {i \in DOMAIN m.order : TRUE}
<1>1. m.order \in Seq(Node) /\ Len(m.order) \in Nat
      /\ DOMAIN m.order = 1..Len(m.order)
  BY LenProperties DEF Agree, Mem
<1>2. IsFiniteSet(DOMAIN m.order)
  BY <1>1, FS_Interval
<1>3. f \in Surjection(DOMAIN m.order, m.map)
  <2>1. f \in [DOMAIN m.order -> m.map]
    BY DEF Agree, ListIsMap
  <2>2. \A k \in m.map : \E i \in DOMAIN m.order : f[i] = k
    BY DEF Agree, ListIsMap
  <2> HIDE DEF f
  <2> QED
    BY <2>1, <2>2 DEF Surjection
<1>4. IsFiniteSet(m.map)
  BY <1>2, <1>3, FS_Surjection
<1> QED
  BY <1>4, FS_CardinalityType

\* A shard with fewer keys is not over the limit either.
LEMMA StillWithinLimit ==
  ASSUME NEW m, NEW d, Agree(m), d.map \subseteq m.map, ~OverLimit(m)
  PROVE  ~OverLimit(d)
<1>1. IsFiniteSet(m.map) /\ Cardinality(m.map) \in Nat
  BY MapIsFinite
<1>2. Cardinality(d.map) <= Cardinality(m.map) /\ IsFiniteSet(d.map)
  BY <1>1, FS_Subset
<1>3. Cardinality(d.map) \in Nat
  BY <1>2, FS_CardinalityType
<1> QED
  BY <1>1, <1>2, <1>3, LRUAssumption DEF OverLimit

\* Only a batch of writes and the eviction loop may be over the limit.
BoundedOutsideLoop == pc \in {"idle", "read", "patch"} => ~OverLimit(mem)

LEMMA LimitStep ==
  ASSUME IInv, BoundedOutsideLoop, [Next]_vars
  PROVE  BoundedOutsideLoop'
<1> DEFINE m == Purged(mem)
<1>1. Agree(mem) /\ m.map \subseteq mem.map
  BY PurgedAgrees DEF IInv, TypeOK, Agree
<1>2. ASSUME pc \in {"idle", "read", "patch"}, mem'.map \subseteq mem.map
      PROVE  ~OverLimit(mem')
  BY <1>1, <1>2, StillWithinLimit DEF BoundedOutsideLoop
<1>3. SUFFICES ASSUME pc' \in {"idle", "read", "patch"} PROVE ~OverLimit(mem')
  BY DEF BoundedOutsideLoop, OverLimit
<1>4. ASSUME NEW k \in Keys, KeyOps(k) PROVE ~OverLimit(mem')
  <2>1. CASE ReadHit(k)
    <3>1. NodeOf(mem, k) \in Node /\ NodeOf(mem, k).live /\ NodeOf(mem, k).key = k
          /\ k \in mem.map
      BY <1>1, <2>1, NodeOfFacts DEF ReadHit
    <3>2. mem'.map = mem.map
      BY <1>1, <2>1, <3>1, MovedAgrees DEF ReadHit
    <3> QED
      BY <1>2, <2>1, <3>2 DEF ReadHit
  <2>2. CASE Delete(k)
    BY <1>1, <1>2, <2>2, DeletedAgrees DEF Delete
  <2>3. CASE Persist(k)
    <3>1. mem'.map = m.map
      BY <1>1, <2>3, PurgedAgrees DEF Persist, Raises, Agree, Mem
    <3> QED
      BY <1>1, <1>2, <2>3, <3>1 DEF Persist
  <2>4. CASE pc \in {"idle", "read", "patch"} /\ (mem' = m \/ mem' = mem)
    BY <1>1, <1>2, <2>4
  <2>5. CASE ReadMiss(k) \/ ReadPromote(k) \/ PatchStart(k)
    BY <1>3, <2>4, <2>5 DEF ReadMiss, ReadPromote, PatchStart, Promote, m
  <2>6. ASSUME NEW v \in Val, NEW t \in Args,
               Create(k, v, t) \/ Update(k, v, t) \/ MSetItem(k, v, t)
        PROVE  ~OverLimit(mem')
    BY <1>3, <2>4, <2>6 DEF Create, Update, MSetItem, WriteDone, Raises, m
  <2>7. ASSUME NEW t \in Args, Incr(k, t) PROVE ~OverLimit(mem')
    BY <1>3, <2>4, <2>7 DEF Incr, WriteDone, m
  <2> QED
    BY <1>4, <2>1, <2>2, <2>3, <2>5, <2>6, <2>7 DEF KeyOps
<1>5. CASE WriteReturns \/ PatchPromoted \/ ReadPromoted
  <2>1. ~OverLimit(mem) \/ mem.order = <<>>
    BY <1>5 DEF WriteReturns, PatchPromoted, ReadPromoted, EvictEnds
  <2>2. mem.order = <<>> => mem.map = {}
    BY <1>1 DEF Agree, ListIsMap
  <2>3. ~OverLimit(mem)
    <3>1. Cardinality({}) = 0
      BY FS_EmptySet
    <3>2. mem.map = {} => ~OverLimit(mem)
      BY <3>1, LRUAssumption DEF OverLimit
    <3> QED
      BY <2>1, <2>2, <3>2
  <2>4. mem'.map = mem.map
    <3>1. CASE ReadPromoted
      <4>1. node \in Node /\ node.live /\ node.key \in mem.map
        BY <1>1, <3>1, TailIsResident DEF ReadPromoted, EvictEnds, IInv, LocalNode
      <4> QED
        BY <1>1, <3>1, <4>1, MovedAgrees DEF ReadPromoted
    <3> QED
      BY <1>5, <3>1 DEF WriteReturns, PatchPromoted
  <2> QED
    BY <2>3, <2>4 DEF OverLimit
<1>6. CASE EvictOne
  BY <1>3, <1>6 DEF EvictOne
<1>7. CASE \/ Tick \/ PatchFails \/ PurgeExpired \/ UNCHANGED vars
           \/ \E S \in SUBSET Keys : MSetStart(S) \/ ReadStart(S)
           \/ \E v \in Val, t \in Args : PatchApply(v, t)
  <2>1. pc \in {"idle", "read", "patch"} /\ (mem' = m \/ mem' = mem)
    BY <1>3, <1>7 DEF Tick, PatchFails, PurgeExpired, Raises, MSetStart, ReadStart,
                      PatchApply, WriteDone, vars, m
  <2> QED
    BY <1>1, <1>2, <2>1
<1> QED
  BY <1>4, <1>5, <1>6, <1>7 DEF Next, Evicting

\* No call gives the lock back over the limit: what a batch overshoots, its one
\* eviction loop takes back, because an empty list means an empty map.
THEOREM LimitKept == ~(Hints /\ HasTier) => (Spec => []WithinLimit)
<1> SUFFICES ASSUME ~(Hints /\ HasTier) PROVE Spec => []WithinLimit
  OBVIOUS
<1>1. Spec => []IInv
  BY Inductive
<1>2. Init => BoundedOutsideLoop
  BY FS_EmptySet, LRUAssumption DEF Init, BoundedOutsideLoop, OverLimit
<1>3. IInv /\ BoundedOutsideLoop /\ [Next]_vars => BoundedOutsideLoop'
  BY LimitStep
<1>4. BoundedOutsideLoop => WithinLimit
  BY DEF BoundedOutsideLoop, WithinLimit
<1> QED
  BY <1>1, <1>2, <1>3, <1>4, PTL DEF Spec

-----------------------------------------------------------------------------
(***************************************************************************)
(* The shard implements KVStore.  The refinement mapping is Stored: what   *)
(* memory holds for a resident key, what the tier holds for the others.    *)
(* It needs a tier whose calls do not raise and, where there is a tier,    *)
(* that no hints choose the victim.                                        *)
(***************************************************************************)
ReliableTier == HasTier => ~TierMayFail /\ ~Hints

\* The entry of key j in memory m and tier t.
EntryIn(m, t, j) ==
  IF j \in m.map THEN [val |-> NodeOf(m, j).val, exp |-> m.ttl[j]] ELSE t[j]

\* A call that promoted a key holds the node the key has, and a batch of writes
\* has no answer before it is done.
HeldNode ==
  /\ pc = "evict" /\ cont # "return" =>
       node.key \in mem.map /\ NodeOf(mem, node.key) = node
  /\ pc = "mset" => reply = None

LEMMA EntryType ==
  ASSUME NEW m, Agree(m), NEW t \in [Keys -> Copy \cup {None}], NEW j \in Keys
  PROVE  /\ EntryIn(m, t, j) \in Copy \cup {None}
         /\ j \in m.map => /\ EntryIn(m, t, j) \in Copy
                           /\ EntryIn(m, t, j) # None
                           /\ EntryIn(m, t, j).val = NodeOf(m, j).val
                           /\ EntryIn(m, t, j).exp = m.ttl[j]
<1>1. m.ttl \in [Keys -> Deadline]
  BY DEF Agree, Mem
<1>2. ASSUME j \in m.map
      PROVE  [val |-> NodeOf(m, j).val, exp |-> m.ttl[j]] \in Copy
  <2>1. NodeOf(m, j) \in Node
    BY <1>2, NodeOfFacts
  <2>2. NodeOf(m, j).val \in Val
    BY <2>1 DEF Node
  <2> QED
    BY <1>1, <2>2 DEF Copy, Deadline
<1> QED
  BY <1>2, LRUAssumption DEF EntryIn

LEMMA StoredIs ==
  /\ Stored = [j \in Keys |-> EntryIn(mem, tier, j)]
  /\ Stored' = [j \in Keys |-> EntryIn(mem', tier', j)]
BY DEF Stored, EntryIn, NodeOf, LiveAt

\* A copy is either in memory or in the tier, whichever the configuration.
LEMMA OneCopyHere ==
  ASSUME IInv, ReliableTier
  PROVE  \A k \in mem.map : tier[k] = None
<1>1. mem.map \subseteq Keys
  BY DEF IInv, TypeOK, Mem
<1> QED
  BY <1>1 DEF IInv, ReliableTier, TierUnused, OneCopy

\* What a reliable tier does.
LEMMA TierExact ==
  ASSUME IInv, ReliableTier, NEW k \in Keys
  PROVE  /\ \A t \in TierDelete(k) :
              /\ t \in [Keys -> Copy \cup {None}]
              /\ t[k] = None
              /\ \A j \in Keys \ {k} : t[j] = tier[j]
         /\ \A t \in TierMiss(k) :
              /\ ~TierFresh(k)
              /\ t \in [Keys -> Copy \cup {None}]
              /\ t[k] = None
              /\ \A j \in Keys \ {k} : t[j] = tier[j]
<1>1. tier \in [Keys -> Copy \cup {None}]
  BY DEF IInv, TypeOK
<1>2. ~HasTier => \A j \in Keys : tier[j] = None
  BY DEF IInv, TierUnused
<1>3. CASE HasTier
  BY <1>1, <1>3 DEF TierDelete, TierMiss, OrFails, ReliableTier
<1>4. CASE ~HasTier
  BY <1>1, <1>2, <1>4 DEF TierDelete, TierMiss, OrFails, TierFresh
<1> QED
  BY <1>3, <1>4

\* Purging makes lapsed entries disappear and changes no other.
LEMMA PurgedEntries ==
  ASSUME IInv, ReliableTier, NEW j \in Keys
  PROVE  /\ j \in Expired(mem) => /\ Abstract!Lapsed(j)
                                  /\ j \notin Purged(mem).map
         /\ EntryIn(Purged(mem), tier, j)
              = IF j \in Expired(mem) THEN None ELSE Stored[j]
<1> DEFINE m == Purged(mem)
<1>1. Agree(mem) /\ m.map = mem.map \ Expired(mem)
  BY DeletedAgrees DEF IInv, TypeOK, Agree, Purged
<1>2. ASSUME j \in Expired(mem)
      PROVE  j \in mem.map /\ Abstract!Lapsed(j)
  <2>1. j \in mem.map /\ Passed(mem.ttl[j])
    BY <1>1, <1>2 DEF Agree, ListIsMap, Expired, Passed
  <2>2. Stored[j] = EntryIn(mem, tier, j) /\ Stored[j] # None
        /\ Stored[j].exp = mem.ttl[j]
    BY <1>1, <2>1, StoredIs, EntryType DEF IInv, TypeOK
  <2> QED
    BY <2>1, <2>2 DEF Abstract!Lapsed, Passed
<1>3. CASE j \in Expired(mem)
  BY <1>1, <1>2, <1>3, OneCopyHere DEF EntryIn
<1>4. CASE j \notin Expired(mem)
  <2>1. j \in mem.map => /\ NodeOf(m, j) = NodeOf(mem, j)
                         /\ m.ttl[j] = mem.ttl[j]
    BY <1>1, <1>4, DeletedEntry DEF Purged
  <2> HIDE DEF m
  <2> QED
    BY <1>1, <1>4, <2>1, StoredIs DEF EntryIn, m
<1> QED
  BY <1>1, <1>2, <1>3, <1>4

-----------------------------------------------------------------------------
(* The abstract actions, from what a step does to each entry. *)

LEMMA SweepMaps ==
  ASSUME NEW K \in SUBSET Keys, \A j \in K : Abstract!Lapsed(j),
         \A j \in Keys : Stored'[j] = IF j \in K THEN None ELSE Stored[j],
         reply' \in {reply, None}, now' = now
  PROVE  Abstract!Next
<1>1. K \in Abstract!Lapsing
  BY DEF Abstract!Lapsing
<1>2. Stored' = Abstract!Without(K)
  BY StoredIs DEF Abstract!Without
<1> QED
  BY <1>1, <1>2 DEF Abstract!Next, Abstract!Sweep

LEMMA PutMaps ==
  ASSUME NEW k \in Keys, NEW K \in SUBSET Keys, \A j \in K : Abstract!Lapsed(j),
         \A j \in Keys \ {k} : Stored'[j] = IF j \in K THEN None ELSE Stored[j],
         Stored'[k] \in Copy,
         \/ Stored'[k].exp = None
         \/ Stored'[k].exp >= now
         \/ Stored[k] # None /\ Stored'[k].exp = Stored[k].exp,
         reply' \in {None, [key |-> k, val |-> Stored'[k].val]}, now' = now
  PROVE  Abstract!Next
<1>1. K \in Abstract!Lapsing
  BY DEF Abstract!Lapsing
<1>2. Stored' = [j \in Keys |-> IF j \in {k} THEN Stored'[j]
                                ELSE Abstract!Without(K)[j]]
  BY StoredIs DEF Abstract!Without
<1>3. Abstract!Put({k})
  BY <1>1, <1>2 DEF Abstract!Put, Abstract!Entry, Copy
<1> QED
  BY <1>3 DEF Abstract!Next

LEMMA RemoveMaps ==
  ASSUME NEW k \in Keys, Stored'[k] = None,
         \A j \in Keys \ {k} : Stored'[j] = Stored[j],
         reply' = None, now' = now
  PROVE  Abstract!Next
<1>1. Stored' = [Stored EXCEPT ![k] = None]
  BY StoredIs
<1> QED
  BY <1>1 DEF Abstract!Next, Abstract!Remove

LEMMA ReadFoundMaps ==
  ASSUME NEW k \in Keys, Stored[k] # None,
         \A j \in Keys : Stored'[j] = Stored[j],
         reply' = [key |-> k, val |-> Stored[k].val], now' = now
  PROVE  Abstract!Next
<1>1. {} \in Abstract!Lapsing
  BY DEF Abstract!Lapsing
<1>2. Stored' = Abstract!Without({} \ {k})
  BY StoredIs DEF Abstract!Without
<1>3. Abstract!Read(k)
  BY <1>1, <1>2 DEF Abstract!Read
<1> QED
  BY <1>3 DEF Abstract!Next

LEMMA ReadAbsentMaps ==
  ASSUME NEW k \in Keys, Stored[k] = None \/ Abstract!Lapsed(k), Stored'[k] = None,
         \A j \in Keys \ {k} : Stored'[j] = Stored[j],
         reply' = [key |-> k, val |-> None], now' = now
  PROVE  Abstract!Next
<1>1. {} \in Abstract!Lapsing
  BY DEF Abstract!Lapsing
<1>2. Stored' = [Abstract!Without({}) EXCEPT ![k] = None]
  BY StoredIs DEF Abstract!Without
<1>3. Abstract!Read(k)
  BY <1>1, <1>2 DEF Abstract!Read
<1> QED
  BY <1>3 DEF Abstract!Next

LEMMA EvictMaps ==
  ASSUME ~HasTier, NEW k \in Keys, Stored'[k] = None,
         \A j \in Keys \ {k} : Stored'[j] = Stored[j],
         UNCHANGED <<reply, now>>
  PROVE  Abstract!Next
<1>1. Stored' = [Stored EXCEPT ![k] = None]
  BY StoredIs
<1> QED
  BY <1>1 DEF Abstract!Next, Abstract!Evict

LEMMA StutterMaps ==
  ASSUME \A j \in Keys : Stored'[j] = Stored[j], UNCHANGED <<reply, now>>
  PROVE  UNCHANGED <<Stored, now, reply>>
BY StoredIs

\* A write of key k on top of memory d, which is the shard's memory or what purging
\* leaves of it.
LEMMA WriteMaps ==
  ASSUME IInv, ReliableTier, NEW k \in Keys, NEW d, Agree(d),
         NEW K \in SUBSET Keys, \A j \in K : Abstract!Lapsed(j),
         \A j \in Keys : EntryIn(d, tier, j) = IF j \in K THEN None ELSE Stored[j],
         Agree(mem'), mem'.map = d.map \cup {k},
         \A j \in d.map \ {k} : /\ NodeOf(mem', j) = NodeOf(d, j)
                                /\ mem'.ttl[j] = d.ttl[j],
         tier' \in TierDelete(k),
         \/ mem'.ttl[k] = None
         \/ mem'.ttl[k] >= now
         \/ k \in d.map /\ mem'.ttl[k] = d.ttl[k],
         reply' \in {None, [key |-> k, val |-> NodeOf(mem', k).val]}, now' = now
  PROVE  Abstract!Next
<1>1. /\ tier' \in [Keys -> Copy \cup {None}]
      /\ \A j \in Keys \ {k} : tier'[j] = tier[j]
  BY TierExact
<1>2. tier \in [Keys -> Copy \cup {None}]
  BY DEF IInv, TypeOK
<1>3. /\ Stored'[k] = EntryIn(mem', tier', k)
      /\ Stored'[k] \in Copy
      /\ Stored'[k].val = NodeOf(mem', k).val
      /\ Stored'[k].exp = mem'.ttl[k]
  BY <1>1, EntryType, StoredIs
<1>4. ASSUME NEW j \in Keys \ {k}
      PROVE  Stored'[j] = IF j \in K THEN None ELSE Stored[j]
  <2>1. EntryIn(mem', tier', j) = EntryIn(d, tier, j)
    BY <1>1 DEF EntryIn
  <2> QED
    BY <2>1, StoredIs
<1>5. k \in d.map => Stored[k] # None /\ Stored[k].exp = d.ttl[k]
  <2>1. k \in d.map => EntryIn(d, tier, k) # None /\ EntryIn(d, tier, k).exp = d.ttl[k]
    BY <1>2, EntryType
  <2> QED
    BY <2>1
<1> QED
  BY <1>3, <1>4, <1>5, PutMaps

\* A write of key k that purges nothing.
LEMMA MemWriteMaps ==
  ASSUME IInv, ReliableTier, NEW k \in Keys,
         Agree(mem'), mem'.map = mem.map \cup {k},
         \A j \in mem.map \ {k} : /\ NodeOf(mem', j) = NodeOf(mem, j)
                                  /\ mem'.ttl[j] = mem.ttl[j],
         tier' \in TierDelete(k),
         \/ mem'.ttl[k] = None
         \/ mem'.ttl[k] >= now
         \/ k \in mem.map /\ mem'.ttl[k] = mem.ttl[k],
         reply' \in {None, [key |-> k, val |-> NodeOf(mem', k).val]}, now' = now
  PROVE  Abstract!Next
<1> DEFINE K == {j \in Keys : FALSE}
<1>1. Agree(mem)
  BY DEF IInv, TypeOK, Agree
<1>2. K \in SUBSET Keys /\ \A j \in K : Abstract!Lapsed(j)
  OBVIOUS
<1>3. \A j \in Keys : EntryIn(mem, tier, j) = IF j \in K THEN None ELSE Stored[j]
  BY StoredIs
<1> HIDE DEF K
<1> QED
  BY <1>1, <1>2, <1>3, WriteMaps

\* A call that changes what memory holds only by purging.
LEMMA PurgeMaps ==
  ASSUME IInv, ReliableTier, mem' = Purged(mem), tier' = tier,
         reply' \in {reply, None}, now' = now
  PROVE  Abstract!Next
<1>1. Expired(mem) \in SUBSET Keys /\ \A j \in Expired(mem) : Abstract!Lapsed(j)
  BY PurgedEntries DEF Expired
<1>2. \A j \in Keys : Stored'[j] = IF j \in Expired(mem) THEN None ELSE Stored[j]
  BY PurgedEntries, StoredIs
<1> QED
  BY <1>1, <1>2, SweepMaps

\* What the optional time to live of a write leaves of the entries.
LEMMA WithTTLEntry ==
  ASSUME NEW d, Agree(d), NEW k \in d.map, NEW t \in Args, now \in Nat
  PROVE  /\ \A j \in d.map : NodeOf(WithTTL(d, k, t), j) = NodeOf(d, j)
         /\ \A j \in d.map \ {k} : WithTTL(d, k, t).ttl[j] = d.ttl[j]
         /\ \/ WithTTL(d, k, t).ttl[k] >= now
            \/ WithTTL(d, k, t).ttl[k] = d.ttl[k]
<1>1. CASE t = None
  BY <1>1 DEF WithTTL
<1>2. CASE t # None
  <2>1. now + t \in Deadline /\ now + t >= now
    BY <1>2, LRUAssumption DEF Args, Deadline
  <2>2. WithTTL(d, k, t) = [d EXCEPT !.ttl = [@ EXCEPT ![k] = now + t]]
    BY <1>2 DEF WithTTL
  <2> QED
    BY <2>1, <2>2, DeadlineEntry
<1> QED
  BY <1>1, <1>2

-----------------------------------------------------------------------------
(* Each call is a step of KVStore or leaves its state alone. *)

\* The base every call that purges first starts from.
LEMMA PurgedBase ==
  ASSUME IInv, ReliableTier
  PROVE  /\ Agree(Purged(mem)) /\ now \in Nat
         /\ Expired(mem) \in SUBSET Keys
         /\ \A j \in Expired(mem) : Abstract!Lapsed(j)
         /\ \A j \in Keys : EntryIn(Purged(mem), tier, j)
                              = IF j \in Expired(mem) THEN None ELSE Stored[j]
BY PurgedAgrees, PurgedEntries DEF Expired, IInv, TypeOK

LEMMA CreateMaps ==
  ASSUME IInv, ReliableTier, NEW k \in Keys, NEW v \in Val, NEW t \in Args,
         Create(k, v, t)
  PROVE  Abstract!Next
<1> DEFINE m == Purged(mem)
           e == DeadlineOf(t)
<1>1. CASE Raises
  BY <1>1, PurgeMaps DEF Raises
<1>2. CASE /\ k \notin m.map
           /\ tier' \in TierDelete(k)
           /\ mem' = Inserted(m, k, v, e)
           /\ reply' = None
           /\ WriteDone
  <2>1. Agree(m) /\ now \in Nat
    BY PurgedBase
  <2>2. e \in Deadline /\ (e = None \/ e >= now)
    BY <2>1, DeadlineOfFacts
  <2>3. /\ Agree(mem') /\ mem'.map = m.map \cup {k} /\ mem'.ttl[k] = e
        /\ \A j \in m.map : NodeOf(mem', j) = NodeOf(m, j) /\ mem'.ttl[j] = m.ttl[j]
    BY <1>2, <2>1, <2>2, InsertedAgrees, InsertedEntry
  <2>4. now' = now
    BY <1>2 DEF WriteDone
  <2> HIDE DEF m, e
  <2> QED
    BY <1>2, <2>1, <2>2, <2>3, <2>4, PurgedBase, WriteMaps DEF m
<1> QED
  BY <1>1, <1>2 DEF Create

\* A node with a new value moved to the tail of d, and its key's time to live.
LEMMA MovedWrite ==
  ASSUME IInv, NEW d, Agree(d), NEW n \in Node, n.live, n.key \in d.map,
         NEW t \in Args, mem' = WithTTL(Moved(d, n), n.key, t)
  PROVE  /\ Agree(mem') /\ mem'.map = d.map
         /\ NodeOf(mem', n.key) = n
         /\ \A j \in d.map \ {n.key} : /\ NodeOf(mem', j) = NodeOf(d, j)
                                       /\ mem'.ttl[j] = d.ttl[j]
         /\ mem'.ttl[n.key] >= now \/ mem'.ttl[n.key] = d.ttl[n.key]
<1> DEFINE x == Moved(d, n)
<1>1. /\ Agree(x) /\ x.map = d.map /\ x.ttl = d.ttl /\ NodeOf(x, n.key) = n
      /\ \A j \in d.map \ {n.key} : NodeOf(x, j) = NodeOf(d, j)
  BY MovedAgrees, MovedEntry
<1>2. now \in Nat
  BY DEF IInv, TypeOK
<1> HIDE DEF x
<1>3. Agree(mem') /\ mem'.map = d.map
  BY <1>1, <1>2, WithTTLAgrees DEF x
<1>4. /\ \A j \in x.map : NodeOf(mem', j) = NodeOf(x, j)
      /\ \A j \in x.map \ {n.key} : mem'.ttl[j] = x.ttl[j]
      /\ mem'.ttl[n.key] >= now \/ mem'.ttl[n.key] = x.ttl[n.key]
  BY <1>1, <1>2, WithTTLEntry DEF x
<1> QED
  BY <1>1, <1>3, <1>4

LEMMA UpdateMaps ==
  ASSUME IInv, ReliableTier, NEW k \in Keys, NEW v \in Val, NEW t \in Args,
         Update(k, v, t)
  PROVE  Abstract!Next
<1> DEFINE m == Purged(mem)
           n == [key |-> k, val |-> v, live |-> TRUE]
<1>1. CASE Raises
  BY <1>1, PurgeMaps DEF Raises
<1>2. CASE /\ k \in m.map
           /\ tier' \in TierDelete(k)
           /\ mem' = WithTTL(Moved(m, n), k, t)
           /\ reply' = None
           /\ WriteDone
  <2>1. Agree(m)
    BY PurgedBase
  <2>2. n \in Node /\ n.live /\ n.key = k
    BY DEF Node
  <2>3. now' = now
    BY <1>2 DEF WriteDone
  <2> HIDE DEF m, n
  <2>4. /\ Agree(mem') /\ mem'.map = m.map
        /\ \A j \in m.map \ {k} : /\ NodeOf(mem', j) = NodeOf(m, j)
                                  /\ mem'.ttl[j] = m.ttl[j]
        /\ mem'.ttl[k] >= now \/ mem'.ttl[k] = m.ttl[k]
    BY <1>2, <2>1, <2>2, MovedWrite
  <2>5. mem'.map = m.map \cup {k}
    BY <1>2, <2>4
  <2> QED
    BY <1>2, <2>1, <2>3, <2>4, <2>5, PurgedBase, WriteMaps DEF m
<1> QED
  BY <1>1, <1>2 DEF Update

LEMMA IncrMaps ==
  ASSUME IInv, ReliableTier, NEW k \in Keys, NEW t \in Args, Incr(k, t)
  PROVE  Abstract!Next
<1> DEFINE m == Purged(mem)
           resident == k \in m.map
           current == IF resident THEN NodeOf(m, k).val ELSE 0
           n == [key |-> k, val |-> current + 1, live |-> TRUE]
<1>1. Agree(m) /\ now \in Nat /\ tier' \in TierDelete(k)
  BY PurgedBase DEF Incr
<1>2. CASE /\ current \in Texts
           /\ mem' = m
           /\ reply' = None
           /\ UNCHANGED <<now, pc, cont, node, rest>>
  <2>1. resident
    BY <1>2, LRUAssumption
  <2>2. k \in mem.map
    BY <2>1, PurgedAgrees
  <2>3. tier[k] = None
    BY <2>2, OneCopyHere
  <2>4. /\ tier' \in [Keys -> Copy \cup {None}] /\ tier'[k] = None
        /\ \A j \in Keys \ {k} : tier'[j] = tier[j]
    BY <1>1, TierExact
  <2>5. tier' = tier
    BY <2>3, <2>4 DEF IInv, TypeOK
  <2> QED
    BY <1>2, <2>5, PurgeMaps
<1>3. CASE /\ current \in 0..(MaxNum - 1)
           /\ mem' = WithTTL(IF resident THEN Moved(m, n)
                             ELSE Inserted(m, k, n.val, None), k, t)
           /\ reply' = [key |-> k, val |-> n.val]
           /\ WriteDone
  <2>1. n \in Node /\ n.live /\ n.key = k /\ n.val \in Val
    <3>1. current + 1 \in 0..MaxNum
      <4> HIDE DEF current
      <4> QED
        BY <1>3, LRUAssumption
    <3> HIDE DEF current
    <3> QED
      BY <3>1 DEF Node, Val
  <2>2. now' = now
    BY <1>3 DEF WriteDone
  <2> HIDE DEF m, n, current
  <2>3. CASE resident
    <3>1. /\ Agree(mem') /\ mem'.map = m.map /\ NodeOf(mem', k) = n
          /\ \A j \in m.map \ {k} : /\ NodeOf(mem', j) = NodeOf(m, j)
                                    /\ mem'.ttl[j] = m.ttl[j]
          /\ mem'.ttl[k] >= now \/ mem'.ttl[k] = m.ttl[k]
      BY <1>1, <1>3, <2>1, <2>3, MovedWrite
    <3>2. mem'.map = m.map \cup {k}
      BY <2>3, <3>1
    <3> QED
      BY <1>1, <1>3, <2>2, <2>3, <3>1, <3>2, PurgedBase, WriteMaps DEF m
  <2>4. CASE ~resident
    <3> DEFINE d == Inserted(m, k, n.val, None)
    <3>0. None \in Deadline
      BY DEF Deadline
    <3>1. /\ Agree(d) /\ d.map = m.map \cup {k} /\ d.ttl[k] = None
          /\ NodeOf(d, k) = [key |-> k, val |-> n.val, live |-> TRUE]
          /\ \A j \in m.map : NodeOf(d, j) = NodeOf(m, j) /\ d.ttl[j] = m.ttl[j]
      <4>1. Agree(d) /\ d.map = m.map \cup {k}
        BY <1>1, <2>1, <2>4, <3>0, InsertedAgrees
      <4>2. /\ d.ttl[k] = None
            /\ NodeOf(d, k) = [key |-> k, val |-> n.val, live |-> TRUE]
            /\ \A j \in m.map : NodeOf(d, j) = NodeOf(m, j) /\ d.ttl[j] = m.ttl[j]
        <5> DEFINE w == n.val
        <5>1. w \in Val /\ d = Inserted(m, k, w, None)
          BY <2>1
        <5> HIDE DEF d, w
        <5>2. /\ d.ttl[k] = None
              /\ NodeOf(d, k) = [key |-> k, val |-> w, live |-> TRUE]
              /\ \A j \in m.map : NodeOf(d, j) = NodeOf(m, j) /\ d.ttl[j] = m.ttl[j]
          BY <1>1, <2>4, <3>0, <5>1, InsertedEntry
        <5> QED
          BY <5>2 DEF w
      <4> HIDE DEF d
      <4> QED
        BY <4>1, <4>2
    <3>2. mem' = WithTTL(d, k, t)
      BY <1>3, <2>4
    <3> HIDE DEF d
    <3>3. Agree(mem') /\ mem'.map = m.map \cup {k}
      <4>1. k \in d.map
        BY <3>1
      <4> QED
        BY <1>1, <3>1, <3>2, <4>1, WithTTLAgrees
    <3>4. /\ NodeOf(mem', k) = NodeOf(d, k)
          /\ \A j \in m.map \ {k} : /\ NodeOf(mem', j) = NodeOf(m, j)
                                    /\ mem'.ttl[j] = m.ttl[j]
          /\ mem'.ttl[k] >= now \/ mem'.ttl[k] = None
      BY <1>1, <3>1, <3>2, WithTTLEntry
    <3>5. reply' = [key |-> k, val |-> NodeOf(mem', k).val]
      BY <1>3, <3>1, <3>4
    <3> QED
      BY <1>1, <2>2, <3>3, <3>4, <3>5, PurgedBase, WriteMaps DEF m
  <2> QED
    BY <2>3, <2>4
<1> QED
  BY <1>2, <1>3 DEF Incr

LEMMA DeleteMaps ==
  ASSUME IInv, ReliableTier, NEW k \in Keys, Delete(k)
  PROVE  Abstract!Next
<1>1. Agree(mem) /\ k \in mem.map /\ mem' = Deleted(mem, {k})
  BY DEF Delete, IInv, TypeOK, Agree
<1>2. tier'[k] = None /\ \A j \in Keys \ {k} : tier'[j] = tier[j]
  BY TierExact DEF Delete
<1>3. mem'.map = mem.map \ {k}
  BY <1>1, DeletedAgrees
<1>4. \A j \in mem.map \ {k} : /\ NodeOf(mem', j) = NodeOf(mem, j)
                               /\ mem'.ttl[j] = mem.ttl[j]
  BY <1>1, DeletedEntry
<1>5. Stored'[k] = None /\ \A j \in Keys \ {k} : Stored'[j] = Stored[j]
  BY <1>2, <1>3, <1>4, StoredIs DEF EntryIn
<1> QED
  BY <1>5, RemoveMaps DEF Delete

LEMMA PersistMaps ==
  ASSUME IInv, IInv', ReliableTier, NEW k \in Keys, Persist(k)
  PROVE  Abstract!Next
<1> DEFINE m == Purged(mem)
           K == Expired(mem)
<1>1. CASE Raises
  BY <1>1, PurgeMaps DEF Raises
<1>2. CASE /\ k \in m.map
           /\ mem' = [m EXCEPT !.ttl = [@ EXCEPT ![k] = None]]
           /\ reply' = None
           /\ UNCHANGED <<tier, now, pc, cont, node, rest>>
  <2>1. /\ Agree(m) /\ K \in SUBSET Keys
        /\ \A j \in K : Abstract!Lapsed(j)
        /\ \A j \in Keys : EntryIn(m, tier, j) = IF j \in K THEN None ELSE Stored[j]
    BY PurgedBase
  <2> HIDE DEF m, K
  <2>2. None \in Deadline
    BY DEF Deadline
  <2>3. Agree(mem') /\ mem'.map = m.map
    BY <1>2, <2>1, <2>2, DeadlineAgrees
  <2>4. /\ mem'.ttl[k] = None
        /\ \A j \in m.map : NodeOf(mem', j) = NodeOf(m, j)
        /\ \A j \in m.map \ {k} : mem'.ttl[j] = m.ttl[j]
    BY <1>2, <2>1, <2>2, DeadlineEntry
  <2>5. \A j \in Keys \ {k} : EntryIn(mem', tier', j) = EntryIn(m, tier, j)
    BY <1>2, <2>3, <2>4 DEF EntryIn
  <2>6. tier' \in [Keys -> Copy \cup {None}]
    BY DEF IInv, TypeOK
  <2>7. EntryIn(mem', tier', k) \in Copy /\ EntryIn(mem', tier', k).exp = None
    BY <1>2, <2>3, <2>4, <2>6, EntryType
  <2> QED
    BY <1>2, <2>1, <2>5, <2>7, StoredIs, PutMaps
<1> QED
  BY <1>1, <1>2 DEF Persist

LEMMA MSetItemMaps ==
  ASSUME IInv, ReliableTier, HeldNode, NEW k \in Keys, NEW v \in Val, NEW t \in Args,
         MSetItem(k, v, t)
  PROVE  Abstract!Next
<1> DEFINE n == [key |-> k, val |-> v, live |-> TRUE]
           x == Moved(mem, n)
           e == DeadlineOf(t)
<1>1. Agree(mem) /\ now \in Nat
  BY DEF IInv, TypeOK, Agree
<1>2. /\ tier' \in TierDelete(k) /\ now' = now /\ reply' = None
  BY DEF MSetItem, HeldNode
<1>3. e \in Deadline /\ (e = None \/ e >= now)
  BY <1>1, DeadlineOfFacts
<1>4. n \in Node /\ n.live /\ n.key = k
  BY DEF Node
<1> HIDE DEF n, e
<1>5. /\ Agree(mem') /\ mem'.map = mem.map \cup {k} /\ mem'.ttl[k] = e
      /\ \A j \in mem.map \ {k} : /\ NodeOf(mem', j) = NodeOf(mem, j)
                                  /\ mem'.ttl[j] = mem.ttl[j]
  <2>1. CASE k \in mem.map
    <3>1. mem' = [x EXCEPT !.ttl = [@ EXCEPT ![k] = e]]
      BY <2>1 DEF MSetItem, n, e
    <3>2. /\ Agree(x) /\ x.map = mem.map /\ x.ttl = mem.ttl
          /\ \A j \in mem.map \ {k} : NodeOf(x, j) = NodeOf(mem, j)
      BY <1>1, <1>4, <2>1, MovedAgrees, MovedEntry
    <3> HIDE DEF x
    <3>3. Agree(mem') /\ mem'.map = x.map
      BY <1>3, <2>1, <3>1, <3>2, DeadlineAgrees
    <3>4. /\ mem'.ttl[k] = e
          /\ \A j \in x.map : NodeOf(mem', j) = NodeOf(x, j)
          /\ \A j \in x.map \ {k} : mem'.ttl[j] = x.ttl[j]
      <4> DEFINE d == [x EXCEPT !.ttl = [@ EXCEPT ![k] = e]]
      <4>1. k \in x.map
        BY <2>1, <3>2
      <4>2. /\ d.ttl[k] = e
            /\ \A j \in x.map : NodeOf(d, j) = NodeOf(x, j)
            /\ \A j \in x.map \ {k} : d.ttl[j] = x.ttl[j]
        BY <1>3, <3>2, <4>1, DeadlineEntry
      <4> HIDE DEF d
      <4> QED
        BY <3>1, <4>2 DEF d
    <3> QED
      BY <2>1, <3>2, <3>3, <3>4
  <2>2. CASE k \notin mem.map
    <3>1. mem' = Inserted(mem, k, v, e)
      BY <2>2 DEF MSetItem, e
    <3> QED
      BY <1>1, <1>3, <2>2, <3>1, InsertedAgrees, InsertedEntry
  <2> QED
    BY <2>1, <2>2
<1> QED
  BY <1>2, <1>3, <1>5, MemWriteMaps

LEMMA ReadHitMaps ==
  ASSUME IInv, ReliableTier, NEW k \in Keys, ReadHit(k)
  PROVE  Abstract!Next
<1> DEFINE n == NodeOf(mem, k)
<1>1. Agree(mem) /\ k \in mem.map /\ tier \in [Keys -> Copy \cup {None}]
  BY DEF IInv, TypeOK, Agree, ReadHit
<1>2. n \in Node /\ n.key = k /\ n.live
  BY <1>1, NodeOfFacts
<1>3. /\ mem' = Moved(mem, n) /\ reply' = [key |-> k, val |-> n.val]
      /\ tier' = tier /\ now' = now
  BY DEF ReadHit, ReadReturns
<1>4. Stored[k] # None /\ Stored[k].val = n.val
  BY <1>1, EntryType, StoredIs
<1>5. \A j \in mem.map : NodeOf(mem', j) = NodeOf(mem, j)
  <2> HIDE DEF n
  <2>1. NodeOf(mem', k) = n /\ \A j \in mem.map \ {k} : NodeOf(mem', j) = NodeOf(mem, j)
    BY <1>1, <1>2, <1>3, MovedEntry
  <2> QED
    BY <2>1 DEF n
<1>6. mem'.map = mem.map /\ mem'.ttl = mem.ttl
  <2> HIDE DEF n
  <2> QED
    BY <1>1, <1>2, <1>3, MovedAgrees, MovedEntry
<1>7. \A j \in Keys : Stored'[j] = Stored[j]
  BY <1>3, <1>5, <1>6, StoredIs DEF EntryIn
<1> QED
  BY <1>3, <1>4, <1>7, ReadFoundMaps

\* A tier that has nothing fresh for the key: an absent or a lapsed entry.
LEMMA MissedEntry ==
  ASSUME IInv, ReliableTier, NEW k \in Keys, k \notin mem.map, tier' \in TierMiss(k)
  PROVE  /\ Stored[k] = None \/ Abstract!Lapsed(k)
         /\ tier'[k] = None /\ \A j \in Keys \ {k} : tier'[j] = tier[j]
<1>1. ~TierFresh(k) /\ tier'[k] = None /\ \A j \in Keys \ {k} : tier'[j] = tier[j]
  BY TierExact
<1>2. Stored[k] = tier[k]
  BY StoredIs DEF EntryIn
<1> QED
  BY <1>1, <1>2 DEF TierFresh, Passed, Abstract!Lapsed

LEMMA ReadMissMaps ==
  ASSUME IInv, ReliableTier, NEW k \in Keys, ReadMiss(k)
  PROVE  Abstract!Next
<1>1. /\ k \notin mem.map /\ tier' \in TierMiss(k) /\ mem' = mem /\ now' = now
      /\ reply' = [key |-> k, val |-> None]
  BY DEF ReadMiss, ReadReturns
<1>2. /\ Stored[k] = None \/ Abstract!Lapsed(k)
      /\ tier'[k] = None /\ \A j \in Keys \ {k} : tier'[j] = tier[j]
  BY <1>1, MissedEntry
<1>3. Stored'[k] = None /\ \A j \in Keys \ {k} : Stored'[j] = Stored[j]
  BY <1>1, <1>2, StoredIs DEF EntryIn
<1> QED
  BY <1>1, <1>2, <1>3, ReadAbsentMaps

\* Promotion moves an entry from the tier into memory as it is.
LEMMA PromotedEntries ==
  ASSUME IInv, ReliableTier, NEW k \in Keys, NEW m, Agree(m), k \notin m.map,
         NEW caller, Promote(k, caller),
         mem' = Inserted(m, k, tier[k].val, tier[k].exp)
  PROVE  /\ \A j \in Keys : EntryIn(mem', tier', j) = EntryIn(m, tier, j)
         /\ mem'.map = m.map \cup {k} /\ NodeOf(mem', k) = node' /\ node'.key = k
<1>1. tier[k] \in Copy /\ tier' \in TierDelete(k)
  BY DEF Promote, TierFresh, IInv, TypeOK
<1>2. tier[k].val \in Val /\ tier[k].exp \in Deadline
  BY <1>1 DEF Copy, Deadline
<1>3. /\ mem'.map = m.map \cup {k}
      /\ NodeOf(mem', k) = [key |-> k, val |-> tier[k].val, live |-> TRUE]
      /\ mem'.ttl[k] = tier[k].exp
      /\ \A j \in m.map : NodeOf(mem', j) = NodeOf(m, j) /\ mem'.ttl[j] = m.ttl[j]
  <2> DEFINE v == tier[k].val
             e == tier[k].exp
  <2>1. v \in Val /\ e \in Deadline /\ mem' = Inserted(m, k, v, e)
    BY <1>2
  <2> HIDE DEF v, e
  <2>2. mem'.map = m.map \cup {k}
    BY <2>1, InsertedAgrees
  <2>3. /\ NodeOf(mem', k) = [key |-> k, val |-> v, live |-> TRUE]
        /\ mem'.ttl[k] = e
        /\ \A j \in m.map : NodeOf(mem', j) = NodeOf(m, j) /\ mem'.ttl[j] = m.ttl[j]
    BY <2>1, InsertedEntry
  <2> QED
    BY <2>2, <2>3 DEF v, e
<1>4. \A j \in Keys \ {k} : tier'[j] = tier[j]
  BY <1>1, TierExact
<1>5. EntryIn(mem', tier', k) = tier[k]
  BY <1>1, <1>3 DEF EntryIn, Copy
<1>6. \A j \in Keys \ {k} : EntryIn(mem', tier', j) = EntryIn(m, tier, j)
  BY <1>3, <1>4 DEF EntryIn
<1>7. EntryIn(m, tier, k) = tier[k]
  BY DEF EntryIn
<1> QED
  BY <1>3, <1>5, <1>6, <1>7 DEF Promote

LEMMA ReadPromoteMaps ==
  ASSUME IInv, ReliableTier, NEW k \in Keys, ReadPromote(k)
  PROVE  UNCHANGED <<Stored, now, reply>>
<1>1. Agree(mem) /\ k \notin mem.map /\ Promote(k, "read")
      /\ mem' = Inserted(mem, k, tier[k].val, tier[k].exp)
  BY DEF ReadPromote, IInv, TypeOK, Agree
<1>2. \A j \in Keys : EntryIn(mem', tier', j) = EntryIn(mem, tier, j)
  BY <1>1, PromotedEntries
<1> QED
  BY <1>2, StoredIs, StutterMaps DEF ReadPromote

LEMMA PatchStartMaps ==
  ASSUME IInv, ReliableTier, NEW k \in Keys, PatchStart(k)
  PROVE  Abstract!Next
<1> DEFINE m == Purged(mem)
           K == Expired(mem)
<1>1. now' = now /\ reply' = None
  BY DEF PatchStart
<1>2. /\ Agree(m) /\ K \in SUBSET Keys
      /\ \A j \in K : Abstract!Lapsed(j)
      /\ \A j \in Keys : EntryIn(m, tier, j) = IF j \in K THEN None ELSE Stored[j]
  BY PurgedBase
<1>3. CASE mem' = m /\ tier' = tier
  BY <1>1, <1>3, PurgeMaps
<1>4. CASE /\ k \notin m.map
           /\ Promote(k, "patch")
           /\ mem' = Inserted(m, k, tier[k].val, tier[k].exp)
  <2> HIDE DEF m, K
  <2>1. \A j \in Keys : EntryIn(mem', tier', j) = EntryIn(m, tier, j)
    BY <1>2, <1>4, PromotedEntries
  <2> QED
    BY <1>1, <1>2, <2>1, StoredIs, SweepMaps
<1>5. CASE k \notin m.map /\ mem' = m /\ tier' \in TierMiss(k)
  <2> DEFINE L == IF Stored[k] # None THEN K \cup {k} ELSE K
  <2>1. k \notin mem.map \/ k \in K
    BY <1>5, DeletedAgrees DEF IInv, TypeOK, Agree, Purged
  <2>2. ~TierFresh(k) /\ tier'[k] = None /\ \A j \in Keys \ {k} : tier'[j] = tier[j]
    BY <1>5, TierExact
  <2>3. Stored[k] = None \/ Abstract!Lapsed(k)
    BY <1>2, <1>5, <2>1, MissedEntry
  <2>4. L \in SUBSET Keys /\ \A j \in L : Abstract!Lapsed(j)
    BY <1>2, <2>3
  <2> HIDE DEF m, K
  <2>5. EntryIn(mem', tier', k) = None
    BY <1>5, <2>2 DEF EntryIn
  <2>6. \A j \in Keys \ {k} : EntryIn(mem', tier', j) = EntryIn(m, tier, j)
    BY <1>5, <2>2 DEF EntryIn
  <2>7. \A j \in Keys : Stored'[j] = IF j \in L THEN None ELSE Stored[j]
    BY <1>2, <2>5, <2>6, StoredIs
  <2> HIDE DEF L
  <2> QED
    BY <1>1, <2>4, <2>7, SweepMaps
<1> QED
  BY <1>3, <1>4, <1>5 DEF PatchStart

LEMMA PatchApplyMaps ==
  ASSUME IInv, ReliableTier, NEW v \in Val, NEW t \in Args, PatchApply(v, t)
  PROVE  Abstract!Next
<1> DEFINE n == [node EXCEPT !.val = v]
           k == node.key
<1>1. /\ Agree(mem) /\ node \in Node /\ node.live /\ k \in mem.map
      /\ k \in Keys
  BY DEF PatchApply, IInv, TypeOK, Agree, LocalNode, Mem
<1>2. n \in Node /\ n.live /\ n.key = k /\ n.val = v
  BY <1>1 DEF Node
<1>3. /\ mem' = WithTTL(Moved(mem, n), k, t)
      /\ tier' \in TierDelete(k)
      /\ reply' = [key |-> k, val |-> v]
      /\ now' = now
  BY DEF PatchApply, WriteDone
<1> HIDE DEF n, k
<1>4. /\ Agree(mem') /\ mem'.map = mem.map /\ NodeOf(mem', k) = n
      /\ \A j \in mem.map \ {k} : /\ NodeOf(mem', j) = NodeOf(mem, j)
                                  /\ mem'.ttl[j] = mem.ttl[j]
      /\ mem'.ttl[k] >= now \/ mem'.ttl[k] = mem.ttl[k]
  BY <1>1, <1>2, <1>3, MovedWrite
<1>5. mem'.map = mem.map \cup {k} /\ reply' = [key |-> k, val |-> NodeOf(mem', k).val]
  BY <1>1, <1>2, <1>3, <1>4
<1> QED
  BY <1>1, <1>3, <1>4, <1>5, MemWriteMaps

LEMMA PatchFailsMaps ==
  ASSUME IInv, ReliableTier, PatchFails
  PROVE  UNCHANGED <<Stored, now, reply>>
<1>1. node \in Node /\ node.key \in Keys /\ node.key \in mem.map
  BY DEF PatchFails, IInv, TypeOK, LocalNode, Node, Mem
<1>2. tier[node.key] = None
  BY <1>1, OneCopyHere
<1>3. /\ tier' \in [Keys -> Copy \cup {None}] /\ tier'[node.key] = None
      /\ \A j \in Keys \ {node.key} : tier'[j] = tier[j]
  BY <1>1, TierExact DEF PatchFails
<1>4. tier' = tier
  BY <1>2, <1>3 DEF IInv, TypeOK
<1>5. \A j \in Keys : EntryIn(mem', tier', j) = EntryIn(mem, tier, j)
  BY <1>4 DEF PatchFails
<1> QED
  BY <1>5, StoredIs, StutterMaps DEF PatchFails

\* Evicting spills the entry as it is, or drops one that has lapsed, or drops one
\* where there is no tier.
LEMMA EvictOneMaps ==
  ASSUME IInv, ReliableTier, EvictOne
  PROVE  [Abstract!Next]_<<Stored, now, reply>>
<1>1. PICK i \in Candidates(mem) :
        /\ tier' \in TierPut(mem.order[i], mem.ttl[mem.order[i].key])
        /\ mem' = Deleted(mem, {mem.order[i].key})
  BY DEF EvictOne
<1> DEFINE victim == mem.order[i]
           x == victim.key
<1>2. /\ Agree(mem) /\ mem.order \in Seq(Node) /\ i \in DOMAIN mem.order
      /\ mem.ttl \in [Keys -> Deadline] /\ tier \in [Keys -> Copy \cup {None}]
  BY DEF IInv, TypeOK, Agree, Mem, Candidates
<1>3. x \in mem.map /\ x \in Keys /\ NodeOf(mem, x) = victim
  BY <1>2, NodeAt DEF Agree, ListIsMap, Mem
<1>4. mem'.map = mem.map \ {x} /\ UNCHANGED <<now, reply>>
  BY <1>1, <1>2, DeletedAgrees DEF EvictOne
<1>5. \A j \in mem.map \ {x} : /\ NodeOf(mem', j) = NodeOf(mem, j)
                               /\ mem'.ttl[j] = mem.ttl[j]
  BY <1>1, <1>2, DeletedEntry
<1>6. Stored[x] = [val |-> victim.val, exp |-> mem.ttl[x]] /\ Stored[x] # None
  <2>1. EntryIn(mem, tier, x) # None
    BY <1>2, <1>3, EntryType
  <2> QED
    BY <1>3, <2>1, StoredIs DEF EntryIn
<1>7. tier[x] = None
  BY <1>3, OneCopyHere
<1> HIDE DEF victim, x
<1>8. CASE HasTier /\ ~Passed(mem.ttl[x])
  <2>1. tier' = [tier EXCEPT ![x] = [val |-> victim.val, exp |-> mem.ttl[x]]]
    BY <1>1, <1>8 DEF TierPut, OrFails, ReliableTier, victim, x
  <2>2. \A j \in Keys : Stored'[j] = Stored[j]
    BY <1>2, <1>3, <1>4, <1>5, <1>6, <2>1, StoredIs DEF EntryIn
  <2> QED
    BY <1>4, <2>2, StutterMaps
<1>9. CASE ~HasTier \/ Passed(mem.ttl[x])
  <2>1. tier' = tier
    BY <1>1, <1>9 DEF TierPut, victim, x
  <2>2. Stored'[x] = None /\ \A j \in Keys \ {x} : Stored'[j] = Stored[j]
    BY <1>3, <1>4, <1>5, <1>7, <2>1, StoredIs DEF EntryIn
  <2>3. CASE ~HasTier
    BY <1>3, <1>4, <2>2, <2>3, EvictMaps
  <2>4. CASE Passed(mem.ttl[x])
    <3>1. Abstract!Lapsed(x)
      BY <1>6, <2>4 DEF Passed, Abstract!Lapsed
    <3> DEFINE K == {x}
    <3>2. K \in SUBSET Keys /\ \A j \in K : Abstract!Lapsed(j)
      BY <1>3, <3>1
    <3>3. \A j \in Keys : Stored'[j] = IF j \in K THEN None ELSE Stored[j]
      BY <2>2
    <3> HIDE DEF K
    <3> QED
      BY <1>4, <3>2, <3>3, SweepMaps
  <2> QED
    BY <1>9, <2>3, <2>4
<1> QED
  BY <1>8, <1>9

LEMMA ReadPromotedMaps ==
  ASSUME IInv, ReliableTier, HeldNode, ReadPromoted
  PROVE  Abstract!Next
<1> DEFINE k == node.key
<1>1. /\ Agree(mem) /\ node \in Node /\ node.live /\ k \in mem.map /\ k \in Keys
      /\ NodeOf(mem, k) = node /\ tier \in [Keys -> Copy \cup {None}]
  BY DEF ReadPromoted, EvictEnds, IInv, TypeOK, Agree, LocalNode, HeldNode, Mem
<1>2. /\ mem' = Moved(mem, node) /\ tier' = tier /\ now' = now
      /\ reply' = [key |-> k, val |-> node.val]
  BY DEF ReadPromoted, ReadReturns
<1>3. Stored[k] # None /\ Stored[k].val = node.val
  BY <1>1, EntryType, StoredIs
<1>4. /\ mem'.map = mem.map /\ mem'.ttl = mem.ttl
      /\ \A j \in mem.map : NodeOf(mem', j) = NodeOf(mem, j)
  <2>1. /\ NodeOf(mem', k) = node
        /\ \A j \in mem.map \ {k} : NodeOf(mem', j) = NodeOf(mem, j)
    BY <1>1, <1>2, MovedEntry
  <2> QED
    BY <1>1, <1>2, <2>1, MovedAgrees, MovedEntry
<1>5. \A j \in Keys : Stored'[j] = Stored[j]
  BY <1>2, <1>4, StoredIs DEF EntryIn
<1> QED
  BY <1>1, <1>2, <1>3, <1>5, ReadFoundMaps

LEMMA StepMaps ==
  ASSUME IInv, IInv', ReliableTier, HeldNode, [Next]_vars
  PROVE  [Abstract!Next]_<<Stored, now, reply>>
<1>1. ASSUME NEW k \in Keys, KeyOps(k)
      PROVE  [Abstract!Next]_<<Stored, now, reply>>
  <2>1. ASSUME NEW v \in Val, NEW t \in Args,
               Create(k, v, t) \/ Update(k, v, t) \/ MSetItem(k, v, t)
        PROVE  Abstract!Next
    BY <2>1, CreateMaps, UpdateMaps, MSetItemMaps
  <2>2. ASSUME NEW t \in Args, Incr(k, t) PROVE Abstract!Next
    BY <2>2, IncrMaps
  <2>3. CASE Delete(k) \/ Persist(k) \/ PatchStart(k)
    BY <2>3, DeleteMaps, PersistMaps, PatchStartMaps
  <2>4. CASE ReadHit(k) \/ ReadMiss(k)
    BY <2>4, ReadHitMaps, ReadMissMaps
  <2>5. CASE ReadPromote(k)
    BY <2>5, ReadPromoteMaps
  <2> QED
    BY <1>1, <2>1, <2>2, <2>3, <2>4, <2>5 DEF KeyOps
<1>2. ASSUME NEW S \in SUBSET Keys, MSetStart(S) \/ ReadStart(S)
      PROVE  Abstract!Next
  BY <1>2, PurgeMaps DEF MSetStart, ReadStart
<1>3. CASE PurgeExpired
  BY <1>3, PurgeMaps DEF PurgeExpired, Raises
<1>4. ASSUME NEW v \in Val, NEW t \in Args, PatchApply(v, t) PROVE Abstract!Next
  BY <1>4, PatchApplyMaps
<1>5. CASE PatchFails
  BY <1>5, PatchFailsMaps
<1>6. CASE Tick
  <2>1. Stored' = Stored
    BY <1>6, StoredIs DEF Tick
  <2> QED
    BY <1>6, <2>1 DEF Tick, Abstract!Next, Abstract!Tick
<1>7. CASE Evicting
  <2>1. CASE WriteReturns \/ PatchPromoted
    BY <2>1, StoredIs DEF WriteReturns, PatchPromoted
  <2> QED
    BY <1>7, <2>1, EvictOneMaps, ReadPromotedMaps DEF Evicting
<1>8. CASE UNCHANGED vars
  BY <1>8, StoredIs DEF vars
<1> QED
  BY <1>1, <1>2, <1>3, <1>4, <1>5, <1>6, <1>7, <1>8 DEF Next

\* The node a promoting call holds stays the one of its key.
LEMMA HeldStep ==
  ASSUME IInv, IInv', ReliableTier, HeldNode, [Next]_vars
  PROVE  HeldNode'
<1> DEFINE Held == /\ node'.key \in mem'.map
                   /\ NodeOf(mem', node'.key) = node'
<1>0. Agree(mem)
  BY DEF IInv, TypeOK, Agree
<1>1. ASSUME NEW k \in Keys, ReadPromote(k) \/ PatchStart(k), pc' = "evict"
      PROVE  Held
  <2>1. PICK m, caller : /\ Agree(m) /\ k \notin m.map /\ Promote(k, caller)
                         /\ mem' = Inserted(m, k, tier[k].val, tier[k].exp)
    <3>1. Agree(Purged(mem))
      BY PurgedAgrees
    <3> QED
      BY <1>0, <1>1, <3>1 DEF ReadPromote, PatchStart
  <2> QED
    BY <2>1, PromotedEntries
<1>2. ASSUME EvictOne, cont # "return" PROVE Held
  <2>1. PICK x : mem' = Deleted(mem, {x})
    BY <1>2 DEF EvictOne
  <2>2. node' = node /\ pc = "evict" /\ pc' = "evict" /\ cont' = cont
    BY <1>2 DEF EvictOne
  <2>3. AtTail(mem', node'.key)
    BY <1>2, <2>2 DEF IInv, LocalNode
  <2>4. Agree(mem')
    BY DEF IInv, TypeOK, Agree
  <2>5. node.key \in mem'.map
    BY <2>2, <2>3, <2>4, TailIsResident
  <2>6. node.key \in mem.map \ {x}
    BY <1>0, <2>1, <2>5, DeletedAgrees
  <2>7. NodeOf(mem, node.key) = node
    BY <1>2, <2>2 DEF HeldNode
  <2> QED
    BY <1>0, <2>1, <2>2, <2>5, <2>6, <2>7, DeletedEntry
<1>3. ASSUME pc' = "evict", cont' # "return" PROVE Held
  <2>1. CASE Tick \/ UNCHANGED vars
    <3>1. UNCHANGED <<mem, node, pc, cont>>
      BY <2>1 DEF Tick, vars
    <3> QED
      BY <1>3, <3>1 DEF HeldNode, NodeOf, LiveAt
  <2>2. CASE \E S \in SUBSET Keys : MSetStart(S) \/ ReadStart(S)
    BY <1>3, <2>2 DEF MSetStart, ReadStart
  <2>3. ASSUME NEW k \in Keys, KeyOps(k) PROVE Held
    <3>1. ReadPromote(k) \/ PatchStart(k)
      BY <1>3, <2>3 DEF KeyOps, Create, Update, Incr, WriteDone, Raises, Delete,
                        Persist, MSetItem, ReadHit, ReadMiss, ReadReturns
    <3> QED
      BY <1>1, <1>3, <3>1
  <2>4. CASE \/ PatchFails \/ PurgeExpired
             \/ \E v \in Val, t \in Args : PatchApply(v, t)
    BY <1>3, <2>4 DEF PatchFails, PurgeExpired, Raises, PatchApply, WriteDone
  <2>5. CASE Evicting
    <3>1. EvictOne /\ cont # "return"
      BY <1>3, <2>5 DEF Evicting, EvictOne, WriteReturns, ReadPromoted, ReadReturns,
                        PatchPromoted
    <3> QED
      BY <1>2, <3>1
  <2> QED
    BY <2>1, <2>2, <2>3, <2>4, <2>5 DEF Next
<1>4. ASSUME pc' = "mset" PROVE reply' = None
  <2>1. CASE pc = "mset"
    <3>1. reply' = reply
      BY <1>4, <2>1 DEF Next, KeyOps, Tick, Create, Update, Incr, Delete, Persist,
           PatchStart, MSetItem, ReadHit, ReadMiss, ReadPromote, MSetStart, ReadStart,
           PatchApply, PatchFails, PurgeExpired, Evicting, EvictOne, WriteReturns,
           ReadPromoted, PatchPromoted, EvictEnds, vars
    <3> QED
      BY <2>1, <3>1 DEF HeldNode
  <2>2. CASE pc # "mset"
    BY <1>4, <2>2 DEF Next, KeyOps, Tick, Create, Update, Incr, Delete, Persist,
         PatchStart, Promote, MSetItem, ReadHit, ReadMiss, ReadPromote, ReadReturns,
         MSetStart, ReadStart, PatchApply, PatchFails, PurgeExpired, Raises, WriteDone,
         Evicting, EvictOne, WriteReturns, ReadPromoted, PatchPromoted, EvictEnds, vars
  <2> QED
    BY <2>1, <2>2
<1> QED
  BY <1>3, <1>4 DEF HeldNode, NodeOf, LiveAt

\* A shard with a dependable tier, or with none, is a KVStore: every call, and every
\* step of the eviction loop, does to what is stored what KVStore allows it or
\* nothing at all, and answers from it.
THEOREM Implementation == ReliableTier => (Spec => ImplementsKVStore)
<1> SUFFICES ASSUME ReliableTier PROVE Spec => ImplementsKVStore
  OBVIOUS
<1>1. Spec => []IInv
  BY Inductive DEF ReliableTier
<1>2. Init => HeldNode
  BY DEF Init, HeldNode
<1>3. IInv /\ IInv' /\ HeldNode /\ [Next]_vars => HeldNode'
  BY HeldStep
<1>4. Init => Abstract!Init
  <2> SUFFICES ASSUME Init PROVE Abstract!Init
    OBVIOUS
  <2>1. Stored = [j \in Keys |-> None]
    BY StoredIs DEF Init, EntryIn
  <2>2. Stored \in [Keys -> Abstract!Entry \cup {None}]
    BY <2>1
  <2> QED
    BY <2>2 DEF Init, Abstract!Init
<1>5. IInv /\ IInv' /\ HeldNode /\ [Next]_vars =>
        [Abstract!Next]_<<Stored, now, reply>>
  BY StepMaps
<1> QED
  BY <1>1, <1>2, <1>3, <1>4, <1>5, PTL DEF Spec, ImplementsKVStore, Abstract!Spec

-----------------------------------------------------------------------------
(***************************************************************************)
(* With load_state and FLUSHALL among the calls, and hints and a failing   *)
(* tier in any combination, less is left of the agreement: the live nodes  *)
(* are one for each key of the map, whatever ghosts lie between them.      *)
(***************************************************************************)
Listed(m) ==
  /\ m \in Mem
  /\ \A k \in m.map : \E i \in DOMAIN m.order : m.order[i].live /\ m.order[i].key = k
  /\ \A i, j \in DOMAIN m.order :
       m.order[i].live /\ m.order[j].live /\ m.order[i].key = m.order[j].key => i = j
  /\ \A i \in DOMAIN m.order : m.order[i].live => m.order[i].key \in m.map
  /\ m.skeys = m.map

AdminInv ==
  /\ TypeOK
  /\ Listed(mem)
  /\ pc = "patch" \/ (pc = "evict" /\ cont # "return") => node \in Node /\ node.live

LEMMA ListedUnlinked ==
  ASSUME NEW m, Listed(m), NEW K
  PROVE  /\ Unlinked(m, K) \in Seq(Node)
         /\ \A j \in DOMAIN Unlinked(m, K) : Unlinked(m, K)[j].live =>
              Unlinked(m, K)[j].key \in m.map \ K
         /\ \A k \in m.map \ K : \E j \in DOMAIN Unlinked(m, K) :
              Unlinked(m, K)[j].live /\ Unlinked(m, K)[j].key = k
         /\ \A j, l \in DOMAIN Unlinked(m, K) :
              /\ Unlinked(m, K)[j].live
              /\ Unlinked(m, K)[l].live
              /\ Unlinked(m, K)[j].key = Unlinked(m, K)[l].key
              => j = l
<1> DEFINE s == m.order
           I == DOMAIN s \ LiveAt(m, K)
           u == Unlinked(m, K)
<1>1. s \in Seq(Node) /\ I \in SUBSET DOMAIN s
  BY DEF Listed, Mem
<1>2. u = Pick(s, I)
  BY DEF Unlinked
<1>3. I = {i \in DOMAIN s : ~(s[i].live /\ s[i].key \in K)}
  BY DEF LiveAt
<1>4. /\ \A k \in m.map : \E i \in DOMAIN s : s[i].live /\ s[i].key = k
      /\ \A i, l \in DOMAIN s : s[i].live /\ s[l].live /\ s[i].key = s[l].key => i = l
      /\ \A i \in DOMAIN s : s[i].live => s[i].key \in m.map
  BY DEF Listed
<1>5. /\ u \in Seq(Node)
      /\ \A j \in DOMAIN u : \E i \in I : u[j] = s[i]
      /\ \A i \in I : \E j \in DOMAIN u : u[j] = s[i]
      /\ \A j, l \in DOMAIN u : j < l =>
           \E x, y \in I : x < y /\ u[j] = s[x] /\ u[l] = s[y]
  <2> HIDE DEF s, I, u
  <2> QED
    BY <1>1, <1>2, PickFacts
<1>6. DOMAIN u \subseteq Nat /\ DOMAIN s \subseteq Nat
  BY <1>1, <1>5, LenProperties
<1> HIDE DEF s, I, u
<1>7. ASSUME NEW j \in DOMAIN u, NEW l \in DOMAIN u, u[j].live, u[l].live,
             u[j].key = u[l].key
      PROVE  j = l
  <2>1. SUFFICES ASSUME NEW a \in DOMAIN u, NEW b \in DOMAIN u, a < b,
                        u[a].live, u[b].live, u[a].key = u[b].key
                 PROVE  FALSE
    BY <1>6, <1>7
  <2>2. PICK x, y \in I : x < y /\ u[a] = s[x] /\ u[b] = s[y]
    BY <1>5, <2>1
  <2>3. x = y /\ x \in Nat
    BY <1>1, <1>4, <1>6, <2>1, <2>2
  <2> QED
    BY <2>2, <2>3
<1>8. \A j \in DOMAIN u : u[j].live => u[j].key \in m.map \ K
  BY <1>1, <1>3, <1>4, <1>5
<1>9. \A k \in m.map \ K : \E j \in DOMAIN u : u[j].live /\ u[j].key = k
  BY <1>3, <1>4, <1>5
<1> QED
  BY <1>5, <1>7, <1>8, <1>9 DEF u

\* The same list with one more node, for a key that has no live node in it.
LEMMA ListedAppended ==
  ASSUME NEW d, d \in Mem, NEW u \in Seq(Node), NEW n \in Node,
         d.order = Append(u, n), d.skeys = d.map,
         n.live => n.key \in d.map,
         \A j \in DOMAIN u : u[j].live => u[j].key \in d.map /\ (n.live => u[j].key # n.key),
         \A k \in d.map : (n.live /\ k = n.key)
                          \/ \E j \in DOMAIN u : u[j].live /\ u[j].key = k,
         \A j, l \in DOMAIN u : u[j].live /\ u[l].live /\ u[j].key = u[l].key => j = l
  PROVE  Listed(d)
<1>1. /\ Len(u) \in Nat /\ DOMAIN u = 1..Len(u)
      /\ DOMAIN d.order = 1..(Len(u) + 1)
      /\ d.order[Len(u) + 1] = n
      /\ \A i \in 1..Len(u) : d.order[i] = u[i]
  BY LenProperties, AppendProperties
<1>2. \A k \in d.map : \E i \in DOMAIN d.order : d.order[i].live /\ d.order[i].key = k
  <2> TAKE k \in d.map
  <2>1. CASE n.live /\ k = n.key
    BY <1>1, <2>1
  <2>2. CASE \E j \in DOMAIN u : u[j].live /\ u[j].key = k
    BY <1>1, <2>2
  <2> QED
    BY <2>1, <2>2
<1>3. \A i, j \in DOMAIN d.order :
        d.order[i].live /\ d.order[j].live /\ d.order[i].key = d.order[j].key => i = j
  <2> TAKE i, j \in DOMAIN d.order
  <2> HAVE d.order[i].live /\ d.order[j].live /\ d.order[i].key = d.order[j].key
  <2>1. CASE i \in DOMAIN u /\ j \in DOMAIN u
    BY <1>1, <2>1
  <2>2. CASE i \notin DOMAIN u \/ j \notin DOMAIN u
    BY <1>1, <2>2
  <2> QED
    BY <2>1, <2>2
<1>4. \A i \in DOMAIN d.order : d.order[i].live => d.order[i].key \in d.map
  BY <1>1
<1> QED
  BY <1>2, <1>3, <1>4 DEF Listed

LEMMA ListedDeleted ==
  ASSUME NEW m, Listed(m), NEW K
  PROVE  Listed(Deleted(m, K)) /\ Deleted(m, K).map = m.map \ K
<1> DEFINE d == Deleted(m, K)
<1>1. m \in Mem /\ m.ttl \in [Keys -> Deadline] /\ m.newer \in [Keys -> SUBSET Keys]
      /\ m.skeys = m.map
  BY DEF Listed, Mem
<1>2. d.map = m.map \ K /\ d.order = Unlinked(m, K) /\ d.skeys = m.skeys \ K
  BY <1>1 DEF Deleted, Mem
<1>3. d \in Mem
  BY <1>1, ListedUnlinked DEF Deleted, Mem, Deadline
<1> HIDE DEF d
<1>4. Listed(d)
  BY <1>1, <1>2, <1>3, ListedUnlinked DEF Listed
<1> QED
  BY <1>2, <1>4 DEF d

LEMMA ListedInserted ==
  ASSUME NEW m, Listed(m), NEW k \in Keys, k \notin m.map,
         NEW v \in Val, NEW e \in Deadline
  PROVE  Listed(Inserted(m, k, v, e)) /\ Inserted(m, k, v, e).map = m.map \cup {k}
<1> DEFINE n == [key |-> k, val |-> v, live |-> TRUE]
           d == Inserted(m, k, v, e)
<1>1. /\ m \in Mem /\ m.order \in Seq(Node) /\ n \in Node /\ n.live /\ n.key = k
      /\ m.ttl \in [Keys -> Deadline]
      /\ m.newer \in [Keys -> SUBSET Keys] /\ m.map \subseteq Keys
      /\ m.skeys = m.map
  BY DEF Listed, Mem, Node
<1>2. /\ d.map = m.map \cup {k}
      /\ d.order = Append(m.order, n)
      /\ d.skeys = m.skeys \cup {k}
  BY <1>1 DEF Inserted, Mem
<1>3. Used(m, k) \in [Keys -> SUBSET Keys]
  BY <1>1 DEF Used
<1>4. d \in Mem
  <2>1. Append(m.order, n) \in Seq(Node)
    BY <1>1, AppendProperties
  <2>2. [m.ttl EXCEPT ![k] = e] \in [Keys -> Deadline]
    BY <1>1
  <2>3. m.map \cup {k} \in SUBSET Keys /\ m.skeys \cup {k} \in SUBSET Keys
    BY <1>1
  <2> HIDE DEF n
  <2> QED
    BY <1>1, <1>3, <2>1, <2>2, <2>3 DEF Inserted, Mem, n
<1>5. /\ \A j \in DOMAIN m.order : m.order[j].live =>
           m.order[j].key \in m.map /\ m.order[j].key # k
      /\ \A x \in m.map : \E j \in DOMAIN m.order :
           m.order[j].live /\ m.order[j].key = x
      /\ \A j, l \in DOMAIN m.order :
           m.order[j].live /\ m.order[l].live /\ m.order[j].key = m.order[l].key => j = l
  BY DEF Listed
<1> DEFINE u == m.order
<1> HIDE DEF d, n, u
<1>6. Listed(d)
  <2>1. \A j \in DOMAIN u : u[j].live => u[j].key \in d.map /\ u[j].key # n.key
    BY <1>1, <1>2, <1>5 DEF u
  <2>2. \A x \in d.map : x = n.key \/ \E j \in DOMAIN u : u[j].live /\ u[j].key = x
    BY <1>1, <1>2, <1>5 DEF u
  <2>3. \A j, l \in DOMAIN u : u[j].live /\ u[l].live /\ u[j].key = u[l].key => j = l
    BY <1>5 DEF u
  <2>4. u \in Seq(Node) /\ d.order = Append(u, n) /\ d.skeys = d.map /\ n.key \in d.map
    BY <1>1, <1>2 DEF u
  <2> QED
    BY <1>1, <1>4, <2>1, <2>2, <2>3, <2>4, ListedAppended
<1> QED
  BY <1>2, <1>6 DEF d

\* A node moved to the tail; one whose key has left the map is linked in as a ghost.
LEMMA ListedMoved ==
  ASSUME NEW m, Listed(m), NEW n \in Node, n.live
  PROVE  Listed(Moved(m, n)) /\ Moved(m, n).map = m.map
<1> DEFINE d == Moved(m, n)
           x == n.key
<1>1. /\ m \in Mem /\ m.newer \in [Keys -> SUBSET Keys] /\ m.map \subseteq Keys
      /\ m.skeys = m.map /\ m.order \in Seq(Node)
  BY DEF Listed, Mem
<1>2. CASE x \in m.map
  <2> DEFINE K == {x}
             u == Unlinked(m, K)
  <2>1. /\ d.map = m.map /\ d.skeys = m.skeys /\ d.order = Append(u, n)
    BY <1>1, <1>2 DEF Moved, Mem
  <2>2. Used(m, x) \in [Keys -> SUBSET Keys]
    BY <1>1, <1>2 DEF Used
  <2> HIDE DEF K
  <2>3. /\ u \in Seq(Node)
        /\ \A j \in DOMAIN u : u[j].live => u[j].key \in m.map \ K
        /\ \A k \in m.map \ K : \E j \in DOMAIN u : u[j].live /\ u[j].key = k
        /\ \A j, l \in DOMAIN u : u[j].live /\ u[l].live /\ u[j].key = u[l].key => j = l
    BY ListedUnlinked
  <2>4. d \in Mem
    <3>1. Append(u, n) \in Seq(Node)
      BY <2>3, AppendProperties
    <3> HIDE DEF u
    <3> QED
      BY <1>1, <1>2, <2>2, <3>1 DEF Moved, Mem, u, K
  <2>5. \A j \in DOMAIN u : u[j].live => u[j].key \in d.map /\ u[j].key # x
    BY <2>1, <2>3 DEF K
  <2>6. \A k \in d.map : k = x \/ \E j \in DOMAIN u : u[j].live /\ u[j].key = k
    BY <2>1, <2>3 DEF K
  <2> HIDE DEF u, d
  <2>7. Listed(d)
    BY <1>1, <1>2, <2>1, <2>3, <2>4, <2>5, <2>6, ListedAppended
  <2> QED
    BY <2>1, <2>7 DEF d
<1>3. CASE x \notin m.map
  <2> DEFINE g == [n EXCEPT !.live = FALSE]
             u == m.order
  <2>1. d.map = m.map /\ d.skeys = m.skeys /\ d.order = Append(u, g)
    BY <1>1, <1>3 DEF Moved, Mem
  <2>2. g \in Node /\ ~g.live
    BY DEF Node
  <2>3. d \in Mem
    <3>1. Append(u, g) \in Seq(Node)
      BY <1>1, <2>2, AppendProperties
    <3> QED
      BY <1>1, <1>3, <3>1 DEF Moved, Mem
  <2>4. /\ \A j \in DOMAIN u : u[j].live => u[j].key \in m.map
        /\ \A k \in m.map : \E j \in DOMAIN u : u[j].live /\ u[j].key = k
        /\ \A j, l \in DOMAIN u : u[j].live /\ u[l].live /\ u[j].key = u[l].key => j = l
    BY DEF Listed
  <2> HIDE DEF g, u, d
  <2>5. Listed(d)
    BY <1>1, <2>1, <2>2, <2>3, <2>4, ListedAppended DEF u
  <2> QED
    BY <2>1, <2>5 DEF d
<1> QED
  BY <1>2, <1>3

\* A deadline set or cleared, for whatever key.
LEMMA ListedDeadline ==
  ASSUME NEW m, Listed(m), NEW k \in Keys, NEW e \in Deadline
  PROVE  Listed([m EXCEPT !.ttl = [@ EXCEPT ![k] = e]])
<1> DEFINE d == [m EXCEPT !.ttl = [@ EXCEPT ![k] = e]]
<1>1. m \in Mem /\ m.ttl \in [Keys -> Deadline]
  BY DEF Listed, Mem
<1>2. d.map = m.map /\ d.order = m.order /\ d.skeys = m.skeys
  BY <1>1 DEF Mem
<1>3. d \in Mem
  BY <1>1 DEF Mem
<1> HIDE DEF d
<1>4. Listed(d)
  BY <1>2, <1>3 DEF Listed
<1> QED
  BY <1>4 DEF d

LEMMA ListedWithTTL ==
  ASSUME NEW m, Listed(m), NEW k \in Keys, NEW t \in Args, now \in Nat
  PROVE  Listed(WithTTL(m, k, t))
<1>1. CASE t = None
  BY <1>1 DEF WithTTL
<1>2. CASE t # None
  <2>1. now + t \in Deadline
    BY <1>2, LRUAssumption DEF Args, Deadline
  <2> QED
    BY <1>2, <2>1, ListedDeadline DEF WithTTL
<1> QED
  BY <1>1, <1>2

\* Keys dropped from the map, their nodes left behind as ghosts.
LEMMA ListedAbandoned ==
  ASSUME NEW m, Listed(m), NEW K
  PROVE  Listed(Abandoned(m, K)) /\ Abandoned(m, K).map = m.map \ K
<1> DEFINE d == Abandoned(m, K)
           s == m.order
           u == [i \in DOMAIN s |-> IF s[i].key \in K
                                    THEN [s[i] EXCEPT !.live = FALSE] ELSE s[i]]
<1>1. /\ m \in Mem /\ s \in Seq(Node) /\ m.skeys = m.map
      /\ m.ttl \in [Keys -> Deadline] /\ m.newer \in [Keys -> SUBSET Keys]
  BY DEF Listed, Mem
<1>2. d.map = m.map \ K /\ d.order = u /\ d.skeys = m.skeys \ K
  BY <1>1 DEF Abandoned, Mem
<1>3. DOMAIN u = DOMAIN s /\ Len(s) \in Nat /\ DOMAIN s = 1..Len(s)
  BY <1>1, LenProperties
<1>4. \A i \in DOMAIN s : s[i] \in Node
  BY <1>1, <1>3, ElementOfSeq
<1>5. \A i \in DOMAIN u : /\ u[i] \in Node
                          /\ u[i].key = s[i].key
                          /\ u[i].live => s[i].live /\ s[i].key \notin K
                          /\ s[i].live /\ s[i].key \notin K => u[i].live
  BY <1>3, <1>4 DEF Node
<1>6. u \in Seq(Node)
  <2>1. u \in [1..Len(s) -> Node]
    BY <1>3, <1>5
  <2> HIDE DEF u, s
  <2> QED
    BY <1>3, <2>1
<1>7. d \in Mem
  <2> HIDE DEF u
  <2>1. [k \in Keys |-> IF k \in K THEN None ELSE m.ttl[k]] \in [Keys -> Deadline]
    BY <1>1 DEF Deadline
  <2>2. [k \in Keys |-> IF k \in K THEN {} ELSE m.newer[k] \ K] \in [Keys -> SUBSET Keys]
    BY <1>1
  <2> QED
    BY <1>1, <1>6, <2>1, <2>2 DEF Abandoned, Mem, u
<1>8. /\ \A k \in m.map : \E i \in DOMAIN s : s[i].live /\ s[i].key = k
      /\ \A i, l \in DOMAIN s : s[i].live /\ s[l].live /\ s[i].key = s[l].key => i = l
      /\ \A i \in DOMAIN s : s[i].live => s[i].key \in m.map
  BY DEF Listed
<1> HIDE DEF d, u, s
<1>9. Listed(d)
  <2>1. \A k \in d.map : \E i \in DOMAIN u : u[i].live /\ u[i].key = k
    BY <1>2, <1>3, <1>5, <1>8
  <2>2. \A i, j \in DOMAIN u : u[i].live /\ u[j].live /\ u[i].key = u[j].key => i = j
    BY <1>3, <1>5, <1>8
  <2>3. \A i \in DOMAIN u : u[i].live => u[i].key \in d.map
    BY <1>2, <1>3, <1>5, <1>8
  <2> QED
    BY <1>1, <1>2, <1>7, <2>1, <2>2, <2>3 DEF Listed
<1> QED
  BY <1>2, <1>9 DEF d

LEMMA ListedNode ==
  ASSUME NEW m, Listed(m), NEW k \in m.map
  PROVE  /\ NodeOf(m, k) \in Node /\ NodeOf(m, k).key = k /\ NodeOf(m, k).live
         /\ Cardinality(LiveAt(m, {k})) = 1
<1>1. m.order \in Seq(Node) /\ Len(m.order) \in Nat
      /\ DOMAIN m.order = 1..Len(m.order)
  BY LenProperties DEF Listed, Mem
<1>2. \A i \in DOMAIN m.order : m.order[i] \in Node
  BY <1>1, ElementOfSeq
<1>3. PICK i \in DOMAIN m.order : m.order[i].live /\ m.order[i].key = k
  BY DEF Listed
<1>4. LiveAt(m, {k}) = {i}
  BY <1>3 DEF Listed, LiveAt
<1>5. NodeOf(m, k) = m.order[i]
  BY <1>4 DEF NodeOf
<1>6. Cardinality(LiveAt(m, {k})) = 1
  BY <1>4, FS_Singleton
<1> QED
  BY <1>2, <1>3, <1>5, <1>6

LEMMA TierTypes ==
  ASSUME TypeOK, NEW k \in Keys, NEW t \in TierDelete(k) \cup TierMiss(k)
  PROVE  t \in [Keys -> Copy \cup {None}]
BY DEF TypeOK, TierDelete, TierMiss, OrFails

\* What purging leaves, and the values and deadlines a call may bring.
LEMMA AdminFacts ==
  ASSUME AdminInv
  PROVE  /\ Listed(mem) /\ Listed(Purged(mem)) /\ now \in Nat
         /\ \A t \in Args : DeadlineOf(t) \in Deadline
         /\ None \in Deadline
         /\ \A k \in Keys, v \in Val : [key |-> k, val |-> v, live |-> TRUE] \in Node
<1>1. now \in Nat /\ Listed(mem)
  BY DEF AdminInv, TypeOK
<1>2. Listed(Purged(mem))
  BY <1>1, ListedDeleted DEF Purged
<1> QED
  BY <1>1, <1>2, LRUAssumption DEF DeadlineOf, Deadline, Args, Node

\* The writes to one key.
LEMMA AdminWrite ==
  ASSUME AdminInv, NEW k \in Keys, NEW v \in Val, NEW t \in Args,
         Create(k, v, t) \/ Update(k, v, t) \/ MSetItem(k, v, t)
  PROVE  AdminInv'
<1> DEFINE m == Purged(mem)
           n == [key |-> k, val |-> v, live |-> TRUE]
           e == DeadlineOf(t)
<1>1. Listed(mem) /\ Listed(m) /\ now \in Nat /\ e \in Deadline
      /\ n \in Node /\ n.live /\ n.key = k
  BY AdminFacts
<1> HIDE DEF m, n, e
<1>2. Listed(mem')
  <2>1. CASE mem' = m
    BY <1>1, <2>1
  <2>2. CASE k \notin m.map /\ mem' = Inserted(m, k, v, e)
    BY <1>1, <2>2, ListedInserted
  <2>3. CASE mem' = WithTTL(Moved(m, n), k, t)
    BY <1>1, <2>3, ListedMoved, ListedWithTTL
  <2>4. CASE k \notin mem.map /\ mem' = Inserted(mem, k, v, e)
    BY <1>1, <2>4, ListedInserted
  <2>5. CASE mem' = [Moved(mem, n) EXCEPT !.ttl = [@ EXCEPT ![k] = e]]
    BY <1>1, <2>5, ListedMoved, ListedDeadline
  <2> QED
    BY <2>1, <2>2, <2>3, <2>4, <2>5 DEF Create, Update, MSetItem, Raises, m, n, e
<1>3. tier' \in [Keys -> Copy \cup {None}]
  BY TierTypes DEF AdminInv, Create, Update, MSetItem, Raises, TypeOK
<1>4. UNCHANGED <<now>> /\ rest' \subseteq Keys /\ (reply' = None \/ reply' = reply)
  BY DEF Create, Update, MSetItem, Raises, WriteDone, AdminInv, TypeOK
<1>5. \/ UNCHANGED <<pc, cont, node>>
      \/ node' = None /\ pc' \in {"mset", "evict"} /\ cont' = "return"
  BY DEF Create, Update, MSetItem, Raises, WriteDone
<1> QED
  BY <1>2, <1>3, <1>4, <1>5 DEF AdminInv, TypeOK, Listed

LEMMA AdminIncr ==
  ASSUME AdminInv, NEW k \in Keys, NEW t \in Args, Incr(k, t)
  PROVE  AdminInv'
<1> DEFINE m == Purged(mem)
           current == IF k \in m.map THEN NodeOf(m, k).val ELSE 0
           n == [key |-> k, val |-> current + 1, live |-> TRUE]
<1>1. Listed(m) /\ now \in Nat /\ None \in Deadline
  BY AdminFacts
<1>2. tier' \in [Keys -> Copy \cup {None}]
  BY TierTypes DEF AdminInv, Incr
<1>3. CASE /\ current \in Texts
           /\ mem' = m
           /\ reply' = None
           /\ UNCHANGED <<now, pc, cont, node, rest>>
  <2> HIDE DEF m, current
  <2> QED
    BY <1>1, <1>2, <1>3 DEF AdminInv, TypeOK, Listed
<1>4. CASE /\ current \in 0..(MaxNum - 1)
           /\ mem' = WithTTL(IF k \in m.map THEN Moved(m, n)
                             ELSE Inserted(m, k, n.val, None), k, t)
           /\ reply' = [key |-> k, val |-> n.val]
           /\ WriteDone
  <2>1. current + 1 \in Val
    <3> HIDE DEF current
    <3> QED
      BY <1>4, LRUAssumption DEF Val
  <2>2. n \in Node /\ n.live /\ n.key = k /\ n.val \in Val
    <3> HIDE DEF current
    <3> QED
      BY <2>1 DEF Node
  <2> HIDE DEF m, current, n
  <2>3. CASE k \in m.map
    <3>1. Listed(mem')
      BY <1>1, <1>4, <2>2, <2>3, ListedMoved, ListedWithTTL
    <3> QED
      BY <1>2, <1>4, <2>2, <3>1 DEF WriteDone, AdminInv, TypeOK, Listed
  <2>4. CASE k \notin m.map
    <3>1. Listed(Inserted(m, k, n.val, None))
      BY <1>1, <2>2, <2>4, ListedInserted
    <3>2. Listed(mem')
      BY <1>1, <1>4, <2>4, <3>1, ListedWithTTL
    <3> QED
      BY <1>2, <1>4, <2>2, <3>2 DEF WriteDone, AdminInv, TypeOK, Listed
  <2> QED
    BY <2>3, <2>4
<1> QED
  BY <1>3, <1>4 DEF Incr, m

\* The calls, or the starts of calls, that purge, drop a key or clear a deadline.
LEMMA AdminDrop ==
  ASSUME AdminInv,
         \/ \E k \in Keys : Delete(k) \/ Persist(k)
         \/ \E S \in SUBSET Keys : MSetStart(S) \/ ReadStart(S)
         \/ PurgeExpired
  PROVE  AdminInv'
<1> DEFINE m == Purged(mem)
<1>1. Listed(mem) /\ Listed(m) /\ None \in Deadline
  BY AdminFacts
<1> HIDE DEF m
<1>2. Listed(mem')
  <2>1. CASE mem' = m
    BY <1>1, <2>1
  <2>2. ASSUME NEW k \in Keys, mem' = Deleted(mem, {k}) PROVE Listed(mem')
    BY <1>1, <2>2, ListedDeleted
  <2>3. ASSUME NEW k \in Keys, mem' = [m EXCEPT !.ttl = [@ EXCEPT ![k] = None]]
        PROVE  Listed(mem')
    BY <1>1, <2>3, ListedDeadline
  <2> QED
    BY <2>1, <2>2, <2>3
       DEF Delete, Persist, Raises, MSetStart, ReadStart, PurgeExpired, m
<1>3. tier' \in [Keys -> Copy \cup {None}]
  BY TierTypes DEF AdminInv, TypeOK, Delete, Persist, Raises, MSetStart, ReadStart,
                   PurgeExpired
<1>4. UNCHANGED <<now, cont, node>> /\ reply' = None /\ rest' \subseteq Keys
      /\ pc = "idle" /\ pc' \in {"idle", "mset", "read"}
  BY DEF Delete, Persist, Raises, MSetStart, ReadStart, PurgeExpired, AdminInv, TypeOK
<1> QED
  BY <1>2, <1>3, <1>4 DEF AdminInv, TypeOK, Listed

LEMMA AdminPromote ==
  ASSUME AdminInv, NEW k \in Keys, NEW m, Listed(m), k \notin m.map,
         NEW caller \in {"read", "patch"}, Promote(k, caller),
         mem' = Inserted(m, k, tier[k].val, tier[k].exp),
         UNCHANGED now, rest' \subseteq Keys, reply' = None \/ reply' = reply
  PROVE  AdminInv'
<1>1. tier[k] \in Copy /\ tier' \in TierDelete(k)
  BY DEF Promote, TierFresh, AdminInv, TypeOK
<1>2. tier[k].val \in Val /\ tier[k].exp \in Deadline
  BY <1>1 DEF Copy, Deadline
<1>3. Listed(mem')
  BY <1>2, ListedInserted
<1>4. tier' \in [Keys -> Copy \cup {None}]
  BY <1>1, TierTypes DEF AdminInv
<1>5. node' \in Node /\ node'.live /\ pc' = "evict" /\ cont' = caller
  BY <1>2 DEF Promote, Node
<1> QED
  BY <1>3, <1>4, <1>5 DEF AdminInv, TypeOK, Listed

LEMMA AdminRead ==
  ASSUME AdminInv, NEW k \in Keys, ReadHit(k) \/ ReadMiss(k) \/ ReadPromote(k)
  PROVE  AdminInv'
<1>1. Listed(mem)
  BY AdminFacts
<1>2. CASE ReadHit(k)
  <2> DEFINE n == NodeOf(mem, k)
  <2>1. n \in Node /\ n.live
    BY <1>1, <1>2, ListedNode DEF ReadHit
  <2>2. mem' = Moved(mem, n) /\ reply' = [key |-> k, val |-> n.val]
    BY <1>2 DEF ReadHit, ReadReturns
  <2> HIDE DEF n
  <2>3. Listed(mem') /\ n.val \in Val
    BY <1>1, <2>1, <2>2, ListedMoved DEF Node
  <2> QED
    BY <1>2, <2>2, <2>3 DEF ReadHit, ReadReturns, AdminInv, TypeOK, Listed
<1>3. CASE ReadMiss(k)
  <2>1. tier' \in [Keys -> Copy \cup {None}]
    BY <1>3, TierTypes DEF AdminInv, ReadMiss
  <2>2. UNCHANGED <<mem, now, cont, node>> /\ pc' \in {"idle", "read"}
        /\ reply' = [key |-> k, val |-> None] /\ rest' \subseteq Keys
    BY <1>3 DEF ReadMiss, ReadReturns, AdminInv, TypeOK
  <2> QED
    BY <2>1, <2>2 DEF AdminInv, TypeOK, Listed
<1>4. CASE ReadPromote(k)
  <2>1. rest' \subseteq Keys
    BY <1>4 DEF ReadPromote, AdminInv, TypeOK
  <2> QED
    BY <1>1, <1>4, <2>1, AdminPromote DEF ReadPromote
<1> QED
  BY <1>2, <1>3, <1>4

LEMMA AdminPatch ==
  ASSUME AdminInv,
         \/ \E k \in Keys : PatchStart(k)
         \/ \E v \in Val, t \in Args : PatchApply(v, t)
         \/ PatchFails
  PROVE  AdminInv'
<1> DEFINE m == Purged(mem)
<1>1. Listed(mem) /\ Listed(m) /\ now \in Nat
  BY AdminFacts
<1>2. ASSUME NEW k \in Keys, PatchStart(k) PROVE AdminInv'
  <2> HIDE DEF m
  <2>1. UNCHANGED <<now, rest>> /\ reply' = None /\ pc = "idle"
    BY <1>2 DEF PatchStart
  <2>2. CASE /\ k \in m.map
             /\ mem' = m
             /\ node' = NodeOf(m, k)
             /\ pc' = "patch"
             /\ UNCHANGED <<tier, cont>>
    <3>1. node' \in Node /\ node'.live
      BY <1>1, <2>2, ListedNode
    <3> QED
      BY <1>1, <2>1, <2>2, <3>1 DEF AdminInv, TypeOK, Listed
  <2>3. CASE /\ k \notin m.map
             /\ Promote(k, "patch")
             /\ mem' = Inserted(m, k, tier[k].val, tier[k].exp)
    <3>1. rest' \subseteq Keys
      BY <2>1 DEF AdminInv, TypeOK
    <3> QED
      BY <1>1, <2>1, <2>3, <3>1, AdminPromote
  <2>4. CASE mem' = m /\ tier' \in TierMiss(k) /\ UNCHANGED <<pc, cont, node>>
    <3>1. tier' \in [Keys -> Copy \cup {None}]
      BY <2>4, TierTypes DEF AdminInv
    <3> QED
      BY <1>1, <2>1, <2>4, <3>1 DEF AdminInv, TypeOK, Listed
  <2> QED
    BY <1>2, <2>2, <2>3, <2>4 DEF PatchStart, m
<1>3. ASSUME NEW v \in Val, NEW t \in Args, PatchApply(v, t) PROVE AdminInv'
  <2> DEFINE n == [node EXCEPT !.val = v]
             k == node.key
  <2>1. node \in Node /\ node.live /\ k \in Keys
    BY <1>3 DEF PatchApply, AdminInv, Node
  <2>2. n \in Node /\ n.live
    BY <2>1 DEF Node
  <2>3. /\ mem' = WithTTL(Moved(mem, n), k, t)
        /\ tier' \in TierDelete(k)
        /\ reply' = [key |-> k, val |-> v]
        /\ WriteDone
    BY <1>3 DEF PatchApply
  <2> HIDE DEF n, k
  <2>4. Listed(mem')
    BY <1>1, <2>1, <2>2, <2>3, ListedMoved, ListedWithTTL
  <2>5. tier' \in [Keys -> Copy \cup {None}]
    BY <2>1, <2>3, TierTypes DEF AdminInv
  <2> QED
    BY <2>1, <2>3, <2>4, <2>5 DEF WriteDone, AdminInv, TypeOK, Listed
<1>4. CASE PatchFails
  <2>1. node.key \in Keys
    BY <1>4 DEF PatchFails, AdminInv, Node
  <2>2. tier' \in [Keys -> Copy \cup {None}]
    BY <1>4, <2>1, TierTypes DEF PatchFails, AdminInv
  <2> QED
    BY <1>4, <2>2 DEF PatchFails, AdminInv, TypeOK
<1> QED
  BY <1>2, <1>3, <1>4

LEMMA AdminEvict ==
  ASSUME AdminInv, Evicting
  PROVE  AdminInv'
<1>1. Listed(mem)
  BY AdminFacts
<1>2. CASE EvictOne
  <2>1. PICK i \in Candidates(mem) :
          /\ tier' \in TierPut(mem.order[i], mem.ttl[mem.order[i].key])
          /\ mem' = Deleted(mem, {mem.order[i].key})
    BY <1>2 DEF EvictOne
  <2> DEFINE victim == mem.order[i]
  <2>2. /\ mem.order \in Seq(Node) /\ i \in DOMAIN mem.order
        /\ mem.ttl \in [Keys -> Deadline] /\ tier \in [Keys -> Copy \cup {None}]
    BY <1>1 DEF Listed, Mem, Candidates, AdminInv, TypeOK
  <2>3. victim \in Node
    BY <2>2, ElementOfSeq, LenProperties
  <2>4. Listed(mem')
    BY <1>1, <2>1, ListedDeleted
  <2>5. tier' \in [Keys -> Copy \cup {None}]
    <3>1. [val |-> victim.val, exp |-> mem.ttl[victim.key]] \in Copy
      BY <2>2, <2>3 DEF Copy, Deadline, Node
    <3> HIDE DEF victim
    <3> QED
      BY <2>1, <2>2, <3>1 DEF TierPut, OrFails, victim
  <2> QED
    BY <1>2, <2>4, <2>5 DEF EvictOne, AdminInv, TypeOK, Listed
<1>3. CASE WriteReturns
  BY <1>3 DEF WriteReturns, AdminInv, TypeOK
<1>4. CASE ReadPromoted
  <2>1. node \in Node /\ node.live
    BY <1>4 DEF ReadPromoted, EvictEnds, AdminInv
  <2>2. Listed(mem')
    BY <1>1, <1>4, <2>1, ListedMoved DEF ReadPromoted
  <2>3. node.key \in Keys /\ node.val \in Val
    BY <2>1 DEF Node
  <2> QED
    BY <1>4, <2>2, <2>3 DEF ReadPromoted, ReadReturns, AdminInv, TypeOK, Listed
<1>5. CASE PatchPromoted
  BY <1>5 DEF PatchPromoted, EvictEnds, AdminInv, TypeOK
<1> QED
  BY <1>2, <1>3, <1>4, <1>5 DEF Evicting

LEMMA AdminReload ==
  ASSUME AdminInv,
         \/ \E S \in SUBSET Keys : FlushAll(S)
         \/ \E ks \in Dumps, v \in Val, t \in Args : LoadState(ks, v, t)
  PROVE  AdminInv'
<1>1. Listed(mem)
  BY AdminFacts
<1>2. ASSUME NEW S \in SUBSET Keys, FlushAll(S) PROVE AdminInv'
  <2>1. Listed(mem')
    BY <1>1, <1>2, ListedAbandoned DEF FlushAll
  <2> QED
    BY <1>2, <2>1 DEF FlushAll, AdminInv, TypeOK, Listed
<1>3. ASSUME NEW ks \in Dumps, NEW v \in Val, NEW t \in Args, LoadState(ks, v, t)
      PROVE  AdminInv'
  <2> DEFINE e == DeadlineOf(t)
             m0 == Abandoned(mem, Keys)
             m1 == IF Len(ks) > 0 THEN Inserted(m0, ks[1], v, e) ELSE m0
  <2>1. e \in Deadline
    BY AdminFacts
  <2>2. Listed(m0) /\ m0.map = mem.map \ Keys
    BY <1>1, ListedAbandoned
  <2>3. m0.map = {}
    BY <1>1, <2>2 DEF Listed, Mem
  <2>4. /\ Len(ks) \in 0..2
        /\ Len(ks) > 0 => ks[1] \in Keys
        /\ Len(ks) > 1 => ks[2] \in Keys /\ ks[1] # ks[2]
    BY DEF Dumps
  <2>5. mem' = IF Len(ks) > 1 THEN Inserted(m1, ks[2], v, e) ELSE m1
    BY <1>3 DEF LoadState
  <2> HIDE DEF e, m0
  <2>6. Listed(m1) /\ m1.map = (IF Len(ks) > 0 THEN {ks[1]} ELSE {})
    <3>1. CASE Len(ks) > 0
      <4>1. ks[1] \in Keys /\ ks[1] \notin m0.map
        BY <2>3, <2>4, <3>1
      <4>2. Listed(Inserted(m0, ks[1], v, e))
            /\ Inserted(m0, ks[1], v, e).map = m0.map \cup {ks[1]}
        BY <2>1, <2>2, <4>1, ListedInserted
      <4> QED
        BY <2>3, <3>1, <4>2
    <3>2. CASE ~(Len(ks) > 0)
      BY <2>2, <2>3, <3>2
    <3> QED
      BY <3>1, <3>2
  <2> HIDE DEF m1
  <2>7. Listed(mem')
    BY <2>1, <2>4, <2>5, <2>6, ListedInserted
  <2> QED
    BY <1>3, <2>7 DEF LoadState, AdminInv, TypeOK, Listed
<1> QED
  BY <1>2, <1>3

LEMMA AdminStep ==
  ASSUME AdminInv, [AdminNext]_vars
  PROVE  AdminInv'
<1>1. CASE Tick \/ UNCHANGED vars
  BY <1>1 DEF Tick, vars, AdminInv, TypeOK, Listed
<1>2. ASSUME NEW k \in Keys, KeyOps(k) PROVE AdminInv'
  <2>1. ASSUME NEW v \in Val, NEW t \in Args,
               Create(k, v, t) \/ Update(k, v, t) \/ MSetItem(k, v, t)
        PROVE  AdminInv'
    BY <2>1, AdminWrite
  <2>2. ASSUME NEW t \in Args, Incr(k, t) PROVE AdminInv'
    BY <2>2, AdminIncr
  <2>3. CASE Delete(k) \/ Persist(k)
    BY <2>3, AdminDrop
  <2>4. CASE PatchStart(k)
    BY <2>4, AdminPatch
  <2>5. CASE ReadHit(k) \/ ReadMiss(k) \/ ReadPromote(k)
    BY <2>5, AdminRead
  <2> QED
    BY <1>2, <2>1, <2>2, <2>3, <2>4, <2>5 DEF KeyOps
<1>3. CASE PurgeExpired \/ \E S \in SUBSET Keys : MSetStart(S) \/ ReadStart(S)
  BY <1>3, AdminDrop
<1>4. CASE PatchFails \/ \E v \in Val, t \in Args : PatchApply(v, t)
  BY <1>4, AdminPatch
<1>5. CASE Evicting
  BY <1>5, AdminEvict
<1>6. CASE \/ \E S \in SUBSET Keys : FlushAll(S)
           \/ \E ks \in Dumps, v \in Val, t \in Args : LoadState(ks, v, t)
  BY <1>6, AdminReload
<1> QED
  BY <1>1, <1>2, <1>3, <1>4, <1>5, <1>6 DEF AdminNext, Next

\* Whatever calls come, the administrative ones among them, with hints and a failing
\* tier in any combination: each resident key has exactly one live node in the list,
\* no live node is without its key, and the scan index is the map.
THEOREM ResidentNodes == AdminSpec => []ResidentKeysListed
<1>1. Init => AdminInv
  <2> SUFFICES ASSUME Init PROVE AdminInv
    OBVIOUS
  <2>1. mem \in Mem /\ Listed(mem)
    BY DEF Init, Mem, Listed, Deadline
  <2> QED
    BY <2>1 DEF Init, AdminInv, TypeOK
<1>2. AdminInv /\ [AdminNext]_vars => AdminInv'
  BY AdminStep
<1>3. AdminInv => ResidentKeysListed
  BY ListedNode DEF AdminInv, Listed, ResidentKeysListed
<1> QED
  BY <1>1, <1>2, <1>3, PTL DEF AdminSpec
=============================================================================
