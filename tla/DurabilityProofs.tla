-------------------------- MODULE DurabilityProofs --------------------------
(***************************************************************************)
(* Theorems about Durability, for any keys, requests and bounds.           *)
(*                                                                         *)
(* What the lines of the log make of a key is not computed but exhibited:  *)
(* a trace of the key is a function T that gives its item before the first *)
(* line, T[0], and after each line i, T[i].                                *)
(***************************************************************************)
EXTENDS Durability, WellFoundedInduction, TLAPS

-----------------------------------------------------------------------------
(* The inductive invariant. *)

\* The keys that RecoveryIsExact and SnapshotIsCut are about.
Clean(k) ==
  leaks[k] \subseteq {"lsn"} \cup (IF snap = None \/ crashes = 0 THEN {"incr"} ELSE {})

\* The line is one about k that recovery can read.
On(l, k) == l.key = k /\ l.op \notin Unread

\* The item of k that a snapshot's entry x is loaded as, if it has no deadline, and
\* the one that recovery starts from.
Loaded(x) == IF x = None THEN None ELSE [val |-> x.val, exp |-> x.left]
Base(k) == IF snap = None THEN None ELSE Loaded(snap.data[k])

Permanent == [val: Nat, exp: {None}] \cup {None}

\* What a request or line without a deadline makes of a permanent item.
Lasting(x, e) ==
  CASE e.op \in {"create", "mset"} -> [val |-> e.val, exp |-> None]
    [] e.op = "update" -> IF x = None THEN None ELSE [val |-> e.val, exp |-> None]
    [] e.op = "incr" -> [val |-> IF x = None THEN e.val ELSE x.val + e.val,
                         exp |-> None]
    [] e.op = "delete" -> None
    [] e.op \in {"persist"} \cup Unread -> x

\* No line of k has a deadline, none counts up unless that is a known leak.
LinesFit(k) ==
  \A i \in 1..Len(wal) : On(wal[i], k) =>
    wal[i].ttl = None /\ (wal[i].op = "incr" => "incr" \in leaks[k])

\* T follows the lines of k to what is committed, and no line of k is an update of
\* nothing.
Trace(k, T) ==
  /\ \A i \in 1..Len(wal) :
       /\ T[i] = IF On(wal[i], k) THEN Lasting(T[i - 1], wal[i]) ELSE T[i - 1]
       /\ On(wal[i], k) /\ wal[i].op = "update" => T[i - 1] # None
  /\ T[Len(wal)] = committed[k]

\* The snapshot has k as it was after line c, and a replay has brought k to where
\* the lines read so far lead, unless it has left k where the snapshot had it.
Loads(k, T) ==
  \E c \in 0..Len(wal) :
    /\ Base(k) = T[c]
    /\ snap = None => c = 0
    /\ phase = "replay" =>
         mem[k] = T[pos - 1] \/ (pos - 1 < c /\ mem[k] = T[c])

\* So has the snapshot about to be written.
Dumps(k, T) ==
  spc = "dumped" => \E c \in 0..Len(wal) : Loaded(image.data[k]) = T[c]

Traced(k) ==
  \E T \in [0..Len(wal) -> Permanent] : Trace(k, T) /\ Loads(k, T) /\ Dumps(k, T)

\* The item in memory is the committed one, except during a write.
MemFits(k) ==
  phase = "up" =>
    IF wpc = "logging" /\ req.key = k
    THEN req.ttl = None => /\ mem[k] = Lasting(committed[k], req)
                           /\ req.op = "update" => committed[k] # None
    ELSE mem[k] = committed[k]

\* A key not written since the dump is in the snapshot as it is committed.
SinceFits(k) ==
  k \notin since =>
    /\ spc = "dumped" => Loaded(image.data[k]) = committed[k]
    /\ spc \in {"replaced", "closed"} => Base(k) = committed[k]

\* Where the processes stand, and what bounds the LSNs.
Discipline ==
  /\ phase # "up" => spc = "idle" /\ wpc = "idle" /\ crashes # 0
  /\ wpc = "logging" => req \in Request
  /\ spc = "dumped" => image \in Image
  /\ spc \in {"replaced", "closed"} => snap # None
  /\ phase = "replay" => pos \in 1..Len(wal) + 1
  /\ lsn <= MaxLsn
  /\ \A i \in 1..Len(wal) : wal[i].lsn <= MaxLsn
  /\ image # None => image.lsn <= MaxLsn
  /\ snap # None => snap.lsn <= MaxLsn

Accounted(k) == LinesFit(k) /\ Traced(k) /\ MemFits(k) /\ SinceFits(k)

IInv ==
  /\ TypeOK
  /\ Discipline
  /\ \A k \in Keys : Clean(k) => Accounted(k)

-----------------------------------------------------------------------------
(* What a line does to an item. *)

LEMMA Operations ==
  \A e \in Request \cup Line :
    /\ e.op \in {"create", "update", "mset", "incr", "delete", "persist", "torn", "spoilt"}
    /\ e.key \in Keys /\ e.val \in Nat /\ e.ttl \in Args
BY DurabilityAssumption DEF Request, Line, Val, Args

LEMMA Deadlines ==
  ASSUME now \in Nat, NEW t \in Args
  PROVE  DeadlineOf(t) \in Nat \cup {None} /\ (t # None => now + t \in Nat)
         /\ (t = None => DeadlineOf(t) = None)
BY DurabilityAssumption DEF DeadlineOf, Args

LEMMA AfterType ==
  ASSUME now \in Nat, NEW x \in Item \cup {None}, NEW e \in Request \cup Line
  PROVE  After(x, e) \in Item \cup {None}
<1>1. Fresh(e) \in Item
  BY Operations, Deadlines DEF Fresh, Item
<1>2. ASSUME x # None, NEW v \in Nat
      PROVE  Changed(x, v, e.ttl) \in Item
  BY <1>2, Operations, Deadlines DEF Changed, Item
<1>3. x # None => x.val + e.val \in Nat /\ [x EXCEPT !.exp = None] \in Item
  BY Operations DEF Item
<1> QED
  BY <1>1, <1>2, <1>3, Operations DEF After, Unread

LEMMA PermanentItems == Permanent \subseteq Item \cup {None}
BY DEF Permanent, Item

LEMMA AfterLasting ==
  ASSUME NEW x \in Permanent, NEW e \in Request \cup Line, e.ttl = None
  PROVE  After(x, e) = Lasting(x, e) /\ Lasting(x, e) \in Permanent
<1>1. Fresh(e) = [val |-> e.val, exp |-> None]
  BY DEF Fresh, DeadlineOf
<1>2. ASSUME x # None, NEW v \in Nat
      PROVE  Changed(x, v, e.ttl) = [val |-> v, exp |-> None]
  BY <1>2 DEF Changed, Permanent
<1>3. x # None => x.val + e.val \in Nat /\ [x EXCEPT !.exp = None] = x
  BY Operations DEF Permanent
<1>4. \A v \in Nat : [val |-> v, exp |-> None] \in Permanent
  BY DEF Permanent
<1>5. After(x, e) = Lasting(x, e)
  BY <1>1, <1>2, <1>3, Operations DEF After, Lasting, Unread
<1>6. Lasting(x, e) \in Permanent
  <2>1. e.op = "incr" =>
          Lasting(x, e) = [val |-> IF x = None THEN e.val ELSE x.val + e.val,
                           exp |-> None]
    BY DEF Lasting, Unread
  <2>2. e.op = "incr" => Lasting(x, e) \in Permanent
    BY <1>3, <1>4, <2>1, Operations
  <2>3. e.op # "incr" => Lasting(x, e) \in {x, None, [val |-> e.val, exp |-> None]}
    BY Operations DEF Lasting, Unread
  <2> QED
    BY <1>4, <2>2, <2>3, Operations DEF Permanent
<1> QED
  BY <1>5, <1>6

\* A permanent item is not purged.
LEMMA PurgedItem ==
  ASSUME NEW m \in [Keys -> Item \cup {None}], NEW k \in Keys
  PROVE  /\ Purged(m) \in [Keys -> Item \cup {None}]
         /\ m[k] \in Permanent => Purged(m)[k] = m[k]
BY DEF Purged, Permanent

LEMMA AppliedItem ==
  ASSUME NEW m \in [Keys -> Item \cup {None}], now \in Nat, NEW e \in Request \cup Line
  PROVE  /\ Applied(m, e) \in [Keys -> Item \cup {None}]
         /\ \A k \in Keys : m[k] \in Permanent =>
              /\ k # e.key => Applied(m, e)[k] = m[k]
              /\ k = e.key => Applied(m, e)[k] = After(m[k], e)
              /\ k = e.key /\ e.op \in Unread => Applied(m, e)[k] = m[k]
<1>1. Purged(m) \in [Keys -> Item \cup {None}]
  BY DEF Purged
<1>2. e.key \in Keys
  BY Operations
<1>3. After(Purged(m)[e.key], e) \in Item \cup {None}
  BY <1>1, <1>2, AfterType
<1>4. ASSUME NEW k \in Keys, m[k] \in Permanent
      PROVE  Purged(m)[k] = m[k]
  BY <1>4, PurgedItem
<1>5. ASSUME e.op \in Unread PROVE \A x : After(x, e) = x
  BY <1>5 DEF After, Unread
<1> QED
  BY <1>1, <1>2, <1>3, <1>4, <1>5 DEF Applied

-----------------------------------------------------------------------------
(* The largest LSN. *)

LEMMA LeastOfSome ==
  ASSUME NEW S \in SUBSET Nat, S # {}
  PROVE  \E s \in S : \A t \in S : s <= t
<1>1. PICK x \in S : \A y \in S : ~(<<y, x>> \in OpToRel(<, Nat))
  BY NatLessThanWellFounded, WFMin
<1>2. ASSUME NEW t \in S PROVE x <= t
  <2>1. ~(t < x)
    BY <1>1 DEF OpToRel
  <2> QED
    BY <2>1
<1> QED
  BY <1>2

LEMMA MaxOfSome ==
  ASSUME NEW S, NEW m \in Nat, S \subseteq 0..m, S # {}
  PROVE  Max(S) \in 0..m /\ \A t \in S : t <= Max(S)
<1>1. \E s \in S : \A t \in S : s >= t
  <2> DEFINE T == {m - s : s \in S}
  <2>0. \A s \in S : s \in Nat /\ m - s \in Nat
    OBVIOUS
  <2>1. T \subseteq Nat /\ T # {}
    BY <2>0
  <2>2. PICK x \in T : \A y \in T : x <= y
    BY <2>1, LeastOfSome
  <2>3. PICK s \in S : x = m - s
    OBVIOUS
  <2>4. ASSUME NEW t \in S PROVE s >= t
    <3>1. s \in Nat /\ t \in Nat /\ m - s <= m - t
      BY <2>0, <2>2, <2>3
    <3> QED
      BY <3>1
  <2> QED
    BY <2>4
<1> QED
  BY <1>1 DEF Max

LEMMA TopLsnIsTop ==
  ASSUME wal \in Seq(Line), \A i \in 1..Len(wal) : wal[i].lsn <= MaxLsn
  PROVE  /\ TopLsn \in 0..MaxLsn
         /\ \A i \in 1..Len(wal) : wal[i].op \notin Unread => wal[i].lsn <= TopLsn
<1> DEFINE read == {wal[i].lsn : i \in {j \in DOMAIN wal : wal[j].op \notin Unread}}
<1>1. \A i \in DOMAIN wal : wal[i] \in Line /\ i \in 1..Len(wal)
  OBVIOUS
<1>2. MaxLsn \in Nat
  BY DurabilityAssumption
<1>3. read \subseteq 0..MaxLsn
  BY <1>1, <1>2 DEF Line
<1>4. TopLsn = IF read = {} THEN 0 ELSE Max(read)
  BY DEF TopLsn
<1>7. \A i \in 1..Len(wal) : wal[i].op \notin Unread => wal[i].lsn \in read
  BY <1>1
<1> HIDE DEF read
<1>5. CASE read = {}
  BY <1>2, <1>4, <1>5, <1>7
<1>6. CASE read # {}
  <2>1. Max(read) \in 0..MaxLsn /\ \A t \in read : t <= Max(read)
    BY <1>2, <1>3, <1>6, MaxOfSome
  <2> QED
    BY <1>4, <1>6, <1>7, <2>1
<1> QED
  BY <1>5, <1>6

-----------------------------------------------------------------------------
(* One key, one step. *)

\* The definitions that hold no action of their own.
LEMMA Fits ==
  ASSUME IInv, NEW k \in Keys, Clean(k)
  PROVE  /\ LinesFit(k) /\ Traced(k) /\ MemFits(k) /\ SinceFits(k)
         /\ wal \in Seq(Line) /\ mem \in [Keys -> Item \cup {None}] /\ now \in Nat
         /\ committed[k] \in Permanent
<1>1. LinesFit(k) /\ Traced(k) /\ MemFits(k) /\ SinceFits(k)
  BY DEF IInv, Accounted
<1>2. wal \in Seq(Line) /\ mem \in [Keys -> Item \cup {None}] /\ now \in Nat
  BY DEF IInv, TypeOK
<1>3. PICK T \in [0..Len(wal) -> Permanent] : Trace(k, T)
  BY <1>1 DEF Traced
<1>4. Len(wal) \in 0..Len(wal)
  BY <1>2
<1>5. committed[k] \in Permanent
  BY <1>3, <1>4 DEF Trace
<1> QED
  BY <1>1, <1>2, <1>5

\* A key is not forgiven.
LEMMA CleanBefore ==
  ASSUME NEW k \in Keys, Clean(k)', leaks[k] \subseteq leaks'[k],
         snap' = None => snap = None, crashes' = 0 => crashes = 0
  PROVE  Clean(k)
BY DEF Clean

\* A step that changes neither the log nor what is committed, snapshots aside.
LEMMA SameTrace ==
  ASSUME NEW k \in Keys, NEW T, wal' = wal, committed'[k] = committed[k], Trace(k, T)
  PROVE  Trace(k, T)'
BY DEF Trace, On, Lasting

LEMMA SameLines ==
  ASSUME NEW k \in Keys, wal' = wal, leaks[k] \subseteq leaks'[k], LinesFit(k)
  PROVE  LinesFit(k)'
BY DEF LinesFit, On

\* A step of the process between two recoveries that leaves the files, the dump and
\* what is committed alone.
LEMMA SameFiles ==
  ASSUME IInv, NEW k \in Keys, Clean(k), disk' = disk, image' = image,
         spc' = "dumped" => spc = "dumped",
         phase' # "replay", committed'[k] = committed[k], leaks[k] \subseteq leaks'[k]
  PROVE  LinesFit(k)' /\ Traced(k)'
<1>1. wal' = wal /\ snap' = snap
  BY DEF disk
<1>2. LinesFit(k)'
  BY <1>1, Fits, SameLines
<1>3. PICK T \in [0..Len(wal) -> Permanent] : Trace(k, T) /\ Loads(k, T) /\ Dumps(k, T)
  BY Fits DEF Traced
<1>4. Trace(k, T)'
  BY <1>1, <1>3, SameTrace
<1>5. Loads(k, T)'
  BY <1>1, <1>3 DEF Loads, Base
<1>6. Dumps(k, T)'
  BY <1>1, <1>3 DEF Dumps
<1> QED
  BY <1>1, <1>2, <1>3, <1>4, <1>5, <1>6 DEF Traced

LEMMA TickKeeps ==
  ASSUME IInv, NEW k \in Keys, Clean(k)', Tick
  PROVE  Accounted(k)'
<1>1. UNCHANGED <<phase, mem, wpc, req, pos, spc, image, wal, snap, crashes, committed,
                  since, leaks>>
  BY DEF Tick, memory, snapper, disk, bounds, history
<1>2. Clean(k)
  BY <1>1 DEF Clean
<1>3. LinesFit(k)' /\ MemFits(k)' /\ SinceFits(k)'
  BY <1>1, <1>2, Fits DEF LinesFit, On, MemFits, Lasting, SinceFits, Base
<1>4. PICK T \in [0..Len(wal) -> Permanent] : Trace(k, T) /\ Loads(k, T) /\ Dumps(k, T)
  BY <1>2, Fits DEF Traced
<1>5. Trace(k, T)' /\ Loads(k, T)' /\ Dumps(k, T)'
  BY <1>1, <1>4, SameTrace DEF Loads, Dumps, Base
<1> QED
  BY <1>1, <1>3, <1>4, <1>5 DEF Traced, Accounted

\* A write, up to the test for a file.
LEMMA WriteKeeps ==
  ASSUME IInv, NEW k \in Keys, Clean(k)', NEW e \in Requests, Write(e)
  PROVE  Accounted(k)'
<1>0. /\ phase = "up" /\ phase' = "up" /\ wpc = "idle"
      /\ mem' = Applied(mem, e) /\ Accepts(Purged(mem)[e.key], e)
      /\ disk' = disk /\ spc' = spc /\ image' = image /\ wal' = wal /\ snap' = snap
      /\ crashes' = crashes
  BY DEF Write, process, snapper, disk, bounds
<1>1. e \in Request /\ e.key \in Keys
  BY DurabilityAssumption, Operations
<1>2. CASE file = "none" /\ Returns(e, mem'[e.key], FALSE)
  <2>0. leaks' \in [Keys -> SUBSET {"ttl", "incr", "lost", "lsn"}]
        /\ leaks[k] \subseteq leaks'[k] /\ (k = e.key => "lost" \in leaks'[k])
        /\ wpc' = "idle" /\ (k # e.key => committed'[k] = committed[k])
        /\ since' = IF spc = "idle" THEN {} ELSE since \cup {e.key}
    BY <1>1, <1>2 DEF Returns, IInv, TypeOK
  <2>1. k # e.key /\ Clean(k)
    BY <1>0, <2>0, CleanBefore DEF Clean
  <2>2. mem'[k] = mem[k] /\ mem[k] = committed[k]
    BY <1>0, <1>1, <2>1, Fits, AppliedItem DEF MemFits
  <2>3. LinesFit(k)' /\ Traced(k)'
    BY <1>0, <2>0, <2>1, SameFiles
  <2>4. MemFits(k)'
    BY <2>0, <2>1, <2>2 DEF MemFits
  <2>5. SinceFits(k)'
    BY <1>0, <2>0, <2>1, Fits DEF SinceFits, Base
  <2> QED
    BY <2>3, <2>4, <2>5 DEF Accounted
<1>3. CASE wpc' = "logging" /\ req' = e /\ UNCHANGED history
  <2>0. UNCHANGED <<committed, since, leaks>>
    BY <1>3 DEF history
  <2>1. Clean(k)
    BY <1>0, <2>0 DEF Clean
  <2>2. mem[k] = committed[k] /\ mem[k] \in Permanent /\ Purged(mem)[k] = mem[k]
    BY <1>0, <2>1, Fits, PurgedItem DEF MemFits
  <2>3. LinesFit(k)' /\ Traced(k)'
    BY <1>0, <2>0, <2>1, SameFiles
  <2>4. SinceFits(k)'
    BY <1>0, <2>0, <2>1, Fits DEF SinceFits, Base
  <2>5. CASE k = e.key
    <3>1. e.op = "update" => committed[k] # None
      BY <1>0, <2>2, <2>5 DEF Accepts
    <3>2. e.ttl = None => mem'[k] = Lasting(committed[k], e)
      BY <1>0, <1>1, <2>1, <2>2, <2>5, Fits, AppliedItem, AfterLasting
    <3>3. MemFits(k)'
      BY <1>3, <2>0, <2>5, <3>1, <3>2 DEF MemFits, Lasting
    <3> QED
      BY <2>3, <2>4, <3>3 DEF Accounted
  <2>6. CASE k # e.key
    <3>1. mem'[k] = mem[k]
      BY <1>0, <1>1, <2>1, <2>2, <2>6, Fits, AppliedItem
    <3>2. MemFits(k)'
      BY <1>3, <2>0, <2>2, <2>6, <3>1 DEF MemFits
    <3> QED
      BY <2>3, <2>4, <3>2 DEF Accounted
  <2> QED
    BY <2>5, <2>6
<1> QED
  BY <1>2, <1>3 DEF Write

\* A line is appended.
LEMMA AppendFits ==
  ASSUME NEW k \in Keys, wal \in Seq(Line), NEW l \in Line, wal' = Append(wal, l),
         LinesFit(k), leaks[k] \subseteq leaks'[k],
         On(l, k) => l.ttl = None /\ (l.op = "incr" => "incr" \in leaks'[k])
  PROVE  LinesFit(k)'
<1>1. Len(wal) \in Nat /\ Len(wal') = Len(wal) + 1 /\ wal'[Len(wal) + 1] = l
      /\ \A i \in 1..Len(wal) : wal'[i] = wal[i]
  OBVIOUS
<1>2. ASSUME NEW i \in 1..Len(wal') PROVE i \in 1..Len(wal) \/ i = Len(wal) + 1
  BY <1>1
<1>3. ASSUME NEW i \in 1..Len(wal'), On(wal'[i], k)
      PROVE  wal'[i].ttl = None /\ (wal'[i].op = "incr" => "incr" \in leaks'[k])
  <2>1. CASE i \in 1..Len(wal)
    BY <1>1, <1>3, <2>1 DEF LinesFit
  <2>2. CASE wal'[i] = l
    BY <1>3, <2>2
  <2> QED
    BY <1>1, <1>2, <2>1, <2>2
<1> QED
  BY <1>3 DEF LinesFit, On

\* So a trace goes on.
LEMMA TraceGoesOn ==
  ASSUME NEW k \in Keys, wal \in Seq(Line), NEW l \in Line, wal' = Append(wal, l),
         NEW T \in [0..Len(wal) -> Permanent], Trace(k, T),
         On(l, k) => l.ttl = None /\ (l.op = "update" => committed[k] # None),
         On(l, k) => committed'[k] = Lasting(committed[k], l),
         ~On(l, k) => committed'[k] = committed[k]
  PROVE  \E U \in [0..Len(wal') -> Permanent] :
           Trace(k, U)' /\ \A i \in 0..Len(wal) : i \in 0..Len(wal') /\ U[i] = T[i]
<1> DEFINE n == Len(wal)
<1>1. n \in Nat /\ Len(wal') = n + 1 /\ wal'[n + 1] = l
      /\ \A i \in 1..n : wal'[i] = wal[i]
  OBVIOUS
<1>0. committed[k] \in Permanent
  BY <1>1 DEF Trace
<1>2. committed'[k] \in Permanent
  BY <1>0, AfterLasting
<1>u. PICK U : U = [i \in 0..n + 1 |-> IF i = n + 1 THEN committed'[k] ELSE T[i]]
  OBVIOUS
<1>4. U \in [0..Len(wal') -> Permanent]
  BY <1>1, <1>2, <1>u
<1>5. U[n + 1] = committed'[k] /\ (\A i \in 0..n : U[i] = T[i]) /\ U[n] = committed[k]
  BY <1>1, <1>u DEF Trace
<1>6. \A i \in 1..n : i - 1 \in 0..n /\ i \in 0..n
  BY <1>1
<1>10. \A i \in 0..n : i \in 0..Len(wal') /\ U[i] = T[i]
  BY <1>1, <1>5
<1> HIDE DEF n
<1>7. ASSUME NEW i \in 1..n
      PROVE  /\ U[i] = IF On(wal'[i], k) THEN Lasting(U[i - 1], wal'[i]) ELSE U[i - 1]
             /\ On(wal'[i], k) /\ wal'[i].op = "update" => U[i - 1] # None
  BY <1>1, <1>5, <1>6 DEF Trace, n
<1>8. /\ U[n + 1] = IF On(wal'[n + 1], k) THEN Lasting(U[n], wal'[n + 1]) ELSE U[n]
      /\ On(wal'[n + 1], k) /\ wal'[n + 1].op = "update" => U[n] # None
  BY <1>1, <1>5
<1>9. Trace(k, U)'
  <2>2. ASSUME NEW i \in 1..n + 1
        PROVE  /\ U[i] = IF On(wal'[i], k) THEN Lasting(U[i - 1], wal'[i]) ELSE U[i - 1]
               /\ On(wal'[i], k) /\ wal'[i].op = "update" => U[i - 1] # None
    <3>1. CASE i \in 1..n
      BY <1>7, <3>1
    <3>2. CASE i = n + 1
      <4>1. i - 1 = n
        BY <1>1, <3>2
      <4>2. U[i] = U[n + 1] /\ wal'[i] = wal'[n + 1] /\ U[i - 1] = U[n]
        BY <3>2, <4>1
      <4> QED
        BY <1>8, <4>2 DEF On
    <3> QED
      BY <1>1, <3>1, <3>2
  <2> QED
    BY <1>1, <1>5, <2>2 DEF Trace, On, Lasting
<1> QED
  BY <1>4, <1>9, <1>10 DEF n

LEMMA AppendTraced ==
  ASSUME IInv, NEW k \in Keys, Clean(k), NEW l \in Line, wal' = Append(wal, l),
         snap' = snap, spc' = "dumped" => spc = "dumped" /\ image' = image,
         phase' # "replay",
         On(l, k) => l.ttl = None /\ (l.op = "update" => committed[k] # None),
         On(l, k) => committed'[k] = Lasting(committed[k], l),
         ~On(l, k) => committed'[k] = committed[k]
  PROVE  Traced(k)'
<1>1. wal \in Seq(Line)
  BY Fits
<1>2. PICK T \in [0..Len(wal) -> Permanent] : Trace(k, T) /\ Loads(k, T) /\ Dumps(k, T)
  BY Fits DEF Traced
<1>3. PICK U \in [0..Len(wal') -> Permanent] :
        Trace(k, U)' /\ \A i \in 0..Len(wal) : i \in 0..Len(wal') /\ U[i] = T[i]
  BY <1>1, <1>2, TraceGoesOn
<1>4. Loads(k, U)'
  BY <1>2, <1>3 DEF Loads, Base
<1>5. Dumps(k, U)'
  BY <1>2, <1>3 DEF Dumps
<1> QED
  BY <1>3, <1>4, <1>5 DEF Traced

LEMMA LogWriteKeeps ==
  ASSUME IInv, NEW k \in Keys, Clean(k)', LogWrite
  PROVE  Accounted(k)'
<1> DEFINE line == [op |-> req.op, key |-> req.key, val |-> req.val,
                    ttl |-> req.ttl, lsn |-> lsn]
           spoilt == [line EXCEPT !.op = "spoilt"]
<1>0. /\ wpc = "logging" /\ phase = "up" /\ phase' = "up"
      /\ mem' = mem /\ snap' = snap /\ spc' = spc /\ image' = image /\ crashes' = crashes
      /\ req \in Request /\ lsn \in Nat
  BY DEF LogWrite, process, snapper, bounds, IInv, Discipline, TypeOK
<1>1. line \in Line /\ spoilt \in Line /\ spoilt.op = "spoilt"
  BY <1>0 DEF Request, Line, Val, Args
<1>2. ASSUME NEW b \in BOOLEAN, Returns(req, mem[req.key], b)
      PROVE  /\ leaks[k] \subseteq leaks'[k] /\ Clean(k)
             /\ wpc' = "idle" /\ (k # req.key => committed'[k] = committed[k])
             /\ k = req.key => /\ b /\ req.ttl = None /\ committed'[k] = mem[k]
                               /\ (req.op = "incr" => "incr" \in leaks'[k])
             /\ since' = IF spc = "idle" THEN {} ELSE since \cup {req.key}
  <2>1. /\ leaks[k] \subseteq leaks'[k]
        /\ k = req.key => /\ ~b => "lost" \in leaks'[k]
                          /\ req.ttl # None => "ttl" \in leaks'[k]
                          /\ (req.op = "incr" => "incr" \in leaks'[k])
    BY <1>2 DEF Returns, IInv, TypeOK
  <2>2. Clean(k)
    BY <1>0, <2>1, CleanBefore
  <2>3. k = req.key => b /\ req.ttl = None
    BY <2>1 DEF Clean
  <2>4. committed \in [Keys -> Item \cup {None}]
    BY DEF IInv, TypeOK
  <2> QED
    BY <1>2, <2>1, <2>2, <2>3, <2>4 DEF Returns
<1>3. ASSUME NEW b \in BOOLEAN, Returns(req, mem[req.key], b)
      PROVE  MemFits(k)' /\ SinceFits(k)'
  <2>1. MemFits(k)'
    BY <1>0, <1>2, <1>3, Fits DEF MemFits
  <2>2. SinceFits(k)'
    BY <1>0, <1>2, <1>3, Fits DEF SinceFits, Base
  <2> QED
    BY <2>1, <2>2
<1>4. CASE wal' = Append(wal, line) /\ Returns(req, mem[req.key], TRUE)
  <2>1. line.op = req.op /\ line.key = req.key /\ line.ttl = req.ttl /\ line.val = req.val
    OBVIOUS
  <2>2. On(line, k) => /\ line.ttl = None
                       /\ line.op = "update" => committed[k] # None
                       /\ committed'[k] = Lasting(committed[k], line)
    BY <1>0, <1>2, <1>4, <2>1, Fits DEF On, MemFits, Lasting
  <2>3. ~On(line, k) => committed'[k] = committed[k]
    BY <1>0, <1>2, <1>4, <2>1 DEF On, Request, Unread
  <2> HIDE DEF line
  <2>a. On(line, k) => committed'[k] = Lasting(committed[k], line)
    BY <2>2
  <2>b. /\ On(line, k) => line.ttl = None /\ (line.op = "update" => committed[k] # None)
        /\ phase' # "replay" /\ Clean(k) /\ wal' = Append(wal, line)
    BY <1>0, <1>2, <1>4, <2>2
  <2>4. Traced(k)'
    BY <1>0, <1>1, <2>a, <2>b, <2>3, AppendTraced
  <2>c. On(line, k) => k = req.key /\ line.ttl = None /\ line.op = req.op
    BY <2>1, <2>2 DEF On
  <2>d. wal \in Seq(Line) /\ LinesFit(k) /\ leaks[k] \subseteq leaks'[k] /\ line \in Line
    BY <1>1, <1>2, <1>4, Fits
  <2>e. On(line, k) => line.ttl = None /\ (line.op = "incr" => "incr" \in leaks'[k])
    BY <1>2, <1>4, <2>c
  <2>5. LinesFit(k)'
    BY <1>4, <2>d, <2>e, AppendFits
  <2> QED
    BY <1>3, <1>4, <2>4, <2>5 DEF Accounted
<1>5. CASE wal' = Append(wal, spoilt) /\ Returns(req, mem[req.key], FALSE)
  <2>1. ~On(spoilt, k)
    BY <1>1 DEF On, Unread
  <2>2. committed'[k] = committed[k]
    BY <1>2, <1>5
  <2> HIDE DEF line, spoilt
  <2>b. phase' # "replay" /\ Clean(k) /\ wal' = Append(wal, spoilt)
    BY <1>0, <1>2, <1>5
  <2>3. Traced(k)'
    BY <1>0, <1>1, <2>1, <2>2, <2>b, AppendTraced
  <2>d. wal \in Seq(Line) /\ LinesFit(k) /\ leaks[k] \subseteq leaks'[k] /\ spoilt \in Line
    BY <1>1, <1>2, <1>5, Fits
  <2>4. LinesFit(k)'
    BY <1>5, <2>1, <2>d, AppendFits
  <2> QED
    BY <1>3, <1>5, <2>3, <2>4 DEF Accounted
<1>6. CASE wal' = wal /\ Returns(req, mem[req.key], FALSE)
  <2>1. disk' = disk
    BY <1>0, <1>6 DEF disk
  <2>2. LinesFit(k)' /\ Traced(k)'
    BY <1>0, <1>2, <1>6, <2>1, SameFiles
  <2> QED
    BY <1>3, <1>6, <2>2 DEF Accounted
<1> QED
  BY <1>4, <1>5, <1>6 DEF LogWrite

\* What is dumped of a permanent item loads as that.
LEMMA LoadedBack ==
  ASSUME NEW x \in Permanent, NEW y,
         y = IF x = None THEN None
             ELSE [val |-> x.val, left |-> IF x.exp = None THEN None ELSE x.exp - now]
  PROVE  Loaded(y) = x
<1>1. CASE x = None
  BY <1>1 DEF Loaded
<1>2. CASE x # None
  <2>1. y = [val |-> x.val, left |-> None]
    BY <1>2 DEF Permanent
  <2>2. y # None
    BY <1>2, <2>1, DurabilityAssumption DEF Kept, Permanent
  <2> QED
    BY <1>2, <2>1, <2>2 DEF Loaded, Permanent
<1> QED
  BY <1>1, <1>2

LEMMA DumpKeeps ==
  ASSUME IInv, NEW k \in Keys, Clean(k)', Dump
  PROVE  Accounted(k)'
<1>0. /\ phase = "up" /\ phase' = "up" /\ wpc = "idle" /\ wpc' = "idle"
      /\ spc' = "dumped" /\ mem' = Purged(mem)
      /\ image'.data[k] = IF mem'[k] = None THEN None
                          ELSE [val |-> mem'[k].val,
                                left |-> IF mem'[k].exp = None THEN None
                                         ELSE mem'[k].exp - now]
      /\ UNCHANGED <<wal, snap, crashes, committed, leaks>>
  BY DEF Dump, At, process, disk, bounds
<1>1. Clean(k)
  BY <1>0 DEF Clean
<1>2. mem'[k] = committed[k] /\ committed[k] \in Permanent
  BY <1>0, <1>1, Fits, PurgedItem DEF MemFits
<1>3. Loaded(image'.data[k]) = committed[k]
  BY <1>0, <1>2, LoadedBack
<1>4. LinesFit(k)'
  BY <1>0, <1>1, Fits, SameLines
<1>5. PICK T \in [0..Len(wal) -> Permanent] : Trace(k, T) /\ Loads(k, T) /\ Dumps(k, T)
  BY <1>1, Fits DEF Traced
<1>6. Trace(k, T)'
  BY <1>0, <1>5, SameTrace
<1>7. Loads(k, T)'
  BY <1>0, <1>5 DEF Loads, Base
<1>8. Dumps(k, T)'
  <2>1. Len(wal) \in 0..Len(wal) /\ T[Len(wal)] = committed[k]
    BY <1>1, <1>5, Fits DEF Trace
  <2> QED
    BY <1>0, <1>3, <2>1 DEF Dumps, Loaded
<1>9. Traced(k)'
  BY <1>0, <1>5, <1>6, <1>7, <1>8 DEF Traced
<1>10. MemFits(k)' /\ SinceFits(k)'
  BY <1>0, <1>2, <1>3 DEF MemFits, SinceFits, Loaded
<1> QED
  BY <1>4, <1>9, <1>10 DEF Accounted

LEMMA ReplaceKeeps ==
  ASSUME IInv, NEW k \in Keys, Clean(k)', Replace
  PROVE  Accounted(k)'
<1>0. /\ spc = "dumped" /\ spc' \in {"replaced", "idle"} /\ snap' = image
      /\ UNCHANGED <<wal, phase, mem, wpc, req, crashes, committed, since, leaks>>
  BY DEF Replace, At, process, memory, bounds, history
<1>1. phase = "up" /\ image \in Image /\ image # None
  BY <1>0, DurabilityAssumption DEF IInv, Discipline
<1>2. Clean(k)
  BY <1>0, <1>1, CleanBefore
<1>3. LinesFit(k)' /\ MemFits(k)'
  BY <1>0, <1>2, Fits, SameLines DEF MemFits, Lasting
<1>4. Base(k)' = Loaded(image.data[k])
  BY <1>0, <1>1 DEF Base, Loaded
<1>5. SinceFits(k)'
  BY <1>0, <1>2, <1>4, Fits DEF SinceFits
<1>6. PICK T \in [0..Len(wal) -> Permanent] : Trace(k, T) /\ Loads(k, T) /\ Dumps(k, T)
  BY <1>2, Fits DEF Traced
<1>7. Trace(k, T)'
  BY <1>0, <1>6, SameTrace
<1>8. PICK c \in 0..Len(wal) : Loaded(image.data[k]) = T[c]
  BY <1>0, <1>6 DEF Dumps
<1>9. Loads(k, T)' /\ Dumps(k, T)'
  BY <1>0, <1>1, <1>4, <1>8 DEF Loads, Dumps
<1> QED
  BY <1>0, <1>3, <1>5, <1>6, <1>7, <1>9 DEF Traced, Accounted

\* Closing the file, opening one, giving up.
LEMMA RotateKeeps ==
  ASSUME IInv, NEW k \in Keys, Clean(k)', RotateClose \/ RotateOpen \/ RotateFails
  PROVE  Accounted(k)'
<1>0. /\ spc \in {"replaced", "closed", "renewed"} /\ spc' \in {"closed", "idle"}
      /\ spc' = "closed" => spc = "replaced"
      /\ disk' = disk
      /\ UNCHANGED <<wal, snap, image, phase, mem, wpc, req, crashes, committed, since,
                     leaks>>
  BY DEF RotateClose, RotateOpen, RotateFails, At, process, memory, bounds, history, disk
<1>1. phase = "up" /\ Clean(k)
  BY <1>0 DEF IInv, Discipline, Clean
<1>2. LinesFit(k)' /\ Traced(k)'
  BY <1>0, <1>1, SameFiles
<1>3. MemFits(k)' /\ SinceFits(k)'
  BY <1>0, <1>1, Fits DEF MemFits, SinceFits, Base, Lasting
<1> QED
  BY <1>2, <1>3 DEF Accounted

LEMMA RenewKeeps ==
  ASSUME IInv, NEW k \in Keys, Clean(k)', RotateRenew
  PROVE  Accounted(k)'
<1>0. /\ spc = "closed" /\ spc' = "renewed" /\ wal' = <<>> /\ Len(wal') = 0
      /\ leaks' = [j \in Keys |-> IF j \in since THEN leaks[j] \cup {"lost"}
                                               ELSE leaks[j]]
      /\ UNCHANGED <<snap, phase, mem, wpc, req, crashes, committed, since>>
  BY DEF RotateRenew, At, process, memory, bounds
<1>1. phase = "up" /\ snap # None
  BY <1>0 DEF IInv, Discipline
<1>2. k \notin since /\ leaks[k] \subseteq leaks'[k]
  BY <1>0 DEF Clean
<1>3. Clean(k)
  BY <1>0, <1>2, CleanBefore
<1>4. Base(k) = committed[k] /\ committed[k] \in Permanent
  BY <1>0, <1>2, <1>3, Fits DEF SinceFits
<1>a. LinesFit(k)'
  BY <1>0 DEF LinesFit
<1>b. MemFits(k)'
  BY <1>0, <1>3, Fits DEF MemFits, Lasting
<1>c. SinceFits(k)'
  BY <1>0 DEF SinceFits
<1>u. PICK T : T = [i \in 0..0 |-> committed[k]]
  OBVIOUS
<1>6. T \in [0..Len(wal') -> Permanent] /\ T[0] = committed[k]
  BY <1>0, <1>4, <1>u
<1>7. Trace(k, T)' /\ Loads(k, T)' /\ Dumps(k, T)'
  BY <1>0, <1>1, <1>4, <1>6 DEF Trace, Loads, Dumps, Base
<1> QED
  BY <1>a, <1>b, <1>c, <1>6, <1>7 DEF Traced, Accounted

LEMMA CrashKeeps ==
  ASSUME IInv, NEW k \in Keys, Clean(k)', Crash
  PROVE  Accounted(k)'
<1> DEFINE torn == [op |-> "torn", key |-> req.key, val |-> req.val,
                    ttl |-> req.ttl, lsn |-> lsn]
<1>0. /\ phase' = "down" /\ spc' = "idle"
      /\ UNCHANGED <<snap, committed, leaks>>
      /\ image' = None /\ crashes \in Nat /\ crashes' = crashes + 1
  BY DEF Crash, IInv, TypeOK
<1>1. Clean(k)
  BY <1>0 DEF Clean
<1>2. MemFits(k)' /\ SinceFits(k)'
  BY <1>0 DEF MemFits, SinceFits
<1>3. CASE wal' = wal
  <2>1. LinesFit(k)'
    BY <1>0, <1>1, <1>3, Fits, SameLines
  <2>2. PICK T \in [0..Len(wal) -> Permanent] : Trace(k, T) /\ Loads(k, T)
    BY <1>1, Fits DEF Traced
  <2>3. Trace(k, T)'
    BY <1>0, <1>3, <2>2, SameTrace
  <2>4. Loads(k, T)' /\ Dumps(k, T)'
    BY <1>0, <1>3, <2>2 DEF Loads, Dumps, Base
  <2> QED
    BY <1>2, <1>3, <2>1, <2>2, <2>3, <2>4 DEF Traced, Accounted
<1>4. CASE wpc = "logging" /\ wal' = Append(wal, torn)
  <2>1. torn \in Line /\ torn.op = "torn"
    <3>1. req \in Request /\ lsn \in Nat
      BY <1>4 DEF IInv, Discipline, TypeOK
    <3> QED
      BY <3>1 DEF Request, Line, Val, Args
  <2> HIDE DEF torn
  <2>2. ~On(torn, k)
    BY <2>1 DEF On, Unread
  <2>3. LinesFit(k)'
    BY <1>0, <1>1, <1>4, <2>1, <2>2, Fits, AppendFits
  <2>4. Traced(k)'
    BY <1>0, <1>1, <1>4, <2>1, <2>2, AppendTraced
  <2> QED
    BY <1>2, <2>3, <2>4 DEF Accounted
<1> QED
  BY <1>3, <1>4 DEF Crash

LEMMA BootKeeps ==
  ASSUME IInv, NEW k \in Keys, Clean(k)', Boot
  PROVE  Accounted(k)'
<1>0. /\ phase' = "replay" /\ pos' = 1
      /\ UNCHANGED <<wal, snap, spc, image, crashes, committed, since, leaks>>
  BY DEF Boot, snapper, disk, bounds
<1>1. Clean(k) /\ spc = "idle"
  BY <1>0 DEF Clean, IInv, Discipline, Boot
<1>2. LinesFit(k)' /\ MemFits(k)' /\ SinceFits(k)'
  BY <1>0, <1>1, Fits, SameLines DEF MemFits, SinceFits
<1>3. PICK T \in [0..Len(wal) -> Permanent] : Trace(k, T) /\ Loads(k, T) /\ Dumps(k, T)
  BY <1>1, Fits DEF Traced
<1>4. Trace(k, T)'
  BY <1>0, <1>3, SameTrace
<1>5. Dumps(k, T)'
  BY <1>0, <1>1 DEF Dumps
<1>6. PICK c \in 0..Len(wal) : Base(k) = T[c] /\ (snap = None => c = 0)
  BY <1>3 DEF Loads
<1>7. mem'[k] = Base(k)
  <2>1. CASE snap = None
    BY <2>1 DEF Boot, Base, NoItems
  <2>2. CASE snap # None
    <3> DEFINE x == snap.data[k]
    <3>1. mem'[k] = IF x = None THEN None ELSE [val |-> x.val, exp |-> DeadlineOf(x.left)]
      BY <2>2 DEF Boot
    <3>2. Base(k) = Loaded(x) /\ Base(k) \in Permanent
      BY <1>3, <1>6, <2>2 DEF Base
    <3>3. x # None => x.left = None
      <4>1. x # None => [val |-> x.val, exp |-> x.left] \in Permanent
        BY <3>2 DEF Loaded
      <4>2. x # None => x \in Kept
        BY <2>2 DEF IInv, TypeOK, Image
      <4>3. x # None => [val |-> x.val, exp |-> x.left] # None
        BY <4>2, DurabilityAssumption DEF Kept, Item
      <4> HIDE DEF x
      <4> QED
        BY <4>1, <4>3 DEF Permanent
    <3> HIDE DEF x
    <3> QED
      BY <3>1, <3>2, <3>3 DEF Loaded, DeadlineOf
  <2> QED
    BY <2>1, <2>2
<1>8. Loads(k, T)'
  <2>1. Len(wal) \in Nat
    BY <1>1, Fits
  <2>2. c = 0 \/ 0 < c
    BY <2>1
  <2> QED
    BY <1>0, <1>6, <1>7, <2>2 DEF Loads, Base
<1> QED
  BY <1>0, <1>2, <1>3, <1>4, <1>5, <1>8 DEF Traced, Accounted

\* One line is replayed.
LEMMA ReplayKeeps ==
  ASSUME IInv, NEW k \in Keys, Clean(k)', Replay
  PROVE  Accounted(k)'
<1> DEFINE e == wal[pos]
<1>0. /\ phase = "replay" /\ phase' = "replay" /\ pos' = pos + 1
      /\ mem' = Applied(mem, e)
      /\ UNCHANGED <<wal, snap, spc, image, crashes, committed, since, leaks>>
  BY DEF Replay, process, snapper, disk, bounds, history
<1>1. Clean(k) /\ spc = "idle" /\ pos \in 1..Len(wal) /\ crashes # 0
  BY <1>0 DEF Clean, IInv, Discipline, TypeOK, Replay
<1>2. LinesFit(k)' /\ MemFits(k)' /\ SinceFits(k)'
  BY <1>0, <1>1, Fits, SameLines DEF MemFits, SinceFits
<1>3. PICK T \in [0..Len(wal) -> Permanent] : Trace(k, T) /\ Loads(k, T)
  BY <1>1, Fits DEF Traced
<1>4. Trace(k, T)'
  BY <1>0, <1>3, SameTrace
<1>5. Dumps(k, T)'
  BY <1>0, <1>1 DEF Dumps
<1>6. PICK c \in 0..Len(wal) :
        /\ Base(k) = T[c]
        /\ snap = None => c = 0
        /\ mem[k] = T[pos - 1] \/ (pos - 1 < c /\ mem[k] = T[c])
  BY <1>0, <1>3 DEF Loads
<1>7. /\ Len(wal) \in Nat /\ pos \in Nat /\ pos - 1 \in 0..Len(wal)
      /\ pos \in 0..Len(wal) /\ e \in Line /\ c \in Nat /\ pos' - 1 = pos
  BY <1>0, <1>1, Fits
<1>8. T[pos - 1] \in Permanent /\ T[pos] \in Permanent /\ T[c] \in Permanent
      /\ mem[k] \in Permanent
  BY <1>3, <1>6, <1>7
<1>9. /\ On(e, k) => T[pos] = Lasting(T[pos - 1], e)
      /\ ~On(e, k) => T[pos] = T[pos - 1]
      /\ On(e, k) /\ e.op = "update" => T[pos - 1] # None
      /\ On(e, k) => e.ttl = None /\ (e.op = "incr" => "incr" \in leaks[k])
  BY <1>1, <1>3, Fits DEF Trace, LinesFit
<1> HIDE DEF e
<1>10. /\ On(e, k) => mem'[k] = Lasting(mem[k], e)
       /\ ~On(e, k) => mem'[k] = mem[k]
  <2>1. /\ k # e.key => mem'[k] = mem[k]
        /\ k = e.key => mem'[k] = After(mem[k], e)
        /\ k = e.key /\ e.op \in Unread => mem'[k] = mem[k]
    BY <1>0, <1>1, <1>7, <1>8, Fits, AppliedItem
  <2>2. On(e, k) => After(mem[k], e) = Lasting(mem[k], e)
    BY <1>7, <1>8, <1>9, AfterLasting
  <2> QED
    BY <2>1, <2>2 DEF On
<1>11. mem'[k] = T[pos] \/ (pos < c /\ mem'[k] = T[c])
  <2>1. CASE mem[k] = T[pos - 1]
    BY <1>9, <1>10, <2>1
  <2>2. CASE pos - 1 < c /\ mem[k] = T[c]
    <3>1. c # 0 /\ snap # None /\ "incr" \notin leaks[k]
      BY <1>1, <1>6, <1>7, <2>2 DEF Clean
    <3>2. pos < c \/ pos = c
      BY <1>7, <2>2
    <3>3. mem'[k] = T[pos] \/ mem'[k] = T[c]
      <4>1. CASE On(e, k)
        <5>1. /\ mem'[k] = Lasting(T[c], e) /\ T[pos] = Lasting(T[pos - 1], e)
              /\ e.op # "incr" /\ (e.op = "update" => T[pos - 1] # None)
          BY <1>9, <1>10, <2>2, <3>1, <4>1
        <5> QED
          BY <1>7, <5>1, Operations DEF Lasting
      <4>2. CASE ~On(e, k)
        BY <1>10, <2>2, <4>2
      <4> QED
        BY <4>1, <4>2
    <3> QED
      BY <3>2, <3>3
  <2> QED
    BY <1>6, <2>1, <2>2
<1>12. Loads(k, T)'
  BY <1>0, <1>6, <1>7, <1>11 DEF Loads, Base
<1> QED
  BY <1>0, <1>2, <1>3, <1>4, <1>5, <1>12 DEF Traced, Accounted

LEMMA RecoveredKeeps ==
  ASSUME IInv, NEW k \in Keys, Clean(k)', Recovered
  PROVE  Accounted(k)'
<1>0. /\ phase = "replay" /\ phase' = "up" /\ pos > Len(wal) /\ disk' = disk
      /\ UNCHANGED <<wal, snap, mem, wpc, spc, image, crashes, since, leaks>>
      /\ "ttl" \notin leaks[k] => committed'[k] = committed[k]
  BY DEF Recovered, snapper, disk, bounds
<1>1. /\ Clean(k) /\ spc = "idle" /\ wpc = "idle" /\ pos \in 1..Len(wal) + 1
      /\ Len(wal) \in Nat
  BY <1>0 DEF Clean, IInv, Discipline, TypeOK
<1>c. committed'[k] = committed[k]
  BY <1>0, <1>1 DEF Clean
<1>2. LinesFit(k)' /\ Traced(k)'
  BY <1>0, <1>1, <1>c, SameFiles
<1>3. mem[k] = committed[k]
  <2>1. PICK T \in [0..Len(wal) -> Permanent] : Trace(k, T) /\ Loads(k, T)
    BY <1>1, Fits DEF Traced
  <2>2. PICK c \in 0..Len(wal) : mem[k] = T[pos - 1] \/ (pos - 1 < c /\ mem[k] = T[c])
    BY <1>0, <2>1 DEF Loads
  <2>3. pos - 1 = Len(wal) /\ ~(pos - 1 < c)
    BY <1>0, <1>1
  <2> QED
    BY <2>1, <2>2, <2>3 DEF Trace
<1>4. MemFits(k)' /\ SinceFits(k)'
  BY <1>0, <1>1, <1>c, <1>3 DEF MemFits, SinceFits
<1> QED
  BY <1>2, <1>4 DEF Accounted

-----------------------------------------------------------------------------
(* Types, and where the processes stand. *)

\* The parts of the state that a write changes.
LEMMA ReturnsType ==
  ASSUME IInv, NEW e \in Request, NEW x \in Item \cup {None}, NEW b \in BOOLEAN,
         Returns(e, x, b)
  PROVE  /\ wpc' = "idle" /\ req' = None /\ started' = started
         /\ committed' \in [Keys -> Item \cup {None}]
         /\ since' \subseteq Keys /\ leaks' \in [Keys -> SUBSET {"ttl", "incr", "lost", "lsn"}]
<1>1. e.key \in Keys
  BY Operations
<1> QED
  BY <1>1 DEF Returns, IInv, TypeOK

LEMMA WriteType ==
  ASSUME IInv, NEW e \in Requests, Write(e)
  PROVE  TypeOK' /\ Discipline'
<1>0. e \in Request /\ e.key \in Keys /\ MaxLsn \in Nat
  BY DurabilityAssumption, Operations
<1>1. mem' \in [Keys -> Item \cup {None}]
  BY <1>0, AppliedItem DEF Write, IInv, TypeOK
<1>2. /\ UNCHANGED <<wal, snap, phase, now, rotate, file, pos, spc, image, crashes, tears>>
      /\ phase = "up" /\ lsn' = lsn + 1 /\ lsn < MaxLsn /\ lsn \in Nat
  BY DEF Write, process, snapper, disk, bounds, IInv, TypeOK
<1>3. CASE Returns(e, mem'[e.key], FALSE)
  <2>1. mem'[e.key] \in Item \cup {None}
    BY <1>0, <1>1
  <2>2. /\ wpc' = "idle" /\ req' = None /\ started' = started
        /\ committed' \in [Keys -> Item \cup {None}]
        /\ since' \subseteq Keys /\ leaks' \in [Keys -> SUBSET {"ttl", "incr", "lost", "lsn"}]
    BY <1>0, <1>3, <2>1, ReturnsType
  <2>3. TypeOK'
    BY <1>1, <1>2, <2>2 DEF IInv, TypeOK
  <2>4. Discipline'
    BY <1>0, <1>2, <2>2 DEF IInv, Discipline
  <2> QED
    BY <2>3, <2>4
<1>4. CASE wpc' = "logging" /\ req' = e /\ UNCHANGED history
  <2>1. UNCHANGED <<committed, since, started, leaks>>
    BY <1>4 DEF history
  <2>2. TypeOK'
    BY <1>0, <1>1, <1>2, <1>4, <2>1 DEF IInv, TypeOK
  <2>3. Discipline'
    BY <1>0, <1>2, <1>4, <2>1 DEF IInv, Discipline
  <2> QED
    BY <2>2, <2>3
<1> QED
  BY <1>3, <1>4 DEF Write

\* Appending a line of an LSN in bounds keeps the log as it should be.
LEMMA AppendType ==
  ASSUME IInv, NEW l \in Line, l.lsn <= MaxLsn, wal' = Append(wal, l)
  PROVE  wal' \in Seq(Line) /\ \A i \in 1..Len(wal') : wal'[i].lsn <= MaxLsn
<1>1. wal \in Seq(Line) /\ \A i \in 1..Len(wal) : wal[i].lsn <= MaxLsn
  BY DEF IInv, TypeOK, Discipline
<1>2. Len(wal) \in Nat /\ Len(wal') = Len(wal) + 1 /\ wal'[Len(wal) + 1] = l
      /\ wal' \in Seq(Line) /\ \A i \in 1..Len(wal) : wal'[i] = wal[i]
  BY <1>1
<1>3. ASSUME NEW i \in 1..Len(wal') PROVE wal'[i].lsn <= MaxLsn
  <2>1. i \in 1..Len(wal) \/ i = Len(wal) + 1
    BY <1>2
  <2>2. CASE i \in 1..Len(wal)
    BY <1>1, <1>2, <2>2
  <2>3. CASE i = Len(wal) + 1
    BY <1>2, <2>3
  <2> QED
    BY <2>1, <2>2, <2>3
<1> QED
  BY <1>2, <1>3

LEMMA LogWriteType ==
  ASSUME IInv, LogWrite
  PROVE  TypeOK' /\ Discipline'
<1> DEFINE line == [op |-> req.op, key |-> req.key, val |-> req.val,
                    ttl |-> req.ttl, lsn |-> lsn]
           spoilt == [line EXCEPT !.op = "spoilt"]
<1>0. /\ wpc = "logging" /\ phase = "up" /\ req \in Request /\ req.key \in Keys
      /\ lsn \in Nat /\ lsn <= MaxLsn
      /\ UNCHANGED <<phase, now, rotate, mem, lsn, file, pos, spc, image, snap,
                     crashes, tears>>
  BY Operations DEF LogWrite, process, snapper, bounds, IInv, Discipline, TypeOK
<1>1. PICK b \in BOOLEAN : Returns(req, mem[req.key], b)
  BY DEF LogWrite
<1>2. /\ wpc' = "idle" /\ req' = None /\ started' = started
      /\ committed' \in [Keys -> Item \cup {None}]
      /\ since' \subseteq Keys /\ leaks' \in [Keys -> SUBSET {"ttl", "incr", "lost", "lsn"}]
  <2>1. mem[req.key] \in Item \cup {None}
    BY <1>0 DEF IInv, TypeOK
  <2> QED
    BY <1>0, <1>1, <2>1, ReturnsType
<1>3. /\ line \in Line /\ line.lsn <= MaxLsn
      /\ spoilt \in Line /\ spoilt.lsn <= MaxLsn
  BY <1>0 DEF Request, Line, Val, Args
<1>4. wal' = Append(wal, line) \/ wal' = Append(wal, spoilt) \/ wal' = wal
  BY DEF LogWrite
<1> HIDE DEF line, spoilt
<1>5. wal' \in Seq(Line) /\ \A i \in 1..Len(wal') : wal'[i].lsn <= MaxLsn
  <2>1. CASE wal' = wal
    BY <2>1 DEF IInv, TypeOK, Discipline
  <2>2. CASE wal' = Append(wal, line)
    BY <1>3, <2>2, AppendType
  <2>3. CASE wal' = Append(wal, spoilt)
    BY <1>3, <2>3, AppendType
  <2> QED
    BY <1>4, <2>1, <2>2, <2>3
<1>6. TypeOK'
  BY <1>0, <1>2, <1>5 DEF IInv, TypeOK
<1>7. Discipline'
  BY <1>0, <1>2, <1>5 DEF IInv, Discipline
<1> QED
  BY <1>6, <1>7

LEMMA SnapshotType ==
  ASSUME IInv, Snapshot
  PROVE  TypeOK' /\ Discipline'
<1>0. TypeOK /\ Discipline
  BY DEF IInv
<1>1. CASE Dump
  <2>0. /\ UNCHANGED <<wal, snap, phase, now, rotate, lsn, file, wpc, req, pos, crashes,
                       tears, committed, started, leaks>>
        /\ spc' = "dumped" /\ since' = {} /\ phase = "up" /\ wpc = "idle"
    BY <1>1 DEF Dump, At, process, disk, bounds
  <2>1. mem' \in [Keys -> Item \cup {None}]
    BY <1>0, <1>1 DEF Dump, Purged, TypeOK
  <2> DEFINE left(k) == IF mem'[k].exp = None THEN None ELSE mem'[k].exp - now
             kept(k) == IF mem'[k] = None THEN None
                        ELSE [val |-> mem'[k].val, left |-> left(k)]
  <2>2. ASSUME NEW k \in Keys PROVE kept(k) \in Kept \cup {None}
    <3>1. CASE mem'[k] # None
      <4>1. mem[k] \in Item /\ mem'[k] = mem[k] /\ (mem[k].exp # None => ~(mem[k].exp <= now))
        BY <1>0, <1>1, <3>1 DEF Dump, Purged, TypeOK
      <4>2. now \in Nat /\ mem[k].val \in Nat /\ mem[k].exp \in Nat \cup {None}
        BY <1>0, <4>1 DEF TypeOK, Item
      <4>3. left(k) \in Nat \cup {None}
        BY <4>1, <4>2
      <4> HIDE DEF left
      <4> QED
        BY <3>1, <4>1, <4>2, <4>3 DEF Kept
    <3> QED
      BY <3>1
  <2>3. image' = [lsn |-> lsn, data |-> [k \in Keys |-> kept(k)]]
    BY <1>1 DEF Dump
  <2> HIDE DEF kept
  <2>4. image' \in Image /\ image'.lsn = lsn
    BY <1>0, <2>2, <2>3 DEF Image, TypeOK
  <2>5. TypeOK'
    BY <1>0, <2>0, <2>1, <2>4 DEF TypeOK
  <2>6. Discipline'
    BY <1>0, <2>0, <2>4 DEF Discipline
  <2> QED
    BY <2>5, <2>6
<1>2. CASE Replace
  <2>0. /\ UNCHANGED <<wal, phase, now, rotate, mem, lsn, file, wpc, req, pos, crashes,
                       tears, committed, since, started, leaks>>
        /\ spc = "dumped" /\ spc' \in {"replaced", "idle"}
        /\ snap' = image /\ image' = None
    BY <1>2 DEF Replace, At, process, memory, bounds, history
  <2>1. image \in Image /\ image # None /\ phase = "up"
    BY <1>0, <2>0, DurabilityAssumption DEF Discipline
  <2>2. TypeOK'
    BY <1>0, <2>0, <2>1 DEF TypeOK
  <2>3. Discipline'
    BY <1>0, <2>0, <2>1 DEF Discipline
  <2> QED
    BY <2>2, <2>3
<1>3. CASE RotateClose \/ RotateOpen \/ RotateFails
  <2>0. /\ UNCHANGED <<wal, snap, phase, now, rotate, mem, lsn, wpc, req, pos, image,
                       crashes, tears, committed, since, started, leaks>>
        /\ file' \in {"open", "none"} /\ spc \in {"replaced", "closed", "renewed"}
        /\ spc' \in {"closed", "idle"} /\ (spc' = "closed" => spc = "replaced")
    BY <1>0, <1>3 DEF RotateClose, RotateOpen, RotateFails, At, process, memory, disk,
                      bounds, history, TypeOK
  <2>1. TypeOK'
    BY <1>0, <2>0 DEF TypeOK
  <2>2. Discipline'
    BY <1>0, <2>0 DEF Discipline
  <2> QED
    BY <2>1, <2>2
<1>4. CASE RotateRenew
  <2>0. /\ UNCHANGED <<snap, phase, now, rotate, mem, lsn, file, wpc, req, pos, image,
                       crashes, tears, committed, since, started>>
        /\ wal' = <<>> /\ spc = "closed" /\ spc' = "renewed"
        /\ leaks' = [k \in Keys |-> IF k \in since THEN leaks[k] \cup {"lost"}
                                                 ELSE leaks[k]]
    BY <1>4 DEF RotateRenew, At, process, memory, bounds
  <2>1. leaks' \in [Keys -> SUBSET {"ttl", "incr", "lost", "lsn"}]
    BY <1>0, <2>0 DEF TypeOK
  <2>2. TypeOK'
    BY <1>0, <2>0, <2>1 DEF TypeOK
  <2>3. phase = "up" /\ Len(wal') = 0
    BY <1>0, <2>0 DEF Discipline
  <2>4. Discipline'
    BY <1>0, <2>0, <2>3 DEF Discipline
  <2> QED
    BY <2>2, <2>4
<1> QED
  BY <1>1, <1>2, <1>3, <1>4 DEF Snapshot

LEMMA CrashType ==
  ASSUME IInv, Crash
  PROVE  TypeOK' /\ Discipline'
<1> DEFINE torn == [op |-> "torn", key |-> req.key, val |-> req.val,
                    ttl |-> req.ttl, lsn |-> lsn]
<1>0. TypeOK /\ Discipline /\ MaxLsn \in Nat
  BY DurabilityAssumption DEF IInv
<1>1. /\ phase' = "down" /\ crashes' = crashes + 1 /\ tears' \in {tears, tears + 1}
      /\ mem' = NoItems /\ lsn' = 0 /\ file' = "none" /\ pos' = 1
      /\ wpc' = "idle" /\ req' = None /\ spc' = "idle" /\ image' = None
      /\ since' = {} /\ started' = 0
      /\ UNCHANGED <<now, rotate, snap, committed, leaks>>
  BY DEF Crash
<1>2. wal' = wal \/ (wpc = "logging" /\ wal' = Append(wal, torn))
  BY DEF Crash
<1>3. wal' \in Seq(Line) /\ \A i \in 1..Len(wal') : wal'[i].lsn <= MaxLsn
  <2>1. CASE wal' = wal
    BY <1>0, <2>1 DEF TypeOK, Discipline
  <2>2. CASE wpc = "logging" /\ wal' = Append(wal, torn)
    <3>1. torn \in Line /\ torn.lsn <= MaxLsn
      <4>1. req \in Request /\ lsn \in Nat /\ lsn <= MaxLsn
        BY <1>0, <2>2 DEF Discipline, TypeOK
      <4> QED
        BY <4>1 DEF Request, Line, Val, Args
    <3> HIDE DEF torn
    <3> QED
      BY <2>2, <3>1, AppendType
  <2> QED
    BY <1>2, <2>1, <2>2
<1>4. mem' \in [Keys -> Item \cup {None}]
  BY <1>1 DEF NoItems
<1>5. TypeOK'
  BY <1>0, <1>1, <1>3, <1>4 DEF TypeOK
<1>6. Discipline'
  <2>1. crashes' # 0
    BY <1>0, <1>1 DEF TypeOK
  <2> QED
    BY <1>0, <1>1, <1>3, <2>1 DEF Discipline
<1> QED
  BY <1>5, <1>6

LEMMA BootType ==
  ASSUME IInv, Boot
  PROVE  TypeOK' /\ Discipline'
<1>0. TypeOK /\ Discipline /\ MaxLsn \in Nat /\ TopLsn \in 0..MaxLsn
  BY TopLsnIsTop, DurabilityAssumption DEF IInv, TypeOK, Discipline
<1>1. /\ phase = "down" /\ phase' = "replay" /\ file' = "open" /\ pos' = 1
      /\ started' = now
      /\ UNCHANGED <<wal, snap, now, rotate, wpc, req, spc, image, crashes, tears,
                     committed, since, leaks>>
  BY DEF Boot, snapper, disk, bounds
<1>2. lsn' \in 0..MaxLsn
  <2>1. CASE snap = None
    BY <1>0, <2>1 DEF Boot
  <2>2. CASE snap # None
    <3>1. snap.lsn \in 0..MaxLsn /\ lsn' = Max({TopLsn, snap.lsn})
      BY <1>0, <2>2 DEF Boot, TypeOK, Discipline, Image
    <3>2. {TopLsn, snap.lsn} \subseteq 0..MaxLsn /\ {TopLsn, snap.lsn} # {}
      BY <1>0, <3>1
    <3> QED
      BY <1>0, <3>1, <3>2, MaxOfSome
  <2> QED
    BY <2>1, <2>2
<1>3. mem' \in [Keys -> Item \cup {None}]
  <2>1. CASE snap = None
    BY <2>1 DEF Boot, NoItems
  <2>2. CASE snap # None
    <3> DEFINE item(x) == IF x = None THEN None
                          ELSE [val |-> x.val, exp |-> DeadlineOf(x.left)]
    <3>1. ASSUME NEW k \in Keys PROVE item(snap.data[k]) \in Item \cup {None}
      <4>1. snap.data[k] \in Kept \cup {None} /\ now \in Nat
        BY <1>0, <2>2 DEF TypeOK, Image
      <4>2. snap.data[k] # None => DeadlineOf(snap.data[k].left) \in Nat \cup {None}
        BY <4>1 DEF Kept, DeadlineOf
      <4> QED
        BY <4>1, <4>2 DEF Kept, Item
    <3>2. mem' = [k \in Keys |-> item(snap.data[k])]
      BY <2>2 DEF Boot
    <3> HIDE DEF item
    <3> QED
      BY <3>1, <3>2
  <2> QED
    BY <2>1, <2>2
<1>4. Len(wal) \in Nat
  BY <1>0 DEF TypeOK
<1>5. TypeOK'
  BY <1>0, <1>1, <1>2, <1>3 DEF TypeOK
<1>6. Discipline'
  BY <1>0, <1>1, <1>2, <1>4 DEF Discipline
<1> QED
  BY <1>5, <1>6

LEMMA ReplayType ==
  ASSUME IInv, Replay \/ Recovered
  PROVE  TypeOK' /\ Discipline'
<1>0. TypeOK /\ Discipline /\ MaxLsn \in Nat /\ TopLsn \in 0..MaxLsn
  BY TopLsnIsTop, DurabilityAssumption DEF IInv, TypeOK, Discipline
<1>1. Len(wal) \in Nat /\ pos \in 1..Len(wal) + 1
  BY <1>0 DEF Replay, Recovered, TypeOK, Discipline
<1>2. CASE Replay
  <2>0. /\ pos <= Len(wal) /\ pos' = pos + 1 /\ mem' = Applied(mem, wal[pos])
        /\ UNCHANGED <<wal, snap, phase, now, rotate, lsn, file, wpc, req, spc, image,
                       crashes, tears, committed, since, started, leaks>>
    BY <1>2 DEF Replay, process, snapper, disk, bounds, history
  <2>1. wal[pos] \in Line
    BY <1>0, <1>1, <2>0 DEF TypeOK
  <2>2. mem' \in [Keys -> Item \cup {None}]
    BY <1>0, <2>0, <2>1, AppliedItem DEF TypeOK
  <2>3. pos' \in Nat /\ pos' \in 1..Len(wal) + 1
    BY <1>1, <2>0
  <2>4. TypeOK'
    BY <1>0, <2>0, <2>2, <2>3 DEF TypeOK
  <2>5. Discipline'
    BY <1>0, <2>0, <2>3 DEF Discipline
  <2> QED
    BY <2>4, <2>5
<1>3. CASE Recovered
  <2>0. /\ phase = "replay" /\ phase' = "up" /\ lsn' = TopLsn /\ pos' = 1
        /\ UNCHANGED <<wal, snap, now, rotate, mem, file, wpc, req, spc, image,
                       crashes, tears, since, started, leaks>>
        /\ committed' = [k \in Keys |-> IF "ttl" \in leaks[k] THEN mem[k]
                                                          ELSE committed[k]]
    BY <1>3 DEF Recovered, snapper, disk, bounds
  <2>c. committed' \in [Keys -> Item \cup {None}]
    BY <1>0, <2>0 DEF TypeOK
  <2>1. TypeOK'
    BY <1>0, <2>0, <2>c DEF TypeOK
  <2>2. Discipline'
    BY <1>0, <2>0 DEF Discipline
  <2> QED
    BY <2>1, <2>2
<1> QED
  BY <1>2, <1>3

LEMMA TickType ==
  ASSUME IInv, Tick
  PROVE  TypeOK' /\ Discipline'
BY DEF IInv, Tick, TypeOK, Discipline, memory, snapper, disk, bounds, history

-----------------------------------------------------------------------------
(* The snapshot as a cut of the log. *)

\* The keys that SnapshotIsCut is about.
Plain(k) == leaks[k] \subseteq (IF crashes = 0 THEN {"incr"} ELSE {})

\* Line c parts the lines of k with an LSN up to n from the others.
Parts(k, c, n) ==
  \A i \in 1..Len(wal) : On(wal[i], k) => (i <= c <=> wal[i].lsn <= n)

\* The image s has k as it was after such a line.
IsCut(k, T, s) ==
  \E c \in 0..Len(wal) : Loaded(s.data[k]) = T[c] /\ Parts(k, c, s.lsn)

Cut(k) ==
  \E T \in [0..Len(wal) -> Permanent] :
    /\ T[0] = None /\ Trace(k, T)
    /\ snap # None => IsCut(k, T, snap)
    /\ spc = "dumped" => IsCut(k, T, image)

\* No line is ahead of the counter, the dump under way is not either, and a write
\* begun since is ahead of the dump.  A log that is not rotated stays open.
Numbering ==
  /\ phase = "up" =>
       \A i \in 1..Len(wal) : wal[i].op \notin Unread => wal[i].lsn <= lsn
  /\ spc = "dumped" => image.lsn <= lsn /\ (wpc = "logging" => image.lsn < lsn)
  /\ spc \in {"replaced", "closed", "renewed"} => rotate

Cuts == ~rotate => \A k \in Keys : Plain(k) => Cut(k)

CutInv == IInv /\ Numbering /\ Cuts

LEMMA PlainKeys ==
  ASSUME IInv, NEW k \in Keys, Plain(k)
  PROVE  Clean(k) /\ LinesFit(k) /\ MemFits(k)
         /\ wal \in Seq(Line) /\ mem \in [Keys -> Item \cup {None}] /\ now \in Nat
<1>1. Clean(k)
  BY DEF Plain, Clean
<1> QED
  BY <1>1, Fits

LEMMA PlainBefore ==
  ASSUME Cuts, rotate' = rotate, ~rotate', NEW k \in Keys, Plain(k)',
         leaks[k] \subseteq leaks'[k], crashes' = 0 => crashes = 0
  PROVE  Plain(k) /\ Cut(k)
BY DEF Plain, Cuts

\* The steps that leave the files, the dump and what is committed alone.
LEMMA SameCut ==
  ASSUME NEW k \in Keys, Cut(k), wal' = wal, snap' = snap, committed'[k] = committed[k],
         spc' = "dumped" => spc = "dumped" /\ image' = image
  PROVE  Cut(k)'
<1>1. PICK T \in [0..Len(wal) -> Permanent] :
        /\ T[0] = None /\ Trace(k, T)
        /\ snap # None => IsCut(k, T, snap)
        /\ spc = "dumped" => IsCut(k, T, image)
  BY DEF Cut
<1>2. Trace(k, T)'
  BY <1>1, SameTrace
<1>3. snap' # None => IsCut(k, T, snap)'
  BY <1>1 DEF IsCut, Parts, On, Loaded
<1>4. spc' = "dumped" => IsCut(k, T, image)'
  BY <1>1 DEF IsCut, Parts, On, Loaded
<1> QED
  BY <1>1, <1>2, <1>3, <1>4 DEF Cut

\* A line is appended whose LSN is past those of the snapshot and the dump, if it is
\* one about k.
LEMMA AppendCut ==
  ASSUME NEW k \in Keys, Cut(k), wal \in Seq(Line), NEW l \in Line,
         wal' = Append(wal, l), snap' = snap,
         spc' = "dumped" => spc = "dumped" /\ image' = image,
         snap # None => snap.lsn \in Nat,
         spc = "dumped" => image.lsn \in Nat,
         On(l, k) => l.ttl = None /\ (l.op = "update" => committed[k] # None),
         On(l, k) => committed'[k] = Lasting(committed[k], l),
         ~On(l, k) => committed'[k] = committed[k],
         On(l, k) => /\ snap # None => snap.lsn < l.lsn
                     /\ spc = "dumped" => image.lsn < l.lsn
  PROVE  Cut(k)'
<1>1. PICK T \in [0..Len(wal) -> Permanent] :
        /\ T[0] = None /\ Trace(k, T)
        /\ snap # None => IsCut(k, T, snap)
        /\ spc = "dumped" => IsCut(k, T, image)
  BY DEF Cut
<1>2. PICK U \in [0..Len(wal') -> Permanent] :
        Trace(k, U)' /\ \A i \in 0..Len(wal) : i \in 0..Len(wal') /\ U[i] = T[i]
  BY <1>1, TraceGoesOn
<1>3. /\ Len(wal) \in Nat /\ Len(wal') = Len(wal) + 1 /\ wal'[Len(wal) + 1] = l
      /\ \A i \in 1..Len(wal) : wal'[i] = wal[i]
  OBVIOUS
<1>4. U[0] = None
  BY <1>1, <1>2, <1>3
<1>5. ASSUME NEW s, s.lsn \in Nat, IsCut(k, T, s), On(l, k) => s.lsn < l.lsn
      PROVE  \E c \in 0..Len(wal') :
               /\ Loaded(s.data[k]) = U[c]
               /\ \A i \in 1..Len(wal') : On(wal'[i], k) => (i <= c <=> wal'[i].lsn <= s.lsn)
  <2>1. PICK c \in 0..Len(wal) : Loaded(s.data[k]) = T[c] /\ Parts(k, c, s.lsn)
    BY <1>5 DEF IsCut
  <2>2. c \in 0..Len(wal') /\ Loaded(s.data[k]) = U[c]
    BY <1>2, <2>1
  <2>3. ASSUME NEW i \in 1..Len(wal'), On(wal'[i], k)
        PROVE  i <= c <=> wal'[i].lsn <= s.lsn
    <3>1. CASE i \in 1..Len(wal)
      BY <1>3, <2>1, <2>3, <3>1 DEF Parts
    <3>2. CASE i = Len(wal) + 1
      <4>1. On(l, k) /\ l.lsn \in Nat /\ wal'[i] = l
        BY <1>3, <2>3, <3>2 DEF Line
      <4>2. s.lsn < l.lsn /\ ~(i <= c)
        BY <1>3, <1>5, <3>2, <4>1
      <4> QED
        BY <1>5, <4>1, <4>2
    <3> QED
      BY <1>3, <3>1, <3>2
  <2> QED
    BY <2>2, <2>3
<1>6. snap' # None => IsCut(k, U, snap)'
  <2>1. ASSUME snap # None
        PROVE  \E c \in 0..Len(wal') :
                 /\ Loaded(snap.data[k]) = U[c]
                 /\ \A i \in 1..Len(wal') :
                      On(wal'[i], k) => (i <= c <=> wal'[i].lsn <= snap.lsn)
    BY <1>1, <1>5, <2>1
  <2> QED
    BY <2>1 DEF IsCut, Parts, On, Loaded
<1>7. spc' = "dumped" => IsCut(k, U, image)'
  <2>1. ASSUME spc = "dumped"
        PROVE  \E c \in 0..Len(wal') :
                 /\ Loaded(image.data[k]) = U[c]
                 /\ \A i \in 1..Len(wal') :
                      On(wal'[i], k) => (i <= c <=> wal'[i].lsn <= image.lsn)
    BY <1>1, <1>5, <2>1
  <2> QED
    BY <2>1 DEF IsCut, Parts, On, Loaded
<1> QED
  BY <1>2, <1>4, <1>6, <1>7 DEF Cut

LEMMA LogWriteCut ==
  ASSUME IInv, Numbering, Cuts, LogWrite
  PROVE  Numbering' /\ Cuts'
<1> DEFINE line == [op |-> req.op, key |-> req.key, val |-> req.val,
                    ttl |-> req.ttl, lsn |-> lsn]
           spoilt == [line EXCEPT !.op = "spoilt"]
<1>0. /\ wpc = "logging" /\ phase = "up" /\ phase' = "up" /\ wal \in Seq(Line)
      /\ mem' = mem /\ snap' = snap /\ spc' = spc /\ image' = image /\ crashes' = crashes
      /\ lsn' = lsn /\ rotate' = rotate /\ req \in Request /\ lsn \in Nat
      /\ leaks \in [Keys -> SUBSET {"ttl", "incr", "lost", "lsn"}]
      /\ committed \in [Keys -> Item \cup {None}]
      /\ snap # None => snap.lsn \in Nat
      /\ spc = "dumped" => image.lsn \in Nat
  BY DEF LogWrite, process, snapper, bounds, IInv, Discipline, TypeOK, Image
<1>1. /\ line \in Line /\ spoilt \in Line /\ spoilt.op = "spoilt"
      /\ line.lsn = lsn /\ line.op = req.op /\ line.key = req.key /\ line.ttl = req.ttl
      /\ line.val = req.val
  BY <1>0 DEF Request, Line, Val, Args
<1>2. PICK b \in BOOLEAN :
        /\ Returns(req, mem[req.key], b)
        /\ \/ b /\ wal' = Append(wal, line)
           \/ ~b /\ (wal' = Append(wal, spoilt) \/ wal' = wal)
  BY DEF LogWrite
<1> HIDE DEF line, spoilt
<1>w. wpc' = "idle"
  BY <1>2 DEF Returns
<1>3. Numbering'
  <2>1. ASSUME NEW i \in 1..Len(wal'), wal'[i].op \notin Unread
        PROVE  wal'[i].lsn <= lsn
    <3>1. \A j \in 1..Len(wal) : wal[j].op \notin Unread => wal[j].lsn <= lsn
      BY <1>0 DEF Numbering
    <3>2. CASE wal' = wal
      BY <2>1, <3>1, <3>2
    <3>3. ASSUME NEW l \in Line, wal' = Append(wal, l), l.op \notin Unread => l.lsn <= lsn
          PROVE  wal'[i].lsn <= lsn
      <4>1. Len(wal) \in Nat /\ Len(wal') = Len(wal) + 1 /\ wal'[Len(wal) + 1] = l
            /\ \A j \in 1..Len(wal) : wal'[j] = wal[j]
        BY <1>0, <3>3
      <4>2. i \in 1..Len(wal) \/ i = Len(wal) + 1
        BY <4>1
      <4> QED
        BY <2>1, <3>1, <3>3, <4>1, <4>2
    <3>4. line.lsn <= lsn /\ spoilt.op \in Unread
      BY <1>0, <1>1 DEF Unread
    <3> QED
      BY <1>1, <1>2, <3>2, <3>3, <3>4
  <2>2. spc' = "dumped" => image'.lsn <= lsn'
    BY <1>0 DEF Numbering
  <2> QED
    BY <1>0, <1>w, <2>1, <2>2 DEF Numbering
<1>4. ASSUME ~rotate', NEW k \in Keys, Plain(k)'
      PROVE  Cut(k)'
  <2>1. /\ leaks[k] \subseteq leaks'[k]
        /\ k # req.key => committed'[k] = committed[k]
        /\ k = req.key =>
             /\ committed'[k] = mem[k]
             /\ ~b => "lost" \in leaks'[k]
             /\ req.ttl # None => "ttl" \in leaks'[k]
             /\ snap # None /\ lsn <= snap.lsn => "lsn" \in leaks'[k]
    BY <1>0, <1>2 DEF Returns
  <2>2. Plain(k) /\ Cut(k)
    BY <1>0, <1>4, <2>1, PlainBefore
  <2>3. k = req.key => b /\ req.ttl = None /\ (snap # None => ~(lsn <= snap.lsn))
    BY <1>4, <2>1 DEF Plain
  <2>4. CASE wal' = wal
    <3>1. k # req.key
      <4>1. Append(wal, line) # wal
        BY <1>0, <1>1
      <4> QED
        BY <1>2, <2>3, <2>4, <4>1
    <3> QED
      BY <1>0, <2>1, <2>2, <2>4, <3>1, SameCut
  <2>5. CASE ~b /\ wal' = Append(wal, spoilt)
    <3>1. ~On(spoilt, k) /\ committed'[k] = committed[k]
      BY <1>1, <2>1, <2>3, <2>5 DEF On, Unread
    <3> QED
      BY <1>0, <1>1, <2>2, <2>5, <3>1, AppendCut
  <2>6. CASE b /\ wal' = Append(wal, line)
    <3>1. On(line, k) => /\ line.ttl = None
                         /\ line.op = "update" => committed[k] # None
                         /\ committed'[k] = Lasting(committed[k], line)
      <4>1. k = req.key /\ req.ttl = None =>
               /\ mem[k] = Lasting(committed[k], req)
               /\ req.op = "update" => committed[k] # None
        BY <1>0, <2>2, PlainKeys DEF MemFits
      <4> QED
        BY <1>1, <2>1, <2>3, <4>1 DEF On, Lasting
    <3>2. ~On(line, k) => committed'[k] = committed[k]
      BY <1>0, <1>1, <2>1 DEF On, Request, Unread
    <3>3. On(line, k) => /\ snap # None => snap.lsn < line.lsn
                         /\ spc = "dumped" => image.lsn < line.lsn
      BY <1>0, <1>1, <2>3 DEF On, Numbering
    <3>4. On(line, k) => line.ttl = None /\ (line.op = "update" => committed[k] # None)
      BY <3>1
    <3>5. On(line, k) => committed'[k] = Lasting(committed[k], line)
      BY <3>1
    <3> QED
      BY <1>0, <1>1, <2>2, <2>6, <3>2, <3>3, <3>4, <3>5, AppendCut
  <2> QED
    BY <1>2, <2>4, <2>5, <2>6
<1> QED
  BY <1>3, <1>4 DEF Cuts

LEMMA CrashCut ==
  ASSUME IInv, Numbering, Cuts, Crash
  PROVE  Numbering' /\ Cuts'
<1> DEFINE torn == [op |-> "torn", key |-> req.key, val |-> req.val,
                    ttl |-> req.ttl, lsn |-> lsn]
<1>0. /\ phase' = "down" /\ spc' = "idle" /\ wal \in Seq(Line)
      /\ crashes \in Nat /\ crashes' = crashes + 1
      /\ UNCHANGED <<rotate, snap, committed, leaks>>
      /\ snap # None => snap.lsn \in Nat
      /\ spc = "dumped" => image.lsn \in Nat
  BY DEF Crash, IInv, TypeOK, Discipline, Image
<1>1. Numbering'
  BY <1>0 DEF Numbering
<1>2. ASSUME ~rotate', NEW k \in Keys, Plain(k)'
      PROVE  Cut(k)'
  <2>1. Cut(k)
    BY <1>0, <1>2, PlainBefore
  <2>2. CASE wal' = wal
    BY <1>0, <2>1, <2>2, SameCut
  <2>3. CASE wpc = "logging" /\ wal' = Append(wal, torn)
    <3>1. torn \in Line /\ torn.op = "torn"
      <4>1. req \in Request /\ lsn \in Nat
        BY <2>3 DEF IInv, Discipline, TypeOK
      <4> QED
        BY <4>1 DEF Request, Line, Val, Args
    <3> HIDE DEF torn
    <3>2. ~On(torn, k)
      BY <3>1 DEF On, Unread
    <3> QED
      BY <1>0, <2>1, <2>3, <3>1, <3>2, AppendCut
  <2> QED
    BY <2>2, <2>3 DEF Crash
<1> QED
  BY <1>1, <1>2 DEF Cuts

LEMMA WriteCut ==
  ASSUME IInv, Numbering, Cuts, NEW e \in Requests, Write(e)
  PROVE  Numbering' /\ Cuts'
<1>0. /\ UNCHANGED <<wal, snap, spc, image, rotate, phase, crashes>>
      /\ phase = "up" /\ wpc = "idle" /\ lsn \in Nat /\ lsn' = lsn + 1
      /\ wal \in Seq(Line) /\ (spc = "dumped" => image.lsn \in Nat)
      /\ leaks \in [Keys -> SUBSET {"ttl", "incr", "lost", "lsn"}]
      /\ e.key \in Keys
  <2>1. e \in Request /\ e.key \in Keys
    BY DurabilityAssumption, Operations
  <2> QED
    BY <2>1 DEF Write, process, snapper, disk, bounds, IInv, TypeOK, Discipline, Image
<1>1. Numbering'
  <2>1. ASSUME NEW i \in 1..Len(wal), wal[i].op \notin Unread
        PROVE  wal[i].lsn <= lsn + 1
    <3>0. wal[i] \in Line
      BY <1>0
    <3>1. wal[i].lsn \in Nat /\ wal[i].lsn <= lsn
      BY <1>0, <2>1, <3>0 DEF Numbering, Line
    <3> QED
      BY <1>0, <3>1
  <2>2. spc = "dumped" => image.lsn <= lsn + 1 /\ image.lsn < lsn + 1
    BY <1>0 DEF Numbering
  <2>3. spc \in {"replaced", "closed", "renewed"} => rotate
    BY DEF Numbering
  <2> QED
    BY <1>0, <2>1, <2>2, <2>3 DEF Numbering
<1>2. ASSUME ~rotate', NEW k \in Keys, Plain(k)'
      PROVE  Cut(k)'
  <2>1. leaks[k] \subseteq leaks'[k] /\ committed'[k] = committed[k]
    <3>1. CASE Returns(e, mem'[e.key], FALSE)
      <4>1. leaks[k] \subseteq leaks'[k] /\ (k = e.key => "lost" \in leaks'[k])
            /\ (k # e.key => committed'[k] = committed[k])
        BY <1>0, <3>1 DEF Returns, IInv, TypeOK
      <4>2. k # e.key
        BY <1>2, <4>1 DEF Plain
      <4> QED
        BY <4>1, <4>2
    <3>2. CASE UNCHANGED history
      BY <3>2 DEF history
    <3> QED
      BY <3>1, <3>2 DEF Write
  <2>2. Cut(k)
    BY <1>0, <1>2, <2>1, PlainBefore
  <2> QED
    BY <1>0, <2>1, <2>2, SameCut
<1> QED
  BY <1>1, <1>2 DEF Cuts

\* The dump: every line there is has an LSN that is not ahead of it.
LEMMA DumpCut ==
  ASSUME IInv, Numbering, Cuts, Dump
  PROVE  Numbering' /\ Cuts'
<1>0. /\ phase = "up" /\ phase' = "up" /\ wpc = "idle" /\ wpc' = "idle"
      /\ spc' = "dumped" /\ mem' = Purged(mem) /\ image'.lsn = lsn /\ lsn \in Nat
      /\ UNCHANGED <<wal, snap, rotate, lsn, crashes, committed, leaks>>
      /\ wal \in Seq(Line)
      /\ \A k \in Keys :
           image'.data[k] = IF mem'[k] = None THEN None
                            ELSE [val |-> mem'[k].val,
                                  left |-> IF mem'[k].exp = None THEN None
                                           ELSE mem'[k].exp - now]
  BY DEF Dump, At, process, disk, bounds, IInv, TypeOK
<1>1. Numbering'
  BY <1>0 DEF Numbering
<1>2. ASSUME ~rotate', NEW k \in Keys, Plain(k)'
      PROVE  Cut(k)'
  <2>1. Plain(k) /\ Cut(k)
    BY <1>0, <1>2, PlainBefore
  <2>2. PICK T \in [0..Len(wal) -> Permanent] :
          T[0] = None /\ Trace(k, T) /\ (snap # None => IsCut(k, T, snap))
    BY <2>1 DEF Cut
  <2>3. Len(wal) \in Nat /\ Len(wal) \in 0..Len(wal) /\ T[Len(wal)] = committed[k]
    BY <1>0, <2>2 DEF Trace
  <2>4. Loaded(image'.data[k]) = committed[k]
    <3>1. mem'[k] = committed[k] /\ committed[k] \in Permanent
      BY <1>0, <2>1, <2>2, <2>3, PlainKeys, PurgedItem DEF MemFits
    <3> QED
      BY <1>0, <3>1, LoadedBack
  <2>5. ASSUME NEW i \in 1..Len(wal), On(wal[i], k)
        PROVE  i <= Len(wal) <=> wal[i].lsn <= lsn
    BY <1>0, <2>3, <2>5 DEF Numbering, On
  <2>6. IsCut(k, T, image)'
    <3>1. \E c \in 0..Len(wal) :
            /\ Loaded(image'.data[k]) = T[c]
            /\ \A i \in 1..Len(wal) : On(wal[i], k) => (i <= c <=> wal[i].lsn <= lsn)
      BY <2>3, <2>4, <2>5
    <3> QED
      BY <1>0, <3>1 DEF IsCut, Parts, On, Loaded
  <2>7. Trace(k, T)'
    BY <1>0, <2>2, SameTrace
  <2>8. snap' # None => IsCut(k, T, snap)'
    BY <1>0, <2>2 DEF IsCut, Parts, On, Loaded
  <2> QED
    BY <1>0, <2>2, <2>6, <2>7, <2>8 DEF Cut
<1> QED
  BY <1>1, <1>2 DEF Cuts

LEMMA ReplaceCut ==
  ASSUME IInv, Numbering, Cuts, Replace
  PROVE  Numbering' /\ Cuts'
<1>0. /\ spc = "dumped" /\ spc' = (IF rotate THEN "replaced" ELSE "idle") /\ snap' = image
      /\ UNCHANGED <<wal, phase, lsn, wpc, rotate, crashes, committed, leaks>>
  BY DEF Replace, At, process, memory, bounds, history
<1>1. Numbering'
  BY <1>0 DEF Numbering
<1>2. ASSUME ~rotate', NEW k \in Keys, Plain(k)'
      PROVE  Cut(k)'
  <2>1. Cut(k)
    BY <1>0, <1>2, PlainBefore
  <2>2. PICK T \in [0..Len(wal) -> Permanent] :
          T[0] = None /\ Trace(k, T) /\ IsCut(k, T, image)
    BY <1>0, <2>1 DEF Cut
  <2>3. Trace(k, T)'
    BY <1>0, <2>2, SameTrace
  <2>4. IsCut(k, T, snap)'
    BY <1>0, <2>2 DEF IsCut, Parts, On, Loaded
  <2> QED
    BY <1>0, <1>2, <2>2, <2>3, <2>4 DEF Cut
<1> QED
  BY <1>1, <1>2 DEF Cuts

\* A log that is rotated keeps no lines to cut.
LEMMA RotateCut ==
  ASSUME IInv, Numbering, Cuts, RotateClose \/ RotateRenew \/ RotateOpen \/ RotateFails
  PROVE  Numbering' /\ Cuts'
<1>0. /\ spc \in {"replaced", "closed", "renewed"} /\ spc' \in {"closed", "renewed", "idle"}
      /\ UNCHANGED <<phase, lsn, rotate>> /\ (wal' = wal \/ wal' = <<>>)
  BY DEF RotateClose, RotateRenew, RotateOpen, RotateFails, At, process, memory, disk
<1>1. rotate
  BY <1>0 DEF Numbering
<1>2. Numbering'
  BY <1>0, <1>1 DEF Numbering
<1> QED
  BY <1>0, <1>1, <1>2 DEF Cuts

\* The clock and the steps of a recovery.
LEMMA QuietCut ==
  ASSUME IInv, Numbering, Cuts, Tick \/ Boot \/ Replay \/ Recovered \/ UNCHANGED vars
  PROVE  Numbering' /\ Cuts'
<1>0. /\ UNCHANGED <<wal, snap, wpc, spc, image, rotate, crashes, leaks>>
      /\ \A k \in Keys : "ttl" \notin leaks[k] => committed'[k] = committed[k]
  BY DEF Tick, Boot, Replay, Recovered, vars, process, memory, snapper, disk, bounds,
         history
<1>1. Numbering'
  <2>1. CASE Tick \/ UNCHANGED vars
    <3>1. UNCHANGED <<phase, lsn>>
      BY <2>1 DEF Tick, vars, process, memory
    <3> QED
      BY <1>0, <3>1 DEF Numbering
  <2>2. CASE Boot \/ Replay
    <3>1. phase' = "replay" /\ spc = "idle"
      BY <2>2 DEF Boot, Replay, process, IInv, Discipline
    <3> QED
      BY <1>0, <3>1 DEF Numbering
  <2>3. CASE Recovered
    <3>1. spc = "idle" /\ lsn' = TopLsn
      BY <2>3 DEF Recovered, IInv, Discipline
    <3>2. \A i \in 1..Len(wal) : wal[i].op \notin Unread => wal[i].lsn <= TopLsn
      BY TopLsnIsTop DEF IInv, TypeOK, Discipline
    <3> QED
      BY <1>0, <3>1, <3>2 DEF Numbering
  <2> QED
    BY <2>1, <2>2, <2>3
<1>2. ASSUME ~rotate', NEW k \in Keys, Plain(k)'
      PROVE  Cut(k)'
  <2>1. Plain(k) /\ Cut(k)
    BY <1>0, <1>2, PlainBefore
  <2>2. committed'[k] = committed[k]
    BY <1>0, <2>1 DEF Plain
  <2> QED
    BY <1>0, <2>1, <2>2, SameCut
<1> QED
  BY <1>1, <1>2 DEF Cuts

-----------------------------------------------------------------------------
(* What the lines up to an LSN make. *)

\* The function that MadeUpTo computes with.
Making(n) ==
  CHOOSE f : f = [i \in 0..Len(wal) |->
                    IF i = 0 THEN NoItems
                    ELSE IF wal[i].lsn <= n THEN Applied(f[i - 1], wal[i])
                    ELSE f[i - 1]]

LEMMA MakingAt ==
  ASSUME wal \in Seq(Line), NEW n
  PROVE  \A i \in 0..Len(wal) :
           Making(n)[i] = IF i = 0 THEN NoItems
                          ELSE IF wal[i].lsn <= n THEN Applied(Making(n)[i - 1], wal[i])
                          ELSE Making(n)[i - 1]
<1> DEFINE Step(x, i) == IF wal[i].lsn <= n THEN Applied(x, wal[i]) ELSE x
           Is(f, j) == f = [i \in 0..j |-> IF i = 0 THEN NoItems ELSE Step(f[i - 1], i)]
           S == {j \in Nat : j <= Len(wal) /\ ~\E f : Is(f, j)}
<1>1. S = {}
  <2> SUFFICES ASSUME S # {} PROVE FALSE
    OBVIOUS
  <2>1. PICK j \in S : \A i \in S : j <= i
    BY LeastOfSome
  <2>2. CASE j = 0
    <3> DEFINE g == [i \in 0..0 |-> NoItems]
    <3>1. Is(g, 0)
      OBVIOUS
    <3> QED
      BY <2>1, <2>2, <3>1
  <2>3. CASE j # 0
    <3>0. j \in Nat /\ j <= Len(wal) /\ j - 1 \in Nat /\ Len(wal) \in Nat
      BY <2>1, <2>3
    <3>1. j - 1 <= Len(wal) /\ j - 1 \notin S
      <4> HIDE DEF S
      <4> QED
        BY <2>1, <3>0
    <3>2. PICK f : Is(f, j - 1)
      BY <3>0, <3>1
    <3> DEFINE g == [i \in 0..j |-> IF i = 0 THEN NoItems ELSE Step(f[i - 1], i)]
    <3> HIDE DEF Step
    <3>3. ASSUME NEW i \in 0..(j - 1) PROVE g[i] = f[i]
      BY <3>0, <3>2
    <3>4. ASSUME NEW i \in 0..j, i # 0 PROVE g[i] = Step(g[i - 1], i)
      <4>1. i - 1 \in 0..(j - 1)
        BY <3>0, <3>4
      <4>2. g[i - 1] = f[i - 1]
        BY <3>3, <4>1
      <4>3. g[i] = Step(f[i - 1], i)
        BY <3>4
      <4> HIDE DEF g
      <4> QED
        BY <4>2, <4>3
    <3>5. g = [i \in 0..j |-> g[i]]
      OBVIOUS
    <3>6. \A i \in 0..j : g[i] = IF i = 0 THEN NoItems ELSE Step(g[i - 1], i)
      <4>1. ASSUME NEW i \in 0..j, i = 0 PROVE g[i] = NoItems
        BY <4>1
      <4> HIDE DEF g
      <4> QED
        BY <3>4, <4>1
    <3>7. Is(g, j)
      <4> HIDE DEF g
      <4> QED
        BY <3>5, <3>6
    <3> QED
      BY <2>1, <3>7
  <2> QED
    BY <2>2, <2>3
<1>2. Len(wal) \in Nat
  OBVIOUS
<1>3. \E f : Is(f, Len(wal))
  BY <1>1, <1>2
<1>4. Is(Making(n), Len(wal))
  BY <1>3 DEF Making
<1> HIDE DEF Making
<1> QED
  BY <1>4

\* The lines of a key up to line c make what its trace says, if LSNs part them there.
LEMMA MadeOfLines ==
  ASSUME wal \in Seq(Line), now \in Nat, NEW k \in Keys, LinesFit(k), NEW n \in Nat,
         NEW T \in [0..Len(wal) -> Permanent], T[0] = None, Trace(k, T),
         NEW c \in 0..Len(wal), Parts(k, c, n)
  PROVE  MadeUpTo(n)[k] = T[c]
<1> DEFINE M == Making(n)
           At_(i) == IF i <= c THEN T[i] ELSE T[c]
           Good(i) == M[i] \in [Keys -> Item \cup {None}] /\ M[i][k] = At_(i)
           S == {i \in Nat : i <= Len(wal) /\ ~Good(i)}
<1>0. Len(wal) \in Nat /\ c \in Nat
  OBVIOUS
<1>m. MadeUpTo(n) = M[Len(wal)]
  BY DEF MadeUpTo, Making
<1>f. \A i \in 0..Len(wal) :
        M[i] = IF i = 0 THEN NoItems
               ELSE IF wal[i].lsn <= n THEN Applied(M[i - 1], wal[i]) ELSE M[i - 1]
  BY MakingAt
<1> HIDE DEF M
<1>1. S = {}
  <2> SUFFICES ASSUME S # {} PROVE FALSE
    OBVIOUS
  <2>1. PICK i \in S : \A j \in S : i <= j
    BY LeastOfSome
  <2>2. i \in 0..Len(wal) /\ i \in Nat /\ ~Good(i)
    BY <1>0, <2>1
  <2>3. CASE i = 0
    <3>1. M[i] = NoItems
      BY <1>f, <2>2, <2>3
    <3>2. Good(i)
      BY <1>0, <2>3, <3>1 DEF NoItems
    <3> QED
      BY <2>2, <3>2
  <2>4. CASE i # 0
    <3>0. i \in 1..Len(wal) /\ i - 1 \in Nat /\ i - 1 \in 0..Len(wal) /\ wal[i] \in Line
      BY <1>0, <2>2, <2>4
    <3>1. Good(i - 1)
      <4>1. i - 1 \notin S
        <5> HIDE DEF S
        <5> QED
          BY <2>1, <2>2, <3>0
      <4> HIDE DEF Good
      <4> QED
        BY <1>0, <3>0, <4>1
    <3>2. PICK m : m = M[i - 1]
      OBVIOUS
    <3>3. /\ m \in [Keys -> Item \cup {None}] /\ m[k] = At_(i - 1)
          /\ M[i] = IF wal[i].lsn <= n THEN Applied(m, wal[i]) ELSE m
      BY <1>f, <2>2, <2>4, <3>1, <3>2
    <3>4. At_(i - 1) \in Permanent /\ T[i] \in Permanent
      BY <1>0, <2>2, <3>0
    <3>5. /\ T[i] = IF On(wal[i], k) THEN Lasting(T[i - 1], wal[i]) ELSE T[i - 1]
          /\ On(wal[i], k) => wal[i].ttl = None /\ (i <= c <=> wal[i].lsn <= n)
      BY <3>0 DEF Trace, LinesFit, Parts
    <3>6. M[i] \in [Keys -> Item \cup {None}]
      BY <3>0, <3>3, AppliedItem
    <3>7. CASE wal[i].lsn <= n /\ On(wal[i], k)
      <4>1. i <= c /\ i - 1 <= c
        BY <1>0, <2>2, <3>5, <3>7
      <4>2. m[k] = T[i - 1] /\ m[k] \in Permanent
        BY <3>3, <3>4, <4>1
      <4>3. Applied(m, wal[i])[k] = After(m[k], wal[i])
        BY <3>0, <3>3, <3>7, <4>2, AppliedItem DEF On
      <4>4. After(m[k], wal[i]) = Lasting(m[k], wal[i])
        BY <3>0, <3>5, <3>7, <4>2, AfterLasting
      <4>5. M[i][k] = T[i]
        BY <3>3, <3>5, <3>7, <4>2, <4>3, <4>4
      <4> QED
        BY <2>2, <3>6, <4>1, <4>5
    <3>8. CASE ~(wal[i].lsn <= n /\ On(wal[i], k))
      <4>1. M[i][k] = m[k]
        <5>1. CASE wal[i].lsn <= n
          <6>1. m[k] \in Permanent /\ (k # wal[i].key \/ wal[i].op \in Unread)
            BY <3>3, <3>4, <3>8, <5>1 DEF On
          <6> QED
            BY <3>0, <3>3, <5>1, <6>1, AppliedItem
        <5> QED
          BY <3>3, <5>1
      <4>2. At_(i) = At_(i - 1)
        <5>1. CASE On(wal[i], k)
          <6>1. ~(i <= c)
            BY <3>5, <3>8, <5>1
          <6>2. i - 1 <= c => i - 1 = c
            BY <1>0, <2>2, <6>1
          <6> QED
            BY <6>1, <6>2
        <5>2. CASE ~On(wal[i], k)
          <6>1. T[i] = T[i - 1]
            BY <3>5, <5>2
          <6>2. i \in Nat /\ c \in Nat
            BY <1>0, <2>2
          <6>3. CASE i <= c
            BY <6>1, <6>2, <6>3
          <6>4. CASE ~(i <= c) /\ i - 1 <= c
            <7>1. i - 1 = c
              BY <6>2, <6>4
            <7> QED
              BY <6>1, <6>4, <7>1
          <6>5. CASE ~(i <= c) /\ ~(i - 1 <= c)
            BY <6>5
          <6> QED
            BY <6>3, <6>4, <6>5, <6>2
        <5> QED
          BY <5>1, <5>2
      <4> HIDE DEF At_
      <4>3. M[i][k] = At_(i)
        BY <3>3, <4>1, <4>2
      <4> QED
        BY <2>2, <3>6, <4>3
    <3> QED
      BY <3>7, <3>8
  <2> QED
    BY <2>3, <2>4
<1>2. Good(Len(wal))
  <2> HIDE DEF Good
  <2> QED
    BY <1>0, <1>1
<1>3. M[Len(wal)][k] = T[c]
  <2>1. Len(wal) <= c => Len(wal) = c
    BY <1>0
  <2> QED
    BY <1>2, <2>1
<1> QED
  BY <1>m, <1>3

-----------------------------------------------------------------------------
(* The theorems. *)

LEMMA InitInv == Init => IInv
<1> SUFFICES ASSUME Init PROVE IInv
  OBVIOUS
<1>a. rotate \in BOOLEAN
  <2>1. rotate \in Rotations
    BY DEF Init
  <2> QED
    BY <2>1, DurabilityAssumption, Zenon
<1>1. TypeOK /\ Discipline
  BY <1>a, DurabilityAssumption DEF Init, TypeOK, Discipline, NoItems
<1>2. ASSUME NEW k \in Keys PROVE Accounted(k)
  <2>1. LinesFit(k) /\ MemFits(k) /\ SinceFits(k)
    BY DEF Init, LinesFit, MemFits, SinceFits, NoItems
  <2>u. PICK T : T = [i \in 0..0 |-> None]
    OBVIOUS
  <2>2. Len(wal) = 0 /\ T \in [0..Len(wal) -> Permanent] /\ T[0] = None
    BY <2>u DEF Init, Permanent
  <2>3. Trace(k, T) /\ Loads(k, T) /\ Dumps(k, T)
    BY <2>2 DEF Init, Trace, Loads, Dumps, Base, NoItems
  <2> QED
    BY <2>1, <2>2, <2>3 DEF Traced, Accounted
<1> QED
  BY <1>1, <1>2 DEF IInv

LEMMA StepInv == IInv /\ [Next]_vars => IInv'
<1> SUFFICES ASSUME IInv, [Next]_vars PROVE IInv'
  OBVIOUS
<1>1. CASE Tick
  BY <1>1, TickType, TickKeeps DEF IInv
<1>2. CASE \E e \in Requests : Write(e)
  BY <1>2, WriteType, WriteKeeps DEF IInv
<1>3. CASE LogWrite
  BY <1>3, LogWriteType, LogWriteKeeps DEF IInv
<1>4. CASE Snapshot
  <2>1. TypeOK' /\ Discipline'
    BY <1>4, SnapshotType
  <2>2. ASSUME NEW k \in Keys, Clean(k)' PROVE Accounted(k)'
    BY <1>4, <2>2, DumpKeeps, ReplaceKeeps, RotateKeeps, RenewKeeps DEF Snapshot
  <2> QED
    BY <2>1, <2>2 DEF IInv
<1>5. CASE Crash
  BY <1>5, CrashType, CrashKeeps DEF IInv
<1>6. CASE Boot
  BY <1>6, BootType, BootKeeps DEF IInv
<1>7. CASE Replay
  BY <1>7, ReplayType, ReplayKeeps DEF IInv
<1>8. CASE Recovered
  BY <1>8, ReplayType, RecoveredKeeps DEF IInv
<1>9. CASE UNCHANGED vars
  <2>0. UNCHANGED <<wal, snap, phase, now, rotate, mem, lsn, file, wpc, req, pos, spc,
                    image, crashes, tears, committed, since, started, leaks>>
    BY <1>9 DEF vars, process, memory, snapper, disk, bounds, history
  <2>1. TypeOK' /\ Discipline'
    BY <2>0 DEF IInv, TypeOK, Discipline
  <2>2. ASSUME NEW k \in Keys, Clean(k)' PROVE Accounted(k)'
    <3>1. Clean(k)
      BY <2>0, <2>2 DEF Clean
    <3>2. LinesFit(k)' /\ MemFits(k)' /\ SinceFits(k)'
      BY <2>0, <3>1, Fits DEF LinesFit, On, MemFits, Lasting, SinceFits, Base
    <3>3. PICK T \in [0..Len(wal) -> Permanent] :
            Trace(k, T) /\ Loads(k, T) /\ Dumps(k, T)
      BY <3>1, Fits DEF Traced
    <3>4. Trace(k, T)' /\ Loads(k, T)' /\ Dumps(k, T)'
      BY <2>0, <3>3, SameTrace DEF Loads, Dumps, Base
    <3> QED
      BY <2>0, <3>2, <3>3, <3>4 DEF Traced, Accounted
  <2> QED
    BY <2>1, <2>2 DEF IInv
<1> QED
  BY <1>1, <1>2, <1>3, <1>4, <1>5, <1>6, <1>7, <1>8, <1>9 DEF Next

\* Every state that can be reached accounts for every key that does not leak.
THEOREM Inductive == Spec => []IInv
<1> QED
  BY InitInv, StepInv, PTL DEF Spec

\* Whatever crashes, however often and wherever in a write, a snapshot, a rotation or
\* a recovery (wal.py, snapshot.py, server.py), the memory holds between two calls
\* what the logged writes made of every key that is not known to leak.
THEOREM RecoveryExact == Spec => []RecoveryIsExact
<1>1. IInv => RecoveryIsExact
  <2> SUFFICES ASSUME IInv, phase = "up", wpc = "idle",
                      NEW k \in Keys,
                      leaks[k] \subseteq {"lsn"} \cup
                                         (IF snap = None THEN {"incr"} ELSE {})
               PROVE  mem[k] = committed[k]
    BY DEF RecoveryIsExact, IInv
  <2> QED
    BY Fits DEF Clean, MemFits
<1> QED
  BY <1>1, Inductive, PTL

\* The log, the dump and the snapshot stay in step, and a snapshot cuts the log at its
\* LSN.
LEMMA CutStep == CutInv /\ [Next]_vars => CutInv'
<1> SUFFICES ASSUME CutInv, [Next]_vars PROVE CutInv'
  OBVIOUS
<1>0. IInv /\ Numbering /\ Cuts
  BY DEF CutInv
<1>1. IInv'
  BY <1>0, StepInv
<1>2. Numbering' /\ Cuts'
  BY <1>0, QuietCut, WriteCut, LogWriteCut, DumpCut, ReplaceCut, RotateCut, CrashCut
     DEF Next, Snapshot
<1> QED
  BY <1>1, <1>2 DEF CutInv

LEMMA CutInit == Init => CutInv
<1> SUFFICES ASSUME Init PROVE CutInv
  OBVIOUS
<1>1. IInv
  BY InitInv
<1>2. Numbering
  BY DEF Init, Numbering
<1>3. ASSUME NEW k \in Keys PROVE Cut(k)
  <2>u. PICK T : T = [i \in 0..0 |-> None]
    OBVIOUS
  <2>1. Len(wal) = 0 /\ T \in [0..Len(wal) -> Permanent] /\ T[0] = None
    BY <2>u DEF Init, Permanent
  <2>2. Trace(k, T) /\ snap = None /\ spc = "idle"
    BY <2>1 DEF Init, Trace, NoItems
  <2> QED
    BY <2>1, <2>2 DEF Cut
<1> QED
  BY <1>1, <1>2, <1>3 DEF CutInv, Cuts

\* A snapshot taken beside the writes (snapshot.py, snapshot_once; dump_with_lsn of
\* sharded.py) holds what the lines up to its LSN make, also when it is older than the
\* log or survived any number of crashes and torn lines.
THEOREM SnapshotCutsTheLog == Spec => []SnapshotIsCut
<1>1. CutInv => SnapshotIsCut
  <2> SUFFICES ASSUME CutInv, snap # None, ~rotate, NEW k \in Keys,
                      leaks[k] \subseteq (IF crashes = 0 THEN {"incr"} ELSE {}),
                      NEW made, made = MadeUpTo(snap.lsn)[k]
               PROVE  /\ snap.data[k] = None <=> made = None
                      /\ snap.data[k] # None => snap.data[k].val = made.val
    BY DEF SnapshotIsCut
  <2>1. IInv /\ Plain(k) /\ Cut(k)
    BY DEF CutInv, Cuts, Plain
  <2>2. snap.lsn \in Nat /\ snap.data[k] \in Kept \cup {None}
    BY <2>1 DEF IInv, TypeOK, Image
  <2>3. PICK T \in [0..Len(wal) -> Permanent] :
          T[0] = None /\ Trace(k, T) /\ IsCut(k, T, snap)
    BY <2>1 DEF Cut
  <2>4. PICK c \in 0..Len(wal) : Loaded(snap.data[k]) = T[c] /\ Parts(k, c, snap.lsn)
    BY <2>3 DEF IsCut
  <2>5. made = T[c]
    BY <2>1, <2>2, <2>3, <2>4, PlainKeys, MadeOfLines
  <2>6. made = Loaded(snap.data[k])
    BY <2>4, <2>5
  <2>7. snap.data[k] # None => made = [val |-> snap.data[k].val, exp |-> snap.data[k].left]
    BY <2>6 DEF Loaded
  <2>8. snap.data[k] # None => made \in Item
    BY <2>2, <2>7 DEF Kept, Item
  <2>9. snap.data[k] = None => made = None
    BY <2>6 DEF Loaded
  <2>10. snap.data[k] # None => made # None
    BY <2>8, DurabilityAssumption
  <2> QED
    BY <2>7, <2>9, <2>10
<1>2. Spec => []CutInv
  BY CutInit, CutStep, PTL DEF Spec
<1> QED
  BY <1>1, <1>2, PTL

-----------------------------------------------------------------------------
(* Keys with deadlines. *)

\* The keys that LiveValuesRecovered is about.
Timely(k) == leaks[k] \subseteq {"ttl", "lsn"}

Alive(x, t) == x # None /\ (x.exp # None => ~(x.exp <= t))

\* The image s has k, with time left to live.
Holds(s, k) == s # None /\ s.data[k] # None /\ s.data[k].left # 0

\* From line j of the log lg on, or from the snapshot s on if j is 0, the first p lines
\* leave k where it is, if the clock does.
There(lg, p, s, k, j) ==
  /\ IF j = 0 THEN Holds(s, k) ELSE On(lg[j], k) /\ lg[j].op \in {"create", "mset"}
  /\ \A h \in 1..p : On(lg[h], k) =>
       /\ h >= j /\ lg[h].op # "persist" => lg[h].ttl # 0
       /\ h > j => lg[h].op \in {"update", "persist"}

\* Line i, or the snapshot if i is 0, is the last to give k a value, and that is v.
Says(lg, p, s, k, i, v) ==
  /\ IF i = 0 THEN Holds(s, k) /\ s.data[k].val = v
     ELSE On(lg[i], k) /\ lg[i].op \in {"create", "mset", "update"} /\ lg[i].val = v
  /\ \A h \in 1..p : On(lg[h], k) /\ h > i => lg[h].op = "persist"

Tells(lg, p, s, k, v) ==
  /\ \E j \in 0..p : There(lg, p, s, k, j)
  /\ \E i \in 0..p : Says(lg, p, s, k, i, v)

\* The log and the snapshot must tell of k.
Needed(k) ==
  \/ Alive(committed[k], now)
  \/ wpc = "logging" /\ req.key = k /\ req.op \in {"update", "persist"}

Recorded(k) ==
  Needed(k) =>
    /\ Tells(wal, Len(wal), snap, k, committed[k].val)
    /\ spc = "dumped" => Tells(wal, Len(wal), image, k, committed[k].val)

NoCounting(k) == \A i \in 1..Len(wal) : On(wal[i], k) => wal[i].op # "incr"

\* A write under way has changed the shard, but is not committed.
InMemory(k) ==
  phase = "up" =>
    IF wpc = "logging" /\ req.key = k
    THEN Alive(mem[k], now) =>
           /\ req.op # "delete"
           /\ req.op \in {"create", "mset", "update"} => mem[k].val = req.val /\ req.ttl # 0
           /\ req.op = "persist" => mem[k].val = committed[k].val
    ELSE Alive(mem[k], now) \/ Alive(committed[k], now) => mem[k] = committed[k]

\* What rotation rests on.
Unwritten(k) ==
  k \notin since /\ Needed(k) =>
    /\ spc = "dumped" => Holds(image, k) /\ image.data[k].val = committed[k].val
    /\ spc \in {"replaced", "closed"} =>
         Holds(snap, k) /\ snap.data[k].val = committed[k].val

\* What is replayed is what the lines so far tell; in no time at all, also all of that.
Replayed(k) ==
  phase = "replay" =>
    /\ Alive(mem[k], now) => Tells(wal, pos - 1, snap, k, mem[k].val)
    /\ now = started =>
         \A j \in 0..(pos - 1) : There(wal, pos - 1, snap, k, j) => Alive(mem[k], now)

Lives(k) ==
  Recorded(k) /\ NoCounting(k) /\ InMemory(k) /\ Unwritten(k) /\ Replayed(k)

LiveInv ==
  /\ IInv
  /\ phase = "replay" => started <= now
  /\ \A k \in Keys : Timely(k) => Lives(k)

\* What the lines tell goes on with every line of k that does not delete it.
LEMMA TellsOn ==
  ASSUME NEW lg, NEW lg2, NEW p \in Nat, \A h \in 1..p : lg2[h] = lg[h],
         NEW s, NEW k, NEW v, Tells(lg, p, s, k, v),
         On(lg2[p + 1], k) => lg2[p + 1].op = "persist"
  PROVE  Tells(lg2, p + 1, s, k, v)
<1>1. \A h \in 1..(p + 1) : h \in 1..p \/ h = p + 1
  OBVIOUS
<1>2. \A j \in 0..p : j \in 0..(p + 1) /\ (j # 0 => j \in 1..p)
  OBVIOUS
<1>3. PICK j \in 0..p : There(lg, p, s, k, j)
  BY DEF Tells
<1>4. PICK i \in 0..p : Says(lg, p, s, k, i, v)
  BY DEF Tells
<1>5. There(lg2, p + 1, s, k, j)
  BY <1>1, <1>2, <1>3 DEF There
<1>6. Says(lg2, p + 1, s, k, i, v)
  BY <1>1, <1>2, <1>4 DEF Says
<1> QED
  BY <1>2, <1>5, <1>6 DEF Tells

LEMMA TellsChange ==
  ASSUME NEW lg, NEW lg2, NEW p \in Nat, \A h \in 1..p : lg2[h] = lg[h],
         NEW s, NEW k, NEW w, Tells(lg, p, s, k, w),
         On(lg2[p + 1], k), lg2[p + 1].op = "update", lg2[p + 1].ttl # 0
  PROVE  Tells(lg2, p + 1, s, k, lg2[p + 1].val)
<1>1. \A h \in 1..(p + 1) : h \in 1..p \/ h = p + 1
  OBVIOUS
<1>2. \A j \in 0..p : j \in 0..(p + 1) /\ (j # 0 => j \in 1..p)
  OBVIOUS
<1>3. PICK j \in 0..p : There(lg, p, s, k, j)
  BY DEF Tells
<1>4. There(lg2, p + 1, s, k, j)
  BY <1>1, <1>2, <1>3 DEF There
<1>5. p + 1 \in 0..(p + 1) /\ p + 1 # 0 /\ \A h \in 1..(p + 1) : ~(h > p + 1)
  OBVIOUS
<1>6. Says(lg2, p + 1, s, k, p + 1, lg2[p + 1].val)
  BY <1>5 DEF Says
<1> QED
  BY <1>2, <1>4, <1>5, <1>6 DEF Tells

LEMMA TellsFresh ==
  ASSUME NEW lg, NEW p \in Nat, NEW s, NEW k,
         On(lg[p + 1], k), lg[p + 1].op \in {"create", "mset"}, lg[p + 1].ttl # 0
  PROVE  Tells(lg, p + 1, s, k, lg[p + 1].val)
<1>1. p + 1 \in 0..(p + 1) /\ p + 1 # 0
      /\ \A h \in 1..(p + 1) : ~(h > p + 1) /\ (h >= p + 1 => h = p + 1)
  OBVIOUS
<1>2. There(lg, p + 1, s, k, p + 1)
  BY <1>1 DEF There
<1>3. Says(lg, p + 1, s, k, p + 1, lg[p + 1].val)
  BY <1>1 DEF Says
<1> QED
  BY <1>1, <1>2, <1>3 DEF Tells

\* They tell the same with another snapshot that has k.
LEMMA TellsOther ==
  ASSUME NEW lg, NEW p \in Nat, NEW s, NEW t, NEW k, NEW v, Tells(lg, p, s, k, v),
         Holds(t, k), t.data[k].val = v
  PROVE  Tells(lg, p, t, k, v)
BY DEF Tells, There, Says

LEMMA TellsNone ==
  ASSUME NEW lg, NEW s, NEW k, Holds(s, k)
  PROVE  Tells(lg, 0, s, k, s.data[k].val)
<1>1. 0 \in 0..0 /\ 1..0 = {}
  OBVIOUS
<1> QED
  BY <1>1 DEF Tells, There, Says

LEMMA TellsOne ==
  ASSUME NEW lg, NEW p \in Nat, NEW s, NEW k, NEW v, NEW w,
         Tells(lg, p, s, k, v), Tells(lg, p, s, k, w)
  PROVE  v = w
<1>1. PICK i \in 0..p : Says(lg, p, s, k, i, v)
  BY DEF Tells
<1>2. PICK j \in 0..p : Says(lg, p, s, k, j, w)
  BY DEF Tells
<1>3. ASSUME NEW a \in 0..p, NEW b \in 0..p, NEW x, NEW y,
             Says(lg, p, s, k, a, x), Says(lg, p, s, k, b, y)
      PROVE  ~(a < b)
  <2> SUFFICES ASSUME a < b PROVE FALSE
    OBVIOUS
  <2>1. b \in 1..p /\ b > a /\ b # 0
    OBVIOUS
  <2>2. On(lg[b], k) /\ lg[b].op \in {"create", "mset", "update"}
    BY <1>3, <2>1 DEF Says
  <2>3. lg[b].op = "persist"
    BY <1>3, <2>1, <2>2 DEF Says
  <2> QED
    BY <2>2, <2>3
<1>4. ~(i < j) /\ ~(j < i)
  BY <1>1, <1>2, <1>3
<1>5. i = j
  BY <1>4
<1> QED
  BY <1>1, <1>2, <1>5 DEF Says

\* What a request or line does to a key that has not expired, x, or to none.
LEMMA AfterAlive ==
  ASSUME now \in Nat, NEW x \in Item \cup {None}, x # None => Alive(x, now),
         NEW e \in Request \cup Line
  PROVE  /\ e.op \in {"create", "mset"} =>
              /\ After(x, e) # None /\ After(x, e).val = e.val
              /\ e.ttl # 0 <=> Alive(After(x, e), now)
         /\ e.op = "update" =>
              /\ x = None => After(x, e) = None
              /\ x # None => /\ After(x, e) # None /\ After(x, e).val = e.val
                             /\ e.ttl # 0 <=> Alive(After(x, e), now)
         /\ e.op = "persist" =>
              /\ x = None => After(x, e) = None
              /\ x # None => After(x, e).val = x.val /\ Alive(After(x, e), now)
         /\ e.op = "delete" => After(x, e) = None
         /\ e.op \in Unread => After(x, e) = x
<1>1. e.ttl \in Args /\ e.val \in Nat /\ None \notin Nat /\ None \notin Item
  BY Operations, DurabilityAssumption
<1>a. e.ttl # None => e.ttl \in Nat
  BY <1>1, DurabilityAssumption DEF Args
<1>b. \A t \in Nat : now + t \in Nat /\ (now + t <= now <=> t = 0)
  OBVIOUS
<1>2. e.ttl # None => e.ttl \in Nat /\ now + e.ttl \in Nat /\ (now + e.ttl <= now <=> e.ttl = 0)
  BY <1>a, <1>b
<1>3. Fresh(e).val = e.val /\ Fresh(e).exp = DeadlineOf(e.ttl) /\ Fresh(e) # None
  <2>1. Fresh(e) \in Item
    BY <1>1, Deadlines DEF Fresh, Item
  <2> QED
    BY <1>1, <2>1 DEF Fresh
<1>4. e.ttl # 0 <=> Alive(Fresh(e), now)
  BY <1>1, <1>2, <1>3 DEF Alive, DeadlineOf
<1>5. ASSUME x # None
      PROVE  LET y == Changed(x, e.val, e.ttl)
             IN y.val = e.val /\ y # None /\ (e.ttl # 0 <=> Alive(y, now))
  <2> DEFINE y == Changed(x, e.val, e.ttl)
  <2>1. y.val = e.val /\ y.exp = IF e.ttl = None THEN x.exp ELSE now + e.ttl
    BY DEF Changed
  <2>2. y \in Item
    BY <1>1, <1>2, <1>5 DEF Changed, Item
  <2>3. e.ttl # 0 <=> Alive(y, now)
    <3> HIDE DEF y
    <3>1. y # None
      BY <1>1, <2>2
    <3>2. CASE e.ttl = None
      BY <1>1, <1>5, <2>1, <3>1, <3>2 DEF Alive
    <3>3. CASE e.ttl # None
      BY <1>1, <1>2, <2>1, <3>1, <3>3 DEF Alive
    <3> QED
      BY <3>2, <3>3
  <2> QED
    BY <1>1, <2>1, <2>2, <2>3
<1>6. x # None => /\ [x EXCEPT !.exp = None].val = x.val
                  /\ Alive([x EXCEPT !.exp = None], now)
  <2>1. x # None => [x EXCEPT !.exp = None] \in Item
                    /\ [x EXCEPT !.exp = None].exp = None
                    /\ [x EXCEPT !.exp = None].val = x.val
    BY DEF Item
  <2> QED
    BY <1>1, <2>1 DEF Alive
<1>7. /\ e.op = "mset" => After(x, e) = Fresh(e)
      /\ e.op = "create" => After(x, e) = IF x = None THEN Fresh(e)
                                          ELSE Changed(x, e.val, e.ttl)
      /\ e.op = "update" => After(x, e) = IF x = None THEN None
                                          ELSE Changed(x, e.val, e.ttl)
      /\ e.op = "persist" => After(x, e) = IF x = None THEN None
                                           ELSE [x EXCEPT !.exp = None]
      /\ e.op = "delete" => After(x, e) = None
      /\ e.op \in Unread => After(x, e) = x
  BY DEF After, Unread
<1>8. CASE e.op \in {"create", "mset"}
  BY <1>3, <1>4, <1>5, <1>7, <1>8 DEF Unread
<1>9. CASE e.op = "update"
  BY <1>5, <1>7, <1>9 DEF Unread
<1>10. CASE e.op = "persist"
  BY <1>6, <1>7, <1>10 DEF Unread
<1>11. CASE e.op \notin {"create", "mset", "update", "persist"}
  BY <1>7, <1>11 DEF Unread
<1> QED
  BY <1>8, <1>9, <1>10, <1>11

\* The item of a key once a line or a request is applied, and what it was applied to.
LEMMA AppliedAlive ==
  ASSUME now \in Nat, NEW m \in [Keys -> Item \cup {None}], NEW e \in Request \cup Line,
         NEW k \in Keys
  PROVE  \E x \in Item \cup {None} :
           /\ x = IF Alive(m[k], now) THEN m[k] ELSE None
           /\ x # None => Alive(x, now)
           /\ Purged(m)[k] = x
           /\ Applied(m, e)[k] = IF k = e.key THEN After(x, e) ELSE x
<1>1. Purged(m) \in [Keys -> Item \cup {None}]
  BY PurgedItem
<1>2. Purged(m)[k] = IF Alive(m[k], now) THEN m[k] ELSE None
  BY DEF Purged, Alive
<1>3. Applied(m, e)[k] = IF k = e.key THEN After(Purged(m)[k], e) ELSE Purged(m)[k]
  BY <1>1 DEF Applied
<1>4. None # m[k] => m[k] \in Item
  OBVIOUS
<1> QED
  BY <1>1, <1>2, <1>3

LEMMA TimelyBefore ==
  ASSUME LiveInv, NEW k \in Keys, Timely(k)', leaks[k] \subseteq leaks'[k]
  PROVE  /\ Timely(k) /\ Recorded(k) /\ NoCounting(k) /\ InMemory(k) /\ Unwritten(k)
         /\ Replayed(k)
BY DEF Timely, LiveInv, Lives
\* What the proofs about the steps know of the state.
LEMMA LiveState ==
  ASSUME LiveInv
  PROVE  /\ wal \in Seq(Line) /\ Len(wal) \in Nat /\ now \in Nat /\ started \in Nat
         /\ mem \in [Keys -> Item \cup {None}] /\ committed \in [Keys -> Item \cup {None}]
         /\ leaks \in [Keys -> SUBSET {"ttl", "incr", "lost", "lsn"}]
         /\ phase # "up" => spc = "idle" /\ wpc = "idle"
         /\ wpc = "logging" => req \in Request
         /\ phase = "replay" => pos \in 1..Len(wal) + 1 /\ started <= now
         /\ spc \in {"replaced", "closed"} => snap # None
BY DEF LiveInv, IInv, TypeOK, Discipline

\* The steps that leave the files, the dump, the write and what is committed alone,
\* between two recoveries.
LEMMA SameRecords ==
  ASSUME NEW k \in Keys, wal' = wal, snap' = snap, leaks[k] \subseteq leaks'[k],
         committed'[k] = committed[k], Needed(k)' => Needed(k),
         spc' = "dumped" => spc = "dumped" /\ image' = image,
         Recorded(k), NoCounting(k)
  PROVE  Recorded(k)' /\ NoCounting(k)'
<1>1. Recorded(k)'
  BY DEF Recorded
<1>2. NoCounting(k)'
  BY DEF NoCounting
<1> QED
  BY <1>1, <1>2

LEMMA TickLives ==
  ASSUME LiveInv, NEW k \in Keys, Timely(k)', Tick
  PROVE  Lives(k)' /\ (phase = "replay" => started <= now)'
<1>0. /\ UNCHANGED <<wal, snap, phase, mem, wpc, req, pos, spc, image, committed, since,
                     started, leaks>>
      /\ now' = now + 1 /\ now \in Nat
  BY LiveState DEF Tick, memory, snapper, disk, history
<1>1. Recorded(k) /\ NoCounting(k) /\ InMemory(k) /\ Unwritten(k) /\ Replayed(k)
  BY <1>0, TimelyBefore
<1>2. /\ Alive(mem[k], now') => Alive(mem[k], now)
      /\ Alive(committed[k], now') => Alive(committed[k], now)
  <2>1. ASSUME NEW x \in Item \cup {None}, Alive(x, now') PROVE Alive(x, now)
    <3>1. x # None /\ x.exp \in Nat \cup {None}
      BY <2>1 DEF Alive, Item
    <3> QED
      BY <1>0, <2>1, <3>1 DEF Alive
  <2> QED
    BY <2>1, LiveState
<1>3. Needed(k)' => Needed(k)
  BY <1>0, <1>2 DEF Needed
<1>4. Recorded(k)' /\ NoCounting(k)'
  BY <1>0, <1>1, <1>3, SameRecords
<1>5. InMemory(k)'
  BY <1>0, <1>1, <1>2 DEF InMemory
<1>6. Unwritten(k)'
  BY <1>0, <1>1, <1>3 DEF Unwritten
<1>7. phase = "replay" => started <= now /\ started \in Nat
  BY LiveState
<1>8. phase = "replay" => now' # started' /\ started' <= now'
  BY <1>0, <1>7
<1>9. Replayed(k)'
  BY <1>0, <1>1, <1>2, <1>8 DEF Replayed
<1> QED
  BY <1>0, <1>4, <1>5, <1>6, <1>8, <1>9 DEF Lives

LEMMA WriteLives ==
  ASSUME LiveInv, NEW k \in Keys, Timely(k)', NEW e \in Requests, Write(e)
  PROVE  Lives(k)'
<1>0. /\ phase = "up" /\ phase' = "up" /\ wpc = "idle" /\ now' = now
      /\ mem' = Applied(mem, e) /\ Accepts(Purged(mem)[e.key], e)
      /\ UNCHANGED <<wal, snap, spc, image>>
  BY DEF Write, process, snapper, disk
<1>1. e \in Request /\ e.key \in Keys
  BY DurabilityAssumption, Operations
<1>2. /\ leaks[k] \subseteq leaks'[k]
      /\ \/ UNCHANGED <<committed, since, leaks>> /\ wpc' = "logging" /\ req' = e
         \/ /\ wpc' = "idle"
            /\ k = e.key => "lost" \in leaks'[k]
            /\ k # e.key => committed'[k] = committed[k]
            /\ since' = IF spc = "idle" THEN {} ELSE since \cup {e.key}
  BY <1>1, LiveState DEF Write, Returns, history
<1>3. Recorded(k) /\ NoCounting(k) /\ InMemory(k) /\ Unwritten(k) /\ Replayed(k)
  BY <1>2, TimelyBefore
<1>4. wpc' = "idle" => k # e.key
  BY <1>2 DEF Timely
<1>5. committed'[k] = committed[k]
  BY <1>2, <1>4
<1>6. PICK x \in Item \cup {None} :
        /\ x = IF Alive(mem[k], now) THEN mem[k] ELSE None
        /\ x # None => Alive(x, now)
        /\ Purged(mem)[k] = x
        /\ mem'[k] = IF k = e.key THEN After(x, e) ELSE x
  BY <1>0, <1>1, LiveState, AppliedAlive
<1>7. Alive(mem[k], now) \/ Alive(committed[k], now) => mem[k] = committed[k]
  BY <1>0, <1>3 DEF InMemory
<1>8. None # x => x = mem[k] /\ x = committed[k] /\ Alive(committed[k], now)
  BY <1>6, <1>7
<1>9. Needed(k)' => Needed(k)
  <2>1. CASE k = e.key /\ wpc' = "logging" /\ e.op \in {"update", "persist"}
    <3>1. x # None
      BY <1>0, <1>6, <2>1 DEF Accepts
    <3> QED
      BY <1>8, <3>1 DEF Needed
  <2>2. CASE ~(k = e.key /\ wpc' = "logging" /\ e.op \in {"update", "persist"})
    BY <1>0, <1>2, <1>5, <2>2 DEF Needed
  <2> QED
    BY <2>1, <2>2
<1>10. Recorded(k)' /\ NoCounting(k)'
  BY <1>0, <1>2, <1>3, <1>5, <1>9, SameRecords
<1>11. Unwritten(k)'
  <2>1. spc # "idle" /\ k \notin since' => k \notin since
    BY <1>2
  <2> QED
    BY <1>0, <1>3, <1>5, <1>9, <2>1 DEF Unwritten
<1>12. Replayed(k)'
  BY <1>0 DEF Replayed
<1>13. InMemory(k)'
  <2>1. CASE k # e.key
    <3>1. mem'[k] = x
      BY <1>6, <2>1
    <3>2. Alive(mem'[k], now) => mem'[k] = committed[k]
      BY <1>8, <3>1 DEF Alive
    <3>3. Alive(committed[k], now) => mem'[k] = committed[k]
      BY <1>6, <1>7, <3>1
    <3> QED
      BY <1>0, <1>2, <1>5, <2>1, <3>2, <3>3 DEF InMemory
  <2>2. CASE k = e.key
    <3>1. wpc' = "logging" /\ req' = e /\ committed' = committed /\ mem'[k] = After(x, e)
      BY <1>2, <1>4, <1>6, <2>2
    <3>2. /\ e.op = "create" => x = None
          /\ e.op \in {"update", "persist"} => x # None
      BY <1>0, <1>6, <2>2 DEF Accepts
    <3>3. /\ e.op \in {"create", "mset"} =>
               mem'[k].val = e.val /\ (e.ttl # 0 <=> Alive(mem'[k], now))
          /\ e.op = "update" => mem'[k].val = e.val /\ (e.ttl # 0 <=> Alive(mem'[k], now))
          /\ e.op = "persist" => mem'[k].val = x.val
          /\ e.op = "delete" => mem'[k] = None
      BY <1>1, <1>6, <3>1, <3>2, LiveState, AfterAlive
    <3>4. Alive(mem'[k], now) => e.op # "delete"
      BY <3>3 DEF Alive
    <3>5. Alive(mem'[k], now) /\ e.op = "persist" => mem'[k].val = committed[k].val
      BY <1>8, <3>2, <3>3
    <3> QED
      BY <1>0, <2>2, <3>1, <3>3, <3>4, <3>5 DEF InMemory
  <2> QED
    BY <2>1, <2>2
<1> QED
  BY <1>10, <1>11, <1>12, <1>13 DEF Lives

\* A line is appended that is not about k.
LEMMA AppendLives ==
  ASSUME LiveInv, NEW k \in Keys, Timely(k), NEW l \in Line, wal' = Append(wal, l),
         ~On(l, k), snap' = snap, spc' = "dumped" => spc = "dumped" /\ image' = image,
         committed'[k] = committed[k], Needed(k)' => Needed(k)
  PROVE  Recorded(k)' /\ NoCounting(k)'
<1>1. /\ Len(wal) \in Nat /\ Len(wal') = Len(wal) + 1 /\ wal'[Len(wal) + 1] = l
      /\ \A h \in 1..Len(wal) : wal'[h] = wal[h]
  BY LiveState
<1>2. Recorded(k) /\ NoCounting(k)
  BY DEF LiveInv, Lives
<1>3. \A s, v : Tells(wal, Len(wal), s, k, v) => Tells(wal', Len(wal'), s, k, v)
  BY <1>1, TellsOn
<1>4. Recorded(k)'
  BY <1>2, <1>3 DEF Recorded
<1>5. NoCounting(k)'
  <2>1. ASSUME NEW i \in 1..Len(wal'), On(wal'[i], k) PROVE wal'[i].op # "incr"
    <3>1. i \in 1..Len(wal) \/ i = Len(wal) + 1
      BY <1>1
    <3>2. i # Len(wal) + 1
      BY <1>1, <2>1
    <3> QED
      BY <1>1, <1>2, <2>1, <3>1, <3>2 DEF NoCounting
  <2> QED
    BY <2>1 DEF NoCounting, On
<1> QED
  BY <1>4, <1>5

LEMMA LogWriteLives ==
  ASSUME LiveInv, NEW k \in Keys, Timely(k)', LogWrite
  PROVE  Lives(k)'
<1> DEFINE line == [op |-> req.op, key |-> req.key, val |-> req.val,
                    ttl |-> req.ttl, lsn |-> lsn]
           spoilt == [line EXCEPT !.op = "spoilt"]
<1>0. /\ wpc = "logging" /\ phase = "up" /\ phase' = "up" /\ now' = now
      /\ mem' = mem /\ snap' = snap /\ spc' = spc /\ image' = image
      /\ req \in Request /\ lsn \in Nat
  BY LiveState DEF LogWrite, process, snapper, LiveInv, IInv, TypeOK
<1>1. /\ line \in Line /\ spoilt \in Line /\ spoilt.op = "spoilt"
      /\ line.op = req.op /\ line.key = req.key /\ line.ttl = req.ttl /\ line.val = req.val
  BY <1>0 DEF Request, Line, Val, Args
<1>2. PICK b \in BOOLEAN :
        /\ Returns(req, mem[req.key], b)
        /\ \/ b /\ wal' = Append(wal, line)
           \/ ~b /\ (wal' = Append(wal, spoilt) \/ wal' = wal)
  BY DEF LogWrite
<1> HIDE DEF line, spoilt
<1>3. /\ wpc' = "idle" /\ leaks[k] \subseteq leaks'[k]
      /\ since' = IF spc = "idle" THEN {} ELSE since \cup {req.key}
      /\ k # req.key => committed'[k] = committed[k]
      /\ k = req.key => /\ committed'[k] = mem[k]
                        /\ ~b => "lost" \in leaks'[k]
                        /\ req.op = "incr" => "incr" \in leaks'[k]
  BY <1>2, LiveState DEF Returns
<1>4. /\ Timely(k) /\ Recorded(k) /\ NoCounting(k) /\ InMemory(k) /\ Unwritten(k)
      /\ k = req.key => b /\ req.op # "incr"
  <2>1. Timely(k) /\ Recorded(k) /\ NoCounting(k) /\ InMemory(k) /\ Unwritten(k)
    BY <1>3, TimelyBefore
  <2>2. k = req.key => b /\ req.op # "incr"
    BY <1>3 DEF Timely
  <2> QED
    BY <2>1, <2>2
<1>5. Replayed(k)'
  BY <1>0 DEF Replayed
<1>6. CASE k # req.key
  <2>1. Needed(k)' => Needed(k)
    BY <1>0, <1>3, <1>6 DEF Needed
  <2>2. Recorded(k)' /\ NoCounting(k)'
    <3>1. CASE wal' = wal
      BY <1>0, <1>3, <1>4, <1>6, <2>1, <3>1, SameRecords
    <3>2. ~On(line, k) /\ ~On(spoilt, k)
      BY <1>1, <1>6 DEF On, Unread
    <3>3. CASE wal' = Append(wal, line)
      BY <1>0, <1>1, <1>3, <1>4, <1>6, <2>1, <3>2, <3>3, AppendLives
    <3>4. CASE wal' = Append(wal, spoilt)
      BY <1>0, <1>1, <1>3, <1>4, <1>6, <2>1, <3>2, <3>4, AppendLives
    <3> QED
      BY <1>2, <3>1, <3>3, <3>4
  <2>3. InMemory(k)'
    BY <1>0, <1>3, <1>4, <1>6 DEF InMemory
  <2>4. Unwritten(k)'
    <3>1. spc # "idle" /\ k \notin since' => k \notin since
      BY <1>3
    <3> QED
      BY <1>0, <1>3, <1>4, <1>6, <2>1, <3>1 DEF Unwritten
  <2> QED
    BY <1>5, <2>2, <2>3, <2>4 DEF Lives
<1>7. CASE k = req.key
  <2>1. /\ wal' = Append(wal, line) /\ committed'[k] = mem[k] /\ req.op # "incr"
        /\ (spc # "idle" => k \in since')
    BY <1>2, <1>3, <1>4, <1>7
  <2>2. /\ Len(wal) \in Nat /\ Len(wal') = Len(wal) + 1 /\ wal'[Len(wal) + 1] = line
        /\ \A h \in 1..Len(wal) : wal'[h] = wal[h]
    BY <1>1, <2>1, LiveState
  <2>3. On(line, k)
    BY <1>0, <1>1, <1>7 DEF On, Unread, Request
  <2>4. InMemory(k)'
    BY <1>0, <1>3, <2>1 DEF InMemory
  <2>5. Unwritten(k)'
    BY <1>0, <2>1 DEF Unwritten
  <2>6. NoCounting(k)'
    <3>1. ASSUME NEW i \in 1..Len(wal'), On(wal'[i], k) PROVE wal'[i].op # "incr"
      <4>1. i \in 1..Len(wal) \/ i = Len(wal) + 1
        BY <2>2
      <4> QED
        BY <1>1, <1>4, <2>1, <2>2, <3>1, <4>1 DEF NoCounting
    <3> QED
      BY <3>1 DEF NoCounting, On
  <2>7. ASSUME Alive(mem[k], now), NEW s,
               Needed(k) => Tells(wal, Len(wal), s, k, committed[k].val)
        PROVE  Tells(wal', Len(wal'), s, k, mem[k].val)
    <3>1. /\ req.op # "delete"
          /\ req.op \in {"create", "mset", "update"} => mem[k].val = req.val /\ req.ttl # 0
          /\ req.op = "persist" => mem[k].val = committed[k].val
      BY <1>0, <1>4, <1>7, <2>7 DEF InMemory
    <3>2. req.op \in {"update", "persist"} => Tells(wal, Len(wal), s, k, committed[k].val)
      BY <1>0, <1>7, <2>7 DEF Needed
    <3>3. CASE req.op \in {"create", "mset"}
      BY <1>1, <2>2, <2>3, <3>1, <3>3, TellsFresh
    <3>4. CASE req.op = "update"
      BY <1>1, <2>2, <2>3, <3>1, <3>2, <3>4, TellsChange
    <3>5. CASE req.op = "persist"
      BY <1>1, <2>2, <3>1, <3>2, <3>5, TellsOn
    <3>6. req.op \in {"create", "mset", "update", "persist", "delete", "incr"}
      BY <1>0 DEF Request
    <3> QED
      BY <2>1, <3>1, <3>3, <3>4, <3>5, <3>6
  <2>8. Needed(k)' => Alive(mem[k], now)
    BY <1>0, <1>3, <2>1 DEF Needed
  <2>9. Recorded(k)'
    <3>1. Needed(k) => Tells(wal, Len(wal), snap, k, committed[k].val)
      BY <1>4 DEF Recorded
    <3>2. spc = "dumped" /\ Needed(k) => Tells(wal, Len(wal), image, k, committed[k].val)
      BY <1>4 DEF Recorded
    <3>3. Needed(k)' => Tells(wal', Len(wal'), snap, k, mem[k].val)
      BY <2>7, <2>8, <3>1
    <3>4. Needed(k)' /\ spc = "dumped" => Tells(wal', Len(wal'), image, k, mem[k].val)
      BY <2>7, <2>8, <3>2
    <3> QED
      BY <1>0, <2>1, <3>3, <3>4 DEF Recorded
  <2> QED
    BY <1>5, <2>4, <2>5, <2>6, <2>9 DEF Lives
<1> QED
  BY <1>6, <1>7

\* The snapshot steps: the dump holds every live key, and what rotation throws away is
\* no more than what the snapshot holds.
LEMMA DumpLives ==
  ASSUME LiveInv, NEW k \in Keys, Timely(k)', Dump
  PROVE  Lives(k)'
<1>0. /\ phase = "up" /\ phase' = "up" /\ wpc = "idle" /\ wpc' = "idle" /\ now' = now
      /\ spc' = "dumped" /\ mem' = Purged(mem) /\ since' = {}
      /\ UNCHANGED <<wal, snap, committed, leaks>>
  BY DEF Dump, At, process, disk
<1>1. image' \in Image
  <2>1. IInv /\ Snapshot
    BY DEF Snapshot, LiveInv
  <2>2. Discipline'
    BY <2>1, SnapshotType
  <2> QED
    BY <1>0, <2>2 DEF Discipline
<1>2. Recorded(k) /\ NoCounting(k) /\ InMemory(k)
  BY <1>0, TimelyBefore
<1>3. mem[k] \in Item \cup {None} /\ now \in Nat
  BY LiveState
<1>4. mem'[k] = IF Alive(mem[k], now) THEN mem[k] ELSE None
  BY <1>0 DEF Purged, Alive
<1>5. Alive(mem[k], now) \/ Alive(committed[k], now) => mem[k] = committed[k]
  BY <1>0, <1>2 DEF InMemory
<1>6. Needed(k)' => Alive(committed[k], now) /\ mem[k] = committed[k] /\ mem'[k] = mem[k]
  BY <1>0, <1>4, <1>5 DEF Needed
<1>7. ASSUME Alive(mem[k], now), mem'[k] = mem[k]
      PROVE  Holds(image', k) /\ image'.data[k].val = mem[k].val
  <2>1. mem[k] \in Item /\ mem'[k] # None
    BY <1>3, <1>7 DEF Alive
  <2>2. image'.data[k] = [val |-> mem[k].val,
                          left |-> IF mem[k].exp = None THEN None ELSE mem[k].exp - now]
    BY <1>7, <2>1 DEF Dump
  <2>3. mem[k].exp # None => mem[k].exp \in Nat /\ ~(mem[k].exp <= now)
    BY <1>7, <2>1 DEF Alive, Item
  <2>4. mem[k].exp # None => mem[k].exp - now \in Nat /\ mem[k].exp - now # 0
    BY <1>3, <2>3
  <2>5. None # 0
    BY DurabilityAssumption
  <2>6. mem[k].val \in Nat
    BY <2>1 DEF Item
  <2>7. image'.data[k] \in Kept
    BY <2>2, <2>4, <2>6 DEF Kept
  <2>8. image'.data[k].left # 0 /\ image'.data[k].val = mem[k].val
    BY <2>2, <2>4, <2>5
  <2>9. image' # None /\ image'.data[k] # None
    BY <1>1, <2>7, DurabilityAssumption
  <2> QED
    BY <2>8, <2>9 DEF Holds
<1>8. Needed(k)' => Holds(image', k) /\ image'.data[k].val = committed[k].val
  BY <1>6, <1>7
<1>9. Needed(k)' => Needed(k)
  BY <1>0 DEF Needed
<1>10. Needed(k)' => Tells(wal, Len(wal), snap, k, committed[k].val)
  BY <1>2, <1>9 DEF Recorded
<1>11. Needed(k)' => Tells(wal, Len(wal), image', k, committed[k].val)
  <2>1. Len(wal) \in Nat
    BY LiveState
  <2> QED
    BY <1>8, <1>10, <2>1, TellsOther
<1>12. Recorded(k)'
  BY <1>0, <1>10, <1>11 DEF Recorded
<1>13. NoCounting(k)'
  BY <1>0, <1>2 DEF NoCounting
<1>14. InMemory(k)'
  <2>1. Alive(mem'[k], now) => mem'[k] = committed[k]
    BY <1>4, <1>5 DEF Alive
  <2>2. Alive(committed[k], now) => mem'[k] = committed[k]
    BY <1>4, <1>5
  <2> QED
    BY <1>0, <2>1, <2>2 DEF InMemory
<1>15. Unwritten(k)'
  BY <1>0, <1>8 DEF Unwritten
<1>16. Replayed(k)'
  BY <1>0 DEF Replayed
<1> QED
  BY <1>12, <1>13, <1>14, <1>15, <1>16 DEF Lives

LEMMA ReplaceLives ==
  ASSUME LiveInv, NEW k \in Keys, Timely(k)', Replace
  PROVE  Lives(k)'
<1>0. /\ UNCHANGED <<wal, phase, mem, wpc, req, pos, now, committed, since, started, leaks>>
      /\ spc = "dumped" /\ spc' \in {"replaced", "idle"} /\ snap' = image
      /\ phase = "up"
  BY LiveState DEF Replace, At, process, memory, history
<1>1. Recorded(k) /\ NoCounting(k) /\ InMemory(k) /\ Unwritten(k)
  BY <1>0, TimelyBefore
<1>2. Needed(k)' => Needed(k)
  BY <1>0 DEF Needed
<1>3. Recorded(k)'
  BY <1>0, <1>1, <1>2 DEF Recorded
<1>4. NoCounting(k)'
  BY <1>0, <1>1 DEF NoCounting
<1>5. InMemory(k)'
  BY <1>0, <1>1 DEF InMemory
<1>6. Unwritten(k)'
  BY <1>0, <1>1, <1>2 DEF Unwritten
<1>7. Replayed(k)'
  BY <1>0 DEF Replayed
<1> QED
  BY <1>3, <1>4, <1>5, <1>6, <1>7 DEF Lives

LEMMA RotateLives ==
  ASSUME LiveInv, NEW k \in Keys, Timely(k)', RotateClose \/ RotateOpen \/ RotateFails
  PROVE  Lives(k)'
<1>0. /\ UNCHANGED <<wal, snap, phase, mem, wpc, req, pos, now, image, committed, since,
                     started, leaks>>
      /\ phase = "up" /\ spc' # "dumped"
      /\ spc' \in {"replaced", "closed"} => spc = "replaced"
  BY LiveState DEF RotateClose, RotateOpen, RotateFails, At, process, memory, disk, history
<1>1. Recorded(k) /\ NoCounting(k) /\ InMemory(k) /\ Unwritten(k)
  BY <1>0, TimelyBefore
<1>2. Needed(k)' => Needed(k)
  BY <1>0 DEF Needed
<1>3. Recorded(k)' /\ NoCounting(k)'
  BY <1>0, <1>1, <1>2, SameRecords
<1>4. InMemory(k)'
  BY <1>0, <1>1 DEF InMemory
<1>5. Unwritten(k)'
  BY <1>0, <1>1, <1>2 DEF Unwritten
<1>6. Replayed(k)'
  BY <1>0 DEF Replayed
<1> QED
  BY <1>3, <1>4, <1>5, <1>6 DEF Lives

LEMMA RenewLives ==
  ASSUME LiveInv, NEW k \in Keys, Timely(k)', RotateRenew
  PROVE  Lives(k)'
<1>0. /\ UNCHANGED <<snap, phase, mem, wpc, req, pos, now, image, committed, since,
                     started>>
      /\ phase = "up" /\ spc = "closed" /\ spc' = "renewed" /\ wal' = <<>>
      /\ leaks' = [j \in Keys |-> IF j \in since THEN leaks[j] \cup {"lost"} ELSE leaks[j]]
  BY LiveState DEF RotateRenew, At, process, memory
<1>1. leaks[k] \subseteq leaks'[k] /\ k \notin since
  BY <1>0 DEF Timely
<1>2. InMemory(k) /\ Unwritten(k)
  BY <1>1, TimelyBefore
<1>3. Needed(k)' => Needed(k)
  BY <1>0 DEF Needed
<1>4. Len(wal') = 0 /\ 1..0 = {}
  BY <1>0
<1>5. Needed(k)' => Holds(snap, k) /\ snap.data[k].val = committed[k].val
  BY <1>0, <1>1, <1>2, <1>3 DEF Unwritten
<1>6. Needed(k)' => Tells(wal', 0, snap, k, committed[k].val)
  BY <1>5, TellsNone
<1>7. Recorded(k)'
  BY <1>0, <1>4, <1>6 DEF Recorded
<1>8. NoCounting(k)'
  BY <1>4 DEF NoCounting
<1>9. InMemory(k)'
  BY <1>0, <1>2 DEF InMemory
<1>10. Unwritten(k)'
  BY <1>0 DEF Unwritten
<1>11. Replayed(k)'
  BY <1>0 DEF Replayed
<1> QED
  BY <1>7, <1>8, <1>9, <1>10, <1>11 DEF Lives

LEMMA CrashLives ==
  ASSUME LiveInv, NEW k \in Keys, Timely(k)', Crash
  PROVE  Lives(k)'
<1> DEFINE line == [op |-> "torn", key |-> req.key, val |-> req.val,
                    ttl |-> req.ttl, lsn |-> lsn]
<1>0. /\ UNCHANGED <<snap, now, committed, leaks>>
      /\ phase' = "down" /\ wpc' = "idle" /\ spc' = "idle"
      /\ wal' = wal \/ (wpc = "logging" /\ wal' = Append(wal, line))
  BY DEF Crash
<1>1. Timely(k) /\ Recorded(k) /\ NoCounting(k)
  BY <1>0, TimelyBefore
<1>2. Needed(k)' => Needed(k)
  BY <1>0 DEF Needed
<1>3. Recorded(k)' /\ NoCounting(k)'
  <2>1. CASE wal' = wal
    BY <1>0, <1>1, <1>2, <2>1, SameRecords
  <2>2. CASE wpc = "logging" /\ wal' = Append(wal, line)
    <3>1. req \in Request /\ lsn \in Nat
      BY <2>2, LiveState DEF LiveInv, IInv, TypeOK
    <3>2. line \in Line /\ ~On(line, k)
      BY <3>1 DEF Request, Line, Val, Args, On, Unread
    <3> HIDE DEF line
    <3> QED
      BY <1>0, <1>1, <1>2, <2>2, <3>2, AppendLives
  <2> QED
    BY <1>0, <2>1, <2>2
<1>4. InMemory(k)' /\ Unwritten(k)' /\ Replayed(k)'
  BY <1>0 DEF InMemory, Unwritten, Replayed
<1> QED
  BY <1>3, <1>4 DEF Lives

\* Recovery: what is in memory is what the lines replayed so far tell.
LEMMA BootLives ==
  ASSUME LiveInv, NEW k \in Keys, Timely(k)', Boot
  PROVE  Lives(k)' /\ (phase = "replay" => started <= now)'
<1>0. /\ UNCHANGED <<wal, snap, now, wpc, req, spc, image, committed, leaks>>
      /\ phase = "down" /\ phase' = "replay" /\ pos' = 1 /\ started' = now
      /\ spc = "idle" /\ wpc = "idle" /\ now \in Nat
  BY LiveState DEF Boot, snapper, disk
<1>1. Recorded(k) /\ NoCounting(k)
  BY <1>0, TimelyBefore
<1>2. Needed(k)' => Needed(k)
  BY <1>0 DEF Needed
<1>3. Recorded(k)' /\ NoCounting(k)'
  BY <1>0, <1>1, <1>2, SameRecords
<1>4. InMemory(k)' /\ Unwritten(k)'
  BY <1>0 DEF InMemory, Unwritten
<1>5. /\ snap = None => mem'[k] = None
      /\ snap # None =>
           mem'[k] = IF snap.data[k] = None THEN None
                     ELSE [val |-> snap.data[k].val,
                           exp |-> IF snap.data[k].left = None THEN None
                                   ELSE now + snap.data[k].left]
  BY DEF Boot, NoItems, DeadlineOf
<1>6. snap # None /\ snap.data[k] # None =>
        /\ snap.data[k].left \in Nat \cup {None} /\ mem'[k] # None
        /\ mem'[k].val = snap.data[k].val
        /\ mem'[k].exp = IF snap.data[k].left = None THEN None
                         ELSE now + snap.data[k].left
  <2> SUFFICES ASSUME snap # None, snap.data[k] # None
               PROVE  /\ snap.data[k].left \in Nat \cup {None} /\ mem'[k] # None
                      /\ mem'[k].val = snap.data[k].val
                      /\ mem'[k].exp = IF snap.data[k].left = None THEN None
                                       ELSE now + snap.data[k].left
    OBVIOUS
  <2>1. snap \in Image
    BY DEF LiveInv, IInv, TypeOK
  <2>2. snap.data[k] \in Kept
    BY <2>1 DEF Image
  <2>3. snap.data[k].left \in Nat \cup {None} /\ snap.data[k].val \in Nat
    BY <2>2 DEF Kept
  <2>4. mem'[k] = [val |-> snap.data[k].val,
                   exp |-> IF snap.data[k].left = None THEN None
                           ELSE now + snap.data[k].left]
    BY <1>5
  <2>5. snap.data[k].left # None => now + snap.data[k].left \in Nat
    BY <1>0, <2>3
  <2>6. mem'[k] \in Item
    BY <2>3, <2>4, <2>5 DEF Item
  <2> QED
    BY <2>3, <2>4, <2>6, DurabilityAssumption
<1>7. Alive(mem'[k], now) <=> Holds(snap, k)
  <2>1. CASE snap = None \/ snap.data[k] = None
    BY <1>5, <2>1 DEF Alive, Holds
  <2>2. CASE snap # None /\ snap.data[k] # None
    <3>1. None # 0
      BY DurabilityAssumption
    <3>2. CASE snap.data[k].left = None
      BY <1>6, <2>2, <3>1, <3>2 DEF Alive, Holds
    <3>3. CASE snap.data[k].left # None
      <4>1. snap.data[k].left \in Nat /\ mem'[k].exp = now + snap.data[k].left
        BY <1>6, <2>2, <3>3
      <4>2. mem'[k].exp \in Nat /\ (mem'[k].exp <= now <=> snap.data[k].left = 0)
        BY <1>0, <4>1
      <4>3. mem'[k].exp # None
        BY <4>2, DurabilityAssumption
      <4> QED
        BY <1>6, <2>2, <4>2, <4>3 DEF Alive, Holds
    <3> QED
      BY <3>2, <3>3
  <2> QED
    BY <2>1, <2>2
<1>8. Alive(mem'[k], now) => Tells(wal, 0, snap, k, mem'[k].val)
  <2>1. Alive(mem'[k], now) => mem'[k].val = snap.data[k].val
    BY <1>6, <1>7 DEF Holds
  <2> QED
    BY <1>7, <2>1, TellsNone
<1>9. ASSUME NEW j \in 0..0, There(wal, 0, snap, k, j) PROVE Alive(mem'[k], now)
  <2>1. j = 0
    OBVIOUS
  <2> QED
    BY <1>7, <1>9, <2>1 DEF There
<1>10. Replayed(k)'
  <2>1. pos' - 1 = 0
    BY <1>0
  <2> QED
    BY <1>0, <1>8, <1>9, <2>1 DEF Replayed
<1>11. (phase = "replay" => started <= now)'
  BY <1>0
<1> QED
  BY <1>3, <1>4, <1>10, <1>11 DEF Lives

LEMMA ReplayLives ==
  ASSUME LiveInv, NEW k \in Keys, Timely(k)', Replay
  PROVE  Lives(k)' /\ (phase = "replay" => started <= now)'
<1>0. /\ UNCHANGED <<wal, snap, now, started, phase, wpc, req, spc, image, committed,
                     leaks>>
      /\ phase = "replay" /\ pos \in 1..Len(wal) /\ pos' = pos + 1
      /\ spc = "idle" /\ wpc = "idle" /\ now \in Nat /\ started <= now
      /\ mem' = Applied(mem, wal[pos])
  <2>1. pos \in 1..Len(wal) + 1 /\ pos <= Len(wal) /\ Len(wal) \in Nat
    BY LiveState DEF Replay
  <2>2. pos \in 1..Len(wal)
    BY <2>1
  <2> QED
    BY <2>2, LiveState DEF Replay, process, snapper, disk, history
<1>1. Recorded(k) /\ NoCounting(k) /\ Replayed(k)
  BY <1>0, TimelyBefore
<1>2. Needed(k)' => Needed(k)
  BY <1>0 DEF Needed
<1>3. Recorded(k)' /\ NoCounting(k)'
  BY <1>0, <1>1, <1>2, SameRecords
<1>4. InMemory(k)' /\ Unwritten(k)'
  BY <1>0 DEF InMemory, Unwritten
<1> DEFINE p == pos - 1
           e == wal[pos]
<1>5. p \in Nat /\ p + 1 = pos /\ pos' - 1 = p + 1 /\ \A h \in 1..p : wal[h] = wal[h]
  BY <1>0
<1>6. e \in Line
  BY <1>0, LiveState
<1>7. wal[p + 1] = e
  BY <1>5
<1>8. /\ Alive(mem[k], now) => Tells(wal, p, snap, k, mem[k].val)
      /\ now = started =>
           \A j \in 0..p : There(wal, p, snap, k, j) => Alive(mem[k], now)
  BY <1>0, <1>1 DEF Replayed
<1>9. On(e, k) => e.op # "incr"
  BY <1>0, <1>1 DEF NoCounting
<1>a. mem' = Applied(mem, e)
  BY <1>0
<1> HIDE DEF p, e
<1>10. PICK x \in Item \cup {None} :
         /\ x = IF Alive(mem[k], now) THEN mem[k] ELSE None
         /\ x # None => Alive(x, now)
         /\ mem'[k] = IF k = e.key THEN After(x, e) ELSE x
  BY <1>0, <1>6, <1>a, LiveState, AppliedAlive
<1>11. /\ x # None => Tells(wal, p, snap, k, x.val) /\ x = mem[k]
       /\ Alive(mem[k], now) => x # None
  BY <1>8, <1>10 DEF Alive
<1>12. /\ On(e, k) /\ e.op \in {"create", "mset"} =>
            /\ mem'[k].val = e.val
            /\ e.ttl # 0 <=> Alive(mem'[k], now)
       /\ On(e, k) /\ e.op = "update" =>
            /\ x = None => mem'[k] = None
            /\ x # None => mem'[k].val = e.val /\ (e.ttl # 0 <=> Alive(mem'[k], now))
       /\ On(e, k) /\ e.op = "persist" =>
            /\ x = None => mem'[k] = None
            /\ x # None => mem'[k].val = x.val /\ Alive(mem'[k], now)
       /\ On(e, k) /\ e.op = "delete" => mem'[k] = None
       /\ ~On(e, k) => mem'[k] = x
  <2>1. On(e, k) => mem'[k] = After(x, e)
    BY <1>10 DEF On
  <2>2. ~On(e, k) => k # e.key \/ e.op \in Unread
    BY DEF On
  <2>3. e \in Request \cup Line
    BY <1>6
  <2>4. ~On(e, k) => mem'[k] = x
    BY <1>0, <1>10, <2>2, <2>3, AfterAlive
  <2> QED
    BY <1>0, <1>10, <2>1, <2>3, <2>4, AfterAlive
<1>13. On(e, k) => e.op \in {"create", "mset", "update", "persist", "delete"}
  BY <1>6, <1>9 DEF Line, On, Unread
<1>14. ASSUME Alive(mem'[k], now) PROVE Tells(wal, p + 1, snap, k, mem'[k].val)
  <2>0. mem'[k] # None
    BY <1>14 DEF Alive
  <2>1. CASE ~On(e, k)
    <3>1. mem'[k] = x /\ Tells(wal, p, snap, k, x.val)
      BY <1>11, <1>12, <2>0, <2>1
    <3> QED
      BY <1>5, <1>7, <2>1, <3>1, TellsOn
  <2>2. CASE On(e, k) /\ e.op \in {"create", "mset"}
    BY <1>5, <1>7, <1>12, <1>14, <2>2, TellsFresh
  <2>3. CASE On(e, k) /\ e.op = "update"
    <3>1. x # None /\ mem'[k].val = e.val /\ e.ttl # 0
      BY <1>12, <1>14, <2>0, <2>3
    <3>2. Tells(wal, p, snap, k, x.val)
      BY <1>11, <3>1
    <3> QED
      BY <1>5, <1>7, <2>3, <3>1, <3>2, TellsChange
  <2>4. CASE On(e, k) /\ e.op = "persist"
    <3>1. x # None /\ mem'[k].val = x.val
      BY <1>12, <2>0, <2>4
    <3>2. Tells(wal, p, snap, k, x.val)
      BY <1>11, <3>1
    <3> QED
      BY <1>5, <1>7, <2>4, <3>1, <3>2, TellsOn
  <2>5. CASE On(e, k) /\ e.op = "delete"
    BY <1>12, <2>0, <2>5
  <2> QED
    BY <1>13, <2>1, <2>2, <2>3, <2>4, <2>5
<1>15. ASSUME now = started, NEW j \in 0..(p + 1), There(wal, p + 1, snap, k, j)
       PROVE  Alive(mem'[k], now)
  <2>0. p + 1 \in 1..(p + 1) /\ (\A h \in 1..p : h \in 1..(p + 1))
        /\ (j \in 0..p \/ j = p + 1) /\ p + 1 # 0 /\ p + 1 >= j
        /\ (j \in 0..p => p + 1 > j)
    BY <1>5
  <2>1. CASE j \in 0..p
    <3>1. There(wal, p, snap, k, j)
      BY <1>15, <2>0 DEF There
    <3>2. x # None
      BY <1>8, <1>11, <1>15, <2>1, <3>1
    <3>3. On(e, k) => /\ e.op # "persist" => e.ttl # 0
                      /\ e.op \in {"update", "persist"}
      BY <1>7, <1>15, <2>0, <2>1 DEF There
    <3> QED
      BY <1>10, <1>12, <3>2, <3>3
  <2>2. CASE j = p + 1
    <3>1. On(e, k) /\ e.op \in {"create", "mset"}
      BY <1>7, <1>15, <2>0, <2>2 DEF There
    <3>2. e.ttl # 0
      BY <1>7, <1>15, <2>0, <3>1 DEF There
    <3> QED
      BY <1>12, <3>1, <3>2
  <2> QED
    BY <2>0, <2>1, <2>2
<1>16. Replayed(k)'
  BY <1>0, <1>5, <1>14, <1>15 DEF Replayed
<1> QED
  BY <1>0, <1>3, <1>4, <1>16 DEF Lives

LEMMA RecoveredLives ==
  ASSUME LiveInv, IInv', NEW k \in Keys, Timely(k)', Recovered
  PROVE  Lives(k)'
<1>0. /\ UNCHANGED <<wal, snap, now, mem, wpc, req, spc, image, leaks>>
      /\ phase = "replay" /\ phase' = "up" /\ pos - 1 = Len(wal)
      /\ spc = "idle" /\ wpc = "idle"
      /\ committed'[k] = IF "ttl" \in leaks[k] THEN mem[k] ELSE committed[k]
  <2>1. pos \in 1..Len(wal) + 1 /\ pos > Len(wal) /\ Len(wal) \in Nat
    BY LiveState DEF Recovered
  <2>2. pos - 1 = Len(wal)
    BY <2>1
  <2> QED
    BY <2>2, LiveState DEF Recovered, snapper, disk
<1>1. NoCounting(k) /\ Replayed(k)
  BY <1>0, TimelyBefore
<1>2. committed'[k] = mem[k]
  <2>1. CASE "ttl" \in leaks[k]
    BY <1>0, <2>1
  <2>2. CASE "ttl" \notin leaks[k]
    <3>1. Clean(k)'
      BY <1>0, <2>2 DEF Timely, Clean
    <3>2. MemFits(k)'
      BY <3>1 DEF IInv, Accounted
    <3> QED
      BY <1>0, <3>2 DEF MemFits
  <2> QED
    BY <2>1, <2>2
<1>3. Needed(k)' => Alive(mem[k], now)
  BY <1>0, <1>2 DEF Needed
<1>4. Recorded(k)'
  BY <1>0, <1>1, <1>2, <1>3 DEF Recorded, Replayed
<1>5. NoCounting(k)'
  BY <1>0, <1>1 DEF NoCounting
<1>6. InMemory(k)'
  BY <1>0, <1>2 DEF InMemory
<1>7. Unwritten(k)' /\ Replayed(k)'
  BY <1>0 DEF Unwritten, Replayed
<1> QED
  BY <1>4, <1>5, <1>6, <1>7 DEF Lives

LEMMA LiveInit == Init => LiveInv
<1> SUFFICES ASSUME Init PROVE LiveInv
  OBVIOUS
<1>0. wal = <<>> /\ phase = "up" /\ wpc = "idle" /\ spc = "idle" /\ mem = NoItems
      /\ committed = NoItems
  BY DEF Init
<1>1. IInv
  BY InitInv
<1>2. ASSUME NEW k \in Keys PROVE Lives(k)
  <2>1. mem[k] = None /\ committed[k] = None /\ Len(wal) = 0 /\ 1..0 = {}
    BY <1>0 DEF NoItems
  <2>2. ~Alive(mem[k], now) /\ ~Alive(committed[k], now) /\ ~Needed(k)
    BY <1>0, <2>1 DEF Alive, Needed
  <2>3. NoCounting(k)
    BY <2>1 DEF NoCounting
  <2> QED
    BY <1>0, <2>2, <2>3 DEF Lives, Recorded, InMemory, Unwritten, Replayed
<1> QED
  BY <1>0, <1>1, <1>2 DEF LiveInv

LEMMA LiveStep == LiveInv /\ [Next]_vars => LiveInv'
<1> SUFFICES ASSUME LiveInv, [Next]_vars PROVE LiveInv'
  OBVIOUS
<1>1. IInv'
  <2>1. IInv
    BY DEF LiveInv
  <2> QED
    BY <2>1, StepInv
<1>2. ASSUME NEW k \in Keys, Timely(k)' PROVE Lives(k)'
  <2>1. CASE UNCHANGED vars
    <3>0. UNCHANGED <<wal, snap, phase, now, mem, wpc, req, pos, spc, image, committed,
                      since, started, leaks>>
      BY <2>1 DEF vars, process, memory, snapper, disk, history
    <3>1. Recorded(k) /\ NoCounting(k) /\ InMemory(k) /\ Unwritten(k) /\ Replayed(k)
      BY <1>2, <3>0, TimelyBefore
    <3>2. Recorded(k)' /\ NoCounting(k)'
      BY <3>0, <3>1 DEF Recorded, NoCounting, Needed
    <3>3. InMemory(k)' /\ Unwritten(k)' /\ Replayed(k)'
      BY <3>0, <3>1 DEF InMemory, Unwritten, Replayed, Needed
    <3> QED
      BY <3>2, <3>3 DEF Lives
  <2>2. CASE Next
    BY <1>1, <1>2, <2>2, TickLives, WriteLives, LogWriteLives, DumpLives, ReplaceLives,
       RotateLives, RenewLives, CrashLives, BootLives, ReplayLives, RecoveredLives
       DEF Next, Snapshot
  <2> QED
    BY <2>1, <2>2
<1>3. (phase = "replay" => started <= now)'
  <2>1. phase = "replay" => started <= now
    BY LiveState
  <2>2. CASE Tick
    <3>1. now \in Nat /\ started \in Nat /\ now' = now + 1 /\ started' = started
          /\ phase' = phase
      BY <2>2, LiveState DEF Tick, history
    <3>2. started <= now => started <= now + 1
      BY <3>1
    <3> QED
      BY <2>1, <3>1, <3>2
  <2>3. CASE Boot
    <3>1. started' = now /\ now' = now /\ now \in Nat
      BY <2>3, LiveState DEF Boot
    <3> QED
      BY <3>1
  <2>4. CASE \/ LogWrite \/ Snapshot \/ Replay \/ UNCHANGED vars
             \/ \E e \in Requests : Write(e)
    <3>1. /\ phase' = "replay" => phase = "replay" /\ started' = started
          /\ now' = now
      BY <2>4, LiveState
         DEF LogWrite, Snapshot, Replay, Write, Dump, Replace, RotateClose, RotateRenew,
             RotateOpen, RotateFails, At, process, history, vars
    <3> QED
      BY <2>1, <3>1
  <2>5. CASE Crash \/ Recovered
    BY <2>5 DEF Crash, Recovered
  <2> QED
    BY <2>2, <2>3, <2>4, <2>5 DEF Next
<1> QED
  BY <1>1, <1>2, <1>3 DEF LiveInv

\* At the end of a replay in no time, every key that lives is in memory with its value.
LEMMA RecoveredLive ==
  ASSUME LiveInv, Recovered, now = started, NEW k \in Keys, Timely(k),
         Purged(committed)[k] # None
  PROVE  mem[k] # None /\ mem[k].val = committed[k].val
<1>1. /\ phase = "replay" /\ pos \in 1..Len(wal) + 1 /\ pos > Len(wal) /\ Len(wal) \in Nat
      /\ Recorded(k) /\ Replayed(k)
  BY LiveState DEF Recovered, LiveInv, Lives
<1>2. pos - 1 = Len(wal)
  BY <1>1
<1>3. Alive(committed[k], now)
  BY DEF Purged, Alive
<1>4. Tells(wal, Len(wal), snap, k, committed[k].val)
  BY <1>1, <1>3 DEF Recorded, Needed
<1>5. PICK j \in 0..Len(wal) : There(wal, Len(wal), snap, k, j)
  BY <1>4 DEF Tells
<1>6. Alive(mem[k], now)
  BY <1>1, <1>2, <1>5 DEF Replayed
<1>7. Tells(wal, Len(wal), snap, k, mem[k].val)
  BY <1>1, <1>2, <1>6 DEF Replayed
<1>8. mem[k].val = committed[k].val
  BY <1>1, <1>4, <1>7, TellsOne
<1> QED
  BY <1>6, <1>8 DEF Alive

\* A recovery that takes no time (api/server.py's start-up; recover_from_wal) brings
\* every live key back with the value it had: also a key whose deadline the replay
\* counts anew, after any number of crashes, torn lines, snapshots and rotations.
THEOREM LiveValuesComeBack == Spec => LiveValuesRecovered
<1>1. LiveInv /\ [Next]_vars =>
        [phase = "replay" /\ phase' = "up" /\ now = started =>
           \A k \in Keys :
             leaks[k] \subseteq {"ttl", "lsn"} /\ Purged(committed)[k] # None =>
               mem[k] # None /\ mem[k].val = committed[k].val]_vars
  <2> SUFFICES ASSUME LiveInv, Next, phase = "replay", phase' = "up", now = started,
                      NEW k \in Keys, leaks[k] \subseteq {"ttl", "lsn"},
                      Purged(committed)[k] # None
               PROVE  mem[k] # None /\ mem[k].val = committed[k].val
    OBVIOUS
  <2>1. Recovered
    BY DEF Next, Tick, Write, LogWrite, Snapshot, Dump, Replace, RotateClose, RotateRenew,
           RotateOpen, RotateFails, Crash, Boot, Replay, process
  <2> QED
    BY <2>1, RecoveredLive DEF Timely
<1>2. Spec => []LiveInv
  BY LiveInit, LiveStep, PTL DEF Spec
<1> QED
  BY <1>1, <1>2, PTL DEF Spec, LiveValuesRecovered
=============================================================================
