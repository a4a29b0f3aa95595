---------------------------- MODULE AccessWindows ---------------------------
(***************************************************************************)
(* The sliding windows of HotKeyDetector (pxkv/core/hotkey.py) and of      *)
(* ColdKeyEvictionHints (pxkv/core/cold_eviction.py): a ring of buckets    *)
(* that are reused, emptied by the record that finds them old, or by the   *)
(* query that finds them outside the window.                               *)
(*                                                                         *)
(* The hints also bound the keys they track.  Settings that make new,      *)
(* empty rings are the reset.  t is the clock, which does not go back.     *)
(***************************************************************************)
EXTENDS Naturals, FiniteSets, SequencesExt, Lists

CONSTANTS
  Keys,
  Buckets,      \* how many there are
  BucketTime,   \* how long each is; the window is all of them
  ScanN         \* scan_candidates

VARIABLES
  hot,       \* the detector's ring: for each bucket, its start and its counts
  cold,      \* the hints' ring
  order,     \* _tracked of the hints: its keys, in the order of their insertion
  most,      \* _max_tracked of the hints
  hotLog,    \* a history: for each key, the times of the records, one by one
  coldLog

Window == Buckets * BucketTime
Slots == 0..(Buckets - 1)

-----------------------------------------------------------------------------
Nothing == [key \in Keys |-> 0]
NewRing == [i \in Slots |-> [start |-> 0, count |-> Nothing]]

NoTimes == [key \in Keys |-> <<>>]

WindowsInit ==
  /\ hot = NewRing /\ hotLog = NoTimes
  /\ cold = NewRing /\ coldLog = NoTimes /\ order = <<>>

Slot(t) == (t \div BucketTime) % Buckets
Start(t) == t - (t % BucketTime)

\* Bug: a bucket that comes round again keeps its counts.
RotatedLate(ring, t) == [ring EXCEPT ![Slot(t)].start = Start(t)]

\* _rotate_locked: the bucket of t begins again, if what it has is of another round.
Rotated(ring, t) ==
  IF ring[Slot(t)].start # Start(t)
  THEN [ring EXCEPT ![Slot(t)] = [start |-> Start(t), count |-> Nothing]] ELSE ring

\* _evict_stale_locked
Fresh(ring, t) ==
  [i \in Slots |->
     IF ring[i].start + Window < t THEN [start |-> 0, count |-> Nothing] ELSE ring[i]]

Counted(ring, key) ==
  LET sum[i \in 0..Buckets] == IF i = 0 THEN 0 ELSE sum[i - 1] + ring[i - 1].count[key]
  IN sum[Buckets]
KeysIn(ring) == {key \in Keys : Counted(ring, key) > 0}

\* The ring without the keys K.
Without(ring, K) ==
  [i \in Slots |->
     [ring[i] EXCEPT !.count = [key \in Keys |-> IF key \in K THEN 0 ELSE @[key]]]]

\* Keys whose last bucket was emptied are not tracked any more.
Unlisted(seq, old, new) == Those(seq, Keys \ (KeysIn(old) \ KeysIn(new)))

-----------------------------------------------------------------------------
Hits(ring, key, t) == [Rotated(ring, t) EXCEPT ![Slot(t)].count[key] = @ + 1]

\* The hints with the ring and the keys of a record, or of a new limit.
Bounded(ring, seq, m) ==
  /\ cold' = Without(ring, {seq[i] : i \in 1..Overflow(seq, m)})
  /\ order' = Latest(seq, m)

\* record of the detector, for a read.
DetectorRecord(key, t) ==
  /\ hot' = Hits(hot, key, t)
  /\ hotLog' = [hotLog EXCEPT ![key] = Append(@, t)]

\* record of the hints, for a read that found the key, or a write.
HintsRecord(key, t) ==
  LET listed == Unlisted(order, cold, Rotated(cold, t))
      seq == Append(Those(listed, Keys \ {key}), key)
  IN /\ Bounded(Hits(cold, key, t), seq, most)
     /\ coldLog' = [coldLog EXCEPT ![key] = Append(@, t)]
     /\ UNCHANGED most

\* configure with another bound on the keys.
HintsResize(m) == most' = m /\ Bounded(cold, order, m) /\ UNCHANGED coldLog

\* forget, in both, for a delete.
WindowsForget(key) ==
  /\ hot' = Without(hot, {key}) /\ cold' = Without(cold, {key})
  /\ order' = Those(order, Keys \ {key})
  /\ hotLog' = [hotLog EXCEPT ![key] = <<>>] /\ coldLog' = [coldLog EXCEPT ![key] = <<>>]
  /\ UNCHANGED most

\* _aggregate_locked, access_count, snapshot: the queries empty old buckets.
WindowsQuery(t) ==
  /\ hot' = Fresh(hot, t) /\ cold' = Fresh(cold, t)
  /\ order' = Unlisted(order, cold, cold')
  /\ UNCHANGED <<most, hotLog, coldLog>>

\* reset and configure, of both.
WindowsReset ==
  /\ hot' = NewRing /\ hotLog' = NoTimes
  /\ cold' = NewRing /\ coldLog' = NoTimes /\ order' = <<>>
  /\ UNCHANGED most

\* Bug: buckets that are older than the window still count.
PickByAll(seq, t) ==
  LET some == 1..(IF Len(seq) < ScanN THEN Len(seq) ELSE ScanN)
  IN CHOOSE i \in some :
       /\ \A j \in some : Counted(cold, seq[i]) <= Counted(cold, seq[j])
       /\ \A j \in some : j < i => Counted(cold, seq[i]) < Counted(cold, seq[j])

\* pick_lru_victim among the candidates, the least recently used first.
PickLruVictim(seq, t) ==
  LET ring == Fresh(cold, t)
      some == 1..(IF Len(seq) < ScanN THEN Len(seq) ELSE ScanN)
  IN CHOOSE i \in some :
       /\ \A j \in some : Counted(ring, seq[i]) <= Counted(ring, seq[j])
       /\ \A j \in some : j < i => Counted(ring, seq[i]) < Counted(ring, seq[j])

-----------------------------------------------------------------------------
(* Properties, for the clock at t. *)

\* How many of the times are at most age ago.
Within(times, age, t) == Cardinality({n \in 1..Len(times) : times[n] + age >= t})

WindowsTypeOK ==
  /\ \A ring \in {hot, cold} : \A i \in Slots :
       /\ ring[i].start \in Nat /\ ring[i].start % BucketTime = 0
       /\ ring[i].count \in [Keys -> Nat]
  /\ Range(order) = KeysIn(cold) /\ IsInjective(order)
  /\ most \in Nat /\ Len(order) <= most

\* What the detector reports of a key are accesses of the window, and all of them
\* but those older than every bucket but one, however its ring was reused.
WindowIsCounted(t) ==
  \A key \in Keys :
    LET reported == Counted(Fresh(hot, t), key) IN
      /\ reported <= Within(hotLog[key], Window, t)
      /\ reported >= Within(hotLog[key], Window - BucketTime - 1, t)

\* A key that is tracked and was accessed within all buckets but one does not go
\* before one that has not been accessed within the window.
ColdKeysGoFirst(t) ==
  \A a, b \in Keys :
    /\ a # b /\ a \in Range(order) /\ ScanN > 1
    /\ Within(coldLog[a], Window - BucketTime - 1, t) > 0
    /\ Within(coldLog[b], Window, t) = 0
    => PickLruVictim(<<a, b>>, t) = 2
=============================================================================
