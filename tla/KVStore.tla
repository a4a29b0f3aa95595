------------------------------- MODULE KVStore -------------------------------
(***************************************************************************)
(* What a shard promises its callers, whatever its eviction policy and     *)
(* wherever it keeps an entry: a map from keys to a value and a deadline.  *)
(* An entry is there until it is written over, removed, or its deadline    *)
(* has passed; only a shard with a size limit and no tier behind it        *)
(* (Lossy) may drop one for want of room.  Spilling an entry to the tier   *)
(* and promoting it back are invisible here.                               *)
(***************************************************************************)
EXTENDS Naturals

CONSTANTS Keys, Val, None, Lossy

VARIABLES
  db,     \* the entry of each key, None if there is none
  now,
  reply   \* the answer of the last read or increment

Entry == [val: Val, exp: Nat \cup {None}]

\* Empty, or what was loaded at the start.
Init ==
  /\ db \in [Keys -> Entry \cup {None}]
  /\ now = 0
  /\ reply = None

Lapsed(k) == db[k] # None /\ db[k].exp # None /\ db[k].exp <= now

\* The entries left when those of K, all past their deadline, are dropped.
Without(K) == [k \in Keys |-> IF k \in K THEN None ELSE db[k]]

Tick == now' = now + 1 /\ UNCHANGED <<db, reply>>

Lapsing == SUBSET {k \in Keys : Lapsed(k)}

\* Every call may drop lapsed entries on the way.
Sweep ==
  \E K \in Lapsing :
    /\ db' = Without(K)
    /\ reply' \in {reply, None}
    /\ UNCHANGED now

\* A write gives the keys of S a value (batches are of one value here), with a
\* deadline to come, none, or the one they had.
Put(S) ==
  /\ S # {}
  /\ \A k \in S : db'[k] \in Entry
  /\ \A j, k \in S : db'[j].val = db'[k].val
  /\ \A k \in S :
       db'[k].exp # None =>
         db'[k].exp >= now \/ (db[k] # None /\ db'[k].exp = db[k].exp)
  /\ \E K \in Lapsing :
       db' = [k \in Keys |-> IF k \in S THEN db'[k] ELSE Without(K)[k]]
  /\ reply' \in {None} \cup {[key |-> k, val |-> db'[k].val] : k \in S}
  /\ UNCHANGED now

\* A write that leaves no time to live, dropped again, wholly or but for the keys
\* of S, for want of room before the call returns.
PutInVain(L, S) ==
  /\ L # {}
  /\ \A k \in S : db'[k] \in Entry /\ db'[k].exp = now
  /\ \A j, k \in S : db'[j].val = db'[k].val
  /\ \E K \in Lapsing :
       db' = [k \in Keys |-> IF k \in L THEN None
                            ELSE IF k \in S THEN db'[k] ELSE Without(K)[k]]
  /\ reply' = None
  /\ UNCHANGED now

Remove(k) ==
  /\ db' = [db EXCEPT ![k] = None]
  /\ reply' = None
  /\ UNCHANGED now

\* A present entry is returned as it is; a miss is reported only for an entry
\* that is absent or past its deadline.
Read(k) ==
  /\ \E K \in Lapsing :
       \/ /\ db[k] # None
          /\ reply' = [key |-> k, val |-> db[k].val]
          /\ db' = Without(K \ {k})
       \/ /\ db[k] = None \/ Lapsed(k)
          /\ reply' = [key |-> k, val |-> None]
          /\ db' = [Without(K) EXCEPT ![k] = None]
  /\ UNCHANGED now

Evict(k) ==
  /\ Lossy
  /\ db' = [db EXCEPT ![k] = None]
  /\ UNCHANGED <<now, reply>>

Next ==
  \/ Tick
  \/ Sweep
  \/ \E S \in SUBSET Keys : Put(S)
  \/ \E k \in Keys : Remove(k) \/ Read(k) \/ Evict(k)
  \/ \E L, S \in SUBSET Keys : PutInVain(L, S)

Spec == Init /\ [][Next]_<<db, now, reply>>
=============================================================================
