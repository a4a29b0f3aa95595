--------------------------- MODULE LFUShardProofs ---------------------------
(***************************************************************************)
(* Theorems about LFUShard, for any set of keys, any limit and any clock.  *)
(***************************************************************************)
EXTENDS LFUShard, FiniteSetTheorems, SequenceTheorems, TLAPS

-----------------------------------------------------------------------------
(* What the operators do to the maps of a shard. *)

\* The maps agree, and the frequencies count the uses.
Sound(m) ==
  /\ m \in Contents
  /\ IsFiniteSet(Resident(m))
  /\ m.skeys = Resident(m)
  /\ \A k \in Keys :
       /\ m.ttl[k] # None => m.val[k] # None
       /\ m.val[k] # None => m.freq[k] # 0
       /\ m.freq[k] - m.uses[k] \in (IF m.val[k] # None THEN {0, 1} ELSE {0})

\* An entry is in memory or in the tier, not in both.
Apart(m, t) == \A k \in Keys : m.val[k] # None => t[k] = None

IInv == TypeOK /\ Sound(mem) /\ Apart(mem, tier)

LEMMA ContentsFields ==
  ASSUME NEW m \in Contents
  PROVE  /\ m.val \in [Keys -> Val \cup {None}]
         /\ m.ttl \in [Keys -> Nat \cup {None}]
         /\ m.freq \in [Keys -> Nat]
         /\ m.uses \in [Keys -> Nat]
         /\ m.newer \in [Keys -> SUBSET Keys]
         /\ m.skeys \in SUBSET Keys
BY DEF Contents

LEMMA SoundContents == ASSUME NEW m, Sound(m) PROVE m \in Contents
BY DEF Sound

LEMMA BlankSound == Sound(Blank)
<1>1. Blank \in Contents
  BY DEF Blank, Contents
<1>2. Resident(Blank) = {}
  BY DEF Blank, Resident
<1>3. IsFiniteSet(Resident(Blank))
  BY <1>2, FS_EmptySet
<1>4. \A k \in Keys : /\ Blank.val[k] = None /\ Blank.ttl[k] = None
                       /\ Blank.freq[k] = 0 /\ Blank.uses[k] = 0
  BY DEF Blank
<1>5. Blank.skeys = {}
  BY DEF Blank
<1> QED
  BY <1>1, <1>2, <1>3, <1>4, <1>5 DEF Sound

LEMMA DeletedFields ==
  ASSUME NEW m \in Contents, NEW K \in SUBSET Keys
  PROVE  /\ Deleted(m, K) \in Contents
         /\ Resident(Deleted(m, K)) = Resident(m) \ K
         /\ Deleted(m, K).skeys = m.skeys \ K
         /\ \A k \in Keys :
              /\ k \in K => /\ Deleted(m, K).val[k] = None
                            /\ Deleted(m, K).ttl[k] = None
                            /\ Deleted(m, K).freq[k] = 0
                            /\ Deleted(m, K).uses[k] = 0
              /\ k \notin K => /\ Deleted(m, K).val[k] = m.val[k]
                               /\ Deleted(m, K).ttl[k] = m.ttl[k]
                               /\ Deleted(m, K).freq[k] = m.freq[k]
                               /\ Deleted(m, K).uses[k] = m.uses[k]
              /\ Deleted(m, K).newer[k] \subseteq m.newer[k]
<1> USE ContentsFields
<1>1. Deleted(m, K) \in Contents
  BY DEF Deleted, Contents
<1> QED
  BY <1>1 DEF Deleted, Resident

LEMMA DeletedSound ==
  ASSUME NEW m, Sound(m), NEW K \in SUBSET Keys
  PROVE  Sound(Deleted(m, K))
<1> DEFINE d == Deleted(m, K)
<1>0. m \in Contents
  BY DEF Sound
<1>1. IsFiniteSet(Resident(m) \ K)
  BY FS_Subset DEF Sound
<1> HIDE DEF d
<1>2. /\ d \in Contents
      /\ Resident(d) = Resident(m) \ K /\ d.skeys = m.skeys \ K
      /\ \A k \in Keys :
           /\ k \in K => /\ d.val[k] = None /\ d.ttl[k] = None
                         /\ d.freq[k] = 0 /\ d.uses[k] = 0
           /\ k \notin K => /\ d.val[k] = m.val[k] /\ d.ttl[k] = m.ttl[k]
                            /\ d.freq[k] = m.freq[k] /\ d.uses[k] = m.uses[k]
  BY <1>0, DeletedFields DEF d
<1>3. \A k \in Keys :
        /\ d.ttl[k] # None => d.val[k] # None
        /\ d.val[k] # None => d.freq[k] # 0
        /\ d.freq[k] - d.uses[k] \in (IF d.val[k] # None THEN {0, 1} ELSE {0})
  BY <1>2 DEF Sound
<1>4. Sound(d)
  BY <1>1, <1>2, <1>3 DEF Sound
<1> QED
  BY <1>4 DEF d

LEMMA TouchedFields ==
  ASSUME NEW m \in Contents, NEW k \in Keys
  PROVE  /\ Touched(m, k) \in Contents
         /\ Touched(m, k).val = m.val /\ Touched(m, k).ttl = m.ttl
         /\ Touched(m, k).uses = m.uses /\ Touched(m, k).skeys = m.skeys
         /\ Touched(m, k).freq = [m.freq EXCEPT ![k] = @ + 1]
         /\ Touched(m, k).newer[k] = {}
         /\ \A j \in Keys : Touched(m, k).newer[j] \subseteq m.newer[j] \cup {k}
<1> USE ContentsFields
<1> DEFINE f == [m.freq EXCEPT ![k] = @ + 1]
           n == [j \in Keys |-> IF j # k /\ m.freq[j] # 0
                                THEN m.newer[j] \cup {k} ELSE {}]
           d == Touched(m, k)
<1>1. f \in [Keys -> Nat]
  OBVIOUS
<1>2. /\ n \in [Keys -> SUBSET Keys] /\ n[k] = {}
      /\ \A j \in Keys : n[j] \subseteq m.newer[j] \cup {k}
  OBVIOUS
<1>3. d = [m EXCEPT !.freq = f, !.newer = n]
  BY DEF Touched, Contents
<1> HIDE DEF f, n, d
<1>4. /\ d.val = m.val /\ d.ttl = m.ttl /\ d.uses = m.uses /\ d.skeys = m.skeys
      /\ d.freq = f /\ d.newer = n
  BY <1>3 DEF Contents
<1>5. d \in Contents
  BY <1>1, <1>2, <1>3 DEF Contents
<1>6. /\ d \in Contents
      /\ d.val = m.val /\ d.ttl = m.ttl
      /\ d.uses = m.uses /\ d.skeys = m.skeys
      /\ d.freq = f
      /\ d.newer[k] = {}
      /\ \A j \in Keys : d.newer[j] \subseteq m.newer[j] \cup {k}
  BY <1>2, <1>4, <1>5
<1> QED
  BY <1>6 DEF f, d

LEMMA UsedFields ==
  ASSUME NEW m \in Contents, NEW k \in Keys
  PROVE  /\ Used(m, k) \in Contents
         /\ Used(m, k).val = m.val /\ Used(m, k).ttl = m.ttl
         /\ Used(m, k).skeys = m.skeys
         /\ Used(m, k).freq = [m.freq EXCEPT ![k] = @ + 1]
         /\ Used(m, k).uses = [m.uses EXCEPT ![k] = @ + 1]
         /\ \A j \in Keys : Used(m, k).newer[j] \subseteq m.newer[j] \cup {k}
<1> DEFINE d == Touched(m, k)
<1>1. /\ d \in Contents
      /\ d.val = m.val /\ d.ttl = m.ttl /\ d.uses = m.uses /\ d.skeys = m.skeys
      /\ d.freq = [m.freq EXCEPT ![k] = @ + 1]
      /\ \A j \in Keys : d.newer[j] \subseteq m.newer[j] \cup {k}
  BY TouchedFields
<1>2. Used(m, k) = [d EXCEPT !.uses[k] = @ + 1]
  BY DEF Used
<1> DEFINE c == [m.uses EXCEPT ![k] = @ + 1]
           u == Used(m, k)
<1>3. c \in [Keys -> Nat]
  BY ContentsFields
<1>4. u = [d EXCEPT !.uses = c]
  BY <1>1, <1>2
<1> HIDE DEF d, c, u
<1>5. /\ u \in Contents
      /\ u.val = m.val /\ u.ttl = m.ttl /\ u.skeys = m.skeys
      /\ u.freq = [m.freq EXCEPT ![k] = @ + 1]
      /\ u.uses = c /\ u.newer = d.newer
  BY <1>1, <1>3, <1>4 DEF Contents
<1> QED
  BY <1>1, <1>5 DEF c, u

LEMMA UsedSound ==
  ASSUME NEW m, Sound(m), NEW k \in Keys
  PROVE  Sound(Used(m, k))
<1> DEFINE u == Used(m, k)
<1>0. m \in Contents
  BY DEF Sound
<1>1. /\ u \in Contents
      /\ u.val = m.val /\ u.ttl = m.ttl /\ u.skeys = m.skeys
      /\ u.freq = [m.freq EXCEPT ![k] = @ + 1]
      /\ u.uses = [m.uses EXCEPT ![k] = @ + 1]
  BY <1>0, UsedFields
<1> HIDE DEF u
<1>2. Resident(u) = Resident(m)
  BY <1>1 DEF Resident
<1>3. \A j \in Keys :
        /\ u.ttl[j] # None => u.val[j] # None
        /\ u.val[j] # None => u.freq[j] # 0
        /\ u.freq[j] - u.uses[j] \in (IF u.val[j] # None THEN {0, 1} ELSE {0})
  <2> TAKE j \in Keys
  <2>1. m.freq[j] \in Nat /\ m.uses[j] \in Nat
    BY <1>0, ContentsFields
  <2>2. m.freq \in [Keys -> Nat] /\ m.uses \in [Keys -> Nat]
    BY <1>0, ContentsFields
  <2>3. /\ u.freq[j] = IF j = k THEN m.freq[j] + 1 ELSE m.freq[j]
        /\ u.uses[j] = IF j = k THEN m.uses[j] + 1 ELSE m.uses[j]
    BY <1>1, <2>2
  <2>4. m.freq[j] - m.uses[j] \in (IF m.val[j] # None THEN {0, 1} ELSE {0})
    BY DEF Sound
  <2> QED
    BY <1>1, <2>1, <2>3, <2>4 DEF Sound
<1>4. Sound(u)
  BY <1>1, <1>2, <1>3 DEF Sound
<1> QED
  BY <1>4 DEF u

\* Written changes the entry, the counts and the place of k, and nothing else.
LEMMA WrittenFields ==
  ASSUME NEW m \in Contents, NEW k \in Keys, NEW v \in Val, NEW t \in Args,
         now \in Nat
  PROVE  /\ Written(m, k, v, t) \in Contents
         /\ Written(m, k, v, t).val[k] = v
         /\ Written(m, k, v, t).ttl[k] = IF t = None THEN m.ttl[k] ELSE DeadlineOf(t)
         /\ Written(m, k, v, t).freq[k] = m.freq[k] + 1
         /\ Written(m, k, v, t).uses[k] = m.uses[k] + 1
         /\ Written(m, k, v, t).skeys = m.skeys \cup {k}
         /\ \A j \in Keys : j # k =>
              /\ Written(m, k, v, t).val[j] = m.val[j]
              /\ Written(m, k, v, t).ttl[j] = m.ttl[j]
              /\ Written(m, k, v, t).freq[j] = m.freq[j]
              /\ Written(m, k, v, t).uses[j] = m.uses[j]
         /\ \A j \in Keys : Written(m, k, v, t).newer[j] \subseteq m.newer[j] \cup {k}
<1> DEFINE s == Stores(m, k, v)
           w == WithTTL(s, k, t)
           u == Used(w, k)
           e == IF t = None THEN m.ttl[k] ELSE DeadlineOf(t)
<1>0. /\ m.val \in [Keys -> Val \cup {None}] /\ m.ttl \in [Keys -> Nat \cup {None}]
      /\ m.freq \in [Keys -> Nat] /\ m.uses \in [Keys -> Nat]
  BY ContentsFields
<1>1. /\ s \in Contents
      /\ s.val = [m.val EXCEPT ![k] = v] /\ s.ttl = m.ttl
      /\ s.skeys = m.skeys \cup {k} /\ s.freq = m.freq /\ s.uses = m.uses
      /\ s.newer = m.newer
  BY ContentsFields DEF Stores, Contents
<1>2. e \in Nat \cup {None} /\ (t # None => e = now + t)
  <2>1. t # None => t \in Nat /\ now + t \in Nat
    BY LFUAssumption DEF Args
  <2> QED
    BY <1>0, <2>1 DEF DeadlineOf
<1> HIDE DEF s, e
<1>3. w = [s EXCEPT !.ttl[k] = e]
  <2>1. CASE t = None
    <3>1. [s.ttl EXCEPT ![k] = e] = s.ttl
      BY <1>0, <1>1, <2>1 DEF e
    <3>2. [s EXCEPT !.ttl = s.ttl] = s
      BY <1>1 DEF Contents
    <3> QED
      BY <2>1, <3>1, <3>2 DEF WithTTL
  <2>2. CASE t # None
    BY <1>2, <2>2 DEF WithTTL
  <2> QED
    BY <2>1, <2>2
<1> HIDE DEF w
<1>4. /\ w \in Contents
      /\ w.val = s.val /\ w.ttl = [m.ttl EXCEPT ![k] = e]
      /\ w.skeys = s.skeys /\ w.freq = m.freq /\ w.uses = m.uses
      /\ w.newer = m.newer
  BY <1>0, <1>1, <1>2, <1>3 DEF Contents
<1>5. /\ u \in Contents
      /\ u.val = w.val /\ u.ttl = w.ttl /\ u.skeys = w.skeys
      /\ u.freq = [w.freq EXCEPT ![k] = @ + 1]
      /\ u.uses = [w.uses EXCEPT ![k] = @ + 1]
      /\ \A j \in Keys : u.newer[j] \subseteq w.newer[j] \cup {k}
  BY <1>4, UsedFields
<1> HIDE DEF u
<1>6. /\ u \in Contents
      /\ u.val[k] = v /\ u.ttl[k] = e
      /\ u.freq[k] = m.freq[k] + 1 /\ u.uses[k] = m.uses[k] + 1
      /\ u.skeys = m.skeys \cup {k}
      /\ \A j \in Keys : j # k =>
           /\ u.val[j] = m.val[j] /\ u.ttl[j] = m.ttl[j]
           /\ u.freq[j] = m.freq[j] /\ u.uses[j] = m.uses[j]
      /\ \A j \in Keys : u.newer[j] \subseteq m.newer[j] \cup {k}
  BY <1>0, <1>1, <1>4, <1>5
<1>7. Written(m, k, v, t) = u
  BY DEF Written, s, w, u
<1> QED
  BY <1>6, <1>7 DEF e

LEMMA WrittenSound ==
  ASSUME NEW m, Sound(m), NEW k \in Keys, NEW v \in Val, NEW t \in Args, now \in Nat
  PROVE  /\ Sound(Written(m, k, v, t))
         /\ Resident(Written(m, k, v, t)) = Resident(m) \cup {k}
<1> DEFINE u == Written(m, k, v, t)
<1>0. m \in Contents /\ v # None
  BY LFUAssumption DEF Sound
<1>1. /\ u \in Contents
      /\ u.val[k] = v
      /\ u.freq[k] = m.freq[k] + 1 /\ u.uses[k] = m.uses[k] + 1
      /\ u.skeys = m.skeys \cup {k}
      /\ \A j \in Keys : j # k =>
           /\ u.val[j] = m.val[j] /\ u.ttl[j] = m.ttl[j]
           /\ u.freq[j] = m.freq[j] /\ u.uses[j] = m.uses[j]
  BY <1>0, WrittenFields
<1> HIDE DEF u
<1>2. m.freq \in [Keys -> Nat] /\ m.uses \in [Keys -> Nat]
  BY <1>0, ContentsFields
<1>3. Resident(u) = Resident(m) \cup {k}
  BY <1>0, <1>1 DEF Resident
<1>4. IsFiniteSet(Resident(u))
  BY <1>3, FS_AddElement DEF Sound
<1>5. \A j \in Keys :
        /\ u.ttl[j] # None => u.val[j] # None
        /\ u.val[j] # None => u.freq[j] # 0
        /\ u.freq[j] - u.uses[j] \in (IF u.val[j] # None THEN {0, 1} ELSE {0})
  <2> TAKE j \in Keys
  <2>1. m.freq[j] \in Nat /\ m.uses[j] \in Nat
    BY <1>2
  <2>2. /\ m.freq[j] - m.uses[j] \in (IF m.val[j] # None THEN {0, 1} ELSE {0})
        /\ m.val[j] # None => m.freq[j] # 0
        /\ m.ttl[j] # None => m.val[j] # None
    BY DEF Sound
  <2>3. CASE j = k
    BY <1>0, <1>1, <2>1, <2>2, <2>3
  <2>4. CASE j # k
    BY <1>1, <2>1, <2>2, <2>4
  <2> QED
    BY <2>3, <2>4
<1>6. Sound(u)
  BY <1>1, <1>3, <1>4, <1>5 DEF Sound
<1> QED
  BY <1>3, <1>6 DEF u

\* create and update are cases of Written: the first gives a new key no deadline
\* where it is given none, the second finds the key in the index.
LEMMA EnteredIsWritten ==
  ASSUME NEW m, Sound(m), NEW k \in Keys, NEW v \in Val, NEW t, k \notin Resident(m)
  PROVE  Entered(m, k, v, t) = Written(m, k, v, t)
<1>0. m \in Contents /\ m.ttl \in [Keys -> Nat \cup {None}] /\ m.ttl[k] = None
  BY ContentsFields DEF Sound, Resident
<1> DEFINE s == Stores(m, k, v)
<1>1. s \in [val: [Keys -> Val \cup {None}], ttl: [Keys -> Nat \cup {None}],
             freq: [Keys -> Nat], uses: [Keys -> Nat],
             newer: [Keys -> SUBSET Keys], skeys: SUBSET Keys]
      /\ s.ttl = m.ttl
  BY <1>0, ContentsFields DEF Stores, Contents
<1> HIDE DEF s
<1>2. [s EXCEPT !.ttl[k] = DeadlineOf(t)] = WithTTL(s, k, t)
  <2>1. CASE t = None
    <3>1. [s.ttl EXCEPT ![k] = None] = s.ttl
      BY <1>0, <1>1
    <3> QED
      BY <1>1, <2>1, <3>1 DEF DeadlineOf, WithTTL
  <2>2. CASE t # None
    BY <2>2 DEF DeadlineOf, WithTTL
  <2> QED
    BY <2>1, <2>2
<1> QED
  BY <1>2 DEF Entered, Written, s

LEMMA UpdatedIsWritten ==
  ASSUME NEW m, Sound(m), NEW k \in Keys, NEW v \in Val, NEW t, k \in Resident(m)
  PROVE  Used(WithTTL([m EXCEPT !.val[k] = v], k, t), k) = Written(m, k, v, t)
<1>1. m \in Contents /\ m.skeys \cup {k} = m.skeys
  BY DEF Sound
<1>2. [m EXCEPT !.val[k] = v] = Stores(m, k, v)
  BY <1>1 DEF Stores, Contents
<1> QED
  BY <1>2 DEF Written

\* The key that comes back from the tier: touched once, not used by a client yet.
LEMMA BackFields ==
  ASSUME NEW m \in Contents, NEW k \in Keys, tier[k] \in Copy
  PROVE  /\ Back(m, k) \in Contents
         /\ Back(m, k).val[k] = tier[k].val
         /\ Back(m, k).ttl[k] = tier[k].exp
         /\ Back(m, k).freq[k] = m.freq[k] + 1
         /\ Back(m, k).uses = m.uses
         /\ Back(m, k).skeys = m.skeys \cup {k}
         /\ Back(m, k).newer[k] = {}
         /\ \A j \in Keys : j # k =>
              /\ Back(m, k).val[j] = m.val[j]
              /\ Back(m, k).ttl[j] = m.ttl[j]
              /\ Back(m, k).freq[j] = m.freq[j]
         /\ \A j \in Keys : Back(m, k).newer[j] \subseteq m.newer[j] \cup {k}
<1> DEFINE s == Stores(m, k, tier[k].val)
           w == [s EXCEPT !.ttl[k] = tier[k].exp]
           u == Touched(w, k)
<1>0. /\ m.val \in [Keys -> Val \cup {None}] /\ m.ttl \in [Keys -> Nat \cup {None}]
      /\ m.freq \in [Keys -> Nat] /\ m.uses \in [Keys -> Nat]
  BY ContentsFields
<1>1. tier[k].val \in Val /\ tier[k].exp \in Nat \cup {None}
  BY DEF Copy
<1>2. /\ s \in Contents
      /\ s.val = [m.val EXCEPT ![k] = tier[k].val] /\ s.ttl = m.ttl
      /\ s.skeys = m.skeys \cup {k} /\ s.freq = m.freq /\ s.uses = m.uses
      /\ s.newer = m.newer
  BY <1>1, ContentsFields DEF Stores, Contents
<1> HIDE DEF s
<1>3. /\ w \in Contents
      /\ w.val = s.val /\ w.ttl = [m.ttl EXCEPT ![k] = tier[k].exp]
      /\ w.skeys = s.skeys /\ w.freq = m.freq /\ w.uses = m.uses
      /\ w.newer = m.newer
  BY <1>0, <1>1, <1>2 DEF Contents
<1> HIDE DEF w
<1>4. /\ u \in Contents
      /\ u.val = w.val /\ u.ttl = w.ttl /\ u.skeys = w.skeys /\ u.uses = w.uses
      /\ u.freq = [w.freq EXCEPT ![k] = @ + 1]
      /\ u.newer[k] = {}
      /\ \A j \in Keys : u.newer[j] \subseteq w.newer[j] \cup {k}
  BY <1>3, TouchedFields
<1> HIDE DEF u
<1>5. /\ u \in Contents
      /\ u.val[k] = tier[k].val /\ u.ttl[k] = tier[k].exp
      /\ u.freq[k] = m.freq[k] + 1 /\ u.uses = m.uses
      /\ u.skeys = m.skeys \cup {k} /\ u.newer[k] = {}
      /\ \A j \in Keys : j # k =>
           /\ u.val[j] = m.val[j] /\ u.ttl[j] = m.ttl[j] /\ u.freq[j] = m.freq[j]
      /\ \A j \in Keys : u.newer[j] \subseteq m.newer[j] \cup {k}
  BY <1>0, <1>2, <1>3, <1>4
<1>6. Back(m, k) = u
  BY DEF Back, s, w, u
<1> QED
  BY <1>5, <1>6

LEMMA BackSound ==
  ASSUME NEW m, Sound(m), NEW k \in Keys, k \notin Resident(m), tier[k] \in Copy
  PROVE  /\ Sound(Back(m, k))
         /\ Resident(Back(m, k)) = Resident(m) \cup {k}
<1> DEFINE u == Back(m, k)
<1>0. m \in Contents /\ tier[k].val # None
  BY LFUAssumption DEF Sound, Copy
<1>1. /\ u \in Contents
      /\ u.val[k] = tier[k].val
      /\ u.freq[k] = m.freq[k] + 1 /\ u.uses = m.uses
      /\ u.skeys = m.skeys \cup {k}
      /\ \A j \in Keys : j # k =>
           /\ u.val[j] = m.val[j] /\ u.ttl[j] = m.ttl[j] /\ u.freq[j] = m.freq[j]
  BY <1>0, BackFields
<1> HIDE DEF u
<1>2. m.freq \in [Keys -> Nat] /\ m.uses \in [Keys -> Nat]
  BY <1>0, ContentsFields
<1>3. Resident(u) = Resident(m) \cup {k}
  BY <1>0, <1>1 DEF Resident
<1>4. IsFiniteSet(Resident(u))
  BY <1>3, FS_AddElement DEF Sound
<1>5. \A j \in Keys :
        /\ u.ttl[j] # None => u.val[j] # None
        /\ u.val[j] # None => u.freq[j] # 0
        /\ u.freq[j] - u.uses[j] \in (IF u.val[j] # None THEN {0, 1} ELSE {0})
  <2> TAKE j \in Keys
  <2>1. m.freq[j] \in Nat /\ m.uses[j] \in Nat
    BY <1>2
  <2>2. /\ m.freq[j] - m.uses[j] \in (IF m.val[j] # None THEN {0, 1} ELSE {0})
        /\ m.val[j] # None => m.freq[j] # 0
        /\ m.ttl[j] # None => m.val[j] # None
    BY DEF Sound
  <2>3. CASE j = k
    BY <1>0, <1>1, <2>1, <2>2, <2>3 DEF Resident
  <2>4. CASE j # k
    BY <1>1, <2>1, <2>2, <2>4
  <2> QED
    BY <2>3, <2>4
<1>6. Sound(u)
  BY <1>1, <1>3, <1>4, <1>5 DEF Sound
<1> QED
  BY <1>3, <1>6 DEF u

\* persist takes the deadline of a key away.
LEMMA PersistedSound ==
  ASSUME NEW m, Sound(m), NEW k \in Keys
  PROVE  /\ Sound([m EXCEPT !.ttl[k] = None])
         /\ [m EXCEPT !.ttl[k] = None].val = m.val
         /\ [m EXCEPT !.ttl[k] = None].ttl = [m.ttl EXCEPT ![k] = None]
         /\ [m EXCEPT !.ttl[k] = None].freq = m.freq
         /\ [m EXCEPT !.ttl[k] = None].uses = m.uses
         /\ [m EXCEPT !.ttl[k] = None].newer = m.newer
<1> DEFINE u == [m EXCEPT !.ttl[k] = None]
<1>1. m \in Contents /\ m.ttl \in [Keys -> Nat \cup {None}]
  BY ContentsFields DEF Sound
<1>2. /\ u \in Contents /\ u.val = m.val /\ u.freq = m.freq /\ u.uses = m.uses
      /\ u.skeys = m.skeys /\ u.newer = m.newer
      /\ u.ttl = [m.ttl EXCEPT ![k] = None]
  BY <1>1 DEF Contents
<1> HIDE DEF u
<1>3. Resident(u) = Resident(m)
  BY <1>2 DEF Resident
<1>4. Sound(u)
  BY <1>1, <1>2, <1>3 DEF Sound
<1> QED
  BY <1>2, <1>4 DEF u

LEMMA PurgedSound ==
  ASSUME NEW m, Sound(m), NEW t, Apart(m, t)
  PROVE  Sound(Purged(m)) /\ Apart(Purged(m), t)
<1> DEFINE K == {k \in Keys : Passed(m.ttl[k])}
<1>0. m \in Contents /\ K \in SUBSET Keys
  BY DEF Sound
<1> HIDE DEF K
<1>1. Sound(Deleted(m, K))
  BY <1>0, DeletedSound
<1>2. \A k \in Keys : Deleted(m, K).val[k] # None => m.val[k] # None
  BY <1>0, DeletedFields
<1> QED
  BY <1>1, <1>2 DEF Purged, Apart, K

LEMMA ForgetTyped ==
  ASSUME NEW k \in Keys, tier \in [Keys -> Copy \cup {None}]
  PROVE  /\ Forget(k) \in [Keys -> Copy \cup {None}]
         /\ Forget(k)[k] = None
         /\ \A j \in Keys : j # k => Forget(k)[j] = tier[j]
BY DEF Forget

\* What the eviction spills is in the tier and in memory no more.
LEMMA EvictedSound ==
  ASSUME NEW m, Sound(m), NEW t \in [Keys -> Copy \cup {None}], Apart(m, t),
         NEW V \in Victims(m)
  PROVE  /\ V \in SUBSET Resident(m)
         /\ Sound(Deleted(m, V))
         /\ Spilled(m, V, t) \in [Keys -> Copy \cup {None}]
         /\ Apart(Deleted(m, V), Spilled(m, V, t))
<1>0. m \in Contents
  BY DEF Sound
<1>1. V \in SUBSET Resident(m) /\ V \in SUBSET Keys
  BY DEF Victims, Resident
<1>2. Sound(Deleted(m, V))
  BY <1>1, DeletedSound
<1>3. \A k \in V : [val |-> m.val[k], exp |-> m.ttl[k]] \in Copy
  BY <1>0, <1>1, ContentsFields DEF Copy, Resident
<1>4. Spilled(m, V, t) \in [Keys -> Copy \cup {None}]
  BY <1>3 DEF Spilled
<1>5. Apart(Deleted(m, V), Spilled(m, V, t))
  BY <1>0, <1>1, DeletedFields DEF Apart, Spilled
<1> QED
  BY <1>1, <1>2, <1>4, <1>5

LEMMA EvictSound ==
  ASSUME NEW m, Sound(m), NEW t \in [Keys -> Copy \cup {None}], Apart(m, t),
         Evict(m, t)
  PROVE  /\ Sound(mem') /\ tier' \in [Keys -> Copy \cup {None}]
         /\ Apart(mem', tier')
<1> PICK V \in Victims(m) : mem' = Deleted(m, V) /\ tier' = Spilled(m, V, t)
  BY DEF Evict
<1> QED
  BY EvictedSound

LEMMA PromotedSound ==
  ASSUME NEW m, Sound(m), tier \in [Keys -> Copy \cup {None}], Apart(m, tier),
         NEW k \in Keys, NEW p \in Promoted(m, k)
  PROVE  /\ Sound(p.mem) /\ p.tier \in [Keys -> Copy \cup {None}]
         /\ Apart(p.mem, p.tier)
<1>1. CASE k \in Resident(m)
  BY <1>1 DEF Promoted
<1>2. CASE k \notin Resident(m) /\ ~Fresh(k)
  <2>1. p = [mem |-> m, tier |-> Forget(k)]
    BY <1>2 DEF Promoted
  <2>2. Apart(m, Forget(k))
    BY ForgetTyped DEF Apart
  <2> QED
    BY <2>1, <2>2, ForgetTyped
<1>3. CASE k \notin Resident(m) /\ Fresh(k)
  <2> DEFINE b == Back(m, k)
  <2>1. tier[k] \in Copy /\ m \in Contents
    BY <1>3 DEF Fresh, Sound
  <2>2. Sound(b) /\ \A j \in Keys : j # k => b.val[j] = m.val[j]
    BY <1>3, <2>1, BackSound, BackFields
  <2> HIDE DEF b
  <2>3. Apart(b, Forget(k))
    BY <2>2, ForgetTyped DEF Apart
  <2>4. PICK V \in Victims(b) :
          p = [mem |-> Deleted(b, V), tier |-> Spilled(b, V, Forget(k))]
    BY <1>3 DEF Promoted, b
  <2>5. Forget(k) \in [Keys -> Copy \cup {None}]
    BY ForgetTyped
  <2> QED
    BY <2>2, <2>3, <2>4, <2>5, EvictedSound
<1> QED
  BY <1>1, <1>2, <1>3

-----------------------------------------------------------------------------
(* Each action keeps the invariant. *)

Kept == /\ Sound(mem') /\ Apart(mem', tier')
        /\ tier' \in [Keys -> Copy \cup {None}]

\* A successful write of k, after which the eviction runs.
LEMMA WriteKept ==
  ASSUME NEW m, Sound(m), NEW t0 \in [Keys -> Copy \cup {None}], Apart(m, t0),
         NEW k \in Keys, NEW v \in Val, NEW t \in Args, now \in Nat,
         Evict(Written(m, k, v, t), [t0 EXCEPT ![k] = None])
  PROVE  Kept
<1> DEFINE w == Written(m, k, v, t)
           f == [t0 EXCEPT ![k] = None]
<1>1. Sound(w)
  BY WrittenSound
<1>2. \A j \in Keys : j # k => w.val[j] = m.val[j]
  BY WrittenFields DEF Sound
<1> HIDE DEF w
<1>3. f \in [Keys -> Copy \cup {None}] /\ Apart(w, f)
  BY <1>2 DEF Apart
<1>4. Evict(w, f)
  BY DEF w
<1> HIDE DEF f
<1> QED
  BY <1>1, <1>3, <1>4, EvictSound DEF Kept

LEMMA PurgedMem ==
  ASSUME IInv
  PROVE  /\ Sound(Purged(mem)) /\ Apart(Purged(mem), tier)
         /\ tier \in [Keys -> Copy \cup {None}] /\ now \in Nat
BY PurgedSound DEF IInv, TypeOK

LEMMA CreateKept ==
  ASSUME IInv, NEW k \in Keys, NEW v \in Val, NEW t \in Args, Create(k, v, t)
  PROVE  Kept
<1> DEFINE m == Purged(mem)
<1>0. Sound(m) /\ Apart(m, tier) /\ tier \in [Keys -> Copy \cup {None}] /\ now \in Nat
  BY PurgedMem
<1>1. CASE Raises(m)
  BY <1>0, <1>1 DEF Raises, Kept
<1>2. CASE k \notin Resident(m) /\ Evict(Entered(m, k, v, t), Forget(k))
  <2>1. Entered(m, k, v, t) = Written(m, k, v, t)
    BY <1>0, <1>2, EnteredIsWritten
  <2>2. Evict(Written(m, k, v, t), [tier EXCEPT ![k] = None])
    BY <1>2, <2>1 DEF Forget
  <2> HIDE DEF m
  <2> QED
    BY <1>0, <2>2, WriteKept
<1> QED
  BY <1>1, <1>2 DEF Create

LEMMA UpdateKept ==
  ASSUME IInv, NEW k \in Keys, NEW v \in Val, NEW t \in Args, Update(k, v, t)
  PROVE  Kept
<1> DEFINE m == Purged(mem)
           u == Used(WithTTL([m EXCEPT !.val[k] = v], k, t), k)
<1>0. Sound(m) /\ Apart(m, tier) /\ tier \in [Keys -> Copy \cup {None}] /\ now \in Nat
  BY PurgedMem
<1>1. CASE Raises(m)
  BY <1>0, <1>1 DEF Raises, Kept
<1>2. CASE k \in Resident(m) /\ Evict(u, Forget(k))
  <2>1. u = Written(m, k, v, t)
    BY <1>0, <1>2, UpdatedIsWritten
  <2> HIDE DEF m, u
  <2> QED
    BY <1>0, <1>2, <2>1, WriteKept DEF Forget
<1> QED
  BY <1>1, <1>2 DEF Update

LEMMA IncrKept ==
  ASSUME IInv, NEW k \in Keys, NEW v \in Numbers, NEW t \in Args, Incr(k, v, t)
  PROVE  Kept
<1> DEFINE m == Purged(mem)
<1>0. Sound(m) /\ Apart(m, tier) /\ tier \in [Keys -> Copy \cup {None}] /\ now \in Nat
  BY PurgedMem
<1>1. CASE mem' = m /\ tier' = Forget(k)
  BY <1>0, <1>1, ForgetTyped DEF Kept, Apart
<1>2. CASE Evict(Written(m, k, v, t), Forget(k))
  <2>1. v \in Val
    BY LFUAssumption
  <2> HIDE DEF m
  <2> QED
    BY <1>0, <1>2, <2>1, WriteKept DEF Forget
<1> QED
  BY <1>1, <1>2 DEF Incr

LEMMA DeleteKept ==
  ASSUME IInv, NEW k \in Keys, Delete(k)
  PROVE  Kept
<1>0. Sound(mem) /\ Apart(mem, tier) /\ tier \in [Keys -> Copy \cup {None}]
  BY DEF IInv, TypeOK
<1> DEFINE K == {k}
<1>1. mem' = Deleted(mem, K) /\ tier' = Forget(k) /\ K \in SUBSET Keys
  BY DEF Delete
<1> HIDE DEF K
<1>2. \A j \in Keys : mem'.val[j] # None => mem.val[j] # None
  BY <1>0, <1>1, DeletedFields DEF Sound
<1>3. Sound(mem')
  BY <1>0, <1>1, DeletedSound
<1> QED
  BY <1>0, <1>1, <1>2, <1>3, ForgetTyped DEF Kept, Apart

LEMMA PersistKept ==
  ASSUME IInv, NEW k \in Keys, Persist(k)
  PROVE  Kept
<1> DEFINE m == Purged(mem)
           u == [m EXCEPT !.ttl[k] = None]
<1>0. Sound(m) /\ Apart(m, tier) /\ tier \in [Keys -> Copy \cup {None}]
  BY PurgedMem
<1>1. Sound(u) /\ u.val = m.val
  BY <1>0, PersistedSound
<1>2. (mem' = u \/ mem' = m) /\ tier' = tier
  BY DEF Persist, Raises
<1> HIDE DEF u, m
<1> QED
  BY <1>0, <1>1, <1>2 DEF Kept, Apart

\* mset: two writes before one eviction.
LEMMA MSetKept ==
  ASSUME IInv, NEW ks \in Batches, NEW v \in Val, NEW t \in Args, MSet(ks, v, t)
  PROVE  Kept
<1> DEFINE m == Purged(mem)
           a == ks[1]
           b == ks[2]
           f == [k \in Keys |-> IF k \in {a, b} THEN None ELSE tier[k]]
           w == Written(m, a, v, t)
<1>0. Sound(m) /\ Apart(m, tier) /\ tier \in [Keys -> Copy \cup {None}] /\ now \in Nat
  BY PurgedMem
<1>1. a \in Keys /\ b \in Keys /\ Evict(Written(w, b, v, t), f)
  BY DEF Batches, MSet
<1>2. Sound(w) /\ \A j \in Keys : j # a => w.val[j] = m.val[j]
  BY <1>0, <1>1, WrittenSound, WrittenFields DEF Sound
<1>3. f \in [Keys -> Copy \cup {None}] /\ f = [f EXCEPT ![b] = None]
  BY <1>0, <1>1
<1>4. \A j \in Keys : f[j] = IF j \in {a, b} THEN None ELSE tier[j]
  OBVIOUS
<1> HIDE DEF m, w, f, a, b
<1>5. Apart(w, f)
  BY <1>0, <1>2, <1>4 DEF Apart
<1> QED
  BY <1>0, <1>1, <1>2, <1>3, <1>5, WriteKept

LEMMA ReadKept ==
  ASSUME IInv, NEW k \in Keys, Read(k)
  PROVE  Kept
<1> DEFINE m == Purged(mem)
<1>0. Sound(m) /\ Apart(m, tier) /\ tier \in [Keys -> Copy \cup {None}]
  BY PurgedMem
<1> HIDE DEF m
<1>1. PICK p \in Promoted(m, k) :
        (mem' = Used(p.mem, k) \/ mem' = p.mem) /\ tier' = p.tier
  BY DEF Read, m
<1>2. Sound(p.mem) /\ p.tier \in [Keys -> Copy \cup {None}] /\ Apart(p.mem, p.tier)
  BY <1>0, PromotedSound
<1>3. Sound(Used(p.mem, k)) /\ Used(p.mem, k).val = p.mem.val
  <2>1. Sound(Used(p.mem, k)) /\ p.mem \in Contents
    BY <1>2, UsedSound, SoundContents
  <2> QED
    BY <1>2, <2>1, UsedFields
<1> QED
  BY <1>1, <1>2, <1>3 DEF Kept, Apart

LEMMA MGetKept ==
  ASSUME NEW m, Sound(m), tier \in [Keys -> Copy \cup {None}], Apart(m, tier),
         NEW ks \in Seq(Keys), ks # <<>>, MGetKey(m, ks)
  PROVE  Kept
<1> DEFINE k == Head(ks)
<1>0. k \in Keys
  BY HeadTailProperties
<1>1. PICK p \in Promoted(m, k) :
        (mem' = Used(p.mem, k) \/ mem' = p.mem) /\ tier' = p.tier
  BY DEF MGetKey
<1> HIDE DEF k
<1>2. Sound(p.mem) /\ p.tier \in [Keys -> Copy \cup {None}] /\ Apart(p.mem, p.tier)
  BY <1>0, PromotedSound
<1>3. Sound(Used(p.mem, k)) /\ Used(p.mem, k).val = p.mem.val
  <2>1. Sound(Used(p.mem, k)) /\ p.mem \in Contents
    BY <1>0, <1>2, UsedSound, SoundContents
  <2> QED
    BY <1>0, <1>2, <2>1, UsedFields
<1> QED
  BY <1>1, <1>2, <1>3 DEF Kept, Apart

LEMMA PatchKept ==
  ASSUME IInv, NEW k \in Keys, NEW v \in Val \cup {None}, NEW t \in Args,
         Patch(k, v, t)
  PROVE  Kept
<1> DEFINE m == Purged(mem)
<1>0. /\ Sound(m) /\ Apart(m, tier) /\ tier \in [Keys -> Copy \cup {None}]
      /\ now \in Nat
  BY PurgedMem
<1> HIDE DEF m
<1>1. PICK p \in Promoted(m, k) :
        LET left == [p.tier EXCEPT ![k] = None] IN
        \/ mem' = p.mem /\ tier' = p.tier
        \/ mem' = p.mem /\ tier' = left
        \/ /\ k \in Resident(p.mem) /\ v # None
           /\ Evict(Used(WithTTL([p.mem EXCEPT !.val[k] = v], k, t), k), left)
  BY DEF Patch, m
<1> DEFINE left == [p.tier EXCEPT ![k] = None]
           u == Used(WithTTL([p.mem EXCEPT !.val[k] = v], k, t), k)
<1>2. Sound(p.mem) /\ p.tier \in [Keys -> Copy \cup {None}] /\ Apart(p.mem, p.tier)
  BY <1>0, PromotedSound
<1>3. left \in [Keys -> Copy \cup {None}] /\ Apart(p.mem, left)
  BY <1>2 DEF Apart
<1>4. CASE mem' = p.mem /\ tier' = p.tier
  BY <1>2, <1>4 DEF Kept
<1>5. CASE mem' = p.mem /\ tier' = left
  BY <1>2, <1>3, <1>5 DEF Kept
<1>6. CASE k \in Resident(p.mem) /\ v # None /\ Evict(u, left)
  <2>1. v \in Val
    BY <1>6
  <2>2. u = Written(p.mem, k, v, t)
    BY <1>2, <1>6, <2>1, UpdatedIsWritten
  <2>3. Evict(Written(p.mem, k, v, t), left)
    BY <1>6, <2>2
  <2> QED
    BY <1>0, <1>2, <2>1, <2>3, WriteKept
<1> QED
  BY <1>1, <1>4, <1>5, <1>6

\* What a call that may promote answers.
LEMMA ReplyTyped ==
  ASSUME NEW k \in Keys, NEW m \in Contents
  PROVE  [key |-> k, val |-> m.val[k]] \in [key: Keys, val: Val \cup {None}]
BY ContentsFields

LEMMA PromotedAnswer ==
  ASSUME IInv, NEW m, Sound(m), Apart(m, tier), NEW k \in Keys, NEW p \in Promoted(m, k)
  PROVE  [key |-> k, val |-> p.mem.val[k]] \in [key: Keys, val: Val \cup {None}]
<1>1. Sound(p.mem)
  BY PromotedSound DEF IInv, TypeOK
<1> QED
  BY <1>1, SoundContents, ReplyTyped

Answered == reply' \in [key: Keys, val: Val \cup {None}] \cup {None}

LEMMA ReadTyped ==
  ASSUME IInv, NEW k \in Keys, Read(k)
  PROVE  Answered
<1> DEFINE m == Purged(mem)
<1>1. Sound(m) /\ Apart(m, tier)
  BY PurgedMem
<1> HIDE DEF m
<1>2. PICK p \in Promoted(m, k) : reply' = [key |-> k, val |-> p.mem.val[k]]
  BY DEF Read, m
<1> QED
  BY <1>1, <1>2, PromotedAnswer DEF Answered

LEMMA PatchTyped ==
  ASSUME IInv, NEW k \in Keys, NEW v, NEW t, Patch(k, v, t)
  PROVE  Answered
<1>1. PICK p \in Promoted(Purged(mem), k) :
        reply' = [key |-> k, val |-> None] \/ reply' = None
  BY DEF Patch
<1> QED
  BY <1>1 DEF Answered

LEMMA MGetTyped ==
  ASSUME IInv, NEW m, Sound(m), Apart(m, tier), NEW ks \in Seq(Keys), ks # <<>>,
         MGetKey(m, ks)
  PROVE  /\ Answered
         /\ rest' \in Seq(Keys) /\ now' = now /\ hints' = hints
<1> DEFINE k == Head(ks)
<1>0. k \in Keys /\ Tail(ks) \in Seq(Keys)
  BY HeadTailProperties
<1>1. PICK p \in Promoted(m, k) : reply' = [key |-> k, val |-> p.mem.val[k]]
  BY DEF MGetKey
<1>2. rest' = Tail(ks) /\ now' = now /\ hints' = hints
  BY DEF MGetKey
<1> HIDE DEF k
<1> QED
  BY <1>0, <1>1, <1>2, PromotedAnswer DEF Answered

LEMMA BatchIsSeq ==
  ASSUME NEW ks \in Batches
  PROVE  ks \in Seq(Keys) /\ ks # <<>>
<1>1. ks \in [1..2 -> Keys] /\ 2 \in Nat
  BY DEF Batches
<1>2. ks \in Seq(Keys)
  BY <1>1, SeqDef
<1>3. DOMAIN ks # DOMAIN <<>>
  BY <1>1, DOMAIN <<>> = 1..0
<1> QED
  BY <1>2, <1>3

LEMMA InitIInv == Init => IInv
<1> SUFFICES ASSUME Init PROVE IInv
  OBVIOUS
<1>1. /\ now \in Nat /\ rest \in Seq(Keys) /\ hints \in BOOLEAN
      /\ reply = None /\ tier \in [Keys -> Copy \cup {None}]
  BY DEF Init
<1>2. Sound(mem)
  <2>1. CASE mem = Blank
    BY <2>1, BlankSound
  <2>2. CASE mem \in {Loaded(ks, v, t) : ks \in Batches, v \in Val, t \in Args}
    <3> PICK ks \in Batches, v \in Val, t \in Args : mem = Loaded(ks, v, t)
      BY <2>2
    <3> DEFINE a == ks[1]
               b == ks[2]
               w == Written(Blank, a, v, t)
    <3>1. a \in Keys /\ b \in Keys /\ a # b
      BY DEF Batches
    <3>2. Sound(Blank) /\ Resident(Blank) = {}
      BY BlankSound DEF Blank, Resident
    <3>3. Entered(Blank, a, v, t) = w
      BY <3>1, <3>2, EnteredIsWritten
    <3> HIDE DEF a, b
    <3>4. Sound(w) /\ Resident(w) = {a}
      BY <1>1, <3>1, <3>2, WrittenSound
    <3> HIDE DEF w
    <3>5. Entered(w, b, v, t) = Written(w, b, v, t)
      BY <3>1, <3>4, EnteredIsWritten
    <3>6. Sound(Written(w, b, v, t))
      BY <1>1, <3>1, <3>4, WrittenSound
    <3>7. mem = Entered(Entered(Blank, a, v, t), b, v, t)
      BY DEF Loaded, a, b
    <3> QED
      BY <3>3, <3>5, <3>6, <3>7
  <2> QED
    BY <2>1, <2>2 DEF Init
<1>3. Apart(mem, tier)
  BY DEF Init, Apart
<1>4. TypeOK
  BY <1>1, <1>2, SoundContents DEF TypeOK
<1> QED
  BY <1>2, <1>3, <1>4 DEF IInv

LEMMA NextStep == IInv /\ [Next]_vars => IInv'
<1> SUFFICES ASSUME IInv, [Next]_vars PROVE IInv'
  OBVIOUS
<1> DEFINE Rest == rest' \in Seq(Keys) /\ now' \in Nat /\ hints' \in BOOLEAN
<1>0. TypeOK /\ Sound(mem) /\ Apart(mem, tier)
  BY DEF IInv
<1>a. Call => Rest
  BY <1>0 DEF Call, TypeOK
<1>b. ASSUME Kept, Answered, Rest PROVE IInv'
  BY <1>b, SoundContents DEF Kept, Answered, IInv, TypeOK
<1>1. CASE UNCHANGED vars
  BY <1>0, <1>1 DEF vars, IInv, TypeOK, Sound, Apart, Contents, Resident
<1>2. CASE Tick
  <2>1. Kept
    BY <1>0, <1>2 DEF Tick, Kept, TypeOK
  <2> QED
    BY <1>0, <1>2, <1>b, <2>1 DEF Tick, TypeOK, Answered
<1>3. CASE PurgeExpired
  <2>1. Kept
    BY <1>3, PurgedMem DEF PurgeExpired, Raises, Kept
  <2> QED
    BY <1>3, <1>a, <1>b, <2>1 DEF PurgeExpired, Raises, Answered
<1>4. CASE MGetNext
  <2>1. /\ rest \in Seq(Keys) /\ rest # <<>> /\ MGetKey(mem, rest)
        /\ tier \in [Keys -> Copy \cup {None}]
    BY <1>0, <1>4 DEF MGetNext, TypeOK
  <2>2. Kept
    BY <1>0, <2>1, MGetKept
  <2>3. Answered /\ rest' \in Seq(Keys) /\ now' = now /\ hints' = hints
    BY <1>0, <2>1, MGetTyped
  <2> QED
    BY <1>0, <1>b, <2>2, <2>3 DEF TypeOK
<1>5. ASSUME NEW k \in Keys, NEW v \in Val, NEW t \in Args, Create(k, v, t)
      PROVE  IInv'
  <2>1. Kept
    BY <1>5, CreateKept
  <2>2. Call /\ reply' = None
    BY <1>5 DEF Create, Raises
  <2> QED
    BY <1>a, <1>b, <2>1, <2>2 DEF Answered
<1>6. ASSUME NEW k \in Keys, NEW v \in Val, NEW t \in Args, Update(k, v, t)
      PROVE  IInv'
  <2>1. Kept
    BY <1>6, UpdateKept
  <2>2. Call /\ reply' = None
    BY <1>6 DEF Update, Raises
  <2> QED
    BY <1>a, <1>b, <2>1, <2>2 DEF Answered
<1>7. ASSUME NEW k \in Keys, NEW v \in Numbers, NEW t \in Args, Incr(k, v, t)
      PROVE  IInv'
  <2>1. Kept
    BY <1>7, IncrKept
  <2>2. Call /\ reply' = None
    BY <1>7 DEF Incr
  <2> QED
    BY <1>a, <1>b, <2>1, <2>2 DEF Answered
<1>8. ASSUME NEW k \in Keys, NEW v \in Val \cup {None}, NEW t \in Args, Patch(k, v, t)
      PROVE  IInv'
  <2>1. Kept /\ Answered
    BY <1>8, PatchKept, PatchTyped
  <2>2. Call
    BY <1>8 DEF Patch
  <2> QED
    BY <1>a, <1>b, <2>1, <2>2
<1>9. ASSUME NEW k \in Keys, Delete(k) PROVE IInv'
  <2>1. Kept
    BY <1>9, DeleteKept
  <2>2. Call /\ reply' = None
    BY <1>9 DEF Delete
  <2> QED
    BY <1>a, <1>b, <2>1, <2>2 DEF Answered
<1>10. ASSUME NEW k \in Keys, Persist(k) PROVE IInv'
  <2>1. Kept
    BY <1>10, PersistKept
  <2>2. Call /\ reply' = None
    BY <1>10 DEF Persist, Raises
  <2> QED
    BY <1>a, <1>b, <2>1, <2>2 DEF Answered
<1>11. ASSUME NEW k \in Keys, Read(k) PROVE IInv'
  <2>1. Kept /\ Answered
    BY <1>11, ReadKept, ReadTyped
  <2>2. Call
    BY <1>11 DEF Read
  <2> QED
    BY <1>a, <1>b, <2>1, <2>2
<1>12. ASSUME NEW ks \in Batches, MGetStart(ks) PROVE IInv'
  <2>1. ks \in Seq(Keys) /\ ks # <<>>
    BY BatchIsSeq
  <2>2. Sound(Purged(mem)) /\ Apart(Purged(mem), tier)
        /\ tier \in [Keys -> Copy \cup {None}] /\ MGetKey(Purged(mem), ks)
    BY <1>12, PurgedMem DEF MGetStart
  <2>3. Kept
    BY <2>1, <2>2, MGetKept
  <2>4. Answered /\ rest' \in Seq(Keys) /\ now' = now /\ hints' = hints
    BY <2>1, <2>2, MGetTyped
  <2> QED
    BY <1>0, <1>b, <2>3, <2>4 DEF TypeOK
<1>13. ASSUME NEW ks \in Batches, NEW v \in Val, NEW t \in Args, MSet(ks, v, t)
       PROVE  IInv'
  <2>1. Kept
    BY <1>13, MSetKept
  <2>2. Call /\ reply' = None
    BY <1>13 DEF MSet
  <2> QED
    BY <1>a, <1>b, <2>1, <2>2 DEF Answered
<1> HIDE DEF Rest
<1> QED
  BY <1>1, <1>2, <1>3, <1>4, <1>5, <1>6, <1>7, <1>8, <1>9, <1>10, <1>11, <1>12,
     <1>13 DEF Next

-----------------------------------------------------------------------------
\* The invariant all results about the LFU shard rest on: the maps agree, the
\* counts are right, and no entry is both in memory and in the tier.
THEOREM Inductive == Spec => []IInv
<1>1. Init => IInv
  BY InitIInv
<1>2. IInv /\ [Next]_vars => IInv'
  BY NextStep
<1> QED
  BY <1>1, <1>2, PTL DEF Spec

\* In every reachable state of the shard the scan index is the map, and only a
\* resident key has a deadline (_map, _ttl, _freq, _last and _skeys are each
\* edited by hand in every call).
THEOREM MapAgreement == Spec => []MapsAgree
<1>1. IInv => MapsAgree
  BY DEF IInv, MapsAgree, Sound, Resident
<1> QED
  BY <1>1, Inductive, PTL

\* _freq counts the calls that used a key since it came in, one more for a key
\* that was promoted, whatever calls came before.
THEOREM FrequencyIsUse == Spec => []FreqCountsUses
<1>1. IInv => FreqCountsUses
  BY DEF IInv, FreqCountsUses, Sound, Resident
<1> QED
  BY <1>1, Inductive, PTL

-----------------------------------------------------------------------------
(* Which read may fail for a stored key. *)

\* The two ways a copy in the tier is found: it is fresh, and comes back before the
\* eviction, or it is not, and nothing is left of it.
LEMMA PromotedCases ==
  ASSUME NEW m, NEW k \in Keys, NEW p \in Promoted(m, k)
  PROVE  \/ k \in Resident(m) /\ p.mem = m /\ p.tier = tier
         \/ k \notin Resident(m) /\ ~Fresh(k) /\ p.mem = m /\ p.tier = Forget(k)
         \/ /\ k \notin Resident(m) /\ Fresh(k)
            /\ \E V \in Victims(Back(m, k)) :
                 /\ p.mem = Deleted(Back(m, k), V)
                 /\ p.tier = Spilled(Back(m, k), V, Forget(k))
BY DEF Promoted

\* The eviction goes down to the limit, if it takes anything.
LEMMA VictimsLeaveLimit ==
  ASSUME NEW m, Sound(m), NEW V \in Victims(m), V # {}
  PROVE  Cardinality(Resident(m) \ V) = Limit
<1> DEFINE R == Resident(m)
<1>1. IsFiniteSet(R) /\ Cardinality(R) \in Nat /\ Limit \in Nat
  BY FS_CardinalityType, LFUAssumption DEF Sound
<1>2. V \in SUBSET R /\ Cardinality(V) = Cardinality(R) - Limit
  BY DEF Victims
<1> HIDE DEF R
<1>3. Cardinality(R \ V) = Cardinality(R) - Cardinality(R \cap V)
  BY <1>1, FS_Difference
<1>4. R \cap V = V
  BY <1>2
<1>5. Cardinality(R \ V) = Limit
  <2>1. Cardinality(R \ V) = Cardinality(R) - Cardinality(V)
    BY <1>3, <1>4
  <2>2. Cardinality(R \ V) = Cardinality(R) - (Cardinality(R) - Limit)
    BY <1>2, <2>1
  <2> QED
    BY <1>1, <2>2
<1> QED
  BY <1>5 DEF R

LEMMA CrowdedPromotion ==
  ASSUME NEW m, Sound(m), tier \in [Keys -> Copy \cup {None}],
         NEW k \in Keys, NEW p \in Promoted(m, k),
         k \notin Resident(p.mem), p.tier[k] # None
  PROVE  /\ Cardinality(Resident(p.mem)) = Limit
         /\ \A j \in Resident(p.mem) : hints \/ p.mem.freq[j] > 1
<1> DEFINE b == Back(m, k)
<1>1. k \notin Resident(m) /\ Fresh(k)
  BY PromotedCases, ForgetTyped
<1>2. PICK V \in Victims(b) :
        p.mem = Deleted(b, V) /\ p.tier = Spilled(b, V, Forget(k))
  BY <1>1, PromotedCases
<1>3. tier[k] \in Copy
  BY <1>1 DEF Fresh
<1>4. Sound(b) /\ Resident(b) = Resident(m) \cup {k}
  BY <1>1, <1>3, BackSound
<1>5. b.freq[k] # 0 /\ b.newer[k] = {} /\ b.freq \in [Keys -> Nat]
  <2>1. m \in Contents /\ m.freq[k] \in Nat
    BY SoundContents, ContentsFields
  <2>2. b.freq[k] = m.freq[k] + 1 /\ b.newer[k] = {}
    BY <1>3, <2>1, BackFields
  <2>3. b.freq \in [Keys -> Nat]
    BY <1>4, SoundContents, ContentsFields
  <2> QED
    BY <2>1, <2>2, <2>3
<1> HIDE DEF b
<1>6. V \in SUBSET Resident(b) /\ V \in SUBSET Keys
  BY DEF Victims, Resident
<1>7. /\ Resident(p.mem) = Resident(b) \ V
      /\ \A j \in Keys : j \notin V => p.mem.freq[j] = b.freq[j]
  BY <1>2, <1>4, <1>6, SoundContents, DeletedFields
<1>8. k \in V
  BY <1>4, <1>7
<1>9. Cardinality(Resident(p.mem)) = Limit
  BY <1>4, <1>7, <1>8, VictimsLeaveLimit
<1>10. ASSUME NEW j \in Resident(p.mem) PROVE hints \/ p.mem.freq[j] > 1
  <2>1. j \in Resident(b) \ V /\ j \in Keys
    BY <1>7 DEF Resident
  <2>2. Lower(b, k, j)
    BY <1>8, <2>1 DEF Victims
  <2>3. b.freq[k] < b.freq[j] \/ hints
    BY <1>5, <2>2 DEF Lower
  <2> QED
    BY <1>5, <1>7, <2>1, <2>3
<1> QED
  BY <1>9, <1>10

\* What MissOnlyWhenCrowded says of a step.
Crowded == SpuriousMiss =>
  /\ Cardinality(Resident(mem)) = Limit
  /\ \A k \in Resident(mem) : hints \/ mem.freq[k] > 1

LEMMA AnsweredCrowded ==
  ASSUME IInv, NEW m, Sound(m), NEW k \in Keys, NEW p \in Promoted(m, k),
         Sound(p.mem), mem' = p.mem \/ mem' = Used(p.mem, k), tier' = p.tier,
         reply' = [key |-> k, val |-> p.mem.val[k]], hints' = hints
  PROVE  Crowded'
<1> SUFFICES ASSUME SpuriousMiss'
             PROVE  /\ Cardinality(Resident(mem')) = Limit
                    /\ \A j \in Resident(mem') : hints \/ mem'.freq[j] > 1
  BY DEF Crowded
<1>1. p.mem \in Contents /\ p.mem.freq \in [Keys -> Nat]
  BY SoundContents, ContentsFields
<1>2. mem'.val = p.mem.val
      /\ \A j \in Keys : mem'.freq[j] = p.mem.freq[j] \/ mem'.freq[j] = p.mem.freq[j] + 1
  <2> DEFINE u == Used(p.mem, k)
  <2>1. u.val = p.mem.val /\ u.freq = [p.mem.freq EXCEPT ![k] = @ + 1]
    BY <1>1, UsedFields
  <2>2. mem' = p.mem \/ mem' = u
    OBVIOUS
  <2> HIDE DEF u
  <2> QED
    BY <1>1, <2>1, <2>2
<1>3. Resident(mem') = Resident(p.mem)
  BY <1>2 DEF Resident
<1>4. p.mem.val[k] = None /\ Stored'[k] # None
  BY DEF SpuriousMiss
<1>5. Stored'[k] = p.tier[k]
  BY <1>2, <1>4 DEF Stored
<1>6. /\ Cardinality(Resident(p.mem)) = Limit
      /\ \A j \in Resident(p.mem) : hints \/ p.mem.freq[j] > 1
  BY <1>4, <1>5, CrowdedPromotion DEF IInv, TypeOK, Resident
<1> QED
  BY <1>1, <1>2, <1>3, <1>6 DEF Resident

LEMMA CrowdedStep == IInv /\ [Next]_vars => (reply' # reply => Crowded')
<1> SUFFICES ASSUME IInv, [Next]_vars, reply' # reply PROVE Crowded'
  OBVIOUS
<1> DEFINE m == Purged(mem)
<1>0. Sound(m) /\ Apart(m, tier) /\ tier \in [Keys -> Copy \cup {None}]
  BY PurgedMem
<1> HIDE DEF m
<1>1. CASE reply' = None
  BY <1>1 DEF Crowded, SpuriousMiss
<1>2. ASSUME NEW k \in Keys, Read(k) PROVE Crowded'
  <2>1. PICK p \in Promoted(m, k) :
          /\ mem' = p.mem \/ mem' = Used(p.mem, k)
          /\ tier' = p.tier /\ reply' = [key |-> k, val |-> p.mem.val[k]]
    BY <1>2 DEF Read, m
  <2>2. Sound(p.mem) /\ hints' = hints
    BY <1>0, <1>2, PromotedSound DEF Read, Call
  <2> QED
    BY <1>0, <2>1, <2>2, AnsweredCrowded
<1>3. ASSUME NEW n, Sound(n), Apart(n, tier), NEW ks \in Seq(Keys), ks # <<>>,
             MGetKey(n, ks)
      PROVE  Crowded'
  <2> DEFINE k == Head(ks)
  <2>0. k \in Keys
    BY <1>3, HeadTailProperties
  <2>1. PICK p \in Promoted(n, k) :
          /\ mem' = p.mem \/ mem' = Used(p.mem, k)
          /\ tier' = p.tier /\ reply' = [key |-> k, val |-> p.mem.val[k]]
    BY <1>3 DEF MGetKey
  <2>2. hints' = hints
    BY <1>3 DEF MGetKey
  <2> HIDE DEF k
  <2>3. Sound(p.mem)
    BY <1>0, <1>3, <2>0, PromotedSound
  <2> QED
    BY <1>3, <2>0, <2>1, <2>2, <2>3, AnsweredCrowded
<1>4. CASE MGetNext
  <2>1. Sound(mem) /\ Apart(mem, tier) /\ rest \in Seq(Keys) /\ rest # <<>>
        /\ MGetKey(mem, rest)
    BY <1>4 DEF MGetNext, IInv, TypeOK
  <2> QED
    BY <1>3, <2>1
<1>5. ASSUME NEW ks \in Batches, MGetStart(ks) PROVE Crowded'
  <2>1. ks \in Seq(Keys) /\ ks # <<>>
    BY BatchIsSeq
  <2>2. MGetKey(m, ks)
    BY <1>5 DEF MGetStart, m
  <2> QED
    BY <1>0, <1>3, <2>1, <2>2
<1>6. ASSUME NEW k \in Keys, NEW v, NEW t, Patch(k, v, t), reply' # None
      PROVE  Crowded'
  <2>1. PICK p \in Promoted(m, k) :
          /\ k \notin Resident(p.mem) /\ mem' = p.mem /\ tier' = p.tier
          /\ reply' = [key |-> k, val |-> None]
    BY <1>6 DEF Patch, m
  <2>2. Sound(p.mem) /\ hints' = hints
    BY <1>0, <1>6, PromotedSound DEF Patch, Call
  <2>3. p.mem.val[k] = None
    BY <2>1 DEF Resident
  <2> QED
    BY <1>0, <2>1, <2>2, <2>3, AnsweredCrowded
<1>7. CASE Tick \/ PurgeExpired \/ UNCHANGED vars
  BY <1>1, <1>7 DEF Tick, PurgeExpired, Raises, vars
<1>8. ASSUME NEW k \in Keys, NEW v, NEW t, Create(k, v, t) \/ Update(k, v, t)
      PROVE  Crowded'
  BY <1>1, <1>8 DEF Create, Update, Raises
<1>9. ASSUME NEW k \in Keys, NEW v, NEW t, Incr(k, v, t) PROVE Crowded'
  BY <1>1, <1>9 DEF Incr
<1>10. ASSUME NEW k \in Keys, Delete(k) \/ Persist(k) PROVE Crowded'
  BY <1>1, <1>10 DEF Delete, Persist, Raises
<1>11. ASSUME NEW ks, NEW v, NEW t, MSet(ks, v, t) PROVE Crowded'
  BY <1>1, <1>11 DEF MSet
<1> QED
  BY <1>1, <1>2, <1>4, <1>5, <1>6, <1>7, <1>8, <1>9, <1>10, <1>11 DEF Next

\* A read or patch that fails for a key the shard has stored is possible only when
\* the shard is full of keys that were all touched more than once: the promoted key
\* enters with frequency 1 and the last number in _last, and the loop takes the
\* lowest (or hints chose the victim).
THEOREM MissNamed == Spec => MissOnlyWhenCrowded
<1>1. IInv /\ [Next]_vars =>
        [reply' # reply /\ SpuriousMiss' =>
           /\ Cardinality(Resident(mem')) = Limit
           /\ \A k \in Resident(mem') : hints \/ mem'.freq[k] > 1]_vars
  <2>1. IInv /\ [Next]_vars => hints' = hints
    BY DEF Next, vars, Tick, PurgeExpired, MGetNext, MGetStart, MGetKey, Call, Create,
           Update, Incr, Patch, Delete, Persist, Read, MSet
  <2> QED
    BY <2>1, CrowdedStep DEF Crowded
<1> QED
  BY <1>1, Inductive, PTL DEF Spec, MissOnlyWhenCrowded

-----------------------------------------------------------------------------
(* Which key is spilled. *)

\* In m, which a call has made of the memory, a key that had time left has been
\* touched no less, and two that were not touched are in the same order of age.
Advanced(m) ==
  \A j \in Resident(mem) : ~Passed(mem.ttl[j]) =>
    /\ m.freq[j] >= mem.freq[j] /\ m.uses[j] >= mem.uses[j]
    /\ \A l \in Resident(mem) :
         ~Passed(mem.ttl[l]) /\ m.freq[j] = mem.freq[j] /\ m.freq[l] = mem.freq[l] =>
           (l \in m.newer[j] => l \in mem.newer[j])

LEMMA PurgedAdvanced ==
  ASSUME IInv
  PROVE  Advanced(mem) /\ Advanced(Purged(mem))
<1> DEFINE K == {k \in Keys : Passed(mem.ttl[k])}
           d == Deleted(mem, K)
<1>1. /\ mem \in Contents /\ K \in SUBSET Keys
      /\ mem.freq \in [Keys -> Nat] /\ mem.uses \in [Keys -> Nat]
  BY SoundContents, ContentsFields DEF IInv
<1>2. Advanced(mem)
  BY <1>1 DEF Advanced, Resident
<1>3. \A j \in Resident(mem) : j \in Keys /\ (~Passed(mem.ttl[j]) => j \notin K)
  BY DEF Resident
<1> HIDE DEF K
<1>4. \A k \in Keys :
        /\ k \notin K => d.freq[k] = mem.freq[k] /\ d.uses[k] = mem.uses[k]
        /\ d.newer[k] \subseteq mem.newer[k]
  BY <1>1, DeletedFields
<1> HIDE DEF d
<1>5. Advanced(d)
  BY <1>1, <1>3, <1>4 DEF Advanced
<1> QED
  BY <1>2, <1>5 DEF Purged, d, K

\* Touching a key raises its frequency, so that the order of two keys that were not
\* touched stays.
LEMMA TouchAdvanced ==
  ASSUME IInv, NEW m, Sound(m), Advanced(m), NEW k \in Keys, NEW u,
         u.freq[k] = m.freq[k] + 1,
         u.uses[k] = m.uses[k] \/ u.uses[k] = m.uses[k] + 1,
         \A j \in Keys : j # k => u.freq[j] = m.freq[j] /\ u.uses[j] = m.uses[j],
         \A j \in Keys : u.newer[j] \subseteq m.newer[j] \cup {k}
  PROVE  Advanced(u)
<1>1. /\ mem.freq \in [Keys -> Nat] /\ mem.uses \in [Keys -> Nat]
      /\ m.freq \in [Keys -> Nat] /\ m.uses \in [Keys -> Nat]
  BY SoundContents, ContentsFields DEF IInv
<1> SUFFICES ASSUME NEW j \in Resident(mem), ~Passed(mem.ttl[j])
             PROVE  /\ u.freq[j] >= mem.freq[j] /\ u.uses[j] >= mem.uses[j]
                    /\ \A l \in Resident(mem) :
                         /\ ~Passed(mem.ttl[l])
                         /\ u.freq[j] = mem.freq[j] /\ u.freq[l] = mem.freq[l]
                         /\ l \in u.newer[j]
                         => l \in mem.newer[j]
  BY DEF Advanced
<1>2. j \in Keys /\ m.freq[j] >= mem.freq[j] /\ m.uses[j] >= mem.uses[j]
  BY DEF Advanced, Resident
<1>3. u.freq[j] >= mem.freq[j] /\ u.uses[j] >= mem.uses[j]
  BY <1>1, <1>2
<1>4. ASSUME NEW l \in Resident(mem), ~Passed(mem.ttl[l]),
             u.freq[j] = mem.freq[j], u.freq[l] = mem.freq[l], l \in u.newer[j]
      PROVE  l \in mem.newer[j]
  <2>1. l \in Keys /\ m.freq[l] >= mem.freq[l]
    BY <1>4 DEF Advanced, Resident
  <2>2. j # k /\ l # k
    BY <1>1, <1>2, <1>4, <2>1
  <2>3. l \in m.newer[j] /\ m.freq[j] = mem.freq[j] /\ m.freq[l] = mem.freq[l]
    BY <1>2, <1>4, <2>1, <2>2
  <2> QED
    BY <1>4, <2>3 DEF Advanced
<1> QED
  BY <1>3, <1>4

LEMMA WrittenAdvanced ==
  ASSUME IInv, NEW m, Sound(m), Advanced(m), NEW k \in Keys, NEW v \in Val,
         NEW t \in Args
  PROVE  Advanced(Written(m, k, v, t))
<1> DEFINE u == Written(m, k, v, t)
<1>1. m \in Contents /\ now \in Nat
  BY SoundContents DEF IInv, TypeOK
<1>2. /\ u.freq[k] = m.freq[k] + 1 /\ u.uses[k] = m.uses[k] + 1
      /\ \A j \in Keys : j # k => u.freq[j] = m.freq[j] /\ u.uses[j] = m.uses[j]
      /\ \A j \in Keys : u.newer[j] \subseteq m.newer[j] \cup {k}
  BY <1>1, WrittenFields
<1> HIDE DEF u
<1>3. Advanced(u)
  BY <1>2, TouchAdvanced
<1> QED
  BY <1>3 DEF u

LEMMA BackAdvanced ==
  ASSUME IInv, NEW m, Sound(m), Advanced(m), NEW k \in Keys, tier[k] \in Copy
  PROVE  Advanced(Back(m, k))
<1> DEFINE u == Back(m, k)
<1>1. m \in Contents
  BY SoundContents
<1>2. /\ u.freq[k] = m.freq[k] + 1 /\ u.uses = m.uses
      /\ \A j \in Keys : j # k => u.freq[j] = m.freq[j]
      /\ \A j \in Keys : u.newer[j] \subseteq m.newer[j] \cup {k}
  BY <1>1, BackFields
<1> HIDE DEF u
<1>3. Advanced(u)
  BY <1>2, TouchAdvanced
<1> QED
  BY <1>3 DEF u

\* What SpillsLeastUsed says of a step.
BySpill ==
  \A v \in Resident(mem), k \in Resident(mem) \cap Resident(mem') :
    v \notin Resident(mem') /\ tier'[v] # tier[v] /\ tier'[v] # None
    /\ ~Passed(mem.ttl[v]) =>
      /\ mem.uses[v] <= mem'.uses[k] + 1
      /\ ~hints /\ ~Passed(mem.ttl[k]) /\ mem.freq[k] = mem.freq[v] =>
           mem'.freq[k] > mem.freq[k] \/ k \in mem.newer[v]

LEMMA NoSpill ==
  ASSUME \A j \in Keys : tier'[j] = tier[j] \/ tier'[j] = None
  PROVE  BySpill
BY DEF BySpill, Resident

\* One eviction of m, and perhaps some touches after it.
LEMMA SpillOrder ==
  ASSUME IInv, NEW m, Sound(m), Advanced(m), NEW V \in Victims(m), NEW t,
         \A j \in Keys : t[j] = tier[j] \/ t[j] = None,
         \A j \in Keys : tier'[j] = Spilled(m, V, t)[j] \/ tier'[j] = None,
         Sound(mem'), Resident(mem') = Resident(m) \ V,
         \A j \in Resident(mem') : /\ mem'.freq[j] >= m.freq[j]
                                   /\ mem'.uses[j] >= m.uses[j]
  PROVE  BySpill
<1> SUFFICES ASSUME NEW v \in Resident(mem), NEW k \in Resident(mem) \cap Resident(mem'),
                    v \notin Resident(mem'), tier'[v] # tier[v], tier'[v] # None,
                    ~Passed(mem.ttl[v])
             PROVE  /\ mem.uses[v] <= mem'.uses[k] + 1
                    /\ ~hints /\ ~Passed(mem.ttl[k]) /\ mem.freq[k] = mem.freq[v] =>
                         mem'.freq[k] > mem.freq[k] \/ k \in mem.newer[v]
  BY DEF BySpill
<1>1. /\ mem.freq \in [Keys -> Nat] /\ mem.uses \in [Keys -> Nat]
      /\ m.freq \in [Keys -> Nat] /\ m.uses \in [Keys -> Nat]
      /\ mem'.freq \in [Keys -> Nat] /\ mem'.uses \in [Keys -> Nat]
  BY SoundContents, ContentsFields DEF IInv
<1>2. v \in Keys /\ k \in Keys /\ k \in Resident(m) \ V
  BY DEF Resident
<1>3. v \in V
  BY <1>2 DEF Spilled
<1>4. Lower(m, v, k)
  BY <1>2, <1>3 DEF Victims
<1>5. /\ m.freq[v] - m.uses[v] \in {0, 1} /\ m.freq[k] - m.uses[k] \in {0, 1}
  BY <1>2 DEF Sound
<1>6. m.freq[v] >= mem.freq[v] /\ m.uses[v] >= mem.uses[v]
  BY DEF Advanced
<1>7. mem'.freq[k] >= m.freq[k] /\ mem'.uses[k] >= m.uses[k]
  OBVIOUS
<1>8. m.freq[v] <= m.freq[k]
  BY <1>1, <1>2, <1>4 DEF Lower
<1>9. mem.uses[v] <= mem'.uses[k] + 1
  <2> DEFINE a == mem.uses[v]
             b == m.uses[v]
             c == m.freq[v]
             d == m.freq[k]
             e == m.uses[k]
             f == mem'.uses[k]
  <2>1. a \in Nat /\ b \in Nat /\ c \in Nat /\ d \in Nat /\ e \in Nat /\ f \in Nat
    BY <1>1, <1>2
  <2>2. b >= a /\ c - b \in {0, 1} /\ c <= d /\ d - e \in {0, 1} /\ f >= e
    BY <1>5, <1>6, <1>7, <1>8
  <2> HIDE DEF a, b, c, d, e, f
  <2>3. a <= f + 1
    BY <2>1, <2>2
  <2> QED
    BY <2>3 DEF a, f
<1>10. ASSUME ~hints, ~Passed(mem.ttl[k]), mem.freq[k] = mem.freq[v],
              ~(mem'.freq[k] > mem.freq[k])
       PROVE  k \in mem.newer[v]
  <2>1. m.freq[k] >= mem.freq[k]
    BY <1>10 DEF Advanced
  <2>2. m.freq[k] = mem.freq[k] /\ m.freq[v] = mem.freq[v]
    BY <1>1, <1>2, <1>6, <1>7, <1>8, <1>10, <2>1
  <2>3. k \in m.newer[v]
    BY <1>1, <1>2, <1>4, <1>10, <2>2 DEF Lower
  <2> QED
    BY <1>10, <2>2, <2>3 DEF Advanced
<1> QED
  BY <1>9, <1>10

LEMMA EvictSpill ==
  ASSUME IInv, IInv', NEW m, Sound(m), Advanced(m), NEW t,
         \A j \in Keys : t[j] = tier[j] \/ t[j] = None, Evict(m, t)
  PROVE  BySpill
<1> PICK V \in Victims(m) : mem' = Deleted(m, V) /\ tier' = Spilled(m, V, t)
  BY DEF Evict
<1>1. m \in Contents /\ V \in SUBSET Keys
  BY SoundContents DEF Victims, Resident
<1>2. /\ Resident(mem') = Resident(m) \ V
      /\ \A j \in Keys : j \notin V => /\ mem'.freq[j] = m.freq[j]
                                       /\ mem'.uses[j] = m.uses[j]
  BY <1>1, DeletedFields
<1>3. Sound(mem') /\ m.freq \in [Keys -> Nat] /\ m.uses \in [Keys -> Nat]
  BY <1>1, ContentsFields DEF IInv
<1>4. \A j \in Resident(mem') : /\ mem'.freq[j] >= m.freq[j]
                                /\ mem'.uses[j] >= m.uses[j]
  BY <1>2, <1>3 DEF Resident
<1> QED
  BY <1>2, <1>3, <1>4, SpillOrder

\* A promotion, perhaps with touches and a drop from the tier after it.
LEMMA PromotedSpill ==
  ASSUME IInv, IInv', NEW m, Sound(m), Advanced(m), NEW k \in Keys,
         NEW p \in Promoted(m, k), Resident(mem') = Resident(p.mem),
         \A j \in Keys : tier'[j] = p.tier[j] \/ tier'[j] = None,
         \A j \in Resident(mem') : /\ mem'.freq[j] >= p.mem.freq[j]
                                   /\ mem'.uses[j] >= p.mem.uses[j]
  PROVE  BySpill
<1>0. tier \in [Keys -> Copy \cup {None}]
  BY DEF IInv, TypeOK
<1>1. CASE p.tier = tier \/ p.tier = Forget(k)
  BY <1>0, <1>1, ForgetTyped, NoSpill
<1>2. CASE k \notin Resident(m) /\ Fresh(k)
  <2> DEFINE b == Back(m, k)
             t == Forget(k)
  <2>1. PICK V \in Victims(b) : p.mem = Deleted(b, V) /\ p.tier = Spilled(b, V, t)
    BY <1>2, PromotedCases
  <2>2. tier[k] \in Copy
    BY <1>0, <1>2 DEF Fresh
  <2>3. Sound(b) /\ Advanced(b)
    BY <1>2, <2>2, BackSound, BackAdvanced
  <2>4. \A j \in Keys : t[j] = tier[j] \/ t[j] = None
    BY <1>0, ForgetTyped
  <2> HIDE DEF b, t
  <2>5. b \in Contents /\ V \in SUBSET Keys
    BY <2>3, SoundContents DEF Victims, Resident
  <2>6. /\ Resident(mem') = Resident(b) \ V
        /\ \A j \in Keys : j \notin V => /\ p.mem.freq[j] = b.freq[j]
                                         /\ p.mem.uses[j] = b.uses[j]
    BY <2>1, <2>5, DeletedFields
  <2>7. Sound(mem')
    BY DEF IInv
  <2>8. \A j \in Resident(mem') : /\ mem'.freq[j] >= b.freq[j]
                                  /\ mem'.uses[j] >= b.uses[j]
    BY <2>6 DEF Resident
  <2>9. \A j \in Keys : tier'[j] = Spilled(b, V, t)[j] \/ tier'[j] = None
    BY <2>1
  <2> QED
    BY <2>3, <2>4, <2>6, <2>7, <2>8, <2>9, SpillOrder
<1> QED
  BY <1>1, <1>2, PromotedCases

\* read and mget touch what they promoted.
LEMMA ReadSpill ==
  ASSUME IInv, IInv', NEW m, Sound(m), Apart(m, tier), Advanced(m), NEW k \in Keys,
         NEW p \in Promoted(m, k), mem' = p.mem \/ mem' = Used(p.mem, k),
         tier' = p.tier
  PROVE  BySpill
<1> DEFINE u == Used(p.mem, k)
<1>1. p.mem \in Contents
  BY PromotedSound, SoundContents DEF IInv, TypeOK
<1>2. p.mem.freq \in [Keys -> Nat] /\ p.mem.uses \in [Keys -> Nat]
  BY <1>1, ContentsFields
<1>3. /\ u.val = p.mem.val /\ u.freq = [p.mem.freq EXCEPT ![k] = @ + 1]
      /\ u.uses = [p.mem.uses EXCEPT ![k] = @ + 1]
  BY <1>1, UsedFields
<1>4. mem' = p.mem \/ mem' = u
  OBVIOUS
<1> HIDE DEF u
<1>5. Resident(mem') = Resident(p.mem)
  BY <1>3, <1>4 DEF Resident
<1>6. \A j \in Keys : mem'.freq[j] >= p.mem.freq[j] /\ mem'.uses[j] >= p.mem.uses[j]
  BY <1>2, <1>3, <1>4
<1>7. \A j \in Resident(mem') : /\ mem'.freq[j] >= p.mem.freq[j]
                                /\ mem'.uses[j] >= p.mem.uses[j]
  BY <1>6 DEF Resident
<1> QED
  BY <1>5, <1>7, PromotedSpill

LEMMA WithinLimitAfter ==
  ASSUME NEW m, Sound(m), NEW V \in Victims(m)
  PROVE  Cardinality(Resident(m) \ V) <= Limit
<1>0. Limit \in Nat /\ IsFiniteSet(Resident(m)) /\ Cardinality(Resident(m)) \in Nat
  BY FS_CardinalityType, LFUAssumption DEF Sound
<1>1. CASE V # {}
  BY <1>0, <1>1, VictimsLeaveLimit
<1>2. CASE V = {}
  <2>1. Resident(m) \ V = Resident(m)
    BY <1>2
  <2>2. Cardinality(V) = 0
    BY <1>2, FS_EmptySet
  <2>3. Cardinality(Resident(m)) - Limit <= 0
    BY <1>0, <2>2 DEF Victims
  <2> QED
    BY <1>0, <2>1, <2>3
<1> QED
  BY <1>1, <1>2

LEMMA NoVictims ==
  ASSUME NEW m, Sound(m), Cardinality(Resident(m)) <= Limit, NEW V \in Victims(m)
  PROVE  V = {}
<1>1. Limit \in Nat /\ Cardinality(Resident(m)) \in Nat
  BY FS_CardinalityType, LFUAssumption DEF Sound
<1> QED
  BY <1>1 DEF Victims

LEMMA PatchSpill ==
  ASSUME IInv, IInv', NEW m, Sound(m), Apart(m, tier), Advanced(m), NEW k \in Keys,
         NEW p \in Promoted(m, k), NEW v \in Val, NEW t \in Args, k \in Resident(p.mem),
         Evict(Written(p.mem, k, v, t), [p.tier EXCEPT ![k] = None])
  PROVE  BySpill
<1> DEFINE w == Written(p.mem, k, v, t)
           left == [p.tier EXCEPT ![k] = None]
<1>0. tier \in [Keys -> Copy \cup {None}] /\ now \in Nat
  BY DEF IInv, TypeOK
<1>1. Sound(p.mem) /\ p.tier \in [Keys -> Copy \cup {None}]
  BY <1>0, PromotedSound
<1>2. Sound(w) /\ Resident(w) = Resident(p.mem)
  <2>1. Sound(w) /\ Resident(w) = Resident(p.mem) \cup {k}
    BY <1>0, <1>1, WrittenSound
  <2> QED
    BY <2>1
<1>3. Evict(w, left)
  OBVIOUS
<1>4. \A j \in Keys : left[j] = p.tier[j] \/ left[j] = None
  BY <1>1
<1>5. CASE p.mem = m /\ (p.tier = tier \/ p.tier = Forget(k))
  <2>1. Advanced(w)
    BY <1>5, WrittenAdvanced
  <2>2. \A j \in Keys : left[j] = tier[j] \/ left[j] = None
    BY <1>0, <1>4, <1>5, ForgetTyped
  <2> HIDE DEF w, left
  <2> QED
    BY <1>2, <1>3, <2>1, <2>2, EvictSpill
<1>6. CASE k \notin Resident(m) /\ Fresh(k)
  <2> DEFINE b == Back(m, k)
  <2>1. PICK V \in Victims(b) : p.mem = Deleted(b, V)
    BY <1>6, PromotedCases
  <2>2. Sound(b)
    BY <1>0, <1>6, BackSound DEF Fresh
  <2> HIDE DEF b
  <2>3. Resident(p.mem) = Resident(b) \ V
    BY <2>1, <2>2, SoundContents, DeletedFields DEF Victims, Resident
  <2>4. Cardinality(Resident(w)) <= Limit
    BY <1>2, <2>2, <2>3, WithinLimitAfter
  <2>5. /\ \A j \in Keys : w.freq[j] >= p.mem.freq[j] /\ w.uses[j] >= p.mem.uses[j]
        /\ w \in Contents
    <3>1. p.mem \in Contents
      BY <1>1, SoundContents
    <3>2. p.mem.freq \in [Keys -> Nat] /\ p.mem.uses \in [Keys -> Nat]
      BY <3>1, ContentsFields
    <3>3. /\ w.freq[k] = p.mem.freq[k] + 1 /\ w.uses[k] = p.mem.uses[k] + 1
          /\ \A j \in Keys : j # k => /\ w.freq[j] = p.mem.freq[j]
                                      /\ w.uses[j] = p.mem.uses[j]
      BY <1>0, <3>1, WrittenFields
    <3> HIDE DEF w
    <3> QED
      BY <1>2, <3>2, <3>3, SoundContents
  <2> HIDE DEF w, left
  <2>6. PICK U \in Victims(w) : mem' = Deleted(w, U) /\ tier' = Spilled(w, U, left)
    BY <1>3 DEF Evict
  <2>7. U = {}
    BY <1>2, <2>4, NoVictims
  <2>8. \A j \in Keys : tier'[j] = left[j]
    BY <2>6, <2>7 DEF Spilled
  <2>9. /\ Resident(mem') = Resident(w)
        /\ \A j \in Keys : mem'.freq[j] = w.freq[j] /\ mem'.uses[j] = w.uses[j]
    <3> DEFINE d == Deleted(w, U)
    <3>1. Resident(d) = Resident(w) \ U /\ U \in SUBSET Keys
      BY <2>5, <2>7, DeletedFields
    <3>2. \A j \in Keys : d.freq[j] = w.freq[j] /\ d.uses[j] = w.uses[j]
      BY <2>5, <2>7, DeletedFields
    <3> HIDE DEF d
    <3>3. mem' = d
      BY <2>6 DEF d
    <3> QED
      BY <2>7, <3>1, <3>2, <3>3
  <2>10. \A j \in Resident(mem') : /\ mem'.freq[j] >= p.mem.freq[j]
                                   /\ mem'.uses[j] >= p.mem.uses[j]
    BY <2>5, <2>9 DEF Resident
  <2> QED
    BY <1>2, <1>4, <2>8, <2>9, <2>10, PromotedSpill
<1> QED
  BY <1>5, <1>6, PromotedCases

LEMMA SpillStep == IInv /\ IInv' /\ [Next]_vars => BySpill
<1> SUFFICES ASSUME IInv, IInv', [Next]_vars PROVE BySpill
  OBVIOUS
<1> DEFINE m == Purged(mem)
<1>0. /\ Sound(m) /\ Apart(m, tier) /\ tier \in [Keys -> Copy \cup {None}]
      /\ now \in Nat /\ Advanced(m)
  BY PurgedMem, PurgedAdvanced
<1> HIDE DEF m
<1>1. CASE tier' = tier
  BY <1>1, NoSpill
<1>2. ASSUME NEW k \in Keys, tier' = Forget(k) PROVE BySpill
  BY <1>0, <1>2, ForgetTyped, NoSpill
<1>3. ASSUME NEW k \in Keys, NEW v \in Val, NEW t \in Args,
             Evict(Written(m, k, v, t), Forget(k))
      PROVE  BySpill
  <2> DEFINE w == Written(m, k, v, t)
  <2>1. Sound(w) /\ Advanced(w)
    BY <1>0, WrittenSound, WrittenAdvanced
  <2>2. \A j \in Keys : Forget(k)[j] = tier[j] \/ Forget(k)[j] = None
    BY <1>0, ForgetTyped
  <2> HIDE DEF w
  <2> QED
    BY <1>3, <2>1, <2>2, EvictSpill DEF w
<1>4. ASSUME NEW k \in Keys, NEW v \in Val, NEW t \in Args, Create(k, v, t)
      PROVE  BySpill
  <2>1. CASE Raises(m)
    BY <1>1, <2>1 DEF Raises
  <2>2. CASE k \notin Resident(m) /\ Evict(Entered(m, k, v, t), Forget(k))
    <3>1. Evict(Written(m, k, v, t), Forget(k))
      BY <1>0, <2>2, EnteredIsWritten
    <3> QED
      BY <1>3, <3>1
  <2> QED
    BY <1>4, <2>1, <2>2 DEF Create, m
<1>5. ASSUME NEW k \in Keys, NEW v \in Val, NEW t \in Args, Update(k, v, t)
      PROVE  BySpill
  <2> DEFINE u == Used(WithTTL([m EXCEPT !.val[k] = v], k, t), k)
  <2>1. CASE Raises(m)
    BY <1>1, <2>1 DEF Raises
  <2>2. CASE k \in Resident(m) /\ Evict(u, Forget(k))
    <3>1. Evict(Written(m, k, v, t), Forget(k))
      BY <1>0, <2>2, UpdatedIsWritten
    <3> QED
      BY <1>3, <3>1
  <2> QED
    BY <1>5, <2>1, <2>2 DEF Update, m
<1>6. ASSUME NEW k \in Keys, NEW v \in Numbers, NEW t \in Args, Incr(k, v, t)
      PROVE  BySpill
  <2>1. v \in Val
    BY LFUAssumption
  <2> QED
    BY <1>2, <1>3, <1>6, <2>1 DEF Incr, m
<1>7. ASSUME NEW ks \in Batches, NEW v \in Val, NEW t \in Args, MSet(ks, v, t)
      PROVE  BySpill
  <2> DEFINE a == ks[1]
             b == ks[2]
             f == [k \in Keys |-> IF k \in {a, b} THEN None ELSE tier[k]]
             w == Written(m, a, v, t)
             w2 == Written(w, b, v, t)
  <2>1. a \in Keys /\ b \in Keys /\ Evict(w2, f)
    BY <1>7 DEF Batches, MSet, m
  <2>2. Sound(w) /\ Advanced(w)
    BY <1>0, <2>1, WrittenSound, WrittenAdvanced
  <2> HIDE DEF a, b, w
  <2>3. Sound(w2) /\ Advanced(w2)
    BY <1>0, <2>1, <2>2, WrittenSound, WrittenAdvanced
  <2>4. \A j \in Keys : f[j] = tier[j] \/ f[j] = None
    OBVIOUS
  <2> HIDE DEF f, w2
  <2> QED
    BY <2>1, <2>3, <2>4, EvictSpill
<1>8. ASSUME NEW k \in Keys, Read(k) PROVE BySpill
  <2>1. PICK p \in Promoted(m, k) :
          (mem' = p.mem \/ mem' = Used(p.mem, k)) /\ tier' = p.tier
    BY <1>8 DEF Read, m
  <2> QED
    BY <1>0, <2>1, ReadSpill
<1>9. ASSUME NEW n, Sound(n), Apart(n, tier), Advanced(n),
             NEW ks \in Seq(Keys), ks # <<>>, MGetKey(n, ks)
      PROVE  BySpill
  <2> DEFINE k == Head(ks)
  <2>0. k \in Keys
    BY <1>9, HeadTailProperties
  <2>1. PICK p \in Promoted(n, k) :
          (mem' = p.mem \/ mem' = Used(p.mem, k)) /\ tier' = p.tier
    BY <1>9 DEF MGetKey
  <2> HIDE DEF k
  <2> QED
    BY <1>9, <2>0, <2>1, ReadSpill
<1>10. CASE MGetNext
  <2>1. Sound(mem) /\ Apart(mem, tier) /\ rest \in Seq(Keys) /\ rest # <<>>
        /\ MGetKey(mem, rest)
    BY <1>10 DEF MGetNext, IInv, TypeOK
  <2> QED
    BY <1>9, <2>1, PurgedAdvanced
<1>11. ASSUME NEW ks \in Batches, MGetStart(ks) PROVE BySpill
  <2>1. ks \in Seq(Keys) /\ ks # <<>>
    BY BatchIsSeq
  <2>2. MGetKey(m, ks)
    BY <1>11 DEF MGetStart, m
  <2> QED
    BY <1>0, <1>9, <2>1, <2>2
<1>12. ASSUME NEW k \in Keys, NEW v \in Val \cup {None}, NEW t \in Args, Patch(k, v, t)
       PROVE  BySpill
  <2>1. PICK p \in Promoted(m, k) :
          LET left == [p.tier EXCEPT ![k] = None] IN
          \/ mem' = p.mem /\ (tier' = p.tier \/ tier' = left)
          \/ /\ k \in Resident(p.mem) /\ v # None
             /\ Evict(Used(WithTTL([p.mem EXCEPT !.val[k] = v], k, t), k), left)
    BY <1>12 DEF Patch, m
  <2> DEFINE left == [p.tier EXCEPT ![k] = None]
             u == Used(WithTTL([p.mem EXCEPT !.val[k] = v], k, t), k)
  <2>2. Sound(p.mem) /\ p.tier \in [Keys -> Copy \cup {None}]
    BY <1>0, PromotedSound
  <2>3. CASE mem' = p.mem /\ (tier' = p.tier \/ tier' = left)
    <3>1. \A j \in Keys : tier'[j] = p.tier[j] \/ tier'[j] = None
      BY <2>2, <2>3
    <3>2. p.mem.freq \in [Keys -> Nat] /\ p.mem.uses \in [Keys -> Nat]
      BY <2>2, SoundContents, ContentsFields
    <3>3. \A j \in Resident(mem') : /\ mem'.freq[j] >= p.mem.freq[j]
                                    /\ mem'.uses[j] >= p.mem.uses[j]
      BY <2>3, <3>2 DEF Resident
    <3> QED
      BY <1>0, <2>3, <3>1, <3>3, PromotedSpill
  <2>4. CASE k \in Resident(p.mem) /\ v # None /\ Evict(u, left)
    <3>1. v \in Val
      BY <2>4
    <3>2. Evict(Written(p.mem, k, v, t), left)
      BY <2>2, <2>4, <3>1, UpdatedIsWritten
    <3> QED
      BY <1>0, <2>4, <3>1, <3>2, PatchSpill
  <2> QED
    BY <2>1, <2>3, <2>4
<1>13. CASE Tick \/ PurgeExpired \/ UNCHANGED vars
  BY <1>1, <1>13 DEF Tick, PurgeExpired, Raises, vars
<1>14. ASSUME NEW k \in Keys, Delete(k) \/ Persist(k) PROVE BySpill
  BY <1>1, <1>2, <1>14 DEF Delete, Persist, Raises
<1> QED
  BY <1>4, <1>5, <1>6, <1>7, <1>8, <1>10, <1>11, <1>12, <1>13, <1>14 DEF Next

\* Eviction is by use, whichever call brings it: what is spilled was not used two
\* times more than anything that stays, and of two keys used equally often the one
\* touched longer ago goes, if no hints are in play.
THEOREM SpillOrderIsUse == Spec => SpillsLeastUsed
<1>1. IInv /\ IInv' /\ [Next]_vars =>
        [\A v \in Resident(mem), k \in Resident(mem) \cap Resident(mem') :
           v \notin Resident(mem') /\ tier'[v] # tier[v] /\ tier'[v] # None
           /\ ~Passed(mem.ttl[v]) =>
             /\ mem.uses[v] <= mem'.uses[k] + 1
             /\ ~hints /\ ~Passed(mem.ttl[k]) /\ mem.freq[k] = mem.freq[v] =>
                  mem'.freq[k] > mem.freq[k] \/ k \in mem.newer[v]]_vars
  BY SpillStep DEF BySpill
<1> QED
  BY <1>1, Inductive, PTL DEF Spec, SpillsLeastUsed

-----------------------------------------------------------------------------
(***************************************************************************)
(* The shard implements KVStore.  What is stored is what memory holds of a *)
(* resident key and what the tier holds of another; a failed read of a     *)
(* stored key is no answer.                                                *)
(***************************************************************************)

\* The entry of key j in memory m and tier t.
EntryIn(m, t, j) ==
  IF m.val[j] # None THEN [val |-> m.val[j], exp |-> m.ttl[j]] ELSE t[j]

Answer == IF SpuriousMiss THEN None ELSE reply

LEMMA StoredIs ==
  /\ Stored = [j \in Keys |-> EntryIn(mem, tier, j)]
  /\ Stored' = [j \in Keys |-> EntryIn(mem', tier', j)]
BY DEF Stored, EntryIn

LEMMA EntryType ==
  ASSUME NEW m, Sound(m), NEW t \in [Keys -> Copy \cup {None}], NEW j \in Keys
  PROVE  /\ EntryIn(m, t, j) \in Copy \cup {None}
         /\ m.val[j] # None => /\ EntryIn(m, t, j) \in Copy
                               /\ EntryIn(m, t, j) # None
                               /\ EntryIn(m, t, j).val = m.val[j]
                               /\ EntryIn(m, t, j).exp = m.ttl[j]
<1>1. m.val[j] \in Val \cup {None} /\ m.ttl[j] \in Nat \cup {None}
  BY SoundContents, ContentsFields
<1>2. ASSUME m.val[j] # None
      PROVE  [val |-> m.val[j], exp |-> m.ttl[j]] \in Copy
  BY <1>1, <1>2 DEF Copy
<1>3. None \notin Copy
  BY LFUAssumption
<1> QED
  BY <1>2, <1>3 DEF EntryIn

-----------------------------------------------------------------------------
(* The abstract actions, from what a step does to each entry. *)

LEMMA SweepMaps ==
  ASSUME NEW K \in SUBSET Keys, \A j \in K : Abstract!Lapsed(j),
         \A j \in Keys : Stored'[j] = IF j \in K THEN None ELSE Stored[j],
         Answer' \in {Answer, None}, now' = now
  PROVE  Abstract!Next
<1>1. K \in Abstract!Lapsing
  BY DEF Abstract!Lapsing
<1>2. Stored' = Abstract!Without(K)
  BY StoredIs DEF Abstract!Without
<1> QED
  BY <1>1, <1>2 DEF Abstract!Next, Abstract!Sweep, Answer

LEMMA PutMaps ==
  ASSUME NEW S \in SUBSET Keys, S # {}, NEW v \in Val,
         NEW K \in SUBSET Keys, \A j \in K : Abstract!Lapsed(j),
         \A j \in Keys \ S : Stored'[j] = IF j \in K THEN None ELSE Stored[j],
         \A j \in S :
           /\ Stored'[j] \in Copy
           /\ Stored'[j].val = v
           /\ \/ Stored'[j].exp = None
              \/ Stored'[j].exp >= now
              \/ Stored[j] # None /\ Stored'[j].exp = Stored[j].exp,
         Answer' = None, now' = now
  PROVE  Abstract!Next
<1>1. K \in Abstract!Lapsing
  BY DEF Abstract!Lapsing
<1>2. Stored' = [j \in Keys |-> IF j \in S THEN Stored'[j]
                                ELSE Abstract!Without(K)[j]]
  BY StoredIs DEF Abstract!Without
<1>3. Abstract!Put(S)
  BY <1>1, <1>2 DEF Abstract!Put, Abstract!Entry, Copy, Answer
<1> QED
  BY <1>3 DEF Abstract!Next

LEMMA PutInVainMaps ==
  ASSUME NEW L \in SUBSET Keys, L # {}, NEW S \in SUBSET Keys, NEW v \in Val,
         NEW K \in SUBSET Keys, \A j \in K : Abstract!Lapsed(j),
         \A j \in L : Stored'[j] = None,
         \A j \in Keys \ (L \cup S) : Stored'[j] = IF j \in K THEN None ELSE Stored[j],
         \A j \in S : Stored'[j] \in Copy /\ Stored'[j].val = v /\ Stored'[j].exp = now,
         Answer' = None, now' = now
  PROVE  Abstract!PutInVain(L, S)
<1>1. K \in Abstract!Lapsing
  BY DEF Abstract!Lapsing
<1>2. Stored' = [j \in Keys |-> IF j \in L THEN None
                                ELSE IF j \in S THEN Stored'[j]
                                ELSE Abstract!Without(K)[j]]
  BY StoredIs DEF Abstract!Without
<1> QED
  BY <1>1, <1>2 DEF Abstract!PutInVain, Abstract!Entry, Copy, Answer

LEMMA RemoveMaps ==
  ASSUME NEW k \in Keys, Stored'[k] = None,
         \A j \in Keys \ {k} : Stored'[j] = Stored[j],
         Answer' = None, now' = now
  PROVE  Abstract!Next
<1>1. Stored' = [Stored EXCEPT ![k] = None]
  BY StoredIs
<1> QED
  BY <1>1 DEF Abstract!Next, Abstract!Remove, Answer

LEMMA ReadFoundMaps ==
  ASSUME NEW k \in Keys, Stored[k] # None, Stored'[k] = Stored[k],
         NEW K \in SUBSET Keys, \A j \in K : Abstract!Lapsed(j), k \notin K,
         \A j \in Keys : Stored'[j] = IF j \in K THEN None ELSE Stored[j],
         Answer' = [key |-> k, val |-> Stored[k].val], now' = now
  PROVE  Abstract!Next
<1>1. K \in Abstract!Lapsing
  BY DEF Abstract!Lapsing
<1>2. Stored' = Abstract!Without(K \ {k})
  BY StoredIs DEF Abstract!Without
<1>3. Abstract!Read(k)
  BY <1>1, <1>2 DEF Abstract!Read, Answer
<1> QED
  BY <1>3 DEF Abstract!Next

LEMMA ReadAbsentMaps ==
  ASSUME NEW k \in Keys, Stored[k] = None \/ Abstract!Lapsed(k), Stored'[k] = None,
         NEW K \in SUBSET Keys, \A j \in K : Abstract!Lapsed(j),
         \A j \in Keys \ {k} : Stored'[j] = IF j \in K THEN None ELSE Stored[j],
         Answer' = [key |-> k, val |-> None], now' = now
  PROVE  Abstract!Next
<1>1. K \in Abstract!Lapsing
  BY DEF Abstract!Lapsing
<1>2. Stored' = [Abstract!Without(K) EXCEPT ![k] = None]
  BY StoredIs DEF Abstract!Without
<1>3. Abstract!Read(k)
  BY <1>1, <1>2 DEF Abstract!Read, Answer
<1> QED
  BY <1>3 DEF Abstract!Next

-----------------------------------------------------------------------------
(* What purging, eviction and promotion do to the entries. *)

\* d and t hold what is stored, but for entries of K, which have lapsed.
Base(d, t, K) ==
  /\ K \in SUBSET Keys /\ \A j \in K : Abstract!Lapsed(j)
  /\ \A j \in Keys : EntryIn(d, t, j) = IF j \in K THEN None ELSE Stored[j]

\* Nothing in d has lapsed.
AllAlive(d) == \A j \in Keys : ~Passed(d.ttl[j])

LEMMA PurgedBase ==
  ASSUME IInv
  PROVE  /\ Base(Purged(mem), tier, {j \in Keys : Passed(mem.ttl[j])})
         /\ AllAlive(Purged(mem))
<1> DEFINE K == {j \in Keys : Passed(mem.ttl[j])}
           d == Deleted(mem, K)
<1>1. mem \in Contents /\ K \in SUBSET Keys
  BY SoundContents DEF IInv
<1>2. \A j \in Keys : j \in K <=> Passed(mem.ttl[j])
  OBVIOUS
<1> HIDE DEF K
<1>3. \A j \in Keys : /\ j \in K => d.val[j] = None /\ d.ttl[j] = None
                      /\ j \notin K => d.val[j] = mem.val[j] /\ d.ttl[j] = mem.ttl[j]
  BY <1>1, DeletedFields
<1> HIDE DEF d
<1>4. ASSUME NEW j \in K
      PROVE  mem.val[j] # None /\ Abstract!Lapsed(j) /\ tier[j] = None
  <2>1. j \in Keys /\ Passed(mem.ttl[j])
    BY <1>1, <1>2
  <2>2. mem.val[j] # None /\ tier[j] = None
    BY <2>1 DEF IInv, Sound, Apart, Passed
  <2>3. Stored[j] # None /\ Stored[j].exp = mem.ttl[j]
    BY <2>1, <2>2, StoredIs, EntryType DEF IInv, TypeOK
  <2> QED
    BY <2>1, <2>2, <2>3 DEF Abstract!Lapsed, Passed
<1>5. \A j \in Keys : EntryIn(d, tier, j) = IF j \in K THEN None ELSE Stored[j]
  BY <1>3, <1>4, StoredIs DEF EntryIn
<1>6. AllAlive(d)
  BY <1>2, <1>3 DEF AllAlive, Passed
<1>7. Purged(mem) = d
  BY DEF Purged, d, K
<1>8. Base(d, tier, K)
  BY <1>1, <1>4, <1>5 DEF Base
<1> QED
  BY <1>6, <1>7, <1>8 DEF K

LEMMA MemBase ==
  Base(mem, tier, {})
BY StoredIs DEF Base

\* Spilling changes no entry; a victim that has lapsed is dropped.
LEMMA EvictedEntries ==
  ASSUME NEW m, Sound(m), NEW t, Apart(m, t), NEW V \in SUBSET Resident(m),
         NEW j \in Keys
  PROVE  EntryIn(Deleted(m, V), Spilled(m, V, t), j)
           = IF j \in V /\ Passed(m.ttl[j]) THEN None ELSE EntryIn(m, t, j)
<1> DEFINE d == Deleted(m, V)
           s == Spilled(m, V, t)
<1>1. V \in SUBSET Keys /\ m \in Contents
  BY SoundContents DEF Resident
<1>2. /\ j \in V => d.val[j] = None
      /\ j \notin V => d.val[j] = m.val[j] /\ d.ttl[j] = m.ttl[j]
  BY <1>1, DeletedFields
<1>3. s[j] = IF j \in V /\ ~Passed(m.ttl[j])
             THEN [val |-> m.val[j], exp |-> m.ttl[j]] ELSE t[j]
  BY DEF Spilled
<1>4. j \in V => m.val[j] # None /\ t[j] = None
  BY DEF Resident, Apart
<1> HIDE DEF d, s
<1>5. EntryIn(d, s, j)
        = IF j \in V /\ Passed(m.ttl[j]) THEN None ELSE EntryIn(m, t, j)
  BY <1>2, <1>3, <1>4 DEF EntryIn
<1> QED
  BY <1>5 DEF d, s

\* A promotion of k drops the entries of L, lapsed ones that its eviction takes, and
\* the copy of k if that has lapsed.
DropsLapsed(m, k, p, L) ==
  /\ \A j \in L : m.val[j] # None /\ Passed(m.ttl[j])
  /\ \A j \in Keys : EntryIn(p.mem, p.tier, j)
       = IF j \in L \/ (j = k /\ k \notin Resident(m) /\ ~Fresh(k))
         THEN None ELSE EntryIn(m, tier, j)

LEMMA PromotedEntries ==
  ASSUME NEW m, Sound(m), Apart(m, tier), tier \in [Keys -> Copy \cup {None}],
         NEW k \in Keys, NEW p \in Promoted(m, k)
  PROVE  \E L \in SUBSET (Keys \ {k}) :
           /\ \A j \in L : m.val[j] # None /\ Passed(m.ttl[j])
           /\ \A j \in Keys : EntryIn(p.mem, p.tier, j)
                = IF j \in L \/ (j = k /\ k \notin Resident(m) /\ ~Fresh(k))
                  THEN None ELSE EntryIn(m, tier, j)
<1>0. {} \in SUBSET (Keys \ {k})
  OBVIOUS
<1>1. CASE k \in Resident(m) /\ p.mem = m /\ p.tier = tier
  BY <1>0, <1>1
<1>2. CASE k \notin Resident(m) /\ ~Fresh(k) /\ p.mem = m /\ p.tier = Forget(k)
  <2>1. m.val[k] = None
    BY <1>2 DEF Resident
  <2>2. \A j \in Keys : EntryIn(m, Forget(k), j)
                          = IF j = k THEN None ELSE EntryIn(m, tier, j)
    BY <2>1, ForgetTyped DEF EntryIn
  <2> QED
    BY <1>0, <1>2, <2>2
<1>3. CASE /\ k \notin Resident(m) /\ Fresh(k)
           /\ \E V \in Victims(Back(m, k)) :
                /\ p.mem = Deleted(Back(m, k), V)
                /\ p.tier = Spilled(Back(m, k), V, Forget(k))
  <2> DEFINE b == Back(m, k)
             t == Forget(k)
  <2> PICK V \in Victims(b) : p.mem = Deleted(b, V) /\ p.tier = Spilled(b, V, t)
    BY <1>3
  <2>1. tier[k] \in Copy /\ tier[k] # None /\ ~Passed(tier[k].exp)
    BY <1>3 DEF Fresh
  <2>2. Sound(b) /\ Resident(b) = Resident(m) \cup {k}
    BY <1>3, <2>1, BackSound
  <2>3. /\ b.val[k] = tier[k].val /\ b.ttl[k] = tier[k].exp
        /\ \A j \in Keys : j # k => b.val[j] = m.val[j] /\ b.ttl[j] = m.ttl[j]
    BY <2>1, BackFields, SoundContents
  <2>4. t[k] = None /\ \A j \in Keys : j # k => t[j] = tier[j]
    BY ForgetTyped
  <2> HIDE DEF b, t
  <2>5. Apart(b, t)
    BY <2>3, <2>4 DEF Apart
  <2>6. V \in SUBSET Resident(b)
    BY DEF Victims
  <2> DEFINE L == {j \in V : Passed(b.ttl[j])}
  <2>7. L \in SUBSET (Keys \ {k}) /\ \A j \in L : m.val[j] # None /\ Passed(m.ttl[j])
    BY <2>1, <2>2, <2>3, <2>6 DEF Resident
  <2>8. m.val[k] = None /\ tier[k] = [val |-> tier[k].val, exp |-> tier[k].exp]
        /\ tier[k].val # None
    BY <1>3, <2>1, LFUAssumption DEF Resident, Copy
  <2>9. \A j \in Keys : EntryIn(b, t, j) = EntryIn(m, tier, j)
    BY <2>3, <2>4, <2>8 DEF EntryIn
  <2>10. ASSUME NEW j \in Keys
         PROVE  EntryIn(p.mem, p.tier, j) = IF j \in L THEN None ELSE EntryIn(m, tier, j)
    BY <2>2, <2>5, <2>6, <2>9, EvictedEntries
  <2> HIDE DEF L
  <2> QED
    BY <1>3, <2>7, <2>10
<1> QED
  BY <1>1, <1>2, <1>3, PromotedCases

LEMMA PromotedDrops ==
  ASSUME NEW m, Sound(m), Apart(m, tier), tier \in [Keys -> Copy \cup {None}],
         NEW k \in Keys, NEW p \in Promoted(m, k)
  PROVE  \E L \in SUBSET (Keys \ {k}) : DropsLapsed(m, k, p, L)
BY PromotedEntries DEF DropsLapsed

-----------------------------------------------------------------------------
(* Each action is one of KVStore. *)

LEMMA NoAnswer == reply' = None => Answer' = None
BY DEF Answer, SpuriousMiss

\* A call that does no more than purge.
LEMMA BaseSweep ==
  ASSUME NEW d, NEW t, NEW K, Base(d, t, K), now' = now, Answer' \in {Answer, None},
         \A j \in Keys : EntryIn(mem', tier', j) = EntryIn(d, t, j)
  PROVE  Abstract!Next
<1>1. /\ K \in SUBSET Keys /\ \A j \in K : Abstract!Lapsed(j)
      /\ \A j \in Keys : Stored'[j] = IF j \in K THEN None ELSE Stored[j]
  BY StoredIs DEF Base
<1> QED
  BY <1>1, SweepMaps

\* A write of v to the keys of S on top of d, in which nothing has lapsed, and the
\* eviction after it.
LEMMA WriteMaps ==
  ASSUME NEW d, Sound(d), NEW t0 \in [Keys -> Copy \cup {None}], Apart(d, t0),
         AllAlive(d), NEW K, Base(d, t0, K),
         NEW S \in SUBSET Keys, S # {}, NEW v \in Val, NEW t \in Args, now \in Nat,
         NEW w, Sound(w), NEW f \in [Keys -> Copy \cup {None}],
         \A j \in S : /\ w.val[j] = v
                      /\ w.ttl[j] = IF t = None THEN d.ttl[j] ELSE DeadlineOf(t)
                      /\ f[j] = None,
         \A j \in Keys \ S : /\ w.val[j] = d.val[j] /\ w.ttl[j] = d.ttl[j]
                             /\ f[j] = t0[j],
         Evict(w, f), Answer' = None, now' = now
  PROVE  Abstract!Next
<1> PICK V \in Victims(w) : mem' = Deleted(w, V) /\ tier' = Spilled(w, V, f)
  BY DEF Evict
<1>0. V \in SUBSET Resident(w) /\ None \notin Val /\ v # None
  BY LFUAssumption DEF Victims
<1>1. Apart(w, f)
  BY DEF Apart
<1>2. \A j \in Keys : Stored'[j] = IF j \in V /\ Passed(w.ttl[j])
                                   THEN None ELSE EntryIn(w, f, j)
  BY <1>0, <1>1, StoredIs, EvictedEntries
<1> DEFINE L == {j \in V : Passed(w.ttl[j])}
<1>3. L \in SUBSET Keys /\ \A j \in Keys : j \in L <=> j \in V /\ Passed(w.ttl[j])
  BY <1>0 DEF Resident
<1>4. t # None => /\ t \in Nat /\ DeadlineOf(t) = now + t
                  /\ DeadlineOf(t) \in Nat /\ DeadlineOf(t) >= now
  BY LFUAssumption DEF Args, DeadlineOf
<1>5. \A j \in L : j \in S /\ t # None
  BY <1>3 DEF AllAlive
<1>6. \A j \in L : now >= DeadlineOf(t) /\ t # None
  BY <1>3, <1>4, <1>5 DEF Passed
<1>7. ASSUME NEW j \in S
      PROVE  /\ EntryIn(w, f, j) \in Copy
             /\ EntryIn(w, f, j).val = v
             /\ EntryIn(w, f, j).exp = w.ttl[j]
  BY <1>0, EntryType
<1>8. ASSUME NEW j \in Keys \ S
      PROVE  Stored'[j] = IF j \in K THEN None ELSE Stored[j]
  <2>1. j \notin L
    BY <1>5
  <2>2. EntryIn(w, f, j) = EntryIn(d, t0, j)
    BY DEF EntryIn
  <2> QED
    BY <1>2, <1>3, <2>1, <2>2 DEF Base
<1> HIDE DEF L
<1>9. CASE L = {}
  <2>1. ASSUME NEW j \in S
        PROVE  /\ Stored'[j] \in Copy
               /\ Stored'[j].val = v
               /\ \/ Stored'[j].exp = None
                  \/ Stored'[j].exp >= now
                  \/ Stored[j] # None /\ Stored'[j].exp = Stored[j].exp
    <3>1. Stored'[j] = EntryIn(w, f, j)
      BY <1>2, <1>3, <1>9
    <3>2. CASE t = None /\ d.val[j] # None
      <4>1. Stored[j] = EntryIn(d, t0, j) /\ Stored[j] # None /\ Stored[j].exp = d.ttl[j]
        BY <3>2, EntryType DEF Base
      <4> QED
        BY <1>7, <3>1, <3>2, <4>1
    <3>3. CASE t = None /\ d.val[j] = None
      <4>1. d.ttl[j] = None
        BY <3>3 DEF Sound
      <4> QED
        BY <1>7, <3>1, <3>3, <4>1
    <3>4. CASE t # None
      BY <1>4, <1>7, <3>1, <3>4
    <3> QED
      BY <3>2, <3>3, <3>4
  <2> QED
    BY <1>8, <2>1, PutMaps DEF Base
<1>10. CASE L # {}
  <2> DEFINE R == S \ L
  <2>1. t # None /\ DeadlineOf(t) = now
    BY <1>4, <1>6, <1>10
  <2>2. \A j \in L : Stored'[j] = None
    BY <1>2, <1>3
  <2>3. \A j \in R : Stored'[j] \in Copy /\ Stored'[j].val = v /\ Stored'[j].exp = now
    BY <1>2, <1>3, <1>7, <2>1
  <2>4. R \in SUBSET Keys /\ L \cup R = S
    BY <1>5
  <2>5. \A j \in Keys \ (L \cup R) : Stored'[j] = IF j \in K THEN None ELSE Stored[j]
    BY <1>8, <2>4
  <2>6. K \in SUBSET Keys /\ \A j \in K : Abstract!Lapsed(j)
    BY DEF Base
  <2> HIDE DEF R
  <2>7. Abstract!PutInVain(L, R)
    BY <1>3, <1>10, <2>2, <2>3, <2>4, <2>5, <2>6, PutInVainMaps
  <2> QED
    BY <1>3, <2>4, <2>7 DEF Abstract!Next
<1> QED
  BY <1>9, <1>10

LEMMA OneWriteMaps ==
  ASSUME NEW d, Sound(d), NEW t0 \in [Keys -> Copy \cup {None}], Apart(d, t0),
         AllAlive(d), NEW K, Base(d, t0, K),
         NEW k \in Keys, NEW v \in Val, NEW t \in Args, now \in Nat,
         Evict(Written(d, k, v, t), [t0 EXCEPT ![k] = None]), Answer' = None, now' = now
  PROVE  Abstract!Next
<1> DEFINE w == Written(d, k, v, t)
           f == [t0 EXCEPT ![k] = None]
           S == {k}
<1>1. Sound(w)
  BY WrittenSound
<1>2. /\ w.val[k] = v /\ w.ttl[k] = IF t = None THEN d.ttl[k] ELSE DeadlineOf(t)
      /\ \A j \in Keys : j # k => w.val[j] = d.val[j] /\ w.ttl[j] = d.ttl[j]
  BY WrittenFields, SoundContents
<1>3. /\ f \in [Keys -> Copy \cup {None}] /\ f[k] = None
      /\ \A j \in Keys : j # k => f[j] = t0[j]
  OBVIOUS
<1>4. S \in SUBSET Keys /\ S # {} /\ \A j \in S : j = k
  OBVIOUS
<1>5. Evict(w, f)
  OBVIOUS
<1>6. \A j \in Keys \ S : j # k
  OBVIOUS
<1> HIDE DEF w, f, S
<1>7. \A j \in S : /\ w.val[j] = v
                   /\ w.ttl[j] = IF t = None THEN d.ttl[j] ELSE DeadlineOf(t)
                   /\ f[j] = None
  BY <1>2, <1>3, <1>4
<1>8. \A j \in Keys \ S : /\ w.val[j] = d.val[j] /\ w.ttl[j] = d.ttl[j]
                          /\ f[j] = t0[j]
  BY <1>2, <1>3, <1>6
<1> QED
  BY <1>1, <1>3, <1>4, <1>5, <1>7, <1>8, WriteMaps

\* A call that may have promoted k and answers what it then finds in memory.
LEMMA ReadMaps ==
  ASSUME IInv, NEW m, Sound(m), Apart(m, tier), NEW K, Base(m, tier, K),
         NEW k \in Keys, NEW p \in Promoted(m, k),
         mem'.val = p.mem.val, mem'.ttl = p.mem.ttl, tier' = p.tier,
         reply' = [key |-> k, val |-> p.mem.val[k]], now' = now
  PROVE  Abstract!Next
<1>0. tier \in [Keys -> Copy \cup {None}]
  BY DEF IInv, TypeOK
<1>1. Sound(p.mem) /\ p.tier \in [Keys -> Copy \cup {None}] /\ Apart(p.mem, p.tier)
  BY <1>0, PromotedSound
<1> DEFINE missed == k \notin Resident(m) /\ ~Fresh(k)
<1>a. PICK L \in SUBSET (Keys \ {k}) : DropsLapsed(m, k, p, L)
  BY <1>0, PromotedDrops
<1>2. /\ \A j \in L : m.val[j] # None /\ Passed(m.ttl[j])
      /\ \A j \in Keys : EntryIn(p.mem, p.tier, j)
           = IF j \in L \/ (j = k /\ missed) THEN None ELSE EntryIn(m, tier, j)
  BY <1>a DEF DropsLapsed
<1> HIDE DEF missed
<1> DEFINE M == K \cup L
<1>3. M \in SUBSET Keys /\ \A j \in M : Abstract!Lapsed(j)
  <2>1. ASSUME NEW j \in L, j \notin K PROVE Abstract!Lapsed(j)
    <3>1. EntryIn(m, tier, j) # None /\ EntryIn(m, tier, j).exp = m.ttl[j]
      BY <1>0, <1>2, EntryType
    <3>2. Stored[j] # None /\ Stored[j].exp = m.ttl[j]
      BY <2>1, <3>1 DEF Base
    <3> QED
      BY <1>2, <3>2 DEF Abstract!Lapsed, Passed
  <2> QED
    BY <2>1 DEF Base
<1>4. \A j \in Keys : Stored'[j] = EntryIn(p.mem, p.tier, j)
  BY StoredIs DEF EntryIn
<1>5. \A j \in Keys : Stored'[j] = IF j \in M \/ (j = k /\ missed)
                                   THEN None ELSE Stored[j]
  BY <1>2, <1>4 DEF Base
<1> HIDE DEF M
<1>6. CASE p.mem.val[k] # None
  <2>1. Stored'[k] # None /\ Stored'[k].val = p.mem.val[k]
    BY <1>1, <1>4, <1>6, EntryType
  <2>2. Stored'[k] = Stored[k] /\ k \notin M /\ ~missed
    BY <1>5, <2>1
  <2>3. Answer' = [key |-> k, val |-> Stored[k].val]
    BY <1>6, <2>1, <2>2 DEF Answer, SpuriousMiss
  <2> QED
    BY <1>3, <1>5, <2>1, <2>2, <2>3, ReadFoundMaps
<1>7. CASE p.mem.val[k] = None /\ Stored'[k] # None
  <2>1. Answer' = None
    BY <1>7 DEF Answer, SpuriousMiss
  <2>2. k \notin M /\ ~missed
    BY <1>5, <1>7
  <2> QED
    BY <1>3, <1>5, <2>1, <2>2, SweepMaps
<1>8. CASE p.mem.val[k] = None /\ Stored'[k] = None
  <2>1. Answer' = [key |-> k, val |-> None]
    BY <1>8 DEF Answer, SpuriousMiss
  <2>2. Stored[k] = None \/ Abstract!Lapsed(k)
    <3>1. CASE k \in M
      BY <1>3, <3>1
    <3>2. CASE k \notin M /\ ~missed
      BY <1>5, <1>8, <3>2
    <3>3. CASE k \notin M /\ missed
      <4>1. Stored[k] = tier[k]
        BY <3>3 DEF Base, EntryIn, M, missed, Resident
      <4>2. tier[k] = None \/ Passed(tier[k].exp)
        BY <3>3 DEF missed, Fresh
      <4> QED
        BY <4>1, <4>2 DEF Abstract!Lapsed, Passed
    <3> QED
      BY <3>1, <3>2, <3>3
  <2>3. \A j \in Keys \ {k} : Stored'[j] = IF j \in M THEN None ELSE Stored[j]
    BY <1>5
  <2> QED
    BY <1>3, <1>8, <2>1, <2>2, <2>3, ReadAbsentMaps
<1> QED
  BY <1>6, <1>7, <1>8

\* A promotion in a patch after a purge leaves nothing that has lapsed, and drops
\* nothing unless the patch finds no entry.
LEMMA PromotedBase ==
  ASSUME NEW m, Sound(m), Apart(m, tier), tier \in [Keys -> Copy \cup {None}],
         AllAlive(m), NEW K, Base(m, tier, K), NEW k \in Keys, NEW p \in Promoted(m, k),
         k \in Resident(p.mem)
  PROVE  AllAlive(p.mem) /\ Base(p.mem, p.tier, K)
<1>1. AllAlive(p.mem)
  <2>1. CASE p.mem = m
    BY <2>1
  <2>2. CASE k \notin Resident(m) /\ Fresh(k)
    <3> DEFINE b == Back(m, k)
    <3>1. PICK V \in Victims(b) : p.mem = Deleted(b, V)
      BY <2>2, PromotedCases
    <3>2. Sound(b) /\ tier[k] \in Copy
      BY <2>2, BackSound DEF Fresh
    <3>3. \A j \in Keys : ~Passed(b.ttl[j])
      BY <2>2, <3>2, BackFields, SoundContents DEF AllAlive, Fresh
    <3> HIDE DEF b
    <3>4. V \in SUBSET Keys /\ b \in Contents
      BY <3>2, SoundContents DEF Victims, Resident
    <3>5. \A j \in Keys : p.mem.ttl[j] = None \/ p.mem.ttl[j] = b.ttl[j]
      BY <3>1, <3>4, DeletedFields
    <3> QED
      BY <3>3, <3>5 DEF AllAlive, Passed
  <2> QED
    BY <2>1, <2>2, PromotedCases
<1>2. PICK L \in SUBSET (Keys \ {k}) :
        /\ \A j \in L : m.val[j] # None /\ Passed(m.ttl[j])
        /\ \A j \in Keys : EntryIn(p.mem, p.tier, j)
             = IF j \in L \/ (j = k /\ k \notin Resident(m) /\ ~Fresh(k))
               THEN None ELSE EntryIn(m, tier, j)
  BY PromotedEntries
<1>3. L = {}
  BY <1>2 DEF AllAlive
<1>4. ~(k \notin Resident(m) /\ ~Fresh(k))
  BY PromotedCases
<1>5. \A j \in Keys : EntryIn(p.mem, p.tier, j) = EntryIn(m, tier, j)
  BY <1>2, <1>3, <1>4
<1> QED
  BY <1>1, <1>5 DEF Base

LEMMA PatchMaps ==
  ASSUME IInv, IInv', NEW k \in Keys, NEW v \in Val \cup {None}, NEW t \in Args,
         Patch(k, v, t)
  PROVE  Abstract!Next
<1> DEFINE m == Purged(mem)
           K == {j \in Keys : Passed(mem.ttl[j])}
<1>0. /\ Sound(m) /\ Apart(m, tier) /\ tier \in [Keys -> Copy \cup {None}]
      /\ now \in Nat /\ Base(m, tier, K) /\ AllAlive(m) /\ now' = now
  BY PurgedMem, PurgedBase DEF Patch, Call
<1> HIDE DEF m, K
<1>1. PICK p \in Promoted(m, k) :
        LET left == [p.tier EXCEPT ![k] = None] IN
        \/ /\ k \notin Resident(p.mem)
           /\ mem' = p.mem /\ tier' = p.tier
           /\ reply' = [key |-> k, val |-> None]
        \/ /\ k \in Resident(p.mem)
           /\ mem' = p.mem /\ tier' = left /\ reply' = None
        \/ /\ k \in Resident(p.mem) /\ v # None
           /\ Evict(Used(WithTTL([p.mem EXCEPT !.val[k] = v], k, t), k), left)
           /\ reply' = None
  BY DEF Patch, m
<1> DEFINE left == [p.tier EXCEPT ![k] = None]
           u == Used(WithTTL([p.mem EXCEPT !.val[k] = v], k, t), k)
<1>2. Sound(p.mem) /\ p.tier \in [Keys -> Copy \cup {None}] /\ Apart(p.mem, p.tier)
  BY <1>0, PromotedSound
<1>3. CASE k \notin Resident(p.mem) /\ mem' = p.mem /\ tier' = p.tier
           /\ reply' = [key |-> k, val |-> None]
  <2>1. p.mem.val[k] = None
    BY <1>3 DEF Resident
  <2> QED
    BY <1>0, <1>3, <2>1, ReadMaps
<1>4. CASE k \in Resident(p.mem) /\ mem' = p.mem /\ tier' = left /\ reply' = None
  <2>1. Base(p.mem, p.tier, K)
    BY <1>0, <1>4, PromotedBase
  <2>2. p.tier[k] = None
    BY <1>2, <1>4 DEF Apart, Resident
  <2>3. \A j \in Keys : left[j] = p.tier[j]
    BY <1>2, <2>2
  <2>4. \A j \in Keys : EntryIn(mem', tier', j) = EntryIn(p.mem, p.tier, j)
    BY <1>4, <2>3 DEF EntryIn
  <2>5. Answer' = None
    BY <1>4, NoAnswer
  <2> QED
    BY <1>0, <2>1, <2>4, <2>5, BaseSweep
<1>5. CASE k \in Resident(p.mem) /\ v # None /\ Evict(u, left) /\ reply' = None
  <2>1. v \in Val
    BY <1>5
  <2>2. Evict(Written(p.mem, k, v, t), left)
    BY <1>2, <1>5, <2>1, UpdatedIsWritten
  <2>3. AllAlive(p.mem) /\ Base(p.mem, p.tier, K)
    BY <1>0, <1>5, PromotedBase
  <2>4. Answer' = None
    BY <1>5, NoAnswer
  <2> QED
    BY <1>0, <1>2, <2>1, <2>2, <2>3, <2>4, OneWriteMaps
<1> QED
  BY <1>1, <1>3, <1>4, <1>5

LEMMA MSetMaps ==
  ASSUME IInv, IInv', NEW ks \in Batches, NEW v \in Val, NEW t \in Args, MSet(ks, v, t)
  PROVE  Abstract!Next
<1> DEFINE m == Purged(mem)
           K == {j \in Keys : Passed(mem.ttl[j])}
           a == ks[1]
           b == ks[2]
           f == [j \in Keys |-> IF j \in {a, b} THEN None ELSE tier[j]]
           w == Written(m, a, v, t)
           w2 == Written(w, b, v, t)
           S == {a, b}
<1>0. /\ Sound(m) /\ Apart(m, tier) /\ tier \in [Keys -> Copy \cup {None}]
      /\ now \in Nat /\ Base(m, tier, K) /\ AllAlive(m)
  BY PurgedMem, PurgedBase
<1>1. a \in Keys /\ b \in Keys /\ a # b /\ Evict(w2, f) /\ now' = now /\ reply' = None
  BY DEF Batches, MSet, Call
<1> HIDE DEF m, K, a, b
<1>2. /\ Sound(w)
      /\ w.val[a] = v /\ w.ttl[a] = IF t = None THEN m.ttl[a] ELSE DeadlineOf(t)
      /\ \A j \in Keys : j # a => w.val[j] = m.val[j] /\ w.ttl[j] = m.ttl[j]
  BY <1>0, <1>1, WrittenSound, WrittenFields, SoundContents
<1> HIDE DEF w
<1>3. /\ Sound(w2)
      /\ w2.val[b] = v /\ w2.ttl[b] = IF t = None THEN w.ttl[b] ELSE DeadlineOf(t)
      /\ \A j \in Keys : j # b => w2.val[j] = w.val[j] /\ w2.ttl[j] = w.ttl[j]
  BY <1>0, <1>1, <1>2, WrittenSound, WrittenFields, SoundContents
<1>4. /\ f \in [Keys -> Copy \cup {None}]
      /\ \A j \in Keys : f[j] = IF j \in S THEN None ELSE tier[j]
  BY <1>0
<1>5. S \in SUBSET Keys /\ S # {} /\ \A j \in Keys : j \in S <=> j = a \/ j = b
  BY <1>1
<1> HIDE DEF w2, f, S
<1>6. \A j \in S : /\ w2.val[j] = v
                   /\ w2.ttl[j] = IF t = None THEN m.ttl[j] ELSE DeadlineOf(t)
                   /\ f[j] = None
  BY <1>1, <1>2, <1>3, <1>4, <1>5
<1>7. \A j \in Keys \ S : /\ w2.val[j] = m.val[j] /\ w2.ttl[j] = m.ttl[j]
                          /\ f[j] = tier[j]
  BY <1>2, <1>3, <1>4, <1>5
<1>8. Answer' = None
  BY <1>1, NoAnswer
<1>9. Sound(w2) /\ f \in [Keys -> Copy \cup {None}] /\ S \in SUBSET Keys /\ S # {}
  BY <1>3, <1>4, <1>5
<1>10. Evict(w2, f) /\ now' = now
  BY <1>1
<1> QED
  BY <1>0, <1>6, <1>7, <1>8, <1>9, <1>10, WriteMaps

LEMMA WritesMap ==
  ASSUME IInv, NEW k \in Keys, NEW v \in Val, NEW t \in Args,
         Create(k, v, t) \/ Update(k, v, t) \/ (v \in Numbers /\ Incr(k, v, t))
  PROVE  Abstract!Next
<1> DEFINE m == Purged(mem)
           K == {j \in Keys : Passed(mem.ttl[j])}
           u == Used(WithTTL([m EXCEPT !.val[k] = v], k, t), k)
<1>0. /\ Sound(m) /\ Apart(m, tier) /\ tier \in [Keys -> Copy \cup {None}]
      /\ now \in Nat /\ Base(m, tier, K) /\ AllAlive(m)
  BY PurgedMem, PurgedBase
<1>1. now' = now /\ reply' = None
  BY DEF Create, Update, Incr, Call, Raises
<1>2. Answer' = None
  BY <1>1, NoAnswer
<1>3. \/ mem' = m /\ tier' = tier
      \/ m.val[k] \in Val /\ mem' = m /\ tier' = Forget(k)
      \/ k \notin Resident(m) /\ Evict(Entered(m, k, v, t), Forget(k))
      \/ k \in Resident(m) /\ Evict(u, Forget(k))
      \/ Evict(Written(m, k, v, t), Forget(k))
  BY DEF Create, Update, Incr, Raises
<1> HIDE DEF m, K
<1>4. CASE mem' = m /\ tier' = tier
  BY <1>0, <1>1, <1>2, <1>4, BaseSweep
<1>5. CASE m.val[k] \in Val /\ mem' = m /\ tier' = Forget(k)
  <2>1. m.val[k] # None
    BY <1>5, LFUAssumption
  <2>2. tier[k] = None
    BY <1>0, <2>1 DEF Apart
  <2>3. \A j \in Keys : EntryIn(mem', tier', j) = EntryIn(m, tier, j)
    BY <1>0, <1>5, <2>2, ForgetTyped DEF EntryIn
  <2> QED
    BY <1>0, <1>1, <1>2, <2>3, BaseSweep
<1>6. ASSUME Evict(Written(m, k, v, t), Forget(k)) PROVE Abstract!Next
  <2>1. Evict(Written(m, k, v, t), [tier EXCEPT ![k] = None])
    BY <1>6 DEF Forget
  <2> QED
    BY <1>0, <1>1, <1>2, <2>1, OneWriteMaps
<1>7. CASE k \notin Resident(m) /\ Evict(Entered(m, k, v, t), Forget(k))
  BY <1>0, <1>6, <1>7, EnteredIsWritten
<1>8. CASE k \in Resident(m) /\ Evict(u, Forget(k))
  BY <1>0, <1>6, <1>8, UpdatedIsWritten
<1> QED
  BY <1>3, <1>4, <1>5, <1>6, <1>7, <1>8

LEMMA DeleteMaps ==
  ASSUME IInv, NEW k \in Keys, Delete(k)
  PROVE  Abstract!Next
<1> DEFINE K == {k}
<1>1. mem' = Deleted(mem, K) /\ tier' = Forget(k) /\ now' = now /\ reply' = None
  BY DEF Delete, Call
<1>2. K \in SUBSET Keys /\ mem \in Contents /\ \A j \in Keys : j \in K <=> j = k
  BY SoundContents DEF IInv
<1> HIDE DEF K
<1>3. /\ mem'.val[k] = None
      /\ \A j \in Keys : j # k => mem'.val[j] = mem.val[j] /\ mem'.ttl[j] = mem.ttl[j]
  BY <1>1, <1>2, DeletedFields
<1>4. tier'[k] = None /\ \A j \in Keys : j # k => tier'[j] = tier[j]
  BY <1>1, ForgetTyped DEF IInv, TypeOK
<1>5. Stored'[k] = None
  BY <1>3, <1>4, StoredIs DEF EntryIn
<1>6. \A j \in Keys \ {k} : Stored'[j] = Stored[j]
  BY <1>3, <1>4, StoredIs DEF EntryIn
<1> QED
  BY <1>1, <1>5, <1>6, NoAnswer, RemoveMaps

LEMMA PersistMaps ==
  ASSUME IInv, NEW k \in Keys, Persist(k)
  PROVE  Abstract!Next
<1> DEFINE m == Purged(mem)
           K == {j \in Keys : Passed(mem.ttl[j])}
           u == [m EXCEPT !.ttl[k] = None]
           S == {k}
<1>0. /\ Sound(m) /\ tier \in [Keys -> Copy \cup {None}] /\ Base(m, tier, K)
      /\ now' = now /\ reply' = None /\ tier' = tier
  BY PurgedMem, PurgedBase DEF Persist, Call, Raises
<1>1. mem' = m \/ (k \in Resident(m) /\ mem' = u)
  BY DEF Persist, Raises
<1>2. Answer' = None
  BY <1>0, NoAnswer
<1> HIDE DEF m, K
<1>3. CASE mem' = m
  BY <1>0, <1>2, <1>3, BaseSweep
<1>4. CASE k \in Resident(m) /\ mem' = u
  <2>1. Sound(u) /\ u.val = m.val /\ u.ttl = [m.ttl EXCEPT ![k] = None]
    BY <1>0, PersistedSound
  <2>2. m.ttl \in [Keys -> Nat \cup {None}]
    BY <1>0, SoundContents, ContentsFields
  <2> HIDE DEF u
  <2>3. /\ mem'.val = m.val /\ mem'.ttl[k] = None /\ Sound(mem')
        /\ \A j \in Keys : j # k => mem'.ttl[j] = m.ttl[j]
    BY <1>4, <2>1, <2>2
  <2>4. \A j \in Keys \ S : Stored'[j] = IF j \in K THEN None ELSE Stored[j]
    BY <1>0, <2>3, StoredIs DEF Base, EntryIn
  <2>5. mem'.val[k] # None /\ mem'.val[k] \in Val
    BY <1>0, <1>4, <2>3, SoundContents, ContentsFields DEF Resident
  <2>6. Stored'[k] \in Copy /\ Stored'[k].val = mem'.val[k] /\ Stored'[k].exp = None
    BY <1>0, <2>3, <2>5, StoredIs, EntryType
  <2>7. \A j \in S : /\ Stored'[j] \in Copy
                     /\ Stored'[j].val = mem'.val[k]
                     /\ Stored'[j].exp = None
    BY <2>6
  <2>8. S \in SUBSET Keys /\ S # {} /\ K \in SUBSET Keys
        /\ \A j \in K : Abstract!Lapsed(j)
    BY <1>0 DEF Base
  <2> HIDE DEF S
  <2> PICK v \in Val : v = mem'.val[k]
    BY <2>5
  <2>9. \A j \in S : /\ Stored'[j] \in Copy
                     /\ Stored'[j].val = v
                     /\ \/ Stored'[j].exp = None
                        \/ Stored'[j].exp >= now
                        \/ Stored[j] # None /\ Stored'[j].exp = Stored[j].exp
    BY <2>7
  <2> QED
    BY <1>0, <1>2, <2>4, <2>8, <2>9, PutMaps
<1> QED
  BY <1>1, <1>3, <1>4

LEMMA StepMaps ==
  ASSUME IInv, IInv', [Next]_vars
  PROVE  [Abstract!Next]_<<Stored, now, Answer>>
<1> DEFINE m == Purged(mem)
           K == {j \in Keys : Passed(mem.ttl[j])}
<1>0. /\ Sound(m) /\ Apart(m, tier) /\ tier \in [Keys -> Copy \cup {None}]
      /\ Base(m, tier, K)
  BY PurgedMem, PurgedBase
<1> HIDE DEF m, K
<1>a. ASSUME NEW n, Sound(n), Apart(n, tier), NEW M, Base(n, tier, M), NEW k \in Keys,
             NEW p \in Promoted(n, k), mem' = p.mem \/ mem' = Used(p.mem, k),
             tier' = p.tier, reply' = [key |-> k, val |-> p.mem.val[k]], now' = now
      PROVE  Abstract!Next
  <2> DEFINE u == Used(p.mem, k)
  <2>1. p.mem \in Contents
    BY <1>0, <1>a, PromotedSound, SoundContents
  <2>2. u.val = p.mem.val /\ u.ttl = p.mem.ttl
    BY <1>a, <2>1, UsedFields
  <2>3. mem' = p.mem \/ mem' = u
    BY <1>a
  <2> HIDE DEF u
  <2>4. mem'.val = p.mem.val /\ mem'.ttl = p.mem.ttl
    BY <2>2, <2>3
  <2> QED
    BY <1>a, <2>4, ReadMaps
<1>b. ASSUME NEW n, Sound(n), Apart(n, tier), NEW M, Base(n, tier, M),
             NEW ks \in Seq(Keys), ks # <<>>, MGetKey(n, ks)
      PROVE  Abstract!Next
  <2> DEFINE k == Head(ks)
  <2>0. k \in Keys
    BY <1>b, HeadTailProperties
  <2>1. PICK p \in Promoted(n, k) :
          /\ mem' = p.mem \/ mem' = Used(p.mem, k)
          /\ tier' = p.tier /\ reply' = [key |-> k, val |-> p.mem.val[k]]
    BY <1>b DEF MGetKey
  <2>2. now' = now
    BY <1>b DEF MGetKey
  <2> HIDE DEF k
  <2> QED
    BY <1>a, <1>b, <2>0, <2>1, <2>2
<1>1. ASSUME NEW k \in Keys, NEW v \in Val, NEW t \in Args,
             Create(k, v, t) \/ Update(k, v, t)
      PROVE  Abstract!Next
  BY <1>1, WritesMap
<1>2. ASSUME NEW k \in Keys, NEW v \in Numbers, NEW t \in Args, Incr(k, v, t)
      PROVE  Abstract!Next
  <2>1. v \in Val
    BY LFUAssumption
  <2> QED
    BY <1>2, <2>1, WritesMap
<1>3. ASSUME NEW k \in Keys, NEW v \in Val \cup {None}, NEW t \in Args, Patch(k, v, t)
      PROVE  Abstract!Next
  BY <1>3, PatchMaps
<1>4. ASSUME NEW k \in Keys, Delete(k) \/ Persist(k) PROVE Abstract!Next
  BY <1>4, DeleteMaps, PersistMaps
<1>5. ASSUME NEW k \in Keys, Read(k) PROVE Abstract!Next
  <2>1. PICK p \in Promoted(m, k) :
          /\ mem' = p.mem \/ mem' = Used(p.mem, k)
          /\ tier' = p.tier /\ reply' = [key |-> k, val |-> p.mem.val[k]]
    BY <1>5 DEF Read, m
  <2>2. now' = now
    BY <1>5 DEF Read, Call
  <2> QED
    BY <1>0, <1>a, <2>1, <2>2
<1>6. CASE MGetNext
  <2>1. Sound(mem) /\ Apart(mem, tier) /\ rest \in Seq(Keys) /\ rest # <<>>
        /\ MGetKey(mem, rest)
    BY <1>6 DEF MGetNext, IInv, TypeOK
  <2> QED
    BY <1>b, <2>1, MemBase
<1>7. ASSUME NEW ks \in Batches, MGetStart(ks) PROVE Abstract!Next
  <2>1. MGetKey(m, ks)
    BY <1>7 DEF MGetStart, m
  <2> QED
    BY <1>0, <1>b, <2>1, BatchIsSeq
<1>8. ASSUME NEW ks \in Batches, NEW v \in Val, NEW t \in Args, MSet(ks, v, t)
      PROVE  Abstract!Next
  BY <1>8, MSetMaps
<1>9. CASE PurgeExpired
  <2>1. mem' = m /\ tier' = tier /\ now' = now /\ reply' = None
    BY <1>9 DEF PurgeExpired, Call, Raises, m
  <2>2. \A j \in Keys : EntryIn(mem', tier', j) = EntryIn(m, tier, j)
    BY <2>1
  <2> QED
    BY <1>0, <2>1, <2>2, NoAnswer, BaseSweep
<1>10. CASE Tick
  <2>1. Stored' = Stored /\ now' = now + 1 /\ reply' = reply
    BY <1>10, StoredIs DEF Tick
  <2>2. Answer' = Answer
    BY <2>1 DEF Answer, SpuriousMiss
  <2> QED
    BY <2>1, <2>2 DEF Abstract!Next, Abstract!Tick, Answer
<1>11. CASE UNCHANGED vars
  <2>1. Stored' = Stored /\ now' = now /\ reply' = reply
    BY <1>11, StoredIs DEF vars
  <2> QED
    BY <2>1 DEF Answer, SpuriousMiss
<1> QED
  BY <1>1, <1>2, <1>3, <1>4, <1>5, <1>6, <1>7, <1>8, <1>9, <1>10, <1>11 DEF Next

\* To its callers an LFU shard is a KVStore: every call does to what is stored what
\* KVStore allows, and answers from it, or (a read that evicted what it had just
\* promoted) fails without having lost anything.
THEOREM Implementation == Spec => ImplementsKVStore
<1>1. Init => Abstract!Init
  <2> SUFFICES ASSUME Init PROVE Abstract!Init
    OBVIOUS
  <2>1. Sound(mem) /\ tier \in [Keys -> Copy \cup {None}]
    BY InitIInv DEF IInv, TypeOK
  <2>2. Stored \in [Keys -> Abstract!Entry \cup {None}]
    BY <2>1, StoredIs, EntryType DEF Abstract!Entry, Copy
  <2>3. now = 0 /\ reply = None
    BY DEF Init
  <2> QED
    BY <2>2, <2>3 DEF Abstract!Init, SpuriousMiss
<1>2. IInv /\ IInv' /\ [Next]_vars =>
        [Abstract!Next]_<<Stored, now, IF SpuriousMiss THEN None ELSE reply>>
  BY StepMaps DEF Answer
<1> QED
  BY <1>1, <1>2, Inductive, PTL DEF Spec, ImplementsKVStore, Abstract!Spec
=============================================================================
