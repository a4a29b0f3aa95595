--------------------------- MODULE ObserversProofs --------------------------
(***************************************************************************)
(* The tracker of heavy hitters, for any keys, any sketch and any hashing, *)
(* any k, and a clock that may even go back; then what that shows of it    *)
(* among the other observers: their composition implements HittersSpec.    *)
(* And the buckets of the limiter before them admit what their limits      *)
(* allow.  Last, the windows of the hot-key detector and of the eviction   *)
(* hints count in their reused buckets; and the adaptive TTL: a replay of  *)
(* the log lengthens no time to live.                                      *)
(***************************************************************************)
EXTENDS Observers, FiniteSetTheorems, SequenceTheorems, WellFoundedInduction, TLAPS

\* The cells a key is counted in.
Cell(c, r, key) == c[r][Hash[r][key]]

\* What the sketch c and the candidates f say of the accesses n, where l are the keys
\* that were left out: the lists lie between the accesses and the cells; what is not
\* listed has no more than what is, and nothing if there is room.
Sound(c, f, n, l) ==
  /\ c \in [Rows -> [Cols -> Nat]] /\ n \in [Keys -> Nat] /\ l \subseteq Keys
  /\ DOMAIN f \subseteq Keys /\ f \in [DOMAIN f -> Nat]
  /\ IsFiniteSet(DOMAIN f) /\ Cardinality(DOMAIN f) <= k
  /\ \A key \in Keys, r \in Rows : n[key] <= Cell(c, r, key)
  /\ \A key \in DOMAIN f : n[key] <= f[key] /\ \A r \in Rows : f[key] <= Cell(c, r, key)
  /\ \A key \in Keys \ (DOMAIN f \cup l) :
       /\ \A x \in DOMAIN f : n[key] <= f[x]
       /\ Cardinality(DOMAIN f) < k => n[key] = 0

IInv == Sound(cells, tracked, counts, left) /\ k \in 1..MaxK /\ decayed \in Nat

-----------------------------------------------------------------------------
(* The sketch. *)

LEMMA HashType == \A r \in Rows, key \in Keys : Hash[r][key] \in Cols
  BY HeavyHittersAssumption

\* The estimate is the least of the cells of the key.
LEMMA EstimateFacts ==
  ASSUME NEW c \in [Rows -> [Cols -> Nat]], NEW key \in Keys
  PROVE  /\ Estimate(c, key) \in Nat
         /\ \A r \in Rows : Estimate(c, key) <= Cell(c, r, key)
         /\ \E r \in Rows : Estimate(c, key) = Cell(c, r, key)
<1> DEFINE S == {c[r][Hash[r][key]] : r \in Rows}
<1>1. \A r \in Rows : c[r][Hash[r][key]] \in Nat
  BY HashType
<1>2. S \in SUBSET Nat /\ S # {}
  BY <1>1, HeavyHittersAssumption
<1>3. \E x \in S : \A y \in S : x <= y
  <2> HIDE DEF S
  <2>1. PICK x \in S : \A y \in S : ~(<<y, x>> \in OpToRel(<, Nat))
    BY <1>2, WFMin, NatLessThanWellFounded, Zenon
  <2>2. \A y \in S : ~(y < x)
    BY <1>2, <2>1, Zenon DEF OpToRel
  <2> QED
    BY <1>2, <2>2
<1>4. Min(S) \in S /\ \A y \in S : Min(S) <= y
  BY <1>3 DEF Min
<1>5. Estimate(c, key) = Min(S)
  BY DEF Estimate
<1> QED
  BY <1>1, <1>4, <1>5 DEF Cell

\* One more in one place of a row.
LEMMA RowFacts ==
  ASSUME NEW f \in [Cols -> Nat], NEW i \in Cols
  PROVE  /\ [f EXCEPT ![i] = @ + 1] \in [Cols -> Nat]
         /\ \A j \in Cols : [f EXCEPT ![i] = @ + 1][j] = IF j = i THEN f[i] + 1 ELSE f[j]
  OBVIOUS

\* add makes the cells of its key grow by one, and none shrink.
LEMMA AddedFacts ==
  ASSUME NEW c \in [Rows -> [Cols -> Nat]], NEW key \in Keys
  PROVE  /\ Added(c, key) \in [Rows -> [Cols -> Nat]]
         /\ \A r \in Rows : Cell(Added(c, key), r, key) = Cell(c, r, key) + 1
         /\ \A r \in Rows, x \in Keys : Cell(c, r, x) <= Cell(Added(c, key), r, x)
<1>1. \A r \in Rows :
        /\ Added(c, key)[r] \in [Cols -> Nat]
        /\ \A j \in Cols :
             Added(c, key)[r][j] = IF j = Hash[r][key] THEN c[r][j] + 1 ELSE c[r][j]
  <2> TAKE r \in Rows
  <2>1. c[r] \in [Cols -> Nat] /\ Hash[r][key] \in Cols
    BY HashType
  <2>2. Added(c, key)[r] = [c[r] EXCEPT ![Hash[r][key]] = @ + 1]
    BY DEF Added
  <2> QED
    BY <2>1, <2>2, RowFacts
<1>2. Added(c, key) \in [Rows -> [Cols -> Nat]]
  BY <1>1 DEF Added
<1>3. \A r \in Rows : Cell(Added(c, key), r, key) = Cell(c, r, key) + 1
  BY <1>1, HashType DEF Cell
<1>4. \A r \in Rows, x \in Keys : Cell(c, r, x) <= Cell(Added(c, key), r, x)
  <2> TAKE r \in Rows, x \in Keys
  <2>1. Hash[r][x] \in Cols /\ c[r][Hash[r][x]] \in Nat
    BY HashType
  <2> QED
    BY <1>1, <2>1 DEF Cell
<1> QED
  BY <1>2, <1>3, <1>4

\* The cells are numbers.
LEMMA CellType ==
  ASSUME NEW c \in [Rows -> [Cols -> Nat]]
  PROVE  \A r \in Rows, key \in Keys : Cell(c, r, key) \in Nat
  BY HashType DEF Cell

-----------------------------------------------------------------------------
(* The decay. *)

LEMMA HalfFacts ==
  /\ \A x \in Nat : Half(x) \in Nat
  /\ \A x, y \in Nat : x <= y => Half(x) <= Half(y)
  BY DEF Half

\* What was sound before a decay is so after it: a candidate that is dropped had one
\* access at most, and so had all that were not listed.
LEMMA DecaySound ==
  ASSUME NEW t \in Nat, k \in Nat, Sound(cells, tracked, counts, left)
  PROVE  /\ Sound(CellsAfter(t), CandidatesAfter(t), CountsAfter(t), left)
         /\ DOMAIN CandidatesAfter(t) \subseteq Candidates
<1>1. CASE ~Due(t)
  BY <1>1 DEF CellsAfter, CandidatesAfter, CountsAfter, Candidates
<1>2. CASE Due(t)
  <2> DEFINE c == CellsAfter(t)
             f == CandidatesAfter(t)
             n == CountsAfter(t)
             D == {x \in Candidates : Half(tracked[x]) > 0}
  <2>1. /\ c = [r \in Rows |-> [i \in Cols |-> Half(cells[r][i])]]
        /\ f = [key \in D |-> Half(tracked[key])]
        /\ n = [key \in Keys |-> Half(counts[key])]
    BY <1>2 DEF CellsAfter, CandidatesAfter, CountsAfter
  <2>2. /\ cells \in [Rows -> [Cols -> Nat]] /\ counts \in [Keys -> Nat]
        /\ tracked \in [Candidates -> Nat] /\ Candidates \subseteq Keys /\ left \subseteq Keys
        /\ IsFiniteSet(Candidates) /\ Cardinality(Candidates) <= k
    BY DEF Sound, Candidates
  <2> HIDE DEF c, f, n
  <2>3. c \in [Rows -> [Cols -> Nat]] /\ n \in [Keys -> Nat]
    BY <2>1, <2>2, HalfFacts
  <2>4. DOMAIN f = D /\ D \subseteq Candidates /\ f \in [D -> Nat]
    BY <2>1, <2>2, HalfFacts
  <2>5. IsFiniteSet(D) /\ Cardinality(D) <= Cardinality(Candidates)
        /\ (Cardinality(D) = Cardinality(Candidates) => D = Candidates)
    BY <2>2, FS_Subset
  <2>6. Cardinality(D) \in Nat /\ Cardinality(Candidates) \in Nat
    BY <2>2, <2>5, FS_CardinalityType
  <2>7. \A key \in Keys, r \in Rows : Cell(c, r, key) = Half(Cell(cells, r, key))
    BY <2>1, HashType DEF Cell
  <2>8. \A key \in Keys, r \in Rows : Cell(cells, r, key) \in Nat
    BY <2>2, CellType
  <2>9. \A key \in Keys, r \in Rows : n[key] <= Cell(c, r, key)
    <3> TAKE key \in Keys, r \in Rows
    <3>1. counts[key] <= Cell(cells, r, key) /\ counts[key] \in Nat
      BY <2>2 DEF Sound
    <3> QED
      BY <2>1, <2>7, <2>8, <3>1, HalfFacts
  <2>10. \A key \in D : n[key] <= f[key] /\ \A r \in Rows : f[key] <= Cell(c, r, key)
    <3> TAKE key \in D
    <3>1. /\ counts[key] <= tracked[key] /\ counts[key] \in Nat /\ tracked[key] \in Nat
          /\ \A r \in Rows : tracked[key] <= Cell(cells, r, key)
      BY <2>2 DEF Sound, Candidates
    <3>2. key \in Keys /\ n[key] = Half(counts[key]) /\ f[key] = Half(tracked[key])
      BY <2>1, <2>2
    <3> QED
      BY <2>7, <2>8, <3>1, <3>2, HalfFacts
  <2>11. \A key \in Keys \ (D \cup left) :
           /\ \A x \in D : n[key] <= f[x]
           /\ Cardinality(D) < k => n[key] = 0
    <3> TAKE key \in Keys \ (D \cup left)
    <3>1. counts[key] \in Nat /\ n[key] = Half(counts[key])
      BY <2>1, <2>2
    <3>2. CASE key \in Candidates
      <4>1. counts[key] <= tracked[key] /\ tracked[key] \in Nat
        BY <2>2, <3>2 DEF Sound, Candidates
      <4>2. ~(Half(tracked[key]) > 0)
        BY <3>2
      <4>3. n[key] = 0
        BY <3>1, <4>1, <4>2, HalfFacts
      <4> QED
        BY <2>4, <4>3
    <3>3. CASE key \notin Candidates
      <4>1. /\ \A x \in Candidates : counts[key] <= tracked[x]
            /\ Cardinality(Candidates) < k => counts[key] = 0
        BY <3>3 DEF Sound, Candidates
      <4>2. \A x \in D : n[key] <= f[x]
        <5> TAKE x \in D
        <5>1. counts[key] <= tracked[x] /\ tracked[x] \in Nat /\ f[x] = Half(tracked[x])
          BY <2>1, <2>2, <4>1
        <5> QED
          BY <3>1, <5>1, HalfFacts
      <4>3. ASSUME Cardinality(D) < k PROVE n[key] = 0
        <5>1. CASE Cardinality(Candidates) < k
          BY <3>1, <4>1, <5>1 DEF Half
        <5>2. CASE Cardinality(Candidates) = k
          <6>1. PICK x \in Candidates : x \notin D
            BY <2>4, <4>3, <5>2
          <6>2. ~(Half(tracked[x]) > 0) /\ counts[key] <= tracked[x] /\ tracked[x] \in Nat
            BY <2>2, <4>1, <6>1
          <6> QED
            BY <3>1, <6>2, HalfFacts
        <5> QED
          BY <2>2, <2>6, <5>1, <5>2
      <4> QED
        BY <4>2, <4>3
    <3> QED
      BY <3>2, <3>3
  <2> QED
    <3>1. Cardinality(D) <= k
      BY <2>2, <2>5, <2>6
    <3>2. Sound(c, f, n, left)
      BY <2>2, <2>3, <2>4, <2>5, <2>9, <2>10, <2>11, <3>1 DEF Sound
    <3> QED
      BY <2>4, <3>2 DEF c, f, n
<1> QED
  BY <1>1, <1>2
-----------------------------------------------------------------------------
(* The calls. *)

\* What Sound says of each key, for use in the steps.
LEMMA SoundFacts ==
  ASSUME NEW c, NEW f, NEW n, NEW l, Sound(c, f, n, l), k \in Nat
  PROVE  /\ Cardinality(DOMAIN f) \in Nat
         /\ \A key \in Keys : n[key] \in Nat
         /\ \A key \in DOMAIN f : key \in Keys /\ f[key] \in Nat
         /\ \A key \in Keys, r \in Rows : Cell(c, r, key) \in Nat
  BY FS_CardinalityType, CellType DEF Sound

\* record: a key that is let in has at least the accesses of the one it replaces, and
\* one that is not has no more than the least.
LEMMA RecordSound ==
  ASSUME NEW c, NEW f, NEW n, NEW l, Sound(c, f, n, l), k \in Nat \ {0},
         NEW key \in Keys, Enters(f, key, Estimate(Added(c, key), key))
  PROVE  Sound(Added(c, key), tracked', [n EXCEPT ![key] = @ + 1], l \ {key})
<1> DEFINE D == DOMAIN f
           c2 == Added(c, key)
           n2 == [n EXCEPT ![key] = @ + 1]
           est == Estimate(c2, key)
<1>1. /\ c \in [Rows -> [Cols -> Nat]] /\ n \in [Keys -> Nat] /\ l \subseteq Keys
      /\ D \subseteq Keys /\ f \in [D -> Nat] /\ IsFiniteSet(D) /\ Cardinality(D) <= k
  BY DEF Sound
<1>2. /\ Cardinality(D) \in Nat
      /\ \A x \in Keys : n[x] \in Nat
      /\ \A x \in D : x \in Keys /\ f[x] \in Nat
      /\ \A x \in Keys, r \in Rows : Cell(c, r, x) \in Nat
  BY SoundFacts
<1>3. c2 \in [Rows -> [Cols -> Nat]]
  BY <1>1, AddedFacts
<1>4. \A x \in Keys, r \in Rows : Cell(c2, r, x) \in Nat /\ Cell(c, r, x) <= Cell(c2, r, x)
  BY <1>1, <1>3, AddedFacts, CellType
<1>5. /\ n2 \in [Keys -> Nat] /\ n2[key] = n[key] + 1
      /\ \A x \in Keys \ {key} : n2[x] = n[x]
  BY <1>1
<1>6. \A x \in Keys, r \in Rows : n2[x] <= Cell(c2, r, x)
  <2> TAKE x \in Keys, r \in Rows
  <2>1. n[x] <= Cell(c, r, x)
    BY DEF Sound
  <2>2. Cell(c2, r, key) = Cell(c, r, key) + 1
    BY <1>1, AddedFacts
  <2> QED
    BY <1>2, <1>4, <1>5, <2>1, <2>2
<1>7. /\ est \in Nat /\ \A r \in Rows : est <= Cell(c2, r, key)
      /\ \E r \in Rows : est = Cell(c2, r, key)
  BY <1>3, EstimateFacts
<1>8. n2[key] <= est
  BY <1>6, <1>7
<1>9. \A x \in D : n[x] <= f[x] /\ \A r \in Rows : f[x] <= Cell(c2, r, x)
  BY <1>2, <1>4 DEF Sound
<1>10. \A y \in Keys \ (D \cup l) :
         /\ \A x \in D : n[y] <= f[x]
         /\ Cardinality(D) < k => n[y] = 0
  BY DEF Sound
<1>11. key \in D => f[key] <= est
  BY <1>7, <1>9
<1> HIDE DEF c2, n2, est
<1>12. CASE (key \in D \/ Cardinality(D) < k) /\ tracked' = With(f, key, est)
  <2>1. /\ DOMAIN tracked' = D \cup {key} /\ tracked' \in [DOMAIN tracked' -> Nat]
        /\ tracked'[key] = est /\ \A x \in D \ {key} : tracked'[x] = f[x]
    BY <1>1, <1>7, <1>12 DEF With
  <2>2. /\ IsFiniteSet(D \cup {key})
        /\ Cardinality(D \cup {key}) = IF key \in D THEN Cardinality(D) ELSE Cardinality(D) + 1
    BY <1>1, FS_AddElement
  <2>3. \A x \in DOMAIN tracked' :
          n2[x] <= tracked'[x] /\ \A r \in Rows : tracked'[x] <= Cell(c2, r, x)
    BY <1>1, <1>5, <1>7, <1>8, <1>9, <2>1
  <2>4. \A y \in Keys \ (DOMAIN tracked' \cup (l \ {key})) :
          /\ \A x \in DOMAIN tracked' : n2[y] <= tracked'[x]
          /\ Cardinality(DOMAIN tracked') < k => n2[y] = 0
    <3> TAKE y \in Keys \ (DOMAIN tracked' \cup (l \ {key}))
    <3>1. y \in Keys \ (D \cup l) /\ y # key /\ n2[y] = n[y]
      BY <1>5, <2>1
    <3>2. /\ \A x \in D : n[y] <= f[x]
          /\ Cardinality(D) < k => n[y] = 0
      BY <1>10, <3>1
    <3>3. n[y] <= est
      <4>1. CASE key \in D
        BY <1>2, <1>7, <1>11, <3>1, <3>2, <4>1
      <4>2. CASE Cardinality(D) < k
        BY <1>7, <3>2, <4>2
      <4> QED
        BY <1>12, <4>1, <4>2
    <3> QED
      BY <1>1, <1>2, <2>1, <2>2, <3>1, <3>2, <3>3
  <2>5. Cardinality(DOMAIN tracked') <= k
    BY <1>1, <1>2, <1>12, <2>1, <2>2
  <2> QED
    BY <1>1, <1>3, <1>5, <1>6, <2>1, <2>2, <2>3, <2>4, <2>5 DEF Sound, c2, n2
<1>13. ASSUME key \notin D, Cardinality(D) >= k, NEW x \in D, \A y \in D : f[x] <= f[y],
              tracked' = IF est > f[x] THEN With(Only(f, D \ {x}), key, est) ELSE f
       PROVE  Sound(c2, tracked', n2, l \ {key})
  <2>1. Cardinality(D) = k
    BY <1>1, <1>2, <1>13
  <2>2. CASE est > f[x]
    <3> DEFINE E == (D \ {x}) \cup {key}
    <3>1. /\ DOMAIN tracked' = E /\ tracked' \in [E -> Nat]
          /\ tracked'[key] = est /\ \A y \in D \ {x} : tracked'[y] = f[y]
      BY <1>1, <1>7, <1>13, <2>2 DEF With, Only
    <3>2. IsFiniteSet(D \ {x}) /\ Cardinality(D \ {x}) = Cardinality(D) - 1
      BY <1>1, FS_RemoveElement
    <3>3. IsFiniteSet(E) /\ Cardinality(E) = k
      <4>1. key \notin D \ {x}
        BY <1>13
      <4>2. IsFiniteSet(E) /\ Cardinality(E) = Cardinality(D \ {x}) + 1
        BY <3>2, <4>1, FS_AddElement
      <4> QED
        BY <1>2, <2>1, <3>2, <4>2
    <3>4. \A y \in E :
            n2[y] <= tracked'[y] /\ \A r \in Rows : tracked'[y] <= Cell(c2, r, y)
      BY <1>1, <1>5, <1>7, <1>8, <1>9, <1>13, <3>1
    <3>5. \A y \in Keys \ (E \cup (l \ {key})) : \A z \in E : n2[y] <= tracked'[z]
      <4> TAKE y \in Keys \ (E \cup (l \ {key}))
      <4>1. y # key /\ n2[y] = n[y] /\ n[y] \in Nat
        BY <1>2, <1>5
      <4>2. n[y] <= f[x]
        BY <1>9, <1>10, <4>1
      <4>3. \A z \in D : n[y] <= f[z]
        BY <1>2, <1>13, <4>1, <4>2
      <4> QED
        BY <1>2, <1>7, <2>2, <3>1, <4>1, <4>2, <4>3
    <3>6. E \subseteq Keys /\ l \ {key} \subseteq Keys /\ ~(Cardinality(E) < k) /\ Cardinality(E) <= k
      BY <1>1, <3>3
    <3> HIDE DEF E
    <3> QED
      BY <1>3, <1>5, <1>6, <3>1, <3>3, <3>4, <3>5, <3>6 DEF Sound
  <2>3. CASE ~(est > f[x])
    <3>1. tracked' = f
      BY <1>13, <2>3
    <3>2. \A y \in D : n2[y] <= f[y] /\ \A r \in Rows : f[y] <= Cell(c2, r, y)
      BY <1>1, <1>5, <1>9, <1>13
    <3>3. \A y \in Keys \ (D \cup (l \ {key})) : \A z \in D : n2[y] <= f[z]
      <4> TAKE y \in Keys \ (D \cup (l \ {key}))
      <4> TAKE z \in D
      <4>1. CASE y = key
        BY <1>2, <1>5, <1>7, <1>8, <1>13, <2>3, <4>1
      <4>2. CASE y # key
        BY <1>5, <1>10, <4>2
      <4> QED
        BY <4>1, <4>2
    <3> QED
      BY <1>1, <1>2, <1>3, <1>5, <1>6, <2>1, <3>1, <3>2, <3>3 DEF Sound
  <2> QED
    BY <2>2, <2>3
<1>14. \/ (key \in D \/ Cardinality(D) < k) /\ tracked' = With(f, key, est)
       \/ /\ key \notin D /\ Cardinality(D) >= k
          /\ \E x \in D : /\ \A y \in D : f[x] <= f[y]
                          /\ tracked' = IF est > f[x] THEN With(Only(f, D \ {x}), key, est) ELSE f
  BY DEF Enters, est, c2
<1> QED
  BY <1>12, <1>13, <1>14 DEF c2, n2
\* top_k: what a candidate is listed with only grows.
LEMMA TopKSound ==
  ASSUME NEW c, NEW f, NEW n, NEW l, Sound(c, f, n, l), k \in Nat
  PROVE  Sound(c, [key \in DOMAIN f |-> Estimate(c, key)], n, l)
<1> DEFINE D == DOMAIN f
           g == [key \in D |-> Estimate(c, key)]
<1>1. /\ c \in [Rows -> [Cols -> Nat]] /\ n \in [Keys -> Nat] /\ l \subseteq Keys
      /\ D \subseteq Keys /\ IsFiniteSet(D) /\ Cardinality(D) <= k
      /\ \A key \in Keys, r \in Rows : n[key] <= Cell(c, r, key)
  BY DEF Sound
<1>2. \A key \in D :
        /\ Estimate(c, key) \in Nat
        /\ \A r \in Rows : Estimate(c, key) <= Cell(c, r, key)
        /\ \E r \in Rows : Estimate(c, key) = Cell(c, r, key)
  BY <1>1, EstimateFacts
<1>3. DOMAIN g = D /\ g \in [D -> Nat] /\ \A key \in D : g[key] = Estimate(c, key)
  BY <1>2
<1>4. \A key \in D : n[key] <= g[key] /\ \A r \in Rows : g[key] <= Cell(c, r, key)
  BY <1>1, <1>2, <1>3
<1>5. \A key \in D : f[key] \in Nat /\ f[key] <= g[key]
  BY <1>2, <1>3, SoundFacts DEF Sound
<1>6. \A key \in Keys \ (D \cup l) :
        /\ \A x \in D : n[key] <= g[x]
        /\ Cardinality(D) < k => n[key] = 0
  <2> TAKE key \in Keys \ (D \cup l)
  <2>1. /\ n[key] \in Nat /\ \A x \in D : n[key] <= f[x]
        /\ Cardinality(D) < k => n[key] = 0
    BY <1>1 DEF Sound
  <2> QED
    BY <1>3, <1>5, <2>1
<1> HIDE DEF g
<1>7. Sound(c, g, n, l)
  BY <1>1, <1>3, <1>4, <1>6 DEF Sound
<1> QED
  BY <1>7 DEF g

\* Some of the candidates as they are.
LEMMA OnlyFacts ==
  ASSUME NEW f, NEW S \in SUBSET (DOMAIN f), IsFiniteSet(DOMAIN f)
  PROVE  /\ DOMAIN Only(f, S) = S /\ \A x \in S : Only(f, S)[x] = f[x]
         /\ IsFiniteSet(S) /\ Cardinality(S) \in Nat
  BY FS_Subset, FS_CardinalityType DEF Only

-----------------------------------------------------------------------------
(* The invariant. *)

LEMMA InitSound == HittersInit => IInv
<1> SUFFICES ASSUME HittersInit PROVE IInv
  OBVIOUS
<1>1. cells \in [Rows -> [Cols -> Nat]] /\ \A r \in Rows, key \in Keys : Cell(cells, r, key) = 0
  BY HashType DEF HittersInit, Blank, Cell
<1>2. DOMAIN tracked = {} /\ tracked \in [{} -> Nat] /\ k \in 1..MaxK /\ k \in Nat \ {0}
  BY HeavyHittersAssumption DEF HittersInit
<1> QED
  BY <1>1, <1>2, FS_EmptySet DEF IInv, Sound, HittersInit

LEMMA StepSound == IInv /\ [HittersNext]_hitters => IInv'
<1> SUFFICES ASSUME IInv, [HittersNext]_hitters PROVE IInv'
  OBVIOUS
<1> USE DEF IInv
<1>1. k \in Nat \ {0} /\ k \in 1..MaxK
  BY HeavyHittersAssumption
<1>2. ASSUME NEW t \in Nat
      PROVE  /\ Sound(CellsAfter(t), CandidatesAfter(t), CountsAfter(t), left)
             /\ DecayedAfter(t) \in Nat
  BY <1>1, DecaySound DEF DecayedAfter
<1>3. ASSUME NEW t \in Nat, NEW key \in Keys, HittersRecord(key, t) PROVE IInv'
  <2>1. Sound(CellsAfter(t), CandidatesAfter(t), CountsAfter(t), left)
    BY <1>2
  <2>2. Enters(CandidatesAfter(t), key, Estimate(Added(CellsAfter(t), key), key))
    BY <1>3 DEF HittersRecord
  <2>3. Sound(Added(CellsAfter(t), key), tracked',
              [CountsAfter(t) EXCEPT ![key] = @ + 1], left \ {key})
    BY <1>1, <2>1, <2>2, RecordSound
  <2> QED
    BY <1>1, <1>2, <1>3, <2>3 DEF HittersRecord, Sound
<1>4. ASSUME NEW t \in Nat, TopK(t) PROVE IInv'
  <2>1. Sound(CellsAfter(t),
              [key \in DOMAIN CandidatesAfter(t) |-> Estimate(CellsAfter(t), key)],
              CountsAfter(t), left)
    BY <1>1, <1>2, TopKSound
  <2> QED
    BY <1>1, <1>2, <1>4, <2>1 DEF TopK, Sound
<1>5. ASSUME NEW t \in Nat, HittersReset(t) PROVE IInv'
  <2>1. cells' \in [Rows -> [Cols -> Nat]] /\ \A r \in Rows, key \in Keys : Cell(cells', r, key) = 0
    BY <1>5, HashType DEF HittersReset, Blank, Cell
  <2>2. DOMAIN tracked' = {} /\ tracked' \in [{} -> Nat]
    BY <1>5 DEF HittersReset
  <2> QED
    BY <1>1, <1>5, <2>1, <2>2, FS_EmptySet DEF Sound, HittersReset
<1>6. ASSUME NEW key \in Keys, HittersForget(key) PROVE IInv'
  <2> DEFINE E == Candidates \ {key}
  <2>1. /\ Candidates \subseteq Keys /\ IsFiniteSet(Candidates) /\ Cardinality(Candidates) <= k
        /\ tracked \in [Candidates -> Nat] /\ cells \in [Rows -> [Cols -> Nat]]
        /\ counts \in [Keys -> Nat] /\ left \subseteq Keys
    BY DEF Sound, Candidates
  <2>2. tracked' = Only(tracked, E)
    BY <1>6, <2>1 DEF HittersForget, Only, Candidates
  <2>3. /\ DOMAIN tracked' = E /\ \A x \in E : tracked'[x] = tracked[x]
        /\ IsFiniteSet(E) /\ Cardinality(E) \in Nat
    BY <2>1, <2>2, OnlyFacts DEF Candidates
  <2>4. tracked' \in [E -> Nat]
    BY <2>1, <2>2, <2>3 DEF Only, Candidates
  <2>5. Cardinality(E) <= k /\ (key \notin Candidates => E = Candidates)
    <3>1. E \subseteq Candidates
      OBVIOUS
    <3>2. Cardinality(E) <= Cardinality(Candidates) /\ Cardinality(Candidates) \in Nat
      BY <2>1, <3>1, FS_Subset, FS_CardinalityType
    <3>3. k \in Nat
      BY <1>1 DEF Sound
    <3> QED
      BY <2>1, <2>3, <3>2, <3>3
  <2>6. /\ counts' = [counts EXCEPT ![key] = 0] /\ counts' \in [Keys -> Nat] /\ counts'[key] = 0
        /\ \A x \in Keys \ {key} : counts'[x] = counts[x]
    BY <1>6, <2>1 DEF HittersForget
  <2>7. cells' = cells /\ k' = k /\ decayed' = decayed
    BY <1>6 DEF HittersForget
  <2>8. \A x \in Keys, r \in Rows : counts'[x] <= Cell(cells, r, x)
    <3>1. \A x \in Keys, r \in Rows : counts[x] <= Cell(cells, r, x) /\ Cell(cells, r, x) \in Nat
      BY <1>1, SoundFacts DEF Sound
    <3> QED
      BY <2>6, <3>1
  <2>9. \A x \in E :
          counts'[x] <= tracked'[x] /\ \A r \in Rows : tracked'[x] <= Cell(cells, r, x)
    BY <2>1, <2>3, <2>6 DEF Sound, Candidates
  <2>10. left' \subseteq Keys /\ left \subseteq left'
         /\ (key \in Candidates => Keys \ Candidates \subseteq left')
    BY <1>6, <2>1 DEF HittersForget
  <2>11. \A y \in Keys \ (E \cup left') :
           /\ \A x \in E : counts'[y] <= tracked'[x]
           /\ Cardinality(E) < k => counts'[y] = 0
    <3> TAKE y \in Keys \ (E \cup left')
    <3>1. CASE y = key
      BY <1>1, <2>1, <2>3, <2>6, <3>1
    <3>2. CASE y # key
      <4>1. key \notin Candidates /\ E = Candidates /\ y \in Keys \ (Candidates \cup left)
        BY <2>5, <2>10, <3>2
      <4> QED
        BY <2>3, <2>6, <3>2, <4>1 DEF Sound, Candidates
    <3> QED
      BY <3>1, <3>2
  <2> HIDE DEF E
  <2>12. E \subseteq Keys
    BY <2>1 DEF E
  <2>13. Sound(cells, tracked', counts', left')
    BY <2>1, <2>3, <2>4, <2>5, <2>6, <2>8, <2>9, <2>10, <2>11, <2>12 DEF Sound
  <2> QED
    BY <1>1, <2>7, <2>13 DEF Sound
<1>7. ASSUME NEW m \in 1..MaxK, HittersResize(m) PROVE IInv'
  <2>1. PICK S \in SUBSET Candidates :
          /\ Cardinality(Candidates) <= m => S = Candidates
          /\ Cardinality(Candidates) > m => Cardinality(S) = m
          /\ \A x \in S : \A y \in Candidates \ S : tracked[y] <= tracked[x]
          /\ tracked' = Only(tracked, S)
    BY <1>7 DEF HittersResize
  <2>2. /\ Candidates \subseteq Keys /\ IsFiniteSet(Candidates) /\ Cardinality(Candidates) <= k
        /\ tracked \in [Candidates -> Nat] /\ cells \in [Rows -> [Cols -> Nat]]
        /\ counts \in [Keys -> Nat] /\ left \subseteq Keys
    BY DEF Sound, Candidates
  <2>3. /\ DOMAIN tracked' = S /\ \A x \in S : tracked'[x] = tracked[x]
        /\ IsFiniteSet(S) /\ Cardinality(S) \in Nat
    BY <2>1, <2>2, OnlyFacts DEF Candidates
  <2>4. tracked' \in [S -> Nat]
    BY <2>1, <2>2, <2>3 DEF Only, Candidates
  <2>5. /\ k' = m /\ cells' = cells /\ decayed' = decayed /\ counts' = counts
        /\ left' \subseteq Keys /\ left \subseteq left'
        /\ m > k => Keys \ Candidates \subseteq left'
    BY <1>7, <2>2 DEF HittersResize
  <2>6. Cardinality(Candidates) \in Nat /\ m \in Nat
    BY <2>2, FS_CardinalityType
  <2>7. Cardinality(S) <= m
    BY <2>1, <2>6
  <2>8. \A x \in S :
          counts[x] <= tracked'[x] /\ \A r \in Rows : tracked'[x] <= Cell(cells, r, x)
    BY <2>1, <2>3 DEF Sound, Candidates
  <2>9. \A y \in Keys \ (S \cup left') :
          /\ \A x \in S : counts[y] <= tracked'[x]
          /\ Cardinality(S) < m => counts[y] = 0
    <3> TAKE y \in Keys \ (S \cup left')
    <3>1. counts[y] \in Nat /\ \A x \in Candidates : tracked[x] \in Nat
      BY <2>2
    <3>2. CASE y \in Candidates
      <4>1. counts[y] <= tracked[y]
        BY <3>2 DEF Sound, Candidates
      <4>2. \A x \in S : tracked[y] <= tracked[x]
        BY <2>1, <3>2
      <4>3. Cardinality(S) = m
        BY <2>1, <2>6, <3>2
      <4> QED
        BY <2>1, <2>3, <2>6, <3>1, <3>2, <4>1, <4>2, <4>3
    <3>3. CASE y \notin Candidates
      <4>1. m <= k /\ y \in Keys \ (Candidates \cup left)
        BY <1>1, <2>5, <2>6, <3>3
      <4>2. /\ \A x \in Candidates : counts[y] <= tracked[x]
            /\ Cardinality(Candidates) < k => counts[y] = 0
        BY <4>1 DEF Sound, Candidates
      <4>3. Cardinality(S) < m => S = Candidates /\ Cardinality(S) < k
        BY <1>1, <2>1, <2>3, <2>6, <4>1
      <4> QED
        BY <2>1, <2>3, <4>2, <4>3
    <3> QED
      BY <3>2, <3>3
  <2>10. S \subseteq Keys
    BY <2>1, <2>2
  <2> QED
    BY <1>7, <2>2, <2>3, <2>4, <2>5, <2>7, <2>8, <2>9, <2>10 DEF Sound
<1>8. CASE UNCHANGED hitters
  BY <1>8 DEF hitters, Sound
<1> QED
  BY <1>3, <1>4, <1>5, <1>6, <1>7, <1>8 DEF HittersNext

-----------------------------------------------------------------------------
(* The theorems. *)

\* The inductive invariant holds.
LEMMA AlwaysSound == HittersSpec => []IInv
  BY InitSound, StepSound, PTL DEF HittersSpec

\* In every state the variables have their types.
THEOREM HittersTypesHold == HittersSpec => []HittersTypeOK
<1>1. IInv => HittersTypeOK
  BY DEF IInv, Sound, HittersTypeOK, Candidates
<1> QED
  BY <1>1, AlwaysSound, PTL

\* However the hashing collides and whenever counts are halved, the sketch never gives
\* a key fewer accesses than it had, and what the candidates are listed with neither.
THEOREM SketchNeverUndercounts == HittersSpec => []NeverUndercounts
<1>1. IInv => NeverUndercounts
  <2> SUFFICES ASSUME IInv PROVE NeverUndercounts
    OBVIOUS
  <2>1. /\ cells \in [Rows -> [Cols -> Nat]] /\ Candidates \subseteq Keys
        /\ \A key \in Keys, r \in Rows : counts[key] <= Cell(cells, r, key)
        /\ \A key \in Candidates :
             counts[key] <= tracked[key] /\ \A r \in Rows : tracked[key] <= Cell(cells, r, key)
    BY DEF IInv, Sound, Candidates
  <2>2. \A key \in Keys : \E r \in Rows : Estimate(cells, key) = Cell(cells, r, key)
    BY <2>1, EstimateFacts
  <2> QED
    BY <2>1, <2>2 DEF NeverUndercounts
<1> QED
  BY <1>1, AlwaysSound, PTL

\* A key that is no candidate has no more accesses than any candidate is listed with,
\* but for those that were out when a place was made free.
THEOREM HeaviestAreCandidates == HittersSpec => []HeaviestAreListed
<1>1. IInv => HeaviestAreListed
  BY DEF IInv, Sound, HeaviestAreListed, Candidates
<1> QED
  BY <1>1, AlwaysSound, PTL

-----------------------------------------------------------------------------
(* The tracker among the observers. *)

\* The clock is a number of any size.
ClockOK == now \in Nat

LEMMA ClockStep ==
  ASSUME ClockOK, [Next]_vars
  PROVE  ClockOK'
<1>1. CASE UNCHANGED vars
  BY <1>1 DEF vars, ClockOK
<1>2. ASSUME NEW gap \in Gaps, Tick(gap) PROVE ClockOK'
  BY <1>2, ObserversAssumption DEF Tick, ClockOK
<1>3. CASE UNCHANGED now
  BY <1>3 DEF ClockOK
<1> QED
  BY <1>1, <1>2, <1>3
  DEF Next, Read, Write, Delete, Report, Resize, Bound, Switch, Reset, Restart, Limiter

\* A step of the composition is one of the tracker, at the clock, or none.
LEMMA TrackerStep ==
  ASSUME ClockOK, [Next]_vars
  PROVE  [HittersNext]_hitters
<1> USE DEF Hitters, ClockOK
<1>1. CASE UNCHANGED hitters
  BY <1>1
<1>2. ASSUME NEW key \in Keys, NEW hit \in BOOLEAN, Read(key, hit)
      PROVE  [HittersNext]_hitters
  BY <1>2 DEF Read, HittersNext
<1>3. ASSUME NEW key \in Keys, Delete(key) PROVE [HittersNext]_hitters
  BY <1>3 DEF Delete, HittersNext
<1>4. ASSUME Report PROVE [HittersNext]_hitters
  BY <1>4 DEF Report, HittersNext
<1>5. ASSUME NEW m \in 1..MaxK, Resize(m) PROVE [HittersNext]_hitters
  BY <1>5 DEF Resize, HittersNext
<1>6. ASSUME Reset \/ Restart PROVE [HittersNext]_hitters
  BY <1>6 DEF Reset, Restart, HittersNext
<1>7. CASE UNCHANGED vars
  BY <1>7 DEF vars
<1>8. ASSUME \/ \E key \in Keys, base \in Bases \cup {None} : Write(key, base)
             \/ \E gap \in Gaps : Tick(gap)
             \/ \E m \in Limits : Bound(m)
             \/ Switch \/ Limiter
      PROVE  UNCHANGED hitters
  BY <1>8 DEF Write, Tick, Bound, Switch, Limiter
<1> QED
  BY <1>1, <1>2, <1>3, <1>4, <1>5, <1>6, <1>7, <1>8 DEF Next

\* Whatever the order in which the accesses, the reports, the changes of settings and
\* the restarts of the store reach its observers, the tracker behaves as HeavyHitters.
THEOREM ObserversImplementHitters == Spec => HittersSpec
<1>1. Init => HittersInit /\ ClockOK
  BY ObserversAssumption DEF Init, ClockOK, Window
<1>2. ClockOK /\ [Next]_vars => ClockOK' /\ [HittersNext]_hitters
  BY ClockStep, TrackerStep
<1> QED
  BY <1>1, <1>2, PTL DEF Spec, HittersSpec

\* So the sketch undercounts no key of the store, and the heaviest keys are listed.
THEOREM StoreNeverUndercounts == Spec => [](NeverUndercounts /\ HeaviestAreListed)
  BY ObserversImplementHitters, SketchNeverUndercounts, HeaviestAreCandidates, PTL
-----------------------------------------------------------------------------
(* A token bucket: what it has, and what it has granted. *)

\* No limits of L are above the rate h and the burst c; none are below them.
Above(L, h, c) == \A p \in L : p[1] <= h /\ p[2] <= c
Below(L, h, c) == \A p \in L : h <= p[1] /\ c <= p[2]

\* The bucket b, the times gs of its grants, the refusal r that no grant has followed,
\* and the limits L it has had fit each other at time t: tokens that are left and
\* grants add up to no more than the budget, and to no less.
Spent(b, gs, h, c) ==
  \A i \in 1..Len(gs) : Len(gs) - i + 1 + b.tokens <= Budget(<<h, c>>, gs[i], b.updated)
Granted(gs, h, c) ==
  \A i \in 1..Len(gs) : \A j \in i..Len(gs) : j - i + 1 <= Budget(<<h, c>>, gs[i], gs[j])
Saved(b, gs, h, c) ==
  \/ b.tokens >= c
  \/ \E i \in 1..Len(gs) : Len(gs) - i + 1 + b.tokens >= Budget(<<h, c>>, gs[i], b.updated)
Refused(gs, r, h, c) ==
  r # <<>> =>
    \E i \in 1..Len(gs) : gs[i] <= r[1] /\ Len(gs) - i + 2 > Budget(<<h, c>>, gs[i], r[1])

\* All that is kept of a bucket: its grants, its refusals, the policies it had, the time.
Accounted(b, gs, r, L, t) ==
  /\ b \in TokenBucket /\ gs \in Seq(Nat)
  /\ <<b.rate, b.capacity>> \in L
  /\ b.tokens <= b.capacity /\ b.updated <= t
  /\ \A i \in 1..Len(gs) : gs[i] <= b.updated
  /\ \A h, c \in Nat : Above(L, h, c) => Spent(b, gs, h, c) /\ Granted(gs, h, c)
  /\ \A h, c \in Nat : Below(L, h, c) /\ c > 0 => Saved(b, gs, h, c) /\ Refused(gs, r, h, c)

LimitSets == SUBSET ((Nat \ {0}) \X (Nat \ {0}))

\* A rate that is no higher than h earns no more than h does, one no lower no less.
LEMMA Earns ==
  ASSUME NEW x \in Nat, NEW h \in Nat, NEW d \in Nat, NEW e \in Nat
  PROVE  /\ d * x \in Nat /\ h * e \in Nat /\ h * (d + e) \in Nat
         /\ x <= h => d * x + h * e <= h * (d + e)
         /\ h <= x => h * (d + e) <= d * x + h * e
<1>1. d * x \in Nat /\ h * e \in Nat /\ h * (d + e) \in Nat /\ h * d \in Nat
  OBVIOUS
<1>2. h * (d + e) = h * d + h * e
  OBVIOUS
<1>3. x <= h => d * x <= h * d
  <2>1. SUFFICES ASSUME x <= h PROVE d * x <= h * d
    OBVIOUS
  <2>2. PICK y \in Nat : h = x + y
    BY <2>1
  <2>3. h * d = d * x + y * d /\ y * d \in Nat
    BY <2>2
  <2> QED
    BY <1>1, <2>3
<1>4. h <= x => h * d <= d * x
  <2>1. SUFFICES ASSUME h <= x PROVE h * d <= d * x
    OBVIOUS
  <2>2. PICK y \in Nat : x = h + y
    BY <2>1
  <2>3. d * x = h * d + y * d /\ y * d \in Nat
    BY <2>2
  <2> QED
    BY <1>1, <2>3
<1> QED
  BY <1>1, <1>2, <1>3, <1>4

LEMMA AddUp ==
  ASSUME NEW n \in Nat, NEW w \in Nat, NEW c \in Nat, NEW v \in Nat, NEW y \in Nat,
         NEW z \in Nat, NEW m \in Nat
  PROVE  /\ n + w <= c + v /\ y + v <= z /\ m <= w + y => n + m <= c + z
         /\ n + w >= c + v /\ y + v >= z /\ m = w + y => n + m >= c + z
OBVIOUS

LEMMA Between ==
  /\ \A n \in Nat : \A i \in 1..n : n - i + 1 \in Nat
  /\ \A s, u, t \in Nat :
       s <= u /\ u <= t => /\ s <= t /\ u - s \in Nat /\ t - u \in Nat /\ t - s \in Nat
                          /\ (t - u) + (u - s) = t - s
OBVIOUS

LEMMA LeastFacts ==
  \A x, y \in Nat : /\ Least(x, y) \in Nat /\ Least(x, y) <= x /\ Least(x, y) <= y
                    /\ Least(x, y) = x \/ Least(x, y) = y
  BY DEF Least

LEMMA BucketFields ==
  \A b \in TokenBucket : /\ b.rate \in Nat /\ b.capacity \in Nat
                         /\ b.tokens \in Nat /\ b.updated \in Nat
  BY DEF TokenBucket

\* A fresh bucket.
LEMMA FreshSound ==
  ASSUME NEW p \in (Nat \ {0}) \X (Nat \ {0}), NEW t \in Nat
  PROVE  Accounted([rate |-> p[1], capacity |-> p[2], tokens |-> p[2], updated |-> t],
               <<>>, <<>>, {p}, t)
<1> DEFINE b == [rate |-> p[1], capacity |-> p[2], tokens |-> p[2], updated |-> t]
<1>1. /\ b \in TokenBucket /\ b.rate = p[1] /\ b.capacity = p[2] /\ b.tokens = p[2]
      /\ b.updated = t
  BY DEF TokenBucket
<1>2. p[2] \in Nat /\ p = <<p[1], p[2]>>
  OBVIOUS
<1> HIDE DEF b
<1>3. \A h, c \in Nat : Spent(b, <<>>, h, c) /\ Granted(<<>>, h, c) /\ Refused(<<>>, <<>>, h, c)
  BY DEF Spent, Granted, Refused
<1>4. \A h, c \in Nat : Below({p}, h, c) => Saved(b, <<>>, h, c)
  <2>1. \A h, c \in Nat : Below({p}, h, c) => p[2] >= c
    BY <1>2 DEF Below
  <2> QED
    BY <1>1, <2>1 DEF Saved
<1>5. Accounted(b, <<>>, <<>>, {p}, t)
  <2>1. <<>> \in Seq(Nat) /\ Len(<<>>) = 0 /\ 1..0 = {}
    OBVIOUS
  <2>2. <<b.rate, b.capacity>> \in {p} /\ b.tokens <= b.capacity /\ b.updated <= t
    BY <1>1, <1>2
  <2> QED
    BY <1>1, <1>3, <1>4, <2>1, <2>2 DEF Accounted
<1> QED
  BY <1>5 DEF b

\* Time goes by.
LEMMA LaterSound ==
  ASSUME NEW b, NEW gs, NEW r, NEW L, NEW t \in Nat, NEW u \in Nat, t <= u,
         Accounted(b, gs, r, L, t)
  PROVE  Accounted(b, gs, r, L, u)
<1>1. b.updated <= u
  BY BucketFields DEF Accounted
<1> QED
  BY <1>1 DEF Accounted

\* What time brings in is neither more than the budget nor, up to the capacity, less.
LEMMA RefillSound ==
  ASSUME NEW b, NEW gs, NEW r, NEW L \in LimitSets, NEW t \in Nat, Accounted(b, gs, r, L, t)
  PROVE  /\ Accounted(Refilled(b, t), gs, r, L, t)
         /\ Refilled(b, t).updated = t
         /\ Refilled(b, t).rate = b.rate /\ Refilled(b, t).capacity = b.capacity
<1>1. /\ b \in TokenBucket /\ gs \in Seq(Nat) /\ <<b.rate, b.capacity>> \in L
      /\ b.tokens <= b.capacity /\ b.updated <= t
      /\ \A i \in 1..Len(gs) : gs[i] <= b.updated
  BY DEF Accounted
<1>2. /\ b.rate \in Nat /\ b.capacity \in Nat /\ b.tokens \in Nat /\ b.updated \in Nat
      /\ Len(gs) \in Nat
  BY <1>1, BucketFields
<1>3. PICK d \in Nat : d = t - b.updated
  BY <1>1, <1>2
<1>4. PICK m \in Nat : m = Least(b.capacity, b.tokens + (t - b.updated) * b.rate)
  <2>1. d * b.rate \in Nat
    BY <1>2
  <2>2. b.tokens + (t - b.updated) * b.rate \in Nat
    BY <1>2, <1>3, <2>1
  <2> QED
    BY <1>2, <2>2, LeastFacts
<1>5. /\ m <= b.capacity /\ m <= b.tokens + d * b.rate
      /\ m = b.capacity \/ m = b.tokens + d * b.rate
      /\ d * b.rate \in Nat
  <2>0. d * b.rate \in Nat
    BY <1>2, Earns
  <2>1. d * b.rate \in Nat /\ b.tokens + d * b.rate \in Nat
    BY <1>2, <2>0
  <2>2. m = Least(b.capacity, b.tokens + d * b.rate)
    BY <1>3, <1>4
  <2> QED
    BY <1>2, <2>1, <2>2, LeastFacts
<1>6. PICK x : x = Refilled(b, t)
  OBVIOUS
<1>7. /\ x \in TokenBucket /\ x.rate = b.rate /\ x.capacity = b.capacity
      /\ x.tokens = m /\ x.updated = t
  BY <1>1, <1>4, <1>6 DEF Refilled, TokenBucket
<1>8. \A i \in 1..Len(gs) : /\ gs[i] \in Nat /\ gs[i] <= t
                            /\ \E e \in Nat : e = b.updated - gs[i] /\ d + e = t - gs[i]
  <2>1. TAKE i \in 1..Len(gs)
  <2>2. gs[i] \in Nat /\ gs[i] <= b.updated
    BY <1>1
  <2>3. PICK s \in Nat : s = gs[i]
    BY <2>2
  <2>4. /\ s <= t /\ b.updated - s \in Nat
        /\ (t - b.updated) + (b.updated - s) = t - s
    BY <1>1, <1>2, <2>2, <2>3, Between
  <2> QED
    BY <1>3, <2>2, <2>3, <2>4
<1>9. ASSUME NEW h \in Nat, NEW c \in Nat, Above(L, h, c)
      PROVE  Spent(x, gs, h, c) /\ Granted(gs, h, c)
  <2>1. Spent(b, gs, h, c) /\ Granted(gs, h, c)
    BY <1>9 DEF Accounted
  <2>2. b.rate <= h
    BY <1>1, <1>9 DEF Above
  <2>3. ASSUME NEW i \in 1..Len(gs)
        PROVE  Len(gs) - i + 1 + x.tokens <= Budget(<<h, c>>, gs[i], x.updated)
    <3>1. PICK e \in Nat : e = b.updated - gs[i] /\ d + e = t - gs[i]
      BY <1>8
    <3>2. PICK n \in Nat : n = Len(gs) - i + 1
      BY <1>2, Between
    <3>3. n + b.tokens <= c + h * e
      BY <2>1, <3>1, <3>2 DEF Spent, Budget
    <3>4. d * b.rate + h * e <= h * (d + e) /\ h * e \in Nat /\ h * (d + e) \in Nat
      BY <1>2, <2>2, Earns
    <3>5. n + m <= c + h * (d + e)
      <4>1. PICK y, v, z \in Nat :
              y = d * b.rate /\ v = h * e /\ z = h * (d + e) /\ y + v <= z
        BY <1>5, <3>4
      <4>2. PICK w \in Nat : w = b.tokens
        BY <1>2
      <4>3. n + w <= c + v /\ y + v <= z /\ m <= w + y
        BY <1>5, <3>3, <4>1, <4>2, Zenon
      <4>4. n + m <= c + z
        BY <4>3, AddUp
      <4> QED
        BY <4>1, <4>4
    <3> QED
      BY <1>7, <3>1, <3>2, <3>5 DEF Budget
  <2> QED
    BY <2>1, <2>3 DEF Spent
<1>10. ASSUME NEW h \in Nat, NEW c \in Nat, Below(L, h, c), c > 0
       PROVE  Saved(x, gs, h, c) /\ Refused(gs, r, h, c)
  <2>1. Saved(b, gs, h, c) /\ Refused(gs, r, h, c)
    BY <1>10 DEF Accounted
  <2>2. h <= b.rate /\ c <= b.capacity
    BY <1>1, <1>10 DEF Below
  <2>3. CASE m = b.capacity
    BY <1>7, <2>1, <2>2, <2>3 DEF Saved
  <2>4. CASE m = b.tokens + d * b.rate
    <3>1. CASE b.tokens >= c
      <4>1. m >= c
        BY <1>2, <1>5, <2>4, <3>1
      <4> QED
        BY <1>7, <2>1, <4>1 DEF Saved
    <3>2. CASE \E i \in 1..Len(gs) : Len(gs) - i + 1 + b.tokens >= Budget(<<h, c>>, gs[i], b.updated)
      <4>0. PICK i \in 1..Len(gs) : Len(gs) - i + 1 + b.tokens >= Budget(<<h, c>>, gs[i], b.updated)
        BY <3>2
      <4>1. PICK e \in Nat : e = b.updated - gs[i] /\ d + e = t - gs[i]
        BY <1>8
      <4>2. PICK n \in Nat : n = Len(gs) - i + 1
        BY <1>2, Between
      <4>3. n + b.tokens >= c + h * e
        BY <4>0, <4>1, <4>2 DEF Budget
      <4>4. h * (d + e) <= d * b.rate + h * e /\ h * e \in Nat /\ h * (d + e) \in Nat
        BY <1>2, <2>2, Earns
      <4>5. n + m >= c + h * (d + e)
        <5>1. PICK y, v, z \in Nat :
                y = d * b.rate /\ v = h * e /\ z = h * (d + e) /\ y + v >= z
          BY <1>5, <4>4
        <5>2. PICK w \in Nat : w = b.tokens
          BY <1>2
        <5>3. n + w >= c + v /\ y + v >= z /\ m = w + y
          BY <2>4, <4>3, <5>1, <5>2, Zenon
        <5>4. n + m >= c + z
          BY <5>3, AddUp
        <5> QED
          BY <5>1, <5>4
      <4>6. Len(gs) - i + 1 + x.tokens >= Budget(<<h, c>>, gs[i], x.updated)
        BY <1>7, <4>1, <4>2, <4>5 DEF Budget
      <4> QED
        BY <2>1, <4>6 DEF Saved
    <3> QED
      BY <2>1, <3>1, <3>2 DEF Saved
  <2> QED
    BY <1>5, <2>3, <2>4
<1>11. x.tokens <= x.capacity /\ x.updated <= t /\ \A i \in 1..Len(gs) : gs[i] <= x.updated
  BY <1>5, <1>7, <1>8
<1>12. Accounted(x, gs, r, L, t)
  BY <1>1, <1>7, <1>9, <1>10, <1>11 DEF Accounted
<1> QED
  BY <1>6, <1>7, <1>12

\* update_limits, after its refill: the new limits join those the bucket has had.
LEMMA LimitSound ==
  ASSUME NEW b, NEW gs, NEW r, NEW L \in LimitSets, NEW t \in Nat, Accounted(b, gs, r, L, t),
         NEW p \in (Nat \ {0}) \X (Nat \ {0}), NEW x,
         x = [rate |-> p[1], capacity |-> p[2], tokens |-> Least(p[2], b.tokens),
              updated |-> b.updated]
  PROVE  Accounted(x, gs, r, L \cup {p}, t)
<1>1. /\ b \in TokenBucket /\ gs \in Seq(Nat) /\ b.updated <= t
      /\ \A i \in 1..Len(gs) : gs[i] <= b.updated
      /\ b.tokens \in Nat /\ b.updated \in Nat /\ Len(gs) \in Nat
  BY BucketFields DEF Accounted
<1>2. p[1] \in Nat /\ p[2] \in Nat /\ p = <<p[1], p[2]>>
  OBVIOUS
<1>3. PICK m \in Nat : m = Least(p[2], b.tokens)
  BY <1>1, <1>2, LeastFacts
<1>4. m <= p[2] /\ m <= b.tokens /\ (m = p[2] \/ m = b.tokens)
  BY <1>1, <1>2, <1>3, LeastFacts
<1>5. /\ x \in TokenBucket /\ x.rate = p[1] /\ x.capacity = p[2] /\ x.tokens = m
      /\ x.updated = b.updated
  BY <1>1, <1>2, <1>3 DEF TokenBucket
<1>6. ASSUME NEW h \in Nat, NEW c \in Nat, Above(L \cup {p}, h, c)
      PROVE  Spent(x, gs, h, c) /\ Granted(gs, h, c)
  <2>1. Spent(b, gs, h, c) /\ Granted(gs, h, c)
    BY <1>6 DEF Accounted, Above
  <2>2. ASSUME NEW i \in 1..Len(gs)
        PROVE  Len(gs) - i + 1 + x.tokens <= Budget(<<h, c>>, gs[i], x.updated)
    <3>1. PICK n \in Nat : n = Len(gs) - i + 1
      BY <1>1, Between
    <3>2. n + b.tokens <= c + h * (b.updated - gs[i])
      BY <2>1, <3>1 DEF Spent, Budget
    <3>3. PICK z \in Nat : z = h * (b.updated - gs[i])
      <4>1. gs[i] \in Nat /\ gs[i] <= b.updated
        BY <1>1
      <4>2. b.updated - gs[i] \in Nat
        BY <1>1, <4>1
      <4> QED
        BY <4>2
    <3>4. n + m <= c + z
      <4>1. PICK w \in Nat : w = b.tokens
        BY <1>1
      <4>2. n + w <= c + z /\ m <= w
        BY <1>4, <3>2, <3>3, <4>1
      <4> QED
        BY <4>2
    <3> QED
      BY <1>5, <3>1, <3>3, <3>4 DEF Budget
  <2> QED
    BY <2>1, <2>2 DEF Spent
<1>7. ASSUME NEW h \in Nat, NEW c \in Nat, Below(L \cup {p}, h, c), c > 0
      PROVE  Saved(x, gs, h, c) /\ Refused(gs, r, h, c)
  <2>1. Saved(b, gs, h, c) /\ Refused(gs, r, h, c)
    BY <1>7 DEF Accounted, Below
  <2>2. c <= p[2]
    BY <1>7 DEF Below
  <2>3. CASE m = p[2]
    BY <1>5, <2>1, <2>2, <2>3 DEF Saved
  <2>4. CASE m = b.tokens
    BY <1>5, <2>1, <2>4 DEF Saved
  <2> QED
    BY <1>4, <2>3, <2>4
<1>8. <<x.rate, x.capacity>> \in L \cup {p} /\ x.tokens <= x.capacity /\ x.updated <= t
  BY <1>1, <1>2, <1>4, <1>5
<1> QED
  BY <1>1, <1>5, <1>6, <1>7, <1>8 DEF Accounted

\* allow, when there is a token.
LEMMA GrantSound ==
  ASSUME NEW b, NEW gs, NEW r, NEW L \in LimitSets, NEW t \in Nat, Accounted(b, gs, r, L, t),
         b.updated = t, b.tokens >= 1
  PROVE  Accounted([b EXCEPT !.tokens = b.tokens - 1], Append(gs, t), <<>>, L, t)
<1>1. /\ b \in TokenBucket /\ gs \in Seq(Nat)
      /\ <<b.rate, b.capacity>> \in L /\ b.tokens <= b.capacity
      /\ \A i \in 1..Len(gs) : gs[i] <= t
  BY DEF Accounted
<1>2. b.tokens \in Nat /\ b.capacity \in Nat /\ b.rate \in Nat
  BY <1>1, BucketFields
<1>n. PICK n \in Nat : n = Len(gs)
  BY <1>1
<1>m. PICK m \in Nat : b.tokens = m + 1
  <2>1. b.tokens - 1 \in Nat /\ b.tokens = (b.tokens - 1) + 1
    BY <1>2
  <2> QED
    BY <2>1
<1>x. PICK x : x = [b EXCEPT !.tokens = b.tokens - 1]
  OBVIOUS
<1>3. /\ x \in TokenBucket /\ x.rate = b.rate /\ x.capacity = b.capacity
      /\ x.tokens = m /\ x.updated = t
  <2>1. b.tokens - 1 = m
    BY <1>m
  <2>2. x = [b EXCEPT !.tokens = m]
    BY <1>x, <2>1
  <2> QED
    BY <1>1, <2>2 DEF TokenBucket
<1>g. PICK hs : hs = Append(gs, t)
  OBVIOUS
<1>4. /\ hs \in Seq(Nat) /\ Len(hs) = n + 1 /\ hs[n + 1] = t
      /\ \A i \in 1..n : hs[i] = gs[i]
  BY <1>1, <1>n, <1>g
<1>5. \A i \in 1..n+1 : i \in 1..n \/ i = n + 1
  BY <1>n
<1>6. \A i \in 1..n : gs[i] \in Nat /\ t - gs[i] \in Nat
  <2>1. TAKE i \in 1..n
  <2>2. gs[i] \in Nat /\ gs[i] <= t
    BY <1>1, <1>n
  <2> QED
    BY <2>2
<1>t. t - t = 0 /\ \A h, c \in Nat : Budget(<<h, c>>, t, t) = c
  BY DEF Budget
<1>7. ASSUME NEW h \in Nat, NEW c \in Nat, Above(L, h, c)
      PROVE  Spent(x, hs, h, c) /\ Granted(hs, h, c)
  <2>1. Spent(b, gs, h, c) /\ Granted(gs, h, c)
    BY <1>7 DEF Accounted
  <2>2. b.capacity <= c
    BY <1>1, <1>7 DEF Above
  <2>3. ASSUME NEW i \in 1..n
        PROVE  /\ (n + 1) - i + 1 + m <= Budget(<<h, c>>, hs[i], t)
               /\ (n + 1) - i + 1 <= Budget(<<h, c>>, hs[i], t)
    <3>1. PICK z \in Nat : z = h * (t - gs[i])
      BY <1>6
    <3>2. n - i + 1 + (m + 1) <= c + z
      BY <1>n, <1>m, <2>1, <3>1 DEF Spent, Budget
    <3>3. (n + 1) - i + 1 + m <= c + z /\ (n + 1) - i + 1 <= c + z
      BY <3>2
    <3> QED
      BY <1>4, <3>1, <3>3 DEF Budget
  <2>4. (n + 1) - (n + 1) + 1 + m <= c /\ 1 <= c
    BY <1>1, <1>2, <1>m, <2>2
  <2>5. Spent(x, hs, h, c)
    <3>1. SUFFICES ASSUME NEW i \in 1..n+1
                   PROVE  (n + 1) - i + 1 + m <= Budget(<<h, c>>, hs[i], t)
      BY <1>3, <1>4 DEF Spent
    <3>2. CASE i \in 1..n
      BY <2>3, <3>2
    <3>3. CASE i = n + 1
      BY <1>4, <1>t, <2>4, <3>3
    <3> QED
      BY <1>5, <3>2, <3>3
  <2>6. Granted(hs, h, c)
    <3>1. SUFFICES ASSUME NEW i \in 1..n+1, NEW j \in i..n+1
                   PROVE  j - i + 1 <= Budget(<<h, c>>, hs[i], hs[j])
      BY <1>4 DEF Granted
    <3>2. CASE j \in 1..n
      <4>1. i \in 1..n /\ j \in i..n
        BY <1>n, <3>2
      <4>2. j - i + 1 <= Budget(<<h, c>>, gs[i], gs[j])
        BY <1>n, <2>1, <4>1 DEF Granted
      <4> QED
        BY <1>4, <3>2, <4>1, <4>2
    <3>3. CASE j = n + 1 /\ i \in 1..n
      BY <1>4, <2>3, <3>3
    <3>4. CASE j = n + 1 /\ i = n + 1
      <4>1. j - i + 1 = 1
        BY <3>4
      <4> QED
        BY <1>4, <1>t, <2>4, <3>4, <4>1
    <3>5. j \in 1..n+1
      OBVIOUS
    <3> QED
      BY <1>5, <3>2, <3>3, <3>4, <3>5
  <2> QED
    BY <2>5, <2>6
<1>8. ASSUME NEW h \in Nat, NEW c \in Nat, Below(L, h, c), c > 0
      PROVE  Saved(x, hs, h, c) /\ Refused(hs, <<>>, h, c)
  <2>1. Saved(b, gs, h, c)
    BY <1>8 DEF Accounted
  <2>2. CASE b.tokens >= c
    <3>1. (n + 1) - (n + 1) + 1 + m >= c /\ n + 1 \in 1..n+1
      BY <1>m, <2>2
    <3>2. Len(hs) - (n + 1) + 1 + x.tokens >= Budget(<<h, c>>, hs[n + 1], x.updated)
      BY <1>3, <1>4, <1>t, <3>1
    <3> QED
      BY <1>4, <3>1, <3>2 DEF Saved, Refused
  <2>3. CASE \E i \in 1..Len(gs) : Len(gs) - i + 1 + b.tokens >= Budget(<<h, c>>, gs[i], b.updated)
    <3>1. PICK i \in 1..n : n - i + 1 + b.tokens >= Budget(<<h, c>>, gs[i], t)
      BY <1>n, <2>3
    <3>2. PICK z \in Nat : z = h * (t - gs[i])
      BY <1>6
    <3>3. n - i + 1 + (m + 1) >= c + z
      BY <1>m, <3>1, <3>2 DEF Budget
    <3>4. (n + 1) - i + 1 + m >= c + z /\ i \in 1..n+1
      BY <3>3
    <3>5. Len(hs) - i + 1 + x.tokens >= Budget(<<h, c>>, hs[i], x.updated)
      BY <1>3, <1>4, <3>2, <3>4 DEF Budget
    <3> QED
      BY <1>4, <3>4, <3>5 DEF Saved, Refused
  <2> QED
    BY <2>1, <2>2, <2>3 DEF Saved
<1>9. /\ x.tokens <= x.capacity /\ x.updated <= t
      /\ \A i \in 1..Len(hs) : hs[i] <= x.updated
  <2>1. m <= b.capacity
    BY <1>1, <1>2, <1>m
  <2>2. \A i \in 1..n+1 : hs[i] <= t
    <3>1. TAKE i \in 1..n+1
    <3>2. CASE i \in 1..n
      BY <1>1, <1>4, <1>n, <3>2
    <3>3. CASE i = n + 1
      BY <1>4, <3>3
    <3> QED
      BY <1>5, <3>2, <3>3
  <2> QED
    BY <1>3, <1>4, <2>1, <2>2
<1>10. Accounted(x, hs, <<>>, L, t)
  BY <1>1, <1>3, <1>4, <1>7, <1>8, <1>9 DEF Accounted
<1> QED
  BY <1>10, <1>g, <1>x

\* ... and when there is none.
LEMMA RefuseSound ==
  ASSUME NEW b, NEW gs, NEW r, NEW L \in LimitSets, NEW t \in Nat, Accounted(b, gs, r, L, t),
         b.updated = t, ~(b.tokens >= 1)
  PROVE  Accounted(b, gs, <<t>>, L, t)
<1>1. /\ b.tokens = 0 /\ gs \in Seq(Nat) /\ Len(gs) \in Nat
      /\ \A i \in 1..Len(gs) : gs[i] <= t
  BY BucketFields DEF Accounted
<1>2. ASSUME NEW h \in Nat, NEW c \in Nat, Below(L, h, c), c > 0
      PROVE  Refused(gs, <<t>>, h, c)
  <2>1. Saved(b, gs, h, c)
    BY <1>2 DEF Accounted
  <2>0. ~(b.tokens >= c)
    BY <1>1, <1>2
  <2>2. PICK i \in 1..Len(gs) : Len(gs) - i + 1 + 0 >= Budget(<<h, c>>, gs[i], t)
    BY <1>1, <2>0, <2>1 DEF Saved
  <2>3. PICK z \in Nat : z = Budget(<<h, c>>, gs[i], t)
    <3>1. gs[i] \in Nat /\ gs[i] <= t
      BY <1>1
    <3>2. t - gs[i] \in Nat
      BY <3>1
    <3>3. h * (t - gs[i]) \in Nat
      BY <3>2
    <3> QED
      BY <3>3 DEF Budget
  <2>4. Len(gs) - i + 2 > z
    BY <1>1, <2>2, <2>3
  <2> QED
    BY <1>1, <2>3, <2>4 DEF Refused
<1> QED
  BY <1>2 DEF Accounted

-----------------------------------------------------------------------------
(* The limiter: every bucket there has been keeps to its budget. *)

\* The highest and the lowest rate and burst are among the limits.
HasBounds(L) ==
  /\ \E q \in L : \A p \in L : p[1] <= q[1]
  /\ \E q \in L : \A p \in L : p[2] <= q[2]
  /\ \E q \in L : \A p \in L : q[1] <= p[1]
  /\ \E q \in L : \A p \in L : q[2] <= p[2]

\* A bucket that no request has found has no history; any other is sound.
BucketOK(b, gs, r, L, w, t) ==
  \/ b = NoBucket /\ gs = <<>> /\ r = <<>> /\ L = {} /\ w = 0
  \/ Accounted(b, gs, r, L, t) /\ HasBounds(L)

\* The bucket of a number, the numbers to come included.
BucketAt(g) == IF g + 1 <= Len(buckets) THEN buckets[g + 1] ELSE NoBucket

LimiterInv ==
  /\ now \in Nat /\ policy \in Policies \cup {NoPolicy}
  /\ buckets \in Seq(TokenBucket) /\ Len(buckets) \in 1..(Reloads + 1)
  /\ held \in [Numbers -> Nat] /\ limits \in [Numbers -> LimitSets]
  /\ DOMAIN grants = Numbers /\ DOMAIN refusal = Numbers
  /\ grants = [g \in Numbers |-> grants[g]] /\ refusal = [g \in Numbers |-> refusal[g]]
  /\ \A g \in Numbers :
       BucketOK(BucketAt(g), grants[g], refusal[g], limits[g], held[g], now)

LEMMA MoreBounds ==
  ASSUME NEW L \in LimitSets, NEW p \in (Nat \ {0}) \X (Nat \ {0}), HasBounds(L)
  PROVE  HasBounds(L \cup {p}) /\ L \cup {p} \in LimitSets
<1>1. \A q \in L \cup {p} : q[1] \in Nat /\ q[2] \in Nat
  BY DEF LimitSets
<1>2. L \cup {p} \in LimitSets
  BY DEF LimitSets
<1>3. \E q \in L \cup {p} : \A s \in L \cup {p} : s[1] <= q[1]
  <2>1. PICK q \in L : \A s \in L : s[1] <= q[1]
    BY DEF HasBounds
  <2> QED
    BY <1>1, <2>1
<1>4. \E q \in L \cup {p} : \A s \in L \cup {p} : s[2] <= q[2]
  <2>1. PICK q \in L : \A s \in L : s[2] <= q[2]
    BY DEF HasBounds
  <2> QED
    BY <1>1, <2>1
<1>5. \E q \in L \cup {p} : \A s \in L \cup {p} : q[1] <= s[1]
  <2>1. PICK q \in L : \A s \in L : q[1] <= s[1]
    BY DEF HasBounds
  <2> QED
    BY <1>1, <2>1
<1>6. \E q \in L \cup {p} : \A s \in L \cup {p} : q[2] <= s[2]
  <2>1. PICK q \in L : \A s \in L : q[2] <= s[2]
    BY DEF HasBounds
  <2> QED
    BY <1>1, <2>1
<1> QED
  BY <1>2, <1>3, <1>4, <1>5, <1>6 DEF HasBounds

LEMMA OneBound ==
  ASSUME NEW p \in (Nat \ {0}) \X (Nat \ {0})
  PROVE  HasBounds({p}) /\ {p} \in LimitSets
<1>1. p[1] \in Nat /\ p[2] \in Nat
  OBVIOUS
<1> QED
  BY <1>1 DEF HasBounds, LimitSets

\* A bucket that has limits is a real one.
LEMMA SoundUsed ==
  ASSUME NEW b, NEW gs, NEW r, NEW L \in LimitSets, NEW t, Accounted(b, gs, r, L, t)
  PROVE  b # NoBucket
<1>1. <<b.rate, b.capacity>> \in (Nat \ {0}) \X (Nat \ {0})
  BY DEF Accounted, LimitSets
<1>2. b.rate # 0
  BY <1>1
<1>3. NoBucket.rate = 0
  BY DEF NoBucket
<1> QED
  BY <1>2, <1>3

LEMMA PolicyFields ==
  ASSUME NEW p \in Policies PROVE p \in (Nat \ {0}) \X (Nat \ {0})
BY ObserversAssumption

\* What a request does to the bucket it has found it does to no other.
LEMMA OneBucket ==
  ASSUME LimiterInv, UNCHANGED <<now, policy>>,
         NEW g \in Numbers, g + 1 <= Len(buckets),
         NEW x \in TokenBucket, NEW gs, NEW r, NEW L \in LimitSets, NEW w \in Nat,
         buckets' = [buckets EXCEPT ![g + 1] = x],
         grants' = [grants EXCEPT ![g] = gs],
         refusal' = [refusal EXCEPT ![g] = r],
         limits' = [limits EXCEPT ![g] = L],
         held' = [held EXCEPT ![g] = w],
         BucketOK(x, gs, r, L, w, now)
  PROVE  LimiterInv'
<1>1. /\ buckets \in Seq(TokenBucket) /\ Len(buckets) \in 1..(Reloads + 1)
      /\ held \in [Numbers -> Nat] /\ limits \in [Numbers -> LimitSets]
      /\ DOMAIN grants = Numbers /\ DOMAIN refusal = Numbers
  BY DEF LimiterInv
<1>2. g \in Nat /\ g + 1 \in 1..Len(buckets) /\ Numbers \subseteq Nat
  BY <1>1, ObserversAssumption DEF Numbers
<1>3. buckets' \in Seq(TokenBucket) /\ Len(buckets') = Len(buckets) /\ buckets'[g + 1] = x
      /\ \A i \in 1..Len(buckets) : i # g + 1 => buckets'[i] = buckets[i]
  BY <1>1, <1>2
<1>4. /\ held' \in [Numbers -> Nat] /\ limits' \in [Numbers -> LimitSets]
      /\ DOMAIN grants' = Numbers /\ DOMAIN refusal' = Numbers
      /\ grants' = [f \in Numbers |-> grants'[f]]
      /\ refusal' = [f \in Numbers |-> refusal'[f]]
  BY <1>1
<1>5. /\ grants'[g] = gs /\ refusal'[g] = r /\ limits'[g] = L /\ held'[g] = w
      /\ \A f \in Numbers : f # g => /\ grants'[f] = grants[f] /\ refusal'[f] = refusal[f]
                                     /\ limits'[f] = limits[f] /\ held'[f] = held[f]
  BY <1>1
<1>6. \A f \in Numbers : IF f = g THEN BucketAt(f)' = x ELSE BucketAt(f)' = BucketAt(f)
  BY <1>1, <1>2, <1>3 DEF BucketAt
<1>7. ASSUME NEW f \in Numbers
      PROVE  BucketOK(BucketAt(f)', grants'[f], refusal'[f], limits'[f], held'[f], now)
  <2>1. CASE f = g
    BY <1>5, <1>6, <2>1
  <2>2. CASE f # g
    <3>1. BucketOK(BucketAt(f), grants[f], refusal[f], limits[f], held[f], now)
      BY DEF LimiterInv
    <3> QED
      BY <1>5, <1>6, <2>2, <3>1
  <2> QED
    BY <2>1, <2>2
<1> QED
  BY <1>1, <1>3, <1>4, <1>7 DEF LimiterInv

LEMMA BucketSound ==
  ASSUME LimiterInv, NEW g \in Numbers
  PROVE  BucketOK(BucketAt(g), grants[g], refusal[g], limits[g], held[g], now)
BY DEF LimiterInv

LEMMA NewestNumber ==
  ASSUME LimiterInv
  PROVE  /\ Newest \in Numbers /\ Newest + 1 = Len(buckets)
         /\ \A g \in 0..Newest : g \in Numbers /\ g + 1 <= Len(buckets)
<1>1. Len(buckets) \in 1..(Reloads + 1) /\ Reloads \in Nat
  BY ObserversAssumption DEF LimiterInv
<1> QED
  BY <1>1 DEF Newest, Numbers

LEMMA FindKeeps ==
  ASSUME LimiterInv, Find(now), UNCHANGED now
  PROVE  LimiterInv'
<1> DEFINE g == Newest
           b == buckets[g + 1]
           fresh == [rate |-> policy[1], capacity |-> policy[2], tokens |-> policy[2],
                     updated |-> now]
           x == IF b = NoBucket THEN fresh
                ELSE IF <<b.rate, b.capacity>> # policy THEN Limited(b, policy, now) ELSE b
           L == limits[g] \cup {policy}
<1>1. /\ g \in Numbers /\ g + 1 <= Len(buckets) /\ BucketAt(g) = b
  BY NewestNumber DEF BucketAt, LimiterInv
<1>2. policy \in (Nat \ {0}) \X (Nat \ {0})
  <2>1. policy \in Policies
    BY DEF Find, LimiterInv
  <2> QED
    BY <2>1, PolicyFields
<1>3. limits[g] \in LimitSets /\ held[g] \in Nat /\ now \in Nat
  BY <1>1 DEF LimiterInv
<1>4. BucketOK(b, grants[g], refusal[g], limits[g], held[g], now)
  BY <1>1, BucketSound
<1>5. Accounted(x, grants[g], refusal[g], L, now) /\ HasBounds(L) /\ L \in LimitSets
  <2>1. CASE b = NoBucket
    <3>1. grants[g] = <<>> /\ refusal[g] = <<>> /\ limits[g] = {}
      BY <1>3, <1>4, <2>1, SoundUsed DEF BucketOK
    <3>2. L = {policy} /\ x = fresh
      BY <2>1, <3>1
    <3>3. Accounted(fresh, <<>>, <<>>, {policy}, now)
      BY <1>2, <1>3, FreshSound
    <3> QED
      BY <1>2, <3>1, <3>2, <3>3, OneBound
  <2>2. CASE b # NoBucket
    <3>1. Accounted(b, grants[g], refusal[g], limits[g], now) /\ HasBounds(limits[g])
      BY <1>4, <2>2 DEF BucketOK
    <3>2. HasBounds(L) /\ L \in LimitSets
      BY <1>2, <1>3, <3>1, MoreBounds
    <3>3. Accounted(x, grants[g], refusal[g], L, now)
      <4>1. CASE <<b.rate, b.capacity>> # policy
        <5>1. PICK m : m = Refilled(b, now)
          OBVIOUS
        <5>2. Accounted(m, grants[g], refusal[g], limits[g], now)
          BY <1>3, <3>1, <5>1, RefillSound
        <5>3. m \in [{"rate", "capacity", "tokens", "updated"} -> Nat]
          BY <5>2 DEF Accounted, TokenBucket
        <5>4. x = [rate |-> policy[1], capacity |-> policy[2],
                   tokens |-> Least(policy[2], m.tokens), updated |-> m.updated]
          <6>1. x = [m EXCEPT !.rate = policy[1], !.capacity = policy[2],
                              !.tokens = Least(policy[2], m.tokens)]
            BY <2>2, <4>1, <5>1, <5>3 DEF Limited
          <6> QED
            BY <5>3, <6>1
        <5>5. PICK y : y = x
          OBVIOUS
        <5> HIDE DEF x, b
        <5> QED
          BY <1>2, <1>3, <5>2, <5>4, <5>5, LimitSound
      <4>2. CASE <<b.rate, b.capacity>> = policy
        <5>1. policy \in limits[g] /\ x = b
          BY <2>2, <3>1, <4>2 DEF Accounted
        <5>2. L = limits[g]
          BY <5>1
        <5> QED
          BY <3>1, <5>1, <5>2
      <4> QED
        BY <4>1, <4>2
    <3> QED
      BY <3>2, <3>3
  <2> QED
    BY <2>1, <2>2
<1>6. x \in TokenBucket
  BY <1>5 DEF Accounted
<1>7. BucketOK(x, grants[g], refusal[g], L, held[g] + 1, now)
  BY <1>5 DEF BucketOK
<1>8. /\ buckets' = [buckets EXCEPT ![g + 1] = x]
      /\ held' = [held EXCEPT ![g] = held[g] + 1]
      /\ limits' = [limits EXCEPT ![g] = L]
      /\ grants' = [grants EXCEPT ![g] = grants[g]]
      /\ refusal' = [refusal EXCEPT ![g] = refusal[g]]
      /\ UNCHANGED <<now, policy>>
  <2>1. grants = [f \in Numbers |-> grants[f]] /\ refusal = [f \in Numbers |-> refusal[f]]
    BY DEF LimiterInv
  <2>2. grants' = grants /\ refusal' = refusal
    BY DEF Find
  <2>3. grants' = [grants EXCEPT ![g] = grants[g]]
    BY <1>1, <2>1, <2>2
  <2>4. refusal' = [refusal EXCEPT ![g] = refusal[g]]
    BY <1>1, <2>1, <2>2
  <2> QED
    BY <2>3, <2>4 DEF Find
<1>9. held[g] + 1 \in Nat
  BY <1>3
<1> HIDE DEF g, b, x, L
<1> QED
  BY <1>1, <1>5, <1>6, <1>7, <1>8, <1>9, OneBucket

LEMMA TakeKeeps ==
  ASSUME LimiterInv, NEW g \in Numbers, Take(g, now), UNCHANGED now
  PROVE  LimiterInv'
<1> DEFINE b == buckets[g + 1]
           m == Refilled(b, now)
<1>1. limits[g] \in LimitSets /\ held[g] \in Nat /\ now \in Nat
  BY DEF LimiterInv
<1>2. held[g] > 0
  BY DEF Take
<1>3. BucketAt(g) # NoBucket
  <2>1. Accounted(BucketAt(g), grants[g], refusal[g], limits[g], now)
    BY <1>1, <1>2, BucketSound DEF BucketOK
  <2> QED
    BY <1>1, <2>1, SoundUsed
<1>4. g + 1 <= Len(buckets) /\ BucketAt(g) = b
  BY <1>3 DEF BucketAt
<1>5. Accounted(b, grants[g], refusal[g], limits[g], now) /\ HasBounds(limits[g])
  BY <1>1, <1>2, <1>4, BucketSound DEF BucketOK
<1>6. Accounted(m, grants[g], refusal[g], limits[g], now) /\ m.updated = now
  BY <1>1, <1>5, RefillSound
<1>7. held[g] - 1 \in Nat
  BY <1>1, <1>2
<1>8. limits' = [limits EXCEPT ![g] = limits[g]] /\ held' = [held EXCEPT ![g] = held[g] - 1]
      /\ UNCHANGED <<now, policy>>
  <2>1. limits \in [Numbers -> LimitSets] /\ limits' = limits
    BY DEF LimiterInv, Take
  <2> QED
    BY <2>1 DEF Take
<1>9. CASE m.tokens >= 1
  <2> DEFINE x == [m EXCEPT !.tokens = m.tokens - 1]
  <2>1. /\ buckets' = [buckets EXCEPT ![g + 1] = x]
        /\ grants' = [grants EXCEPT ![g] = Append(grants[g], now)]
        /\ refusal' = [refusal EXCEPT ![g] = <<>>]
    BY <1>9 DEF Take
  <2> HIDE DEF m
  <2>2. Accounted(x, Append(grants[g], now), <<>>, limits[g], now)
    BY <1>1, <1>6, <1>9, GrantSound
  <2>3. x \in TokenBucket
    BY <2>2 DEF Accounted
  <2>4. BucketOK(x, Append(grants[g], now), <<>>, limits[g], held[g] - 1, now)
    BY <1>5, <2>2 DEF BucketOK
  <2> HIDE DEF x
  <2> QED
    BY <1>1, <1>4, <1>7, <1>8, <2>1, <2>3, <2>4, OneBucket
<1>10. CASE ~(m.tokens >= 1)
  <2>1. /\ buckets' = [buckets EXCEPT ![g + 1] = m]
        /\ grants' = grants
        /\ refusal' = [refusal EXCEPT ![g] = <<now>>]
    BY <1>10 DEF Take
  <2>2. grants' = [grants EXCEPT ![g] = grants[g]]
    <3>1. grants = [f \in Numbers |-> grants[f]]
      BY DEF LimiterInv
    <3> QED
      BY <2>1, <3>1
  <2> HIDE DEF m
  <2>3. Accounted(m, grants[g], <<now>>, limits[g], now)
    BY <1>1, <1>6, <1>10, RefuseSound
  <2>4. m \in TokenBucket
    BY <2>3 DEF Accounted
  <2>5. BucketOK(m, grants[g], <<now>>, limits[g], held[g] - 1, now)
    BY <1>5, <2>3 DEF BucketOK
  <2> QED
    BY <1>1, <1>4, <1>7, <1>8, <2>1, <2>2, <2>4, <2>5, OneBucket
<1> QED
  BY <1>9, <1>10

\* What leaves the limiter alone keeps it, whatever the clock.
LEMMA LaterKeeps ==
  ASSUME LimiterInv, UNCHANGED limiter, now' \in Nat, now <= now'
  PROVE  LimiterInv'
<1>1. UNCHANGED <<policy, buckets, held, grants, limits, refusal>>
  BY DEF limiter
<1>2. now \in Nat
  BY DEF LimiterInv
<1>3. ASSUME NEW g \in Numbers
      PROVE  BucketOK(BucketAt(g), grants[g], refusal[g], limits[g], held[g], now')
  <2>1. BucketOK(BucketAt(g), grants[g], refusal[g], limits[g], held[g], now)
    BY BucketSound
  <2>2. Accounted(BucketAt(g), grants[g], refusal[g], limits[g], now)
        => Accounted(BucketAt(g), grants[g], refusal[g], limits[g], now')
    BY <1>2, LaterSound
  <2> QED
    BY <2>1, <2>2 DEF BucketOK
<1>4. \A g \in Numbers : BucketAt(g)' = BucketAt(g)
  BY <1>1 DEF BucketAt
<1>5. \A g \in Numbers :
        BucketOK(BucketAt(g)', grants'[g], refusal'[g], limits'[g], held'[g], now')
  BY <1>1, <1>3, <1>4
<1> QED
  BY <1>1, <1>5 DEF LimiterInv

LEMMA SetPolicyKeeps ==
  ASSUME LimiterInv, NEW p \in Policies \cup {NoPolicy}, SetPolicy(p), UNCHANGED now
  PROVE  LimiterInv'
<1>1. \A g \in Numbers : BucketAt(g)' = BucketAt(g)
  BY DEF SetPolicy, BucketAt
<1>2. \A g \in Numbers :
        BucketOK(BucketAt(g)', grants'[g], refusal'[g], limits'[g], held'[g], now')
  BY <1>1, BucketSound DEF SetPolicy
<1> QED
  BY <1>2 DEF SetPolicy, LimiterInv

\* The bucket that a reload brings in is the one the invariant speaks of already.
LEMMA ConfigureKeeps ==
  ASSUME LimiterInv, Configure, UNCHANGED now
  PROVE  LimiterInv'
<1>1. /\ buckets \in Seq(TokenBucket) /\ Len(buckets) \in 1..(Reloads + 1)
      /\ Len(buckets) - 1 < Reloads /\ Reloads \in Nat /\ Len(buckets) \in Nat
      /\ buckets' = Append(buckets, NoBucket)
  BY ObserversAssumption DEF LimiterInv, Configure, Newest
<1>2. NoBucket \in TokenBucket
  BY DEF NoBucket, TokenBucket
<1>3. /\ buckets' \in Seq(TokenBucket) /\ Len(buckets') = Len(buckets) + 1
      /\ buckets'[Len(buckets) + 1] = NoBucket
      /\ \A i \in 1..Len(buckets) : buckets'[i] = buckets[i]
  BY <1>1, <1>2
<1>4. Len(buckets') \in 1..(Reloads + 1)
  BY <1>1, <1>3
<1>5. \A g \in Numbers : BucketAt(g)' = BucketAt(g)
  <2> SUFFICES ASSUME NEW g \in Numbers PROVE BucketAt(g)' = BucketAt(g)
    OBVIOUS
  <2>1. g \in Nat
    BY DEF Numbers
  <2>2. CASE g + 1 <= Len(buckets)
    BY <1>1, <1>3, <2>1, <2>2 DEF BucketAt
  <2>3. CASE g + 1 = Len(buckets) + 1
    BY <1>1, <1>3, <2>1, <2>3 DEF BucketAt
  <2>4. CASE g + 1 > Len(buckets) + 1
    BY <1>1, <1>3, <2>1, <2>4 DEF BucketAt
  <2> QED
    BY <1>1, <2>1, <2>2, <2>3, <2>4
<1>6. \A g \in Numbers :
        BucketOK(BucketAt(g)', grants'[g], refusal'[g], limits'[g], held'[g], now')
  BY <1>5, BucketSound DEF Configure
<1> QED
  BY <1>3, <1>4, <1>6 DEF Configure, LimiterInv

LEMMA LimiterInitially ==
  ASSUME Init PROVE LimiterInv
<1>1. now \in Nat
  BY ObserversAssumption DEF Init, Window
<1>2. buckets = <<NoBucket>> /\ Len(buckets) = 1 /\ buckets[1] = NoBucket
  BY DEF Init, LimiterInit
<1>3. NoBucket \in TokenBucket
  BY DEF NoBucket, TokenBucket
<1>4. buckets \in Seq(TokenBucket) /\ Len(buckets) \in 1..(Reloads + 1)
  BY <1>2, <1>3, ObserversAssumption
<1>5. \A g \in Numbers : BucketAt(g) = NoBucket
  BY <1>2 DEF BucketAt, Numbers
<1>6. /\ policy \in Policies \cup {NoPolicy}
      /\ held = [g \in Numbers |-> 0] /\ grants = [g \in Numbers |-> <<>>]
      /\ limits = [g \in Numbers |-> {}] /\ refusal = [g \in Numbers |-> <<>>]
  BY DEF Init, LimiterInit
<1>7. {} \in LimitSets /\ 0 \in Nat
  BY DEF LimitSets
<1>8. held \in [Numbers -> Nat] /\ limits \in [Numbers -> LimitSets]
  BY <1>6, <1>7
<1>9. \A g \in Numbers :
        BucketOK(BucketAt(g), grants[g], refusal[g], limits[g], held[g], now)
  BY <1>5, <1>6 DEF BucketOK
<1> QED
  BY <1>1, <1>4, <1>6, <1>8, <1>9 DEF LimiterInv

LEMMA LimiterStep ==
  ASSUME LimiterInv, [Next]_vars PROVE LimiterInv'
<1>0. now \in Nat
  BY DEF LimiterInv
<1>1. ASSUME UNCHANGED limiter, UNCHANGED now PROVE LimiterInv'
  BY <1>0, <1>1, LaterKeeps
<1>2. ASSUME NEW gap \in Gaps, Tick(gap) PROVE LimiterInv'
  <2>1. gap \in Nat /\ now' = now + gap /\ UNCHANGED limiter
    BY <1>2, ObserversAssumption DEF Tick, Event
  <2>2. now' \in Nat /\ now <= now'
    BY <1>0, <2>1
  <2> QED
    BY <2>1, <2>2, LaterKeeps
<1>3. ASSUME Limiter PROVE LimiterInv'
  <2>1. UNCHANGED now
    BY <1>3 DEF Limiter
  <2>2. \/ Find(now) \/ Configure \/ \E g \in Numbers : Take(g, now)
        \/ \E p \in Policies \cup {NoPolicy} : SetPolicy(p)
    BY <1>3 DEF Limiter
  <2> QED
    BY <2>1, <2>2, FindKeeps, TakeKeeps, SetPolicyKeeps, ConfigureKeeps
<1>4. CASE UNCHANGED vars
  BY <1>1, <1>4 DEF vars
<1>5. ASSUME \/ \E key \in Keys : \/ \E hit \in BOOLEAN : Read(key, hit)
                                  \/ \E base \in Bases \cup {None} : Write(key, base)
                                  \/ Delete(key)
             \/ \E m \in 1..MaxK : Resize(m)
             \/ \E m \in Limits : Bound(m)
             \/ Report \/ Switch \/ Reset \/ Restart
      PROVE  LimiterInv'
  <2>1. UNCHANGED limiter /\ UNCHANGED now
    BY <1>5
    DEF Read, Write, Delete, Resize, Bound, Report, Switch, Reset, Restart,
        Observed, Event, AdminEvent
  <2> QED
    BY <1>1, <2>1
<1> QED
  BY <1>2, <1>3, <1>4, <1>5 DEF Next

\* What the invariant says of the histories is the property.
LEMMA BudgetKept ==
  ASSUME LimiterInv PROVE AdmitsTheBudget
<1> SUFFICES ASSUME NEW g \in 0..Newest
             PROVE  LET n == Len(grants[g])
                        rates == {p[1] : p \in limits[g]}
                        bursts == {p[2] : p \in limits[g]}
                        high == <<Max(rates), Max(bursts)>>
                        low == <<Min(rates), Min(bursts)>>
                    IN /\ \A i \in 1..n : \A j \in i..n :
                            j - i + 1 <= Budget(high, grants[g][i], grants[g][j])
                       /\ refusal[g] # <<>> =>
                            \E i \in 1..n :
                              n - i + 2 > Budget(low, grants[g][i], refusal[g][1])
  BY DEF AdmitsTheBudget
<1>1. g \in Numbers
  BY NewestNumber
<1>2. limits[g] \in LimitSets
  BY <1>1 DEF LimiterInv
<1> DEFINE L == limits[g]
           rates == {p[1] : p \in L}
           bursts == {p[2] : p \in L}
<1>3. CASE grants[g] = <<>> /\ refusal[g] = <<>>
  BY <1>3
<1>4. CASE Accounted(BucketAt(g), grants[g], refusal[g], L, now) /\ HasBounds(L)
  <2>1. \A p \in L : p[1] \in Nat /\ p[2] \in Nat /\ p[2] > 0
    BY <1>2 DEF LimitSets
  <2>2. Max(rates) \in rates /\ \A x \in rates : x <= Max(rates)
    <3>1. \E x \in rates : \A y \in rates : x >= y
      BY <1>4, <2>1 DEF HasBounds
    <3> QED
      BY <2>1, <3>1 DEF Max
  <2>3. Max(bursts) \in bursts /\ \A x \in bursts : x <= Max(bursts)
    <3>1. \E x \in bursts : \A y \in bursts : x >= y
      BY <1>4, <2>1 DEF HasBounds
    <3> QED
      BY <2>1, <3>1 DEF Max
  <2>4. Min(rates) \in rates /\ \A x \in rates : Min(rates) <= x
    <3>1. \E x \in rates : \A y \in rates : x <= y
      BY <1>4 DEF HasBounds
    <3> QED
      BY <3>1 DEF Min
  <2>5. Min(bursts) \in bursts /\ \A x \in bursts : Min(bursts) <= x
    <3>1. \E x \in bursts : \A y \in bursts : x <= y
      BY <1>4 DEF HasBounds
    <3> QED
      BY <3>1 DEF Min
  <2>6. Max(rates) \in Nat /\ Max(bursts) \in Nat /\ Above(L, Max(rates), Max(bursts))
    BY <2>1, <2>2, <2>3 DEF Above
  <2>7. /\ Min(rates) \in Nat /\ Min(bursts) \in Nat /\ Min(bursts) > 0
        /\ Below(L, Min(rates), Min(bursts))
    BY <2>1, <2>4, <2>5 DEF Below
  <2>8. Granted(grants[g], Max(rates), Max(bursts))
    BY <1>4, <2>6 DEF Accounted
  <2>9. Refused(grants[g], refusal[g], Min(rates), Min(bursts))
    BY <1>4, <2>7 DEF Accounted
  <2> QED
    BY <2>8, <2>9 DEF Granted, Refused
<1> QED
  BY <1>1, <1>3, <1>4, BucketSound DEF BucketOK

\* The limiter: over any span of its grants a bucket lets through no more than the
\* highest limits it has had allow, and it refuses only what the lowest do not, however
\* the requests, the changes of the policy and the reloads of the settings interleave.
THEOREM LimiterAdmitsTheBudget == Spec => []AdmitsTheBudget
<1>1. Init => LimiterInv
  BY LimiterInitially
<1>2. LimiterInv /\ [Next]_vars => LimiterInv'
  BY LimiterStep
<1>3. LimiterInv => AdmitsTheBudget
  BY BudgetKept
<1> QED
  BY <1>1, <1>2, <1>3, PTL DEF Spec

-----------------------------------------------------------------------------
(* The windows: the clock in buckets. *)

LEMMA LeastOfSome ==
  ASSUME NEW S \in SUBSET Nat, S # {}
  PROVE  \E s \in S : \A t \in S : s <= t
<1>1. PICK x \in S : \A y \in S : ~(<<y, x>> \in OpToRel(<, Nat))
  BY NatLessThanWellFounded, WFMin
<1>2. ASSUME NEW t \in S PROVE x <= t
  <2>1. ~(t < x)
    BY <1>1 DEF OpToRel
  <2> QED
    BY <2>1
<1> QED
  BY <1>2

\* Any step can be iterated: what the recursive functions of the model rest on.
StepsIn(A, F, n) == \A x \in A, i \in 1..n : F[<<x, i>>] \in A
Iterated(f, A, a, F, n) ==
  f \in [0..n -> A] /\ f[0] = a /\ \A i \in 1..n : f[i] = F[<<f[i - 1], i>>]

LEMMA Iterates ==
  ASSUME NEW A, NEW a \in A, NEW n \in Nat, NEW F, StepsIn(A, F, n)
  PROVE  \E f : Iterated(f, A, a, F, n)
<1> USE DEF StepsIn, Iterated
<1> DEFINE Is(f, j) == Iterated(f, A, a, F, j)
           S == {j \in Nat : j <= n /\ ~\E f : Is(f, j)}
<1>1. S = {}
  <2> SUFFICES ASSUME S # {} PROVE FALSE
    OBVIOUS
  <2>1. PICK j \in S : \A i \in S : j <= i
    BY LeastOfSome
  <2>2. CASE j = 0
    <3>1. Is([i \in 0..0 |-> a], 0)
      OBVIOUS
    <3> QED
      BY <2>1, <2>2, <3>1
  <2>3. CASE j # 0
    <3>0. j \in Nat /\ j <= n /\ j - 1 \in Nat /\ j \in 1..n /\ j - 1 <= n
      BY <2>1, <2>3
    <3>1. j - 1 \notin S
      <4> HIDE DEF S
      <4> QED
        BY <2>1, <3>0
    <3>2. PICK f : Is(f, j - 1)
      BY <3>0, <3>1
    <3>3. f[j - 1] \in A
      BY <3>0, <3>2
    <3>4. F[<<f[j - 1], j>>] \in A
      BY <3>0, <3>3
    <3> DEFINE g == [i \in 0..j |-> IF i = j THEN F[<<f[j - 1], j>>] ELSE f[i]]
    <3>5. g \in [0..j -> A] /\ g[0] = a
      BY <3>0, <3>2, <3>4
    <3>6. ASSUME NEW i \in 1..j PROVE g[i] = F[<<g[i - 1], i>>]
      <4>1. i - 1 \in 0..j /\ i - 1 # j /\ i \in 0..j /\ (i # j => i \in 1..(j - 1))
        BY <3>0
      <4>2. g[i - 1] = f[i - 1]
        BY <4>1
      <4>3. CASE i = j
        BY <4>1, <4>2, <4>3
      <4>4. CASE i # j
        BY <3>2, <4>1, <4>2, <4>4
      <4> QED
        BY <4>3, <4>4
    <3>7. Is(g, j)
      <4> HIDE DEF g
      <4> QED
        BY <3>5, <3>6
    <3> QED
      BY <2>1, <3>7
  <2> QED
    BY <2>2, <2>3
<1>2. \E f : Is(f, n)
  <2> HIDE DEF Is
  <2>1. n \notin S
    BY <1>1
  <2> QED
    BY <2>1
<1> QED
  BY <1>2

\* The bucket of a time, and where it begins.
LEMMA BucketOf ==
  ASSUME NEW t \in Nat
  PROVE  /\ Slot(t) \in Slots /\ Start(t) \in Nat
         /\ Start(t) <= t /\ t < Start(t) + BucketTime
         /\ Start(t) % BucketTime = 0
         /\ Window \in Nat /\ BucketTime <= Window /\ BucketTime \in Nat \ {0}
<1>0. BucketTime \in Nat \ {0} /\ Buckets \in Nat \ {0}
  BY ObserversAssumption
<1>1. t % BucketTime \in 0..(BucketTime - 1) /\ t \div BucketTime \in Nat
  BY <1>0
<1>2. t = BucketTime * (t \div BucketTime) + (t % BucketTime)
  BY <1>0
<1>3. Slot(t) \in Slots
  <2> DEFINE q == t \div BucketTime
  <2>1. q \in Nat
    BY <1>1
  <2> HIDE DEF q
  <2>2. q % Buckets \in 0..(Buckets - 1)
    BY <1>0, <2>1
  <2> QED
    BY <2>2 DEF Slot, Slots, q
<1>4. Start(t) = BucketTime * (t \div BucketTime) /\ Start(t) \in Nat
  <2>1. Start(t) = t - (t % BucketTime)
    BY DEF Start
  <2>2. BucketTime * (t \div BucketTime) \in Nat
    BY <1>0, <1>1
  <2> QED
    BY <1>1, <1>2, <2>1, <2>2
<1>5. Start(t) <= t /\ t < Start(t) + BucketTime
  BY <1>0, <1>1 DEF Start
<1>6. Start(t) % BucketTime = 0
  <2>1. \A q \in Nat, d \in Nat \ {0} : (d * q) % d = 0
    OBVIOUS
  <2> QED
    BY <1>0, <1>1, <1>4, <2>1
<1>7. Window \in Nat /\ BucketTime <= Window
  <2>1. \A m, n \in Nat \ {0} : m * n \in Nat /\ n <= m * n
    <3>1. ASSUME NEW m \in Nat \ {0}, NEW n \in Nat \ {0} PROVE m * n \in Nat /\ n <= m * n
      <4>1. PICK x \in Nat : m = x + 1
        <5>1. m - 1 \in Nat /\ m = (m - 1) + 1
          OBVIOUS
        <5> QED
          BY <5>1
      <4>2. m * n = x * n + n /\ x * n \in Nat
        BY <4>1
      <4> QED
        BY <4>2
    <3> QED
      BY <3>1
  <2> QED
    BY <1>0, <2>1 DEF Window
<1> QED
  BY <1>0, <1>3, <1>4, <1>5, <1>6, <1>7

\* Two times that share a slot, but not its round, are a window apart.
LEMMA NextRound ==
  ASSUME NEW x \in Nat, NEW t \in Nat, x <= t, Slot(x) = Slot(t), Start(x) # Start(t)
  PROVE  Start(x) + Window <= Start(t)
<1>0. BucketTime \in Nat \ {0} /\ Buckets \in Nat \ {0}
  BY ObserversAssumption
<1> DEFINE q == x \div BucketTime
           r == t \div BucketTime
<1>1. /\ q \in Nat /\ r \in Nat
      /\ x = BucketTime * q + (x % BucketTime) /\ t = BucketTime * r + (t % BucketTime)
      /\ x % BucketTime \in 0..(BucketTime - 1) /\ t % BucketTime \in 0..(BucketTime - 1)
  BY <1>0
<1>2. q % Buckets = r % Buckets
  BY DEF Slot
<1>3. Start(x) = x - (x % BucketTime) /\ Start(t) = t - (t % BucketTime)
  BY DEF Start
<1> HIDE DEF q, r
<1>4. BucketTime * q \in Nat /\ BucketTime * r \in Nat
  BY <1>0, <1>1
<1>5. Start(x) = BucketTime * q /\ Start(t) = BucketTime * r
  BY <1>1, <1>3, <1>4
<1>6. q # r
  BY <1>5
<1>7. q < r
  <2> SUFFICES ASSUME r < q PROVE FALSE
    BY <1>1, <1>6
  <2>1. PICK d \in Nat : q = r + 1 + d
    <3>1. q - r - 1 \in Nat /\ q = r + 1 + (q - r - 1)
      BY <1>1
    <3> QED
      BY <3>1
  <2>2. BucketTime * q = BucketTime * r + BucketTime + BucketTime * d
        /\ BucketTime * d \in Nat
    BY <1>0, <1>1, <2>1
  <2>3. BucketTime * q >= BucketTime * r + BucketTime
    BY <1>0, <1>4, <2>2
  <2> QED
    BY <1>0, <1>1, <1>4, <2>3
<1>8. r >= q + Buckets
  <2> DEFINE c == q \div Buckets
             d == r \div Buckets
             m == q % Buckets
  <2>1. /\ c \in Nat /\ d \in Nat /\ q = Buckets * c + m /\ r = Buckets * d + m
        /\ m \in 0..(Buckets - 1)
    BY <1>0, <1>1, <1>2
  <2> HIDE DEF c, d, m
  <2>2. Buckets * c \in Nat /\ Buckets * d \in Nat
    BY <1>0, <2>1
  <2>3. Buckets * c < Buckets * d
    BY <1>1, <1>7, <2>1, <2>2
  <2>4. c < d
    <3> SUFFICES ASSUME d <= c PROVE FALSE
      BY <2>1
    <3>1. PICK e \in Nat : c = d + e
      <4>1. c - d \in Nat /\ c = d + (c - d)
        BY <2>1
      <4> QED
        BY <4>1
    <3>2. Buckets * c = Buckets * d + Buckets * e /\ Buckets * e \in Nat
      BY <1>0, <2>1, <3>1
    <3> QED
      BY <2>2, <2>3, <3>2
  <2>5. PICK e \in Nat : d = c + 1 + e
    <3>1. d - c - 1 \in Nat /\ d = c + 1 + (d - c - 1)
      BY <2>1, <2>4
    <3> QED
      BY <3>1
  <2>6. Buckets * d = Buckets * c + Buckets + Buckets * e /\ Buckets * e \in Nat
    BY <1>0, <2>1, <2>5
  <2> QED
    BY <1>0, <1>1, <2>1, <2>2, <2>6
<1>9. PICK e \in Nat : r = q + Buckets + e
  <2>1. r - q - Buckets \in Nat /\ r = q + Buckets + (r - q - Buckets)
    BY <1>0, <1>1, <1>8
  <2> QED
    BY <2>1
<1>10. BucketTime * r = BucketTime * q + Buckets * BucketTime + BucketTime * e
       /\ BucketTime * e \in Nat /\ Buckets * BucketTime \in Nat
  BY <1>0, <1>1, <1>9
<1> QED
  BY <1>4, <1>5, <1>10 DEF Window

\* A time of which another bucket that far on is not past has the bucket still.
LEMMA SlotsApart ==
  ASSUME NEW x \in Nat, NEW t \in Nat, x <= t, Slot(x) = Slot(t)
  PROVE  Start(x) = Start(t) \/ Start(x) + Window <= t
<1>1. Start(x) # Start(t) => Start(x) + Window <= Start(t)
  BY NextRound
<1>2. Start(x) \in Nat /\ Start(t) \in Nat /\ Start(t) <= t /\ Window \in Nat
  BY BucketOf
<1> QED
  BY <1>1, <1>2

LEMMA Upward ==
  ASSUME NEW n \in Nat, NEW S, 0 \in S, \A i \in 1..n : i - 1 \in S => i \in S
  PROVE  \A i \in 0..n : i \in S
<1> DEFINE T == {i \in Nat : i <= n /\ i \notin S}
<1>1. T = {}
  <2> SUFFICES ASSUME T # {} PROVE FALSE
    OBVIOUS
  <2>1. PICK i \in T : \A j \in T : i <= j
    BY LeastOfSome
  <2>2. i # 0
    BY <2>1
  <2>3. i \in 1..n /\ i - 1 \in Nat /\ i - 1 <= n /\ ~(i <= i - 1)
    BY <2>1, <2>2
  <2>4. i - 1 \notin T
    <3> HIDE DEF T
    <3> QED
      BY <2>1, <2>3
  <2>5. i - 1 \in S
    BY <2>3, <2>4
  <2> QED
    BY <2>1, <2>3, <2>5
<1> QED
  BY <1>1

\* The counts of a key, added up bucket by bucket.
Summing(ring, key) ==
  CHOOSE sum : sum = [i \in 0..Buckets |-> IF i = 0 THEN 0
                                           ELSE sum[i - 1] + ring[i - 1].count[key]]

LEMMA Sums ==
  ASSUME NEW ring, NEW key, \A i \in Slots : ring[i].count[key] \in Nat
  PROVE  \E sum \in [0..Buckets -> Nat] :
           /\ sum[0] = 0
           /\ \A i \in 1..Buckets : sum[i] = sum[i - 1] + ring[i - 1].count[key]
           /\ Counted(ring, key) = sum[Buckets]
<1>0. Buckets \in Nat \ {0}
  BY ObserversAssumption
<1>a. \A i \in 1..Buckets : i - 1 \in Slots
  BY <1>0 DEF Slots
<1> DEFINE F == [p \in Nat \X (1..Buckets) |-> p[1] + ring[p[2] - 1].count[key]]
<1>1. StepsIn(Nat, F, Buckets)
  BY <1>a DEF StepsIn
<1>2. \A x \in Nat, i \in 1..Buckets : F[<<x, i>>] = x + ring[i - 1].count[key]
  OBVIOUS
<1> HIDE DEF F
<1>3. PICK f \in [0..Buckets -> Nat] :
        f[0] = 0 /\ \A i \in 1..Buckets : f[i] = F[<<f[i - 1], i>>]
  <2>1. Buckets \in Nat /\ 0 \in Nat
    BY <1>0
  <2>2. \E f : Iterated(f, Nat, 0, F, Buckets)
    BY <1>1, <2>1, Iterates
  <2> QED
    BY <2>2 DEF Iterated
<1>4. ASSUME NEW i \in 1..Buckets PROVE f[i] = f[i - 1] + ring[i - 1].count[key]
  <2>1. i - 1 \in 0..Buckets
    BY <1>0
  <2>2. f[i - 1] \in Nat
    BY <2>1
  <2> QED
    BY <1>2, <1>3, <2>2
<1>5. \A i \in 0..Buckets : f[i] = IF i = 0 THEN 0 ELSE f[i - 1] + ring[i - 1].count[key]
  <2>1. \A i \in 0..Buckets : i # 0 => i \in 1..Buckets
    OBVIOUS
  <2> QED
    BY <1>3, <1>4, <2>1
<1>6. f = [i \in 0..Buckets |-> IF i = 0 THEN 0 ELSE f[i - 1] + ring[i - 1].count[key]]
  BY <1>5
<1> DEFINE s == Summing(ring, key)
<1>7. s = [i \in 0..Buckets |-> IF i = 0 THEN 0 ELSE s[i - 1] + ring[i - 1].count[key]]
  BY <1>6 DEF Summing
<1>8. Counted(ring, key) = s[Buckets]
  BY DEF Counted, Summing
<1> HIDE DEF s
<1>9. /\ s[0] = 0
      /\ \A i \in 1..Buckets : s[i] = s[i - 1] + ring[i - 1].count[key]
  <2>1. \A i \in 0..Buckets : s[i] = IF i = 0 THEN 0 ELSE s[i - 1] + ring[i - 1].count[key]
    BY <1>7
  <2>2. 0 \in 0..Buckets /\ \A i \in 1..Buckets : i \in 0..Buckets /\ i # 0
    BY <1>0
  <2> QED
    BY <2>1, <2>2
<1>10. \A i \in 0..Buckets : i \in {j \in 0..Buckets : s[j] \in Nat}
  <2> DEFINE T == {j \in 0..Buckets : s[j] \in Nat}
  <2>1. 0 \in T
    BY <1>0, <1>9
  <2>2. ASSUME NEW i \in 1..Buckets, i - 1 \in T PROVE i \in T
    <3>1. s[i - 1] \in Nat /\ ring[i - 1].count[key] \in Nat /\ i \in 0..Buckets
      BY <1>a, <2>2
    <3> QED
      BY <1>9, <3>1
  <2> HIDE DEF T
  <2>3. \A i \in 0..Buckets : i \in T
    BY <1>0, <2>1, <2>2, Upward
  <2> QED
    BY <2>3 DEF T
<1>11. s \in [0..Buckets -> Nat]
  BY <1>7, <1>10
<1> QED
  BY <1>8, <1>9, <1>11

\* A key counts nothing if none of its buckets has it, and at least what any has.
LEMMA CountedFacts ==
  ASSUME NEW ring, NEW key, \A i \in Slots : ring[i].count[key] \in Nat
  PROVE  /\ Counted(ring, key) \in Nat
         /\ \A i \in Slots : ring[i].count[key] <= Counted(ring, key)
         /\ (\A i \in Slots : ring[i].count[key] = 0) => Counted(ring, key) = 0
<1>0. Buckets \in Nat \ {0}
  BY ObserversAssumption
<1>a. /\ \A i \in 1..Buckets : i - 1 \in Slots /\ i - 1 \in 0..Buckets /\ i \in 0..Buckets
      /\ \A i \in Slots : i + 1 \in 1..Buckets /\ (i + 1) - 1 = i
      /\ Slots \subseteq Nat
  BY <1>0 DEF Slots
<1>1. PICK sum \in [0..Buckets -> Nat] :
        /\ sum[0] = 0
        /\ \A i \in 1..Buckets : sum[i] = sum[i - 1] + ring[i - 1].count[key]
        /\ Counted(ring, key) = sum[Buckets]
  BY Sums
<1> DEFINE T == {j \in 0..Buckets : /\ \A i \in Slots : i < j => ring[i].count[key] <= sum[j]
                                    /\ (\A i \in Slots : ring[i].count[key] = 0) => sum[j] = 0}
<1>2. 0 \in T
  BY <1>0, <1>1, <1>a
<1>3. ASSUME NEW j \in 1..Buckets, j - 1 \in T PROVE j \in T
  <2>1. /\ sum[j] = sum[j - 1] + ring[j - 1].count[key]
        /\ sum[j] \in Nat /\ sum[j - 1] \in Nat /\ ring[j - 1].count[key] \in Nat
        /\ j - 1 \in Slots
    BY <1>1, <1>a
  <2>2. ASSUME NEW i \in Slots, i < j PROVE ring[i].count[key] <= sum[j]
    <3>1. i < j - 1 \/ i = j - 1
      BY <1>a, <2>2
    <3>2. i < j - 1 => ring[i].count[key] <= sum[j - 1]
      BY <1>3
    <3> QED
      BY <2>1, <3>1, <3>2
  <2>3. (\A i \in Slots : ring[i].count[key] = 0) => sum[j] = 0
    BY <1>3, <2>1
  <2> QED
    BY <1>a, <2>2, <2>3
<1> HIDE DEF T
<1>4. \A j \in 0..Buckets : j \in T
  BY <1>0, <1>2, <1>3, Upward
<1>5. Buckets \in T
  BY <1>0, <1>4
<1>6. \A i \in Slots : i < Buckets
  BY <1>0 DEF Slots
<1> QED
  BY <1>0, <1>1, <1>5, <1>6 DEF T

\* If each bucket counts the members of M that fall to it, they all count them all.
CountsBy(ring, key, M, g) ==
  \A i \in Slots : ring[i].count[key] = Cardinality({n \in M : g[n] = i})

LEMMA CountedIs ==
  ASSUME NEW ring, NEW key, NEW M, IsFiniteSet(M), NEW g \in [M -> Slots],
         CountsBy(ring, key, M, g)
  PROVE  Counted(ring, key) = Cardinality(M)
<1> USE DEF CountsBy
<1>0. Buckets \in Nat \ {0}
  BY ObserversAssumption
<1>a. \A i \in 1..Buckets : i - 1 \in Slots /\ i - 1 \in 0..Buckets /\ i \in 0..Buckets
  BY <1>0 DEF Slots
<1>b. \A n \in M : g[n] \in Nat /\ ~(g[n] < 0) /\ g[n] < Buckets
  BY <1>0 DEF Slots
<1> DEFINE At(i) == {n \in M : g[n] = i}
           Upto(i) == {n \in M : g[n] < i}
<1>c. \A i : IsFiniteSet(At(i)) /\ IsFiniteSet(Upto(i))
  BY FS_Subset
<1>d. \A i \in Slots : ring[i].count[key] \in Nat
  BY <1>c, FS_CardinalityType
<1>1. PICK sum \in [0..Buckets -> Nat] :
        /\ sum[0] = 0
        /\ \A i \in 1..Buckets : sum[i] = sum[i - 1] + ring[i - 1].count[key]
        /\ Counted(ring, key) = sum[Buckets]
  BY <1>d, Sums
<1> DEFINE T == {j \in 0..Buckets : sum[j] = Cardinality(Upto(j))}
<1>2. 0 \in T
  <2>1. Upto(0) = {}
    BY <1>b
  <2>2. 0 \in 0..Buckets
    BY <1>0
  <2> HIDE DEF Upto
  <2> QED
    BY <1>1, <2>1, <2>2, FS_EmptySet
<1>3. ASSUME NEW j \in 1..Buckets, j - 1 \in T PROVE j \in T
  <2>1. Upto(j) = Upto(j - 1) \cup At(j - 1) /\ Upto(j - 1) \cap At(j - 1) = {}
    BY <1>b
  <2>2. /\ sum[j - 1] = Cardinality(Upto(j - 1))
        /\ ring[j - 1].count[key] = Cardinality(At(j - 1))
        /\ sum[j] = sum[j - 1] + ring[j - 1].count[key]
    BY <1>1, <1>3, <1>a
  <2> HIDE DEF At, Upto
  <2>3. Cardinality(Upto(j)) = Cardinality(Upto(j - 1)) + Cardinality(At(j - 1)) - 0
    BY <1>c, <2>1, FS_Union, FS_EmptySet
  <2>4. Cardinality(Upto(j - 1)) \in Nat /\ Cardinality(At(j - 1)) \in Nat
    BY <1>c, FS_CardinalityType
  <2>5. sum[j] = Cardinality(Upto(j))
    BY <2>2, <2>3, <2>4
  <2> QED
    BY <1>a, <2>5
<1>4. Upto(Buckets) = M
  BY <1>b
<1> HIDE DEF T
<1>5. \A j \in 0..Buckets : j \in T
  BY <1>0, <1>2, <1>3, Upward
<1>6. Buckets \in T
  BY <1>0, <1>5
<1> QED
  BY <1>1, <1>4, <1>6 DEF T

\* Some keys of a list, in their order.
Picking(seq, S) ==
  CHOOSE those : those = [i \in 0..Len(seq) |->
                            IF i = 0 THEN <<>>
                            ELSE IF seq[i] \in S THEN Append(those[i - 1], seq[i])
                            ELSE those[i - 1]]

LEMMA Picks ==
  ASSUME NEW seq \in Seq(Keys), NEW S
  PROVE  \E f : /\ f[0] = <<>>
                /\ \A i \in 1..Len(seq) :
                     f[i] = IF seq[i] \in S THEN Append(f[i - 1], seq[i]) ELSE f[i - 1]
                /\ Those(seq, S) = f[Len(seq)]
<1>0. Len(seq) \in Nat /\ \A i \in 1..Len(seq) : seq[i] \in Keys
  OBVIOUS
<1> DEFINE F == [p \in Seq(Keys) \X (1..Len(seq)) |->
                   IF seq[p[2]] \in S THEN Append(p[1], seq[p[2]]) ELSE p[1]]
<1>1. \A x \in Seq(Keys), i \in 1..Len(seq) :
        F[<<x, i>>] = IF seq[i] \in S THEN Append(x, seq[i]) ELSE x
  OBVIOUS
<1>2. ASSUME NEW x \in Seq(Keys), NEW i \in 1..Len(seq) PROVE F[<<x, i>>] \in Seq(Keys)
  <2>1. Append(x, seq[i]) \in Seq(Keys)
    BY <1>0
  <2> HIDE DEF F
  <2> QED
    BY <1>1, <2>1
<1> HIDE DEF F
<1>3. PICK f : Iterated(f, Seq(Keys), <<>>, F, Len(seq))
  <2>1. <<>> \in Seq(Keys) /\ StepsIn(Seq(Keys), F, Len(seq))
    BY <1>2 DEF StepsIn
  <2> QED
    BY <1>0, <2>1, Iterates
<1>4. f \in [0..Len(seq) -> Seq(Keys)] /\ f[0] = <<>>
  BY <1>3 DEF Iterated
<1>5. ASSUME NEW i \in 1..Len(seq)
      PROVE  f[i] = IF seq[i] \in S THEN Append(f[i - 1], seq[i]) ELSE f[i - 1]
  <2>1. i - 1 \in 0..Len(seq)
    BY <1>0
  <2>2. f[i - 1] \in Seq(Keys)
    BY <1>4, <2>1
  <2>3. f[i] = F[<<f[i - 1], i>>]
    BY <1>3 DEF Iterated
  <2> QED
    BY <1>1, <2>2, <2>3
<1>6. \A i \in 0..Len(seq) : f[i] = IF i = 0 THEN <<>>
                                    ELSE IF seq[i] \in S THEN Append(f[i - 1], seq[i])
                                    ELSE f[i - 1]
  <2>1. \A i \in 0..Len(seq) : i # 0 => i \in 1..Len(seq)
    OBVIOUS
  <2> QED
    BY <1>4, <1>5, <2>1
<1>7. f = [i \in 0..Len(seq) |-> IF i = 0 THEN <<>>
                                 ELSE IF seq[i] \in S THEN Append(f[i - 1], seq[i])
                                 ELSE f[i - 1]]
  BY <1>4, <1>6
<1> DEFINE s == Picking(seq, S)
<1>8. s = [i \in 0..Len(seq) |-> IF i = 0 THEN <<>>
                                 ELSE IF seq[i] \in S THEN Append(s[i - 1], seq[i])
                                 ELSE s[i - 1]]
  BY <1>7 DEF Picking
<1>9. Those(seq, S) = s[Len(seq)]
  BY DEF Those, Picking
<1> HIDE DEF s
<1>10. \A i \in 0..Len(seq) : s[i] = IF i = 0 THEN <<>>
                                     ELSE IF seq[i] \in S THEN Append(s[i - 1], seq[i])
                                     ELSE s[i - 1]
  BY <1>8
<1>11. 0 \in 0..Len(seq) /\ \A i \in 1..Len(seq) : i \in 0..Len(seq) /\ i # 0
  BY <1>0
<1> QED
  BY <1>9, <1>10, <1>11

LEMMA ThoseOf ==
  ASSUME NEW seq \in Seq(Keys), NEW S
  PROVE  /\ Those(seq, S) \in Seq(Keys) /\ Len(Those(seq, S)) <= Len(seq)
         /\ \A x : x \in Range(Those(seq, S)) <=> x \in Range(seq) /\ x \in S
         /\ IsInjective(seq) => IsInjective(Those(seq, S))
<1>0. Len(seq) \in Nat /\ DOMAIN seq = 1..Len(seq) /\ \A i \in 1..Len(seq) : seq[i] \in Keys
  OBVIOUS
<1>1. PICK f : /\ f[0] = <<>>
               /\ \A i \in 1..Len(seq) :
                    f[i] = IF seq[i] \in S THEN Append(f[i - 1], seq[i]) ELSE f[i - 1]
               /\ Those(seq, S) = f[Len(seq)]
  BY Picks
<1> DEFINE Has(g, i) == \A x : (\E h \in 1..Len(g) : g[h] = x)
                                 <=> x \in S /\ \E h \in 1..i : seq[h] = x
           Single(g) == \A a, b \in 1..Len(g) : g[a] = g[b] => a = b
           T == {i \in 0..Len(seq) : /\ f[i] \in Seq(Keys) /\ Len(f[i]) <= i
                                     /\ Has(f[i], i)
                                     /\ IsInjective(seq) => Single(f[i])}
<1>2. 0 \in T
  <2>1. f[0] \in Seq(Keys) /\ Len(f[0]) = 0 /\ 1..0 = {} /\ 0 \in 0..Len(seq)
    BY <1>0, <1>1
  <2> QED
    BY <2>1
<1>3. ASSUME NEW i \in 1..Len(seq), i - 1 \in T PROVE i \in T
  <2> DEFINE g == f[i - 1]
  <2>1. /\ g \in Seq(Keys) /\ Len(g) <= i - 1 /\ Has(g, i - 1)
        /\ IsInjective(seq) => Single(g)
        /\ f[i] = IF seq[i] \in S THEN Append(g, seq[i]) ELSE g
    BY <1>1, <1>3
  <2>2. i \in 0..Len(seq) /\ Len(g) \in Nat /\ i \in Nat /\ seq[i] \in Keys
        /\ \A h : h \in 1..i <=> h \in 1..(i - 1) \/ h = i
    BY <1>0, <2>1
  <2> HIDE DEF g
  <2>3. CASE seq[i] \notin S
    <3>1. f[i] = g /\ Len(g) <= i
      BY <2>1, <2>2, <2>3
    <3>2. Has(g, i)
      BY <2>1, <2>2, <2>3
    <3> QED
      BY <2>1, <2>2, <3>1, <3>2
  <2>4. CASE seq[i] \in S
    <3> DEFINE l == Append(g, seq[i])
    <3>1. /\ l \in Seq(Keys) /\ Len(l) = Len(g) + 1 /\ l[Len(g) + 1] = seq[i]
          /\ \A h \in 1..Len(g) : l[h] = g[h]
          /\ \A h : h \in 1..Len(l) <=> h \in 1..Len(g) \/ h = Len(g) + 1
      BY <2>1, <2>2
    <3>2. f[i] = l
      BY <2>1, <2>4
    <3> HIDE DEF l
    <3>3. Has(l, i)
      <4>1. ASSUME NEW x
            PROVE  (\E h \in 1..Len(l) : l[h] = x) <=> (\E h \in 1..Len(g) : g[h] = x) \/ x = seq[i]
        BY <3>1
      <4>2. ASSUME NEW x
            PROVE  (\E h \in 1..i : seq[h] = x) <=> (\E h \in 1..(i - 1) : seq[h] = x) \/ x = seq[i]
        BY <2>2
      <4> QED
        BY <2>1, <2>4, <4>1, <4>2
    <3>4. ASSUME IsInjective(seq) PROVE Single(l)
      <4>1. \A h \in 1..(i - 1) : seq[h] # seq[i]
        <5>1. \A h \in 1..(i - 1) : h \in DOMAIN seq /\ h # i
          BY <1>0, <2>2
        <5> QED
          BY <1>0, <3>4, <5>1 DEF IsInjective
      <4>2. \A h \in 1..Len(g) : g[h] # seq[i]
        BY <2>1, <4>1
      <4>3. Single(g)
        BY <2>1, <3>4
      <4> QED
        BY <3>1, <4>2, <4>3
    <3>5. Len(l) <= i
      BY <2>1, <2>2, <3>1
    <3> HIDE DEF Has, Single
    <3> QED
      BY <2>2, <3>1, <3>2, <3>3, <3>4, <3>5
  <2> QED
    BY <2>3, <2>4
<1> HIDE DEF T
<1>4. Len(seq) \in T
  <2>1. \A i \in 0..Len(seq) : i \in T
    BY <1>0, <1>2, <1>3, Upward
  <2> QED
    BY <1>0, <2>1
<1> DEFINE l == Those(seq, S)
<1>5. l \in Seq(Keys) /\ Len(l) <= Len(seq) /\ Has(l, Len(seq))
      /\ (IsInjective(seq) => Single(l))
  BY <1>1, <1>4 DEF T
<1> HIDE DEF l
<1>6. DOMAIN l = 1..Len(l)
  BY <1>5
<1>7. \A x : x \in Range(l) <=> x \in Range(seq) /\ x \in S
  <2>1. \A x : x \in Range(l) <=> \E h \in 1..Len(l) : l[h] = x
    BY <1>6 DEF Range
  <2>2. \A x : x \in Range(seq) <=> \E h \in 1..Len(seq) : seq[h] = x
    BY <1>0 DEF Range
  <2> QED
    BY <1>5, <2>1, <2>2
<1>8. IsInjective(seq) => IsInjective(l)
  BY <1>5, <1>6 DEF IsInjective
<1> QED
  BY <1>5, <1>7, <1>8 DEF l

\* The rings.
Ring == {r \in [Slots -> [start: Nat, count: [Keys -> Nat]]] :
           \A i \in Slots : r[i].start % BucketTime = 0}

LEMMA RingFields ==
  ASSUME NEW ring \in Ring, NEW i \in Slots
  PROVE  /\ ring[i] \in [start: Nat, count: [Keys -> Nat]]
         /\ ring[i].start \in Nat /\ ring[i].start % BucketTime = 0
         /\ ring[i].count \in [Keys -> Nat]
         /\ \A key \in Keys : ring[i].count[key] \in Nat
<1>1. ring[i] \in [start: Nat, count: [Keys -> Nat]] /\ ring[i].start % BucketTime = 0
  BY DEF Ring
<1> QED
  BY <1>1

LEMMA NewRingIs ==
  /\ NewRing \in Ring
  /\ \A i \in Slots : NewRing[i].start = 0 /\ \A key \in Keys : NewRing[i].count[key] = 0
<1>1. Nothing \in [Keys -> Nat] /\ \A key \in Keys : Nothing[key] = 0
  BY DEF Nothing
<1>2. 0 % BucketTime = 0
  BY ObserversAssumption
<1>3. \A i \in Slots : NewRing[i] = [start |-> 0, count |-> Nothing]
  BY DEF NewRing
<1>4. NewRing \in [Slots -> [start: Nat, count: [Keys -> Nat]]]
  BY <1>1 DEF NewRing
<1> QED
  BY <1>1, <1>2, <1>3, <1>4 DEF Ring

LEMMA RotatedIs ==
  ASSUME NEW ring \in Ring, NEW t \in Nat
  PROVE  /\ Rotated(ring, t) \in Ring
         /\ Rotated(ring, t)[Slot(t)].start = Start(t)
         /\ \A i \in Slots :
              \/ Rotated(ring, t)[i] = ring[i]
              \/ /\ i = Slot(t) /\ ring[i].start # Start(t)
                 /\ \A key \in Keys : Rotated(ring, t)[i].count[key] = 0
<1>1. Slot(t) \in Slots /\ Start(t) \in Nat /\ Start(t) % BucketTime = 0
  BY BucketOf
<1> DEFINE b == [start |-> Start(t), count |-> Nothing]
<1>2. b \in [start: Nat, count: [Keys -> Nat]] /\ b.start = Start(t)
      /\ \A key \in Keys : b.count[key] = 0
  BY <1>1 DEF Nothing
<1>3. ring \in [Slots -> [start: Nat, count: [Keys -> Nat]]]
      /\ \A i \in Slots : ring[i].start % BucketTime = 0
  BY DEF Ring
<1> DEFINE r == [ring EXCEPT ![Slot(t)] = b]
<1>4. Rotated(ring, t) = IF ring[Slot(t)].start # Start(t) THEN r ELSE ring
  BY DEF Rotated
<1> HIDE DEF b
<1>5. /\ r \in [Slots -> [start: Nat, count: [Keys -> Nat]]]
      /\ r[Slot(t)] = b /\ \A i \in Slots : i # Slot(t) => r[i] = ring[i]
  BY <1>1, <1>2, <1>3
<1> HIDE DEF r
<1>6. \A i \in Slots : r[i].start % BucketTime = 0
  BY <1>1, <1>2, <1>3, <1>5
<1>7. r \in Ring
  BY <1>5, <1>6 DEF Ring
<1>8. CASE ring[Slot(t)].start # Start(t)
  BY <1>1, <1>2, <1>4, <1>5, <1>7, <1>8
<1>9. CASE ring[Slot(t)].start = Start(t)
  BY <1>4, <1>9
<1> QED
  BY <1>8, <1>9

\* One more access of the key, in one bucket.
OneMore(h, r, s, key) ==
  \A i \in Slots :
    /\ h[i].start = r[i].start
    /\ \A x \in Keys :
         h[i].count[x] = IF i = s /\ x = key THEN r[i].count[x] + 1 ELSE r[i].count[x]

LEMMA HitsIs ==
  ASSUME NEW ring \in Ring, NEW key \in Keys, NEW t \in Nat
  PROVE  /\ Hits(ring, key, t) \in Ring
         /\ OneMore(Hits(ring, key, t), Rotated(ring, t), Slot(t), key)
<1> DEFINE r == Rotated(ring, t)
           s == Slot(t)
           b == [r[s] EXCEPT !.count[key] = @ + 1]
<1>1. r \in Ring /\ s \in Slots
  BY RotatedIs, BucketOf
<1>2. Hits(ring, key, t) = [r EXCEPT ![s].count[key] = @ + 1]
  BY DEF Hits
<1> HIDE DEF r, s
<1>3. r \in [Slots -> [start: Nat, count: [Keys -> Nat]]]
      /\ \A i \in Slots : r[i].start % BucketTime = 0
  BY <1>1 DEF Ring
<1>4. r[s] \in [start: Nat, count: [Keys -> Nat]] /\ r[s].count \in [Keys -> Nat]
      /\ r[s].count[key] \in Nat
  BY <1>1, RingFields
<1>5. /\ b \in [start: Nat, count: [Keys -> Nat]] /\ b.start = r[s].start
      /\ \A x \in Keys : b.count[x] = IF x = key THEN r[s].count[x] + 1 ELSE r[s].count[x]
  <2>1. [r[s].count EXCEPT ![key] = @ + 1] \in [Keys -> Nat]
    BY <1>4
  <2>2. b = [r[s] EXCEPT !.count = [r[s].count EXCEPT ![key] = @ + 1]]
    BY <1>4
  <2>3. b.start = r[s].start /\ b.count = [r[s].count EXCEPT ![key] = @ + 1]
    BY <1>4, <2>2
  <2>4. b \in [start: Nat, count: [Keys -> Nat]]
    BY <1>4, <2>1, <2>2
  <2> QED
    BY <1>4, <2>3, <2>4
<1> DEFINE h == [r EXCEPT ![s] = b]
<1>6. Hits(ring, key, t) = h
  BY <1>1, <1>2, <1>3
<1> HIDE DEF b
<1>7. /\ h \in [Slots -> [start: Nat, count: [Keys -> Nat]]]
      /\ h[s] = b /\ \A i \in Slots : i # s => h[i] = r[i]
  BY <1>1, <1>3, <1>5
<1> HIDE DEF h
<1>8. \A i \in Slots : h[i].start = r[i].start
  BY <1>5, <1>7
<1>9. h \in Ring
  BY <1>3, <1>7, <1>8 DEF Ring
<1>10. \A i \in Slots, x \in Keys :
         h[i].count[x] = IF i = s /\ x = key THEN r[i].count[x] + 1 ELSE r[i].count[x]
  BY <1>5, <1>7
<1>11. OneMore(h, r, s, key)
  BY <1>8, <1>10 DEF OneMore
<1> QED
  BY <1>6, <1>9, <1>11 DEF r, s

LEMMA WithoutIs ==
  ASSUME NEW ring \in Ring, NEW K
  PROVE  /\ Without(ring, K) \in Ring
         /\ \A i \in Slots :
              /\ Without(ring, K)[i].start = ring[i].start
              /\ \A x \in Keys :
                   Without(ring, K)[i].count[x] = IF x \in K THEN 0 ELSE ring[i].count[x]
<1> DEFINE b(i) == [ring[i] EXCEPT !.count = [x \in Keys |-> IF x \in K THEN 0 ELSE @[x]]]
<1>1. ASSUME NEW i \in Slots
      PROVE  /\ b(i) \in [start: Nat, count: [Keys -> Nat]] /\ b(i).start = ring[i].start
             /\ \A x \in Keys : b(i).count[x] = IF x \in K THEN 0 ELSE ring[i].count[x]
  <2>1. ring[i] \in [start: Nat, count: [Keys -> Nat]]
        /\ \A x \in Keys : ring[i].count[x] \in Nat
    BY RingFields
  <2> DEFINE c == [x \in Keys |-> IF x \in K THEN 0 ELSE ring[i].count[x]]
  <2>2. c \in [Keys -> Nat]
    BY <2>1
  <2>3. b(i) = [ring[i] EXCEPT !.count = c]
    OBVIOUS
  <2>4. b(i).start = ring[i].start /\ b(i).count = c
        /\ b(i) \in [start: Nat, count: [Keys -> Nat]]
    <3> HIDE DEF c, b
    <3> QED
      BY <2>1, <2>2, <2>3
  <2> QED
    BY <2>4
<1>2. Without(ring, K) = [i \in Slots |-> b(i)]
  BY DEF Without
<1> HIDE DEF b
<1>3. Without(ring, K) \in [Slots -> [start: Nat, count: [Keys -> Nat]]]
      /\ \A i \in Slots : Without(ring, K)[i] = b(i)
  BY <1>1, <1>2
<1>4. \A i \in Slots : ring[i].start % BucketTime = 0
  BY RingFields
<1> QED
  BY <1>1, <1>3, <1>4 DEF Ring

LEMMA FreshIs ==
  ASSUME NEW ring \in Ring, NEW t
  PROVE  /\ Fresh(ring, t) \in Ring
         /\ \A i \in Slots :
              /\ ring[i].start + Window < t =>
                   /\ Fresh(ring, t)[i].start = 0
                   /\ \A key \in Keys : Fresh(ring, t)[i].count[key] = 0
              /\ ~(ring[i].start + Window < t) => Fresh(ring, t)[i] = ring[i]
<1> DEFINE o == [start |-> 0, count |-> Nothing]
<1>1. /\ o \in [start: Nat, count: [Keys -> Nat]] /\ o.start = 0
      /\ \A key \in Keys : o.count[key] = 0
  BY DEF Nothing
<1>2. 0 % BucketTime = 0
  BY ObserversAssumption
<1>3. Fresh(ring, t) = [i \in Slots |-> IF ring[i].start + Window < t THEN o ELSE ring[i]]
  BY DEF Fresh
<1> HIDE DEF o
<1>4. \A i \in Slots : ring[i] \in [start: Nat, count: [Keys -> Nat]]
                       /\ ring[i].start % BucketTime = 0
  BY RingFields
<1>5. \A i \in Slots : Fresh(ring, t)[i] = IF ring[i].start + Window < t THEN o ELSE ring[i]
  BY <1>3
<1>6. Fresh(ring, t) \in [Slots -> [start: Nat, count: [Keys -> Nat]]]
  BY <1>1, <1>3, <1>4
<1>7. \A i \in Slots : Fresh(ring, t)[i].start % BucketTime = 0
  BY <1>1, <1>2, <1>4, <1>5
<1> QED
  BY <1>1, <1>5, <1>6, <1>7 DEF Ring

LEMMA KeysInIs ==
  ASSUME NEW ring \in Ring
  PROVE  \A x : x \in KeysIn(ring) <=> x \in Keys /\ \E i \in Slots : ring[i].count[x] > 0
<1>1. ASSUME NEW x \in Keys
      PROVE  Counted(ring, x) > 0 <=> \E i \in Slots : ring[i].count[x] > 0
  <2>1. \A i \in Slots : ring[i].count[x] \in Nat
    BY RingFields
  <2>2. /\ Counted(ring, x) \in Nat
        /\ \A i \in Slots : ring[i].count[x] <= Counted(ring, x)
        /\ (\A i \in Slots : ring[i].count[x] = 0) => Counted(ring, x) = 0
    BY <2>1, CountedFacts
  <2> QED
    BY <2>1, <2>2
<1> QED
  BY <1>1 DEF KeysIn

-----------------------------------------------------------------------------
(* The detector: its ring, the times of the records, and the clock.  A bucket counts *)
(* the records of its round; a record whose bucket was reused is past the window.    *)

FallTo(l, i, s) == {n \in 1..Len(l) : Slot(l[n]) = i /\ Start(l[n]) = s}

Stands(ring, x, t) == ring[Slot(x)].start = Start(x) \/ Start(x) + Window <= t

DetectorOK(ring, log, t) ==
  /\ ring \in Ring /\ log \in [Keys -> Seq(Nat)] /\ t \in Nat
  /\ \A key \in Keys : \A n \in 1..Len(log[key]) :
       /\ BucketTime <= log[key][n] /\ log[key][n] <= t
       /\ Stands(ring, log[key][n], t)
  /\ \A key \in Keys : \A i \in Slots :
       ring[i].count[key] = Cardinality(FallTo(log[key], i, ring[i].start))

LEMMA Logged ==
  ASSUME NEW log \in [Keys -> Seq(Nat)], NEW key \in Keys
  PROVE  /\ log[key] \in Seq(Nat) /\ Len(log[key]) \in Nat
         /\ \A n \in 1..Len(log[key]) : log[key][n] \in Nat
         /\ \A i, s : IsFiniteSet(FallTo(log[key], i, s))
<1>1. log[key] \in Seq(Nat)
  OBVIOUS
<1>2. Len(log[key]) \in Nat /\ \A n \in 1..Len(log[key]) : log[key][n] \in Nat
  BY <1>1
<1>3. IsFiniteSet(1..Len(log[key]))
  BY <1>2, FS_Interval
<1>4. \A i, s : FallTo(log[key], i, s) \in SUBSET (1..Len(log[key]))
  BY DEF FallTo
<1> QED
  BY <1>1, <1>2, <1>3, <1>4, FS_Subset

LEMMA LaterStands ==
  ASSUME NEW ring, NEW log, NEW t, DetectorOK(ring, log, t), NEW u \in Nat, t <= u
  PROVE  DetectorOK(ring, log, u)
<1>1. log \in [Keys -> Seq(Nat)] /\ t \in Nat
  BY DEF DetectorOK
<1>2. ASSUME NEW key \in Keys, NEW n \in 1..Len(log[key])
      PROVE  log[key][n] <= u /\ Stands(ring, log[key][n], u)
  <2>1. log[key][n] \in Nat
    BY <1>1, Logged
  <2>2. Start(log[key][n]) \in Nat /\ Window \in Nat
    BY <2>1, BucketOf
  <2>3. log[key][n] <= t /\ Stands(ring, log[key][n], t)
    BY DEF DetectorOK
  <2>4. Start(log[key][n]) + Window <= t => Start(log[key][n]) + Window <= u
    BY <1>1, <2>2
  <2> QED
    BY <1>1, <2>1, <2>3, <2>4 DEF Stands
<1> QED
  BY <1>2 DEF DetectorOK

LEMMA RotationStands ==
  ASSUME NEW ring, NEW log, NEW t, DetectorOK(ring, log, t)
  PROVE  DetectorOK(Rotated(ring, t), log, t)
<1>0. ring \in Ring /\ log \in [Keys -> Seq(Nat)] /\ t \in Nat
  BY DEF DetectorOK
<1> DEFINE r == Rotated(ring, t)
<1>1. /\ r \in Ring /\ r[Slot(t)].start = Start(t)
      /\ \A i \in Slots :
           \/ r[i] = ring[i]
           \/ /\ i = Slot(t) /\ ring[i].start # Start(t)
              /\ \A key \in Keys : r[i].count[key] = 0
  BY <1>0, RotatedIs
<1> HIDE DEF r
<1>2. Start(t) \in Nat /\ t < Start(t) + BucketTime /\ BucketTime <= Window
      /\ Window \in Nat /\ BucketTime \in Nat
  BY <1>0, BucketOf
<1>3. ~(Start(t) + Window <= t)
  BY <1>0, <1>2
<1>4. ASSUME NEW key \in Keys, NEW n \in 1..Len(log[key])
      PROVE  /\ log[key][n] \in Nat /\ Slot(log[key][n]) \in Slots
             /\ log[key][n] <= t /\ Stands(ring, log[key][n], t)
  <2>1. log[key][n] \in Nat
    BY <1>0, Logged
  <2> QED
    BY <2>1, BucketOf DEF DetectorOK
<1>5. ASSUME NEW key \in Keys, NEW n \in 1..Len(log[key])
      PROVE  Stands(r, log[key][n], t)
  <2> DEFINE x == log[key][n]
  <2>1. x \in Nat /\ Slot(x) \in Slots /\ x <= t /\ Stands(ring, x, t)
    BY <1>4
  <2> HIDE DEF x
  <2>2. ASSUME r[Slot(x)] = ring[Slot(x)] PROVE Stands(r, x, t)
    BY <2>1, <2>2 DEF Stands
  <2>3. ASSUME Slot(x) = Slot(t) PROVE Stands(r, x, t)
    <3>1. Start(x) = Start(t) \/ Start(x) + Window <= t
      BY <1>0, <2>1, <2>3, SlotsApart
    <3> QED
      BY <1>1, <2>3, <3>1 DEF Stands
  <2>4. Stands(r, x, t)
    BY <1>1, <2>1, <2>2, <2>3
  <2> QED
    BY <2>4 DEF x
<1>6. ASSUME NEW key \in Keys, NEW i \in Slots
      PROVE  r[i].count[key] = Cardinality(FallTo(log[key], i, r[i].start))
  <2>1. CASE r[i] = ring[i]
    BY <2>1 DEF DetectorOK
  <2>2. CASE i = Slot(t) /\ ring[i].start # Start(t) /\ r[i].count[key] = 0
    <3>1. ASSUME NEW n \in 1..Len(log[key]), Slot(log[key][n]) = i,
                 Start(log[key][n]) = Start(t)
          PROVE  FALSE
      BY <1>3, <1>4, <2>2, <3>1 DEF Stands
    <3>2. FallTo(log[key], i, r[i].start) = {}
      BY <1>1, <2>2, <3>1 DEF FallTo
    <3> QED
      BY <2>2, <3>2, FS_EmptySet
  <2> QED
    BY <1>1, <2>1, <2>2
<1>7. \A key \in Keys : \A n \in 1..Len(log[key]) :
        BucketTime <= log[key][n] /\ log[key][n] <= t
  BY DEF DetectorOK
<1>8. DetectorOK(r, log, t)
  BY <1>0, <1>1, <1>5, <1>6, <1>7 DEF DetectorOK
<1> QED
  BY <1>8 DEF r

LEMMA RecordStands ==
  ASSUME NEW ring, NEW log, NEW t, DetectorOK(ring, log, t), BucketTime <= t,
         NEW key \in Keys
  PROVE  DetectorOK(Hits(ring, key, t), [log EXCEPT ![key] = Append(@, t)], t)
<1>0. ring \in Ring /\ log \in [Keys -> Seq(Nat)] /\ t \in Nat
  BY DEF DetectorOK
<1> DEFINE r == Rotated(ring, t)
           h == Hits(ring, key, t)
           new == [log EXCEPT ![key] = Append(@, t)]
<1>1. DetectorOK(r, log, t) /\ r[Slot(t)].start = Start(t)
  BY <1>0, RotationStands, RotatedIs
<1>a. h = Hits(ring, key, t) /\ r = Rotated(ring, t)
  OBVIOUS
<1> HIDE DEF r, h
<1>2. /\ h \in Ring
      /\ \A i \in Slots :
           /\ h[i].start = r[i].start
           /\ \A x \in Keys : h[i].count[x] = IF i = Slot(t) /\ x = key
                                              THEN r[i].count[x] + 1 ELSE r[i].count[x]
  <2>1. Hits(ring, key, t) \in Ring /\ OneMore(Hits(ring, key, t), Rotated(ring, t), Slot(t), key)
    BY <1>0, HitsIs
  <2>2. h \in Ring /\ OneMore(h, r, Slot(t), key)
    BY <1>a, <2>1
  <2> QED
    BY <2>2 DEF OneMore
<1>3. /\ new[key] = Append(log[key], t)
      /\ \A x \in Keys : x # key => new[x] = log[x]
      /\ new \in [Keys -> Seq(Nat)]
  <2>1. Append(log[key], t) \in Seq(Nat)
    BY <1>0, Logged
  <2> QED
    BY <1>0, <2>1
<1> HIDE DEF new
<1>4. /\ Len(log[key]) \in Nat /\ Len(new[key]) = Len(log[key]) + 1
      /\ new[key][Len(log[key]) + 1] = t
      /\ \A n \in 1..Len(log[key]) : new[key][n] = log[key][n]
      /\ \A n : n \in 1..Len(new[key]) <=> n \in 1..Len(log[key]) \/ n = Len(log[key]) + 1
      /\ Len(log[key]) + 1 \notin 1..Len(log[key])
  <2>1. log[key] \in Seq(Nat)
    BY <1>0, Logged
  <2> QED
    BY <1>0, <1>3, <2>1
<1>5. Slot(t) \in Slots
  BY <1>0, BucketOf
<1>6. Stands(r, t, t)
  BY <1>1 DEF Stands
<1>7. ASSUME NEW x \in Keys, NEW n \in 1..Len(new[x])
      PROVE  /\ BucketTime <= new[x][n] /\ new[x][n] <= t /\ Stands(r, new[x][n], t)
             /\ Slot(new[x][n]) \in Slots
  <2>1. (n \in 1..Len(log[x]) /\ new[x][n] = log[x][n]) \/ new[x][n] = t
    BY <1>3, <1>4
  <2>2. CASE new[x][n] = t
    BY <1>0, <1>5, <1>6, <2>2
  <2>3. CASE n \in 1..Len(log[x]) /\ new[x][n] = log[x][n]
    <3>1. log[x][n] \in Nat
      BY <1>0, <2>3, Logged
    <3>2. Slot(log[x][n]) \in Slots
      BY <3>1, BucketOf
    <3> QED
      BY <1>1, <2>3, <3>2 DEF DetectorOK
  <2> QED
    BY <2>1, <2>2, <2>3
<1>8. ASSUME NEW x \in Keys, NEW n \in 1..Len(new[x]) PROVE Stands(h, new[x][n], t)
  BY <1>2, <1>7 DEF Stands
<1>9. ASSUME NEW x \in Keys, NEW i \in Slots
      PROVE  h[i].count[x] = Cardinality(FallTo(new[x], i, h[i].start))
  <2> DEFINE s == r[i].start
             A == FallTo(log[x], i, s)
             B == FallTo(new[x], i, s)
  <2>1. h[i].start = s /\ r[i].count[x] = Cardinality(A) /\ IsFiniteSet(A)
    BY <1>0, <1>1, <1>2, Logged DEF DetectorOK
  <2>2. CASE x # key
    BY <1>2, <1>3, <2>1, <2>2
  <2>3. CASE x = key /\ i # Slot(t)
    <3>1. B = A
      BY <1>4, <2>3 DEF FallTo
    <3> QED
      BY <1>2, <2>1, <2>3, <3>1
  <2>4. CASE x = key /\ i = Slot(t)
    <3>1. s = Start(t)
      BY <1>1, <2>4
    <3> HIDE DEF s
    <3>2. B = A \cup {Len(log[key]) + 1} /\ Len(log[key]) + 1 \notin A
      BY <1>4, <2>4, <3>1 DEF FallTo
    <3> HIDE DEF A, B
    <3>3. Cardinality(B) = Cardinality(A) + 1
      BY <2>1, <3>2, FS_AddElement
    <3>4. h[i].count[x] = r[i].count[x] + 1
      BY <1>2, <2>4
    <3> QED
      BY <2>1, <3>3, <3>4 DEF B, s
  <2> QED
    BY <2>2, <2>3, <2>4
<1>10. DetectorOK(h, new, t)
  BY <1>0, <1>2, <1>3, <1>7, <1>8, <1>9 DEF DetectorOK
<1> QED
  BY <1>10 DEF h, new

LEMMA QueryStands ==
  ASSUME NEW ring, NEW log, NEW t, DetectorOK(ring, log, t)
  PROVE  DetectorOK(Fresh(ring, t), log, t)
<1>0. ring \in Ring /\ log \in [Keys -> Seq(Nat)] /\ t \in Nat
  BY DEF DetectorOK
<1> DEFINE f == Fresh(ring, t)
<1>1. /\ f \in Ring
      /\ \A i \in Slots :
           /\ ring[i].start + Window < t =>
                f[i].start = 0 /\ \A key \in Keys : f[i].count[key] = 0
           /\ ~(ring[i].start + Window < t) => f[i] = ring[i]
  BY <1>0, FreshIs
<1> HIDE DEF f
<1>2. ASSUME NEW key \in Keys, NEW n \in 1..Len(log[key])
      PROVE  /\ Slot(log[key][n]) \in Slots /\ Start(log[key][n]) \in Nat
             /\ Start(log[key][n]) > 0 /\ Window \in Nat
             /\ Stands(ring, log[key][n], t)
  <2> DEFINE x == log[key][n]
  <2>1. x \in Nat /\ BucketTime <= x /\ Stands(ring, x, t)
    BY <1>0, Logged DEF DetectorOK
  <2> HIDE DEF x
  <2>2. Slot(x) \in Slots /\ Start(x) \in Nat /\ x < Start(x) + BucketTime
        /\ Window \in Nat /\ BucketTime \in Nat
    BY <2>1, BucketOf
  <2>3. Start(x) > 0
    BY <2>1, <2>2
  <2> QED
    BY <2>1, <2>2, <2>3 DEF x
<1>3. ASSUME NEW key \in Keys, NEW n \in 1..Len(log[key]) PROVE Stands(f, log[key][n], t)
  <2> DEFINE x == log[key][n]
  <2>1. Slot(x) \in Slots /\ Start(x) \in Nat /\ Window \in Nat /\ Stands(ring, x, t)
    BY <1>2
  <2> HIDE DEF x
  <2>2. ASSUME ring[Slot(x)].start + Window < t, ring[Slot(x)].start = Start(x)
        PROVE  Stands(f, x, t)
    <3>1. Start(x) + Window <= t
      BY <1>0, <2>1, <2>2
    <3> QED
      BY <3>1 DEF Stands
  <2>3. ASSUME ~(ring[Slot(x)].start + Window < t) PROVE Stands(f, x, t)
    BY <1>1, <2>1, <2>3 DEF Stands
  <2>4. Stands(f, x, t)
    BY <1>0, <2>1, <2>2, <2>3 DEF Stands
  <2> QED
    BY <2>4 DEF x
<1>4. ASSUME NEW key \in Keys, NEW i \in Slots
      PROVE  f[i].count[key] = Cardinality(FallTo(log[key], i, f[i].start))
  <2>1. CASE f[i] = ring[i]
    BY <2>1 DEF DetectorOK
  <2>2. CASE f[i].start = 0 /\ f[i].count[key] = 0
    <3>1. \A n \in 1..Len(log[key]) : Start(log[key][n]) # 0
      BY <1>2
    <3>2. FallTo(log[key], i, f[i].start) = {}
      BY <2>2, <3>1 DEF FallTo
    <3> QED
      BY <2>2, <3>2, FS_EmptySet
  <2> QED
    BY <1>1, <2>1, <2>2
<1>5. DetectorOK(f, log, t)
  BY <1>0, <1>1, <1>3, <1>4 DEF DetectorOK
<1> QED
  BY <1>5 DEF f

LEMMA ForgetStands ==
  ASSUME NEW ring, NEW log, NEW t, DetectorOK(ring, log, t), NEW key \in Keys
  PROVE  DetectorOK(Without(ring, {key}), [log EXCEPT ![key] = <<>>], t)
<1>0. ring \in Ring /\ log \in [Keys -> Seq(Nat)] /\ t \in Nat
  BY DEF DetectorOK
<1> DEFINE w == Without(ring, {key})
           new == [log EXCEPT ![key] = <<>>]
<1>1. /\ w \in Ring
      /\ \A i \in Slots :
           /\ w[i].start = ring[i].start
           /\ \A x \in Keys : w[i].count[x] = IF x \in {key} THEN 0 ELSE ring[i].count[x]
  BY <1>0, WithoutIs
<1> HIDE DEF w
<1>2. /\ new[key] = <<>> /\ \A x \in Keys : x # key => new[x] = log[x]
      /\ new \in [Keys -> Seq(Nat)]
  BY <1>0
<1> HIDE DEF new
<1>3. Len(new[key]) = 0 /\ 1..0 = {} /\ \A i, s : FallTo(new[key], i, s) = {}
  BY <1>2 DEF FallTo
<1>4. ASSUME NEW x \in Keys, NEW n \in 1..Len(new[x])
      PROVE  /\ BucketTime <= new[x][n] /\ new[x][n] <= t /\ Stands(w, new[x][n], t)
  <2>1. x # key /\ n \in 1..Len(log[x]) /\ new[x][n] = log[x][n]
    BY <1>2, <1>3
  <2>2. log[x][n] \in Nat
    BY <1>0, <2>1, Logged
  <2>3. Slot(log[x][n]) \in Slots
    BY <2>2, BucketOf
  <2>4. BucketTime <= log[x][n] /\ log[x][n] <= t /\ Stands(ring, log[x][n], t)
    BY <2>1 DEF DetectorOK
  <2>5. Stands(w, log[x][n], t)
    BY <1>1, <2>3, <2>4 DEF Stands
  <2> QED
    BY <2>1, <2>4, <2>5
<1>5. ASSUME NEW x \in Keys, NEW i \in Slots
      PROVE  w[i].count[x] = Cardinality(FallTo(new[x], i, w[i].start))
  <2>1. CASE x = key
    <3>1. w[i].count[x] = 0 /\ FallTo(new[x], i, w[i].start) = {}
      BY <1>1, <1>3, <2>1
    <3> QED
      BY <3>1, FS_EmptySet
  <2>2. CASE x # key
    <3>1. w[i].count[x] = ring[i].count[x] /\ w[i].start = ring[i].start /\ new[x] = log[x]
      BY <1>1, <1>2, <2>2
    <3> QED
      BY <3>1 DEF DetectorOK
  <2> QED
    BY <2>1, <2>2
<1>6. DetectorOK(w, new, t)
  BY <1>0, <1>1, <1>2, <1>4, <1>5 DEF DetectorOK
<1> QED
  BY <1>6 DEF w, new

LEMMA NewStands ==
  ASSUME NEW t \in Nat
  PROVE  DetectorOK(NewRing, NoTimes, t)
<1>1. \A key \in Keys : NoTimes[key] = <<>> /\ Len(NoTimes[key]) = 0 /\ 1..0 = {}
                        /\ \A i, s : FallTo(NoTimes[key], i, s) = {}
  BY DEF NoTimes, FallTo
<1>2. NoTimes \in [Keys -> Seq(Nat)]
  BY DEF NoTimes
<1> QED
  BY <1>1, <1>2, NewRingIs, FS_EmptySet DEF DetectorOK

\* What the detector reports is what the property says.
LEMMA DetectorCounts ==
  ASSUME DetectorOK(hot, hotLog, now)
  PROVE  WindowIsCounted(now)
<1> DEFINE f == Fresh(hot, now)
<1>0. hot \in Ring /\ hotLog \in [Keys -> Seq(Nat)] /\ now \in Nat
  BY DEF DetectorOK
<1>1. /\ DetectorOK(f, hotLog, now) /\ f \in Ring
      /\ \A i \in Slots : hot[i].start + Window < now => f[i].start = 0
      /\ \A i \in Slots : ~(hot[i].start + Window < now) => f[i] = hot[i]
  BY <1>0, QueryStands, FreshIs
<1> HIDE DEF f
<1> SUFFICES ASSUME NEW key \in Keys
             PROVE  /\ Counted(f, key) <= Within(hotLog[key], Window, now)
                    /\ Counted(f, key) >= Within(hotLog[key], Window - BucketTime - 1, now)
  BY DEF WindowIsCounted, f
<1> DEFINE l == hotLog[key]
           M == {n \in 1..Len(l) : Start(l[n]) = f[Slot(l[n])].start}
           g == [n \in M |-> Slot(l[n])]
           In == {n \in 1..Len(l) : l[n] + Window >= now}
           Sure == {n \in 1..Len(l) : l[n] + (Window - BucketTime - 1) >= now}
<1>2. /\ Len(l) \in Nat
      /\ \A n \in 1..Len(l) : /\ l[n] \in Nat /\ BucketTime <= l[n]
                              /\ Stands(f, l[n], now)
      /\ \A i \in Slots : f[i].count[key] = Cardinality(FallTo(l, i, f[i].start))
  BY <1>0, <1>1, Logged DEF DetectorOK
<1> HIDE DEF l
<1>3. \A n \in 1..Len(l) :
        /\ Slot(l[n]) \in Slots /\ Start(l[n]) \in Nat /\ Start(l[n]) <= l[n]
        /\ l[n] < Start(l[n]) + BucketTime
        /\ Window \in Nat /\ BucketTime \in Nat
  BY <1>2, BucketOf
<1>4. IsFiniteSet(M) /\ IsFiniteSet(In) /\ IsFiniteSet(Sure)
  <2>1. IsFiniteSet(1..Len(l))
    <3>1. Len(l) \in Nat
      BY <1>2
    <3> QED
      BY <3>1, FS_Interval
  <2>2. M \in SUBSET (1..Len(l)) /\ In \in SUBSET (1..Len(l)) /\ Sure \in SUBSET (1..Len(l))
    OBVIOUS
  <2> HIDE DEF M, In, Sure
  <2> QED
    BY <2>1, <2>2, FS_Subset
<1>5. Counted(f, key) = Cardinality(M)
  <2>1. g \in [M -> Slots]
    BY <1>3
  <2>2. ASSUME NEW i \in Slots PROVE f[i].count[key] = Cardinality({n \in M : g[n] = i})
    <3>1. {n \in M : g[n] = i} = FallTo(l, i, f[i].start)
      BY DEF FallTo
    <3> HIDE DEF M, g
    <3> QED
      BY <1>2, <3>1
  <2>3. CountsBy(f, key, M, g)
    BY <2>2 DEF CountsBy
  <2>4. IsFiniteSet(M)
    BY <1>4
  <2> HIDE DEF M, g
  <2> QED
    BY <2>1, <2>3, <2>4, CountedIs
<1>6. M \subseteq In
  <2> SUFFICES ASSUME NEW n \in M PROVE l[n] + Window >= now
    OBVIOUS
  <2> DEFINE x == l[n]
  <2>1. /\ x \in Nat /\ BucketTime <= x /\ Slot(x) \in Slots /\ Start(x) \in Nat
        /\ Start(x) <= x /\ x < Start(x) + BucketTime /\ Window \in Nat
        /\ BucketTime \in Nat /\ Start(x) = f[Slot(x)].start
    BY <1>2, <1>3
  <2> HIDE DEF x
  <2>2. Start(x) # 0
    BY <2>1
  <2>3. ~(hot[Slot(x)].start + Window < now) /\ hot[Slot(x)].start = Start(x)
    BY <1>1, <2>1, <2>2
  <2>4. x + Window >= now
    BY <1>0, <2>1, <2>3
  <2> QED
    BY <2>4 DEF x
<1>7. Sure \subseteq M
  <2> SUFFICES ASSUME NEW n \in Sure PROVE Start(l[n]) = f[Slot(l[n])].start
    OBVIOUS
  <2> DEFINE x == l[n]
  <2>1. /\ x \in Nat /\ Start(x) \in Nat /\ x < Start(x) + BucketTime /\ Window \in Nat
        /\ BucketTime \in Nat /\ Stands(f, x, now)
        /\ x + (Window - BucketTime - 1) >= now
    BY <1>2, <1>3
  <2> HIDE DEF x
  <2>2. ~(Start(x) + Window <= now)
    BY <1>0, <2>1
  <2>3. f[Slot(x)].start = Start(x)
    BY <2>1, <2>2 DEF Stands
  <2> QED
    BY <2>3 DEF x
<1>8. Cardinality(M) <= Cardinality(In) /\ Cardinality(Sure) <= Cardinality(M)
  <2> HIDE DEF M, In, Sure
  <2> QED
    BY <1>4, <1>6, <1>7, FS_Subset
<1>9. Cardinality(M) \in Nat /\ Cardinality(Sure) \in Nat
  <2> HIDE DEF M, Sure
  <2> QED
    BY <1>4, FS_CardinalityType
<1>10. Within(l, Window, now) = Cardinality(In)
       /\ Within(l, Window - BucketTime - 1, now) = Cardinality(Sure)
  BY DEF Within
<1> HIDE DEF M, In, Sure
<1>11. /\ Counted(f, key) <= Within(l, Window, now)
       /\ Counted(f, key) >= Within(l, Window - BucketTime - 1, now)
  BY <1>5, <1>8, <1>9, <1>10
<1> QED
  BY <1>11 DEF l

-----------------------------------------------------------------------------
(* The hints: their ring, the keys listed, the times of the records, and the clock.     *)
(* What a bucket has was recorded in its round, and the last record of a listed key is   *)
(* still in its bucket, unless it is past the window.                                    *)

Held(ring, x) == \E i \in Slots : ring[i].count[x] > 0
Listing(ring, seq) ==
  seq \in Seq(Keys) /\ IsInjective(seq) /\ \A x \in Keys : x \in Range(seq) <=> Held(ring, x)

Timed(log, t) ==
  /\ log \in [Keys -> Seq(Nat)] /\ t \in Nat
  /\ \A x \in Keys : \A n \in 1..Len(log[x]) :
       log[x][n] <= t /\ log[x][n] <= log[x][Len(log[x])]

Witnessed(ring, log) ==
  \A x \in Keys : \A i \in Slots :
    ring[i].count[x] > 0 => \E n \in 1..Len(log[x]) : Start(log[x][n]) = ring[i].start

Current(ring, x, y, t) ==
  \/ ring[Slot(y)].start = Start(y) /\ ring[Slot(y)].count[x] > 0
  \/ Start(y) + Window <= t
LastCounted(ring, seq, log, t) ==
  \A x \in Range(seq) : Len(log[x]) > 0 /\ Current(ring, x, log[x][Len(log[x])], t)

HintsOK(ring, seq, log, t) ==
  /\ ring \in Ring /\ Listing(ring, seq) /\ Timed(log, t)
  /\ Witnessed(ring, log) /\ LastCounted(ring, seq, log, t)

LEMMA RangeOf ==
  ASSUME NEW seq \in Seq(Keys)
  PROVE  /\ Len(seq) \in Nat /\ DOMAIN seq = 1..Len(seq)
         /\ \A i \in 1..Len(seq) : seq[i] \in Keys
         /\ \A x : x \in Range(seq) <=> \E i \in 1..Len(seq) : seq[i] = x
         /\ Range(seq) \subseteq Keys
<1>1. Len(seq) \in Nat /\ DOMAIN seq = 1..Len(seq) /\ \A i \in 1..Len(seq) : seq[i] \in Keys
  OBVIOUS
<1>2. \A x : x \in Range(seq) <=> \E i \in 1..Len(seq) : seq[i] = x
  BY <1>1 DEF Range
<1> QED
  BY <1>1, <1>2

LEMMA LastTime ==
  ASSUME NEW log \in [Keys -> Seq(Nat)], NEW x \in Keys, Len(log[x]) > 0
  PROVE  /\ Len(log[x]) \in 1..Len(log[x]) /\ log[x][Len(log[x])] \in Nat
         /\ Slot(log[x][Len(log[x])]) \in Slots
<1>1. Len(log[x]) \in Nat /\ \A n \in 1..Len(log[x]) : log[x][n] \in Nat
  BY Logged
<1>2. Len(log[x]) \in 1..Len(log[x])
  BY <1>1
<1>3. log[x][Len(log[x])] \in Nat
  BY <1>1, <1>2
<1> QED
  BY <1>2, <1>3, BucketOf

LEMMA LaterHints ==
  ASSUME NEW ring, NEW seq, NEW log, NEW t, HintsOK(ring, seq, log, t),
         NEW u \in Nat, t <= u
  PROVE  HintsOK(ring, seq, log, u)
<1>0. log \in [Keys -> Seq(Nat)] /\ t \in Nat /\ seq \in Seq(Keys)
  BY DEF HintsOK, Timed, Listing
<1>1. Timed(log, u)
  <2>1. ASSUME NEW x \in Keys, NEW n \in 1..Len(log[x])
        PROVE  log[x][n] <= u /\ log[x][n] <= log[x][Len(log[x])]
    <3>1. log[x][n] <= t /\ log[x][n] <= log[x][Len(log[x])]
      BY DEF HintsOK, Timed
    <3>2. log[x][n] \in Nat
      BY <1>0, Logged
    <3> QED
      BY <1>0, <3>1, <3>2
  <2> QED
    BY <1>0, <2>1 DEF Timed
<1>2. LastCounted(ring, seq, log, u)
  <2>1. ASSUME NEW x \in Range(seq)
        PROVE  Len(log[x]) > 0 /\ Current(ring, x, log[x][Len(log[x])], u)
    <3> DEFINE y == log[x][Len(log[x])]
    <3>1. Len(log[x]) > 0 /\ Current(ring, x, y, t)
      BY DEF HintsOK, LastCounted
    <3>2. x \in Keys
      BY <1>0, RangeOf
    <3>3. y \in Nat
      BY <1>0, <3>1, <3>2, LastTime
    <3> HIDE DEF y
    <3>4. Start(y) \in Nat /\ Window \in Nat
      BY <3>3, BucketOf
    <3>5. Start(y) + Window <= t => Start(y) + Window <= u
      BY <1>0, <3>4
    <3>6. Current(ring, x, y, u)
      BY <3>1, <3>5 DEF Current
    <3> QED
      BY <3>1, <3>6 DEF y
  <2> QED
    BY <2>1 DEF LastCounted
<1> QED
  BY <1>1, <1>2 DEF HintsOK

\* A ring some of whose buckets were emptied, and the keys that it still has.
Emptied(ring, r, t) ==
  \A i \in Slots :
    \/ r[i] = ring[i]
    \/ /\ \A x \in Keys : r[i].count[x] = 0
       /\ \A y \in Nat : y <= t /\ Slot(y) = i /\ Start(y) = ring[i].start
                           => Start(y) + Window <= t

LEMMA EmptiedHints ==
  ASSUME NEW ring, NEW seq, NEW log, NEW t, HintsOK(ring, seq, log, t),
         NEW r \in Ring, Emptied(ring, r, t)
  PROVE  HintsOK(r, Unlisted(seq, ring, r), log, t)
<1>0. ring \in Ring /\ log \in [Keys -> Seq(Nat)] /\ t \in Nat /\ seq \in Seq(Keys)
      /\ IsInjective(seq)
  BY DEF HintsOK, Timed, Listing
<1> DEFINE s == Unlisted(seq, ring, r)
<1>1. /\ s \in Seq(Keys) /\ IsInjective(s)
      /\ \A x : x \in Range(s) <=> /\ x \in Range(seq)
                                   /\ x \in Keys \ (KeysIn(ring) \ KeysIn(r))
  BY <1>0, ThoseOf DEF Unlisted
<1> HIDE DEF s
<1>2. \A x \in Keys : /\ x \in Range(seq) <=> Held(ring, x)
                      /\ x \in KeysIn(ring) <=> Held(ring, x)
                      /\ x \in KeysIn(r) <=> Held(r, x)
  BY <1>0, KeysInIs DEF HintsOK, Listing, Held
<1>3. \A x \in Keys, i \in Slots : r[i].count[x] > 0 => r[i] = ring[i]
  <2>1. ~(0 > 0)
    OBVIOUS
  <2> QED
    BY <2>1 DEF Emptied
<1>4. \A x \in Keys : Held(r, x) => Held(ring, x)
  BY <1>3 DEF Held
<1>5. Listing(r, s)
  <2>1. \A x \in Keys : x \in Range(s) <=> Held(r, x)
    BY <1>1, <1>2, <1>4
  <2> QED
    BY <1>1, <2>1 DEF Listing
<1>6. Witnessed(r, log)
  BY <1>3 DEF HintsOK, Witnessed
<1>7. LastCounted(r, s, log, t)
  <2>1. ASSUME NEW x \in Range(s)
        PROVE  Len(log[x]) > 0 /\ Current(r, x, log[x][Len(log[x])], t)
    <3> DEFINE y == log[x][Len(log[x])]
    <3>0. x \in Range(seq) /\ x \in Keys
      BY <1>1
    <3>1. Len(log[x]) > 0 /\ Current(ring, x, y, t)
      BY <3>0 DEF HintsOK, LastCounted
    <3>2. y \in Nat /\ Slot(y) \in Slots
      BY <1>0, <3>0, <3>1, LastTime
    <3>3. y <= t
      <4>1. Len(log[x]) \in 1..Len(log[x])
        BY <1>0, <3>0, <3>1, LastTime
      <4> QED
        BY <3>0, <4>1 DEF HintsOK, Timed
    <3> HIDE DEF y
    <3>4. ASSUME r[Slot(y)] = ring[Slot(y)] PROVE Current(r, x, y, t)
      BY <3>1, <3>4 DEF Current
    <3>5. ASSUME r[Slot(y)] # ring[Slot(y)], ring[Slot(y)].start = Start(y)
          PROVE  Current(r, x, y, t)
      <4>1. Start(y) + Window <= t
        BY <3>2, <3>3, <3>5 DEF Emptied
      <4> QED
        BY <4>1 DEF Current
    <3>6. Current(r, x, y, t)
      BY <3>1, <3>4, <3>5 DEF Current
    <3> QED
      BY <3>1, <3>6 DEF y
  <2> QED
    BY <2>1 DEF LastCounted
<1>8. HintsOK(r, s, log, t)
  BY <1>5, <1>6, <1>7 DEF HintsOK
<1> QED
  BY <1>8 DEF s

LEMMA RotatedEmpties ==
  ASSUME NEW ring \in Ring, NEW t \in Nat
  PROVE  Rotated(ring, t) \in Ring /\ Emptied(ring, Rotated(ring, t), t)
<1> DEFINE r == Rotated(ring, t)
<1>1. r \in Ring /\ \A i \in Slots : \/ r[i] = ring[i]
                                     \/ /\ i = Slot(t) /\ ring[i].start # Start(t)
                                        /\ \A x \in Keys : r[i].count[x] = 0
  BY RotatedIs
<1> HIDE DEF r
<1>2. \A y \in Nat : y <= t /\ Slot(y) = Slot(t) /\ Start(y) # Start(t)
                       => Start(y) + Window <= t
  BY SlotsApart
<1>3. Emptied(ring, r, t)
  BY <1>1, <1>2 DEF Emptied
<1> QED
  BY <1>1, <1>3 DEF r

LEMMA FreshEmpties ==
  ASSUME NEW ring \in Ring, NEW t \in Nat
  PROVE  Fresh(ring, t) \in Ring /\ Emptied(ring, Fresh(ring, t), t)
<1> DEFINE r == Fresh(ring, t)
<1>1. r \in Ring /\ \A i \in Slots : \/ r[i] = ring[i]
                                     \/ /\ ring[i].start + Window < t
                                        /\ \A x \in Keys : r[i].count[x] = 0
  BY FreshIs
<1> HIDE DEF r
<1>2. \A y \in Nat : Start(y) \in Nat /\ Window \in Nat
  BY BucketOf
<1>3. \A y \in Nat : Start(y) + Window < t => Start(y) + Window <= t
  BY <1>2
<1>4. Emptied(ring, r, t)
  BY <1>1, <1>3 DEF Emptied
<1> QED
  BY <1>1, <1>4 DEF r

\* The key of a record becomes the last of the list.
LEMMA LastListed ==
  ASSUME NEW seq \in Seq(Keys), NEW key \in Keys, IsInjective(seq)
  PROVE  LET s == Append(Those(seq, Keys \ {key}), key)
         IN  /\ s \in Seq(Keys) /\ IsInjective(s)
             /\ \A x \in Keys : x \in Range(s) <=> x \in Range(seq) \/ x = key
<1> DEFINE l == Those(seq, Keys \ {key})
           s == Append(l, key)
<1>1. /\ l \in Seq(Keys) /\ IsInjective(l)
      /\ \A x : x \in Range(l) <=> x \in Range(seq) /\ x \in Keys \ {key}
  BY ThoseOf
<1> HIDE DEF l
<1>2. /\ Len(l) \in Nat /\ DOMAIN l = 1..Len(l)
      /\ \A x : x \in Range(l) <=> \E i \in 1..Len(l) : l[i] = x
  BY <1>1, RangeOf
<1>3. /\ s \in Seq(Keys) /\ Len(s) = Len(l) + 1 /\ s[Len(l) + 1] = key
      /\ \A i \in 1..Len(l) : s[i] = l[i]
      /\ \A i : i \in 1..Len(s) <=> i \in 1..Len(l) \/ i = Len(l) + 1
  BY <1>1, <1>2
<1> HIDE DEF s
<1>4. /\ DOMAIN s = 1..Len(s)
      /\ \A x : x \in Range(s) <=> \E i \in 1..Len(s) : s[i] = x
  BY <1>3, RangeOf
<1>5. \A i \in 1..Len(l) : l[i] # key
  BY <1>1, <1>2
<1>6. IsInjective(s)
  <2>1. \A i, j \in 1..Len(l) : l[i] = l[j] => i = j
    BY <1>1, <1>2 DEF IsInjective
  <2>2. \A i, j \in 1..Len(s) : s[i] = s[j] => i = j
    BY <1>3, <1>5, <2>1
  <2> QED
    BY <1>4, <2>2 DEF IsInjective
<1>7. \A x \in Keys : x \in Range(s) <=> x \in Range(seq) \/ x = key
  <2>1. \A x \in Keys : x \in Range(s) <=> x \in Range(l) \/ x = key
    BY <1>2, <1>3, <1>4
  <2> QED
    BY <1>1, <2>1
<1> QED
  BY <1>3, <1>6, <1>7 DEF s, l

LEMMA HitHints ==
  ASSUME NEW ring, NEW seq, NEW log, NEW t, HintsOK(ring, seq, log, t), NEW key \in Keys,
         NEW h \in Ring, OneMore(h, ring, Slot(t), key), ring[Slot(t)].start = Start(t)
  PROVE  HintsOK(h, Append(Those(seq, Keys \ {key}), key),
                 [log EXCEPT ![key] = Append(@, t)], t)
<1>0. ring \in Ring /\ log \in [Keys -> Seq(Nat)] /\ t \in Nat /\ seq \in Seq(Keys)
      /\ IsInjective(seq)
  BY DEF HintsOK, Timed, Listing
<1> DEFINE s == Append(Those(seq, Keys \ {key}), key)
           new == [log EXCEPT ![key] = Append(@, t)]
<1>1. /\ s \in Seq(Keys) /\ IsInjective(s)
      /\ \A x \in Keys : x \in Range(s) <=> x \in Range(seq) \/ x = key
  BY <1>0, LastListed
<1> HIDE DEF s
<1>2. /\ new[key] = Append(log[key], t)
      /\ \A x \in Keys : x # key => new[x] = log[x]
      /\ new \in [Keys -> Seq(Nat)]
  <2>1. Append(log[key], t) \in Seq(Nat)
    BY <1>0, Logged
  <2> QED
    BY <1>0, <2>1
<1> HIDE DEF new
<1>3. /\ Len(log[key]) \in Nat /\ Len(new[key]) = Len(log[key]) + 1 /\ Len(new[key]) > 0
      /\ new[key][Len(new[key])] = t
      /\ \A n \in 1..Len(log[key]) : new[key][n] = log[key][n]
      /\ \A n : n \in 1..Len(new[key]) <=> n \in 1..Len(log[key]) \/ n = Len(new[key])
  <2>1. log[key] \in Seq(Nat) /\ Len(log[key]) \in Nat
    BY <1>0, Logged
  <2>2. /\ Len(new[key]) = Len(log[key]) + 1 /\ new[key][Len(log[key]) + 1] = t
        /\ \A n \in 1..Len(log[key]) : new[key][n] = log[key][n]
    BY <1>0, <1>2, <2>1
  <2>3. Len(new[key]) > 0 /\ \A n : n \in 1..(Len(log[key]) + 1) <=>
                                   n \in 1..Len(log[key]) \/ n = Len(log[key]) + 1
    BY <2>1, <2>2
  <2> QED
    BY <2>1, <2>2, <2>3
<1>4. Slot(t) \in Slots
  BY <1>0, BucketOf
<1>5. \A i \in Slots, x \in Keys :
        /\ ring[i].count[x] \in Nat /\ h[i].start = ring[i].start
        /\ i = Slot(t) /\ x = key => h[i].count[x] = ring[i].count[x] + 1
        /\ ~(i = Slot(t) /\ x = key) => h[i].count[x] = ring[i].count[x]
  BY <1>0, RingFields DEF OneMore
<1>6. Listing(h, s)
  <2>1. Held(h, key)
    BY <1>4, <1>5 DEF Held
  <2>2. \A x \in Keys : x # key => (Held(h, x) <=> Held(ring, x))
    BY <1>5 DEF Held
  <2>3. \A x \in Keys : x \in Range(seq) <=> Held(ring, x)
    BY DEF HintsOK, Listing
  <2>4. \A x \in Keys : x \in Range(s) <=> Held(h, x)
    BY <1>1, <2>1, <2>2, <2>3
  <2> QED
    BY <1>1, <2>4 DEF Listing
<1>7. Timed(new, t)
  <2>1. ASSUME NEW x \in Keys, NEW n \in 1..Len(new[x])
        PROVE  new[x][n] <= t /\ new[x][n] <= new[x][Len(new[x])]
    <3>1. CASE x # key
      BY <1>2, <3>1 DEF HintsOK, Timed
    <3>2. CASE x = key
      <4>1. \A i \in 1..Len(log[key]) : log[key][i] <= t
        BY DEF HintsOK, Timed
      <4>2. t <= t
        BY <1>0
      <4> QED
        BY <1>3, <3>2, <4>1, <4>2
    <3> QED
      BY <3>1, <3>2
  <2> QED
    BY <1>0, <1>2, <2>1 DEF Timed
<1>8. Witnessed(h, new)
  <2>1. ASSUME NEW x \in Keys, NEW i \in Slots, h[i].count[x] > 0
        PROVE  \E n \in 1..Len(new[x]) : Start(new[x][n]) = h[i].start
    <3>1. CASE i = Slot(t) /\ x = key
      <4>1. Len(new[key]) \in 1..Len(new[key])
        BY <1>3
      <4>2. Start(new[key][Len(new[key])]) = h[i].start
        BY <1>3, <1>5, <3>1
      <4> QED
        BY <3>1, <4>1, <4>2
    <3>2. CASE ~(i = Slot(t) /\ x = key)
      <4>1. PICK n \in 1..Len(log[x]) : Start(log[x][n]) = ring[i].start
        BY <1>5, <2>1, <3>2 DEF HintsOK, Witnessed
      <4>2. n \in 1..Len(new[x]) /\ new[x][n] = log[x][n]
        BY <1>2, <1>3
      <4> QED
        BY <1>5, <4>1, <4>2
    <3> QED
      BY <3>1, <3>2
  <2> QED
    BY <2>1 DEF Witnessed
<1>9. LastCounted(h, s, new, t)
  <2>1. ASSUME NEW x \in Range(s)
        PROVE  Len(new[x]) > 0 /\ Current(h, x, new[x][Len(new[x])], t)
    <3>0. x \in Keys
      BY <1>1, RangeOf
    <3>1. CASE x = key
      <4>1. h[Slot(t)].start = Start(t) /\ h[Slot(t)].count[key] > 0
        BY <1>4, <1>5
      <4> QED
        BY <1>3, <3>1, <4>1 DEF Current
    <3>2. CASE x # key
      <4> DEFINE y == log[x][Len(log[x])]
      <4>1. x \in Range(seq) /\ new[x] = log[x]
        BY <1>1, <1>2, <3>0, <3>2
      <4>2. Len(log[x]) > 0 /\ Current(ring, x, y, t)
        BY <4>1 DEF HintsOK, LastCounted
      <4>3. Slot(y) \in Slots
        BY <1>0, <3>0, <4>2, LastTime
      <4> HIDE DEF y
      <4>4. Current(h, x, y, t)
        BY <1>5, <3>0, <3>2, <4>2, <4>3 DEF Current
      <4> QED
        BY <4>1, <4>2, <4>4 DEF y
    <3> QED
      BY <3>1, <3>2
  <2> QED
    BY <2>1 DEF LastCounted
<1>10. HintsOK(h, s, new, t)
  BY <1>6, <1>7, <1>8, <1>9 DEF HintsOK
<1> QED
  BY <1>10 DEF s, new

\* The keys that go, and those that stay.
LEMMA DroppedAre ==
  ASSUME NEW seq \in Seq(Keys), IsInjective(seq), NEW m \in Nat
  PROVE  LET s == Latest(seq, m)
         IN  /\ s \in Seq(Keys) /\ IsInjective(s) /\ Len(s) <= m
             /\ \A x \in Keys : x \in Range(s) <=>
                  x \in Range(seq) /\ x \notin {seq[i] : i \in 1..Overflow(seq, m)}
<1> DEFINE over == Overflow(seq, m)
           s == SubSeq(seq, over + 1, Len(seq))
           gone == {seq[i] : i \in 1..over}
<1>1. /\ Len(seq) \in Nat /\ DOMAIN seq = 1..Len(seq)
      /\ \A i \in 1..Len(seq) : seq[i] \in Keys
      /\ \A x : x \in Range(seq) <=> \E i \in 1..Len(seq) : seq[i] = x
  BY RangeOf
<1>2. over \in 0..Len(seq) /\ Len(seq) - over <= m /\ over + 1 \in Int /\ Len(seq) \in Int
  BY <1>1 DEF Overflow
<1> HIDE DEF over
<1>3. /\ s \in Seq(Keys)
      /\ Len(s) = IF over + 1 <= Len(seq) THEN Len(seq) - (over + 1) + 1 ELSE 0
      /\ \A i \in 1..(Len(seq) - (over + 1) + 1) : s[i] = seq[(over + 1) + i - 1]
  <2>1. \A i \in (over + 1)..Len(seq) : seq[i] \in Keys
    BY <1>1, <1>2
  <2> QED
    BY <1>2, <2>1, SubSeqProperties
<1> HIDE DEF s
<1>4. Len(s) = Len(seq) - over /\ Len(s) \in Nat /\ Len(s) <= m
  <2>1. Len(seq) \in Nat
    BY <1>1
  <2>2. Len(s) = IF over + 1 <= Len(seq) THEN Len(seq) - (over + 1) + 1 ELSE 0
    BY <1>3
  <2>3. over \in 0..Len(seq) /\ Len(seq) - over <= m
    BY <1>2
  <2> QED
    BY <2>1, <2>2, <2>3
<1>5. \A i \in 1..Len(s) : over + i \in 1..Len(seq) /\ s[i] = seq[over + i]
  <2>1. ASSUME NEW i \in 1..Len(s) PROVE over + i \in 1..Len(seq) /\ s[i] = seq[over + i]
    <3>1. /\ over + i \in 1..Len(seq) /\ i \in 1..(Len(seq) - (over + 1) + 1)
          /\ (over + 1) + i - 1 = over + i
      BY <1>1, <1>2, <1>4
    <3> QED
      BY <1>3, <3>1
  <2> QED
    BY <2>1
<1>6. /\ DOMAIN s = 1..Len(s)
      /\ \A x : x \in Range(s) <=> \E i \in 1..Len(s) : s[i] = x
  BY <1>3, RangeOf
<1>7. \A i, j \in 1..Len(seq) : seq[i] = seq[j] => i = j
  BY <1>1 DEF IsInjective
<1>8. IsInjective(s)
  <2>1. ASSUME NEW i \in 1..Len(s), NEW j \in 1..Len(s), s[i] = s[j] PROVE i = j
    <3>1. over + i = over + j
      BY <1>5, <1>7, <2>1
    <3> QED
      BY <1>2, <1>4, <3>1
  <2> QED
    BY <1>6, <2>1 DEF IsInjective
<1>9. ASSUME NEW x \in Keys
      PROVE  x \in Range(s) <=> x \in Range(seq) /\ x \notin gone
  <2>1. ASSUME x \in Range(s) PROVE x \in Range(seq) /\ x \notin gone
    <3>1. PICK i \in 1..Len(s) : s[i] = x
      BY <1>6, <2>1
    <3>2. over + i \in 1..Len(seq) /\ seq[over + i] = x
      BY <1>5, <3>1
    <3>3. ASSUME NEW j \in 1..over, seq[j] = x PROVE FALSE
      <4>1. j \in 1..Len(seq) /\ j # over + i
        BY <1>1, <1>2, <1>4
      <4> QED
        BY <1>7, <3>2, <3>3, <4>1
    <3> QED
      BY <1>1, <3>2, <3>3
  <2>2. ASSUME x \in Range(seq), x \notin gone PROVE x \in Range(s)
    <3>1. PICK j \in 1..Len(seq) : seq[j] = x
      BY <1>1, <2>2
    <3>2. j \notin 1..over
      BY <2>2, <3>1
    <3>3. j - over \in 1..Len(s) /\ over + (j - over) = j
      BY <1>1, <1>2, <1>4, <3>2
    <3>4. s[j - over] = x
      BY <1>5, <3>1, <3>3
    <3> QED
      BY <1>6, <3>3, <3>4
  <2> QED
    BY <2>1, <2>2
<1> QED
  BY <1>3, <1>4, <1>8, <1>9 DEF over, s, Latest

LEMMA BoundedHints ==
  ASSUME NEW ring, NEW seq, NEW log, NEW t, HintsOK(ring, seq, log, t), NEW m \in Nat
  PROVE  /\ HintsOK(Without(ring, {seq[i] : i \in 1..Overflow(seq, m)}),
                    Latest(seq, m), log, t)
         /\ Len(Latest(seq, m)) <= m
<1>0. ring \in Ring /\ log \in [Keys -> Seq(Nat)] /\ t \in Nat /\ seq \in Seq(Keys)
      /\ IsInjective(seq)
  BY DEF HintsOK, Timed, Listing
<1> DEFINE s == Latest(seq, m)
           gone == {seq[i] : i \in 1..Overflow(seq, m)}
           w == Without(ring, gone)
<1>1. /\ s \in Seq(Keys) /\ IsInjective(s) /\ Len(s) <= m
      /\ \A x \in Keys : x \in Range(s) <=> x \in Range(seq) /\ x \notin gone
  BY <1>0, DroppedAre
<1> HIDE DEF s, gone
<1>2. /\ w \in Ring
      /\ \A i \in Slots :
           /\ w[i].start = ring[i].start
           /\ \A x \in Keys : w[i].count[x] = IF x \in gone THEN 0 ELSE ring[i].count[x]
  BY <1>0, WithoutIs
<1> HIDE DEF w
<1>3. \A x \in Keys, i \in Slots : w[i].count[x] > 0 => x \notin gone /\ ring[i].count[x] > 0
  <2>1. ~(0 > 0)
    OBVIOUS
  <2> QED
    BY <1>2, <2>1
<1>4. Listing(w, s)
  <2>1. \A x \in Keys : Held(w, x) <=> Held(ring, x) /\ x \notin gone
    BY <1>2, <1>3 DEF Held
  <2>2. \A x \in Keys : x \in Range(seq) <=> Held(ring, x)
    BY DEF HintsOK, Listing
  <2>3. \A x \in Keys : x \in Range(s) <=> Held(w, x)
    BY <1>1, <2>1, <2>2
  <2> QED
    BY <1>1, <2>3 DEF Listing
<1>5. Witnessed(w, log)
  BY <1>2, <1>3 DEF HintsOK, Witnessed
<1>6. LastCounted(w, s, log, t)
  <2>1. ASSUME NEW x \in Range(s)
        PROVE  Len(log[x]) > 0 /\ Current(w, x, log[x][Len(log[x])], t)
    <3> DEFINE y == log[x][Len(log[x])]
    <3>0. x \in Keys /\ x \in Range(seq) /\ x \notin gone
      BY <1>1, RangeOf
    <3>1. Len(log[x]) > 0 /\ Current(ring, x, y, t)
      BY <3>0 DEF HintsOK, LastCounted
    <3>2. Slot(y) \in Slots
      BY <1>0, <3>0, <3>1, LastTime
    <3> HIDE DEF y
    <3>3. Current(w, x, y, t)
      BY <1>2, <3>0, <3>1, <3>2 DEF Current
    <3> QED
      BY <3>1, <3>3 DEF y
  <2> QED
    BY <2>1 DEF LastCounted
<1>7. HintsOK(w, s, log, t)
  BY <1>2, <1>4, <1>5, <1>6 DEF HintsOK
<1> QED
  BY <1>1, <1>7 DEF s, gone, w

LEMMA ForgottenHints ==
  ASSUME NEW ring, NEW seq, NEW log, NEW t, HintsOK(ring, seq, log, t), NEW key \in Keys
  PROVE  HintsOK(Without(ring, {key}), Those(seq, Keys \ {key}),
                 [log EXCEPT ![key] = <<>>], t)
<1>0. ring \in Ring /\ log \in [Keys -> Seq(Nat)] /\ t \in Nat /\ seq \in Seq(Keys)
      /\ IsInjective(seq)
  BY DEF HintsOK, Timed, Listing
<1> DEFINE s == Those(seq, Keys \ {key})
           w == Without(ring, {key})
           new == [log EXCEPT ![key] = <<>>]
<1>1. /\ s \in Seq(Keys) /\ IsInjective(s)
      /\ \A x : x \in Range(s) <=> x \in Range(seq) /\ x \in Keys \ {key}
  BY <1>0, ThoseOf
<1> HIDE DEF s
<1>2. /\ w \in Ring
      /\ \A i \in Slots :
           /\ w[i].start = ring[i].start
           /\ \A x \in Keys : w[i].count[x] = IF x \in {key} THEN 0 ELSE ring[i].count[x]
  BY <1>0, WithoutIs
<1> HIDE DEF w
<1>3. /\ new[key] = <<>> /\ \A x \in Keys : x # key => new[x] = log[x]
      /\ new \in [Keys -> Seq(Nat)]
  BY <1>0
<1> HIDE DEF new
<1>4. Len(new[key]) = 0 /\ 1..0 = {}
  BY <1>3
<1>5. \A x \in Keys, i \in Slots : w[i].count[x] > 0 => x # key /\ ring[i].count[x] > 0
  <2>1. ~(0 > 0)
    OBVIOUS
  <2> QED
    BY <1>2, <2>1
<1>6. Listing(w, s)
  <2>1. \A x \in Keys : Held(w, x) <=> Held(ring, x) /\ x # key
    BY <1>2, <1>5 DEF Held
  <2>2. \A x \in Keys : x \in Range(seq) <=> Held(ring, x)
    BY DEF HintsOK, Listing
  <2>3. \A x \in Keys : x \in Range(s) <=> Held(w, x)
    BY <1>1, <2>1, <2>2
  <2> QED
    BY <1>1, <2>3 DEF Listing
<1>7. Timed(new, t)
  <2>1. ASSUME NEW x \in Keys, NEW n \in 1..Len(new[x])
        PROVE  new[x][n] <= t /\ new[x][n] <= new[x][Len(new[x])]
    <3>1. x # key /\ new[x] = log[x]
      BY <1>3, <1>4
    <3> QED
      BY <3>1 DEF HintsOK, Timed
  <2> QED
    BY <1>0, <1>3, <2>1 DEF Timed
<1>8. Witnessed(w, new)
  BY <1>2, <1>3, <1>5 DEF HintsOK, Witnessed
<1>9. LastCounted(w, s, new, t)
  <2>1. ASSUME NEW x \in Range(s)
        PROVE  Len(new[x]) > 0 /\ Current(w, x, new[x][Len(new[x])], t)
    <3> DEFINE y == log[x][Len(log[x])]
    <3>0. x \in Keys /\ x \in Range(seq) /\ x # key /\ new[x] = log[x]
      BY <1>1, <1>3
    <3>1. Len(log[x]) > 0 /\ Current(ring, x, y, t)
      BY <3>0 DEF HintsOK, LastCounted
    <3>2. Slot(y) \in Slots
      BY <1>0, <3>0, <3>1, LastTime
    <3> HIDE DEF y
    <3>3. Current(w, x, y, t)
      BY <1>2, <3>0, <3>1, <3>2 DEF Current
    <3> QED
      BY <3>0, <3>1, <3>3 DEF y
  <2> QED
    BY <2>1 DEF LastCounted
<1>10. HintsOK(w, s, new, t)
  BY <1>2, <1>6, <1>7, <1>8, <1>9 DEF HintsOK
<1> QED
  BY <1>10 DEF s, w, new

LEMMA NewHints ==
  ASSUME NEW t \in Nat
  PROVE  HintsOK(NewRing, <<>>, NoTimes, t)
<1>1. /\ NewRing \in Ring
      /\ \A i \in Slots, x \in Keys : NewRing[i].count[x] = 0
      /\ ~(0 > 0)
  BY NewRingIs
<1>2. \A x \in Keys : NoTimes[x] = <<>> /\ Len(NoTimes[x]) = 0 /\ 1..0 = {}
  BY DEF NoTimes
<1>3. NoTimes \in [Keys -> Seq(Nat)]
  BY DEF NoTimes
<1>4. <<>> \in Seq(Keys) /\ Range(<<>>) = {} /\ IsInjective(<<>>)
  BY DEF Range, IsInjective
<1>5. Listing(NewRing, <<>>)
  BY <1>1, <1>4 DEF Listing, Held
<1>6. Timed(NoTimes, t)
  BY <1>2, <1>3 DEF Timed
<1>7. Witnessed(NewRing, NoTimes)
  BY <1>1 DEF Witnessed
<1>8. LastCounted(NewRing, <<>>, NoTimes, t)
  BY <1>4 DEF LastCounted
<1> QED
  BY <1>1, <1>5, <1>6, <1>7, <1>8 DEF HintsOK

\* The counts that the hints go by are those of the property.
LEMMA WithinSome ==
  ASSUME NEW l \in Seq(Nat), NEW age, NEW t
  PROVE  /\ Within(l, age, t) \in Nat
         /\ Within(l, age, t) > 0 <=> \E n \in 1..Len(l) : l[n] + age >= t
<1> DEFINE S == {n \in 1..Len(l) : l[n] + age >= t}
<1>1. IsFiniteSet(S)
  <2>1. IsFiniteSet(1..Len(l))
    <3>1. Len(l) \in Nat
      OBVIOUS
    <3> QED
      BY <3>1, FS_Interval
  <2>2. S \in SUBSET (1..Len(l))
    OBVIOUS
  <2> HIDE DEF S
  <2> QED
    BY <2>1, <2>2, FS_Subset
<1>2. Within(l, age, t) = Cardinality(S)
  BY DEF Within
<1>3. S # {} <=> \E n \in 1..Len(l) : l[n] + age >= t
  OBVIOUS
<1> HIDE DEF S
<1>4. Cardinality(S) \in Nat /\ (Cardinality(S) = 0 <=> S = {})
  BY <1>1, FS_CardinalityType, FS_EmptySet
<1> QED
  BY <1>2, <1>3, <1>4

LEMMA ColdestIsPicked ==
  ASSUME HintsOK(cold, order, coldLog, now)
  PROVE  ColdKeysGoFirst(now)
<1>0. cold \in Ring /\ coldLog \in [Keys -> Seq(Nat)] /\ now \in Nat /\ order \in Seq(Keys)
  BY DEF HintsOK, Timed, Listing
<1>a. Window \in Nat /\ BucketTime \in Nat /\ ScanN \in Nat
  BY <1>0, BucketOf, ObserversAssumption
<1> DEFINE f == Fresh(cold, now)
<1>1. /\ f \in Ring
      /\ \A i \in Slots :
           /\ cold[i].start + Window < now => \A x \in Keys : f[i].count[x] = 0
           /\ ~(cold[i].start + Window < now) => f[i] = cold[i]
  BY <1>0, FreshIs
<1>b. f = Fresh(cold, now)
  OBVIOUS
<1> HIDE DEF f
<1> SUFFICES ASSUME NEW a \in Keys, NEW b \in Keys, a # b, a \in Range(order), ScanN > 1,
                    Within(coldLog[a], Window - BucketTime - 1, now) > 0,
                    Within(coldLog[b], Window, now) = 0
             PROVE  PickLruVictim(<<a, b>>, now) = 2
  BY DEF ColdKeysGoFirst
<1>2. Counted(f, b) = 0
  <2>1. coldLog[b] \in Seq(Nat)
    BY <1>0, Logged
  <2>2. ~\E n \in 1..Len(coldLog[b]) : coldLog[b][n] + Window >= now
    BY <2>1, WithinSome
  <2>3. ASSUME NEW i \in Slots, f[i].count[b] > 0 PROVE FALSE
    <3>1. ~(cold[i].start + Window < now) /\ cold[i].count[b] > 0
      <4>1. ~(0 > 0)
        OBVIOUS
      <4> QED
        BY <1>1, <2>3, <4>1
    <3>2. PICK n \in 1..Len(coldLog[b]) : Start(coldLog[b][n]) = cold[i].start
      BY <3>1 DEF HintsOK, Witnessed
    <3> DEFINE y == coldLog[b][n]
    <3>3. y \in Nat
      BY <1>0, Logged
    <3>4. ~(y + Window >= now) /\ Start(y) = cold[i].start
      BY <2>2, <3>2
    <3> HIDE DEF y
    <3>5. Start(y) \in Nat /\ Start(y) <= y
      BY <3>3, BucketOf
    <3>6. now \in Nat /\ Window \in Nat /\ ~(y + Window >= now)
      BY <1>0, <1>a, <3>4
    <3>7. Start(y) + Window < now
      BY <3>3, <3>5, <3>6
    <3> QED
      BY <3>1, <3>4, <3>7
  <2>4. \A i \in Slots : f[i].count[b] \in Nat
    BY <1>1, RingFields
  <2>5. \A i \in Slots : f[i].count[b] = 0
    BY <2>3, <2>4
  <2> QED
    BY <2>4, <2>5, CountedFacts
<1>3. Counted(f, a) > 0 /\ Counted(f, a) \in Nat
  <2> DEFINE y == coldLog[a][Len(coldLog[a])]
  <2>1. Len(coldLog[a]) > 0 /\ Current(cold, a, y, now)
    BY DEF HintsOK, LastCounted
  <2>2. y \in Nat /\ Slot(y) \in Slots
    BY <1>0, <2>1, LastTime
  <2>3. coldLog[a] \in Seq(Nat)
    BY <1>0, Logged
  <2>4. PICK n \in 1..Len(coldLog[a]) : coldLog[a][n] + (Window - BucketTime - 1) >= now
    BY <2>3, WithinSome
  <2> DEFINE x == coldLog[a][n]
  <2>5. x \in Nat /\ x <= y /\ x + (Window - BucketTime - 1) >= now
    BY <1>0, <2>4, Logged DEF HintsOK, Timed
  <2> HIDE DEF x, y
  <2>6. Start(y) \in Nat /\ y < Start(y) + BucketTime
    BY <2>2, BucketOf
  <2>7. ~(Start(y) + Window <= now) /\ ~(Start(y) + Window < now)
    BY <1>0, <1>a, <2>2, <2>5, <2>6
  <2>8. cold[Slot(y)].start = Start(y) /\ cold[Slot(y)].count[a] > 0
    BY <2>1, <2>7 DEF Current
  <2>9. f[Slot(y)].count[a] > 0
    BY <1>1, <2>2, <2>7, <2>8
  <2>10. \A i \in Slots : f[i].count[a] \in Nat
    BY <1>1, RingFields
  <2>11. Counted(f, a) \in Nat /\ f[Slot(y)].count[a] <= Counted(f, a)
    BY <2>2, <2>10, CountedFacts
  <2> QED
    BY <2>2, <2>9, <2>10, <2>11
<1> DEFINE some == 1..(IF Len(<<a, b>>) < ScanN THEN Len(<<a, b>>) ELSE ScanN)
           Best(i) == /\ \A j \in some : Counted(f, <<a, b>>[i]) <= Counted(f, <<a, b>>[j])
                      /\ \A j \in some : j < i => Counted(f, <<a, b>>[i]) < Counted(f, <<a, b>>[j])
<1>4. some = {1, 2}
  <2>1. Len(<<a, b>>) = 2
    OBVIOUS
  <2>2. (IF 2 < ScanN THEN 2 ELSE ScanN) = 2
    BY <1>a
  <2>3. 1..2 = {1, 2}
    OBVIOUS
  <2> QED
    BY <2>1, <2>2, <2>3
<1>5. <<a, b>>[1] = a /\ <<a, b>>[2] = b
  OBVIOUS
<1>6. PickLruVictim(<<a, b>>, now) = CHOOSE i \in some : Best(i)
  BY <1>b DEF PickLruVictim
<1> HIDE DEF some
<1>7. 2 \in some /\ Best(2)
  BY <1>2, <1>3, <1>4, <1>5
<1>8. ASSUME NEW i \in some, Best(i) PROVE i = 2
  <2>1. i = 1 \/ i = 2
    BY <1>4
  <2>2. i = 1 => Counted(f, a) <= Counted(f, b)
    BY <1>4, <1>5, <1>8
  <2> QED
    BY <1>2, <1>3, <2>1, <2>2
<1> HIDE DEF Best
<1> QED
  BY <1>6, <1>7, <1>8

-----------------------------------------------------------------------------
(* Every step of the observers keeps both. *)

WindowsInv ==
  /\ enabled \in Enabling /\ now \in Nat /\ BucketTime <= now
  /\ most \in Nat /\ Len(order) <= most
  /\ DetectorOK(hot, hotLog, now) /\ HintsOK(cold, order, coldLog, now)

LEMMA WindowsStart == Init => WindowsInv
<1> SUFFICES ASSUME Init PROVE WindowsInv
  OBVIOUS
<1>1. Window \in Nat /\ BucketTime <= Window
  BY BucketOf
<1>2. now \in Nat /\ BucketTime <= now
  BY <1>1 DEF Init
<1>3. most \in Nat
  BY ObserversAssumption DEF Init
<1>4. hot = NewRing /\ hotLog = NoTimes /\ cold = NewRing /\ coldLog = NoTimes /\ order = <<>>
  BY DEF Init, WindowsInit
<1>5. Len(order) <= most
  <2>1. Len(order) = 0
    BY <1>4
  <2> QED
    BY <1>3, <2>1
<1>6. DetectorOK(hot, hotLog, now) /\ HintsOK(cold, order, coldLog, now)
  BY <1>2, <1>4, NewStands, NewHints
<1>7. enabled \in Enabling
  BY DEF Init
<1> QED
  BY <1>2, <1>3, <1>5, <1>6, <1>7 DEF WindowsInv

LEMMA RecordedHints ==
  ASSUME WindowsInv, NEW key \in Keys, HintsRecord(key, now)
  PROVE  /\ HintsOK(cold', order', coldLog', now)
         /\ most' \in Nat /\ Len(order') <= most'
<1> USE DEF WindowsInv
<1> DEFINE r == Rotated(cold, now)
           listed == Unlisted(order, cold, r)
           seq == Append(Those(listed, Keys \ {key}), key)
           h == Hits(cold, key, now)
           log == [coldLog EXCEPT ![key] = Append(@, now)]
<1>0. cold \in Ring /\ now \in Nat /\ most \in Nat /\ HintsOK(cold, order, coldLog, now)
  BY DEF HintsOK
<1>1. r \in Ring /\ Emptied(cold, r, now) /\ r[Slot(now)].start = Start(now)
  BY <1>0, RotatedEmpties, RotatedIs
<1>2. h \in Ring /\ OneMore(h, r, Slot(now), key)
  BY <1>0, HitsIs
<1>3. /\ cold' = Without(h, {seq[i] : i \in 1..Overflow(seq, most)})
      /\ order' = Latest(seq, most)
      /\ coldLog' = log /\ most' = most
  BY DEF HintsRecord, Bounded
<1> HIDE DEF WindowsInv
<1> HIDE DEF r, h
<1>4. HintsOK(r, listed, coldLog, now)
  BY <1>0, <1>1, EmptiedHints
<1> HIDE DEF listed
<1>5. HintsOK(h, seq, log, now)
  BY <1>1, <1>2, <1>4, HitHints
<1> HIDE DEF seq, log
<1>6. /\ HintsOK(Without(h, {seq[i] : i \in 1..Overflow(seq, most)}), Latest(seq, most),
                 log, now)
      /\ Len(Latest(seq, most)) <= most
  BY <1>0, <1>5, BoundedHints
<1> QED
  BY <1>0, <1>3, <1>6

\* The clock of a step does not go back.
LEMMA WindowsSame ==
  ASSUME WindowsInv, UNCHANGED windows, enabled' = enabled, now' \in Nat, now <= now'
  PROVE  WindowsInv'
<1>1. /\ hot' = hot /\ cold' = cold /\ order' = order /\ most' = most
      /\ hotLog' = hotLog /\ coldLog' = coldLog
  BY DEF windows
<1>2. DetectorOK(hot', hotLog', now')
  BY <1>1, LaterStands DEF WindowsInv
<1>3. HintsOK(cold', order', coldLog', now')
  BY <1>1, LaterHints DEF WindowsInv
<1>4. BucketTime <= now'
  BY ObserversAssumption DEF WindowsInv
<1> QED
  BY <1>1, <1>2, <1>3, <1>4 DEF WindowsInv

LEMMA WindowsRead ==
  ASSUME WindowsInv, enabled' = enabled, now' = now, NEW key \in Keys, NEW hit,
         DetectorRecord(key, now),
         IF hit THEN HintsRecord(key, now) ELSE UNCHANGED <<cold, order, most, coldLog>>
  PROVE  WindowsInv'
<1>1. DetectorOK(hot', hotLog', now)
  <2>1. hot' = Hits(hot, key, now) /\ hotLog' = [hotLog EXCEPT ![key] = Append(@, now)]
    BY DEF DetectorRecord
  <2> QED
    BY <2>1, RecordStands DEF WindowsInv
<1>2. HintsOK(cold', order', coldLog', now) /\ most' \in Nat /\ Len(order') <= most'
  <2>1. ASSUME HintsRecord(key, now)
        PROVE  HintsOK(cold', order', coldLog', now) /\ most' \in Nat /\ Len(order') <= most'
    BY <2>1, RecordedHints
  <2>2. ASSUME UNCHANGED <<cold, order, most, coldLog>>
        PROVE  HintsOK(cold', order', coldLog', now) /\ most' \in Nat /\ Len(order') <= most'
    BY <2>2 DEF WindowsInv
  <2> QED
    BY <2>1, <2>2
<1> QED
  BY <1>1, <1>2 DEF WindowsInv

LEMMA WindowsWrite ==
  ASSUME WindowsInv, enabled' = enabled, now' = now, NEW key \in Keys,
         HintsRecord(key, now), UNCHANGED <<hot, hotLog>>
  PROVE  WindowsInv'
<1>1. HintsOK(cold', order', coldLog', now) /\ most' \in Nat /\ Len(order') <= most'
  BY RecordedHints
<1> QED
  BY <1>1 DEF WindowsInv

LEMMA WindowsForgets ==
  ASSUME WindowsInv, enabled' = enabled, now' = now, NEW key \in Keys, WindowsForget(key)
  PROVE  WindowsInv'
<1>1. /\ hot' = Without(hot, {key}) /\ cold' = Without(cold, {key})
      /\ order' = Those(order, Keys \ {key})
      /\ hotLog' = [hotLog EXCEPT ![key] = <<>>] /\ coldLog' = [coldLog EXCEPT ![key] = <<>>]
      /\ most' = most
  BY DEF WindowsForget
<1>2. DetectorOK(hot', hotLog', now)
  BY <1>1, ForgetStands DEF WindowsInv
<1>3. HintsOK(cold', order', coldLog', now)
  BY <1>1, ForgottenHints DEF WindowsInv
<1>4. Len(order') <= most
  <2>1. order \in Seq(Keys)
    BY DEF WindowsInv, HintsOK, Listing
  <2>2. Those(order, Keys \ {key}) \in Seq(Keys)
        /\ Len(Those(order, Keys \ {key})) <= Len(order)
    BY <2>1, ThoseOf
  <2>3. Len(order) \in Nat /\ Len(order') \in Nat /\ Len(order') <= Len(order)
    BY <1>1, <2>1, <2>2
  <2>4. most \in Nat /\ Len(order) <= most
    BY DEF WindowsInv
  <2> QED
    BY <2>3, <2>4
<1> QED
  BY <1>1, <1>2, <1>3, <1>4 DEF WindowsInv

LEMMA WindowsQueried ==
  ASSUME WindowsInv, enabled' = enabled, now' = now, WindowsQuery(now)
  PROVE  WindowsInv'
<1>1. /\ hot' = Fresh(hot, now) /\ cold' = Fresh(cold, now)
      /\ order' = Unlisted(order, cold, cold')
      /\ most' = most /\ hotLog' = hotLog /\ coldLog' = coldLog
  BY DEF WindowsQuery
<1>2. DetectorOK(hot', hotLog', now)
  BY <1>1, QueryStands DEF WindowsInv
<1>3. HintsOK(cold', order', coldLog', now)
  <2>1. cold \in Ring /\ now \in Nat /\ HintsOK(cold, order, coldLog, now)
    BY DEF WindowsInv, HintsOK
  <2>2. Fresh(cold, now) \in Ring /\ Emptied(cold, Fresh(cold, now), now)
    BY <2>1, FreshEmpties
  <2>3. HintsOK(Fresh(cold, now), Unlisted(order, cold, Fresh(cold, now)), coldLog, now)
    BY <2>1, <2>2, EmptiedHints
  <2> QED
    BY <1>1, <2>3
<1>4. Len(order') <= most
  <2> DEFINE S == Keys \ (KeysIn(cold) \ KeysIn(cold'))
  <2>1. order \in Seq(Keys) /\ order' = Those(order, S)
    BY <1>1 DEF WindowsInv, HintsOK, Listing, Unlisted
  <2> HIDE DEF S
  <2>2. Those(order, S) \in Seq(Keys) /\ Len(Those(order, S)) <= Len(order)
    BY <2>1, ThoseOf
  <2>3. Len(order) \in Nat /\ Len(order') \in Nat /\ Len(order') <= Len(order)
    BY <2>1, <2>2
  <2>4. most \in Nat /\ Len(order) <= most
    BY DEF WindowsInv
  <2> QED
    BY <2>3, <2>4
<1> QED
  BY <1>1, <1>2, <1>3, <1>4 DEF WindowsInv

LEMMA WindowsBound ==
  ASSUME WindowsInv, enabled' = enabled, now' = now, NEW m \in Limits,
         HintsResize(m), UNCHANGED <<hot, hotLog>>
  PROVE  WindowsInv'
<1>0. m \in Nat
  BY ObserversAssumption
<1>1. /\ cold' = Without(cold, {order[i] : i \in 1..Overflow(order, m)})
      /\ order' = Latest(order, m)
      /\ coldLog' = coldLog /\ most' = m
  BY DEF HintsResize, Bounded
<1>2. HintsOK(cold, order, coldLog, now)
  BY DEF WindowsInv
<1>3. /\ HintsOK(Without(cold, {order[i] : i \in 1..Overflow(order, m)}),
                 Latest(order, m), coldLog, now)
      /\ Len(Latest(order, m)) <= m
  BY <1>0, <1>2, BoundedHints
<1>4. HintsOK(cold', order', coldLog', now) /\ Len(order') <= m
  BY <1>1, <1>3
<1> QED
  BY <1>0, <1>1, <1>4 DEF WindowsInv

LEMMA WindowsAnew ==
  ASSUME WindowsInv, enabled' = enabled, now' = now, WindowsReset
  PROVE  WindowsInv'
<1>1. /\ hot' = NewRing /\ hotLog' = NoTimes
      /\ cold' = NewRing /\ coldLog' = NoTimes /\ order' = <<>> /\ most' = most
  BY DEF WindowsReset
<1>2. now \in Nat /\ most \in Nat
  BY DEF WindowsInv
<1>3. DetectorOK(hot', hotLog', now) /\ HintsOK(cold', order', coldLog', now)
  BY <1>1, <1>2, NewStands, NewHints
<1>4. Len(order') <= most
  <2>1. Len(order') = 0
    BY <1>1
  <2> QED
    BY <1>2, <2>1
<1> QED
  BY <1>1, <1>3, <1>4 DEF WindowsInv

LEMMA WindowsStep == WindowsInv /\ [Next]_vars => WindowsInv'
<1> SUFFICES ASSUME WindowsInv, [Next]_vars PROVE WindowsInv'
  OBVIOUS
<1>0. now \in Nat /\ now <= now
  BY DEF WindowsInv
<1>1. ASSUME UNCHANGED <<windows, enabled, now>> PROVE WindowsInv'
  BY <1>0, <1>1, WindowsSame
<1>2. CASE UNCHANGED vars
  BY <1>1, <1>2 DEF vars
<1>3. ASSUME NEW key \in Keys, NEW hit \in BOOLEAN, Read(key, hit) PROVE WindowsInv'
  <2> DEFINE step == DetectorRecord(key, now)
                     /\ IF hit THEN HintsRecord(key, now)
                        ELSE UNCHANGED <<cold, order, most, coldLog>>
  <2>1. enabled' = enabled /\ now' = now /\ Windows(step)
    BY <1>3 DEF Read, Observed, Event
  <2>2. CASE "windows" \in enabled
    <3>1. step
      BY <2>1, <2>2 DEF Windows
    <3> QED
      BY <2>1, <3>1, WindowsRead
  <2>3. CASE "windows" \notin enabled
    <3>1. UNCHANGED windows
      BY <2>1, <2>3 DEF Windows
    <3> QED
      BY <1>1, <2>1, <3>1
  <2> QED
    BY <2>2, <2>3
<1>4. ASSUME NEW key \in Keys, NEW base \in Bases \cup {None}, Write(key, base)
      PROVE  WindowsInv'
  <2>1. enabled' = enabled /\ now' = now
        /\ Windows(HintsRecord(key, now) /\ UNCHANGED <<hot, hotLog>>)
    BY <1>4 DEF Write, Observed, Event
  <2>2. CASE "windows" \in enabled
    <3>1. HintsRecord(key, now) /\ UNCHANGED <<hot, hotLog>>
      BY <2>1, <2>2 DEF Windows
    <3> QED
      BY <2>1, <3>1, WindowsWrite
  <2>3. CASE "windows" \notin enabled
    <3>1. UNCHANGED windows
      BY <2>1, <2>3 DEF Windows
    <3> QED
      BY <1>1, <2>1, <3>1
  <2> QED
    BY <2>2, <2>3
<1>5. ASSUME NEW key \in Keys, Delete(key) PROVE WindowsInv'
  <2>1. enabled' = enabled /\ now' = now /\ Windows(WindowsForget(key))
    BY <1>5 DEF Delete, Observed, Event
  <2>2. WindowsForget(key) \/ UNCHANGED windows
    BY <2>1 DEF Windows
  <2> QED
    BY <1>1, <2>1, <2>2, WindowsForgets
<1>6. ASSUME Report PROVE WindowsInv'
  <2>1. enabled' = enabled /\ now' = now /\ Windows(WindowsQuery(now))
    BY <1>6 DEF Report, Observed, Event
  <2>2. WindowsQuery(now) \/ UNCHANGED windows
    BY <2>1 DEF Windows
  <2> QED
    BY <1>1, <2>1, <2>2, WindowsQueried
<1>7. ASSUME NEW gap \in Gaps, Tick(gap) PROVE WindowsInv'
  <2>1. enabled' = enabled /\ now' = now + gap /\ UNCHANGED windows
    BY <1>7 DEF Tick, Event
  <2>2. gap \in Nat
    BY ObserversAssumption
  <2>3. now' \in Nat /\ now <= now'
    BY <1>0, <2>1, <2>2
  <2> QED
    BY <2>1, <2>3, WindowsSame
<1>8. ASSUME NEW m, Resize(m) PROVE WindowsInv'
  BY <1>1, <1>8 DEF Resize, AdminEvent
<1>9. ASSUME NEW m \in Limits, Bound(m) PROVE WindowsInv'
  <2>1. enabled' = enabled /\ now' = now
        /\ Windows(HintsResize(m) /\ UNCHANGED <<hot, hotLog>>)
    BY <1>9 DEF Bound, AdminEvent
  <2>2. CASE "windows" \in enabled
    <3>1. HintsResize(m) /\ UNCHANGED <<hot, hotLog>>
      BY <2>1, <2>2 DEF Windows
    <3> QED
      BY <2>1, <3>1, WindowsBound
  <2>3. CASE "windows" \notin enabled
    <3>1. UNCHANGED windows
      BY <2>1, <2>3 DEF Windows
    <3> QED
      BY <1>1, <2>1, <3>1
  <2> QED
    BY <2>2, <2>3
<1>10. CASE Switch
  BY <1>1, <1>10 DEF Switch, AdminEvent
<1>11. ASSUME Reset \/ Restart PROVE WindowsInv'
  <2>1. enabled' = enabled /\ now' = now /\ Windows(WindowsReset)
    BY <1>11 DEF Reset, Restart, AdminEvent
  <2>2. WindowsReset \/ UNCHANGED windows
    BY <2>1 DEF Windows
  <2> QED
    BY <1>1, <2>1, <2>2, WindowsAnew
<1>12. CASE Limiter
  BY <1>1, <1>12 DEF Limiter
<1> QED
  BY <1>2, <1>3, <1>4, <1>5, <1>6, <1>7, <1>8, <1>9, <1>10, <1>11, <1>12 DEF Next

LEMMA WindowsTyped == WindowsInv => WindowsTypeOK
<1> SUFFICES ASSUME WindowsInv PROVE WindowsTypeOK
  OBVIOUS
<1>1. hot \in Ring /\ cold \in Ring /\ order \in Seq(Keys) /\ IsInjective(order)
      /\ most \in Nat /\ Len(order) <= most
  BY DEF WindowsInv, DetectorOK, HintsOK, Listing
<1>2. \A ring \in {hot, cold} : \A i \in Slots :
        /\ ring[i].start \in Nat /\ ring[i].start % BucketTime = 0
        /\ ring[i].count \in [Keys -> Nat]
  BY <1>1, RingFields
<1>3. \A x \in Keys : x \in Range(order) <=> x \in KeysIn(cold)
  BY <1>1, KeysInIs DEF WindowsInv, HintsOK, Listing, Held
<1>4. Range(order) \subseteq Keys /\ KeysIn(cold) \subseteq Keys
  BY <1>1, RangeOf DEF KeysIn
<1>5. Range(order) = KeysIn(cold)
  BY <1>3, <1>4
<1> QED
  BY <1>1, <1>2, <1>5 DEF WindowsTypeOK

LEMMA SpecWindows == Spec => []WindowsInv
  BY WindowsStart, WindowsStep, PTL DEF Spec

\* What the detector reports of a key are accesses of the window, and all of them but
\* those older than every bucket but one, however often its buckets were reused and
\* whichever of records, queries, deletes and resets came in between (WindowCounted):
\* for any number of buckets, of any length, any keys and any gaps of the clock.
THEOREM DetectorCountsTheWindow == Spec => []WindowCounted
<1>1. WindowsInv => WindowCounted
  <2> SUFFICES ASSUME WindowsInv PROVE WindowCounted
    OBVIOUS
  <2>1. WindowIsCounted(now)
    BY DetectorCounts DEF WindowsInv
  <2> QED
    BY <2>1, WindowsTyped DEF WindowCounted
<1> QED
  BY <1>1, SpecWindows, PTL

\* Of two candidates for an eviction, a key that the hints track and that was accessed
\* within all buckets but one is never picked before one that was not accessed within the
\* window (ColdGoFirst), whatever bounds the hints were given on the keys they track.
THEOREM ColdKeysFirst == Spec => []ColdGoFirst
<1>1. WindowsInv => ColdGoFirst
  BY ColdestIsPicked DEF WindowsInv, ColdGoFirst
<1> QED
  BY <1>1, SpecWindows, PTL

-----------------------------------------------------------------------------
(* The adaptive TTL: the statistics, and what a replay of the log makes of the times *)
(* to live.                                                                          *)

Doubling(n) == CHOOSE twice : twice = [i \in 0..n |-> IF i = 0 THEN 1 ELSE 2 * twice[i - 1]]

LEMMA TwiceIs ==
  ASSUME NEW n \in Nat
  PROVE  Twice(n) \in Nat \ {0}
<1> DEFINE P == Nat \ {0}
           F == [p \in P \X (1..n) |-> 2 * p[1]]
<1>1. \A x \in P, i \in 1..n : F[<<x, i>>] = 2 * x
  OBVIOUS
<1>2. StepsIn(P, F, n)
  <2>1. \A x \in P : 2 * x \in P
    OBVIOUS
  <2> QED
    BY <1>1, <2>1 DEF StepsIn
<1>3. 1 \in P
  OBVIOUS
<1> HIDE DEF F, P
<1>4. PICK f : Iterated(f, P, 1, F, n)
  BY <1>2, <1>3, Iterates
<1>5. f \in [0..n -> P] /\ f[0] = 1 /\ \A i \in 1..n : f[i] = F[<<f[i - 1], i>>]
  BY <1>4 DEF Iterated
<1>a. (\A i \in 1..n : i - 1 \in 0..n /\ i # 0 /\ i \in 0..n)
      /\ (\A i \in 0..n : i # 0 => i \in 1..n) /\ 0 \in 0..n /\ n \in 0..n
  OBVIOUS
<1>6. \A i \in 1..n : f[i] = 2 * f[i - 1]
  BY <1>1, <1>5, <1>a
<1>7. \A i \in 0..n : f[i] = IF i = 0 THEN 1 ELSE 2 * f[i - 1]
  BY <1>5, <1>6, <1>a
<1>8. f = [i \in 0..n |-> IF i = 0 THEN 1 ELSE 2 * f[i - 1]]
  BY <1>5, <1>7
<1> DEFINE s == Doubling(n)
<1>9. s = [i \in 0..n |-> IF i = 0 THEN 1 ELSE 2 * s[i - 1]]
  BY <1>8 DEF Doubling
<1>10. Twice(n) = s[n]
  BY DEF Twice, Doubling
<1> HIDE DEF s
<1>11. \A i \in 0..n : s[i] = IF i = 0 THEN 1 ELSE 2 * s[i - 1]
  BY <1>9
<1> DEFINE T == {i \in 0..n : s[i] \in P}
<1>12. 0 \in T
  BY <1>3, <1>11, <1>a
<1>13. ASSUME NEW i \in 1..n, i - 1 \in T PROVE i \in T
  <2>1. s[i - 1] \in P /\ s[i] = 2 * s[i - 1]
    BY <1>11, <1>13, <1>a
  <2>2. 2 * s[i - 1] \in P
    BY <2>1 DEF P
  <2> QED
    BY <1>a, <2>1, <2>2
<1> HIDE DEF T
<1>14. \A i \in 0..n : i \in T
  BY <1>12, <1>13, Upward
<1>15. s[n] \in P
  BY <1>14, <1>a DEF T
<1> QED
  BY <1>10, <1>15 DEF P

LEMMA ClampedIs ==
  ASSUME NEW x \in Nat
  PROVE  /\ Clamped(x) \in Nat
         /\ \A b \in Nat : x <= b /\ MinTTL <= b => Clamped(x) <= b
BY ObserversAssumption DEF Clamped

Stat == [hits: Nat, misses: Nat, last: Nat]

LEMMA TunedIs ==
  ASSUME NEW st \in Stat, NEW b \in Nat, NEW t \in Nat, st.last <= t
  PROVE  /\ Tuned(st, b, t) \in Nat
         /\ st.hits = 0 /\ st.misses = 0 /\ MinTTL <= b => Tuned(st, b, t) <= b
<1>1. st.hits \in Nat /\ st.misses \in Nat /\ st.last \in Nat
  BY DEF Stat
<1> DEFINE h == st.hits
           c == st.hits + st.misses
           d == Twice((t - st.last) \div HalfLife)
           all == c * d
           x == IF c = 0 THEN b \div 2 ELSE (b * (all + 3 * h)) \div (2 * all)
<1>2. h \in Nat /\ c \in Nat
  BY <1>1
<1>3. d \in Nat \ {0}
  <2>1. t - st.last \in Nat /\ HalfLife \in Nat \ {0}
    BY <1>1, ObserversAssumption
  <2>2. (t - st.last) \div HalfLife \in Nat
    BY <2>1
  <2> QED
    BY <2>2, TwiceIs
<1>4. Tuned(st, b, t) = Clamped(x)
  BY DEF Tuned
<1>5. c = 0 => x = b \div 2
  OBVIOUS
<1>6. c # 0 => x = (b * (all + 3 * h)) \div (2 * all)
  OBVIOUS
<1> HIDE DEF x, d, c, h
<1>7. c # 0 => all \in Nat \ {0}
  BY <1>2, <1>3
<1> HIDE DEF all
<1>8. c # 0 => x \in Nat
  <2> SUFFICES ASSUME c # 0 PROVE x \in Nat
    OBVIOUS
  <2>1. all \in Nat \ {0} /\ all + 3 * h \in Nat
    BY <1>2, <1>7
  <2>2. b * (all + 3 * h) \in Nat /\ 2 * all \in Nat \ {0}
    BY <2>1
  <2>3. \A m \in Nat, n \in Nat \ {0} : m \div n \in Nat
    OBVIOUS
  <2> QED
    BY <1>6, <2>2, <2>3
<1>9. b \div 2 \in Nat /\ b \div 2 <= b
  OBVIOUS
<1>10. x \in Nat /\ (c = 0 => x <= b)
  BY <1>5, <1>8, <1>9
<1>11. st.hits = 0 /\ st.misses = 0 => c = 0
  BY DEF c
<1> QED
  BY <1>4, <1>10, <1>11, ClampedIs

\* The statistics of the tracked keys, in the order of the keys; and when no key has any.
Tracks(f, seq, t) ==
  /\ seq \in Seq(Keys) /\ IsInjective(seq) /\ Len(seq) <= MaxStats
  /\ f \in [Range(seq) -> Stat] /\ \A x \in Range(seq) : f[x].last <= t
Untouched(f) == \A x \in DOMAIN f : f[x].hits = 0 /\ f[x].misses = 0

TTLs == Nat \cup {None}

LEMMA TuneTTLIs ==
  ASSUME NEW f, NEW seq, NEW t \in Nat, Tracks(f, seq, t), NEW key, NEW base \in TTLs
  PROVE  /\ TuneTTL(f, key, base, t) \in TTLs
         /\ Untouched(f) /\ base \in Nat /\ MinTTL <= base =>
              TuneTTL(f, key, base, t) \in Nat /\ TuneTTL(f, key, base, t) <= base
<1>0. None \notin Nat /\ DefaultBase \in Nat
  BY ObserversAssumption
<1> DEFINE b == IF base = None THEN DefaultBase ELSE base
           x == Suggested(f, key, base, t)
<1>1. b \in Nat /\ (base \in Nat => b = base)
  BY <1>0 DEF TTLs
<1>2. x = IF key \in DOMAIN f THEN Tuned(f[key], b, t) ELSE Clamped(b)
  BY DEF Suggested
<1>3. TuneTTL(f, key, base, t) = IF on THEN x ELSE base
  BY DEF TuneTTL
<1> HIDE DEF b, x
<1>4. x \in Nat /\ (Untouched(f) /\ MinTTL <= b => x <= b)
  <2>1. CASE key \in DOMAIN f
    <3>1. f[key] \in Stat /\ f[key].last <= t
      BY <2>1 DEF Tracks
    <3>2. Untouched(f) => f[key].hits = 0 /\ f[key].misses = 0
      BY <2>1 DEF Untouched
    <3> QED
      BY <1>1, <1>2, <2>1, <3>1, <3>2, TunedIs
  <2>2. CASE key \notin DOMAIN f
    <3>1. b <= b
      BY <1>1
    <3> QED
      BY <1>1, <1>2, <2>2, <3>1, ClampedIs
  <2> QED
    BY <2>1, <2>2
<1>5. base \in Nat => base <= base
  OBVIOUS
<1> QED
  BY <1>1, <1>3, <1>4, <1>5 DEF TTLs

LEMMA MovedIs ==
  ASSUME NEW seq \in Seq(Keys), IsInjective(seq), NEW key \in Keys
  PROVE  /\ Moved(seq, key) \in Seq(Keys) /\ IsInjective(Moved(seq, key))
         /\ Len(Moved(seq, key)) <= MaxStats
         /\ \A x \in Range(Moved(seq, key)) : x \in Keys /\ (x \in Range(seq) \/ x = key)
<1> DEFINE l == Append(Those(seq, Keys \ {key}), key)
           s == Latest(l, MaxStats)
<1>0. MaxStats \in Nat
  BY ObserversAssumption
<1>1. /\ l \in Seq(Keys) /\ IsInjective(l)
      /\ \A x \in Keys : x \in Range(l) <=> x \in Range(seq) \/ x = key
  BY LastListed
<1> HIDE DEF l
<1>2. /\ s \in Seq(Keys) /\ IsInjective(s) /\ Len(s) <= MaxStats
      /\ \A x \in Keys : x \in Range(s) => x \in Range(l)
  BY <1>0, <1>1, DroppedAre
<1>3. s = Moved(seq, key)
  BY DEF Moved, l
<1> HIDE DEF s
<1>4. Range(s) \subseteq Keys
  BY <1>2, RangeOf
<1> QED
  BY <1>1, <1>2, <1>3, <1>4

LEMMA TouchedIs ==
  ASSUME NEW f, NEW seq, NEW t, Tracks(f, seq, t), NEW key \in Keys,
         NEW st \in Stat, st.last <= t
  PROVE  /\ Tracks(Touched(f, seq, key, st), Moved(seq, key), t)
         /\ Untouched(f) /\ st.hits = 0 /\ st.misses = 0 =>
              Untouched(Touched(f, seq, key, st))
<1> DEFINE s == Moved(seq, key)
           g == Touched(f, seq, key, st)
<1>1. seq \in Seq(Keys) /\ IsInjective(seq) /\ f \in [Range(seq) -> Stat]
      /\ \A x \in Range(seq) : f[x].last <= t
  BY DEF Tracks
<1>2. /\ s \in Seq(Keys) /\ IsInjective(s) /\ Len(s) <= MaxStats
      /\ \A x \in Range(s) : x \in Range(seq) \/ x = key
  BY <1>1, MovedIs
<1>3. g = [x \in Range(s) |-> IF x = key THEN st ELSE f[x]]
  BY DEF Touched
<1> HIDE DEF s, g
<1>4. /\ g \in [Range(s) -> Stat] /\ DOMAIN g = Range(s)
      /\ \A x \in Range(s) : g[x] = IF x = key THEN st ELSE f[x]
  BY <1>1, <1>2, <1>3
<1>5. \A x \in Range(s) : g[x].last <= t
  BY <1>1, <1>2, <1>4
<1>6. Untouched(f) /\ st.hits = 0 /\ st.misses = 0 => Untouched(g)
  BY <1>1, <1>2, <1>4 DEF Untouched
<1>7. Tracks(g, s, t)
  BY <1>2, <1>4, <1>5 DEF Tracks
<1> QED
  BY <1>6, <1>7 DEF g, s

LEMMA OthersIs ==
  ASSUME NEW f, NEW seq, NEW t, Tracks(f, seq, t), NEW key
  PROVE  /\ Tracks(Others(f, key), Those(seq, Keys \ {key}), t)
         /\ Untouched(f) => Untouched(Others(f, key))
<1> DEFINE s == Those(seq, Keys \ {key})
           g == Others(f, key)
<1>0. MaxStats \in Nat
  BY ObserversAssumption
<1>1. /\ seq \in Seq(Keys) /\ IsInjective(seq) /\ Len(seq) <= MaxStats
      /\ f \in [Range(seq) -> Stat] /\ \A x \in Range(seq) : f[x].last <= t
  BY DEF Tracks
<1>2. /\ s \in Seq(Keys) /\ IsInjective(s) /\ Len(s) <= Len(seq)
      /\ \A x : x \in Range(s) <=> x \in Range(seq) /\ x \in Keys \ {key}
  BY <1>1, ThoseOf
<1>3. g = [x \in DOMAIN f \ {key} |-> f[x]]
  BY DEF Others
<1> HIDE DEF s, g
<1>4. Len(s) <= MaxStats
  <2>1. Len(s) \in Nat /\ Len(seq) \in Nat
    BY <1>1, <1>2
  <2> QED
    BY <1>0, <1>1, <1>2, <2>1
<1>5. Range(s) = DOMAIN f \ {key}
  <2>1. Range(seq) \subseteq Keys /\ DOMAIN f = Range(seq)
    BY <1>1, RangeOf
  <2> QED
    BY <1>2, <2>1
<1>6. g \in [Range(s) -> Stat] /\ \A x \in Range(s) : g[x] = f[x] /\ x \in DOMAIN f
  BY <1>1, <1>3, <1>5
<1>7. Tracks(g, s, t)
  BY <1>1, <1>2, <1>4, <1>6 DEF Tracks
<1>8. Untouched(f) => Untouched(g)
  BY <1>6 DEF Untouched
<1> QED
  BY <1>7, <1>8 DEF g, s

LEMMA PresentIs ==
  ASSUME NEW f, NEW seq, NEW t \in Nat, Tracks(f, seq, t), NEW key
  PROVE  /\ Present(f, key, t) \in Stat /\ Present(f, key, t).last <= t
         /\ Untouched(f) => Present(f, key, t).hits = 0 /\ Present(f, key, t).misses = 0
<1>1. CASE key \in DOMAIN f
  BY <1>1 DEF Present, Tracks, Untouched
<1>2. CASE key \notin DOMAIN f
  <2>1. Present(f, key, t) = New(t)
    BY <1>2 DEF Present
  <2>2. New(t) \in Stat /\ New(t).last = t /\ New(t).hits = 0 /\ New(t).misses = 0 /\ t <= t
    BY DEF New, Stat
  <2> QED
    BY <2>1, <2>2
<1> QED
  BY <1>1, <1>2

NoStats == [key \in {} |-> New(0)]

LEMMA NoneTracked ==
  ASSUME NEW t
  PROVE  Tracks(NoStats, <<>>, t) /\ Untouched(NoStats)
<1>1. <<>> \in Seq(Keys) /\ Range(<<>>) = {} /\ IsInjective(<<>>) /\ Len(<<>>) = 0
  BY DEF Range, IsInjective
<1>2. 0 <= MaxStats
  BY ObserversAssumption
<1>3. NoStats \in [{} -> Stat] /\ DOMAIN NoStats = {}
  BY DEF NoStats
<1> QED
  BY <1>1, <1>2, <1>3 DEF Tracks, Untouched

LEMMA LaterTracks ==
  ASSUME NEW f, NEW seq, NEW t \in Nat, Tracks(f, seq, t), NEW u \in Nat, t <= u
  PROVE  Tracks(f, seq, u)
<1>1. ASSUME NEW x \in Range(seq) PROVE f[x].last <= u
  <2>1. f[x].last \in Nat /\ f[x].last <= t
    BY DEF Tracks, Stat
  <2> QED
    BY <2>1
<1> QED
  BY <1>1 DEF Tracks

\* The first n lines, and times to live that are no longer than what they say last.
Shorter(f, ls, n) ==
  \A key \in Keys : \A i \in 1..n :
    /\ ls[i][1] = key /\ \A j \in 1..n : j > i => ls[j][1] # key
    /\ ls[i][2] \in Nat /\ MinTTL <= ls[i][2]
    => f[key] \in Nat /\ f[key] <= ls[i][2]

LogOK(ls) == ls \in Seq(Keys \X TTLs)

LEMMA OneMoreLine ==
  ASSUME NEW f, NEW g, NEW ls, NEW n \in Nat, n # 0, Shorter(f, ls, n - 1),
         NEW key, ls[n][1] = key,
         ls[n][2] \in Nat /\ MinTTL <= ls[n][2] => g[key] \in Nat /\ g[key] <= ls[n][2],
         \A x \in Keys : x # key => g[x] = f[x]
  PROVE  Shorter(g, ls, n)
<1> SUFFICES ASSUME NEW x \in Keys, NEW i \in 1..n, ls[i][1] = x,
                    \A j \in 1..n : j > i => ls[j][1] # x,
                    ls[i][2] \in Nat, MinTTL <= ls[i][2]
             PROVE  g[x] \in Nat /\ g[x] <= ls[i][2]
  BY DEF Shorter
<1>1. CASE x = key
  <2>1. n \in 1..n /\ ~(n > i)
    BY <1>1
  <2>2. i = n
    BY <2>1
  <2> QED
    BY <1>1, <2>2
<1>2. CASE x # key
  <2>1. i # n
    BY <1>2
  <2>2. i \in 1..(n - 1) /\ \A j \in 1..(n - 1) : j \in 1..n
    BY <2>1
  <2>3. f[x] \in Nat /\ f[x] <= ls[i][2]
    BY <2>2 DEF Shorter
  <2> QED
    BY <1>2, <2>3
<1> QED
  BY <1>1, <1>2

\* What a replay has come to.
Replaying(t) ==
  {r \in [ttl: [Keys -> TTLs], stats: UNION {[S -> Stat] : S \in SUBSET Keys},
          recent: Seq(Keys)] :
     Tracks(r.stats, r.recent, t) /\ Untouched(r.stats)}

LEMMA ReplayingIs ==
  ASSUME NEW t, NEW f \in [Keys -> TTLs], NEW g, NEW seq, Tracks(g, seq, t), Untouched(g)
  PROVE  [ttl |-> f, stats |-> g, recent |-> seq] \in Replaying(t)
<1> DEFINE r == [ttl |-> f, stats |-> g, recent |-> seq]
<1>1. seq \in Seq(Keys) /\ g \in [Range(seq) -> Stat]
  BY DEF Tracks
<1>2. Range(seq) \in SUBSET Keys
  BY <1>1, RangeOf
<1>3. g \in UNION {[S -> Stat] : S \in SUBSET Keys}
  BY <1>1, <1>2
<1>4. r.ttl = f /\ r.stats = g /\ r.recent = seq
  OBVIOUS
<1>5. r \in [ttl: [Keys -> TTLs], stats: UNION {[S -> Stat] : S \in SUBSET Keys},
             recent: Seq(Keys)]
  BY <1>1, <1>3
<1> HIDE DEF r
<1>6. r \in Replaying(t)
  BY <1>4, <1>5 DEF Replaying
<1> QED
  BY <1>6 DEF r

LEMMA ReplayingHas ==
  ASSUME NEW t, NEW r \in Replaying(t)
  PROVE  r.ttl \in [Keys -> TTLs] /\ Tracks(r.stats, r.recent, t) /\ Untouched(r.stats)
BY DEF Replaying

LEMMA RedoneIs ==
  ASSUME NEW t \in Nat, NEW r \in Replaying(t), NEW l \in Keys \X TTLs
  PROVE  /\ Redone(r, l, t) \in Replaying(t)
         /\ l[2] \in Nat /\ MinTTL <= l[2] =>
              Redone(r, l, t).ttl[l[1]] \in Nat /\ Redone(r, l, t).ttl[l[1]] <= l[2]
         /\ \A x \in Keys : x # l[1] => Redone(r, l, t).ttl[x] = r.ttl[x]
<1>0. /\ l[1] \in Keys /\ l[2] \in TTLs /\ MinTTL \in Nat \ {0} /\ 0 \in TTLs
      /\ r.ttl \in [Keys -> TTLs] /\ Tracks(r.stats, r.recent, t) /\ Untouched(r.stats)
  BY ReplayingHas, ObserversAssumption DEF TTLs
<1> DEFINE f == [r.ttl EXCEPT ![l[1]] = 0]
           tuned == TuneTTL(r.stats, l[1], l[2], t)
           h == [r.ttl EXCEPT ![l[1]] = tuned]
<1>1. CASE l[2] = 0
  <2>1. Redone(r, l, t) = [ttl |-> f, stats |-> Others(r.stats, l[1]),
                           recent |-> Those(r.recent, Keys \ {l[1]})]
    BY <1>1 DEF Redone
  <2>2. f \in [Keys -> TTLs] /\ \A x \in Keys : x # l[1] => f[x] = r.ttl[x]
    BY <1>0
  <2> HIDE DEF f
  <2>3. /\ Tracks(Others(r.stats, l[1]), Those(r.recent, Keys \ {l[1]}), t)
        /\ Untouched(Others(r.stats, l[1]))
    BY <1>0, OthersIs
  <2>4. Redone(r, l, t) \in Replaying(t)
    BY <2>1, <2>2, <2>3, ReplayingIs
  <2>5. Redone(r, l, t).ttl = f
    BY <2>1
  <2>6. ~(MinTTL <= l[2])
    BY <1>0, <1>1
  <2> QED
    BY <2>2, <2>4, <2>5, <2>6
<1>2. CASE l[2] # 0
  <2> DEFINE g == IF on THEN Touched(r.stats, r.recent, l[1], Present(r.stats, l[1], t))
                  ELSE r.stats
             s == IF on THEN Moved(r.recent, l[1]) ELSE r.recent
  <2>1. Redone(r, l, t) = [ttl |-> h, stats |-> g, recent |-> s]
    BY <1>2 DEF Redone
  <2>2. /\ tuned \in TTLs
        /\ l[2] \in Nat /\ MinTTL <= l[2] => tuned \in Nat /\ tuned <= l[2]
    BY <1>0, TuneTTLIs
  <2> HIDE DEF tuned
  <2>3. /\ h \in [Keys -> TTLs] /\ h[l[1]] = tuned
        /\ \A x \in Keys : x # l[1] => h[x] = r.ttl[x]
    BY <1>0, <2>2
  <2> HIDE DEF h
  <2>4. Tracks(g, s, t) /\ Untouched(g)
    <3>1. CASE on
      <4>1. /\ Present(r.stats, l[1], t) \in Stat /\ Present(r.stats, l[1], t).last <= t
            /\ Present(r.stats, l[1], t).hits = 0 /\ Present(r.stats, l[1], t).misses = 0
        BY <1>0, PresentIs
      <4> QED
        BY <1>0, <3>1, <4>1, TouchedIs
    <3>2. CASE ~on
      BY <1>0, <3>2
    <3> QED
      BY <3>1, <3>2
  <2> HIDE DEF g, s
  <2>5. Redone(r, l, t) \in Replaying(t)
    BY <2>1, <2>3, <2>4, ReplayingIs
  <2>6. Redone(r, l, t).ttl = h
    BY <2>1
  <2> QED
    BY <2>2, <2>3, <2>5, <2>6
<1> QED
  BY <1>1, <1>2

ReplayStart == [ttl |-> [key \in Keys |-> 0], stats |-> NoStats, recent |-> <<>>]
Redoing(t) ==
  CHOOSE redone : redone = [i \in 0..Len(lines) |->
                              IF i = 0 THEN ReplayStart
                              ELSE Redone(redone[i - 1], lines[i], t)]

LEMMA Replays ==
  ASSUME LogOK(lines), NEW t \in Nat
  PROVE  \E s : /\ s[0] = ReplayStart
                /\ \A i \in 1..Len(lines) : s[i] = Redone(s[i - 1], lines[i], t)
                /\ Replayed(t) = s[Len(lines)]
<1> DEFINE n == Len(lines)
           A == Replaying(t)
<1>0. n \in Nat /\ \A i \in 1..n : lines[i] \in Keys \X TTLs
  BY DEF LogOK
<1> DEFINE F == [p \in A \X (1..n) |-> Redone(p[1], lines[p[2]], t)]
<1>1. \A r \in A, i \in 1..n : F[<<r, i>>] = Redone(r, lines[i], t)
  OBVIOUS
<1> HIDE DEF F
<1>2. StepsIn(A, F, n)
  <2>1. ASSUME NEW r \in A, NEW i \in 1..n PROVE F[<<r, i>>] \in A
    <3>1. lines[i] \in Keys \X TTLs
      BY <1>0
    <3>2. Redone(r, lines[i], t) \in A
      BY <3>1, RedoneIs
    <3> QED
      BY <1>1, <3>2
  <2> QED
    BY <2>1 DEF StepsIn
<1>3. ReplayStart \in A
  <2>1. [key \in Keys |-> 0] \in [Keys -> TTLs]
    BY DEF TTLs
  <2> QED
    BY <2>1, NoneTracked, ReplayingIs DEF ReplayStart
<1> HIDE DEF A, n
<1>4. PICK f : Iterated(f, A, ReplayStart, F, n)
  BY <1>0, <1>2, <1>3, Iterates
<1>5. /\ f \in [0..n -> A] /\ f[0] = ReplayStart
      /\ \A i \in 1..n : f[i] = F[<<f[i - 1], i>>]
  BY <1>4 DEF Iterated
<1>a. (\A i \in 1..n : i - 1 \in 0..n /\ i # 0 /\ i \in 0..n)
      /\ (\A i \in 0..n : i # 0 => i \in 1..n) /\ 0 \in 0..n
  BY <1>0
<1>6. \A i \in 1..n : f[i] = Redone(f[i - 1], lines[i], t)
  BY <1>1, <1>5, <1>a
<1>7. \A i \in 0..n : f[i] = IF i = 0 THEN ReplayStart ELSE Redone(f[i - 1], lines[i], t)
  BY <1>5, <1>6, <1>a
<1>8. f = [i \in 0..n |-> IF i = 0 THEN ReplayStart ELSE Redone(f[i - 1], lines[i], t)]
  BY <1>5, <1>7
<1> DEFINE s == Redoing(t)
<1>9. s = [i \in 0..n |-> IF i = 0 THEN ReplayStart ELSE Redone(s[i - 1], lines[i], t)]
  BY <1>8 DEF Redoing, n
<1>10. Replayed(t) = s[n]
  BY DEF Replayed, Redoing, ReplayStart, NoStats, n
<1> HIDE DEF s
<1>11. \A i \in 0..n : s[i] = IF i = 0 THEN ReplayStart ELSE Redone(s[i - 1], lines[i], t)
  BY <1>9
<1>12. s[0] = ReplayStart /\ \A i \in 1..n : s[i] = Redone(s[i - 1], lines[i], t)
  BY <1>11, <1>a
<1> QED
  BY <1>10, <1>12 DEF n

\* A replay lengthens nothing.
LEMMA ReplayedIs ==
  ASSUME LogOK(lines), NEW t \in Nat
  PROVE  Replayed(t) \in Replaying(t) /\ Shorter(Replayed(t).ttl, lines, Len(lines))
<1>0. Len(lines) \in Nat /\ \A i \in 1..Len(lines) : lines[i] \in Keys \X TTLs
  BY DEF LogOK
<1>1. PICK s : /\ s[0] = ReplayStart
               /\ \A i \in 1..Len(lines) : s[i] = Redone(s[i - 1], lines[i], t)
               /\ Replayed(t) = s[Len(lines)]
  BY Replays
<1> DEFINE T == {i \in 0..Len(lines) : s[i] \in Replaying(t) /\ Shorter(s[i].ttl, lines, i)}
<1>2. 0 \in T
  <2>1. [key \in Keys |-> 0] \in [Keys -> TTLs]
    BY DEF TTLs
  <2>2. s[0] \in Replaying(t)
    BY <1>1, <2>1, NoneTracked, ReplayingIs DEF ReplayStart
  <2>3. Shorter(s[0].ttl, lines, 0)
    BY DEF Shorter
  <2> QED
    BY <1>0, <2>2, <2>3
<1>3. ASSUME NEW i \in 1..Len(lines), i - 1 \in T PROVE i \in T
  <2> DEFINE r == s[i - 1]
             l == lines[i]
             d == Redone(r, l, t)
  <2>1. r \in Replaying(t) /\ Shorter(r.ttl, lines, i - 1) /\ l \in Keys \X TTLs /\ s[i] = d
    BY <1>0, <1>1, <1>3
  <2> HIDE DEF r
  <2>2. /\ d \in Replaying(t)
        /\ l[2] \in Nat /\ MinTTL <= l[2] => d.ttl[l[1]] \in Nat /\ d.ttl[l[1]] <= l[2]
        /\ \A x \in Keys : x # l[1] => d.ttl[x] = r.ttl[x]
    BY <2>1, RedoneIs
  <2> HIDE DEF d
  <2>3. i \in Nat /\ i # 0
    OBVIOUS
  <2>4. Shorter(d.ttl, lines, i)
    BY <2>1, <2>2, <2>3, OneMoreLine
  <2> QED
    BY <1>0, <2>1, <2>2, <2>4
<1> HIDE DEF T
<1>4. \A i \in 0..Len(lines) : i \in T
  BY <1>0, <1>2, <1>3, Upward
<1>5. Len(lines) \in T
  BY <1>0, <1>4
<1> QED
  BY <1>1, <1>5 DEF T

TTLInv ==
  /\ now \in Nat /\ on \in BOOLEAN
  /\ Tracks(stats, recent, now)
  /\ LogOK(lines) /\ ttl \in [Keys -> TTLs] /\ Shorter(ttl, lines, Len(lines))

LEMMA TTLStarts == Init => TTLInv
<1> SUFFICES ASSUME Init PROVE TTLInv
  OBVIOUS
<1>1. /\ on \in BOOLEAN /\ stats = NoStats /\ recent = <<>> /\ lines = <<>>
      /\ ttl = [key \in Keys |-> 0] /\ now = Window
  BY DEF Init, TTLInit, NoStats
<1>2. now \in Nat
  BY <1>1, BucketOf
<1>3. ttl \in [Keys -> TTLs]
  BY <1>1 DEF TTLs
<1>4. LogOK(lines) /\ Len(lines) = 0 /\ 1..0 = {}
  BY <1>1 DEF LogOK
<1>5. Shorter(ttl, lines, Len(lines))
  BY <1>4 DEF Shorter
<1> QED
  BY <1>1, <1>2, <1>3, <1>4, <1>5, NoneTracked DEF TTLInv

LEMMA TTLSame ==
  ASSUME TTLInv, UNCHANGED controller, now' \in Nat, now <= now'
  PROVE  TTLInv'
<1>1. on' = on /\ stats' = stats /\ recent' = recent /\ lines' = lines /\ ttl' = ttl
  BY DEF controller
<1>2. Tracks(stats', recent', now')
  BY <1>1, LaterTracks DEF TTLInv
<1> QED
  BY <1>1, <1>2 DEF TTLInv

LEMMA TouchTracks ==
  ASSUME TTLInv, NEW key \in Keys, NEW st \in Stat, st.last <= now, Touch(key, st)
  PROVE  Tracks(stats', recent', now)
<1>1. Tracks(stats, recent, now)
  BY DEF TTLInv
<1>2. CASE on
  BY <1>1, <1>2, TouchedIs DEF Touch
<1>3. CASE ~on
  BY <1>1, <1>3 DEF Touch
<1> QED
  BY <1>2, <1>3

LEMMA TTLReads ==
  ASSUME TTLInv, NEW key \in Keys, NEW hit \in BOOLEAN, TTLRead(key, hit, now), now' = now
  PROVE  TTLInv'
<1> DEFINE p == Present(stats, key, now)
           st == IF hit THEN [p EXCEPT !.hits = @ + 1, !.last = now]
                 ELSE [p EXCEPT !.misses = @ + 1, !.last = now]
<1>0. now \in Nat /\ Tracks(stats, recent, now)
  BY DEF TTLInv
<1>1. p \in Stat
  BY <1>0, PresentIs
<1>2. Touch(key, st) /\ on' = on /\ lines' = lines /\ ttl' = ttl
  BY DEF TTLRead
<1> HIDE DEF p
<1>3. st \in Stat /\ st.last <= now
  <2>1. p.hits + 1 \in Nat /\ p.misses + 1 \in Nat /\ now <= now
    BY <1>0, <1>1 DEF Stat
  <2>2. CASE hit
    <3>1. st = [p EXCEPT !.hits = @ + 1, !.last = now]
      BY <2>2
    <3>2. st = [hits |-> p.hits + 1, misses |-> p.misses, last |-> now]
      BY <1>1, <3>1 DEF Stat
    <3> HIDE DEF st
    <3> QED
      BY <1>0, <1>1, <2>1, <3>2 DEF Stat
  <2>3. CASE ~hit
    <3>1. st = [p EXCEPT !.misses = @ + 1, !.last = now]
      BY <2>3
    <3>2. st = [hits |-> p.hits, misses |-> p.misses + 1, last |-> now]
      BY <1>1, <3>1 DEF Stat
    <3> HIDE DEF st
    <3> QED
      BY <1>0, <1>1, <2>1, <3>2 DEF Stat
  <2> QED
    BY <2>2, <2>3
<1> HIDE DEF st
<1>4. Tracks(stats', recent', now)
  BY <1>2, <1>3, TouchTracks
<1> QED
  BY <1>2, <1>4 DEF TTLInv

\* A line more in the log.
LEMMA LoggedLine ==
  ASSUME LogOK(lines), ttl \in [Keys -> TTLs], Shorter(ttl, lines, Len(lines)),
         NEW key \in Keys, NEW x \in TTLs
  PROVE  LET f == [ttl EXCEPT ![key] = x]
             ls == Append(lines, <<key, x>>)
         IN  f \in [Keys -> TTLs] /\ LogOK(ls) /\ Shorter(f, ls, Len(ls))
<1> DEFINE f == [ttl EXCEPT ![key] = x]
           ls == Append(lines, <<key, x>>)
           n == Len(lines)
<1>1. f \in [Keys -> TTLs] /\ f[key] = x /\ \A y \in Keys : y # key => f[y] = ttl[y]
  OBVIOUS
<1>2. /\ ls \in Seq(Keys \X TTLs) /\ n \in Nat /\ Len(ls) = n + 1 /\ ls[n + 1] = <<key, x>>
      /\ \A i \in 1..n : ls[i] = lines[i]
  BY DEF LogOK
<1> HIDE DEF f, ls
<1>3. Shorter(ttl, ls, n)
  BY <1>2 DEF Shorter
<1> HIDE DEF n
<1>4. n + 1 \in Nat /\ n + 1 # 0 /\ (n + 1) - 1 = n
  BY <1>2
<1>5. ls[n + 1][1] = key /\ ls[n + 1][2] = x
  BY <1>2
<1>6. ls[n + 1][2] \in Nat /\ MinTTL <= ls[n + 1][2] => f[key] \in Nat /\ f[key] <= ls[n + 1][2]
  <2>1. x \in Nat => x <= x
    OBVIOUS
  <2> QED
    BY <1>1, <1>5, <2>1
<1>7. Shorter(ttl, ls, (n + 1) - 1)
  BY <1>3, <1>4
<1>8. Shorter(f, ls, n + 1)
  BY <1>1, <1>4, <1>5, <1>6, <1>7, OneMoreLine
<1> QED
  BY <1>1, <1>2, <1>8 DEF LogOK, f, ls

LEMMA TTLWrites ==
  ASSUME TTLInv, NEW key \in Keys, NEW base \in Bases \cup {None},
         TTLWrite(key, base, now), now' = now
  PROVE  TTLInv'
<1> DEFINE tuned == TuneTTL(stats, key, base, now)
<1>0. /\ now \in Nat /\ Tracks(stats, recent, now)
      /\ LogOK(lines) /\ ttl \in [Keys -> TTLs] /\ Shorter(ttl, lines, Len(lines))
  BY DEF TTLInv
<1>1. base \in TTLs
  BY ObserversAssumption DEF TTLs
<1>2. tuned \in TTLs
  BY <1>0, <1>1, TuneTTLIs
<1>3. /\ ttl' = [ttl EXCEPT ![key] = tuned] /\ lines' = Append(lines, <<key, tuned>>)
      /\ Touch(key, Present(stats, key, now)) /\ on' = on
  BY DEF TTLWrite
<1> HIDE DEF tuned
<1>4. ttl' \in [Keys -> TTLs] /\ LogOK(lines') /\ Shorter(ttl', lines', Len(lines'))
  BY <1>0, <1>2, <1>3, LoggedLine
<1>5. Present(stats, key, now) \in Stat /\ Present(stats, key, now).last <= now
  BY <1>0, PresentIs
<1>6. Tracks(stats', recent', now)
  BY <1>3, <1>5, TouchTracks
<1> QED
  BY <1>0, <1>3, <1>4, <1>6 DEF TTLInv

LEMMA TTLForgets ==
  ASSUME TTLInv, NEW key \in Keys, TTLForget(key), now' = now
  PROVE  TTLInv'
<1>0. /\ now \in Nat /\ Tracks(stats, recent, now) /\ 0 \in TTLs
      /\ LogOK(lines) /\ ttl \in [Keys -> TTLs] /\ Shorter(ttl, lines, Len(lines))
  BY DEF TTLInv, TTLs
<1>1. /\ ttl' = [ttl EXCEPT ![key] = 0] /\ lines' = Append(lines, <<key, 0>>)
      /\ stats' = Others(stats, key) /\ recent' = Those(recent, Keys \ {key}) /\ on' = on
  BY DEF TTLForget
<1>2. ttl' \in [Keys -> TTLs] /\ LogOK(lines') /\ Shorter(ttl', lines', Len(lines'))
  BY <1>0, <1>1, LoggedLine
<1>3. Tracks(stats', recent', now)
  BY <1>0, <1>1, OthersIs
<1> QED
  BY <1>1, <1>2, <1>3 DEF TTLInv

LEMMA TTLSwitches ==
  ASSUME TTLInv, TTLSwitch, now' = now
  PROVE  TTLInv'
<1>0. Tracks(stats, recent, now) /\ on \in BOOLEAN
  BY DEF TTLInv
<1>1. on' = ~on /\ lines' = lines /\ ttl' = ttl
  BY DEF TTLSwitch
<1>2. Tracks(stats', recent', now)
  <2>1. CASE on
    <3>1. stats' = NoStats /\ recent' = <<>>
      BY <2>1 DEF TTLSwitch, NoStats
    <3> QED
      BY <3>1, NoneTracked
  <2>2. CASE ~on
    <3>1. stats' = stats /\ recent' = recent
      BY <2>2 DEF TTLSwitch
    <3> QED
      BY <1>0, <3>1
  <2> QED
    BY <2>1, <2>2
<1>3. on' \in BOOLEAN
  BY <1>0, <1>1, Zenon
<1> QED
  BY <1>1, <1>2, <1>3 DEF TTLInv

LEMMA TTLRestarts ==
  ASSUME TTLInv, TTLRestart(now), now' = now
  PROVE  TTLInv'
<1> DEFINE r == Replayed(now)
<1>1. now \in Nat /\ LogOK(lines)
  BY DEF TTLInv
<1>2. r \in Replaying(now) /\ Shorter(r.ttl, lines, Len(lines))
  BY <1>1, ReplayedIs
<1>3. ttl' = r.ttl /\ stats' = r.stats /\ recent' = r.recent /\ on' = on /\ lines' = lines
  BY DEF TTLRestart
<1> HIDE DEF r
<1>4. r.ttl \in [Keys -> TTLs] /\ Tracks(r.stats, r.recent, now)
  BY <1>2, ReplayingHas
<1> QED
  BY <1>1, <1>2, <1>3, <1>4 DEF TTLInv

LEMMA TTLStep == TTLInv /\ [Next]_vars => TTLInv'
<1> SUFFICES ASSUME TTLInv, [Next]_vars PROVE TTLInv'
  OBVIOUS
<1>0. now \in Nat /\ now <= now
  BY DEF TTLInv
<1>1. ASSUME UNCHANGED <<controller, now>> PROVE TTLInv'
  BY <1>0, <1>1, TTLSame
<1>2. CASE UNCHANGED vars
  BY <1>1, <1>2 DEF vars
<1>3. ASSUME NEW key \in Keys, NEW hit \in BOOLEAN, Read(key, hit) PROVE TTLInv'
  <2>1. now' = now /\ (TTLRead(key, hit, now) \/ UNCHANGED controller)
    BY <1>3 DEF Read, TTL
  <2> QED
    BY <1>1, <2>1, TTLReads
<1>4. ASSUME NEW key \in Keys, NEW base \in Bases \cup {None}, Write(key, base) PROVE TTLInv'
  <2>1. now' = now /\ (TTLWrite(key, base, now) \/ UNCHANGED controller)
    BY <1>4 DEF Write, TTL
  <2> QED
    BY <1>1, <2>1, TTLWrites
<1>5. ASSUME NEW key \in Keys, Delete(key) PROVE TTLInv'
  <2>1. now' = now /\ (TTLForget(key) \/ UNCHANGED controller)
    BY <1>5 DEF Delete, TTL
  <2> QED
    BY <1>1, <2>1, TTLForgets
<1>6. ASSUME NEW gap \in Gaps, Tick(gap) PROVE TTLInv'
  <2>1. now' = now + gap /\ UNCHANGED controller /\ gap \in Nat
    BY <1>6, ObserversAssumption DEF Tick
  <2>2. now' \in Nat /\ now <= now'
    BY <1>0, <2>1
  <2> QED
    BY <2>1, <2>2, TTLSame
<1>7. ASSUME Switch PROVE TTLInv'
  <2>1. now' = now /\ (TTLSwitch \/ UNCHANGED controller)
    BY <1>7 DEF Switch, TTL
  <2> QED
    BY <1>1, <2>1, TTLSwitches
<1>8. ASSUME Restart PROVE TTLInv'
  <2>1. now' = now /\ (TTLRestart(now) \/ UNCHANGED controller)
    BY <1>8 DEF Restart, TTL
  <2> QED
    BY <1>1, <2>1, TTLRestarts
<1>9. ASSUME \/ \E m \in 1..MaxK : Resize(m)
             \/ \E m \in Limits : Bound(m)
             \/ Report \/ Reset \/ Limiter
      PROVE  TTLInv'
  <2>1. UNCHANGED controller /\ now' = now
    BY <1>9 DEF Resize, Bound, Report, Reset, Limiter
  <2> QED
    BY <1>1, <2>1
<1> QED
  BY <1>2, <1>3, <1>4, <1>5, <1>6, <1>7, <1>8, <1>9 DEF Next

LEMMA SpecTTL == Spec => []TTLInv
  BY TTLStarts, TTLStep, PTL DEF Spec

LEMMA NothingLonger == TTLInv => ReplayLengthensNothing
<1> SUFFICES ASSUME TTLInv, NEW key \in Keys, NEW i \in 1..Len(lines),
                    lines[i][1] = key,
                    \A j \in 1..Len(lines) : j > i => lines[j][1] # key,
                    lines[i][2] # None, lines[i][2] >= MinTTL
             PROVE  ttl[key] <= lines[i][2]
  BY DEF ReplayLengthensNothing
<1>1. lines[i] \in Keys \X TTLs
  BY DEF TTLInv, LogOK
<1>2. lines[i][2] \in Nat
  BY <1>1 DEF TTLs
<1>3. MinTTL <= lines[i][2]
  BY <1>2, ObserversAssumption
<1> QED
  BY <1>2, <1>3 DEF TTLInv, Shorter

-----------------------------------------------------------------------------
(* The types of them all. *)

LEMMA LimiterTyped == LimiterInv => LimiterTypeOK
<1> SUFFICES ASSUME LimiterInv PROVE LimiterTypeOK
  OBVIOUS
<1>1. policy \in Policies \cup {NoPolicy}
  BY DEF LimiterInv
<1>2. ASSUME NEW g \in 0..Newest
      PROVE  LET b == buckets[g + 1]
             IN  b \in TokenBucket /\ b.tokens <= b.capacity /\ (held[g] > 0 => b # NoBucket)
  <2>1. g \in Numbers
    BY NewestNumber
  <2>2. buckets[g + 1] = BucketAt(g)
    BY <1>2 DEF BucketAt, Newest, LimiterInv
  <2>3. BucketOK(BucketAt(g), grants[g], refusal[g], limits[g], held[g], now)
    BY <2>1 DEF LimiterInv
  <2>4. CASE BucketAt(g) = NoBucket /\ held[g] = 0
    <3>1. NoBucket \in TokenBucket /\ NoBucket.tokens <= NoBucket.capacity /\ ~(0 > 0)
      BY DEF NoBucket, TokenBucket
    <3> QED
      BY <2>2, <2>4, <3>1
  <2>5. CASE Accounted(BucketAt(g), grants[g], refusal[g], limits[g], now)
    <3>1. /\ BucketAt(g) \in TokenBucket /\ BucketAt(g).tokens <= BucketAt(g).capacity
          /\ <<BucketAt(g).rate, BucketAt(g).capacity>> \in limits[g]
      BY <2>5 DEF Accounted
    <3>2. limits[g] \in LimitSets
      BY <2>1 DEF LimiterInv
    <3>3. BucketAt(g).rate # 0
      BY <3>1, <3>2 DEF LimitSets
    <3>4. NoBucket.rate = 0
      BY DEF NoBucket
    <3> QED
      BY <2>2, <3>1, <3>3, <3>4
  <2> QED
    BY <2>3, <2>4, <2>5 DEF BucketOK
<1> QED
  BY <1>1, <1>2 DEF LimiterTypeOK

Counters == events \in 0..MaxEvents /\ admin \in 0..MaxAdmin

LEMMA CountersStart == Init => Counters
  BY ObserversAssumption DEF Init, Counters

LEMMA CountersStep == Counters /\ [Next]_vars => Counters'
<1> SUFFICES ASSUME Counters, [Next]_vars PROVE Counters'
  OBVIOUS
<1>0. MaxEvents \in Nat /\ MaxAdmin \in Nat
  BY ObserversAssumption
<1>1. /\ events' = events \/ (events < MaxEvents /\ events' = events + 1)
      /\ admin' = admin \/ (admin < MaxAdmin /\ admin' = admin + 1)
  BY DEF Next, Read, Write, Delete, Tick, Resize, Bound, Report, Switch, Reset, Restart,
         Limiter, Observed, Event, AdminEvent, vars
<1> QED
  BY <1>0, <1>1 DEF Counters

\* In every state of the observers, together, the variables have their types.
THEOREM ObserversTypesHold == Spec => []TypeOK
<1>1. Init => LimiterInv
  BY LimiterInitially
<1>2. LimiterInv /\ [Next]_vars => LimiterInv'
  BY LimiterStep
<1>3. Spec => []LimiterInv
  BY <1>1, <1>2, PTL DEF Spec
<1>4. Spec => []Counters
  BY CountersStart, CountersStep, PTL DEF Spec
<1>5. Spec => []HittersTypeOK
  BY ObserversImplementHitters, HittersTypesHold, PTL
<1>6. TTLInv => TTLTypeOK
  <2> SUFFICES ASSUME TTLInv PROVE TTLTypeOK
    OBVIOUS
  <2>1. Tracks(stats, recent, now) /\ recent \in Seq(Keys)
    BY DEF TTLInv, Tracks
  <2>2. Range(recent) \subseteq Keys
    BY <2>1, RangeOf
  <2> QED
    BY <2>1, <2>2 DEF TTLInv, TTLTypeOK, Tracks, TTLs
<1>7. /\ HittersTypeOK /\ WindowsInv /\ TTLInv /\ LimiterInv /\ Counters
      => TypeOK
  BY <1>6, WindowsTyped, LimiterTyped DEF TypeOK, WindowsInv, Counters
<1> QED
  BY <1>3, <1>4, <1>5, <1>7, SpecWindows, SpecTTL, PTL

\* However the writes were tuned, and by whatever accesses, restarts and changes of
\* settings: the replay of the log, which tunes every write once more, gives no key a
\* longer time to live than its last line says, from the least time up
\* (NothingLengthened).
THEOREM RestartLengthensNothing == Spec => []NothingLengthened
<1>1. TypeOK /\ TTLInv => NothingLengthened
  BY NothingLonger DEF NothingLengthened
<1> QED
  BY <1>1, ObserversTypesHold, SpecTTL, PTL
=============================================================================
