-------------------------------- MODULE Lists -------------------------------
(***************************************************************************)
(* Bounded lists of keys, in the order in which they were touched last:    *)
(* the ordered dictionaries of the eviction hints and of the adaptive TTL. *)
(***************************************************************************)
EXTENDS Naturals, Sequences

\* The keys of seq that are in S, in their order.
Those(seq, S) ==
  LET those[i \in 0..Len(seq)] ==
        IF i = 0 THEN <<>>
        ELSE IF seq[i] \in S THEN Append(those[i - 1], seq[i]) ELSE those[i - 1]
  IN those[Len(seq)]

\* _evict_overflow_locked: so many keys go, those longest untouched, and these stay.
Overflow(seq, m) == IF Len(seq) > m THEN Len(seq) - m ELSE 0
Latest(seq, m) == SubSeq(seq, Overflow(seq, m) + 1, Len(seq))
=============================================================================
