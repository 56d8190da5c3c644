---------------------------- MODULE MCHashIndex -----------------------------
(* Instances of HashIndex for TLC. *)
EXTENDS HashIndex, TLC

\* Features that may share a home slot, in an index that grows from two slots
\* to eight; one rehash batch empties the tables that grow.
Colliding ==
  [hash : [Feats -> {0, 3, 7}], capacity : {2}, batch : {3}]

\* Features with a home slot of their own in every table; each call moves one
\* of them.
Scattered ==
  {s \in [hash : [Feats -> {0, 3, 5, 6}], capacity : {4}, batch : {1}] :
     \A f, g \in Feats : f # g => s.hash[f] # s.hash[g]}

BothSetups == Colliding \cup Scattered

\* Features that share a home slot, with growths that take several calls.
SlowGrowth == [hash : [Feats -> {0, 4}], capacity : {4}, batch : {1}]

Symmetry == Permutations(Feats) \cup Permutations(Locs)
=============================================================================
