----------------------------- MODULE ProbeTable -----------------------------
(***************************************************************************)
(* Open addressing with linear probing and incremental rehash, as written  *)
(* twice in the engine: hash_index.c (feature -> slot) and overlay.c       *)
(* (slot -> embedding).  A table maps 0 .. capacity-1 to Empty or to a     *)
(* record of a key and a value; a NULL table pointer is NoTable.  The pair *)
(* of tables of a structure that may be rehashing is a record              *)
(*   [slots |-> current table, old |-> table being drained or NoTable,     *)
(*    cursor |-> next slot of the old table to migrate].                   *)
(***************************************************************************)
EXTENDS Naturals, FiniteSets, Sequences

LOCAL INSTANCE FiniteSetsExt

CONSTANT Empty    \* the sentinel of an unused slot

NoTable == <<>>

NewTable(cap) == [i \in 0 .. (cap - 1) |-> Empty]

Capacity(t) == Cardinality(DOMAIN t)

\* How many probes after slot from the loop reaches slot i.
Distance(t, from, i) == (i + Capacity(t) - from) % Capacity(t)

\* The slot of S that a probe from slot from reaches first.
Nearest(t, from, S) ==
  CHOOSE i \in S : \A j \in S : Distance(t, from, i) <= Distance(t, from, j)

\* The slots a probe for a hash value visits before it meets an unused one.
ProbedRun(t, h) ==
  LET home == h % Capacity(t) IN
  {i \in DOMAIN t : \A j \in DOMAIN t :
     Distance(t, home, j) <= Distance(t, home, i) => t[j] # Empty}

\* Where a probe finds key k: the first slot of its run that holds it, as a
\* set that is empty when the probe stops before it meets k.
Found(t, h, k) ==
  LET hits == {i \in ProbedRun(t, h) : t[i].key = k} IN
  IF t = NoTable \/ hits = {} THEN {} ELSE {Nearest(t, h % Capacity(t), hits)}

\* insert_into_table: the first unused slot of the probe sequence is taken,
\* with no look at the keys on the way.
InsertInto(t, h, k, v) ==
  LET free == {i \in DOMAIN t : t[i] = Empty}
      slot == Nearest(t, h % Capacity(t), free)
  IN  [t EXCEPT ![slot] = [key |-> k, val |-> v]]

\* The tables t can become when the slots S of table old are inserted into it,
\* lowest slot first: the set of the one outcome.
RECURSIVE Migrated(_, _, _, _)
Migrated(t, old, S, hash) ==
  IF S = {} THEN {t}
  ELSE LET s == old[Min(S)]
       IN  UNION {Migrated(u, old, S \ {Min(S)}, hash) :
                    u \in {InsertInto(t, hash[s.key], s.key, s.val)}}

\* rehash_step, where hash gives the hash value of each key and limit is
\* HASH_REHASH_BATCH or OVERLAY_REHASH_BATCH: up to limit used slots move to the current table and are marked unused in the old one,
\* which is dropped when the cursor has passed its last slot.
RehashStep(tb, hash, limit) ==
  LET used   == {i \in DOMAIN tb.old : i >= tb.cursor /\ tb.old[i] # Empty}
      batch  == {i \in used : Cardinality({j \in used : j < i}) < limit}
      cursor == IF Cardinality(batch) = limit THEN Max(batch) + 1 ELSE Capacity(tb.old)
      rest   == [i \in DOMAIN tb.old |-> IF i \in batch THEN Empty ELSE tb.old[i]]
  IN
  IF tb.old = NoTable THEN {tb}
  ELSE {IF c = Capacity(tb.old) THEN [slots |-> t, old |-> NoTable, cursor |-> 0]
                                ELSE [slots |-> t, old |-> rest, cursor |-> c] :
          t \in Migrated(tb.slots, tb.old, batch, hash), c \in {cursor}}

\* Faulty variant: the table may fill up completely before it grows.
BeginGrowFull(tb, n) ==
  IF tb.old = NoTable /\ n > Capacity(tb.slots)
  THEN [slots |-> NewTable(2 * Capacity(tb.slots)), old |-> tb.slots, cursor |-> 0]
  ELSE tb

\* begin_grow, called when the table is more than 70% full and not rehashing.
BeginGrow(tb, n) ==
  IF tb.old = NoTable /\ n * 10 > Capacity(tb.slots) * 7
  THEN [slots |-> NewTable(2 * Capacity(tb.slots)), old |-> tb.slots, cursor |-> 0]
  ELSE tb

\* A lookup probes the current table, then the old one.
Lookup(tb, h, k, missing) ==
  LET new == Found(tb.slots, h, k)
      old == Found(tb.old, h, k)
  IN  IF new # {} THEN tb.slots[CHOOSE i \in new : TRUE].val
      ELSE IF old # {} THEN tb.old[CHOOSE i \in old : TRUE].val
      ELSE missing

\* The slots of both tables that hold key k.
Copies(tb, k) ==
  {<<"new", i>> : i \in {x \in DOMAIN tb.slots : tb.slots[x] # Empty /\ tb.slots[x].key = k}}
  \cup
  {<<"old", i>> : i \in {x \in DOMAIN tb.old : tb.old[x] # Empty /\ tb.old[x].key = k}}
=============================================================================
