----------------------------- MODULE HashIndex ------------------------------
(***************************************************************************)
(* The index of the database (hash_index.c): feature id -> location, in an *)
(* open-addressing table that grows by incremental rehash.  Every call     *)
(* first advances the rehash.  A location stands for the pair (dim_idx,    *)
(* entry_idx).  Allocation of the grown table does not fail.               *)
(***************************************************************************)
EXTENDS ProbeTable

LOCAL INSTANCE SequencesExt

CONSTANTS
  Feats,          \* feature ids (never the reserved id 0)
  Locs,           \* locations stored for them
  Absent,         \* the answer NOT_FOUND
  Setups,         \* the indexes considered: hash64 restricted to Feats, the
                  \* capacity given to hash_index_init, HASH_REHASH_BATCH
  MaxCapacity     \* bound on the capacity the table grows to

ASSUME HashIndexAssumption ==
  /\ Setups \subseteq [hash : [Feats -> Nat], capacity : Nat \ {0}, batch : Nat \ {0}]
  /\ MaxCapacity \in Nat
  /\ Absent \notin Locs

VARIABLES
  setup,          \* the index in use (never changes)
  slots,          \* current table
  old_slots,      \* table being drained, or NoTable
  rehash_cursor,  \* next slot of old_slots to migrate
  count,          \* number of live entries, across both tables
  stored          \* history: what the calls so far left for each feature

tableVars == <<slots, old_slots, rehash_cursor>>
vars == <<setup, tableVars, count, stored>>

Tables == [slots |-> slots, old |-> old_slots, cursor |-> rehash_cursor]

\* The tables become tb.
SetTables(tb) ==
  slots' = tb.slots /\ old_slots' = tb.old /\ rehash_cursor' = tb.cursor

\* hash_index_init.
Init ==
  /\ setup \in Setups
  /\ slots = NewTable(setup.capacity)
  /\ old_slots = NoTable
  /\ rehash_cursor = 0
  /\ count = 0
  /\ stored = [f \in Feats |-> Absent]

\* The tables a call works on once it has advanced the rehash, as the set of
\* the one outcome; and the same for hash_index_put, which then grows the
\* table if its load asks for it.
Advanced == RehashStep(Tables, setup.hash, setup.batch)

Grown == {BeginGrow(tb, count) : tb \in Advanced}

InNew(tb, f) == Found(tb.slots, setup.hash[f], f)
InOld(tb, f) == Found(tb.old, setup.hash[f], f)

\* hash_index_put of a feature found in the current table.
PutNew(tb, f, l) ==
  \E i \in InNew(tb, f) :
    /\ SetTables([tb EXCEPT !.slots[i].val = l])
    /\ UNCHANGED count

\* hash_index_put of a feature found in the old table: updated there.
PutOld(tb, f, l) ==
  /\ InNew(tb, f) = {}
  /\ \E i \in InOld(tb, f) : SetTables([tb EXCEPT !.old[i].val = l])
  /\ UNCHANGED count

\* Faulty variant: the old table is not searched before the insertion.
PutFreshBlind(tb, f, l) ==
  /\ InNew(tb, f) = {}
  /\ SetTables([tb EXCEPT !.slots = InsertInto(tb.slots, setup.hash[f], f, l)])
  /\ count' = count + 1

\* hash_index_put of a feature found in neither: it goes to the unused slot
\* where the probe of the current table stopped.
PutFresh(tb, f, l) ==
  /\ InNew(tb, f) = {} /\ InOld(tb, f) = {}
  /\ SetTables([tb EXCEPT !.slots = InsertInto(tb.slots, setup.hash[f], f, l)])
  /\ count' = count + 1

Put(f, l) ==
  \E tb \in Grown :
    /\ Capacity(tb.slots) <= MaxCapacity
    /\ PutNew(tb, f, l) \/ PutOld(tb, f, l) \/ PutFresh(tb, f, l)
    /\ stored' = [stored EXCEPT ![f] = l]
    /\ UNCHANGED setup

\* hash_index_get changes nothing but the progress of the rehash.
Get(f) ==
  /\ \E tb \in Advanced : SetTables(tb)
  /\ UNCHANGED <<setup, count, stored>>

\* Faulty variant: the hole is left in the probe chain.
WithoutShiftHole(t, hole) == [t EXCEPT ![hole] = Empty]

\* Backward-shift deletion of slot hole: each following slot of the run whose
\* key may live at the hole moves there and leaves the next hole.
WithoutShift(t, hole) ==
  LET cap  == Capacity(t)
      run  == {j \in DOMAIN t \ {hole} : \A i \in DOMAIN t :
                 Distance(t, hole, i) <= Distance(t, hole, j) => t[i] # Empty}
      displaced(j, empty) ==
        LET ideal == setup.hash[t[j].key] % cap
        IN  IF empty < j THEN ideal <= empty \/ ideal > j
                         ELSE ideal <= empty /\ ideal > j
      shift(acc, j) ==
        IF displaced(j, acc.empty)
        THEN [table |-> [acc.table EXCEPT ![acc.empty] = t[j]], empty |-> j]
        ELSE acc
      last == FoldLeft(shift, [table |-> t, empty |-> hole],
                       [n \in 1 .. Cardinality(run) |-> (hole + n) % cap])
  IN  [last.table EXCEPT ![last.empty] = Empty]

\* Faulty variant: the removal is not counted.
RemoveNewUncounted(tb, f) ==
  /\ \E i \in InNew(tb, f) : SetTables([tb EXCEPT !.slots = WithoutShift(tb.slots, i)])
  /\ UNCHANGED count

\* hash_index_remove of a feature found in the current table.
RemoveNew(tb, f) ==
  \E i \in InNew(tb, f) :
    /\ SetTables([tb EXCEPT !.slots = WithoutShift(tb.slots, i)])
    /\ count' = count - 1

\* hash_index_remove of a feature found in the old table: no shift there.
RemoveOld(tb, f) ==
  /\ InNew(tb, f) = {}
  /\ \E i \in InOld(tb, f) : SetTables([tb EXCEPT !.old[i] = Empty])
  /\ count' = count - 1

\* Faulty variant: a removal that finds nothing is counted.
RemoveMissingCounted(tb, f) ==
  /\ InNew(tb, f) = {} /\ InOld(tb, f) = {}
  /\ SetTables(tb)
  /\ count' = count - 1

\* hash_index_remove of a feature that is not found.
RemoveMissing(tb, f) ==
  /\ InNew(tb, f) = {} /\ InOld(tb, f) = {}
  /\ SetTables(tb)
  /\ UNCHANGED count

RemoveFeat(f) ==
  \E tb \in Advanced :
    /\ RemoveNew(tb, f) \/ RemoveOld(tb, f) \/ RemoveMissing(tb, f)
    /\ stored' = [stored EXCEPT ![f] = Absent]
    /\ UNCHANGED setup

Next ==
  \E f \in Feats :
    \/ \E l \in Locs : Put(f, l)
    \/ Get(f)
    \/ RemoveFeat(f)

Spec == Init /\ [][Next]_vars
-----------------------------------------------------------------------------
(* Properties. *)

\* The types of the variables; the two tables differ by one doubling.
TypeOK ==
  LET slot == [key : Feats, val : Locs] \cup {Empty}
      cap  == Capacity(slots)
  IN
  /\ setup \in Setups
  /\ cap <= MaxCapacity /\ cap % setup.capacity = 0
  /\ slots \in [0 .. (cap - 1) -> slot]
  /\ old_slots = NoTable \/ old_slots \in [0 .. ((cap \div 2) - 1) -> slot]
  /\ rehash_cursor \in 0 .. Capacity(old_slots)
  /\ count \in 0 .. Cardinality(Feats)
  /\ stored \in [Feats -> Locs \cup {Absent}]

\* The index is a map: hash_index_get, which itself does rehash work, answers
\* for every feature what the last put or remove of it left, at any stage of
\* a growth and after any shifts of the probe chains.
AnswersExact ==
  \A tb \in Advanced : \A f \in Feats : Lookup(tb, setup.hash[f], f, Absent) = stored[f]

\* No feature occupies two slots, counting both tables: a second copy would
\* shadow later updates and come back after a remove (rehash_step inserts
\* without looking for the key).
OneCopy == \A f \in Feats : Cardinality(Copies(Tables, f)) <= 1

\* count, which decides when the table grows, is the number of used slots of
\* the two tables.
CountExact ==
  count = Cardinality(UNION {Copies(Tables, f) : f \in Feats})

\* The table hash_index_put probes, after rehash work and growth, always has an
\* unused slot: the probe loop of a new feature has no other way to stop.
ProbeStops == \A tb \in Grown : \E i \in DOMAIN tb.slots : tb.slots[i] = Empty
=============================================================================
