---------------------------- MODULE OverlayTable ----------------------------
(***************************************************************************)
(* The overlay of a bin in checkpoint mode (overlay.c): slot -> embedding, *)
(* in an open-addressing table that grows by incremental rehash, and its   *)
(* replay at the end of the checkpoint (dimbin_checkpoint_end).  There is  *)
(* no removal.  Allocations do not fail and the budget is not reached.     *)
(***************************************************************************)
EXTENDS ProbeTable

CONSTANTS
  Entries,        \* slots of the bin, the keys of the table
  Vals,           \* embeddings
  Absent,         \* the overlay has no value for the slot
  Hashes,         \* the hash functions considered: overlay_hash on Entries
  InitCapacity,   \* OVERLAY_INITIAL_CAP
  RehashBatch,    \* OVERLAY_REHASH_BATCH
  MaxCapacity     \* bound on the capacity the table grows to

VARIABLES
  hash,           \* the hash function in use (never changes)
  slots,          \* current table
  old_slots,      \* table being drained, or NoTable
  rehash_cursor,  \* next slot of old_slots to migrate
  count,          \* number of live entries
  stored          \* history: the last value put for each slot

vars == <<hash, slots, old_slots, rehash_cursor, count, stored>>

Tables == [slots |-> slots, old |-> old_slots, cursor |-> rehash_cursor]

\* The tables become tb.
SetTables(tb) ==
  slots' = tb.slots /\ old_slots' = tb.old /\ rehash_cursor' = tb.cursor

\* overlay_init.
Init ==
  /\ hash \in Hashes
  /\ slots = NewTable(InitCapacity)
  /\ old_slots = NoTable
  /\ rehash_cursor = 0
  /\ count = 0
  /\ stored = [e \in Entries |-> Absent]

\* The tables once a call has advanced the rehash (the set of the one
\* outcome), and once overlay_put has also grown them if the load asks for it.
Advanced == RehashStep(Tables, hash, RehashBatch)

Grown == {BeginGrow(tb, count) : tb \in Advanced}

InNew(tb, e) == Found(tb.slots, hash[e], e)
InOld(tb, e) == Found(tb.old, hash[e], e)

\* overlay_put of a slot found in the current table.
OverwriteNew(tb, e, v) ==
  \E i \in InNew(tb, e) : SetTables([tb EXCEPT !.slots[i].val = v]) /\ UNCHANGED count

\* Of a slot found in the old table: overwritten there.
OverwriteOld(tb, e, v) ==
  /\ InNew(tb, e) = {}
  /\ \E i \in InOld(tb, e) : SetTables([tb EXCEPT !.old[i].val = v])
  /\ UNCHANGED count

\* Of a slot found in neither.
InsertFresh(tb, e, v) ==
  /\ InNew(tb, e) = {} /\ InOld(tb, e) = {}
  /\ SetTables([tb EXCEPT !.slots = InsertInto(tb.slots, hash[e], e, v)])
  /\ count' = count + 1

OverlayPut(e, v) ==
  \E tb \in Grown :
    /\ Capacity(tb.slots) <= MaxCapacity
    /\ OverwriteNew(tb, e, v) \/ OverwriteOld(tb, e, v) \/ InsertFresh(tb, e, v)
    /\ stored' = [stored EXCEPT ![e] = v]
    /\ UNCHANGED hash

\* overlay_contains tells the reader of a slot that the overlay has a value.
Contains(tb, e) == Lookup(tb, hash[e], e, Absent) # Absent

\* A read of slot e: overlay_contains and, if it answers yes, overlay_get.
\* Each of the two advances the rehash.
Read(e) ==
  /\ \E tb \in Advanced :
       \E next \in (IF Contains(tb, e) THEN RehashStep(tb, hash, RehashBatch) ELSE {tb}) : SetTables(next)
  /\ UNCHANGED <<hash, count, stored>>

\* dimbin_checkpoint_end collects the used slots of the current table and then
\* of the old one, at most count of them.
ReplayOrder ==
  LET used(t) == SelectSeq([i \in 1 .. Capacity(t) |-> t[i - 1]], LAMBDA s : s # Empty)
      all     == used(slots) \o used(old_slots)
  IN  SubSeq(all, 1, IF Len(all) <= count THEN Len(all) ELSE count)

\* The value the replay leaves in the bin for slot e: that of the last
\* collected pair that names e.
Replayed(e) ==
  LET at == {i \in DOMAIN ReplayOrder : ReplayOrder[i].key = e} IN
  IF at = {} THEN Absent
  ELSE ReplayOrder[CHOOSE i \in at : \A j \in at : j <= i].val

\* dimbin_checkpoint_end destroys the overlay; the next checkpoint starts with
\* a new one.
EndAndBegin ==
  /\ slots' = NewTable(InitCapacity)
  /\ old_slots' = NoTable
  /\ rehash_cursor' = 0
  /\ count' = 0
  /\ stored' = [e \in Entries |-> Absent]
  /\ UNCHANGED hash

Next ==
  \/ \E e \in Entries : Read(e) \/ \E v \in Vals : OverlayPut(e, v)
  \/ EndAndBegin

Spec == Init /\ [][Next]_vars
-----------------------------------------------------------------------------
(* Properties. *)

\* Whenever the checkpoint ends, in the middle of a growth or not, the replay
\* of dimbin_checkpoint_end leaves in the bin the last value of every slot put
\* during the checkpoint, and nothing for any other slot.  It does not hold:
\* while a growth is in progress the slots already moved leave gaps in the
\* probe sequences of the old table, so a put can miss the value that is there
\* and insert a second one; the old table is replayed last.
ReplayExact == \A e \in Entries : Replayed(e) = stored[e]
=============================================================================
