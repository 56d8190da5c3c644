------------------------------- MODULE Import -------------------------------
(***************************************************************************)
(* Checkpoint import (checkpoint.c): the finished dumps of Export are      *)
(* loaded into a replica, one after the other, with import_step submitting *)
(* batches of writes that land between calls.  The replica serves no       *)
(* writes meanwhile; its write buffer and its free list are empty.         *)
(***************************************************************************)
EXTENDS Export

CONSTANTS
  ImportBatch,    \* CKPT_IMPORT_BATCH
  MagicFeats      \* features whose low 32 bits are the magic of the trailer

\* A dump holds at most MaxEntries embeddings, and two are loaded.
Slots == 0 .. (2 * MaxEntries - 1)

\* What an import context holds.
ImportContexts ==
  [type : {"FULL", "DELTA"}, pos : Nat, done : BOOLEAN,
   pool : [1 .. ImportBatch -> Entries \cup {None}],
   flight : SUBSET [slot : Slots, buf : 1 .. ImportBatch]]

ASSUME ImportAssumption ==
  /\ ImportBatch \in Nat \ {0} /\ MagicFeats \subseteq Feats
  /\ None \notin Nat /\ None \notin ImportContexts

VARIABLES
  imported,       \* the dumps already loaded
  imp,            \* the import context, or None
  r_index,        \* replica: slot of a feature, or None
  r_bump,         \*          allocation mark
  r_keys,         \*          key file, as a sequence of owners
  r_data,         \*          data file: the embedding in every slot
  promised        \* history: the embedding the loaded dumps give a feature

replicaVars == <<r_index, r_bump, r_keys, r_data>>
importVars == <<imported, imp, replicaVars, promised>>
allVars == <<vars, importVars>>

ImportInit ==
  /\ Init
  /\ imported = {} /\ imp = None
  /\ r_index = [f \in Feats |-> None]
  /\ r_bump = 0
  /\ r_keys = [s \in Slots |-> NoFeat]
  /\ r_data = [s \in Slots |-> None]
  /\ promised = [f \in Feats |-> None]

\* graveldb_ckpt_import_begin, and the header read by the first step.
ImportBegin(t) ==
  /\ Ended /\ imp = None /\ t \in DOMAIN exports \ imported
  /\ imp' = [type |-> t, pos |-> 2, done |-> FALSE,
             pool |-> [i \in 1 .. ImportBatch |-> None], flight |-> {}]
  /\ UNCHANGED <<vars, imported, replicaVars, promised>>

\* What ends the entries for the reader of a dump.
EndsEntries(item) == item = Trailer \/ item.feat \in MagicFeats

\* The entries of the dump from pos on that one call takes.
BatchAt(dump, pos) ==
  LET last == Min({i \in pos .. Len(dump) : EndsEntries(dump[i])})
  IN  SubSeq(dump, pos, Min({last - 1, pos + ImportBatch - 1}))

\* Faulty variant: a feature that has a slot keeps it.
IndexedOnce(batch) ==
  [f \in Feats |->
     LET at == {i \in DOMAIN batch : batch[i].feat = f}
     IN  IF at = {} \/ r_index[f] # None THEN r_index[f] ELSE r_bump + Max(at) - 1]

\* hash_index_put of every entry of a batch, in order.
Indexed(batch) ==
  [f \in Feats |->
     LET at == {i \in DOMAIN batch : batch[i].feat = f}
     IN  IF at = {} THEN r_index[f] ELSE r_bump + Max(at) - 1]

\* A batch is taken: every entry gets a new slot, also when its feature has one;
\* its key is written at once, its embedding from a buffer of the pool.
TakeBatch(batch) ==
  LET n == Len(batch) IN
  /\ imp' = [imp EXCEPT
       !.pos = @ + n, !.done = n < ImportBatch,
       !.pool = [i \in DOMAIN @ |-> IF i <= n THEN batch[i].emb ELSE @[i]],
       !.flight = @ \cup {[slot |-> r_bump + i - 1, buf |-> i] : i \in 1 .. n}]
  /\ r_bump' = r_bump + n
  /\ r_keys' = [s \in Slots |-> IF s \in r_bump .. (r_bump + n - 1)
                                THEN batch[s - r_bump + 1].feat ELSE r_keys[s]]
  /\ r_index' = Indexed(batch)
  /\ UNCHANGED <<vars, imported, r_data, promised>>

\* Faulty variant: the buffers are filled again while writes are in flight.
ImportStepUnpolled ==
  /\ imp # None /\ ~imp.done
  /\ \E batch \in {BatchAt(exports[imp.type].dump, imp.pos)} : TakeBatch(batch)

\* graveldb_ckpt_import_step.  The host calls it again once import_poll has
\* reported that the writes of the last call have landed, as replica.c does.
ImportStep ==
  /\ imp # None /\ ~imp.done
  /\ imp.flight = {}
  /\ \E batch \in {BatchAt(exports[imp.type].dump, imp.pos)} : TakeBatch(batch)

\* A write lands, with what its buffer holds at that moment.
Landed(writes) ==
  [s \in Slots |-> LET at == {w \in writes : w.slot = s} IN
     IF at = {} THEN r_data[s] ELSE imp.pool[(CHOOSE w \in at : TRUE).buf]]

WriteLands ==
  /\ imp # None
  /\ \E w \in imp.flight :
       /\ r_data' = Landed({w})
       /\ imp' = [imp EXCEPT !.flight = @ \ {w}]
  /\ UNCHANGED <<vars, imported, r_index, r_bump, r_keys, promised>>

\* graveldb_ckpt_parse: the entries of a dump, in order.
Parsed(dump) ==
  SubSeq(dump, 2, Min({i \in 2 .. Len(dump) : EndsEntries(dump[i])}) - 1)

\* graveldb_ckpt_import_end waits for the writes in flight.
ImportEnd ==
  /\ imp # None /\ imp.done
  /\ r_data' = Landed(imp.flight)
  /\ imp' = None
  /\ imported' = imported \cup {imp.type}
  /\ promised' = [f \in Feats |->
       LET rs == Parsed(exports[imp.type].dump)
           at == {i \in DOMAIN rs : rs[i].feat = f}
       IN  IF at = {} THEN promised[f] ELSE rs[Max(at)].emb]
  /\ UNCHANGED <<vars, r_index, r_bump, r_keys>>

ImportNext ==
  \/ \E t \in {"FULL", "DELTA"} : ImportBegin(t)
  \/ ImportStep \/ WriteLands \/ ImportEnd

Next == (ExportNext /\ UNCHANGED importVars) \/ ImportNext

Spec == ImportInit /\ [][Next]_allVars /\ Fairness
-----------------------------------------------------------------------------
(* Properties. *)

\* Between imports, reading a feature from the replica returns the embedding
\* that the parser finds for it in the last loaded dump that has it: buffers
\* are not filled again before their writes have landed, and the batches take
\* every entry once.
ReplicaReads ==
  imp = None => \A f \in Feats :
    IF promised[f] = None THEN r_index[f] = None
    ELSE r_index[f] # None /\ r_data[r_index[f]] = promised[f]

\* The slot the replica's index gives a feature is the last one that carries the
\* feature's key, the one the rebuild of the index would choose on reopening.
ReplicaReopens ==
  \A f \in Feats :
    LET named == {s \in Slots : r_keys[s] = f}
    IN  IF named = {} THEN r_index[f] = None ELSE r_index[f] = Max(named)
=============================================================================
