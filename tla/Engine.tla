------------------------------- MODULE Engine -------------------------------
(***************************************************************************)
(* One open GravelDB database with one DimBin (one embedding dimension):   *)
(* the index, the slot allocator, the key buffer and key file, the page    *)
(* write buffer and data file, the overlay that receives writes during a   *)
(* checkpoint, and the incremental checkpoint state machine.               *)
(*                                                                         *)
(* The engine is single threaded: each API call is one action.  The hash   *)
(* tables behind the index and the overlay are maps here.  A batch is      *)
(* modelled by its single calls (n = 1).  The bin's page size is a         *)
(* multiple of its entry size, so that the paged and the flat offset of a  *)
(* slot agree and dimbin_reserve keeps every allocated page inside the     *)
(* tracked size of the data file.  The write buffer is configured with at  *)
(* most GRAVELDB_MAX_FLUSH_BATCH pages, so that a flush writes all of it.  *)
(***************************************************************************)
EXTENDS Naturals, Sequences, FiniteSets

CONSTANTS
  Feats,          \* feature ids callers use (never the reserved id 0)
  Vals,           \* embeddings callers write
  NoFeat,         \* the key 0 that marks an unused slot
  Zero,           \* the content of a slot nobody wrote: zero bytes
  Absent,         \* a lookup answered NOT_FOUND
  None,           \* no entry in a buffer or in the index
  EPP,            \* entries_per_page
  MaxEntries,     \* bound on the slots of the bin
  MaxPages,       \* write_buf.max_pages, the hard limit of buffered pages
  OverlayBudget,  \* overlay budget in entries, 0 = unlimited
  MaxDirty,       \* GRAVELDB_MAX_DIRTY, the room for the result of a scan
  StepPages,      \* max_pages_per_step of graveldb_checkpoint_step
  DeltaMayFail    \* whether opening or starting a delta file can fail

Entries == 0 .. (MaxEntries - 1)

PageOf(e) == e \div EPP

Pages == {PageOf(e) : e \in Entries}

Cells == Vals \cup {Zero}

ASSUME ConstantsAssumption ==
  /\ EPP \in Nat \ {0}
  /\ MaxEntries \in Nat
  /\ MaxPages \in Nat \ {0}
  /\ OverlayBudget \in Nat
  /\ MaxDirty \in Nat
  /\ StepPages \in Nat \ {0}
  /\ DeltaMayFail \in BOOLEAN
  /\ None \notin Nat /\ None \notin Vals /\ None \notin Feats
  /\ None # NoFeat /\ None # Zero
  /\ NoFeat \notin Feats
  /\ Zero \notin Vals
  /\ Absent \notin Vals /\ Absent # Zero

VARIABLES
  index,          \* HashIndex: the slot of each feature
  bump_ptr,       \* first slot never allocated
  free_list,      \* stack of freed slots
  key_buf,        \* KeyBTree: buffered key writes by slot
  key_file,       \* content of the .keys file
  resident,       \* pages present in write_buf
  write_buf,      \* content of the resident pages
  data_file,      \* content of the .bin file
  flush_needed,   \* the bin's watermark flag
  active,         \* dirty tracker: pages dirtied since the last swap
  ckpt,           \* dirty tracker: the frozen set being dumped
  in_checkpoint,  \* the bin's writes go to the overlay
  overlay,        \* values written during the checkpoint
  tombstones,     \* slots deleted during the checkpoint
  phase,          \* CkptProgress.phase
  current_bin,    \* CkptProgress.current_bin (the database has one bin)
  delta_open,     \* CkptProgress.ckpt_fd >= 0
  dirty_blocks,   \* pages still to be written to the open delta file
  written,        \* history: what the last acknowledged call left for a feature
  stale           \* history: pages of the data file that differ from their last dump

binVars  == <<index, bump_ptr, free_list>>
keyVars  == <<key_buf, key_file>>
pageVars == <<resident, write_buf, data_file, flush_needed, active>>
ovVars   == <<in_checkpoint, overlay, tombstones, ckpt>>
stepVars == <<phase, current_bin, delta_open, dirty_blocks>>
vars     == <<binVars, keyVars, pageVars, ovVars, stepVars, written, stale>>

NoKeys    == [e \in Entries |-> None]
NoOverlay == [e \in Entries |-> None]
NoPages   == [e \in Entries |-> Zero]

Init ==
  /\ index = [f \in Feats |-> None]
  /\ bump_ptr = 0
  /\ free_list = <<>>
  /\ key_buf = NoKeys
  /\ key_file = [e \in Entries |-> NoFeat]
  /\ resident = {}
  /\ write_buf = NoPages
  /\ data_file = NoPages
  /\ flush_needed = FALSE
  /\ active = {} /\ ckpt = {}
  /\ in_checkpoint = FALSE
  /\ overlay = NoOverlay
  /\ tombstones = <<>>
  /\ phase = "IDLE"
  /\ current_bin = 0
  /\ delta_open = FALSE
  /\ dirty_blocks = {}
  /\ written = [f \in Feats |-> Absent]
  /\ stale = {}
-----------------------------------------------------------------------------
(* Key buffer: kbt_insert and dimbin_flush_keys. *)

\* Faulty variant: the slots of a page without a buffered key are overwritten.
FlushedKeysWholePage(kf, kb) == kb

\* The key file once the buffered keys kb are written to kf.
FlushedKeys(kf, kb) == [e \in Entries |-> IF kb[e] # None THEN kb[e] ELSE kf[e]]

\* dimbin_buf_key: when the B-tree's arena is nearly full (how full it is
\* depends on the order of earlier insertions, so any moment will do) the
\* buffer is flushed before the insertion.
KeyFileAfter(full) == IF full THEN FlushedKeys(key_file, key_buf) ELSE key_file

\* Faulty variant: the key that met a full arena is flushed past, not buffered.
KeyBufAfterDropped(e, k, full) == IF full THEN NoKeys ELSE [key_buf EXCEPT ![e] = k]

KeyBufAfter(e, k, full) == [(IF full THEN NoKeys ELSE key_buf) EXCEPT ![e] = k]
-----------------------------------------------------------------------------
(* Page buffer. *)

\* The data file once every resident page is written.
FlushedPages == [e \in Entries |-> IF PageOf(e) \in resident THEN write_buf[e]
                                                            ELSE data_file[e]]

\* write_buf_ensure_page: what a page brought into the buffer holds for slot
\* e, given the allocation mark and the content of the data file.
LoadedCell(e, bump, file) == IF PageOf(e) < bump \div EPP THEN file[e] ELSE Zero

\* dimbin_should_flush.
AboveWatermark(pages) == Cardinality(pages) >= (MaxPages * 3) \div 4

\* History: the pages of the data file a step changes.
ChangedPages == {PageOf(e) : e \in {x \in Entries : data_file'[x] # data_file[x]}}
-----------------------------------------------------------------------------
(* Reading: the lookup of graveldb_batch_get. *)

\* Faulty variant: the overlay is not consulted.
ReadEntryUnderlying(e) == IF PageOf(e) \in resident THEN write_buf[e] ELSE data_file[e]

ReadEntry(e) ==
  IF in_checkpoint /\ overlay[e] # None THEN overlay[e]
  ELSE IF PageOf(e) \in resident THEN write_buf[e]
  ELSE data_file[e]

Visible == [f \in Feats |-> IF index[f] = None THEN Absent ELSE ReadEntry(index[f])]
-----------------------------------------------------------------------------
(* graveldb_batch_put, n = 1. *)

\* dimbin_alloc_entry: pop the free list, else take the next fresh slot.
AllocEntry == IF free_list # <<>> THEN free_list[Len(free_list)] ELSE bump_ptr

TargetEntry(f) == IF index[f] # None THEN index[f] ELSE AllocEntry

\* Slot allocation and indexing; done before the value is written, whatever
\* becomes of the value.
AdmitFeature(f) ==
  /\ index' = [index EXCEPT ![f] = TargetEntry(f)]
  /\ IF index[f] # None THEN UNCHANGED <<bump_ptr, free_list>>
     ELSE IF free_list # <<>>
       THEN /\ free_list' = SubSeq(free_list, 1, Len(free_list) - 1)
            /\ UNCHANGED bump_ptr
       ELSE /\ bump_ptr < MaxEntries
            /\ bump_ptr' = bump_ptr + 1
            /\ UNCHANGED free_list

OverlayFull ==
  /\ OverlayBudget > 0
  /\ Cardinality({e \in Entries : overlay[e] # None}) >= OverlayBudget

\* During a checkpoint the value goes to the overlay.
PutOverlay(f, v, full) ==
  /\ in_checkpoint
  /\ ~OverlayFull
  /\ AdmitFeature(f)
  /\ key_file' = KeyFileAfter(full)
  /\ key_buf' = KeyBufAfter(TargetEntry(f), f, full)
  /\ overlay' = [overlay EXCEPT ![TargetEntry(f)] = v]
  /\ written' = [written EXCEPT ![f] = v]
  /\ UNCHANGED <<pageVars, in_checkpoint, tombstones, ckpt, stepVars, stale>>

\* Faulty variant: the refused put keeps the slot but not the index entry.
PutBusyUnindexed(f, full) ==
  /\ in_checkpoint /\ OverlayFull
  /\ index[f] = None /\ free_list = <<>> /\ bump_ptr < MaxEntries
  /\ bump_ptr' = bump_ptr + 1
  /\ UNCHANGED <<index, free_list, keyVars, pageVars, ovVars, stepVars, written, stale>>

\* The overlay is at its budget: the call answers GRAVELDB_ERR_BUSY, but the
\* slot, the index and the key are already taken.
PutBusy(f, full) ==
  /\ in_checkpoint
  /\ OverlayFull
  /\ AdmitFeature(f)
  /\ key_file' = KeyFileAfter(full)
  /\ key_buf' = KeyBufAfter(TargetEntry(f), f, full)
  /\ UNCHANGED <<pageVars, ovVars, stepVars, written, stale>>

\* Otherwise the value goes to its page in the write buffer, which is loaded
\* on a miss; at the hard limit everything buffered is flushed first.
PutBuffered(f, v, full) ==
  LET e     == TargetEntry(f)
      hit   == PageOf(e) \in resident
      spill == ~hit /\ Cardinality(resident) >= MaxPages
      kf    == KeyFileAfter(full)
      kb    == KeyBufAfter(e, f, full)
  IN
  /\ ~in_checkpoint
  /\ AdmitFeature(f)
  /\ key_file' = IF spill THEN FlushedKeys(kf, kb) ELSE kf
  /\ key_buf' = IF spill THEN NoKeys ELSE kb
  /\ data_file' = IF spill THEN FlushedPages ELSE data_file
  /\ write_buf' = [x \in Entries |->
       IF x = e THEN v
       ELSE IF ~hit /\ PageOf(x) = PageOf(e) THEN LoadedCell(x, bump_ptr', data_file')
       ELSE IF spill THEN Zero
       ELSE write_buf[x]]
  /\ resident' = (IF spill THEN {} ELSE resident) \cup {PageOf(e)}
  /\ active' = active \cup {PageOf(e)}
  /\ flush_needed' = ((flush_needed /\ ~spill) \/ AboveWatermark(resident'))
  /\ written' = [written EXCEPT ![f] = v]
  /\ stale' = stale \cup ChangedPages
  /\ UNCHANGED <<ovVars, stepVars>>

Put(f) ==
  \E full \in BOOLEAN :
    \/ \E v \in Vals : PutOverlay(f, v, full) \/ PutBuffered(f, v, full)
    \/ PutBusy(f, full)
-----------------------------------------------------------------------------
(* graveldb_batch_delete, n = 1, of a stored feature. *)

\* dimbin_free_entry: the slot is reusable at once and its key becomes 0.
DeleteNow(f, full) ==
  /\ index[f] # None
  /\ ~in_checkpoint
  /\ free_list' = Append(free_list, index[f])
  /\ key_file' = KeyFileAfter(full)
  /\ key_buf' = KeyBufAfter(index[f], NoFeat, full)
  /\ index' = [index EXCEPT ![f] = None]
  /\ written' = [written EXCEPT ![f] = Absent]
  /\ UNCHANGED <<bump_ptr, pageVars, ovVars, stepVars, stale>>

\* Faulty variant: the index keeps the deleted feature.
DeleteTombstoneIndexed(f) ==
  /\ index[f] # None /\ in_checkpoint
  /\ tombstones' = Append(tombstones, index[f])
  /\ written' = [written EXCEPT ![f] = Absent]
  /\ UNCHANGED <<binVars, keyVars, pageVars, in_checkpoint, overlay, ckpt, stepVars, stale>>

\* Faulty variant: the slot is also freed at once.
DeleteTombstoneFreed(f) ==
  /\ index[f] # None /\ in_checkpoint
  /\ Len(free_list) < 2 * MaxEntries
  /\ tombstones' = Append(tombstones, index[f])
  /\ free_list' = Append(free_list, index[f])
  /\ index' = [index EXCEPT ![f] = None]
  /\ written' = [written EXCEPT ![f] = Absent]
  /\ UNCHANGED <<bump_ptr, keyVars, pageVars, in_checkpoint, overlay, ckpt, stepVars, stale>>

\* During a checkpoint the slot is only remembered in the tombstone list.
DeleteTombstone(f) ==
  /\ index[f] # None
  /\ in_checkpoint
  /\ tombstones' = Append(tombstones, index[f])
  /\ index' = [index EXCEPT ![f] = None]
  /\ written' = [written EXCEPT ![f] = Absent]
  /\ UNCHANGED <<bump_ptr, free_list, keyVars, pageVars, in_checkpoint, overlay,
                 ckpt, stepVars, stale>>

Delete(f) == DeleteTombstone(f) \/ \E full \in BOOLEAN : DeleteNow(f, full)
-----------------------------------------------------------------------------
(* Flushing. *)

\* The effect of dimbin_flush and graveldb_flush on the files and buffers.
WriteBack ==
  /\ key_file' = FlushedKeys(key_file, key_buf)
  /\ key_buf' = NoKeys
  /\ data_file' = FlushedPages
  /\ write_buf' = NoPages
  /\ resident' = {}

\* graveldb_flush: the watermark flag is only lowered for a bin that had
\* buffered keys.
Flush ==
  /\ WriteBack
  /\ flush_needed' = (flush_needed /\ key_buf = NoKeys)
  /\ stale' = stale \cup ChangedPages
  /\ UNCHANGED <<binVars, active, ovVars, stepVars, written>>
-----------------------------------------------------------------------------
(* Checkpointing. *)

\* Faulty variant: the write buffer is not flushed first.
CheckpointBeginUnflushed ==
  /\ ckpt' = active /\ active' = {}
  /\ overlay' = NoOverlay /\ tombstones' = <<>>
  /\ in_checkpoint' = TRUE
  /\ UNCHANGED <<keyVars, resident, write_buf, data_file, flush_needed>>

\* dimbin_checkpoint_begin: flush, freeze the dirty set, start an overlay.
CheckpointBegin ==
  /\ WriteBack
  /\ flush_needed' = FALSE
  /\ ckpt' = active
  /\ active' = {}
  /\ overlay' = NoOverlay
  /\ tombstones' = <<>>
  /\ in_checkpoint' = TRUE

\* Pages the overlay replay touches, and those left in the write buffer: the
\* replay (of at most OVERLAY_REPLAY_CHUNK values) visits pages in ascending
\* order and the buffer, empty when it starts, is flushed when it is full.
ReplayPages == {PageOf(e) : e \in {x \in Entries : overlay[x] # None}}

KeptPages ==
  {p \in ReplayPages :
     Cardinality({q \in ReplayPages : q > p})
       <= (Cardinality(ReplayPages) - 1) % MaxPages}

SpilledPages == ReplayPages \ KeptPages

\* Faulty variant: the page is loaded but the overlay value is not copied in.
ReplayedCellLost(e) == LoadedCell(e, bump_ptr, data_file)

ReplayedCell(e) == IF overlay[e] # None THEN overlay[e]
                                        ELSE LoadedCell(e, bump_ptr, data_file)

\* Faulty variant: the pages are filled without the bookkeeping of put_batch.
ReplayOverlayUnmarked ==
  /\ data_file' = [e \in Entries |-> IF PageOf(e) \in SpilledPages
                                     THEN ReplayedCell(e) ELSE data_file[e]]
  /\ write_buf' = [e \in Entries |-> IF PageOf(e) \in KeptPages
                                     THEN ReplayedCell(e) ELSE Zero]
  /\ resident' = KeptPages
  /\ UNCHANGED <<active, flush_needed>>

\* Overlay values go back through dimbin_put_batch.
ReplayOverlay ==
  IF ReplayPages = {}
  THEN UNCHANGED pageVars
  ELSE /\ data_file' = [e \in Entries |-> IF PageOf(e) \in SpilledPages
                                          THEN ReplayedCell(e) ELSE data_file[e]]
       /\ write_buf' = [e \in Entries |-> IF PageOf(e) \in KeptPages
                                          THEN ReplayedCell(e) ELSE Zero]
       /\ resident' = KeptPages
       /\ active' = active \cup ReplayPages
       /\ flush_needed' = ((flush_needed /\ SpilledPages = {}) \/ AboveWatermark(KeptPages))

TombstonesFrom(i) == {tombstones[j] : j \in i .. Len(tombstones)}

\* Tombstoned slots are freed in order; the key buffer is flushed by a spill
\* of the replay, and when its arena fills up before the cut-th tombstone.
FreeTombstones(cut) ==
  LET spill == SpilledPages # {}
      kf    == IF spill THEN FlushedKeys(key_file, key_buf) ELSE key_file
      kb    == IF spill THEN NoKeys ELSE key_buf
      full  == cut <= Len(tombstones)
      late  == IF full THEN TombstonesFrom(cut) ELSE TombstonesFrom(1)
      early == TombstonesFrom(1) \ late
  IN
  /\ free_list' = free_list \o tombstones
  /\ key_file' = [e \in Entries |-> IF e \in early THEN NoFeat
                                    ELSE IF full THEN FlushedKeys(kf, kb)[e]
                                    ELSE kf[e]]
  /\ key_buf' = [e \in Entries |-> IF e \in late THEN NoFeat
                                   ELSE IF full THEN None
                                   ELSE kb[e]]

\* dimbin_checkpoint_end.
CheckpointEnd ==
  /\ ReplayOverlay
  /\ \E cut \in 1 .. (Len(tombstones) + 1) : FreeTombstones(cut)
  /\ in_checkpoint' = FALSE
  /\ overlay' = NoOverlay
  /\ tombstones' = <<>>
  /\ UNCHANGED ckpt

\* graveldb_checkpoint_step from IDLE: falls through to FLUSHING and begins
\* the first bin, which is the only one.
StepBegin ==
  /\ phase = "IDLE"
  /\ CheckpointBegin
  /\ phase' = "FLUSHING"
  /\ current_bin' = 1
  /\ delta_open' = FALSE
  /\ dirty_blocks' = {}
  /\ stale' = stale \cup ChangedPages
  /\ UNCHANGED <<binVars, written>>

\* All bins are past the phase: the next one starts.
StepNextPhase ==
  /\ current_bin = 1
  /\ \/ phase = "FLUSHING" /\ phase' = "DUMPING"
     \/ phase = "DUMPING" /\ phase' = "FINISHING"
  /\ current_bin' = 0
  /\ UNCHANGED <<binVars, keyVars, pageVars, ovVars, delta_open, dirty_blocks,
                 written, stale>>

\* dirty_tracker_scan_ckpt of a frozen dirty set: its pages, ascending, as many
\* as the result has room for.  (dimbin_put_batch raises the tracker's capacity
\* above a page before it marks it.)
Scanned(pages) == {p \in pages : Cardinality({q \in pages : q < p}) < MaxDirty}

\* Pages the open (or about to be opened) delta file still has to receive.
PendingDump == IF delta_open THEN dirty_blocks ELSE Scanned(ckpt)

\* The next pages of the dump: at most StepPages of them, in ascending order.
DumpBatch == {p \in PendingDump : Cardinality({q \in PendingDump : q < p}) < StepPages}

StepDump ==
  /\ phase = "DUMPING" /\ current_bin = 0
  /\ dirty_blocks' = PendingDump \ DumpBatch
  /\ delta_open' = (dirty_blocks' # {})
  /\ current_bin' = IF delta_open' THEN 0 ELSE 1
  /\ stale' = stale \ DumpBatch
  /\ UNCHANGED <<binVars, keyVars, pageVars, ovVars, phase, written>>

\* The delta file cannot be created: the bin is skipped.
StepSkip ==
  /\ phase = "DUMPING" /\ current_bin = 0 /\ ~delta_open
  /\ DeltaMayFail
  /\ current_bin' = 1
  /\ UNCHANGED <<binVars, keyVars, pageVars, ovVars, phase, delta_open, dirty_blocks,
                 written, stale>>

StepFinish ==
  /\ phase = "FINISHING"
  /\ CheckpointEnd
  /\ phase' = "IDLE"
  /\ stale' = stale \cup ChangedPages
  /\ UNCHANGED <<index, bump_ptr, current_bin, delta_open, dirty_blocks, written>>

Step == StepBegin \/ StepNextPhase \/ StepDump \/ StepSkip \/ StepFinish

\* graveldb_checkpoint: begin, dump and end in one call.  Begin replaces the
\* overlay by an empty one, so that end has nothing to replay or to free.
Checkpoint ==
  /\ WriteBack
  /\ flush_needed' = FALSE
  /\ ckpt' = active
  /\ active' = {}
  /\ overlay' = NoOverlay
  /\ tombstones' = <<>>
  /\ in_checkpoint' = FALSE
  /\ \/ stale' = (stale \cup ChangedPages) \ Scanned(active)
     \/ DeltaMayFail /\ stale' = stale \cup ChangedPages
  /\ UNCHANGED <<binVars, stepVars, written>>
-----------------------------------------------------------------------------
\* Callers use one of the two checkpoint interfaces at a time.
Next ==
  \/ \E f \in Feats : Put(f) \/ Delete(f)
  \/ Flush
  \/ Step
  \/ (phase = "IDLE" /\ Checkpoint)

Spec == Init /\ [][Next]_vars
-----------------------------------------------------------------------------
(* Properties. *)

Live == {index[f] : f \in Feats} \ {None}

SlotsOf(list) == {list[i] : i \in DOMAIN list}

NoRepeat(list) == \A i, j \in DOMAIN list : list[i] = list[j] => i = j

\* The types of the variables.
TypeOK ==
  /\ index \in [Feats -> Entries \cup {None}]
  /\ bump_ptr \in 0 .. MaxEntries
  /\ free_list \in Seq(Entries)
  /\ key_buf \in [Entries -> Feats \cup {NoFeat, None}]
  /\ key_file \in [Entries -> Feats \cup {NoFeat}]
  /\ resident \subseteq Pages
  /\ write_buf \in [Entries -> Cells]
  /\ data_file \in [Entries -> Cells]
  /\ flush_needed \in BOOLEAN
  /\ active \subseteq Pages /\ ckpt \subseteq Pages
  /\ in_checkpoint \in BOOLEAN
  /\ overlay \in [Entries -> Vals \cup {None}]
  /\ tombstones \in Seq(Entries)
  /\ phase \in {"IDLE", "FLUSHING", "DUMPING", "FINISHING"}
  /\ current_bin \in {0, 1}
  /\ delta_open \in BOOLEAN
  /\ dirty_blocks \subseteq Pages
  /\ written \in [Feats -> Vals \cup {Absent}]
  /\ stale \subseteq Pages

\* Every slot below bump_ptr is owned exactly once: by one indexed feature,
\* by one position of the free list, or by one tombstone awaiting the end of
\* the checkpoint.  No slot is leaked, shared by two features, or handed out
\* while it is still owned, however puts, deletes and checkpoints interleave
\* (dimbin_alloc_entry, dimbin_free_entry, overlay_tombstone).
SlotPartition ==
  /\ \A f, g \in Feats : index[f] = index[g] /\ index[f] # None => f = g
  /\ NoRepeat(free_list) /\ NoRepeat(tombstones)
  /\ Live \cap SlotsOf(free_list) = {}
  /\ Live \cap SlotsOf(tombstones) = {}
  /\ SlotsOf(free_list) \cap SlotsOf(tombstones) = {}
  /\ Live \cup SlotsOf(free_list) \cup SlotsOf(tombstones) = 0 .. (bump_ptr - 1)

\* The bin is in checkpoint mode exactly while the state machine is not idle.
\* In that mode no page is buffered, so nothing can be written back over the
\* frozen file; outside it no value is left in the overlay and no deleted
\* slot is left waiting (dimbin_checkpoint_begin, dimbin_checkpoint_end).
CheckpointMode ==
  /\ in_checkpoint <=> phase # "IDLE"
  /\ in_checkpoint => resident = {}
  /\ ~in_checkpoint => overlay = NoOverlay /\ tombstones = <<>>

\* What the .keys file will hold for a slot once the buffer is flushed.
EffectiveKey(e) == IF key_buf[e] # None THEN key_buf[e] ELSE key_file[e]

\* The key file with its buffer names exactly the owners the index knows: the
\* slot of a stored feature carries that feature's id, every other slot that
\* is not a pending tombstone carries 0.  rebuild_index_from_keys relies on
\* this after a clean close; early flushes of the buffer, slot reuse and
\* overlay replay must not reorder key writes against each other.
KeysNameOwners ==
  /\ \A f \in Feats : index[f] # None => EffectiveKey(index[f]) = f
  /\ \A e \in Entries :
       e \notin Live /\ e \notin SlotsOf(tombstones) => EffectiveKey(e) = NoFeat

\* A feature whose last put was acknowledged is found, and reads either the
\* value of that put or zero bytes: never another feature's value, and never
\* an older value, whatever pages were evicted, slots recycled, values parked
\* in the overlay or replayed since (graveldb_batch_get, dimbin_put_batch).
NoForeignRead ==
  \A f \in Feats : written[f] # Absent =>
    /\ index[f] # None
    /\ ReadEntry(index[f]) \in {written[f], Zero}

\* Read your writes: a feature whose last put was acknowledged reads the
\* value of that put (the lookup order of graveldb_batch_get).
AckedReadable ==
  \A f \in Feats : written[f] # Absent =>
    /\ index[f] # None
    /\ ReadEntry(index[f]) = written[f]

\* A feature that was never put, was deleted, or whose only put was refused,
\* is not found (graveldb_batch_put, graveldb_batch_delete).
NoPhantom == \A f \in Feats : written[f] = Absent => index[f] = None

\* A write buffer at or above the watermark has raised flush_needed, so that
\* the host's event loop, which only flushes on that flag, will drain it
\* (dimbin_put_batch, dimbin_checkpoint_end, graveldb_flush).
WatermarkRaised == resident # {} /\ AboveWatermark(resident) => flush_needed

\* Pages changed in the data file since they were last dumped are either in
\* the active dirty set, so the next delta has them, or still pending in the
\* delta being written: the chain of deltas misses no page change
\* (dirty_tracker_mark, dirty_tracker_swap, graveldb_checkpoint_step).
DeltaChainComplete ==
  stale \subseteq active \cup
    (IF phase = "FLUSHING" \/ (phase = "DUMPING" /\ current_bin = 0)
     THEN PendingDump ELSE {})

\* Between dimbin_checkpoint_begin and dimbin_checkpoint_end no step changes
\* the data file: what the delta or the export reads page by page, over many
\* calls, is the state at the beginning.
FrozenDuringCheckpoint ==
  [][in_checkpoint /\ in_checkpoint' => data_file' = data_file]_vars

\* The engine implements the abstract map: every put and delete changes the
\* visible embedding of its feature alone, everything else changes none.
KV == INSTANCE GravelKV WITH store <- Visible

ImplementsKV == KV!KVSpec
=============================================================================
