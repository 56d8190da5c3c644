------------------------------- MODULE Export -------------------------------
(***************************************************************************)
(* Checkpoint export (checkpoint.c): the dump of one bin that is in        *)
(* checkpoint mode, while puts go on.  Each call of export_step advances a *)
(* pipeline: read a batch of keys, read the embeddings of the slots that   *)
(* have one, write the pairs to the dump file.  Reads complete between two *)
(* calls, or within the submitting call where io_uring is missing.         *)
(*                                                                         *)
(* The data file does not change in checkpoint mode (FrozenTheorem of      *)
(* EngineProofs), so an embedding is named by the slot it is the content   *)
(* of.  The key file does change: keys of slots taken since the checkpoint *)
(* began are flushed into it.  It is as long as the allocated slots        *)
(* (dimbin_alloc_entry), so reads are not cut short.  I/O does not fail.   *)
(***************************************************************************)
EXTENDS Naturals, Sequences, FiniteSets, FiniteSetsExt, Functions

CONSTANTS
  Feats,        \* feature ids
  NoFeat,       \* the id 0: the key of a slot nobody owns
  None,         \* no key is buffered; a buffer was never read into
  Header,       \* the first and
  Trailer,      \*   the last item of a dump file
  EPP,          \* entries per page
  MaxEntries,   \* bound on the slots of the bin
  Batch,        \* batch_entries
  MaxLate       \* bound on the slots taken during the checkpoint

ASSUME ExportAssumption ==
  /\ EPP \in Nat \ {0} /\ MaxEntries \in Nat \ {0} /\ Batch \in Nat \ {0}
  /\ MaxLate \in Nat
  /\ NoFeat \notin Feats /\ None \notin Feats /\ None # NoFeat
  /\ Header # Trailer
  /\ {Header, Trailer} \cap [feat : Feats, emb : 0 .. (MaxEntries - 1)] = {}

VARIABLES
  snapshot,     \* history: the owner of every slot when the checkpoint began
  bump_ptr,     \* allocation mark
  key_buf,      \* keys not yet in the key file
  key_file,     \* owner ids on disk
  dirty,        \* the frozen dirty pages
  exports       \* the contexts in use, by type; two with GRAVELDB_CKPT_ALSO_FULL

binVars == <<snapshot, bump_ptr, key_buf, key_file, dirty>>
vars == <<binVars, exports>>

Entries == 0 .. (MaxEntries - 1)
PageOf(e) == e \div EPP
NoExport == <<>>

\* Any bin a checkpoint may find: dimbin_checkpoint_begin has flushed the keys
\* and swapped the dirty sets.
Init ==
  /\ bump_ptr \in 0 .. MaxEntries
  /\ snapshot \in [Entries -> Feats \cup {NoFeat}]
  /\ \A e \in Entries : snapshot[e] # NoFeat =>
       e < bump_ptr /\ \A x \in Entries \ {e} : snapshot[x] # snapshot[e]
  /\ key_file = snapshot
  /\ key_buf = [e \in Entries |-> None]
  /\ dirty \in SUBSET {PageOf(e) : e \in 0 .. (bump_ptr - 1)}
  /\ exports = NoExport
-----------------------------------------------------------------------------
(* What goes on meanwhile. *)

\* export_end has written the trailers.
Ended == exports # NoExport /\ \A t \in DOMAIN exports : Trailer \in Range(exports[t].dump)

FreeSlots ==
  {e \in 0 .. (bump_ptr - 1) : key_file[e] = NoFeat /\ key_buf[e] = None}

\* graveldb_batch_put of a feature that has no slot: new, or deleted since the
\* checkpoint began (the slot of a deleted feature keeps its key until the
\* checkpoint ends).  The value goes to the overlay.  Bounded by MaxLate, and to
\* the time an export reads the keys.
LatePut(f) ==
  /\ Cardinality({e \in Entries : key_buf[e] # None \/ key_file[e] # snapshot[e]}) < MaxLate
  /\ ~Ended
  /\ \E e \in IF FreeSlots # {} THEN FreeSlots ELSE {bump_ptr} \cap Entries :
       /\ key_buf' = [key_buf EXCEPT ![e] = f]
       /\ bump_ptr' = IF e = bump_ptr THEN bump_ptr + 1 ELSE bump_ptr
  /\ UNCHANGED <<snapshot, key_file, dirty, exports>>

\* dimbin_flush_keys: by graveldb_flush, or by a put that finds the key buffer
\* full.  Nothing reads the file any more once the export has ended.
FlushKeys ==
  /\ ~Ended
  /\ key_file' = [e \in Entries |-> IF key_buf[e] # None THEN key_buf[e] ELSE key_file[e]]
  /\ key_buf' = [e \in Entries |-> None]
  /\ UNCHANGED <<snapshot, bump_ptr, dirty, exports>>
-----------------------------------------------------------------------------
(* The steps of one export. *)

\* A loop over s that keeps the members at the places in keep, in order.
Kept(s, keep) ==
  LET upto[n \in 0 .. Len(s)] ==
        IF n = 0 THEN <<>>
        ELSE IF n \in keep THEN Append(upto[n - 1], s[n]) ELSE upto[n - 1]
  IN  upto[Len(s)]

\* dirty_tracker_scan_ckpt returns the pages in ascending order.
Ascending(pages) == Kept([n \in 1 .. MaxEntries |-> n - 1], {n \in 1 .. MaxEntries : n - 1 \in pages})

\* graveldb_ckpt_export_begin.
NewExport(type) ==
  [type          |-> type,
   snapshot_bump |-> bump_ptr,
   cursor        |-> 0,
   dirty_pages   |-> IF type = "DELTA" THEN Ascending(dirty) ELSE <<>>,
   page_cursor   |-> 0,
   scan_done     |-> FALSE,
   phase         |-> "IDLE",
   reading       |-> FALSE,                    \* a read is in flight
   batch_start   |-> 0,
   batch_count   |-> 0,
   keys          |-> [i \in 0 .. (Batch - 1) |-> None],
   ops           |-> <<>>,                     \* the valid entries of the batch
   ranges        |-> <<>>,                     \* ... coalesced
   pool          |-> [i \in 1 .. Batch |-> None],
   dump          |-> <<>>]

\* A batch of count keys from slot start on is asked for.
ReadKeys(x, start, count) ==
  [x EXCEPT !.batch_start = start, !.batch_count = count,
            !.reading = count > 0, !.phase = "KEY_READ"]

\* Faulty variant: the last slot of a batch is read again with the next one.
SubmitFullOverlap(x) ==
  LET end == Min({x.cursor + Batch, x.snapshot_bump})
  IN  [ReadKeys(x, x.cursor, end - x.cursor) EXCEPT
         !.cursor = IF end < x.snapshot_bump THEN end - 1 ELSE end,
         !.scan_done = end >= x.snapshot_bump]

\* Faulty variant: the scan is over one slot early.
SubmitFullEarly(x) ==
  LET end == Min({x.cursor + Batch, x.snapshot_bump})
  IN  [ReadKeys(x, x.cursor, end - x.cursor) EXCEPT
         !.cursor = end, !.scan_done = end + 1 >= x.snapshot_bump]

\* export_step_single in phase IDLE, full export: the next keys in order.
SubmitFull(x) ==
  LET end == Min({x.cursor + Batch, x.snapshot_bump})
  IN  [ReadKeys(x, x.cursor, end - x.cursor) EXCEPT
         !.cursor = end, !.scan_done = end >= x.snapshot_bump]

\* Faulty variant: the last page is taken to be full.
PageEndUnclamped(x, p) == (p + 1) * EPP

\* Allocated slots of a page, and of the n dirty pages from the cursor on.
PageEnd(x, p) == Min({(p + 1) * EPP, x.snapshot_bump})
Collected(x, n) ==
  LET page(i) == x.dirty_pages[x.page_cursor + i]
      sum[i \in 0 .. n] ==
        IF i = 0 THEN 0 ELSE sum[i - 1] + (PageEnd(x, page(i)) - page(i) * EPP)
  IN  sum[n]

\* Faulty variant: pages are taken until they hold more than a batch.
TakenMore(x) ==
  LET left == Len(x.dirty_pages) - x.page_cursor
  IN  Min({n \in 1 .. left : Collected(x, n) > Batch} \cup {left})

\* Dirty pages are taken until they hold a batch of slots.
Taken(x) ==
  LET left == Len(x.dirty_pages) - x.page_cursor
  IN  Min({n \in 1 .. left : Collected(x, n) >= Batch} \cup {left})

\* The same for a delta export: the keys read are those of the range that the
\* pages taken span, cut to a batch.
SubmitDelta(x) ==
  LET next  == x.page_cursor + Taken(x)
      start == x.dirty_pages[x.page_cursor + 1] * EPP
      end   == PageEnd(x, x.dirty_pages[next])
  IN  IF x.page_cursor = Len(x.dirty_pages) THEN [x EXCEPT !.scan_done = TRUE]
      ELSE [ReadKeys(x, start, Min({end - start, Batch})) EXCEPT
              !.page_cursor = next, !.scan_done = next = Len(x.dirty_pages)]

\* export_build_coalesced_ranges: runs of adjacent slots, each with the place of
\* its first one in the buffer pool.  The slot of an op extends the last run, or
\* begins a new one.
Extended(rs, op, i) ==
  LET r == rs[Len(rs)] IN
  IF rs # <<>> /\ op.entry = r.start + r.count
  THEN [rs EXCEPT ![Len(rs)] = [r EXCEPT !.count = @ + 1]]
  ELSE Append(rs, [start |-> op.entry, count |-> 1, at |-> i])
Coalesced(ops) ==
  LET upto[i \in 0 .. Len(ops)] == IF i = 0 THEN <<>> ELSE Extended(upto[i - 1], ops[i], i)
  IN  upto[Len(ops)]

\* The owned slots of a batch whose keys have been read.
Owned(x) ==
  Kept([i \in 1 .. x.batch_count |-> [feat |-> x.keys[i - 1], entry |-> x.batch_start + i - 1]],
       {i \in 1 .. x.batch_count : x.keys[i - 1] # NoFeat})

\* Faulty variant: a batch without owned slots does not return to IDLE.
ScanKeysStuck(x) ==
  LET valid == Owned(x)
  IN  IF valid = <<>> THEN [x EXCEPT !.ops = <<>>]
      ELSE [x EXCEPT !.ops = valid, !.ranges = Coalesced(valid),
                     !.reading = TRUE, !.phase = "EMB_READ"]

\* Faulty variant: an owned slot is numbered by its place among the owned ones.
ScanKeysPacked(x) ==
  LET owned == Owned(x)
      valid == [i \in 1 .. Len(owned) |-> [feat |-> owned[i].feat, entry |-> x.batch_start + i - 1]]
  IN  IF valid = <<>> THEN [x EXCEPT !.ops = <<>>, !.phase = "IDLE"]
      ELSE [x EXCEPT !.ops = valid, !.ranges = Coalesced(valid),
                     !.reading = TRUE, !.phase = "EMB_READ"]

\* Phase KEY_READ once the keys are there: the owned slots of the batch, and the
\* reads of their embeddings.
ScanKeys(x) ==
  LET valid == Owned(x)
  IN  IF valid = <<>> THEN [x EXCEPT !.ops = <<>>, !.phase = "IDLE"]
      ELSE [x EXCEPT !.ops = valid, !.ranges = Coalesced(valid),
                     !.reading = TRUE, !.phase = "EMB_READ"]

\* Phase OUTPUT.
Output(x) ==
  [x EXCEPT !.dump = @ \o [i \in 1 .. Len(x.ops) |->
                             [feat |-> x.ops[i].feat, emb |-> x.pool[i]]],
            !.ops = <<>>, !.ranges = <<>>, !.phase = "IDLE"]

ScanOver(x) == x.scan_done /\ x.phase = "IDLE"

\* Phase IDLE; export_write_header on the first step.
Submit(x) ==
  LET y == [x EXCEPT !.dump = IF @ = <<>> THEN <<Header>> ELSE @, !.ops = <<>>, !.ranges = <<>>]
  IN  IF x.type = "FULL" THEN SubmitFull(y) ELSE SubmitDelta(y)

\* export_step_single.
StepSingle(x) ==
  CASE ScanOver(x) \/ x.reading -> x
    [] x.phase = "IDLE" /\ ~x.scan_done -> Submit(x)
    [] x.phase = "KEY_READ" /\ ~x.reading -> ScanKeys(x)
    [] x.phase = "EMB_READ" /\ ~x.reading -> [x EXCEPT !.phase = "OUTPUT"]
    [] x.phase = "OUTPUT" -> Output(x)

\* The kernel completes the reads of a context.
Arrived(x) ==
  IF x.phase = "KEY_READ"
  THEN [x EXCEPT !.reading = FALSE,
                 !.keys = [i \in DOMAIN @ |-> IF i < x.batch_count THEN key_file[x.batch_start + i]
                                              ELSE @[i]]]
  ELSE [x EXCEPT !.reading = FALSE,
                 !.pool = [i \in DOMAIN @ |->
                   IF i > Len(x.ops) THEN @[i]
                   ELSE LET r == CHOOSE q \in Range(x.ranges) : i \in q.at .. (q.at + q.count - 1)
                        IN  r.start + (i - r.at)]]
-----------------------------------------------------------------------------
(* The calls. *)

ExportBegin ==
  /\ exports = NoExport
  /\ \E types \in {{"FULL"}, {"DELTA"}, {"FULL", "DELTA"}} :
       exports' = [t \in types |-> NewExport(t)]
  /\ UNCHANGED binVars

\* graveldb_ckpt_export_step drives the paired full export in lockstep; it is
\* called until both scans are over.
ExportStep ==
  /\ exports # NoExport
  /\ \E t \in DOMAIN exports : ~ScanOver(exports[t])
  /\ exports' = [t \in DOMAIN exports |-> StepSingle(exports[t])]
  /\ UNCHANGED binVars

ReadArrives(t) ==
  /\ t \in DOMAIN exports /\ exports[t].reading
  /\ exports' = [exports EXCEPT ![t] = Arrived(@)]
  /\ UNCHANGED binVars

ExportEnd ==
  /\ exports # NoExport /\ ~Ended
  /\ \A t \in DOMAIN exports : ScanOver(exports[t])
  /\ exports' = [t \in DOMAIN exports |-> [exports[t] EXCEPT !.dump = Append(@, Trailer)]]
  /\ UNCHANGED binVars

ExportNext ==
  \/ \E f \in Feats : LatePut(f)
  \/ FlushKeys
  \/ ExportBegin \/ ExportStep \/ ExportEnd
  \/ \E t \in {"FULL", "DELTA"} : ReadArrives(t)

\* The host calls step until it returns OK and then end, as replica.c does; the
\* kernel completes what was submitted.
Fairness ==
  /\ WF_vars(ExportStep \/ ExportEnd)
  /\ WF_vars(\E t \in {"FULL", "DELTA"} : ReadArrives(t))
-----------------------------------------------------------------------------
(* Properties of the dump files. *)

\* The pairs between the header and the trailer.
Records(t) ==
  LET d == exports[t].dump
  IN  SubSeq(d, 2, IF Trailer \in Range(d) THEN Len(d) - 1 ELSE Len(d))

\* The types of the variables, and the capacity of the buffers of a context.
ExportTypeOK ==
  /\ snapshot \in [Entries -> Feats \cup {NoFeat}]
  /\ key_file \in [Entries -> Feats \cup {NoFeat}]
  /\ key_buf \in [Entries -> Feats \cup {None}]
  /\ bump_ptr \in 0 .. MaxEntries
  /\ \A t \in DOMAIN exports :
       LET x == exports[t] IN
       /\ x.batch_count <= Batch /\ Len(x.ops) <= Batch /\ Len(x.ranges) <= Len(x.ops)
       /\ x.batch_start + x.batch_count <= x.snapshot_bump
       /\ x.keys \in [0 .. (Batch - 1) -> Feats \cup {NoFeat, None}]
       /\ x.pool \in [1 .. Batch -> Entries \cup {None}]

\* An embedding that was in the bin when the checkpoint began is dumped under
\* the feature that owned it then, whatever is put, deleted and flushed while
\* the dump is written, and however slots are coalesced into reads.
SnapshotExact ==
  \A t \in DOMAIN exports : \A r \in Range(Records(t)) :
    /\ r.emb \in Entries
    /\ snapshot[r.emb] # NoFeat => r.feat = snapshot[r.emb]

\* No slot is dumped twice: batches neither overlap nor come back, in full
\* exports and over any set of dirty pages.
EachSlotOnce ==
  \A t \in DOMAIN exports :
    LET rs == Records(t) IN \A i, j \in DOMAIN rs : rs[i].emb = rs[j].emb => i = j

Dumped(t) == {r.emb : r \in Range(Records(t))}

\* A finished full dump holds every embedding of the snapshot.
FullComplete ==
  Ended /\ "FULL" \in DOMAIN exports =>
    {e \in Entries : snapshot[e] # NoFeat} \subseteq Dumped("FULL")

\* A finished delta dump holds every embedding of the dirty pages, provided that
\* a batch is a whole number of pages and the dirty pages have no gap: elsewhere
\* the range of a step is longer than a batch and its end is dropped.
DeltaComplete ==
  /\ Ended /\ "DELTA" \in DOMAIN exports
  /\ Batch % EPP = 0
  /\ \A p, q \in dirty : \A r \in p .. q : r \in dirty
  => {e \in Entries : snapshot[e] # NoFeat /\ PageOf(e) \in dirty} \subseteq Dumped("DELTA")

\* An export that was begun is finished by stepping it, alone or with its
\* paired full export, whatever the reads and the writers do.
ExportFinishes == (exports # NoExport) ~> Ended
=============================================================================
