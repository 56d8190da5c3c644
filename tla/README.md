# GravelDB: TLA+ specifications and proofs

GravelDB is an embedded store for embedding tables: it maps a 64-bit feature id
to a fixed-size vector of floats. It is written in C, runs on one thread, and is
driven by the host's event loop; an example server puts it on the network. This
directory specifies it in TLA+, checks it on small instances with TLC and proves
its main safety properties with TLAPS. Paths are relative to the repository.

## The system

| Part | Code | Modelled in |
|---|---|---|
| Public API: get, put, delete, flush, checkpoint | `src/graveldb.c`, `include/graveldb.h` | `Engine` (one bin, one feature per call), `Store` (several bins) |
| `DimBin`: slots, free list, key buffer, page write buffer, overlay switch | `src/dimbin.c` | `Engine` |
| `HashIndex`: feature id to location, incremental rehash | `src/hash_index.c` | `HashIndex`, `ProbeTable` |
| Overlay: values written during a checkpoint | `src/overlay.c` | `OverlayTable`, `ProbeTable`; isolation and replay in `Engine` |
| Dirty tracker: radix tree of dirty pages, double buffered | `src/dirty_tracker.c` | as sets of pages with the limits of a scan in `Engine` |
| Key B-tree: buffered key writes | `src/key_btree.h` | as a map with early flushes in `Engine` |
| Incremental checkpoint (`graveldb_checkpoint_step`) | `src/graveldb.c` | `Engine` |
| Open, close, index rebuild | `src/graveldb.c` | `Store` |
| Checkpoint export, dump parser and import | `src/checkpoint.c` | `Export`, `Import` (one bin) |
| Delta and meta files, recovery, scheduler | `src/checkpoint.c` | `Scheduler` |
| Asynchronous flush and get, io_uring context | `src/graveldb.c`, `src/io_uring_flush.c` | `Store` |
| `DimRegistry`, slab allocator | `src/dim_registry.c`, `src/slab_alloc.c` | not modelled |
| Server and client | `example/server/`, `example/client/` | `Server` |
| Replica, bindings, benchmarks | `example/replica/`, `example/cgo/`, `example/rust-tokio/`, `bench/` | the loops of the replica drive `Export` and `Import`; the rest is not modelled |

How the parts interact. A put looks its feature up in the index, allocates a slot
in the bin (popping the free list, else advancing `bump_ptr`), buffers the key and
writes the value into its page in the write buffer, loading the page from the file
when it is absent and flushing the whole buffer when it is full. A delete frees
the slot. A checkpoint flushes the bin, freezes its dirty set and switches it to
the overlay: from then on values go to the overlay and deleted slots to a
tombstone list, so that the file can be dumped page by page over many calls. At
the end the overlay is replayed through the normal write path and the tombstoned
slots are freed. A get looks in the overlay, then in the write buffer, then in
the file. While the bin is in checkpoint mode an export may scan its files step by
step and write all its embeddings, or those of the dirty pages, to a dump file,
which another database imports. A flush can also be submitted to io_uring and
polled, and so can a get. The scheduler calls flush and checkpoint at intervals,
keeps a `.meta` file with the generation of each bin, dumps whole bins on request
and purges the delta files a dump makes redundant. An open rebuilds the index from
the key files. The server turns requests of its connections into engine calls, and
lets a pull that misses memory wait for the disk while it serves others.

## Modules

* `GravelKV` is what the API promises: a map that one put or delete at a time
  changes.
* `Engine` is the implementation. Its variables keep the names of the C fields
  (`index`, `bump_ptr`, `free_list`, `key_buf`, `resident`/`write_buf`,
  `data_file`, `key_file`, `active`/`ckpt`, `overlay`, `tombstones`, and the
  `CkptProgress` fields). Each API call is one action, because the engine is
  single threaded and no call yields. `written` and `stale` are history
  variables: the last acknowledged value of each feature, and the pages of the
  file that differ from what was last dumped of them.

  | Action | Code |
  |---|---|
  | `PutOverlay`, `PutBusy`, `PutBuffered` | `graveldb_batch_put` with the three outcomes of `dimbin_put_batch` |
  | `DeleteNow`, `DeleteTombstone` | `graveldb_batch_delete` outside and inside a checkpoint |
  | `Flush` | `graveldb_flush` |
  | `StepBegin`, `StepNextPhase`, `StepDump`, `StepSkip`, `StepFinish` | the cases of `graveldb_checkpoint_step` |
  | `Checkpoint` | `graveldb_checkpoint` |

  When the arena of the key B-tree fills up depends on the history of
  insertions; the model lets it be full at any insertion (`full`, `cut`).
* `ProbeTable` holds the open addressing and incremental rehash that
  `hash_index.c` and `overlay.c` both implement; `HashIndex` and `OverlayTable`
  use it. A call that has several outcomes in C has one here; operators such as
  `RehashStep` return the set of that one outcome so that TLC evaluates it once.
* `Export` is the pipeline of `graveldb_ckpt_export_step` over one bin in
  checkpoint mode: a batch of keys is read (`SubmitFull`, `SubmitDelta`), the
  owned slots are coalesced into reads of embeddings (`ScanKeys`), the pairs are
  written to the dump (`Output`). A context is a record with the fields of
  `GravelDBCkptExport`; a delta may have a full export paired with it. Reads
  complete between two calls (`ReadArrives`), and puts and key flushes happen
  between any two steps (`LatePut`, `FlushKeys`). An embedding is named by its
  slot, which `FrozenTheorem` justifies: the data file does not change meanwhile.
* `Import` extends it with `graveldb_ckpt_import_step` loading the finished dumps,
  in any order, into an empty replica. Writes land in any order (`WriteLands`).
  `promised` is a history variable: what `graveldb_ckpt_parse` finds in the
  dumps loaded so far.
* `Store` is a database with its files over several sessions. Where `Engine` has
  every buffer limit and checkpoint phase of one bin, `Store` has what spans bins
  and processes: `FlushSubmit`, `WriteLands`, `PollAgain` and `PollDone` for the
  asynchronous flush, `GetSubmit`, `GetLands` and `GetDone` for the asynchronous
  get, `Close`, `Crash` and `Open`. `Crash(K, P)` ends the process with the keys K
  and the pages P of a flush written, as `dimbin_flush` orders them: the keys of a
  bin in slot order, before its pages. `Rebuilt` is `rebuild_index_from_keys` as a
  recursive function over the slots. The history variables `expect` and `durable` hold what a read must
  return now and after a crash; `Unsure` claims nothing.
* `Scheduler` is `ckpt_scheduler_tick` and what it calls. Pages hold version
  numbers, so that "at least as new" can be stated. The tick splits into
  `TickCheckpoint`, `TickFlush` and `TickFails`; a checkpoint then takes the steps
  `OpenDelta`, `WriteDelta`, `PersistMeta`, `DumpFull`, `PurgeDeltas`, once per
  bin each, and a crash may come before any of them. `RequestCooled` and
  `RequestJoins` are the outcomes of `ckpt_scheduler_request_full`; `Recover` is
  `ckpt_recover`. Clocks are differences of times, because that is all the code
  compares.
* `Server` has one action per piece of a loop that no other thread or client can
  split: the head of the loop (`Top`), one waiting pull resumed (`ResumeConn`),
  the poller (`Wait`), one event (`ServeConn`, `AcceptConn`, `NotifyConns`), the
  end (`Exit`, `Stop`, `Stopped`). `server_loop` and `read_worker_loop` share
  these. `readonly_accept_loop` waits for a connection (`AcceptReady`) and hands
  it over (`Distribute`), also when the server is to stop in between: the write
  to the pipe of a worker that has exited fails. What a handler does to a connection is the set of its outcomes
  (`Serve`, `Resume`), composed of `ReadSocket`, `ProcessMessages`, `FlushSend`
  and `ChunksDone`, in the order of the calls in C. Responses are sequences of
  numbered chunks. Clients connect, pipeline requests, read slowly or hang up.
* `EngineProofs` holds the theorems about `Engine`, `SchedulerProofs` those about
  `Scheduler`, `StoreProofs` those about `Store`, `ServerProofs` and `OrderProofs`
  (responses) those about `Server`, `ExportProofs` and `ImportProofs` those about
  `Export` and `Import`. `ScanProofs` has what these two share: lemmas about the loops
  of an export, and its invariant.
* `MCEngine`, `MCHashIndex`, `MCOverlayTable`, `MCImport`, `MCStore`, `MCScheduler`,
  `MCServer` and the `.cfg` files are the instances for TLC. Operators described as a faulty variant are used by nothing:
  each is a plausible error in the definition that follows it, and putting it in
  that definition's place makes TLC report the property that guards against it.

Scope of `Engine`: one bin; batches of one feature; no I/O errors except a delta
file that cannot be started (`DeltaMayFail`); the page size is a multiple of the
entry size; the write buffer is configured with at most
`GRAVELDB_MAX_FLUSH_BATCH` pages (the default configuration has exactly that
many) and a replayed overlay has at most `OVERLAY_REPLAY_CHUNK` values; callers use
one checkpoint interface at a time. The hash tables are
maps in `Engine`: `HashIndex` says when that is justified, `hash_rehash` and
`overlay_rehash` when it is not. The asynchronous flush, which also lowers the flag of
`WatermarkRaised`, is in `Store`.

Scope of `Export` and `Import`: I/O succeeds; the export is begun in checkpoint mode, as
`graveldb.h` requires; the replica is empty and has no other writers; the host
polls between two import steps, as `example/replica` does.

Scope of `Store`: a page holds one slot; the write and key buffers are not at their
limits; no checkpoint is in progress between two calls; one flush and one get in
flight, and no synchronous flush during an asynchronous one; I/O succeeds. A crash
is the end of the process, not of the machine: what was written stays.

Scope of `Scheduler`: files can be created and written, and the flush a checkpoint
begins with succeeds; the flushes of a tick may fail. All checkpoints go through the
scheduler. `graveldb_checkpoint` alone persists no `.meta` file. A bin is the content of
its pages: the allocation mark that `ckpt_replay_delta` raises is not modelled.

Scope of `Server`: whole messages (a partial one is one that arrives later);
allocations succeed; no pipe is full; the epoll variant of the poller. The counters
`num_clients` are left out: the code reads them nowhere.

## What is checked

| Run | Shows |
|---|---|
| `engine_aligned` | One slot per page, one page buffered: `ImplementsKV`, `AckedReadable`, `NoPhantom`, `CheckpointMode`, `FrozenDuringCheckpoint`, `WatermarkRaised`, `DeltaChainComplete` |
| `engine_packed` | Three slots per page, overlay budget of one entry, failing delta files: `NoForeignRead`, `SlotPartition`, `KeysNameOwners` |
| `hash` | Any collisions with growth completed by one batch, and features without a shared home slot with growth over many calls: the index is a map, one copy per feature, exact count, probes stop |
| `transfer` | Every bin of at most five slots, with full, delta and paired exports and late puts: `SnapshotExact`, `EachSlotOnce`, `FullComplete`, `DeltaComplete`, `ExportFinishes`; and the import: `ReplicaReads`, `ReplicaReopens` |
| `store` | One bin of two slots and two bins of one, three sessions, with and without io_uring: `ExpectedRead`, `SlotsOwnedOnce`, `GetInWindow` |
| `scheduler` | A configured bin and one created later, two sessions: `ChainRestores`, `RecoverKeepsCheckpoint`, `WaitersServedTogether`, `FullServed` |
| `server` | Two clients, read-write mode, and read-only mode with its accept loop and two read workers: `ResponsesInOrder`, `StopClean`, `AllAnswered`, `StopReturns` |

`DeltaComplete` is stated for batches of whole pages and dirty pages without a
gap. Elsewhere the range of a step is longer than a batch, `export_step_single`
cuts it, and the slots behind the cut are not dumped.

`ExpectedRead` excepts two cases, which the code does not handle. A put during an
asynchronous flush is lost when that flush completes (`store_late_put`). After a
crash two slots may carry the key of one feature: in one bin the later slot wins
and the other stays allocated without owner, and brings the feature back after a
delete and a reopen; in two bins both are discarded. Nor is anything claimed of a
feature put since the last completed flush: keys are written first, so a slot may
name its new owner over the old one's value. `GetInWindow` excepts a feature
deleted while its get is in flight: its slot may be reused.

`ChainRestores` counts full dumps made since the open, and it and
`RecoverKeepsCheckpoint` are about configured bins: see below.

Five runs expect a violation. Each states what a comment, a header or a test
says, and TLC shows a behaviour of the code that contradicts it:

| Run | Disagreement |
|---|---|
| `engine_tail_page` | `write_buf_ensure_page` takes a partly filled last page for a virgin one; with three or more slots per page, committed values become zero bytes |
| `hash_rehash` | A migrated slot cuts the probe chain of the old table; a stored key behind it is not found |
| `overlay_rehash` | The overlay migrates the same way: a put misses the value of its slot in the old table and inserts a second one, and the replay at the end of the checkpoint writes the older value last |
| `store_late_put` | `graveldb_flush_poll` drops every page resident when the I/O completes, also those written after the submit |
| `server_arena` | `client_flush_send` resets the arena of a connection while a streaming pull has its state in it |

Other disagreements, which the modules show under other constants or by
reading:

* `tests/test_api.c:80` says "Missing key returns NOT_FOUND, not OK with garbage
  data"; a put refused with `GRAVELDB_ERR_BUSY` leaves its feature indexed, and a get
  then finds what the slot held. `NoPhantom` fails with `OverlayBudget` 1.
* `graveldb.h:142` calls `graveldb_checkpoint` "Safe to call at any time"; during
  an incremental checkpoint it initialises the overlay anew, and what is in it is
  lost. `AckedReadable` fails if `Checkpoint` is enabled in every phase.
* `graveldb.h:159` promises exports "snapshot-at-the-beginning" isolation; an export reads the live key file, so that a
  feature put after the checkpoint began is dumped with what its slot held before.
* `graveldb.c:288` says that after a reopen "downstream detects generation gap"; the
  generations go on without a gap, while pages changed after the last checkpoint
  are in no later delta. `ChainRestores` fails if dumps of earlier sessions count.
* A bin created by a put starts at generation 0 even if it has a `.meta` file, and
  its new deltas replace old ones. `RecoverKeepsCheckpoint` fails for such bins.
* `graveldb.h:118` says that cancelling a get releases it without waiting; it waits.

### Bounds

`MaxEntries` bounds the slots; two or three are enough for a slot to be freed,
recycled for another feature and to share its page with a live neighbour. Two
features contend for them. `MaxPages` of 1 makes every second page miss an
eviction. Larger instances (three slots, two buffered pages) were explored while the
proofs were written; the theorems cover all. `StepPages` is 1, so that a dump takes several calls.
Features and embeddings are symmetric in every definition, and the sets of both
are declared symmetric; the hash runs quantify over all hash functions, which
permutations of the features map to one another. In the table runs four keys over
capacities 2, 4 and 8 give growths during which entries are updated and removed
in either table. A batch of 1 spreads a growth over several calls, as batches of 16
entries do in every larger table of the code; in `hash` a batch of 3 also
lets one call complete a growth.

In `transfer` five slots of two per page are three pages, the last one partly
filled, and a batch is four slots: dirty sets with and without gaps, scans of one
and of two batches, batches without owners. One slot is taken late (`MaxLate`).
Features have no order, so a first key is named before a second (`MCInit`).
Import batches of two make a dump end inside a batch and at its end. Deadlock is not
checked there, because a transfer ends; nor in `store`, `scheduler` and `server`,
which end with the last session, the last checkpoint or the stop.

In `store` two slots and two features are enough for a slot to change owners
across a crash, in one bin and between two; `MaxOpens` of 3 lets a second crash
meet what the first left. Gets are submitted in the first session only
(`GetOpens`), since no get outlives a session. A layout of three slots in two
bins was explored partly, to depth 18, without a violation.

In `scheduler` flushes are due every unit of time and checkpoints every second one;
the host uses its requests in turn. Two checkpoints per bin (`MaxGen`) let a second one follow a full dump (one delta above it), and two opens let a session start on what a
crash left. Requests are joined only while a checkpoint is left to serve them,
so that the bound does not decide `FullServed`.

In `server` the scripts of `TwoClients` are the requests; `Chunks` of 2 lets a pull
wait in the first and in the second chunk, `RecvCap` of 2 lets a pipeline fill the
receive buffer, and one slot for two clients fills the table of connections.
In read-only mode the two connections go to different workers, and one slot each is
enough (`MCInit`).

`StopClean` excepts connections in the pipe of a worker that exits: their
descriptors are never closed. What is flushed asynchronously during the stop is a
matter of `Store`.

### Fairness

* `ExportFinishes`: the host calls `export_step` until it returns `GRAVELDB_OK` and
  then `export_end`, as `example/replica/replica.c` does, and the kernel completes
  the reads it was given. Of two exports that wait at once, either may
  be served first.
* `FullServed`: time passes, the host's loop keeps calling `ckpt_scheduler_tick`, a
  call that has begun runs to its end, and not every flush fails.
* `AllAnswered` and `StopReturns`: the threads of the server run, the kernel completes reads and
  writes, and clients read what was sent to them. Clients need not send, and may
  hang up.

## What is proved

`EngineProofs` proves, for any set of features and embeddings, number of slots,
page geometry, buffer size, overlay budget and step size that satisfy
`ConstantsAssumption`:

* `TypeCorrect`, `CheckpointModeInvariant`, `SlotPartitionInvariant`,
  `KeysNameOwnersInvariant`, `FrozenTheorem`, `WatermarkInvariant`,
  `OverlayBelowInvariant` and `NoForeignReadInvariant` without further
  assumptions;
* `AckedReadableInvariant` for one or two slots per page: with three or more it is
  false (`engine_tail_page`);
* `NoPhantomInvariant` for an unlimited overlay (with a budget it is false);
* `DeltaChainInvariant` when delta files can be started and a scan returns all
  marked pages. The scan drops pages beyond `MaxDirty` (`GRAVELDB_MAX_DIRTY`): a
  bin that outgrows it is outside the theorem;
* `Refinement`: under the assumptions of both `AckedReadableInvariant` and
  `NoPhantomInvariant` the engine implements `GravelKV`.

`SchedulerProofs` proves, for any number of bins, pages, requests,
checkpoints and sessions, and any intervals, that satisfy `SchedulerAssumption`:

* `SchedulerTypeOK`: types;
* `RecoverInvHolds` and `RecoverKeepsCheckpointHolds`: whenever the process crashes,
  recovery does not lose the last checkpoint;
* `WaitersServed`: the waiters of a full checkpoint are answered together, after the
  dumps;
* `ChainRestoresHolds`: the newest full dump of the session and the deltas above it
  restore the last checkpoint, whatever was purged.

`StoreProofs` proves, for any features, values, layouts of slots in bins and number of
sessions that satisfy `StoreAssumption`:

* `StoreTypeOK` and `StoreSlotsOwnedOnce`: a slot has one owner or is free, after any
  crash and rebuild of the index;
* `StoreExpectedRead`: a get returns what the last put or delete left, through
  asynchronous flushes, crashes anywhere in a flush, and reopening, with the two
  exceptions above;
* `StoreGetInWindow`: an asynchronous get delivers a value its feature had between
  submit and poll.

`ServerProofs` and `OrderProofs` prove, for any clients, read workers, slots, requests
and chunks that satisfy `ServerAssumption`:

* `ServerTypeOK`: no thread has more connections than slots, no receive buffer more
  requests than it has room for, and only pulls wait for the disk;
* `StopCleanHolds`: after the stop nothing is open, in flight or unsaved, and every
  connection that came up is closed or in the pipe of a worker;
* `OrderInvHolds` and `ResponsesInOrderHolds`: a client reads the responses to its
  requests in the order of the requests, each whole, none twice.

`ExportProofs` and `ImportProofs` prove, for any features, slots, sets of dirty pages,
page, export and import batch sizes and number of late puts that satisfy
`ExportAssumption` and `ImportAssumption`:

* `ExportTypes`: a batch fits its buffers and stays below the allocation mark that the
  export began with;
* `SnapshotExactHolds`, `EachSlotOnceHolds`, `FullCompleteHolds` and
  `DeltaCompleteHolds`: a dump holds what the bin held when the checkpoint began, each
  slot once and under its owner of that time; a finished one holds all of it, or all of
  the dirty pages under the conditions that `DeltaComplete` states;
* `ReplicaReadsHolds`: a replica that has loaded dumps reads what they say;
* `ReplicaReopensHolds`: it would read the same after its index is rebuilt.

The assumptions of these theorems say that constants which stand for no value
(`None`, `NoFeat`, `Header`, `Trailer`) are none of the values they stand beside. TLC
evaluates them.

The argument for `Engine`. `SlotPartition` is inductive given the types: a put moves a slot
from the free list (or from above `bump_ptr`) to a feature, a delete moves it to
the free list or to the tombstones, the end of a checkpoint moves the tombstones
to the free list. `KeysNameOwners` is inductive given the partition: what counts
is the effective key of a slot, the buffered one if any, and flushing the buffer
at any moment does not change it (`BufKeyEffect`, `WriteBackKeys`).
`DeltaChainComplete` needs the strengthening `DeltaInv`: every buffered page is
in the active dirty set, because a later flush changes the file without marking.

The read theorems rest on one lemma, `StepOutcome`: every step either makes one
feature read the value just put and leaves all others as they were, or refuses a
put, or unindexes one feature, or changes no read at all, where "as they were"
is exact for one or two slots per page and up to zero bytes otherwise. Its page
part is `LoadSettles`: a page brought back into the buffer holds the file's
values, or zero bytes if it is the last, partly filled page; and with two slots
per page a live neighbour on such a page cannot exist (`TailPage`), because
`bump_ptr` has already been advanced past the slot being written.
`OverlayBelow` carries this through the replay, where the slots
written were allocated earlier. From `StepOutcome`, the read invariants and the
refinement each follow in a few steps.

The argument for `Scheduler`. `RecoverKeepsCheckpoint` is not inductive: it says
nothing of the generations. `RecoverInv` adds that the generation of a bin runs
ahead of its `.meta` file by one exactly from the beginning of a checkpoint until
the file is renamed (`GenerationAhead`), so that at most one delta file is newer
than the `.meta` file, and that what this file holds is not older than the last
checkpoint, nor is the data file (`OneNewDelta`, `FileCurrent`). A session that
starts after a crash reuses the generation and first empties the file. With one
candidate, replaying "in order" is taking it (`RecoveredIs`). `WaitInv` says that
the list of waiters is the set of unanswered requests, that nothing is buffered
while a checkpoint is written, and that the bins before `cur` have been dumped.

For `ChainRestores`, `ChainInv` adds to these that no delta file is above the bin's
generation once a delta of this session is complete (`NoStaleFile`), that a page which
differs from the last complete delta is in a dirty set (`ChangesTracked`), and that the
dump lies between the purged generations and the next delta (`ChainWhole`). A replay
takes the page from the last delta that has it (`GreatestMember`), so a new delta
changes the pages it has and no other.

The argument for `Store`. The index after an open is a recursive function over the
slots. `StoreProofs` derives induction over an interval from the well-foundedness of
`<` (`SetInduction`) and with it what the scan has done up to slot n: a feature named
once is indexed there, one named twice in a bin is indexed at the later slot, one named
in two bins is nowhere, and the free list has each slot of a discarded key once.
`Ownership` is `SlotsOwnedOnce` and what it needs while the process is down: slots
above `bump_ptr` have no key, and files of unreserved bins are empty. `Reads` joins
`ExpectedRead` with where the value is: `DurableOK` (a value that must survive a crash
is in the files, and its key is written nowhere else), `HeldOK` and `Landing` (during a
flush each value is in the file, or its write is queued), `OnDisk` (while the process is
down the files alone say what a read will return). `GetOK` ties a get in flight to a
slot that still holds its feature.

The argument for `Server`. Each of the operators that make up an outcome keeps the
types of the connection, its thread and that it is open (`Fits`). `ServerInv` then says
what a thread may rely on when it comes back to a list made earlier in its round
(`Round`): every connection in it is still open and its own, has at most one event, and
if it is to be resumed, a pull in progress. Only the thread itself closes its
connections. A connection that waits to be admitted is in one queue (`Queues`) and is
not lost from it (`Queued`), so that `AdmitStep` seats it once, in a free slot, and
`Distribute` moves it to the pipe of one worker or closes it. `Seated` says that a thread
has no more connections than slots and that a worker that has exited has none; `Ends`,
that the backlog is empty when the stop returns. `StopClean` follows from these.

`ResponsesInOrder` speaks of what was sent only. `OrderInv` follows the requests as
well: for each connection, the received ones and those still on the way are the part of
the client's script after the requests begun, and what was delivered and queued is the
responses to the answered ones and the part of the pull in progress (`InOrder`). The
operators of a handler each take such a connection to such a connection; the loop over
the received requests (`ProcessMessages`) is a recursive function, and induction over
it is again derived from the well-foundedness of `<` (`NumberInduction`). A closed
connection keeps only what its client has read (`Delivered`), a prefix.

The argument for `Export`. The loops of an export are recursive functions; induction
gives what they return for any input. The slots of a batch that have an owner are listed in order (`KeptPlaces`,
`OwnedListed`), the runs they are coalesced into cover each of them once
(`CoalescedCovers`), and the dirty pages of a step span a range that ends before the
next page begins (`DeltaSpan`) and, without gaps, fits a batch (`DeltaFits`). A context
is `Sound` if its dump holds a header and pairs in ascending order of slots, all below
the point the scan has reached (`Written`), and none that is due below that point is
missing (`Complete`); and if its buffers hold what its phase says (`Batched`): after the
keys are read, the key of a slot of the snapshot is its owner, because late puts take
other slots (`BinInv`). Each phase of `export_step_single`, and each completion, takes a
sound context to a sound one (`StepSound`, `ArrivedSound`). Ascending order gives
`EachSlotOnce`; where the scan is over, `Complete` gives the last two theorems.

The argument for `Import`. `ReplicaReads` speaks of the time between imports only.
`ImportInv` follows a dump while it is loaded: entry i of it has the slot `First + i - 2`
(`First` is the allocation mark when the import began), the feature's slot is that of its
last entry taken (`SlotsInv`), and each slot holds its embedding or a write is under way
from a buffer that still holds it (`WritesInv`), which is where it matters that the host
polls before the next step. Pairs are in ascending order, so a dump has at most
`MaxEntries` (`DumpFits`) and there is room for two (`RoomInv`). Once the trailers are
written no step of an export is enabled (`EndedStops`), so the dumps do not change.

Only model-checked: everything about the hash tables (their operators are
`RECURSIVE`, over tables of any size, which the prover cannot reason about), all
liveness properties (`ExportFinishes`, `FullServed`, `AllAnswered`: fairness is out of
the prover's reach), and the properties in the runs that expect a violation.

## Not modelled

* Several bins in one incremental checkpoint, and bins created during it
  (`graveldb.c:1336`): the product of two `Engine` bins with their buffers is out of
  TLC's reach. `Scheduler` has several bins, with the checkpoint as a sequence of
  whole dumps.
* I/O errors of exports, imports, key files and opens; the results of a short
  read (`checkpoint.c:1008`). Failed allocations anywhere.
* A close during an incremental checkpoint (`graveldb.c:330`), and the ring that a
  synchronous flush resets while an asynchronous one uses it (`graveldb.c:854`).
  Page buffers that are recycled while queued writes point to them have no
  counterpart: pages have no addresses in the models.
* A loss of power: of the writes since the last `fdatasync` any subset may survive.
  A crash in the models ends the process only.
* The segmented radix tree of the dirty tracker and the key B-tree, which are used
  as a set and a map; trees of the heights where their edge cases lie have hundreds
  of keys (`key_btree.h:63`). `DimRegistry` numbers the bins and never removes one;
  the slab allocator manages memory.
* Byte layouts, checksums (written, and never verified by a reader of deltas) and
  the wire format: formatting.
* The server's kqueue and poll variants, a read-only server without workers, what a
  response contains after its arena was reset, and connections that wait in a
  worker's pipe at the stop (they are never closed).
* Language bindings and benchmarks: wrappers over the calls above in other runtimes.
