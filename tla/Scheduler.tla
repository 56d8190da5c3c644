----------------------------- MODULE Scheduler -----------------------------
(***************************************************************************)
(* The checkpoint scheduler and the files it writes: delta files, full     *)
(* dumps and .meta files, over crashes, closes and reopens.                *)
(*                                                                         *)
(* A page holds a version number; later writes have higher numbers.  What  *)
(* a checkpoint does to one bin is the Engine module's matter: here a call *)
(* of graveldb_checkpoint flushes, freezes the dirty sets and writes one   *)
(* delta file per bin.  The calls of a forced checkpoint are single steps, *)
(* so that a crash can come between any two of them; no other call of the  *)
(* single-threaded host does.  The host takes checkpoints through the      *)
(* scheduler only, and files can be created and written.                   *)
(*                                                                         *)
(* All times are compared by their difference: a clock is the time that    *)
(* has passed since the event, capped where no comparison tells more.      *)
(***************************************************************************)
EXTENDS Integers, FiniteSets

CONSTANTS
  NumBins,        \* bins by registry index, 1 .. NumBins
  NumConfigured,  \* of these, the ones in the configuration; the others are created by a put
  Pages,          \* pages of a bin
  Requests,       \* the host's CkptFullResponse structures, numbered
  None, Waiting,  \* no request or dump; a request not answered yet
  FlushInterval,  \* flush_interval_ms
  CkptInterval,   \* checkpoint_interval_s
  Cooldown,       \* full_cooldown_ms
  MaxVersion,     \* bound on the writes to a page of a configured bin
  MaxLateVersion, \* bound on the writes to a page of another bin
  MaxGen,         \* bound on the checkpoints of a bin
  MaxOpens        \* bound on the times the database is opened

ASSUME SchedulerAssumption ==
  /\ NumBins \in Nat \ {0} /\ NumConfigured \in 1 .. NumBins
  /\ {FlushInterval, CkptInterval, Cooldown} \subseteq Nat \ {0}
  /\ {MaxVersion, MaxLateVersion, MaxGen, MaxOpens} \subseteq Nat \ {0}
  /\ None \notin Nat /\ Waiting \notin Nat /\ None # Waiting

ASSUME RequestsAssumption == Requests \subseteq Nat

VARIABLES
  open,                  \* the process runs and has the database open
  opens,                 \* bound: how often it was opened
  num_bins,              \* dim_registry_count
  mem,                   \* what reads see: write buffer over data file
  file,                  \* the .bin files
  active, frozen,        \* the two dirty sets of each bin
  generation,            \* DirtyTracker.generation of each bin
  current_epoch,         \* GravelDB.current_epoch
  deltas,                \* the delta files of a bin by generation
  full,                  \* the newest full dump of a bin
  meta,                  \* generation in the .meta file (0: no such file)
  at, cur,               \* the step of the call in progress, and its bin
  by_tick,               \* that call was made by ckpt_scheduler_tick
  since_flush,           \* now - last_flush_ms
  since_ckpt,            \* now - last_checkpoint_ms
  full_age,              \* last_checkpoint_ms - last_full_time_ms
  ckpt_timed,            \* last_checkpoint_ms > 0
  full_timed,            \* last_full_time_ms > 0
  full_pending,
  last_full_generation,
  waiters,               \* the list full_waiters
  response,              \* None, Waiting or the checkpoint_id received
  snap                   \* history: the data file at the last complete delta of a bin

dataVars  == <<mem, file, active, frozen>>
diskVars  == <<deltas, full, meta>>
clockVars == <<since_flush, since_ckpt, full_age, ckpt_timed, full_timed>>
fullVars  == <<full_pending, last_full_generation, waiters, response>>
procVars  == <<open, opens, num_bins>>
vars == <<procVars, dataVars, generation, current_epoch, diskVars, at, cur, by_tick,
          clockVars, fullVars, snap>>

Bins == 1 .. NumBins

Fresh == [p \in Pages |-> 0]

Least(t, u) == IF t < u THEN t ELSE u

\* How far the clock of checkpoints counts: beyond it every comparison has
\* been decided.
Cap == IF CkptInterval > Cooldown THEN CkptInterval ELSE Cooldown

\* ckpt_scheduler_init: the last times are 0, and the host's clock may stand
\* near it or far from it.
SchedulerInit ==
  /\ since_ckpt \in {0, Cap} /\ since_flush = Least(since_ckpt, FlushInterval) /\ full_age = 0
  /\ ckpt_timed = FALSE /\ full_timed = FALSE
  /\ full_pending = FALSE
  /\ last_full_generation = 0
  /\ waiters = {}
  /\ response = [r \in Requests |-> None]

Init ==
  /\ open = TRUE /\ opens = 1 /\ num_bins = NumConfigured
  /\ mem = [b \in Bins |-> Fresh] /\ file = mem
  /\ active = [b \in Bins |-> {}] /\ frozen = active
  /\ generation = [b \in Bins |-> 0]
  /\ current_epoch = 0
  /\ deltas = [b \in Bins |-> <<>>]
  /\ full = [b \in Bins |-> None]
  /\ meta = [b \in Bins |-> 0]
  /\ at = "idle" /\ cur = 1 /\ by_tick = FALSE
  /\ SchedulerInit
  /\ snap = mem
-----------------------------------------------------------------------------
(* Delta files: a delta maps the pages it holds to their content. *)

\* Faulty variant: the file is named after the generation before.
WithFileEarlier(files, g, content) ==
  [h \in DOMAIN files \cup {g - 1} |-> IF h = g - 1 THEN content ELSE files[h]]

\* A file written under generation g replaces what was there.
WithFile(files, g, content) ==
  [h \in DOMAIN files \cup {g} |-> IF h = g THEN content ELSE files[h]]

\* ckpt_replay_delta, applied to the data file's content.
ReplayDelta(delta, data) == [p \in Pages |-> IF p \in DOMAIN delta THEN delta[p] ELSE data[p]]

\* ckpt_list_deltas sorts the files by generation: after replaying those
\* above base in that order, a page has the content of the last that holds it.
Replayed(files, base, data) ==
  LET Holding(p) == {g \in DOMAIN files : g > base /\ p \in DOMAIN files[g]}
      Last(p)    == CHOOSE g \in Holding(p) : \A h \in Holding(p) : h <= g
  IN [p \in Pages |-> IF Holding(p) = {} THEN data[p]
                      ELSE ReplayDelta(files[Last(p)], data)[p]]

\* Faulty variant: the .meta file is not consulted.
RecoveredAll(b) == Replayed(deltas[b], 0, file[b])

\* ckpt_recover for one bin: the deltas above the generation of the .meta file.
Recovered(b) == Replayed(deltas[b], meta[b], file[b])

\* ckpt_purge_old_deltas.
KeptDeltas(files, last) == [g \in {h \in DOMAIN files : h > last} |-> files[g]]
-----------------------------------------------------------------------------
(* The host and the clock. *)

Idle == open /\ at = "idle"

\* The bound on the writes to a page of the bin.
Limit(b) == IF b <= NumConfigured THEN MaxVersion ELSE MaxLateVersion

\* graveldb_batch_put to a page; a put of a new dimension creates its bin.
Put(b, p) ==
  /\ Idle
  /\ b <= num_bins + 1
  /\ mem[b][p] < Limit(b)
  /\ num_bins' = IF b > num_bins THEN b ELSE num_bins
  /\ mem' = [mem EXCEPT ![b][p] = @ + 1]
  /\ active' = [active EXCEPT ![b] = @ \cup {p}]
  /\ UNCHANGED <<open, opens, file, frozen, generation, current_epoch, diskVars, at, cur,
                 by_tick, clockVars, fullVars, snap>>

TimePasses ==
  /\ Idle
  /\ since_flush < FlushInterval \/ since_ckpt < Cap
  /\ since_flush' = Least(since_flush + 1, FlushInterval)
  /\ since_ckpt' = Least(since_ckpt + 1, Cap)
  /\ UNCHANGED <<procVars, dataVars, generation, current_epoch, diskVars, at, cur, by_tick,
                 full_age, ckpt_timed, full_timed, fullVars, snap>>

\* The bound on checkpoints is not reached.
CheckpointsLeft == \A b \in 1 .. num_bins : generation[b] < MaxGen

\* The host uses its structures in turn, each once.
Unused(r) == response[r] = None /\ \A q \in Requests : q < r => response[q] # None

\* ckpt_scheduler_request_full within the cooldown: answered at once.  Its
\* idea of now is the time of the last checkpoint.
RequestCooled(r) ==
  /\ Idle /\ Unused(r)
  /\ full_timed /\ full_age < Cooldown
  /\ response' = [response EXCEPT ![r] = last_full_generation]
  /\ UNCHANGED <<procVars, dataVars, generation, current_epoch, diskVars, at, cur, by_tick,
                 clockVars, full_pending, last_full_generation, waiters, snap>>

\* Faulty variant: the request does not make the next checkpoint a full one.
RequestJoinsQuietly(r) ==
  /\ Idle /\ Unused(r) /\ CheckpointsLeft
  /\ ~(full_timed /\ full_age < Cooldown)
  /\ response' = [response EXCEPT ![r] = Waiting]
  /\ waiters' = waiters \cup {r}
  /\ UNCHANGED <<procVars, dataVars, generation, current_epoch, diskVars, at, cur, by_tick,
                 clockVars, full_pending, last_full_generation, snap>>

\* Otherwise the request joins the waiters of the next full checkpoint.
RequestJoins(r) ==
  /\ Idle /\ Unused(r) /\ CheckpointsLeft
  /\ ~(full_timed /\ full_age < Cooldown)
  /\ response' = [response EXCEPT ![r] = Waiting]
  /\ waiters' = waiters \cup {r}
  /\ full_pending' = TRUE
  /\ UNCHANGED <<procVars, dataVars, generation, current_epoch, diskVars, at, cur, by_tick,
                 clockVars, last_full_generation, snap>>

-----------------------------------------------------------------------------
(* Flushes and checkpoints. *)

Cells == Bins \X Pages

\* Pages whose newest content is in the write buffer only.
Unwritten == {c \in Cells : mem[c[1]][c[2]] # file[c[1]][c[2]]}

\* The data files once the buffered pages in landed were written and the
\* others were not.
Written(landed) == [b \in Bins |-> [p \in Pages |-> IF <<b, p>> \in landed THEN mem[b][p]
                                                    ELSE file[b][p]]]

\* graveldb_flush drops every buffered page, also those whose write failed.
WriteBack(landed) == file' = Written(landed) /\ mem' = file'

\* ckpt_scheduler_force_flush, with or without an I/O error.
ForceFlush ==
  /\ Idle
  /\ \E landed \in SUBSET Unwritten : WriteBack(landed)
  /\ UNCHANGED <<procVars, active, frozen, generation, current_epoch, diskVars, at,
                 cur, by_tick, clockVars, fullVars, snap>>

\* graveldb_checkpoint begins: every bin is flushed and its dirty set frozen.
BeginCheckpoint ==
  /\ CheckpointsLeft
  /\ WriteBack(Cells)
  /\ frozen' = [b \in Bins |-> IF b <= num_bins THEN active[b] ELSE frozen[b]]
  /\ active' = [b \in Bins |-> IF b <= num_bins THEN {} ELSE active[b]]
  /\ generation' = [b \in Bins |-> IF b <= num_bins THEN generation[b] + 1
                                                    ELSE generation[b]]
  /\ at' = "open_delta" /\ cur' = 1

\* ckpt_scheduler_force_checkpoint called by the host.
ForceCheckpoint ==
  /\ Idle
  /\ BeginCheckpoint
  /\ by_tick' = FALSE
  /\ UNCHANGED <<procVars, current_epoch, diskVars, clockVars, fullVars, snap>>

FlushDue == since_flush >= FlushInterval

CkptDue == since_ckpt >= CkptInterval

\* ckpt_scheduler_tick: the flush that is due succeeds, then the checkpoint.
TickCheckpoint ==
  /\ Idle /\ CkptDue
  /\ BeginCheckpoint
  /\ by_tick' = TRUE
  /\ since_flush' = IF FlushDue THEN 0 ELSE since_flush
  /\ UNCHANGED <<procVars, current_epoch, diskVars, since_ckpt, full_age, ckpt_timed,
                 full_timed, fullVars, snap>>

\* Only the flush is due.
TickFlush ==
  /\ Idle /\ FlushDue /\ ~CkptDue
  /\ WriteBack(Cells)
  /\ since_flush' = 0
  /\ UNCHANGED <<procVars, active, frozen, generation, current_epoch, diskVars, at, cur,
                 by_tick, since_ckpt, full_age, ckpt_timed, full_timed, fullVars, snap>>

\* The flush fails with an I/O error: the tick returns before it looks at the
\* checkpoint, and the next flush is due an interval later.
TickFails ==
  /\ Idle /\ FlushDue
  /\ \E landed \in SUBSET Unwritten : WriteBack(landed)
  /\ since_flush' = 0
  /\ UNCHANGED <<procVars, active, frozen, generation, current_epoch, diskVars, at, cur, by_tick,
                 since_ckpt, full_age, ckpt_timed, full_timed, fullVars, snap>>
-----------------------------------------------------------------------------
(* The rest of ckpt_scheduler_force_checkpoint, bin by bin. *)

\* The step after the current one: the same for the next bin, or the first
\* of the next loop.
Advance(next) == IF cur < num_bins THEN at' = at /\ cur' = cur + 1
                                   ELSE at' = next /\ cur' = 1

\* The delta file is created, or emptied when the name is taken.
OpenDelta ==
  /\ open /\ at = "open_delta"
  /\ deltas' = [deltas EXCEPT ![cur] = WithFile(@, generation[cur], <<>>)]
  /\ at' = "write_delta"
  /\ UNCHANGED <<procVars, dataVars, generation, current_epoch, full, meta, cur, by_tick,
                 clockVars, fullVars, snap>>

\* Faulty variant: the dump scans the dirty set that was just emptied.
DumpedDeltaActive(b) == [p \in active[b] |-> file[b][p]]

\* ckpt_dump_delta: the frozen pages, as the data file holds them.
DumpedDelta(b) == [p \in frozen[b] |-> file[b][p]]

\* The pages are written and num_entries is patched into the header, which
\* makes them count.  After the last bin the checkpoint ends.
WriteDelta ==
  /\ open /\ at = "write_delta"
  /\ deltas' = [deltas EXCEPT ![cur] = WithFile(@, generation[cur], DumpedDelta(cur))]
  /\ snap' = [snap EXCEPT ![cur] = file[cur]]
  /\ IF cur < num_bins THEN at' = "open_delta" /\ cur' = cur + 1 /\ UNCHANGED current_epoch
                       ELSE at' = "meta" /\ cur' = 1 /\ current_epoch' = current_epoch + 1
  /\ UNCHANGED <<procVars, dataVars, generation, full, meta, by_tick, clockVars, fullVars>>

\* The call returns; a tick then takes the time of its checkpoint.
Return ==
  IF by_tick
  THEN /\ since_ckpt' = 0 /\ ckpt_timed' = TRUE
       /\ full_age' = IF full_timed THEN Least(full_age + since_ckpt, Cooldown) ELSE 0
       /\ UNCHANGED <<since_flush, full_timed>>
  ELSE UNCHANGED clockVars

\* ckpt_persist_meta renames a complete file into place: a crash leaves the
\* old one or the new one.
PersistMeta ==
  /\ open /\ at = "meta"
  /\ meta' = [meta EXCEPT ![cur] = generation[cur]]
  /\ Advance(IF full_pending THEN "full" ELSE "idle")
  /\ IF at' = "idle" THEN Return ELSE UNCHANGED clockVars
  /\ UNCHANGED <<procVars, dataVars, generation, current_epoch, deltas, full, by_tick,
                 fullVars, snap>>

\* Faulty variant: the request that arrived last is forgotten.
BroadcastFirst ==
  LET told == IF Cardinality(waiters) > 1 THEN waiters \ {CHOOSE r \in waiters : TRUE}
                                          ELSE waiters
  IN response' = [r \in Requests |-> IF r \in told THEN current_epoch ELSE response[r]]

\* Every waiter is told the id of the checkpoint.
Broadcast == response' = [r \in Requests |-> IF r \in waiters THEN current_epoch
                                                             ELSE response[r]]

\* ckpt_dump_full: a copy of the data file under the bin's generation.
DumpedFull(b) == [gen |-> generation[b], data |-> file[b]]

\* After the last bin the full checkpoint is complete.
DumpFull ==
  /\ open /\ at = "full"
  /\ full' = [full EXCEPT ![cur] = DumpedFull(cur)]
  /\ Advance("purge")
  /\ IF at' = "purge"
     THEN /\ last_full_generation' = current_epoch
          /\ full_age' = 0 /\ full_timed' = ckpt_timed
          /\ full_pending' = FALSE
          /\ Broadcast
          /\ waiters' = {}
          /\ UNCHANGED <<since_flush, since_ckpt, ckpt_timed>>
     ELSE UNCHANGED <<clockVars, fullVars>>
  /\ UNCHANGED <<procVars, dataVars, generation, current_epoch, deltas, meta, by_tick, snap>>

\* ckpt_purge_old_deltas for one bin.
PurgeDeltas ==
  /\ open /\ at = "purge"
  /\ deltas' = [deltas EXCEPT ![cur] = KeptDeltas(@, last_full_generation)]
  /\ Advance("idle")
  /\ IF at' = "idle" THEN Return ELSE UNCHANGED clockVars
  /\ UNCHANGED <<procVars, dataVars, generation, current_epoch, full, meta, by_tick,
                 fullVars, snap>>
-----------------------------------------------------------------------------
(* Closing, crashing, opening, recovering. *)

\* The process ends with the pages in landed written back, and its memory is
\* gone.
Ends(landed) ==
  /\ open
  /\ open' = FALSE
  /\ WriteBack(landed)
  /\ at' = "idle" /\ cur' = 1 /\ by_tick' = FALSE
  /\ num_bins' = NumConfigured
  /\ active' = [b \in Bins |-> {}] /\ frozen' = active'
  /\ generation' = [b \in Bins |-> 0]
  /\ current_epoch' = 0
  /\ since_flush' = 0 /\ since_ckpt' = 0 /\ full_age' = 0
  /\ ckpt_timed' = FALSE /\ full_timed' = FALSE
  /\ full_pending' = FALSE /\ last_full_generation' = 0
  /\ waiters' = {} /\ response' = [r \in Requests |-> None]
  /\ UNCHANGED <<opens, diskVars, snap>>

\* graveldb_close.
Close == Idle /\ Ends(Cells)

\* A crash, possibly in the middle of a flush.
Crash == \E landed \in SUBSET Unwritten : Ends(landed)

\* graveldb_open and ckpt_scheduler_init: the dirty sets start empty, and the
\* generations of the configured bins come from the .meta files.  A bin that a
\* put will create starts at generation 0 whatever its .meta file says.
Open ==
  /\ ~open /\ opens < MaxOpens
  /\ open' = TRUE /\ opens' = opens + 1
  /\ generation' = [b \in Bins |-> IF b <= NumConfigured THEN meta[b] ELSE 0]
  /\ since_ckpt' \in {0, Cap} /\ since_flush' = Least(since_ckpt', FlushInterval)
  /\ UNCHANGED <<num_bins, dataVars, current_epoch, diskVars, at, cur, by_tick, full_age,
                 ckpt_timed, full_timed, fullVars, snap>>

\* ckpt_recover, called by the host at startup.  A bin is its pages here: the
\* allocation mark (bump_ptr) that a delta carries is left out.
Recover ==
  /\ Idle
  /\ current_epoch = 0 /\ mem = file
  /\ file' = [b \in Bins |-> IF b <= num_bins THEN Recovered(b) ELSE file[b]]
  /\ mem' = file'
  /\ UNCHANGED <<procVars, active, frozen, generation, current_epoch, diskVars, at, cur,
                 by_tick, clockVars, fullVars, snap>>
-----------------------------------------------------------------------------
Step == OpenDelta \/ WriteDelta \/ PersistMeta \/ DumpFull \/ PurgeDeltas

Tick == TickCheckpoint \/ TickFlush

Next ==
  \/ \E b \in Bins, p \in Pages : Put(b, p)
  \/ \E r \in Requests : RequestCooled(r) \/ RequestJoins(r)
  \/ TimePasses
  \/ ForceFlush \/ ForceCheckpoint
  \/ Tick \/ TickFails
  \/ Step
  \/ Close \/ Crash \/ Open \/ Recover

Spec == Init /\ [][Next]_vars

\* The host's loop goes on: time passes, it keeps calling tick, flushes do not
\* fail for ever, and a call that has begun runs to its end.
Fairness == WF_vars(TimePasses) /\ WF_vars(Tick) /\ WF_vars(Step)

FairSpec == Spec /\ Fairness
-----------------------------------------------------------------------------
(* Properties. *)

\* What the pages of a bin may hold.
Content(b) == [Pages -> 0 .. Limit(b)]

\* The types of the variables.
TypeOK ==
  /\ open \in BOOLEAN /\ opens \in 1 .. MaxOpens /\ num_bins \in 1 .. NumBins
  /\ DOMAIN mem = Bins /\ DOMAIN file = Bins /\ DOMAIN snap = Bins
  /\ \A b \in Bins : {mem[b], file[b], snap[b]} \subseteq Content(b)
  /\ active \in [Bins -> SUBSET Pages] /\ frozen \in [Bins -> SUBSET Pages]
  /\ generation \in [Bins -> 0 .. MaxGen] /\ meta \in [Bins -> 0 .. MaxGen]
  /\ current_epoch \in 0 .. MaxGen
  /\ \A b \in Bins : DOMAIN deltas[b] \subseteq 1 .. MaxGen
  /\ \A b \in Bins : full[b] = None \/ full[b] \in [gen : 1 .. MaxGen, data : Content(b)]
  /\ at \in {"idle", "open_delta", "write_delta", "meta", "full", "purge"}
  /\ cur \in Bins /\ by_tick \in BOOLEAN
  /\ since_flush \in 0 .. FlushInterval /\ since_ckpt \in 0 .. Cap /\ full_age \in 0 .. Cooldown
  /\ {ckpt_timed, full_timed, full_pending} \subseteq BOOLEAN
  /\ last_full_generation \in 0 .. MaxGen
  /\ waiters \subseteq Requests
  /\ response \in [Requests -> {None, Waiting} \cup 0 .. MaxGen]

\* The newest full dump of a configured bin and the deltas above it, replayed
\* in order, give the data file as it was at the bin's last complete delta,
\* also while the next delta is being written: no page change is missing, no
\* stale file of an earlier session is taken for a newer one, and the purge
\* removes nothing that is still needed.  Only a dump made since the database
\* was opened counts (ckpt_dump_delta, ckpt_dump_full, ckpt_purge_old_deltas,
\* ckpt_replay_delta).
ChainRestores ==
  \A b \in 1 .. NumConfigured :
    open /\ last_full_generation > 0 =>
      Replayed(deltas[b], full[b].gen, full[b].data) = snap[b]

\* Were the process to crash now, ckpt_recover at the next startup would leave
\* every page of a configured bin at least as new as the last checkpoint had
\* it, wherever in a checkpoint the crash came and however often the database
\* was reopened (ckpt_recover, ckpt_persist_meta, graveldb_open).
RecoverKeepsCheckpoint ==
  \A b \in 1 .. NumConfigured, p \in Pages : Recovered(b)[p] >= snap[b][p]

\* When the waiters of a full checkpoint are told, all of them are told the
\* same id, and the dump of every bin on disk has all that reads return: what
\* was acknowledged so far, less the pages a failing flush has dropped
\* (ckpt_scheduler_force_checkpoint, ckpt_dump_full, dimbin_flush).
WaitersServedTogether ==
  [][\A r \in Requests : response[r] = Waiting /\ response'[r] \in Nat =>
       /\ \A q \in waiters : response'[q] = response'[r]
       /\ \A b \in 1 .. num_bins : full'[b] = [gen |-> generation[b], data |-> mem[b]]]_vars

\* A request for a full checkpoint is answered, unless the process ends first:
\* neither the clocks nor the cooldown nor a failing flush now and then keeps
\* it waiting for ever (ckpt_scheduler_tick, ckpt_scheduler_request_full).
FullServed ==
  \A r \in Requests :
    response[r] = Waiting ~> response[r] # Waiting \/ ~open
=============================================================================
