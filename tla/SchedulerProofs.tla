-------------------------- MODULE SchedulerProofs ---------------------------
(***************************************************************************)
(* Proofs about the checkpoint scheduler, for any number of bins, pages,   *)
(* requests and sessions, and for any intervals.                           *)
(***************************************************************************)
EXTENDS Scheduler, WellFoundedInduction, TLAPS

Configured == 1 .. NumConfigured

\* What the other invariants need to know of the variables' types.
Typed ==
  /\ num_bins \in NumConfigured .. NumBins /\ cur \in 1 .. num_bins
  /\ DOMAIN mem = Bins /\ DOMAIN file = Bins /\ DOMAIN snap = Bins
  /\ \A b \in Configured : /\ mem[b] \in [Pages -> Nat]
                           /\ file[b] \in [Pages -> Nat]
                           /\ snap[b] \in [Pages -> Nat]
  /\ frozen \in [Bins -> SUBSET Pages] /\ active \in [Bins -> SUBSET Pages]
  /\ generation \in [Bins -> Nat] /\ meta \in [Bins -> Nat] /\ current_epoch \in Nat
  /\ DOMAIN deltas = Bins /\ DOMAIN full = Bins
  /\ last_full_generation \in Nat
  /\ waiters \subseteq Requests
  /\ response \in [Requests -> Nat \cup {None, Waiting}]
  /\ at \in {"idle", "open_delta", "write_delta", "meta", "full", "purge"}

\* The generation of a bin runs one ahead of its .meta file from the beginning
\* of a checkpoint until the file is written.
MetaDue(b) == at \in {"open_delta", "write_delta"} \/ (at = "meta" /\ b >= cur)

GenerationAhead ==
  /\ ~open => at = "idle"
  /\ open => \A b \in Configured : generation[b] = IF MetaDue(b) THEN meta[b] + 1 ELSE meta[b]

\* The data file is never behind the last checkpoint, nor ahead of memory.
FileCurrent ==
  \A b \in Configured, p \in Pages : snap[b][p] <= file[b][p] /\ file[b][p] <= mem[b][p]

\* At most one delta file is newer than the .meta file, and what it holds is
\* not older than the last checkpoint.
OneNewDelta ==
  \A b \in Configured : \A g \in DOMAIN deltas[b] :
    /\ g \in Nat /\ g <= meta[b] + 1
    /\ g = meta[b] + 1 => \A p \in Pages : p \in DOMAIN deltas[b][g] =>
                             deltas[b][g][p] \in Nat /\ deltas[b][g][p] >= snap[b][p]

\* The inductive invariant behind recovery.
RecoverInv == Typed /\ GenerationAhead /\ FileCurrent /\ OneNewDelta

\* What WaitersServedTogether needs: the list of waiters is the set of
\* unanswered requests, nothing is buffered while a checkpoint is written, and
\* the bins before cur have been dumped.
WaitInv ==
  /\ \A r \in Requests : response[r] = Waiting <=> r \in waiters
  /\ at # "idle" => mem = file
  /\ at = "full" => \A b \in 1 .. cur - 1 : full[b] = DumpedFull(b)
-----------------------------------------------------------------------------
\* The configured bins come first in the registry (graveldb_open).
LEMMA ConfiguredBins == Configured \subseteq Bins /\ Configured \subseteq 1 .. NumConfigured
BY SchedulerAssumption DEF Configured, Bins

\* A configured bin is a registered bin, and its counters are numbers.
LEMMA Numbers ==
  ASSUME Typed
  PROVE  /\ num_bins \in Nat /\ cur \in Nat /\ cur <= num_bins
         /\ \A b \in Configured : /\ b \in Nat /\ 1 <= b /\ b <= num_bins
                                  /\ generation[b] \in Nat /\ meta[b] \in Nat
BY SchedulerAssumption, ConfiguredBins DEF Typed, Configured

\* A data file after a flush that wrote some of the buffered pages
\* (graveldb_flush): every page has its old or its buffered content.
LEMMA WrittenType ==
  ASSUME Typed, NEW landed
  PROVE  /\ DOMAIN Written(landed) = Bins
         /\ \A b \in Configured : Written(landed)[b] \in [Pages -> Nat]
         /\ \A b \in Configured, p \in Pages :
              Written(landed)[b][p] \in {mem[b][p], file[b][p]}
BY ConfiguredBins, Zenon DEF Typed, Written

\* With at most one delta above the .meta file, ckpt_recover leaves a page as
\* it is in the data file or takes it from that delta.
LEMMA RecoveredIs ==
  ASSUME RecoverInv, NEW b \in Configured, NEW p \in Pages
  PROVE  /\ Recovered(b)[p] \in Nat
         /\ Recovered(b)[p] >= snap[b][p]
<1> DEFINE files == deltas[b]
           H == {g \in DOMAIN files : g > meta[b] /\ p \in DOMAIN files[g]}
           L == CHOOSE g \in H : \A h \in H : h <= g
<1>0. b \in Bins
  BY ConfiguredBins, Zenon
<1>1. Recovered(b)[p] = IF H = {} THEN file[b][p] ELSE ReplayDelta(files[L], file[b])[p]
  BY Zenon DEF Recovered, Replayed
<1>2. CASE H = {}
  BY <1>0, <1>1, <1>2, ZenonT(60) DEF RecoverInv, Typed, FileCurrent
<1>3. CASE H # {}
  <2>1. PICK g \in H : TRUE
    BY <1>3, Zenon
  <2>2. \A h \in H : h = meta[b] + 1
    BY <1>0 DEF RecoverInv, OneNewDelta, Typed
  <2>3. \A h \in H : h <= g
    BY <2>1, <2>2, <1>0 DEF RecoverInv, Typed
  <2>4. L \in H
    BY <2>1, <2>3, Zenon
  <2>5. L = meta[b] + 1 /\ L \in DOMAIN files /\ p \in DOMAIN files[L]
    BY <2>2, <2>4, Zenon
  <2>6. Recovered(b)[p] = files[L][p]
    BY <1>1, <1>3, <2>5, Zenon DEF ReplayDelta
  <2> QED
    BY <2>5, <2>6, Zenon DEF RecoverInv, OneNewDelta
<1> QED
  BY <1>2, <1>3, Zenon
-----------------------------------------------------------------------------
\* The types and the invariant hold initially (graveldb_open,
\* ckpt_scheduler_init).
LEMMA RecoverInit == Init => RecoverInv
<1> SUFFICES ASSUME Init PROVE RecoverInv
  OBVIOUS
<1>1. Typed
  BY SchedulerAssumption, ConfiguredBins DEF Init, SchedulerInit, Typed, Bins, Fresh
<1>2. GenerationAhead
  BY ConfiguredBins, Zenon DEF Init, GenerationAhead, MetaDue
<1>3. FileCurrent
  BY ConfiguredBins DEF Init, FileCurrent, Fresh
<1>4. OneNewDelta
  BY ConfiguredBins, SMTT(30) DEF Init, OneNewDelta
<1> QED
  BY <1>1, <1>2, <1>3, <1>4, Zenon DEF RecoverInv

\* Every call keeps the types; recovery needs the invariant for it, as it
\* takes the content of pages from files.
LEMMA TypedStep ==
  ASSUME RecoverInv, Next
  PROVE  Typed'
<1> USE ConfiguredBins DEF RecoverInv
<1>1. ASSUME NEW b \in Bins, NEW p \in Pages, Put(b, p) PROVE Typed'
  <2>1. num_bins' \in NumConfigured .. NumBins /\ cur' \in 1 .. num_bins'
    <3>1. num_bins' = (IF b > num_bins THEN b ELSE num_bins) /\ cur' = cur
      BY <1>1, Zenon DEF Put
    <3>2. num_bins \in NumConfigured .. NumBins /\ cur \in 1 .. num_bins /\ b \in 1 .. NumBins
      BY Zenon DEF Typed, Bins
    <3>3. NumConfigured \in Nat /\ NumBins \in Nat /\ num_bins \in Nat /\ b \in Nat
      BY <3>2, SchedulerAssumption
    <3> QED
      BY <3>1, <3>2, <3>3
  <2>2. DOMAIN mem' = Bins /\ \A c \in Configured : mem'[c] \in [Pages -> Nat]
    BY <1>1 DEF Put, Typed
  <2> QED
    BY <1>1, <2>1, <2>2 DEF Put, Typed, diskVars, clockVars, fullVars
<1>2. ASSUME NEW r \in Requests, RequestCooled(r) \/ RequestJoins(r) PROVE Typed'
  BY <1>2, Zenon DEF RequestCooled, RequestJoins, Typed, procVars, dataVars, diskVars, clockVars
<1>3. CASE TimePasses
  BY <1>3, Zenon DEF TimePasses, Typed, procVars, dataVars, diskVars, fullVars
<1>4. ASSUME NEW landed, WriteBack(landed),
             ForceFlush \/ TickFlush \/ TickFails
      PROVE  Typed'
  BY <1>4, WrittenType, Zenon DEF ForceFlush, TickFlush, TickFails, WriteBack, Typed, procVars,
     diskVars, fullVars
<1>5. CASE ForceCheckpoint \/ TickCheckpoint
  <2>1. BeginCheckpoint /\ UNCHANGED <<procVars, current_epoch, diskVars, fullVars, snap>>
    BY <1>5, Zenon DEF ForceCheckpoint, TickCheckpoint
  <2>2. cur' \in 1 .. num_bins'
    BY <2>1 DEF BeginCheckpoint, procVars, Typed
  <2>3. active' \in [Bins -> SUBSET Pages] /\ frozen' \in [Bins -> SUBSET Pages]
    BY <2>1, Zenon DEF BeginCheckpoint, Typed
  <2>4. generation' \in [Bins -> Nat]
    BY <2>1 DEF BeginCheckpoint, Typed
  <2>5. /\ DOMAIN mem' = Bins /\ DOMAIN file' = Bins
        /\ \A b \in Configured : mem'[b] \in [Pages -> Nat] /\ file'[b] \in [Pages -> Nat]
    BY <2>1, WrittenType, Zenon DEF BeginCheckpoint, WriteBack
  <2>6. at' = "open_delta"
    BY <2>1, Zenon DEF BeginCheckpoint
  <2> QED
    BY <2>1, <2>2, <2>3, <2>4, <2>5, <2>6, Zenon DEF Typed, procVars, diskVars, fullVars
<1>0. ASSUME NEW next \in {"full", "idle", "purge"}, Advance(next), num_bins' = num_bins
      PROVE  /\ cur' \in 1 .. num_bins'
             /\ at' \in {"idle", "open_delta", "write_delta", "meta", "full", "purge"}
  BY <1>0 DEF Advance, Typed
<1>6. CASE OpenDelta
  BY <1>6, Zenon DEF OpenDelta, Typed, procVars, dataVars, fullVars
<1>13. CASE PurgeDeltas
  <2>1. DOMAIN deltas' = Bins
    BY <1>13, Zenon DEF PurgeDeltas, Typed
  <2> QED
    BY <1>0, <1>13, <2>1, Zenon DEF PurgeDeltas, Typed, procVars, dataVars, fullVars
<1>7. CASE WriteDelta
  <2>1. cur' \in 1 .. num_bins' /\ current_epoch' \in Nat /\ at' \in {"open_delta", "meta"}
    BY <1>7 DEF WriteDelta, Typed, procVars
  <2>2. DOMAIN snap' = Bins /\ \A b \in Configured : snap'[b] \in [Pages -> Nat]
    BY <1>7, Zenon DEF WriteDelta, Typed
  <2>3. DOMAIN deltas' = Bins
    BY <1>7, Zenon DEF WriteDelta, Typed
  <2> QED
    BY <1>7, <2>1, <2>2, <2>3, Zenon DEF WriteDelta, Typed, procVars, dataVars, fullVars
<1>8. CASE PersistMeta
  <2>1. meta' \in [Bins -> Nat]
    BY <1>8, ZenonT(30) DEF PersistMeta, Typed, Bins
  <2>2. PICK next \in {"full", "idle"} : Advance(next)
    BY <1>8, Zenon DEF PersistMeta
  <2> QED
    BY <1>0, <1>8, <2>1, <2>2, Zenon DEF PersistMeta, Typed, procVars, dataVars, fullVars
<1>9. CASE DumpFull
  <2>1. DOMAIN full' = Bins
    BY <1>9, Zenon DEF DumpFull, Typed
  <2>2. /\ last_full_generation' \in Nat /\ waiters' \subseteq Requests
        /\ response' \in [Requests -> Nat \cup {None, Waiting}]
    BY <1>9, Zenon DEF DumpFull, Broadcast, Typed, fullVars
  <2> QED
    BY <1>0, <1>9, <2>1, <2>2, Zenon DEF DumpFull, Typed, procVars, dataVars
<1>10. ASSUME NEW landed, Ends(landed) PROVE Typed'
  <2>1. num_bins' \in NumConfigured .. NumBins /\ cur' \in 1 .. num_bins'
    BY <1>10, SchedulerAssumption DEF Ends
  <2>2. /\ DOMAIN mem' = Bins /\ DOMAIN file' = Bins
        /\ \A b \in Configured : mem'[b] \in [Pages -> Nat] /\ file'[b] \in [Pages -> Nat]
    BY <1>10, WrittenType, Zenon DEF Ends, WriteBack
  <2> QED
    BY <1>10, <2>1, <2>2, Zenon DEF Ends, Typed, diskVars
<1>11. CASE Open
  BY <1>11, Zenon DEF Open, Typed, dataVars, diskVars, fullVars
<1>12. CASE Recover
  <2>1. \A b \in Configured : Recovered(b) \in [Pages -> Nat]
    BY RecoveredIs, Zenon DEF Recovered, Replayed
  <2> QED
    BY <1>12, <2>1, Zenon DEF Recover, Typed, procVars, diskVars, fullVars
<1> QED
  BY <1>1, <1>2, <1>3, <1>4, <1>5, <1>6, <1>7, <1>8, <1>9, <1>10, <1>11, <1>12, <1>13, Zenon
     DEF Next, Step, Tick, Close, Crash, ForceFlush, TickFlush, TickFails
-----------------------------------------------------------------------------
\* No call leaves the data file behind the last checkpoint: not a flush of
\* which some writes fail, and not ckpt_recover.
LEMMA FileCurrentStep ==
  ASSUME RecoverInv, Next
  PROVE  FileCurrent'
<1> USE ConfiguredBins DEF RecoverInv, Typed, FileCurrent
<1>1. ASSUME NEW b \in Bins, NEW p \in Pages, Put(b, p) PROVE FileCurrent'
  BY <1>1 DEF Put
<1>2. ASSUME NEW landed, WriteBack(landed), UNCHANGED snap PROVE FileCurrent'
  <2> DEFINE w == Written(landed)
  <2>1. \A b \in Configured, p \in Pages : w[b][p] = mem[b][p] \/ w[b][p] = file[b][p]
    BY WrittenType, Zenon
  <2>2. \A b \in Configured, p \in Pages : snap[b][p] <= w[b][p] /\ w[b][p] <= w[b][p]
    <3> SUFFICES ASSUME NEW b \in Configured, NEW p \in Pages
                 PROVE  snap[b][p] <= w[b][p] /\ w[b][p] <= w[b][p]
      OBVIOUS
    <3>1. mem[b][p] \in Nat /\ file[b][p] \in Nat /\ snap[b][p] \in Nat
      OBVIOUS
    <3>2. snap[b][p] <= file[b][p] /\ file[b][p] <= mem[b][p]
      OBVIOUS
    <3>3. w[b][p] = mem[b][p] \/ w[b][p] = file[b][p]
      BY <2>1, Zenon
    <3> HIDE DEF w, RecoverInv, Typed, FileCurrent
    <3> QED
      BY <3>1, <3>2, <3>3
  <2> QED
    BY <1>2, <2>2, Zenon DEF WriteBack
<1>3. CASE UNCHANGED <<dataVars, snap>>
  BY <1>3, Zenon DEF dataVars
<1>4. CASE WriteDelta
  <2>1. \A b \in Configured : snap'[b] = snap[b] \/ snap'[b] = file[b]
    BY <1>4, Zenon DEF WriteDelta
  <2> QED
    BY <1>4, <2>1 DEF WriteDelta, dataVars
<1>5. CASE Recover
  <2>1. \A b \in Configured : file'[b] = Recovered(b) /\ mem'[b] = Recovered(b)
    BY <1>5, SchedulerAssumption DEF Recover, Configured
  <2> QED
    BY <1>5, <2>1, RecoveredIs DEF Recover
<1> QED
  BY <1>1, <1>2, <1>3, <1>4, <1>5, Zenon
     DEF Next, RequestCooled, RequestJoins, TimePasses, ForceFlush, ForceCheckpoint, Tick,
         TickCheckpoint, TickFlush, TickFails, BeginCheckpoint, Step, OpenDelta, PersistMeta,
         DumpFull, PurgeDeltas, Close, Crash, Ends, Open

\* A checkpoint raises the generation of every configured bin by one, and its
\* .meta files follow; an open takes the generations from the .meta files.
LEMMA GenerationAheadStep ==
  ASSUME RecoverInv, Next
  PROVE  GenerationAhead'
<1> USE DEF GenerationAhead, MetaDue
<1>a. Typed /\ GenerationAhead
  BY Zenon DEF RecoverInv
<1>n. /\ num_bins \in Nat /\ cur \in Nat /\ cur <= num_bins
      /\ \A b \in Configured : /\ b \in Nat /\ 1 <= b /\ b <= num_bins
                               /\ generation[b] \in Nat /\ meta[b] \in Nat
  BY <1>a, Numbers, Zenon
<1>1. CASE UNCHANGED <<open, generation, meta, at, cur>>
  BY <1>a, <1>1, Zenon
<1>2. CASE ForceCheckpoint \/ TickCheckpoint
  <2>1. at = "idle" /\ open /\ open' /\ at' = "open_delta" /\ meta' = meta
    BY <1>2 DEF ForceCheckpoint, TickCheckpoint, BeginCheckpoint, Idle, diskVars, procVars
  <2>2. generation' = [b \in Bins |-> IF b <= num_bins THEN generation[b] + 1
                                                       ELSE generation[b]]
    BY <1>2, Zenon DEF ForceCheckpoint, TickCheckpoint, BeginCheckpoint
  <2>3. \A b \in Configured : generation'[b] = generation[b] + 1
    BY <1>n, <2>2, ConfiguredBins, Zenon
  <2> QED
    BY <1>a, <2>1, <2>3, Zenon
<1>3. CASE OpenDelta
  BY <1>a, <1>3, Zenon DEF OpenDelta, procVars
<1>4. CASE WriteDelta
  <2>1. at' = "open_delta" \/ (at' = "meta" /\ cur' = 1)
    BY <1>4, Zenon DEF WriteDelta
  <2>2. \A b \in Configured : MetaDue(b)'
    BY <1>n, <2>1, Zenon
  <2>3. \A b \in Configured : MetaDue(b)
    BY <1>4, Zenon DEF WriteDelta
  <2>4. open /\ open' /\ UNCHANGED <<generation, meta>>
    BY <1>4, Zenon DEF WriteDelta, procVars
  <2> QED
    BY <1>a, <2>2, <2>3, <2>4, Zenon
<1>5. CASE PersistMeta
  <2>0. open /\ open' /\ generation' = generation /\ at = "meta"
    BY <1>5, Zenon DEF PersistMeta, procVars
  <2>1. \A b \in Configured : meta'[b] = IF b = cur THEN generation[b] ELSE meta[b]
    BY <1>a, <1>5, ConfiguredBins, Zenon DEF PersistMeta, Typed
  <2>2. \A b \in Configured : b >= cur => generation[b] = meta[b] + 1
    BY <1>a, <2>0, Zenon
  <2>3. \A b \in Configured : b < cur => generation[b] = meta[b]
    BY <1>a, <1>n, <2>0
  <2>4. CASE cur < num_bins
    <3>1. at' = "meta" /\ cur' = cur + 1
      BY <1>5, <2>4, Zenon DEF PersistMeta, Advance
    <3>2. \A b \in Configured : b >= cur + 1 => generation[b] = meta'[b] + 1
      BY <1>n, <2>1, <2>2
    <3>3. \A b \in Configured : ~(b >= cur + 1) => generation[b] = meta'[b]
      BY <1>n, <2>1, <2>3
    <3> QED
      BY <2>0, <3>1, <3>2, <3>3, Zenon
  <2>5. CASE cur = num_bins
    <3>1. at' \in {"full", "idle"}
      BY <1>5, <1>n, <2>5 DEF PersistMeta, Advance
    <3>2. \A b \in Configured : meta'[b] = generation[b]
      BY <1>n, <2>1, <2>3, <2>5
    <3> QED
      BY <2>0, <3>1, <3>2, Zenon
  <2> QED
    BY <1>n, <2>4, <2>5
<1>6. CASE DumpFull \/ PurgeDeltas
  <2>1. at \in {"full", "purge"} /\ at' \in {"full", "purge", "idle"}
    BY <1>6, Zenon DEF DumpFull, PurgeDeltas, Advance
  <2> QED
    BY <1>a, <1>6, <2>1, Zenon DEF DumpFull, PurgeDeltas, procVars
<1>7. CASE open' = FALSE /\ at' = "idle"
  BY <1>7, Zenon
<1>8. CASE Open
  <2>1. \A b \in Configured : generation'[b] = meta[b]
    BY <1>8, ConfiguredBins DEF Open, Configured
  <2> QED
    BY <1>a, <1>8, <2>1, Zenon DEF Open, diskVars
<1> QED
  BY <1>1, <1>2, <1>3, <1>4, <1>5, <1>6, <1>7, <1>8, Zenon
     DEF Next, Put, RequestCooled, RequestJoins, TimePasses, ForceFlush, Tick, TickFlush,
         TickFails, Step, Close, Crash, Ends, Recover, procVars, diskVars

\* A checkpoint writes the one delta file above the .meta file, emptied or
\* with the content of the data file; an older file with its name, left by a
\* session that crashed, is replaced (ckpt_dump_delta).
LEMMA OneNewDeltaStep ==
  ASSUME RecoverInv, Next
  PROVE  OneNewDelta'
<1> USE DEF OneNewDelta
<1>a. Typed /\ GenerationAhead /\ FileCurrent /\ OneNewDelta
  BY Zenon DEF RecoverInv
<1>n. /\ num_bins \in Nat /\ cur \in Nat /\ cur <= num_bins
      /\ \A b \in Configured : /\ b \in Nat /\ 1 <= b /\ b <= num_bins
                               /\ generation[b] \in Nat /\ meta[b] \in Nat
  BY <1>a, Numbers, Zenon
<1>1. CASE UNCHANGED <<deltas, meta, snap>>
  BY <1>a, <1>1, Zenon
<1>2. CASE OpenDelta
  <2>1. meta' = meta /\ snap' = snap
    BY <1>2, Zenon DEF OpenDelta
  <2>2. \A b \in Configured : generation[b] = meta[b] + 1
    BY <1>a, <1>2, Zenon DEF OpenDelta, GenerationAhead, MetaDue
  <2>3. \A b \in Configured : deltas'[b] = IF b = cur THEN WithFile(deltas[b], generation[b], <<>>)
                                                      ELSE deltas[b]
    BY <1>a, <1>2, ConfiguredBins, Zenon DEF OpenDelta, Typed
  <2>4. DOMAIN <<>> = {}
    OBVIOUS
  <2> SUFFICES ASSUME NEW b \in Configured, NEW g \in DOMAIN deltas'[b]
               PROVE  /\ g \in Nat /\ g <= meta[b] + 1
                      /\ g = meta[b] + 1 =>
                           \A p \in Pages : p \in DOMAIN deltas'[b][g] =>
                             deltas'[b][g][p] \in Nat /\ deltas'[b][g][p] >= snap[b][p]
    BY <2>1, Zenon
  <2>5. CASE b # cur
    BY <1>a, <2>3, <2>5, Zenon
  <2>6. CASE b = cur
    <3>1. g \in DOMAIN deltas[b] \cup {generation[b]}
      BY <2>3, <2>6, Zenon DEF WithFile
    <3>2. g = generation[b] => deltas'[b][g] = <<>>
      BY <2>3, <2>6, Zenon DEF WithFile
    <3>3. g \in Nat /\ g <= meta[b] + 1
      BY <1>a, <1>n, <2>2, <3>1
    <3>4. g = meta[b] + 1 => DOMAIN deltas'[b][g] = {}
      BY <2>2, <2>4, <3>2, Zenon
    <3> QED
      BY <3>3, <3>4, Zenon
  <2> QED
    BY <2>5, <2>6, Zenon
<1>3. CASE WriteDelta
  <2>1. meta' = meta
    BY <1>3, Zenon DEF WriteDelta
  <2>2. \A b \in Configured : generation[b] = meta[b] + 1
    BY <1>a, <1>3, Zenon DEF WriteDelta, GenerationAhead, MetaDue
  <2>3. \A b \in Configured :
          /\ deltas'[b] = IF b = cur THEN WithFile(deltas[b], generation[b], DumpedDelta(b))
                                     ELSE deltas[b]
          /\ snap'[b] = IF b = cur THEN file[b] ELSE snap[b]
    BY <1>a, <1>3, ConfiguredBins, Zenon DEF WriteDelta, Typed
  <2> SUFFICES ASSUME NEW b \in Configured, NEW g \in DOMAIN deltas'[b]
               PROVE  /\ g \in Nat /\ g <= meta[b] + 1
                      /\ g = meta[b] + 1 =>
                           \A p \in Pages : p \in DOMAIN deltas'[b][g] =>
                             deltas'[b][g][p] \in Nat /\ deltas'[b][g][p] >= snap'[b][p]
    BY <2>1, Zenon
  <2>5. CASE b # cur
    BY <1>a, <2>3, <2>5, Zenon
  <2>6. CASE b = cur
    <3>1. g \in DOMAIN deltas[b] \cup {generation[b]}
      BY <2>3, <2>6, Zenon DEF WithFile
    <3>2. g = generation[b] => deltas'[b][g] = DumpedDelta(b)
      BY <2>3, <2>6, ZenonT(30) DEF WithFile
    <3>3. g \in Nat /\ g <= meta[b] + 1
      BY <1>a, <1>n, <2>2, <3>1
    <3>4. \A p \in Pages : p \in DOMAIN DumpedDelta(b) => DumpedDelta(b)[p] = file[b][p]
      BY Zenon DEF DumpedDelta
    <3>5. \A p \in Pages : file[b][p] \in Nat /\ snap'[b][p] = file[b][p]
      BY <1>a, <2>3, <2>6, ZenonT(60) DEF Typed
    <3>6. \A p \in Pages : file[b][p] >= file[b][p]
      BY <3>5, SMTT(30)
    <3> QED
      BY <2>2, <3>2, <3>3, <3>4, <3>5, <3>6, Zenon
  <2> QED
    BY <2>5, <2>6, Zenon
<1>4. CASE PersistMeta
  <2>1. deltas' = deltas /\ snap' = snap
    BY <1>4, Zenon DEF PersistMeta
  <2>2. \A b \in Configured : meta'[b] = IF b = cur THEN generation[b] ELSE meta[b]
    BY <1>a, <1>4, ConfiguredBins, Zenon DEF PersistMeta, Typed
  <2>3. cur \in Configured => generation[cur] = meta[cur] + 1
    BY <1>a, <1>n, <1>4 DEF PersistMeta, GenerationAhead, MetaDue
  <2> SUFFICES ASSUME NEW b \in Configured, NEW g \in DOMAIN deltas[b]
               PROVE  /\ g \in Nat /\ g <= meta'[b] + 1
                      /\ g = meta'[b] + 1 =>
                           \A p \in Pages : p \in DOMAIN deltas[b][g] =>
                             deltas[b][g][p] \in Nat /\ deltas[b][g][p] >= snap[b][p]
    BY <2>1, Zenon
  <2>4. CASE b # cur
    BY <1>a, <2>2, <2>4, Zenon
  <2>5. CASE b = cur
    <3>1. meta'[b] = meta[b] + 1 /\ meta[b] \in Nat
      BY <1>n, <2>2, <2>3, <2>5, Zenon
    <3>2. g \in Nat /\ g <= meta[b] + 1
      BY <1>a, Zenon
    <3> QED
      BY <3>1, <3>2
  <2> QED
    BY <2>4, <2>5, Zenon
<1>5. CASE PurgeDeltas
  <2>1. meta' = meta /\ snap' = snap
    BY <1>5, Zenon DEF PurgeDeltas
  <2>2. \A b \in Configured : deltas'[b] = deltas[b]
                              \/ deltas'[b] = KeptDeltas(deltas[b], last_full_generation)
    BY <1>a, <1>5, ConfiguredBins, Zenon DEF PurgeDeltas, Typed
  <2>3. \A b \in Configured : \A g \in DOMAIN deltas'[b] :
          g \in DOMAIN deltas[b] /\ deltas'[b][g] = deltas[b][g]
    BY <2>2, ZenonT(30) DEF KeptDeltas
  <2> QED
    BY <1>a, <2>1, <2>3
<1> QED
  BY <1>1, <1>2, <1>3, <1>4, <1>5, Zenon
     DEF Next, Put, RequestCooled, RequestJoins, TimePasses, ForceFlush, ForceCheckpoint, Tick,
         TickCheckpoint, TickFlush, TickFails, Step, DumpFull, Close, Crash, Ends, Open, Recover,
         diskVars

\* RecoverInv is an invariant of the scheduler, over any number of crashes.
THEOREM RecoverInvHolds == Spec => []RecoverInv
<1>1. RecoverInv /\ [Next]_vars => RecoverInv'
  <2>1. ASSUME RecoverInv, Next PROVE RecoverInv'
    BY <2>1, TypedStep, FileCurrentStep, GenerationAheadStep, OneNewDeltaStep, Zenon DEF RecoverInv
  <2>2. ASSUME RecoverInv, UNCHANGED vars PROVE RecoverInv'
    BY <2>2, Zenon DEF RecoverInv, Typed, GenerationAhead, MetaDue, FileCurrent, OneNewDelta, vars,
       procVars, dataVars, diskVars, clockVars, fullVars
  <2> QED
    BY <2>1, <2>2, Zenon
<1> QED
  BY <1>1, RecoverInit, PTL DEF Spec

\* Whenever the process crashes, ckpt_recover at the next startup leaves every
\* page of a configured bin at least as new as the last checkpoint had it.
THEOREM RecoverKeepsCheckpointHolds == Spec => []RecoverKeepsCheckpoint
<1>1. RecoverInv => RecoverKeepsCheckpoint
  BY RecoveredIs, Zenon DEF RecoverKeepsCheckpoint, Configured
<1> QED
  BY <1>1, RecoverInvHolds, PTL
-----------------------------------------------------------------------------
\* Requests are listed as waiters until the broadcast, and during a checkpoint
\* no call but its own steps touches the pages
\* (ckpt_scheduler_request_full, ckpt_scheduler_force_checkpoint).
LEMMA WaitInvStep ==
  ASSUME RecoverInv, WaitInv, Next
  PROVE  WaitInv'
<1> DEFINE Listed == \A r \in Requests : response[r] = Waiting <=> r \in waiters
           Drained == at # "idle" => mem = file
           Dumped == at = "full" => \A b \in 1 .. cur - 1 : full[b] = DumpedFull(b)
<1>a. Typed /\ Listed /\ Drained /\ Dumped
  BY Zenon DEF WaitInv, RecoverInv
<1>1. Listed'
  <2>1. CASE UNCHANGED <<response, waiters>>
    BY <1>a, <2>1, Zenon
  <2>2. ASSUME NEW r \in Requests, RequestCooled(r) PROVE Listed'
    BY <1>a, <2>2, SchedulerAssumption, Zenon DEF RequestCooled, Unused, Typed
  <2>3. ASSUME NEW r \in Requests, RequestJoins(r) PROVE Listed'
    BY <1>a, <2>3, Zenon DEF RequestJoins, Unused, Typed
  <2>4. ASSUME Broadcast, waiters' = {} PROVE Listed'
    BY <1>a, <2>4, SchedulerAssumption, Zenon DEF Broadcast, Typed
  <2>5. ASSUME NEW landed, Ends(landed) PROVE Listed'
    BY <2>5, SchedulerAssumption, Zenon DEF Ends
  <2> QED
    BY <2>1, <2>2, <2>3, <2>4, <2>5, Zenon
       DEF Next, Put, TimePasses, ForceFlush, ForceCheckpoint, Tick, TickCheckpoint, TickFlush,
           TickFails, Step, OpenDelta, WriteDelta, PersistMeta, DumpFull, PurgeDeltas, Close,
           Crash, Open, Recover, fullVars
<1>2. Drained'
  <2>1. CASE at' = "idle"
    BY <2>1, Zenon
  <2>2. CASE BeginCheckpoint
    BY <2>2, Zenon DEF BeginCheckpoint, WriteBack
  <2>3. CASE Step
    <3>1. at # "idle" /\ UNCHANGED dataVars
      BY <2>3, Zenon DEF Step, OpenDelta, WriteDelta, PersistMeta, DumpFull, PurgeDeltas
    <3> QED
      BY <1>a, <3>1, Zenon DEF dataVars
  <2>4. CASE UNCHANGED <<at, mem, file>>
    BY <1>a, <2>4, Zenon
  <2> QED
    BY <2>1, <2>2, <2>3, <2>4, Zenon
       DEF Next, Put, RequestCooled, RequestJoins, TimePasses, ForceFlush, ForceCheckpoint, Tick,
           TickCheckpoint, TickFlush, TickFails, Close, Crash, Ends, Open, Recover, Idle, dataVars
<1>3. Dumped'
  <2>1. CASE at' # "full"
    BY <2>1, Zenon
  <2>5. CASE Open
    BY <2>1, <2>5, Zenon DEF Open, RecoverInv, GenerationAhead
  <2>2. CASE UNCHANGED <<at, cur, full, generation, file>>
    BY <1>a, <2>2, Zenon DEF DumpedFull
  <2>3. CASE PersistMeta
    <3>1. at' = "full" => cur' = 1
      BY <2>3, Zenon DEF PersistMeta, Advance
    <3> QED
      BY <3>1
  <2>4. CASE DumpFull
    <3> SUFFICES ASSUME at' = "full" PROVE \A b \in 1 .. cur' - 1 : full'[b] = DumpedFull(b)'
      BY Zenon
    <3>1. cur' = cur + 1 /\ cur \in Nat /\ cur \in Bins
      BY <1>a, <2>4, SchedulerAssumption, SMTT(30) DEF DumpFull, Advance, Typed, Bins
    <3>2. \A b \in 1 .. cur - 1 : full'[b] = full[b]
      BY <1>a, <2>4, <3>1, SchedulerAssumption, SMTT(30) DEF DumpFull, Typed, Bins
    <3>3. full'[cur] = DumpedFull(cur)
      BY <1>a, <2>4, <3>1, Zenon DEF DumpFull, Typed
    <3>4. \A b : DumpedFull(b)' = DumpedFull(b)
      BY <2>4, Zenon DEF DumpFull, DumpedFull, dataVars
    <3>5. \A b \in 1 .. cur - 1 : full[b] = DumpedFull(b)
      BY <1>a, <2>4, Zenon DEF DumpFull
    <3> QED
      BY <3>1, <3>2, <3>3, <3>4, <3>5
  <2> QED
    BY <2>1, <2>2, <2>3, <2>4, <2>5, Zenon
       DEF Next, Put, RequestCooled, RequestJoins, TimePasses, ForceFlush, ForceCheckpoint, Tick,
           TickCheckpoint, TickFlush, TickFails, BeginCheckpoint, Step, OpenDelta, WriteDelta,
           PurgeDeltas, Advance, Close, Crash, Ends, Recover, Idle, dataVars, diskVars
<1> QED
  BY <1>1, <1>2, <1>3, Zenon DEF WaitInv

\* The waiters of a full checkpoint are told together, once the dump of every
\* bin holds all that was acknowledged.
THEOREM WaitersServed == Spec => WaitersServedTogether
<1> DEFINE Told == \A r \in Requests : response[r] = Waiting /\ response'[r] \in Nat =>
              /\ \A q \in waiters : response'[q] = response'[r]
              /\ \A b \in 1 .. num_bins : full'[b] = [gen |-> generation[b], data |-> mem[b]]
<1>1. Init => WaitInv
  BY SchedulerAssumption, Zenon DEF Init, SchedulerInit, WaitInv
<1>2. RecoverInv /\ WaitInv /\ [Next]_vars => WaitInv'
  <2>1. ASSUME WaitInv, UNCHANGED vars PROVE WaitInv'
    BY <2>1, Zenon DEF WaitInv, DumpedFull, vars, dataVars, diskVars, fullVars
  <2>2. ASSUME RecoverInv, WaitInv, Next PROVE WaitInv'
    BY <2>2, WaitInvStep, Zenon
  <2> QED
    BY <2>1, <2>2, Zenon
<1>3. RecoverInv /\ WaitInv /\ [Next]_vars => [Told]_vars
  <2> SUFFICES ASSUME RecoverInv, WaitInv, Next PROVE Told
    OBVIOUS
  <2>t. Typed
    BY Zenon DEF RecoverInv
  <2>1. ASSUME \A r \in Requests : response[r] = Waiting => response'[r] \in {Waiting, None}
        PROVE  Told
    BY <2>1, SchedulerAssumption, Zenon
  <2>2. CASE UNCHANGED response
    BY <2>1, <2>2, Zenon
  <2>3. ASSUME NEW r \in Requests, RequestCooled(r) \/ RequestJoins(r) PROVE Told
    BY <2>1, <2>3, <2>t, SchedulerAssumption, ZenonT(30) DEF RequestCooled, RequestJoins, Unused, Typed
  <2>4. ASSUME NEW landed, Ends(landed) PROVE Told
    BY <2>1, <2>4, Zenon DEF Ends
  <2>5. ASSUME DumpFull, at' = "purge" PROVE Told
    <3>1. \A q \in waiters : response'[q] = current_epoch
      BY <2>5, <2>t, Zenon DEF DumpFull, Broadcast, Typed
    <3>2. \A r \in Requests : response[r] = Waiting => r \in waiters
      BY Zenon DEF WaitInv
    <3>3. cur = num_bins /\ cur \in Nat /\ cur \in Bins
      BY <2>5, <2>t, SchedulerAssumption DEF DumpFull, Advance, Typed, Bins
    <3>4. \A b \in 1 .. cur : full'[b] = DumpedFull(b)
      <4>1. \A b \in 1 .. cur - 1 : full'[b] = full[b]
        BY <2>5, <3>3, <2>t, SchedulerAssumption DEF DumpFull, Typed, Bins
      <4>2. full'[cur] = DumpedFull(cur)
        BY <2>5, <3>3, <2>t, Zenon DEF DumpFull, Typed
      <4>3. \A b \in 1 .. cur - 1 : full[b] = DumpedFull(b)
        BY <2>5, Zenon DEF DumpFull, WaitInv
      <4> QED
        BY <3>3, <4>1, <4>2, <4>3
    <3>5. mem = file
      BY <2>5, Zenon DEF DumpFull, WaitInv
    <3> QED
      BY <3>1, <3>2, <3>3, <3>4, <3>5, Zenon DEF DumpedFull
  <2>6. CASE DumpFull /\ at' # "purge"
    BY <2>2, <2>6, Zenon DEF DumpFull, fullVars
  <2> QED
    BY <2>2, <2>3, <2>4, <2>5, <2>6, Zenon
       DEF Next, Put, TimePasses, ForceFlush, ForceCheckpoint, Tick, TickCheckpoint, TickFlush,
           TickFails, Step, OpenDelta, WriteDelta, PersistMeta, PurgeDeltas, Close, Crash, Open,
           Recover, fullVars
<1> QED
  BY <1>1, <1>2, <1>3, RecoverInvHolds, PTL DEF Spec, WaitersServedTogether

-----------------------------------------------------------------------------
(* The types of all the variables. *)


\* The delta files of a checkpoint are being written.
DuringDeltas == at \in {"open_delta", "write_delta"}

\* What pages hold in memory, in the data file and at the last checkpoint.
PagesTyped ==
  \A b \in Bins : mem[b] \in Content(b) /\ file[b] \in Content(b) /\ snap[b] \in Content(b)

\* What the delta files of a bin hold, and how they are named.
FilesTyped ==
  \A b \in Bins : \A g \in DOMAIN deltas[b] :
    /\ g \in 1 .. MaxGen
    /\ \A p \in Pages : p \in DOMAIN deltas[b][g] => deltas[b][g][p] \in 0 .. Limit(b)

DumpsTyped ==
  \A b \in Bins : full[b] = None \/ full[b] \in [gen : 1 .. MaxGen, data : Content(b)]

CountersTyped ==
  /\ opens \in 1 .. MaxOpens
  /\ generation \in [Bins -> 0 .. MaxGen] /\ meta \in [Bins -> 0 .. MaxGen]
  /\ since_flush \in 0 .. FlushInterval /\ since_ckpt \in 0 .. Cap /\ full_age \in 0 .. Cooldown

FlagsTyped ==
  open \in BOOLEAN /\ by_tick \in BOOLEAN /\ ckpt_timed \in BOOLEAN /\ full_timed \in BOOLEAN
    /\ full_pending \in BOOLEAN

\* The database's epoch never passes the generation of a configured bin, as
\* the generations start from the .meta files and the epoch from 0; a call in
\* progress has begun a generation of every registered bin.
EpochInv ==
  /\ last_full_generation <= current_epoch
  /\ open => \A b \in Configured : /\ current_epoch <= generation[b]
                                   /\ DuringDeltas => current_epoch < generation[b]
  /\ at # "idle" => \A b \in 1 .. num_bins : generation[b] > 0
  /\ at \in {"meta", "full", "purge"} => current_epoch > 0
  /\ ~open => current_epoch = 0 /\ last_full_generation = 0

AnswersTyped == response \in [Requests -> {None, Waiting} \cup 0 .. MaxGen]

\* The inductive invariant behind the types; RecoverInv and WaitInv are used
\* beside it.
TypeInv ==
  /\ PagesTyped /\ FilesTyped /\ DumpsTyped /\ CountersTyped /\ FlagsTyped /\ EpochInv
  /\ AnswersTyped
-----------------------------------------------------------------------------
\* Limits are numbers.
LEMMA LimitNat == \A b \in Bins : Limit(b) \in Nat
BY SchedulerAssumption, Zenon DEF Limit

\* The first bin of the registry is a configured one, and its generation
\* bounds the epoch (graveldb_open).
LEMMA EpochBounded ==
  ASSUME Typed, CountersTyped, EpochInv, FlagsTyped
  PROVE  current_epoch \in 0 .. MaxGen /\ last_full_generation \in 0 .. MaxGen
<1>1. 1 \in Configured /\ 1 \in Bins
  BY SchedulerAssumption DEF Configured, Bins
<1>2. generation[1] \in 0 .. MaxGen
  BY <1>1, Zenon DEF CountersTyped
<1>3. current_epoch \in Nat /\ last_full_generation \in Nat
  BY Zenon DEF Typed
<1>4. CASE open
  <2>1. current_epoch <= generation[1] /\ last_full_generation <= current_epoch
    BY <1>1, <1>4, Zenon DEF EpochInv
  <2> QED
    BY <1>2, <1>3, <2>1, SchedulerAssumption
<1>5. CASE ~open
  BY <1>5, SchedulerAssumption DEF EpochInv
<1> QED
  BY <1>4, <1>5, Zenon

\* TypeInv is what the type invariant needs beside Typed.
LEMMA TypeInvImplies ==
  ASSUME Typed, TypeInv
  PROVE  TypeOK
<1> USE DEF TypeInv
<1>1. current_epoch \in 0 .. MaxGen /\ last_full_generation \in 0 .. MaxGen
  BY EpochBounded, Zenon
<1>2. num_bins \in 1 .. NumBins /\ cur \in Bins
  BY SchedulerAssumption DEF Typed, Bins
<1>3. \A b \in Bins : DOMAIN deltas[b] \subseteq 1 .. MaxGen
  BY Zenon DEF FilesTyped
<1>4. \A b \in Bins : {mem[b], file[b], snap[b]} \subseteq Content(b)
  BY Zenon DEF PagesTyped
<1>5. {ckpt_timed, full_timed, full_pending} \subseteq BOOLEAN
  BY Zenon DEF FlagsTyped
<1> QED
  BY <1>1, <1>2, <1>3, <1>4, <1>5, Zenon
     DEF TypeOK, Typed, CountersTyped, FlagsTyped, DumpsTyped, AnswersTyped

\* The types hold initially (graveldb_open, ckpt_scheduler_init).
LEMMA TypeInvInit == Init => TypeInv
<1> SUFFICES ASSUME Init PROVE TypeInv
  OBVIOUS
<1>1. PagesTyped
  BY LimitNat DEF Init, PagesTyped, Content, Fresh
<1>2. FilesTyped
  BY DEF Init, FilesTyped
<1>3. DumpsTyped
  BY Zenon DEF Init, DumpsTyped
<1>4. CountersTyped
  BY SchedulerAssumption DEF Init, SchedulerInit, CountersTyped, Cap, Least
<1>5. FlagsTyped
  BY Zenon DEF Init, SchedulerInit, FlagsTyped
<1>6. EpochInv
  BY ConfiguredBins DEF Init, SchedulerInit, EpochInv, DuringDeltas
<1>7. AnswersTyped
  BY Zenon DEF Init, SchedulerInit, AnswersTyped
<1> QED
  BY <1>1, <1>2, <1>3, <1>4, <1>5, <1>6, <1>7, Zenon DEF TypeInv
-----------------------------------------------------------------------------
\* Of the files that hold a page one is the last: a set of numbers that is
\* bounded and not empty has a greatest member.
LEMMA LastFile ==
  ASSUME NEW n \in Nat, NEW T, T \subseteq 0 .. n, T # {}
  PROVE  \E x \in T : \A y \in T : y <= x
<1> DEFINE R == {ss \in Nat \X Nat : ss[1] < ss[2]}
           D == {d \in Nat : n - d \in T}
<1>1. IsWellFoundedOn(R, Nat)
  <2>1. OpToRel(<, Nat) = R
    BY Zenon DEF OpToRel
  <2> QED
    BY <2>1, NatLessThanWellFounded, Zenon
<1>2. \A y \in T : y \in Int /\ n - y \in D /\ n - (n - y) = y
  OBVIOUS
<1>3. D \subseteq Nat /\ D # {}
  BY <1>2, Zenon
<1>4. \E d \in D : \A e \in D : ~ (<<e, d>> \in R)
  <2> HIDE DEF D, R
  <2> QED
    BY <1>1, <1>3, WFMin, Zenon
<1>5. PICK d \in D : \A e \in D : ~ (<<e, d>> \in R)
  BY <1>4, Zenon
<1>6. ASSUME NEW e \in D PROVE d <= e
  <2>1. ~(<<e, d>> \in R)
    BY <1>5, Zenon
  <2>2. <<e, d>> \in R <=> e < d
    BY <1>3, Zenon
  <2> QED
    BY <1>3, <2>1, <2>2
<1>7. n - d \in T
  BY <1>5, Zenon
<1>8. ASSUME NEW y \in T PROVE y <= n - d
  <2>1. d <= n - y /\ y \in Int /\ d \in Nat
    BY <1>2, <1>6, Zenon
  <2> QED
    BY <2>1
<1> QED
  BY <1>7, <1>8, Zenon

\* The files above base that hold the page.
Holding(files, base, p) == {g \in DOMAIN files : g > base /\ p \in DOMAIN files[g]}

\* What replaying makes of page p.
LastWins(files, base, data, p) ==
  /\ Holding(files, base, p) = {} => Replayed(files, base, data)[p] = data[p]
  /\ Holding(files, base, p) # {} =>
       \E g \in Holding(files, base, p) :
         /\ \A h \in Holding(files, base, p) : h <= g
         /\ Replayed(files, base, data)[p] = files[g][p]

\* Replaying leaves a page as it was when no file holds it, and else gives it
\* the content it has in the last file that holds it (ckpt_list_deltas sorts
\* the files, ckpt_replay_delta overwrites the pages it finds).
LEMMA ReplayedAt ==
  ASSUME NEW files, NEW base, NEW data, NEW p \in Pages, NEW n \in Nat, DOMAIN files \subseteq 0 .. n
  PROVE  LastWins(files, base, data, p)
<1> DEFINE H == Holding(files, base, p)
           L == CHOOSE g \in H : \A h \in H : h <= g
<1>1. Replayed(files, base, data)[p] = IF H = {} THEN data[p] ELSE ReplayDelta(files[L], data)[p]
  BY Zenon DEF Replayed, Holding
<1>2. ASSUME H # {}
      PROVE  L \in H /\ (\A h \in H : h <= L) /\ Replayed(files, base, data)[p] = files[L][p]
  <2>1. H \subseteq 0 .. n
    BY Zenon DEF Holding
  <2>2. \E g \in H : \A h \in H : h <= g
    <3> HIDE DEF H
    <3> QED
      BY <1>2, <2>1, LastFile, Zenon
  <2>3. L \in H /\ \A h \in H : h <= L
    <3> HIDE DEF H
    <3> QED
      BY <2>2, Zenon
  <2>4. p \in DOMAIN files[L]
    BY <2>3, Zenon DEF Holding
  <2>5. ReplayDelta(files[L], data)[p] = files[L][p]
    BY <2>4, Zenon DEF ReplayDelta
  <2> QED
    BY <1>1, <1>2, <2>3, <2>5, Zenon
<1> QED
  BY <1>1, <1>2, Zenon DEF LastWins

\* ckpt_recover keeps the types of pages: each comes from the data file or
\* from a delta file.
LEMMA RecoveredTyped ==
  ASSUME TypeInv, NEW b \in Bins
  PROVE  Recovered(b) \in Content(b)
<1>1. DOMAIN deltas[b] \subseteq 0 .. MaxGen /\ MaxGen \in Nat
  BY SchedulerAssumption DEF TypeInv, FilesTyped
<1>2. ASSUME NEW p \in Pages PROVE Recovered(b)[p] \in 0 .. Limit(b)
  <2>0. LastWins(deltas[b], meta[b], file[b], p)
    BY <1>1, ReplayedAt, Zenon
  <2>1. CASE Holding(deltas[b], meta[b], p) = {}
    <3>1. Recovered(b)[p] = file[b][p]
      BY <2>0, <2>1, Zenon DEF Recovered, LastWins
    <3> QED
      BY <3>1, Zenon DEF TypeInv, PagesTyped, Content
  <2>2. CASE Holding(deltas[b], meta[b], p) # {}
    <3>0. \E g \in Holding(deltas[b], meta[b], p) :
            /\ \A h \in Holding(deltas[b], meta[b], p) : h <= g
            /\ Replayed(deltas[b], meta[b], file[b])[p] = deltas[b][g][p]
      BY <2>0, <2>2, Zenon DEF LastWins
    <3>1. PICK g \in Holding(deltas[b], meta[b], p) : Recovered(b)[p] = deltas[b][g][p]
      BY <3>0, Zenon DEF Recovered
    <3>2. g \in DOMAIN deltas[b] /\ p \in DOMAIN deltas[b][g]
      BY <3>1, Zenon DEF Holding
    <3> QED
      BY <3>1, <3>2, Zenon DEF TypeInv, FilesTyped
  <2> QED
    BY <2>1, <2>2, Zenon
<1> QED
  BY <1>2, Zenon DEF Recovered, Replayed, Content

\* No call puts more into a page than its bin's bound, nor a value that never
\* was in memory.
LEMMA PagesTypedStep ==
  ASSUME RecoverInv, TypeInv, Next
  PROVE  PagesTyped'
<1> USE DEF PagesTyped
<1>a. Typed /\ PagesTyped
  BY Zenon DEF RecoverInv, TypeInv
<1>b. \A b : Content(b)' = Content(b)
  BY Zenon DEF Content, Limit
<1>1. ASSUME NEW b \in Bins, NEW p \in Pages, Put(b, p) PROVE PagesTyped'
  <2>1. file' = file /\ snap' = snap /\ mem' = [mem EXCEPT ![b][p] = @ + 1]
    BY <1>1, Zenon DEF Put
  <2>2. mem[b][p] + 1 \in 0 .. Limit(b)
    BY <1>1, <1>a, LimitNat DEF Put, Content
  <2>3. \A c \in Bins : mem'[c] \in Content(c)
    <3> SUFFICES ASSUME NEW c \in Bins PROVE mem'[c] \in Content(c)
      OBVIOUS
    <3>1. CASE c # b
      BY <1>a, <2>1, <3>1, Zenon DEF Typed
    <3>2. CASE c = b
      <4>1. mem'[c] = [mem[b] EXCEPT ![p] = mem[b][p] + 1]
        BY <1>a, <2>1, <3>2, Zenon DEF Typed
      <4> QED
        BY <1>a, <2>2, <3>2, <4>1 DEF Content
    <3> QED
      BY <3>1, <3>2, Zenon
  <2> QED
    BY <1>a, <2>1, <2>3, Zenon
<1>2. ASSUME NEW landed, WriteBack(landed), UNCHANGED snap PROVE PagesTyped'
  <2>1. \A b \in Bins : Written(landed)[b] \in Content(b)
    BY <1>a, Zenon DEF Written, Content
  <2> QED
    BY <1>a, <1>2, <2>1, Zenon DEF WriteBack
<1>3. CASE UNCHANGED <<dataVars, snap>>
  BY <1>a, <1>3, Zenon DEF dataVars
<1>4. CASE WriteDelta
  <2>1. \A b \in Bins : snap'[b] = snap[b] \/ snap'[b] = file[b]
    BY <1>4, <1>a, Zenon DEF WriteDelta, Typed
  <2> QED
    BY <1>a, <1>4, <2>1, Zenon DEF WriteDelta, dataVars
<1>5. CASE Recover
  <2>1. \A b \in Bins : file'[b] \in {Recovered(b), file[b]} /\ mem'[b] = file'[b] /\ snap' = snap
    BY <1>5, Zenon DEF Recover
  <2> QED
    BY <1>a, <2>1, RecoveredTyped, Zenon
<1> QED
  BY <1>1, <1>2, <1>3, <1>4, <1>5, Zenon
     DEF Next, RequestCooled, RequestJoins, TimePasses, ForceFlush, ForceCheckpoint, Tick,
         TickCheckpoint, TickFlush, TickFails, BeginCheckpoint, Step, OpenDelta, PersistMeta,
         DumpFull, PurgeDeltas, Close, Crash, Ends, Open

\* While a call is in progress, its bin is registered and has a generation
\* above 0 (graveldb_checkpoint).
LEMMA CurrentBin ==
  ASSUME Typed, TypeInv
  PROVE  /\ cur \in Bins /\ generation[cur] \in 0 .. MaxGen
         /\ at # "idle" => generation[cur] \in 1 .. MaxGen
<1>1. cur \in 1 .. num_bins /\ cur \in Bins
  BY SchedulerAssumption DEF Typed, Bins
<1>2. generation[cur] \in 0 .. MaxGen
  BY <1>1, Zenon DEF TypeInv, CountersTyped
<1>3. at # "idle" => generation[cur] > 0
  BY <1>1, Zenon DEF TypeInv, EpochInv
<1> QED
  BY <1>1, <1>2, <1>3, SchedulerAssumption

\* Delta files are named after generations and hold pages of the data file
\* (ckpt_dump_delta, ckpt_purge_old_deltas).
LEMMA FilesTypedStep ==
  ASSUME RecoverInv, TypeInv, Next
  PROVE  FilesTyped'
<1> USE DEF FilesTyped
<1>a. Typed /\ FilesTyped /\ PagesTyped
  BY Zenon DEF RecoverInv, TypeInv
<1>b. \A b : Limit(b)' = Limit(b)
  BY Zenon DEF Limit
<1>1. CASE UNCHANGED deltas
  BY <1>a, <1>b, <1>1, Zenon
<1>2. ASSUME NEW content, at # "idle",
             deltas' = [deltas EXCEPT ![cur] = WithFile(@, generation[cur], content)],
             \A p \in Pages : p \in DOMAIN content => content[p] \in 0 .. Limit(cur)
      PROVE  FilesTyped'
  <2> SUFFICES ASSUME NEW b \in Bins, NEW g \in DOMAIN deltas'[b]
               PROVE  /\ g \in 1 .. MaxGen
                      /\ \A p \in Pages : p \in DOMAIN deltas'[b][g] =>
                                            deltas'[b][g][p] \in 0 .. Limit(b)
    BY <1>b, Zenon
  <2>1. CASE b # cur
    BY <1>a, <1>2, <2>1, Zenon DEF Typed
  <2>2. CASE b = cur
    <3>1. deltas'[b] = WithFile(deltas[b], generation[b], content)
      BY <1>a, <1>2, <2>2, Zenon DEF Typed
    <3>2. g \in DOMAIN deltas[b] \cup {generation[b]}
      BY <3>1, Zenon DEF WithFile
    <3>3. g \in 1 .. MaxGen
      BY <1>a, <1>2, <2>2, <3>2, CurrentBin, Zenon
    <3>4. deltas'[b][g] = IF g = generation[b] THEN content ELSE deltas[b][g]
      BY <3>1, <3>2, Zenon DEF WithFile
    <3> QED
      BY <1>a, <1>2, <2>2, <3>2, <3>3, <3>4, Zenon
  <2> QED
    BY <2>1, <2>2, Zenon
<1>3. CASE OpenDelta
  <2>1. \A p \in Pages : p \notin DOMAIN <<>>
    OBVIOUS
  <2>2. at # "idle" /\ deltas' = [deltas EXCEPT ![cur] = WithFile(@, generation[cur], <<>>)]
    BY <1>3, Zenon DEF OpenDelta
  <2> QED
    BY <1>2, <2>1, <2>2, Zenon
<1>4. CASE WriteDelta
  <2>1. at # "idle" /\ deltas' = [deltas EXCEPT ![cur] = WithFile(@, generation[cur], DumpedDelta(cur))]
    BY <1>4, Zenon DEF WriteDelta
  <2>2. \A p \in Pages : p \in DOMAIN DumpedDelta(cur) => DumpedDelta(cur)[p] \in 0 .. Limit(cur)
    BY <1>a, CurrentBin, Zenon DEF DumpedDelta, PagesTyped, Content
  <2> QED
    BY <1>2, <2>1, <2>2, Zenon
<1>5. CASE PurgeDeltas
  <2>1. \A b \in Bins : deltas'[b] = deltas[b]
                        \/ deltas'[b] = KeptDeltas(deltas[b], last_full_generation)
    BY <1>a, <1>5, Zenon DEF PurgeDeltas, Typed
  <2>2. \A b \in Bins : \A g \in DOMAIN deltas'[b] :
          g \in DOMAIN deltas[b] /\ deltas'[b][g] = deltas[b][g]
    BY <2>1, ZenonT(30) DEF KeptDeltas
  <2> QED
    BY <1>a, <1>b, <2>2, Zenon
<1> QED
  BY <1>1, <1>3, <1>4, <1>5, Zenon
     DEF Next, Put, RequestCooled, RequestJoins, TimePasses, ForceFlush, ForceCheckpoint, Tick,
         TickCheckpoint, TickFlush, TickFails, Step, PersistMeta, DumpFull, Close, Crash, Ends,
         Open, Recover, diskVars

\* A full dump is a copy of the data file under the bin's generation
\* (ckpt_dump_full).
LEMMA DumpsTypedStep ==
  ASSUME RecoverInv, TypeInv, Next
  PROVE  DumpsTyped'
<1>a. Typed /\ DumpsTyped /\ PagesTyped
  BY Zenon DEF RecoverInv, TypeInv
<1>b. \A b : Content(b)' = Content(b)
  BY Zenon DEF Content, Limit
<1>1. CASE UNCHANGED full
  BY <1>a, <1>b, <1>1, Zenon DEF DumpsTyped
<1>2. CASE DumpFull
  <2>0. full' = [full EXCEPT ![cur] = DumpedFull(cur)]
    BY <1>2, Zenon DEF DumpFull
  <2>1. \A b \in Bins : full'[b] = IF b = cur THEN DumpedFull(b) ELSE full[b]
    BY <1>a, <2>0, Zenon DEF Typed
  <2>2. generation[cur] \in 1 .. MaxGen /\ file[cur] \in Content(cur)
    BY <1>a, <1>2, CurrentBin, Zenon DEF DumpFull, PagesTyped
  <2>3. DumpedFull(cur) \in [gen : 1 .. MaxGen, data : Content(cur)]
    BY <2>2, Zenon DEF DumpedFull
  <2> QED
    BY <1>a, <1>b, <2>1, <2>3, Zenon DEF DumpsTyped
<1> QED
  BY <1>1, <1>2, Zenon
     DEF Next, Put, RequestCooled, RequestJoins, TimePasses, ForceFlush, ForceCheckpoint, Tick,
         TickCheckpoint, TickFlush, TickFails, Step, OpenDelta, WriteDelta, PersistMeta,
         PurgeDeltas, Close, Crash, Ends, Open, Recover, diskVars

\* The flags of the scheduler and of the call in progress stay truth values.
LEMMA FlagsTypedStep ==
  ASSUME TypeInv, Next
  PROVE  FlagsTyped'
<1>1. FlagsTyped
  BY Zenon DEF TypeInv
<1> QED
  BY <1>1, ZenonT(60)
     DEF FlagsTyped, Next, Put, RequestCooled, RequestJoins, TimePasses, ForceFlush,
         ForceCheckpoint, Tick, TickCheckpoint, TickFlush, TickFails, Step, OpenDelta, WriteDelta,
         PersistMeta, DumpFull, PurgeDeltas, Return, Close, Crash, Ends, Open, Recover, procVars,
         clockVars, fullVars

\* The clocks stay within what their comparisons tell apart, and generations
\* within the bound (ckpt_scheduler_tick, ckpt_persist_meta).
LEMMA CountersTypedStep ==
  ASSUME RecoverInv, TypeInv, Next
  PROVE  CountersTyped'
<1> DEFINE Clocks == /\ since_flush \in 0 .. FlushInterval
                     /\ since_ckpt \in 0 .. Cap /\ full_age \in 0 .. Cooldown
           Gens == generation \in [Bins -> 0 .. MaxGen] /\ meta \in [Bins -> 0 .. MaxGen]
<1>a. Typed /\ CountersTyped /\ Clocks /\ Gens
  BY Zenon DEF RecoverInv, TypeInv, CountersTyped
<1>n. /\ FlushInterval \in Nat \ {0} /\ Cooldown \in Nat \ {0} /\ Cap \in Nat \ {0}
      /\ MaxGen \in Nat \ {0}
  BY SchedulerAssumption, Zenon DEF Cap
<1>1. Clocks'
  <2>1. CASE UNCHANGED clockVars
    BY <1>a, <2>1, Zenon DEF clockVars
  <2>2. CASE TimePasses
    BY <1>a, <1>n, <2>2 DEF TimePasses, Least
  <2>3. CASE since_flush' \in {0, since_flush} /\ UNCHANGED <<since_ckpt, full_age>>
    BY <1>a, <1>n, <2>3
  <2>4. CASE Return
    <3>1. since_flush' = since_flush
      BY <2>4, Zenon DEF Return, clockVars
    <3>2. since_ckpt' \in {0, since_ckpt}
      BY <2>4, Zenon DEF Return, clockVars
    <3>3. full_age' \in {0, full_age, Least(full_age + since_ckpt, Cooldown)}
      BY <2>4, Zenon DEF Return, clockVars
    <3> QED
      BY <1>a, <1>n, <3>1, <3>2, <3>3 DEF Least
  <2>5. CASE DumpFull
    <3>1. since_flush' = since_flush /\ since_ckpt' = since_ckpt /\ full_age' \in {0, full_age}
      BY <2>5, Zenon DEF DumpFull, clockVars
    <3> QED
      BY <1>a, <1>n, <3>1
  <2>6. ASSUME NEW landed, Ends(landed) PROVE Clocks'
    BY <1>n, <2>6 DEF Ends
  <2>7. CASE Open
    <3>1. since_ckpt' \in {0, Cap} /\ since_flush' = Least(since_ckpt', FlushInterval)
          /\ full_age' = full_age
      BY <2>7, Zenon DEF Open
    <3> QED
      BY <1>a, <1>n, <3>1 DEF Least
  <2> QED
    BY <2>1, <2>2, <2>3, <2>4, <2>5, <2>6, <2>7, ZenonT(30)
       DEF Next, Put, RequestCooled, RequestJoins, ForceFlush, ForceCheckpoint, Tick,
           TickCheckpoint, TickFlush, TickFails, Step, OpenDelta, WriteDelta, PersistMeta,
           PurgeDeltas, Close, Crash, Recover, clockVars
<1>2. Gens'
  <2>1. CASE UNCHANGED <<generation, meta>>
    BY <1>a, <2>1, Zenon
  <2>2. CASE ForceCheckpoint \/ TickCheckpoint
    <3>1. BeginCheckpoint /\ meta' = meta
      BY <2>2, Zenon DEF ForceCheckpoint, TickCheckpoint, diskVars
    <3>2. \A b \in Bins : b <= num_bins => generation[b] < MaxGen
      <4>1. num_bins \in Nat
        BY <1>a, Numbers, Zenon
      <4>2. \A b \in Bins : b \in Nat /\ 1 <= b
        BY SchedulerAssumption DEF Bins
      <4> QED
        BY <3>1, <4>1, <4>2 DEF BeginCheckpoint, CheckpointsLeft
    <3>3. generation' = [b \in Bins |-> IF b <= num_bins THEN generation[b] + 1
                                                         ELSE generation[b]]
      BY <3>1, Zenon DEF BeginCheckpoint
    <3> QED
      BY <1>a, <1>n, <3>1, <3>2, <3>3
  <2>3. CASE PersistMeta
    <3>1. meta' = [meta EXCEPT ![cur] = generation[cur]] /\ generation' = generation
      BY <2>3, Zenon DEF PersistMeta
    <3> QED
      BY <1>a, <3>1, CurrentBin, Zenon
  <2>4. ASSUME NEW landed, Ends(landed) PROVE Gens'
    BY <1>a, <1>n, <2>4 DEF Ends, diskVars
  <2>5. CASE Open
    BY <1>a, <1>n, <2>5 DEF Open, diskVars
  <2> QED
    BY <2>1, <2>2, <2>3, <2>4, <2>5, Zenon
       DEF Next, Put, RequestCooled, RequestJoins, TimePasses, ForceFlush, Tick, TickFlush,
           TickFails, Step, OpenDelta, WriteDelta, DumpFull, PurgeDeltas, Close, Crash, Recover,
           diskVars
<1>3. opens' \in 1 .. MaxOpens
  <2>1. CASE UNCHANGED opens
    BY <1>a, <2>1, Zenon DEF CountersTyped
  <2>2. CASE Open
    BY <1>a, <2>2, SchedulerAssumption DEF Open, CountersTyped
  <2> QED
    BY <2>1, <2>2, Zenon
       DEF Next, Put, RequestCooled, RequestJoins, TimePasses, ForceFlush, ForceCheckpoint, Tick,
           TickCheckpoint, TickFlush, TickFails, Step, OpenDelta, WriteDelta, PersistMeta,
           DumpFull, PurgeDeltas, Close, Crash, Ends, Recover, procVars
<1> QED
  BY <1>1, <1>2, <1>3, Zenon DEF CountersTyped

\* A request is answered with the id of the last full checkpoint or of the one
\* just made (ckpt_scheduler_request_full, ckpt_scheduler_force_checkpoint).
LEMMA AnswersTypedStep ==
  ASSUME RecoverInv, TypeInv, Next
  PROVE  AnswersTyped'
<1> USE DEF AnswersTyped
<1>a. AnswersTyped
  BY Zenon DEF TypeInv
<1>b. current_epoch \in 0 .. MaxGen /\ last_full_generation \in 0 .. MaxGen
  BY EpochBounded, Zenon DEF RecoverInv, TypeInv
<1>1. CASE UNCHANGED response
  BY <1>a, <1>1, Zenon
<1>2. ASSUME NEW r \in Requests, RequestCooled(r) \/ RequestJoins(r) PROVE AnswersTyped'
  BY <1>a, <1>b, <1>2, Zenon DEF RequestCooled, RequestJoins
<1>3. CASE Broadcast
  BY <1>a, <1>b, <1>3, Zenon DEF Broadcast
<1>4. ASSUME NEW landed, Ends(landed) PROVE AnswersTyped'
  BY <1>4, Zenon DEF Ends
<1> QED
  BY <1>1, <1>2, <1>3, <1>4, Zenon
     DEF Next, Put, TimePasses, ForceFlush, ForceCheckpoint, Tick, TickCheckpoint, TickFlush,
         TickFails, Step, OpenDelta, WriteDelta, PersistMeta, DumpFull, PurgeDeltas, Close, Crash,
         Open, Recover, fullVars

\* The epoch is raised once the last delta of a checkpoint is complete, which
\* raised every generation when it began; a full checkpoint takes its id from
\* the epoch (graveldb_checkpoint, ckpt_scheduler_force_checkpoint).
LEMMA EpochInvStep ==
  ASSUME RecoverInv, TypeInv, Next
  PROVE  EpochInv'
<1> USE DEF EpochInv, DuringDeltas
<1>a. Typed /\ EpochInv /\ GenerationAhead
  BY Zenon DEF RecoverInv, TypeInv
<1>n. /\ num_bins \in Nat /\ current_epoch \in Nat /\ last_full_generation \in Nat
      /\ \A b \in Configured : b \in 1 .. num_bins /\ generation[b] \in Nat
      /\ \A b \in 1 .. num_bins : b \in Bins /\ generation[b] \in Nat
  <2>1. num_bins \in NumConfigured .. NumBins /\ num_bins \in Nat
    BY <1>a, SchedulerAssumption DEF Typed
  <2>2. \A b \in 1 .. num_bins : b \in Bins
    BY <2>1, SchedulerAssumption DEF Bins
  <2>3. \A b \in Configured : b \in 1 .. num_bins
    BY <2>1, SchedulerAssumption DEF Configured
  <2> QED
    BY <1>a, <2>1, <2>2, <2>3, Zenon DEF Typed
<1>1. CASE UNCHANGED <<open, generation, current_epoch, last_full_generation, at, num_bins>>
  BY <1>a, <1>1, Zenon
<1>2. ASSUME NEW b \in Bins, NEW p \in Pages, Put(b, p) PROVE EpochInv'
  <2>1. at = "idle" /\ UNCHANGED <<open, generation, current_epoch, last_full_generation, at>>
    BY <1>2, Zenon DEF Put, Idle, fullVars
  <2> QED
    BY <1>a, <2>1, Zenon
<1>3. CASE ForceCheckpoint \/ TickCheckpoint
  <2>1. open /\ UNCHANGED <<open, num_bins, current_epoch, last_full_generation>>
    BY <1>3, Zenon DEF ForceCheckpoint, TickCheckpoint, Idle, procVars, fullVars
  <2>2. /\ generation' = [b \in Bins |-> IF b <= num_bins THEN generation[b] + 1
                                                          ELSE generation[b]]
        /\ at' = "open_delta"
    BY <1>3, Zenon DEF ForceCheckpoint, TickCheckpoint, BeginCheckpoint
  <2>3. \A b \in 1 .. num_bins : generation'[b] = generation[b] + 1
    BY <1>n, <2>2
  <2>4. \A b \in Configured : generation'[b] = generation[b] + 1
    BY <1>n, <2>3, Zenon
  <2>5. \A b \in Configured : current_epoch < generation[b] + 1
    BY <1>a, <1>n, <2>1
  <2>6. \A b \in 1 .. num_bins : generation[b] + 1 > 0
    BY <1>n
  <2>7. \A b \in Configured : current_epoch <= generation[b] + 1
    BY <1>a, <1>n, <2>1
  <2> QED
    BY <1>a, <2>1, <2>2, <2>3, <2>4, <2>5, <2>6, <2>7, Zenon
<1>4. CASE WriteDelta
  <2>1. /\ open /\ at = "write_delta"
        /\ UNCHANGED <<open, num_bins, generation, last_full_generation>>
        /\ \/ at' = "open_delta" /\ current_epoch' = current_epoch
           \/ at' = "meta" /\ current_epoch' = current_epoch + 1
    BY <1>4, Zenon DEF WriteDelta, procVars, fullVars
  <2>2. \A b \in Configured : current_epoch + 1 <= generation[b]
    BY <1>a, <1>n, <2>1
  <2>3. last_full_generation <= current_epoch + 1 /\ current_epoch + 1 > 0
    BY <1>a, <1>n
  <2> QED
    BY <1>a, <2>1, <2>2, <2>3, Zenon
<1>5. CASE OpenDelta
  BY <1>a, <1>5, Zenon DEF OpenDelta, procVars, fullVars
<1>6. CASE PersistMeta \/ PurgeDeltas
  <2>1. /\ at \in {"meta", "purge"} /\ at' \in {"meta", "full", "purge", "idle"}
        /\ UNCHANGED <<open, num_bins, generation, current_epoch, last_full_generation>>
    BY <1>6, Zenon DEF PersistMeta, PurgeDeltas, Advance, procVars, fullVars
  <2> QED
    BY <1>a, <2>1, Zenon
<1>7. CASE DumpFull
  <2>1. /\ open /\ at = "full" /\ at' \in {"full", "purge"}
        /\ UNCHANGED <<open, num_bins, generation, current_epoch>>
        /\ last_full_generation' \in {current_epoch, last_full_generation}
    BY <1>7, Zenon DEF DumpFull, Advance, procVars, fullVars
  <2>2. last_full_generation' <= current_epoch
    BY <1>a, <1>n, <2>1
  <2> QED
    BY <1>a, <2>1, <2>2, Zenon
<1>8. ASSUME NEW landed, Ends(landed) PROVE EpochInv'
  BY <1>8 DEF Ends
<1>9. CASE Open
  <2>1. /\ ~open /\ UNCHANGED <<at, num_bins, current_epoch, last_full_generation>>
        /\ \A b \in Configured : generation'[b] \in Nat
    BY <1>9, <1>a, ConfiguredBins, Zenon DEF Open, fullVars, Configured, Typed
  <2>2. at = "idle"
    BY <1>a, <2>1, Zenon DEF GenerationAhead
  <2>3. current_epoch = 0 /\ last_full_generation = 0
    BY <1>a, <2>1, Zenon
  <2>4. \A b \in Configured : current_epoch' <= generation'[b]
    BY <2>1, <2>3
  <2> QED
    BY <1>9, <2>1, <2>2, <2>3, <2>4 DEF Open
<1> QED
  BY <1>1, <1>2, <1>3, <1>4, <1>5, <1>6, <1>7, <1>8, <1>9, Zenon
     DEF Next, RequestCooled, RequestJoins, TimePasses, ForceFlush, Tick, TickFlush,
         TickFails, Step, Close, Crash, Recover, procVars, fullVars

\* TypeInv is an invariant of the scheduler.
THEOREM TypeInvHolds == Spec => []TypeInv
<1>1. RecoverInv /\ TypeInv /\ [Next]_vars => TypeInv'
  <2>1. ASSUME RecoverInv, TypeInv, Next PROVE TypeInv'
    BY <2>1, PagesTypedStep, FilesTypedStep, DumpsTypedStep, CountersTypedStep, FlagsTypedStep,
       EpochInvStep, AnswersTypedStep, Zenon DEF TypeInv
  <2>2. ASSUME TypeInv, UNCHANGED vars PROVE TypeInv'
    BY <2>2, Zenon
       DEF TypeInv, PagesTyped, FilesTyped, DumpsTyped, CountersTyped, FlagsTyped, EpochInv,
           DuringDeltas, AnswersTyped, Content, Limit, vars, procVars, dataVars, diskVars,
           clockVars, fullVars
  <2> QED
    BY <2>1, <2>2, Zenon
<1> QED
  BY <1>1, TypeInvInit, RecoverInvHolds, PTL DEF Spec

\* The variables of the scheduler have their types: page contents never exceed
\* what was put, generations and epochs the checkpoints taken, and no file
\* holds anything else.
THEOREM SchedulerTypeOK == Spec => []TypeOK
<1>1. RecoverInv /\ TypeInv => TypeOK
  BY TypeInvImplies, Zenon DEF RecoverInv
<1> QED
  BY <1>1, TypeInvHolds, RecoverInvHolds, PTL
-----------------------------------------------------------------------------
(* The newest full dump and the deltas above it restore the last          *)
(* checkpoint.                                                             *)

\* The delta of the bin for the checkpoint in progress is not complete yet.
DeltaDue(b) == DuringDeltas /\ b >= cur

\* A delta of the bin has been completed since the database was opened.
Snapped(b) == current_epoch > 0 \/ (DuringDeltas /\ b < cur)

\* The bin has a full dump made since the database was opened.
Dumped(b) == last_full_generation > 0 \/ (at = "full" /\ b < cur)

\* No file of an earlier session is above the bin's generation, and the one
\* that the checkpoint in progress will write counts for nothing yet.
NoStaleFile(b) ==
  Snapped(b) =>
    /\ \A g \in DOMAIN deltas[b] : g <= generation[b]
    /\ DeltaDue(b) /\ generation[b] \in DOMAIN deltas[b] => DOMAIN deltas[b][generation[b]] = {}

\* A page that the data file has otherwise than the last complete delta left
\* it is in a dirty set, and will be in the next delta.
ChangesTracked(b) ==
  Snapped(b) => \A p \in Pages :
    /\ DeltaDue(b) /\ p \notin frozen[b] => file[b][p] = snap[b][p]
    /\ ~DeltaDue(b) => \/ at = "idle" /\ p \in active[b]
                       \/ file[b][p] = snap[b][p] /\ mem[b][p] = snap[b][p]

\* Purges stay below the dump, the deltas to come are above it, and the chain
\* gives the last complete delta's pages.
ChainWhole(b) ==
  Dumped(b) =>
    /\ full[b].gen \in Nat /\ last_full_generation <= full[b].gen
    /\ full[b].gen <= generation[b] /\ (DuringDeltas => full[b].gen < generation[b])
    /\ \A p \in Pages : Replayed(deltas[b], full[b].gen, full[b].data)[p] = snap[b][p]

ChainInv ==
  open => \A b \in Configured : NoStaleFile(b) /\ ChangesTracked(b) /\ ChainWhole(b)

\* All the invariants of the scheduler that a step relies on.
SchedulerInv == RecoverInv /\ WaitInv /\ TypeInv /\ ChainInv
-----------------------------------------------------------------------------
\* The numbers that the chain of a configured bin is made of.
LEMMA ChainNumbers ==
  ASSUME SchedulerInv, NEW b \in Configured
  PROVE  /\ b \in Nat /\ 1 <= b /\ b <= num_bins /\ b \in Bins
         /\ num_bins \in Nat /\ cur \in Nat /\ 1 <= cur /\ cur <= num_bins /\ cur \in Bins
         /\ generation[b] \in Nat /\ current_epoch \in Nat /\ last_full_generation \in Nat
         /\ MaxGen \in Nat /\ DOMAIN deltas[b] \subseteq 1 .. MaxGen
<1>1. Typed /\ TypeInv
  BY Zenon DEF SchedulerInv, RecoverInv
<1>2. b \in Bins
  BY ConfiguredBins, Zenon
<1>3. DOMAIN deltas[b] \subseteq 1 .. MaxGen /\ MaxGen \in Nat
  BY <1>1, <1>2, SchedulerAssumption, Zenon DEF TypeInv, FilesTyped
<1>4. cur \in 1 .. num_bins /\ current_epoch \in Nat /\ last_full_generation \in Nat
  BY <1>1, Zenon DEF Typed
<1>5. cur \in Bins
  BY <1>1, CurrentBin, Zenon
<1> QED
  BY <1>1, <1>2, <1>3, <1>4, <1>5, Numbers

\* How far a checkpoint is with the delta of a bin, before and after its delta
\* is completed (graveldb_checkpoint).
LEMMA WriteDeltaPhase ==
  ASSUME SchedulerInv, WriteDelta, NEW b \in Configured
  PROVE  /\ DuringDeltas /\ generation[b] = meta[b] + 1 /\ meta[b] \in Nat
         /\ b # cur /\ Snapped(b)' => Snapped(b)
         /\ b # cur => (DeltaDue(b)' <=> DeltaDue(b))
         /\ b = cur => ~DeltaDue(b)'
         /\ b = cur => DeltaDue(b)
         /\ at' # "idle"
<1> USE DEF DuringDeltas, DeltaDue, Snapped
<1>n. /\ b \in Nat /\ 1 <= b /\ b <= num_bins /\ num_bins \in Nat
      /\ cur \in Nat /\ cur <= num_bins /\ current_epoch \in Nat
  BY ChainNumbers, Zenon
<1>1. /\ open /\ at = "write_delta"
      /\ \/ at' = "open_delta" /\ cur' = cur + 1 /\ current_epoch' = current_epoch
         \/ at' = "meta" /\ cur = num_bins
  BY <1>n DEF WriteDelta
<1>2. generation[b] = meta[b] + 1 /\ meta[b] \in Nat
  BY <1>1, Numbers, Zenon DEF SchedulerInv, RecoverInv, GenerationAhead, MetaDue
<1> QED
  BY <1>n, <1>1, <1>2

\* While .meta files, dumps or purges are under way, every bin's delta is
\* complete (ckpt_scheduler_force_checkpoint).
LEMMA LatePhase ==
  ASSUME SchedulerInv, PersistMeta \/ DumpFull \/ PurgeDeltas
  PROVE  /\ open /\ current_epoch > 0 /\ at # "idle" /\ ~DuringDeltas /\ ~DuringDeltas'
         /\ UNCHANGED <<current_epoch, generation, dataVars, snap>>
<1>1. /\ open /\ at \in {"meta", "full", "purge"} /\ at' \in {"meta", "full", "purge", "idle"}
      /\ UNCHANGED <<current_epoch, generation, dataVars, snap>>
  BY Zenon DEF PersistMeta, DumpFull, PurgeDeltas, Advance
<1> QED
  BY <1>1, Zenon DEF DuringDeltas, SchedulerInv, TypeInv, EpochInv

\* What the beginning of a checkpoint does to a configured bin.
LEMMA BeginPhase ==
  ASSUME SchedulerInv, ForceCheckpoint \/ TickCheckpoint, NEW b \in Configured
  PROVE  /\ open /\ at = "idle" /\ ~DuringDeltas /\ DuringDeltas'
         /\ cur' = 1 /\ DeltaDue(b)' /\ (Snapped(b)' => Snapped(b)) /\ (Dumped(b)' => Dumped(b))
         /\ generation'[b] = generation[b] + 1
         /\ frozen'[b] = active[b]
         /\ file'[b] = mem[b]
         /\ UNCHANGED <<current_epoch, deltas, full, last_full_generation, snap>>
<1>n. /\ b \in Nat /\ 1 <= b /\ b <= num_bins /\ b \in Bins /\ num_bins \in Nat
  BY ChainNumbers, Zenon
<1>1. /\ open /\ at = "idle" /\ BeginCheckpoint
      /\ UNCHANGED <<current_epoch, deltas, full, last_full_generation, snap>>
  BY Zenon DEF ForceCheckpoint, TickCheckpoint, Idle, diskVars, fullVars
<1>2. /\ at' = "open_delta" /\ cur' = 1
      /\ generation'[b] = generation[b] + 1 /\ frozen'[b] = active[b]
  BY <1>n, <1>1, Zenon DEF BeginCheckpoint
<1>3. file'[b] = mem[b]
  <2>1. file'[b] = [p \in Pages |-> mem[b][p]]
    BY <1>n, <1>1, Zenon DEF BeginCheckpoint, WriteBack, Written, Cells
  <2>2. mem[b] \in [Pages -> Nat]
    BY Zenon DEF SchedulerInv, RecoverInv, Typed
  <2> QED
    BY <2>1, <2>2, Zenon
<1> QED
  BY <1>n, <1>1, <1>2, <1>3 DEF DuringDeltas, DeltaDue, Snapped, Dumped

\* The steps that are not about checkpoints.
QuietStep ==
  \/ \E b \in Bins, p \in Pages : Put(b, p)
  \/ \E r \in Requests : RequestCooled(r) \/ RequestJoins(r)
  \/ TimePasses \/ ForceFlush \/ TickFlush \/ TickFails

\* They leave the files of a checkpoint and its progress alone.
LEMMA QuietPhase ==
  ASSUME QuietStep
  PROVE  /\ open /\ at = "idle"
         /\ UNCHANGED <<open, frozen, generation, current_epoch, diskVars, at, cur,
                        last_full_generation, snap>>
BY Zenon DEF QuietStep, Put, RequestCooled, RequestJoins, TimePasses, ForceFlush, TickFlush,
   TickFails, Idle, procVars, dataVars, fullVars, WriteBack

\* The steps after which the database is closed, or has just been opened or
\* recovered, when no chain has begun.
LEMMA NoChainYet ==
  ASSUME SchedulerInv, Close \/ Crash \/ Open \/ Recover
  PROVE  ChainInv'
<1> USE DEF ChainInv
<1>1. CASE Close \/ Crash
  BY <1>1, Zenon DEF Close, Crash, Ends
<1>2. CASE Open \/ Recover
  <2>1. /\ current_epoch = 0 /\ last_full_generation = 0 /\ at = "idle"
    <3>1. CASE Open
      BY <3>1, Zenon DEF Open, SchedulerInv, RecoverInv, GenerationAhead, TypeInv, EpochInv
    <3>2. CASE Recover
      <4>1. current_epoch = 0 /\ at = "idle"
        BY <3>2, Zenon DEF Recover, Idle
      <4>2. last_full_generation \in Nat /\ last_full_generation <= current_epoch
        BY Zenon DEF SchedulerInv, RecoverInv, Typed, TypeInv, EpochInv
      <4> QED
        BY <4>1, <4>2
    <3> QED
      BY <1>2, <3>1, <3>2, Zenon
  <2>2. UNCHANGED <<current_epoch, last_full_generation, at>>
    BY <1>2, Zenon DEF Open, Recover, fullVars
  <2>3. \A b \in Configured : ~Snapped(b)' /\ ~Dumped(b)'
    BY <2>1, <2>2 DEF Snapped, Dumped, DuringDeltas
  <2> QED
    BY <2>3, Zenon DEF NoStaleFile, ChangesTracked, ChainWhole
<1> QED
  BY <1>1, <1>2, Zenon

\* The delta files of a bin after one was written (ckpt_dump_delta).
LEMMA FileWritten ==
  ASSUME Typed, NEW b \in Bins, NEW content,
         deltas' = [deltas EXCEPT ![cur] = WithFile(@, generation[cur], content)]
  PROVE  /\ b # cur => deltas'[b] = deltas[b]
         /\ b = cur => /\ DOMAIN deltas'[b] = DOMAIN deltas[b] \cup {generation[b]}
                       /\ deltas'[b][generation[b]] = content
                       /\ \A g \in DOMAIN deltas[b] : g # generation[b] => deltas'[b][g] = deltas[b][g]
<1>1. b # cur => deltas'[b] = deltas[b]
  BY Zenon DEF Typed
<1>2. b = cur => deltas'[b] = WithFile(deltas[b], generation[b], content)
  BY Zenon DEF Typed
<1> QED
  BY <1>1, <1>2, Zenon DEF WithFile

\* The delta files of a bin after a purge (ckpt_purge_old_deltas).
LEMMA FilesPurged ==
  ASSUME Typed, PurgeDeltas, NEW b \in Bins
  PROVE  /\ DOMAIN deltas'[b] \subseteq DOMAIN deltas[b]
         /\ \A g \in DOMAIN deltas[b] : g > last_full_generation => g \in DOMAIN deltas'[b]
         /\ \A g \in DOMAIN deltas'[b] : deltas'[b][g] = deltas[b][g]
<1>1. \/ deltas'[b] = deltas[b]
      \/ deltas'[b] = KeptDeltas(deltas[b], last_full_generation)
  BY Zenon DEF PurgeDeltas, Typed
<1> QED
  BY <1>1, Zenon DEF KeptDeltas

\* A file that a crashed session left behind has the generation that the next
\* checkpoint takes, and is replaced before the epoch is raised.
LEMMA NoStaleFileStep ==
  ASSUME SchedulerInv, Next, open, open', NEW b \in Configured,
         ~(Open \/ Recover)
  PROVE  NoStaleFile(b)'
<1> SUFFICES ASSUME Snapped(b)'
             PROVE  /\ \A g \in DOMAIN deltas'[b] : g <= generation'[b]
                    /\ DeltaDue(b)' /\ generation'[b] \in DOMAIN deltas'[b] =>
                         DOMAIN deltas'[b][generation'[b]] = {}
  BY Zenon DEF NoStaleFile
<1>n. /\ b \in Bins /\ generation[b] \in Nat /\ MaxGen \in Nat /\ DOMAIN deltas[b] \subseteq 1 .. MaxGen
      /\ cur \in Bins
  BY ChainNumbers, Zenon
<1>t. Typed /\ NoStaleFile(b)
  BY Zenon DEF SchedulerInv, RecoverInv, ChainInv
<1>1. CASE QuietStep
  BY <1>t, <1>1, QuietPhase, Zenon DEF NoStaleFile, Snapped, DeltaDue, DuringDeltas, diskVars
<1>2. CASE ForceCheckpoint \/ TickCheckpoint
  <2>1. Snapped(b) /\ generation'[b] = generation[b] + 1 /\ deltas' = deltas
    BY <1>2, BeginPhase, Zenon
  <2>2. \A g \in DOMAIN deltas[b] : g <= generation[b]
    BY <1>t, <2>1, Zenon DEF NoStaleFile
  <2> QED
    BY <1>n, <2>1, <2>2
<1>3. CASE OpenDelta
  <2>1. /\ UNCHANGED <<generation, current_epoch, cur>> /\ DuringDeltas /\ DuringDeltas'
        /\ deltas' = [deltas EXCEPT ![cur] = WithFile(@, generation[cur], <<>>)]
    BY <1>3, Zenon DEF OpenDelta, DuringDeltas
  <2>2. Snapped(b) /\ (DeltaDue(b)' <=> DeltaDue(b))
    BY <2>1, Zenon DEF Snapped, DeltaDue
  <2>3. DOMAIN <<>> = {}
    OBVIOUS
  <2>4. CASE b # cur
    BY <1>n, <1>t, <2>1, <2>2, <2>4, FileWritten, Zenon DEF NoStaleFile
  <2>5. CASE b = cur
    <3>1. /\ DOMAIN deltas'[b] = DOMAIN deltas[b] \cup {generation[b]}
          /\ deltas'[b][generation[b]] = <<>>
      BY <1>n, <1>t, <2>1, <2>5, FileWritten, ZenonT(60)
    <3>2. \A g \in DOMAIN deltas[b] : g <= generation[b]
      BY <1>t, <2>2, Zenon DEF NoStaleFile
    <3> QED
      BY <1>n, <2>1, <2>3, <3>1, <3>2
  <2> QED
    BY <2>4, <2>5, Zenon
<1>4. CASE WriteDelta
  <2>1. /\ generation' = generation
        /\ deltas' = [deltas EXCEPT ![cur] = WithFile(@, generation[cur], DumpedDelta(cur))]
    BY <1>4, Zenon DEF WriteDelta
  <2>2. CASE b # cur
    <3>1. Snapped(b) /\ (DeltaDue(b)' <=> DeltaDue(b))
      BY <1>4, <2>2, WriteDeltaPhase, Zenon
    <3> QED
      BY <1>n, <1>t, <2>1, <2>2, <3>1, FileWritten, Zenon DEF NoStaleFile
  <2>3. CASE b = cur
    <3>1. ~DeltaDue(b)' /\ generation[b] = meta[b] + 1
      BY <1>4, <2>3, WriteDeltaPhase, Zenon
    <3>2. DOMAIN deltas'[b] = DOMAIN deltas[b] \cup {generation[b]}
      BY <1>n, <1>t, <2>1, <2>3, FileWritten, Zenon
    <3>3. \A g \in DOMAIN deltas[b] : g <= generation[b]
      BY <3>1, Zenon DEF SchedulerInv, RecoverInv, OneNewDelta
    <3> QED
      <4>1. generation[b] <= generation[b] /\ generation'[b] = generation[b]
        BY <1>n, <2>1
      <4> QED
        BY <3>1, <3>2, <3>3, <4>1, Zenon
  <2> QED
    BY <2>2, <2>3, Zenon
<1>5. CASE PersistMeta \/ DumpFull \/ PurgeDeltas
  <2>1. Snapped(b) /\ ~DeltaDue(b)' /\ generation' = generation
    BY <1>5, LatePhase, Zenon DEF Snapped, DeltaDue
  <2>2. \A g \in DOMAIN deltas[b] : g <= generation[b]
    BY <1>t, <2>1, Zenon DEF NoStaleFile
  <2>3. CASE UNCHANGED deltas
    BY <2>1, <2>2, <2>3, Zenon
  <2>4. CASE PurgeDeltas
    BY <1>n, <1>t, <2>1, <2>2, <2>4, FilesPurged, Zenon
  <2> QED
    BY <1>5, <2>3, <2>4, Zenon DEF PersistMeta, DumpFull
<1> QED
  BY <1>1, <1>2, <1>3, <1>4, <1>5, Zenon
     DEF Next, QuietStep, Tick, Step, Close, Crash, Ends

\* A put marks the page it changes, a flush changes no page's content for the
\* reader, and a checkpoint freezes the marks and writes the pages they name.
LEMMA ChangesTrackedStep ==
  ASSUME SchedulerInv, Next, open, open', NEW b \in Configured,
         ~(Open \/ Recover)
  PROVE  ChangesTracked(b)'
<1> SUFFICES ASSUME Snapped(b)', NEW p \in Pages
             PROVE  /\ DeltaDue(b)' /\ p \notin frozen'[b] => file'[b][p] = snap'[b][p]
                    /\ ~DeltaDue(b)' => \/ at' = "idle" /\ p \in active'[b]
                                        \/ file'[b][p] = snap'[b][p] /\ mem'[b][p] = snap'[b][p]
  BY Zenon DEF ChangesTracked
<1>n. b \in Bins /\ cur \in Bins
  BY ChainNumbers, Zenon
<1>t. Typed /\ ChangesTracked(b) /\ (at # "idle" => mem = file)
  BY Zenon DEF SchedulerInv, RecoverInv, ChainInv, WaitInv
<1>1. CASE QuietStep
  <2>1. at' = "idle" /\ at = "idle" /\ Snapped(b) /\ ~DeltaDue(b) /\ ~DeltaDue(b)' /\ snap' = snap
    BY <1>1, QuietPhase, Zenon DEF Snapped, DeltaDue, DuringDeltas
  <2>2. \/ p \in active[b]
        \/ file[b][p] = snap[b][p] /\ mem[b][p] = snap[b][p]
    BY <1>t, <2>1, Zenon DEF ChangesTracked
  <2>3. ASSUME NEW c \in Bins, NEW q \in Pages, Put(c, q)
        PROVE  p \in active'[b] \/ (file'[b][p] = snap[b][p] /\ mem'[b][p] = snap[b][p])
    <3>1. /\ file' = file /\ mem' = [mem EXCEPT ![c][q] = @ + 1]
          /\ active' = [active EXCEPT ![c] = @ \cup {q}]
      BY <2>3, Zenon DEF Put
    <3>2. CASE c = b /\ q = p
      BY <1>n, <1>t, <3>1, <3>2, Zenon DEF Typed
    <3>3. CASE ~(c = b /\ q = p)
      <4>1. mem'[b][p] = mem[b][p]
        BY <1>n, <1>t, <3>1, <3>3, Zenon DEF Typed
      <4>2. p \in active[b] => p \in active'[b]
        BY <1>n, <1>t, <3>1, Zenon DEF Typed
      <4> QED
        BY <2>2, <3>1, <4>1, <4>2, Zenon
    <3> QED
      BY <3>2, <3>3, Zenon
  <2>4. ASSUME NEW landed, WriteBack(landed), active' = active
        PROVE  p \in active'[b] \/ (file'[b][p] = snap[b][p] /\ mem'[b][p] = snap[b][p])
    <3>1. file'[b][p] \in {mem[b][p], file[b][p]} /\ mem' = file'
      BY <1>t, <2>4, WrittenType, Zenon DEF WriteBack
    <3> QED
      BY <2>2, <2>4, <3>1, Zenon
  <2>5. CASE UNCHANGED dataVars
    BY <2>1, <2>2, <2>5, Zenon DEF dataVars
  <2> QED
    BY <1>1, <2>1, <2>3, <2>4, <2>5, Zenon
       DEF QuietStep, RequestCooled, RequestJoins, TimePasses, ForceFlush, TickFlush, TickFails
<1>2. CASE ForceCheckpoint \/ TickCheckpoint
  <2>1. /\ at = "idle" /\ Snapped(b) /\ ~DeltaDue(b) /\ DeltaDue(b)' /\ frozen'[b] = active[b]
        /\ file'[b] = mem[b] /\ snap' = snap
    BY <1>2, BeginPhase, Zenon DEF DeltaDue
  <2>2. p \notin active[b] => mem[b][p] = snap[b][p]
    BY <1>t, <2>1, Zenon DEF ChangesTracked
  <2> QED
    BY <2>1, <2>2, Zenon
<1>3. CASE OpenDelta
  <2>1. /\ UNCHANGED <<current_epoch, cur, dataVars, snap>> /\ DuringDeltas /\ DuringDeltas'
        /\ at # "idle"
    BY <1>3, Zenon DEF OpenDelta, DuringDeltas
  <2>2. Snapped(b) /\ (DeltaDue(b)' <=> DeltaDue(b))
    BY <2>1, Zenon DEF Snapped, DeltaDue
  <2> QED
    BY <1>t, <2>1, <2>2, Zenon DEF ChangesTracked, dataVars
<1>4. CASE WriteDelta
  <2>1. at # "idle" /\ UNCHANGED dataVars /\ snap' = [snap EXCEPT ![cur] = file[cur]]
    BY <1>4, Zenon DEF WriteDelta
  <2>2. CASE b # cur
    <3>1. Snapped(b) /\ (DeltaDue(b)' <=> DeltaDue(b))
      BY <1>4, <2>2, WriteDeltaPhase, Zenon
    <3>2. snap'[b] = snap[b]
      BY <1>n, <1>t, <2>1, <2>2, Zenon DEF Typed
    <3> QED
      BY <1>t, <2>1, <3>1, <3>2, Zenon DEF ChangesTracked, dataVars
  <2>3. CASE b = cur
    <3>1. snap'[b] = file[b] /\ mem = file
      BY <1>n, <1>t, <2>1, <2>3, Zenon DEF Typed
    <3> QED
      BY <2>1, <3>1, Zenon DEF dataVars
  <2> QED
    BY <2>2, <2>3, Zenon
<1>5. CASE PersistMeta \/ DumpFull \/ PurgeDeltas
  <2>1. /\ Snapped(b) /\ ~DeltaDue(b) /\ ~DeltaDue(b)' /\ at # "idle"
        /\ UNCHANGED <<dataVars, snap>>
    BY <1>5, LatePhase, Zenon DEF Snapped, DeltaDue
  <2> QED
    BY <1>t, <2>1, Zenon DEF ChangesTracked, dataVars
<1> QED
  BY <1>1, <1>2, <1>3, <1>4, <1>5, Zenon
     DEF Next, QuietStep, Tick, Step, Close, Crash, Ends

\* Replaying either directory gives page p the same content.
SamePage(files, files2, base, data, p) ==
  Replayed(files2, base, data)[p] = Replayed(files, base, data)[p]

\* Replaying depends only on the files above base that hold a page.
LEMMA SameChain ==
  ASSUME NEW files, NEW files2, NEW base, NEW data, NEW p \in Pages, NEW n \in Nat,
         DOMAIN files \subseteq 0 .. n, DOMAIN files2 \subseteq 0 .. n,
         Holding(files2, base, p) = Holding(files, base, p),
         \A g \in Holding(files, base, p) : files2[g][p] = files[g][p]
  PROVE  SamePage(files, files2, base, data, p)
<1>0. LastWins(files, base, data, p) /\ LastWins(files2, base, data, p)
  BY ReplayedAt, Zenon
<1>1. CASE Holding(files, base, p) = {}
  BY <1>0, <1>1, Zenon DEF LastWins, SamePage
<1>2. CASE Holding(files, base, p) # {}
  <2>1. PICK g \in Holding(files, base, p) :
          /\ \A h \in Holding(files, base, p) : h <= g
          /\ Replayed(files, base, data)[p] = files[g][p]
    BY <1>0, <1>2, Zenon DEF LastWins
  <2>2. PICK g2 \in Holding(files, base, p) :
          /\ \A h \in Holding(files, base, p) : h <= g2
          /\ Replayed(files2, base, data)[p] = files2[g2][p]
    BY <1>0, <1>2, Zenon DEF LastWins
  <2>3. g \in 0 .. n /\ g2 \in 0 .. n
    BY <2>1, <2>2, Zenon DEF Holding
  <2>4. g = g2
    BY <2>1, <2>2, <2>3
  <2> QED
    BY <2>1, <2>2, <2>4, Zenon DEF SamePage
<1> QED
  BY <1>1, <1>2, Zenon

\* The directory gets a delta g above base and above all its files, which may
\* replace an empty one of that number.
Added(files, files2, base, g, delta) ==
  /\ g \in Nat /\ base \in Nat /\ base < g /\ DOMAIN files \subseteq 0 .. g
  /\ g \in DOMAIN files => DOMAIN files[g] = {}
  /\ DOMAIN files2 = DOMAIN files \cup {g} /\ files2[g] = delta
  /\ \A h \in DOMAIN files : h # g => files2[h] = files[h]

\* The directory loses files, none of them above base.
Purged(files, files2, base) ==
  /\ DOMAIN files2 \subseteq DOMAIN files
  /\ \A h \in DOMAIN files : h > base => h \in DOMAIN files2
  /\ \A h \in DOMAIN files2 : files2[h] = files[h]

\* The delta decides page p if it holds it, and else p is as before.
Decided(files, files2, base, data, p, delta) ==
  /\ p \in DOMAIN delta => Replayed(files2, base, data)[p] = delta[p]
  /\ p \notin DOMAIN delta => Replayed(files2, base, data)[p] = Replayed(files, base, data)[p]

\* A new delta, numbered above all others, decides the pages it holds and no
\* others (ckpt_dump_delta).
LEMMA ReplayAdded ==
  ASSUME NEW files, NEW files2, NEW base, NEW data, NEW p \in Pages, NEW g, NEW delta,
         Added(files, files2, base, g, delta)
  PROVE  Decided(files, files2, base, data, p, delta)
<1>1. g \in Nat /\ DOMAIN files \subseteq 0 .. g /\ DOMAIN files2 \subseteq 0 .. g
  BY DEF Added
<1>2. CASE p \in DOMAIN delta
  <2>1. g \in Holding(files2, base, p) /\ Holding(files2, base, p) # {}
    BY <1>2, Zenon DEF Holding, Added
  <2>2. \A h \in Holding(files2, base, p) : h <= g
    BY <1>1 DEF Holding
  <2>3. PICK last \in Holding(files2, base, p) :
          /\ \A h \in Holding(files2, base, p) : h <= last
          /\ Replayed(files2, base, data)[p] = files2[last][p]
    <3>1. LastWins(files2, base, data, p)
      BY <1>1, ReplayedAt, Zenon
    <3> QED
      BY <2>1, <3>1, Zenon DEF LastWins
  <2>4. last \in 0 .. g
    BY <1>1, <2>3, Zenon DEF Holding
  <2>5. g <= last /\ last <= g
    BY <2>1, <2>2, <2>3, Zenon
  <2>6. last = g
    BY <1>1, <2>4, <2>5
  <2> QED
    BY <1>2, <2>3, <2>6, Zenon DEF Added, Decided
<1>3. CASE p \notin DOMAIN delta
  <2>1. Holding(files2, base, p) = Holding(files, base, p)
    BY <1>3, Zenon DEF Holding, Added
  <2>2. \A h \in Holding(files, base, p) : files2[h][p] = files[h][p]
    BY Zenon DEF Holding, Added
  <2>3. SamePage(files, files2, base, data, p)
    BY <1>1, <2>1, <2>2, SameChain, Zenon
  <2> QED
    BY <1>3, <2>3, Zenon DEF Decided, SamePage
<1> QED
  BY <1>2, <1>3, Zenon

\* Files at or below the dump make no difference (ckpt_purge_old_deltas).
LEMMA ReplayPurged ==
  ASSUME NEW files, NEW files2, NEW base, NEW data, NEW p \in Pages, NEW n \in Nat,
         DOMAIN files \subseteq 0 .. n, Purged(files, files2, base)
  PROVE  SamePage(files, files2, base, data, p)
<1>1. DOMAIN files2 \subseteq 0 .. n
  BY Zenon DEF Purged
<1>2. Holding(files2, base, p) = Holding(files, base, p)
  BY Zenon DEF Holding, Purged
<1>3. \A h \in Holding(files, base, p) : files2[h][p] = files[h][p]
  BY <1>2, Zenon DEF Holding, Purged
<1> QED
  BY <1>1, <1>2, <1>3, SameChain, Zenon

\* The delta of a dirty page is the last file that holds the page; a purge
\* removes only files the dump makes superfluous; a new dump has the data file
\* of the checkpoint, and no file is above it (ckpt_dump_delta,
\* ckpt_dump_full, ckpt_purge_old_deltas).
LEMMA ChainWholeStep ==
  ASSUME SchedulerInv, Next, open, open', NEW b \in Configured,
         ~(Open \/ Recover)
  PROVE  ChainWhole(b)'
<1> DEFINE base == full[b].gen
           data == full[b].data
           Restored(q) == Replayed(deltas[b], base, data)[q]
<1> SUFFICES ASSUME Dumped(b)'
             PROVE  /\ full'[b].gen \in Nat /\ last_full_generation' <= full'[b].gen
                    /\ full'[b].gen <= generation'[b]
                    /\ DuringDeltas' => full'[b].gen < generation'[b]
                    /\ \A p \in Pages :
                         Replayed(deltas'[b], full'[b].gen, full'[b].data)[p] = snap'[b][p]
  BY Zenon DEF ChainWhole
<1>n. /\ b \in Bins /\ cur \in Bins /\ generation[b] \in Nat /\ MaxGen \in Nat
      /\ DOMAIN deltas[b] \subseteq 0 .. MaxGen /\ b \in Nat /\ cur \in Nat /\ num_bins \in Nat
      /\ cur <= num_bins /\ b <= num_bins /\ current_epoch \in Nat /\ last_full_generation \in Nat
  BY ChainNumbers
<1>m. MaxGen \in Nat /\ DOMAIN deltas[b] \subseteq 0 .. MaxGen
  BY <1>n, Zenon
<1>g. generation[b] \in 0 .. MaxGen
  BY <1>n, Zenon DEF SchedulerInv, TypeInv, CountersTyped
<1>t. Typed /\ ChainWhole(b) /\ NoStaleFile(b) /\ ChangesTracked(b)
  BY Zenon DEF SchedulerInv, RecoverInv, ChainInv
<1>d. ASSUME Dumped(b)
      PROVE  /\ base \in Nat /\ last_full_generation <= base /\ base <= generation[b]
             /\ DuringDeltas => base < generation[b]
             /\ \A p \in Pages : Restored(p) = snap[b][p]
  BY <1>t, <1>d, Zenon DEF ChainWhole
<1>e. last_full_generation > 0 => Snapped(b)
  BY <1>n DEF SchedulerInv, TypeInv, EpochInv, Snapped
<1>1. CASE QuietStep
  <2>1. /\ UNCHANGED <<full, deltas, generation, snap, last_full_generation>>
        /\ Dumped(b) /\ ~DuringDeltas'
    BY <1>1, QuietPhase, Zenon DEF Dumped, DuringDeltas, diskVars
  <2> QED
    BY <1>d, <2>1, Zenon
<1>2. CASE ForceCheckpoint \/ TickCheckpoint
  <2>1. /\ UNCHANGED <<full, deltas, snap, last_full_generation>>
        /\ Dumped(b) /\ generation'[b] = generation[b] + 1
    BY <1>2, BeginPhase, Zenon
  <2>2. base <= generation[b] + 1 /\ base < generation[b] + 1
    BY <1>d, <1>n, <2>1
  <2> QED
    BY <1>d, <2>1, <2>2, Zenon
<1>3. CASE OpenDelta
  <2>1. /\ UNCHANGED <<full, generation, snap, last_full_generation, cur>>
        /\ DuringDeltas /\ at = "open_delta" /\ at' = "write_delta"
        /\ deltas' = [deltas EXCEPT ![cur] = WithFile(@, generation[cur], <<>>)]
    BY <1>3, Zenon DEF OpenDelta, DuringDeltas, fullVars
  <2>2. Dumped(b) /\ last_full_generation > 0 /\ Snapped(b)
    BY <1>e, <2>1, Zenon DEF Dumped
  <2>3. ASSUME NEW p \in Pages
        PROVE  Replayed(deltas'[b], base, data)[p] = snap[b][p]
    <3>1. CASE b # cur
      BY <1>d, <1>n, <1>t, <2>1, <2>2, <3>1, FileWritten, Zenon
    <3>2. CASE b = cur
      <4>1. /\ DOMAIN deltas'[b] = DOMAIN deltas[b] \cup {generation[b]}
            /\ deltas'[b][generation[b]] = <<>>
            /\ \A g \in DOMAIN deltas[b] : g # generation[b] => deltas'[b][g] = deltas[b][g]
        BY <1>n, <1>t, <2>1, <3>2, FileWritten, ZenonT(60)
      <4>2. DeltaDue(b)
        BY <1>n, <2>1, <3>2 DEF DeltaDue
      <4>3. /\ \A g \in DOMAIN deltas[b] : g <= generation[b]
            /\ generation[b] \in DOMAIN deltas[b] => DOMAIN deltas[b][generation[b]] = {}
        BY <1>t, <2>2, <4>2, Zenon DEF NoStaleFile
      <4>4. base \in Nat /\ base < generation[b]
        BY <1>d, <2>1, <2>2, Zenon
      <4>5. DOMAIN deltas[b] \subseteq 0 .. generation[b]
        BY <1>n, <4>3
      <4>6. Added(deltas[b], deltas'[b], base, generation[b], <<>>)
        BY <1>n, <4>1, <4>3, <4>4, <4>5, Zenon DEF Added
      <4>7. p \notin DOMAIN <<>> => Replayed(deltas'[b], base, data)[p] = Restored(p)
        <5>1. Decided(deltas[b], deltas'[b], base, data, p, <<>>)
          BY <4>6, ReplayAdded, Zenon
        <5> QED
          BY <5>1, Zenon DEF Decided
      <4>8. DOMAIN <<>> = {}
        OBVIOUS
      <4> QED
        BY <1>d, <2>2, <4>7, <4>8, Zenon
    <3> QED
      BY <3>1, <3>2, Zenon
  <2> QED
    BY <1>d, <2>1, <2>2, <2>3, Zenon
<1>4. CASE WriteDelta
  <2>1. /\ UNCHANGED <<full, generation, last_full_generation>>
        /\ at = "write_delta" /\ DuringDeltas /\ at' # "full"
        /\ deltas' = [deltas EXCEPT ![cur] = WithFile(@, generation[cur], DumpedDelta(cur))]
        /\ snap' = [snap EXCEPT ![cur] = file[cur]]
    BY <1>4, Zenon DEF WriteDelta, DuringDeltas, fullVars
  <2>2. Dumped(b) /\ last_full_generation > 0 /\ Snapped(b)
    BY <1>e, <2>1, Zenon DEF Dumped
  <2>3. ASSUME NEW p \in Pages
        PROVE  Replayed(deltas'[b], base, data)[p] = snap'[b][p]
    <3>1. CASE b # cur
      <4>1. snap'[b] = snap[b]
        BY <1>n, <1>t, <2>1, <3>1, Zenon DEF Typed
      <4> QED
        BY <1>d, <1>n, <1>t, <2>1, <2>2, <3>1, <4>1, FileWritten, Zenon
    <3>2. CASE b = cur
      <4>0. snap'[b] = file[b]
        BY <1>n, <1>t, <2>1, <3>2, Zenon DEF Typed
      <4>1. /\ DOMAIN deltas'[b] = DOMAIN deltas[b] \cup {generation[b]}
            /\ deltas'[b][generation[b]] = DumpedDelta(b)
            /\ \A g \in DOMAIN deltas[b] : g # generation[b] => deltas'[b][g] = deltas[b][g]
        BY <1>n, <1>t, <2>1, <3>2, FileWritten, ZenonT(60)
      <4>2. DeltaDue(b)
        BY <1>n, <2>1, <3>2 DEF DeltaDue
      <4>3. /\ \A g \in DOMAIN deltas[b] : g <= generation[b]
            /\ generation[b] \in DOMAIN deltas[b] => DOMAIN deltas[b][generation[b]] = {}
        BY <1>t, <2>2, <4>2, Zenon DEF NoStaleFile
      <4>4. base \in Nat /\ base < generation[b]
        BY <1>d, <2>1, <2>2, Zenon
      <4>5. DOMAIN DumpedDelta(b) = frozen[b] /\ (p \in frozen[b] => DumpedDelta(b)[p] = file[b][p])
        BY Zenon DEF DumpedDelta
      <4>6. p \notin frozen[b] => file[b][p] = snap[b][p]
        BY <1>t, <2>2, <4>2, Zenon DEF ChangesTracked
      <4>7. DOMAIN deltas[b] \subseteq 0 .. generation[b]
        BY <1>n, <4>3
      <4>8. Added(deltas[b], deltas'[b], base, generation[b], DumpedDelta(b))
        BY <1>n, <4>1, <4>3, <4>4, <4>7, Zenon DEF Added
      <4>9. /\ p \in DOMAIN DumpedDelta(b) =>
                 Replayed(deltas'[b], base, data)[p] = DumpedDelta(b)[p]
            /\ p \notin DOMAIN DumpedDelta(b) =>
                 Replayed(deltas'[b], base, data)[p] = Restored(p)
        <5>1. Decided(deltas[b], deltas'[b], base, data, p, DumpedDelta(b))
          BY <4>8, ReplayAdded, Zenon
        <5> QED
          BY <5>1, Zenon DEF Decided
      <4> QED
        BY <1>d, <2>2, <4>0, <4>5, <4>6, <4>9, Zenon
    <3> QED
      BY <3>1, <3>2, Zenon
  <2> QED
    BY <1>d, <2>1, <2>2, <2>3, Zenon
<1>5. CASE PersistMeta
  <2>1. /\ UNCHANGED <<full, deltas, generation, snap, last_full_generation>>
        /\ ~DuringDeltas'
    BY <1>5, LatePhase, Zenon DEF PersistMeta, fullVars
  <2>2. at' = "full" => cur' = 1
    BY <1>5, Zenon DEF PersistMeta, Advance
  <2>3. Dumped(b)
    BY <1>n, <2>1, <2>2, ChainNumbers DEF Dumped
  <2> QED
    BY <1>d, <2>1, <2>3, Zenon
<1>6. CASE DumpFull
  <2>1. /\ UNCHANGED <<deltas, generation, snap, file, current_epoch>>
        /\ ~DuringDeltas' /\ ~DuringDeltas /\ current_epoch > 0 /\ at # "idle"
        /\ full' = [full EXCEPT ![cur] = DumpedFull(cur)]
    BY <1>6, LatePhase, Zenon DEF DumpFull, dataVars
  <2>2. \/ cur < num_bins /\ cur' = cur + 1 /\ last_full_generation' = last_full_generation
        \/ cur = num_bins /\ last_full_generation' = current_epoch
    <3>1. CASE cur < num_bins
      BY <1>6, <3>1, "full" # "purge", Zenon DEF DumpFull, Advance, fullVars
    <3>2. CASE ~(cur < num_bins)
      <4>1. last_full_generation' = current_epoch
        BY <1>6, <3>2, Zenon DEF DumpFull, Advance
      <4>2. cur \in Nat /\ num_bins \in Nat /\ cur <= num_bins
        BY ChainNumbers, Zenon
      <4> QED
        BY <3>2, <4>1, <4>2
    <3> QED
      BY <3>1, <3>2, Zenon
  <2>3. current_epoch <= generation[b] /\ last_full_generation <= current_epoch
    BY Zenon DEF SchedulerInv, TypeInv, EpochInv
  <2>4. ASSUME NEW p \in Pages PROVE file[b][p] = snap[b][p]
    BY <1>t, <2>1, <2>4, Zenon DEF ChangesTracked, Snapped, DeltaDue
  <2>5. \A g \in DOMAIN deltas[b] : g <= generation[b]
    BY <1>t, <2>1, Zenon DEF NoStaleFile, Snapped
  <2>6. ASSUME NEW p \in Pages
        PROVE  Replayed(deltas[b], generation[b], file[b])[p] = snap[b][p]
    <3>1. Holding(deltas[b], generation[b], p) = {}
      <4>1. \A g \in 0 .. MaxGen : g <= generation[b] => ~(g > generation[b])
        BY <1>g
      <4> QED
        BY <1>m, <2>5, <4>1, Zenon DEF Holding
    <3> QED
      <4>1. LastWins(deltas[b], generation[b], file[b], p)
        BY <1>n, ReplayedAt, Zenon
      <4> QED
        BY <2>4, <3>1, <4>1, Zenon DEF LastWins
  <2>7. CASE full'[b] = DumpedFull(b)
    <3>1. full'[b].gen = generation[b] /\ full'[b].data = file[b]
      BY <2>7 DEF DumpedFull
    <3>2. last_full_generation' <= generation[b]
      BY <1>n, <2>2, <2>3
    <3> QED
      BY <1>n, <2>1, <2>6, <3>1, <3>2
  <2>8. CASE b # cur /\ cur < num_bins
    <3>0. cur # num_bins /\ (b < cur + 1 => b < cur)
      <4>1. b \in Nat /\ cur \in Nat /\ num_bins \in Nat
        BY <1>n, Zenon
      <4> QED
        BY <2>8, <4>1
    <3>1. full'[b] = full[b] /\ last_full_generation' = last_full_generation /\ cur' = cur + 1
      BY <1>n, <1>t, <2>1, <2>2, <2>8, <3>0, Zenon DEF Typed
    <3>2. Dumped(b)
      <4>1. at = "full"
        BY <1>6, Zenon DEF DumpFull
      <4> QED
        BY <3>0, <3>1, <4>1, Zenon DEF Dumped
    <3> QED
      BY <1>d, <2>1, <3>1, <3>2, Zenon
  <2>9. b = cur => full'[b] = DumpedFull(b)
    BY <1>n, <1>t, <2>1, Zenon DEF Typed
  <2>10. b < cur => full'[b] = DumpedFull(b)
    <3>1. b < cur => full[b] = DumpedFull(b)
      <4>1. \A d \in 1 .. cur - 1 : full[d] = DumpedFull(d)
        BY <1>6, Zenon DEF DumpFull, SchedulerInv, WaitInv
      <4>2. b \in Nat /\ 1 <= b /\ cur \in Nat
        BY ChainNumbers, Zenon
      <4>3. b < cur => b \in 1 .. cur - 1
        BY <4>2
      <4> QED
        BY <4>1, <4>3, Zenon
    <3>2. b # cur => full'[b] = full[b]
      BY <1>n, <1>t, <2>1, Zenon DEF Typed
    <3> QED
      BY <1>n, <3>1, <3>2
  <2> QED
    <3>1. b \in Nat /\ cur \in Nat /\ num_bins \in Nat /\ b <= num_bins
      BY <1>n, Zenon
    <3>2. b = cur \/ b < cur \/ (b # cur /\ cur < num_bins)
      BY <3>1
    <3> QED
      BY <2>7, <2>8, <2>9, <2>10, <3>2, Zenon
<1>7. CASE PurgeDeltas
  <2>1. /\ UNCHANGED <<full, generation, snap, last_full_generation>>
        /\ ~DuringDeltas' /\ at = "purge" /\ at' # "full"
    BY <1>7, LatePhase, Zenon DEF PurgeDeltas, Advance, fullVars
  <2>2. Dumped(b)
    BY <2>1, Zenon DEF Dumped
  <2>3. ASSUME NEW p \in Pages
        PROVE  Replayed(deltas'[b], base, data)[p] = snap[b][p]
    <3>1. /\ DOMAIN deltas'[b] \subseteq DOMAIN deltas[b]
          /\ \A g \in DOMAIN deltas[b] : g > last_full_generation => g \in DOMAIN deltas'[b]
          /\ \A g \in DOMAIN deltas'[b] : deltas'[b][g] = deltas[b][g]
      BY <1>7, <1>n, <1>t, FilesPurged, Zenon
    <3>2. \A g \in DOMAIN deltas[b] : g > base => g \in DOMAIN deltas'[b]
      <4>1. base \in Nat /\ last_full_generation \in Nat /\ last_full_generation <= base
        BY <1>d, <1>n, <2>2, Zenon
      <4>2. \A g \in 0 .. MaxGen : g > base => g > last_full_generation
        BY <4>1
      <4> QED
        BY <1>m, <3>1, <4>2, Zenon
    <3>3. Purged(deltas[b], deltas'[b], base)
      BY <3>1, <3>2, Zenon DEF Purged
    <3>4. Replayed(deltas'[b], base, data)[p] = Restored(p)
      <4>1. SamePage(deltas[b], deltas'[b], base, data, p)
        BY <1>m, <3>3, ReplayPurged, Zenon
      <4> QED
        BY <4>1, Zenon DEF SamePage
    <3> QED
      BY <1>d, <2>2, <3>4, Zenon
  <2> QED
    BY <1>d, <2>1, <2>2, <2>3, Zenon
<1> QED
  BY <1>1, <1>2, <1>3, <1>4, <1>5, <1>6, <1>7, Zenon
     DEF Next, QuietStep, Tick, Step, Close, Crash, Ends

\* ChainInv is kept by every step.
LEMMA ChainInvStep ==
  ASSUME SchedulerInv, Next
  PROVE  ChainInv'
<1>1. CASE Close \/ Crash \/ Open \/ Recover
  BY <1>1, NoChainYet, Zenon
<1>2. CASE ~(Close \/ Crash \/ Open \/ Recover)
  <2> SUFFICES ASSUME open', NEW b \in Configured
               PROVE  NoStaleFile(b)' /\ ChangesTracked(b)' /\ ChainWhole(b)'
    BY Zenon DEF ChainInv
  <2>1. open
    BY <1>2, Zenon
       DEF Next, Put, RequestCooled, RequestJoins, TimePasses, ForceFlush, ForceCheckpoint, Tick,
           TickCheckpoint, TickFlush, TickFails, Step, OpenDelta, WriteDelta, PersistMeta,
           DumpFull, PurgeDeltas, Idle
  <2> QED
    BY <1>2, <2>1, NoStaleFileStep, ChangesTrackedStep, ChainWholeStep, Zenon
<1> QED
  BY <1>1, <1>2, Zenon

\* The invariant of the whole scheduler holds over any number of checkpoints,
\* crashes and sessions.
THEOREM SchedulerInvHolds == Spec => []SchedulerInv
<1>1. Init => WaitInv /\ ChainInv
  <2> SUFFICES ASSUME Init PROVE WaitInv /\ ChainInv
    OBVIOUS
  <2>1. WaitInv
    BY SchedulerAssumption, Zenon DEF Init, SchedulerInit, WaitInv
  <2>2. current_epoch = 0 /\ last_full_generation = 0 /\ at = "idle"
    BY Zenon DEF Init, SchedulerInit
  <2>3. \A b \in Configured : ~Snapped(b) /\ ~Dumped(b)
    BY <2>2 DEF Snapped, Dumped, DuringDeltas
  <2> QED
    BY <2>1, <2>3, Zenon DEF ChainInv, NoStaleFile, ChangesTracked, ChainWhole
<1>2. RecoverInv /\ TypeInv /\ WaitInv /\ ChainInv /\ [Next]_vars => WaitInv' /\ ChainInv'
  <2>1. ASSUME RecoverInv, TypeInv, WaitInv, ChainInv, Next PROVE WaitInv' /\ ChainInv'
    BY <2>1, WaitInvStep, ChainInvStep, Zenon DEF SchedulerInv
  <2>2. ASSUME WaitInv, UNCHANGED vars PROVE WaitInv'
    BY <2>2, Zenon DEF WaitInv, DumpedFull, vars, dataVars, diskVars, fullVars
  <2>3. ASSUME ChainInv, UNCHANGED vars PROVE ChainInv'
    BY <2>3, ZenonT(60)
       DEF ChainInv, NoStaleFile, ChangesTracked, ChainWhole, Snapped, Dumped, DeltaDue,
           DuringDeltas, vars, procVars, dataVars, diskVars, fullVars
  <2> QED
    BY <2>1, <2>2, <2>3, Zenon
<1> QED
  BY <1>1, <1>2, RecoverInvHolds, TypeInvHolds, PTL DEF Spec, SchedulerInv

\* Replaying yields a content of every page.
LEMMA ReplayedPages ==
  ASSUME NEW files, NEW base, NEW data
  PROVE  Replayed(files, base, data) \in [Pages -> {Replayed(files, base, data)[p] : p \in Pages}]
BY Zenon DEF Replayed

\* At any time, also between the steps of a checkpoint, the newest full dump of
\* a configured bin made in this session and the delta files above it restore
\* the data file of the bin's last complete delta.
THEOREM ChainRestoresHolds == Spec => []ChainRestores
<1>1. SchedulerInv => ChainRestores
  <2> SUFFICES ASSUME SchedulerInv, NEW b \in Configured, open, last_full_generation > 0
               PROVE  Replayed(deltas[b], full[b].gen, full[b].data) = snap[b]
    BY Zenon DEF ChainRestores, Configured
  <2>1. \A p \in Pages : Replayed(deltas[b], full[b].gen, full[b].data)[p] = snap[b][p]
    BY Zenon DEF SchedulerInv, ChainInv, ChainWhole, Dumped
  <2>2. snap[b] \in [Pages -> Nat]
    BY Zenon DEF SchedulerInv, RecoverInv, Typed
  <2>3. PICK restored, contents : /\ restored = Replayed(deltas[b], full[b].gen, full[b].data)
                                  /\ restored \in [Pages -> contents]
    BY ReplayedPages, Zenon
  <2>4. \A p \in Pages : restored[p] = snap[b][p]
    BY <2>1, <2>3, Zenon
  <2>5. restored = snap[b]
    BY <2>2, <2>3, <2>4, SMT
  <2> QED
    BY <2>3, <2>5, Zenon
<1> QED
  BY <1>1, SchedulerInvHolds, PTL
=============================================================================
