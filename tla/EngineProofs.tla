---------------------------- MODULE EngineProofs ----------------------------
(***************************************************************************)
(* Proofs about Engine, for every number of slots, features, embeddings,   *)
(* entries per page, buffer limit and overlay budget.                      *)
(***************************************************************************)
EXTENDS Engine, TLAPS, SequenceTheorems

\* A bin starts, and a checkpoint starts, with an empty list of slots.
LEMMA EmptyListType == <<>> \in Seq(Entries)
OBVIOUS

\* Every slot has its page among Pages (page_id = entry_id / epp).
LEMMA PageOfType == \A e \in Entries : PageOf(e) \in Pages
BY Zenon DEF Pages

\* Buffered keys written over a key file give a key file.
LEMMA FlushedKeysType ==
  ASSUME NEW kf \in [Entries -> Feats \cup {NoFeat}],
         NEW kb \in [Entries -> Feats \cup {NoFeat, None}]
  PROVE  FlushedKeys(kf, kb) \in [Entries -> Feats \cup {NoFeat}]
BY Zenon DEF FlushedKeys

\* dimbin_buf_key keeps the types of the key file and of the key buffer.
LEMMA BufKeyType ==
  ASSUME TypeOK, NEW e \in Entries, NEW k \in Feats \cup {NoFeat}, NEW full \in BOOLEAN
  PROVE  /\ KeyFileAfter(full) \in [Entries -> Feats \cup {NoFeat}]
         /\ KeyBufAfter(e, k, full) \in [Entries -> Feats \cup {NoFeat, None}]
BY FlushedKeysType, Zenon DEF TypeOK, KeyFileAfter, KeyBufAfter, NoKeys

\* Slot allocation hands out a slot of the bin and keeps the allocator's types.
LEMMA AdmitType ==
  ASSUME TypeOK, NEW f \in Feats, AdmitFeature(f)
  PROVE  /\ TargetEntry(f) \in Entries
         /\ index' \in [Feats -> Entries \cup {None}]
         /\ bump_ptr' \in 0 .. MaxEntries
         /\ free_list' \in Seq(Entries)
<1>1. CASE index[f] # None
  BY <1>1, Zenon DEF TypeOK, AdmitFeature, TargetEntry
<1>2. CASE index[f] = None /\ free_list # <<>>
  <2>1. Len(free_list) \in Nat \ {0} /\ Len(free_list) \in DOMAIN free_list
    BY <1>2 DEF TypeOK
  <2>2. free_list[Len(free_list)] \in Entries
    BY <2>1 DEF TypeOK
  <2>3. SubSeq(free_list, 1, Len(free_list) - 1) \in Seq(Entries)
    BY <2>1 DEF TypeOK
  <2>4. QED
    BY <1>2, <2>2, <2>3, Zenon DEF TypeOK, AdmitFeature, TargetEntry, AllocEntry
<1>3. CASE index[f] = None /\ free_list = <<>>
  BY <1>3, ConstantsAssumption
  DEF TypeOK, AdmitFeature, TargetEntry, AllocEntry, Entries
<1>4. QED
  BY <1>1, <1>2, <1>3, Zenon

\* Writing the buffers back keeps the types of the files and buffers.
LEMMA WriteBackType ==
  ASSUME TypeOK, WriteBack
  PROVE  /\ key_file' \in [Entries -> Feats \cup {NoFeat}]
         /\ key_buf' \in [Entries -> Feats \cup {NoFeat, None}]
         /\ data_file' \in [Entries -> Cells]
         /\ write_buf' \in [Entries -> Cells]
         /\ resident' \subseteq Pages
BY FlushedKeysType, Zenon DEF TypeOK, WriteBack, NoKeys, NoPages, FlushedPages, Cells

\* The overlay replay of dimbin_checkpoint_end preserves the types.
LEMMA ReplayType ==
  ASSUME TypeOK, ReplayOverlay
  PROVE  /\ data_file' \in [Entries -> Cells]
         /\ write_buf' \in [Entries -> Cells]
         /\ resident' \subseteq Pages
         /\ active' \subseteq Pages
         /\ flush_needed' \in BOOLEAN
<1>1. CASE ReplayPages = {}
  BY <1>1, Zenon DEF TypeOK, ReplayOverlay, pageVars
<1>2. CASE ReplayPages # {}
  <2>1. KeptPages \subseteq Pages /\ ReplayPages \subseteq Pages
    BY PageOfType, Zenon DEF KeptPages, ReplayPages
  <2>2. \A e \in Entries : ReplayedCell(e) \in Cells
    BY Zenon DEF TypeOK, ReplayedCell, LoadedCell, Cells
  <2>3. flush_needed' \in BOOLEAN
    BY <1>2, Zenon DEF ReplayOverlay
  <2>4. QED
    BY <1>2, <2>1, <2>2, <2>3 DEF TypeOK, ReplayOverlay, Cells
<1>3. QED
  BY <1>1, <1>2, Zenon

\* Freeing the tombstones keeps the types of the allocator and of the keys.
LEMMA FreeTombstonesType ==
  ASSUME TypeOK, NEW cut \in 1 .. (Len(tombstones) + 1), FreeTombstones(cut)
  PROVE  /\ free_list' \in Seq(Entries)
         /\ key_file' \in [Entries -> Feats \cup {NoFeat}]
         /\ key_buf' \in [Entries -> Feats \cup {NoFeat, None}]
<1> DEFINE spill == SpilledPages # {}
           kf == IF spill THEN FlushedKeys(key_file, key_buf) ELSE key_file
           kb == IF spill THEN NoKeys ELSE key_buf
<1>1. /\ kf \in [Entries -> Feats \cup {NoFeat}]
      /\ kb \in [Entries -> Feats \cup {NoFeat, None}]
  BY FlushedKeysType, Zenon DEF TypeOK, NoKeys
<1>2. FlushedKeys(kf, kb) \in [Entries -> Feats \cup {NoFeat}]
  BY <1>1, FlushedKeysType, Zenon
<1>3. free_list' \in Seq(Entries)
  BY DEF TypeOK, FreeTombstones
<1> HIDE DEF kf, kb
<1>4. QED
  BY <1>1, <1>2, <1>3, Zenon DEF FreeTombstones, kf, kb

\* Every variable keeps its type in every reachable state of the engine.
THEOREM TypeCorrect == Spec => []TypeOK
<1>1. Init => TypeOK
  <2>1. 0 \in 0 .. MaxEntries
    BY ConstantsAssumption
  <2>2. QED
    BY <2>1, EmptyListType, Zenon DEF Init, TypeOK, NoKeys, NoOverlay, NoPages, Cells
<1>2. TypeOK /\ [Next]_vars => TypeOK'
  <2> SUFFICES ASSUME TypeOK, [Next]_vars PROVE TypeOK'
    OBVIOUS
  <2>1. ASSUME NEW f \in Feats, NEW v \in Vals, NEW full \in BOOLEAN, PutOverlay(f, v, full)
        PROVE  TypeOK'
    BY <2>1, AdmitType, BufKeyType, Zenon
    DEF PutOverlay, TypeOK, pageVars, stepVars
  <2>2. ASSUME NEW f \in Feats, NEW full \in BOOLEAN, PutBusy(f, full)
        PROVE  TypeOK'
    BY <2>2, AdmitType, BufKeyType, Zenon
    DEF PutBusy, TypeOK, pageVars, stepVars, ovVars
  <2>3. ASSUME NEW f \in Feats, NEW v \in Vals, NEW full \in BOOLEAN, PutBuffered(f, v, full)
        PROVE  TypeOK'
    <3> DEFINE e == TargetEntry(f)
    <3>1. /\ e \in Entries
          /\ index' \in [Feats -> Entries \cup {None}]
          /\ bump_ptr' \in 0 .. MaxEntries
          /\ free_list' \in Seq(Entries)
      BY <2>3, AdmitType, Zenon DEF PutBuffered
    <3>2. /\ key_file' \in [Entries -> Feats \cup {NoFeat}]
          /\ key_buf' \in [Entries -> Feats \cup {NoFeat, None}]
      BY <2>3, <3>1, BufKeyType, FlushedKeysType, Zenon DEF PutBuffered, NoKeys
    <3>3. data_file' \in [Entries -> Cells]
      BY <2>3, Zenon DEF PutBuffered, TypeOK, FlushedPages
    <3>4. write_buf' \in [Entries -> Cells]
      BY <2>3, <3>3, Zenon DEF PutBuffered, TypeOK, LoadedCell, Cells
    <3>5. resident' \subseteq Pages /\ active' \subseteq Pages
      BY <2>3, <3>1, PageOfType, Zenon DEF PutBuffered, TypeOK
    <3>6. flush_needed' \in BOOLEAN
      BY <2>3, Zenon DEF PutBuffered
    <3>7. stale' \subseteq Pages
      BY <2>3, PageOfType, Zenon DEF PutBuffered, TypeOK, ChangedPages
    <3>8. written' \in [Feats -> Vals \cup {Absent}]
      BY <2>3, Zenon DEF PutBuffered, TypeOK
    <3>9. QED
      BY <2>3, <3>1, <3>2, <3>3, <3>4, <3>5, <3>6, <3>7, <3>8, Zenon
      DEF PutBuffered, TypeOK, ovVars, stepVars
  <2>4. ASSUME NEW f \in Feats, NEW full \in BOOLEAN, DeleteNow(f, full)
        PROVE  TypeOK'
    <3>1. index[f] \in Entries
      BY <2>4, Zenon DEF DeleteNow, TypeOK
    <3>2. free_list' \in Seq(Entries)
      BY <2>4, <3>1 DEF DeleteNow, TypeOK
    <3>3. QED
      BY <2>4, <3>1, <3>2, BufKeyType, Zenon DEF DeleteNow, TypeOK, pageVars, stepVars, ovVars
  <2>5. ASSUME NEW f \in Feats, DeleteTombstone(f)
        PROVE  TypeOK'
    <3>1. tombstones' \in Seq(Entries)
      BY <2>5 DEF DeleteTombstone, TypeOK
    <3>2. QED
      BY <2>5, <3>1, Zenon DEF DeleteTombstone, TypeOK, pageVars, stepVars, keyVars
  <2>6. CASE Flush
    <3>1. flush_needed' \in BOOLEAN
      BY <2>6, Zenon DEF Flush
    <3>2. stale' \subseteq Pages
      BY <2>6, PageOfType, Zenon DEF Flush, TypeOK, ChangedPages
    <3>3. QED
      BY <2>6, <3>1, <3>2, WriteBackType, Zenon DEF Flush, TypeOK, binVars, ovVars, stepVars
  <2>7. CASE StepBegin
    <3>1. stale' \subseteq Pages
      BY <2>7, PageOfType, Zenon DEF StepBegin, TypeOK, ChangedPages
    <3>2. QED
      BY <2>7, <3>1, WriteBackType, EmptyListType, Zenon
      DEF StepBegin, CheckpointBegin, TypeOK, binVars, NoOverlay
  <2>8. CASE StepNextPhase
    BY <2>8, Zenon DEF StepNextPhase, TypeOK, binVars, keyVars, pageVars, ovVars
  <2>9. CASE StepDump
    <3>1. delta_open' \in BOOLEAN /\ current_bin' \in {0, 1}
      BY <2>9, Zenon DEF StepDump
    <3>2. QED
      BY <2>9, <3>1, Zenon DEF StepDump, TypeOK, PendingDump, Scanned, binVars, keyVars, pageVars, ovVars
  <2>10. CASE StepSkip
    BY <2>10, Zenon DEF StepSkip, TypeOK, binVars, keyVars, pageVars, ovVars
  <2>11. CASE StepFinish
    <3>1. PICK cut \in 1 .. (Len(tombstones) + 1) : FreeTombstones(cut)
      BY <2>11, Zenon DEF StepFinish, CheckpointEnd
    <3>2. stale' \subseteq Pages
      BY <2>11, PageOfType, Zenon DEF StepFinish, TypeOK, ChangedPages
    <3>3. QED
      BY <2>11, <3>1, <3>2, ReplayType, FreeTombstonesType, EmptyListType, Zenon
      DEF StepFinish, CheckpointEnd, TypeOK, NoOverlay
  <2>12. CASE Checkpoint
    <3>1. stale' \subseteq Pages
      BY <2>12, PageOfType DEF Checkpoint, TypeOK, ChangedPages
    <3>2. QED
      BY <2>12, <3>1, WriteBackType, EmptyListType, Zenon
      DEF Checkpoint, TypeOK, binVars, stepVars, NoOverlay
  <2>13. CASE UNCHANGED vars
    BY <2>13, Zenon DEF vars, TypeOK, binVars, keyVars, pageVars, ovVars, stepVars
  <2>14. QED
    BY <2>1, <2>2, <2>3, <2>4, <2>5, <2>6, <2>7, <2>8, <2>9, <2>10, <2>11, <2>12, <2>13, Zenon
    DEF Next, Put, Delete, Step
<1>3. QED
  BY <1>1, <1>2, PTL DEF Spec
-----------------------------------------------------------------------------
\* The checkpoint mode of the bin follows the state machine, and in that mode
\* the write buffer is empty.
THEOREM CheckpointModeInvariant == Spec => []CheckpointMode
<1>1. Init => CheckpointMode
  BY Zenon DEF Init, CheckpointMode
<1>2. TypeOK /\ CheckpointMode /\ [Next]_vars => CheckpointMode'
  <2> SUFFICES ASSUME TypeOK, CheckpointMode, [Next]_vars PROVE CheckpointMode'
    OBVIOUS
  <2>1. ASSUME NEW f \in Feats, NEW v \in Vals, NEW full \in BOOLEAN, PutOverlay(f, v, full)
        PROVE  CheckpointMode'
    BY <2>1, Zenon DEF PutOverlay, CheckpointMode, pageVars, stepVars
  <2>2. ASSUME NEW f \in Feats, NEW full \in BOOLEAN, PutBusy(f, full)
        PROVE  CheckpointMode'
    BY <2>2, Zenon DEF PutBusy, CheckpointMode, pageVars, stepVars, ovVars
  <2>3. ASSUME NEW f \in Feats, NEW v \in Vals, NEW full \in BOOLEAN, PutBuffered(f, v, full)
        PROVE  CheckpointMode'
    BY <2>3, Zenon DEF PutBuffered, CheckpointMode, stepVars, ovVars
  <2>4. ASSUME NEW f \in Feats, NEW full \in BOOLEAN, DeleteNow(f, full)
        PROVE  CheckpointMode'
    BY <2>4, Zenon DEF DeleteNow, CheckpointMode, pageVars, stepVars, ovVars
  <2>5. ASSUME NEW f \in Feats, DeleteTombstone(f)
        PROVE  CheckpointMode'
    BY <2>5, Zenon DEF DeleteTombstone, CheckpointMode, pageVars, stepVars
  <2>6. CASE Flush
    BY <2>6, Zenon DEF Flush, WriteBack, CheckpointMode, ovVars, stepVars
  <2>7. CASE StepBegin
    BY <2>7, Zenon DEF StepBegin, CheckpointBegin, WriteBack, CheckpointMode
  <2>8. CASE StepNextPhase
    BY <2>8, Zenon DEF StepNextPhase, CheckpointMode, pageVars, ovVars
  <2>9. CASE StepDump
    BY <2>9, Zenon DEF StepDump, CheckpointMode, pageVars, ovVars
  <2>10. CASE StepSkip
    BY <2>10, Zenon DEF StepSkip, CheckpointMode, pageVars, ovVars
  <2>11. CASE StepFinish
    BY <2>11, Zenon DEF StepFinish, CheckpointEnd, CheckpointMode
  <2>12. CASE phase = "IDLE" /\ Checkpoint
    BY <2>12, Zenon DEF Checkpoint, WriteBack, CheckpointMode, stepVars
  <2>13. CASE UNCHANGED vars
    BY <2>13, Zenon DEF vars, CheckpointMode, pageVars, ovVars, stepVars
  <2>14. QED
    BY <2>1, <2>2, <2>3, <2>4, <2>5, <2>6, <2>7, <2>8, <2>9, <2>10, <2>11, <2>12, <2>13, Zenon
    DEF Next, Put, Delete, Step
<1>3. QED
  BY <1>1, <1>2, TypeCorrect, PTL DEF Spec
-----------------------------------------------------------------------------
\* Lists of slots: the free list as a stack, and its extension by tombstones.

\* Pushing a slot the list does not hold adds exactly that slot.
LEMMA PushSlot ==
  ASSUME NEW list \in Seq(Entries), NEW e \in Entries,
         NoRepeat(list), e \notin SlotsOf(list)
  PROVE  /\ SlotsOf(Append(list, e)) = SlotsOf(list) \cup {e}
         /\ NoRepeat(Append(list, e))
<1> DEFINE new == Append(list, e)
<1>1. /\ DOMAIN new = 1 .. (Len(list) + 1)
      /\ DOMAIN list = 1 .. Len(list)
      /\ Len(list) \in Nat
      /\ \A i \in 1 .. Len(list) : new[i] = list[i]
      /\ new[Len(list) + 1] = e
  OBVIOUS
<1> HIDE DEF new
<1>2. SlotsOf(new) = SlotsOf(list) \cup {e}
  <2>1. SlotsOf(new) \subseteq SlotsOf(list) \cup {e}
    BY <1>1 DEF SlotsOf
  <2>2. SlotsOf(list) \subseteq SlotsOf(new)
    BY <1>1 DEF SlotsOf
  <2>3. e \in SlotsOf(new)
    BY <1>1 DEF SlotsOf
  <2>4. QED
    BY <2>1, <2>2, <2>3, Zenon
<1>3. NoRepeat(new)
  BY <1>1 DEF NoRepeat, SlotsOf
<1>4. QED
  BY <1>2, <1>3, Zenon DEF new

\* Popping the top of a list without repetitions removes exactly its top.
LEMMA PopSlot ==
  ASSUME NEW list \in Seq(Entries), list # <<>>, NoRepeat(list)
  PROVE  LET rest == SubSeq(list, 1, Len(list) - 1)
             top  == list[Len(list)]
         IN  /\ top \in SlotsOf(list)
             /\ SlotsOf(rest) = SlotsOf(list) \ {top}
             /\ NoRepeat(rest)
<1> DEFINE rest == SubSeq(list, 1, Len(list) - 1)
           n == Len(list)
<1>1. /\ n \in Nat \ {0}
      /\ DOMAIN list = 1 .. n
      /\ DOMAIN rest = 1 .. (n - 1)
      /\ \A i \in 1 .. (n - 1) : rest[i] = list[i]
  OBVIOUS
<1> HIDE DEF rest, n
<1>2. list[n] \in SlotsOf(list)
  BY <1>1 DEF SlotsOf
<1>3. SlotsOf(rest) = SlotsOf(list) \ {list[n]}
  <2>1. SlotsOf(rest) \subseteq SlotsOf(list) \ {list[n]}
    BY <1>1 DEF SlotsOf, NoRepeat
  <2>2. SlotsOf(list) \ {list[n]} \subseteq SlotsOf(rest)
    BY <1>1 DEF SlotsOf
  <2>3. QED
    BY <2>1, <2>2, Zenon
<1>4. NoRepeat(rest)
  BY <1>1 DEF NoRepeat
<1>5. QED
  BY <1>2, <1>3, <1>4, Zenon DEF rest, n

\* Appending a disjoint list adds exactly its slots.
LEMMA JoinSlots ==
  ASSUME NEW a \in Seq(Entries), NEW b \in Seq(Entries),
         NoRepeat(a), NoRepeat(b), SlotsOf(a) \cap SlotsOf(b) = {}
  PROVE  /\ SlotsOf(a \o b) = SlotsOf(a) \cup SlotsOf(b)
         /\ NoRepeat(a \o b)
<1> DEFINE c == a \o b
<1>1. /\ Len(a) \in Nat /\ Len(b) \in Nat
      /\ DOMAIN a = 1 .. Len(a) /\ DOMAIN b = 1 .. Len(b)
      /\ DOMAIN c = 1 .. (Len(a) + Len(b))
      /\ \A i \in 1 .. Len(a) : c[i] = a[i]
      /\ \A i \in 1 .. (Len(a) + Len(b)) : i > Len(a) => c[i] = b[i - Len(a)]
  OBVIOUS
<1> HIDE DEF c
<1>2. \A i \in DOMAIN c : i > Len(a) => i - Len(a) \in DOMAIN b
  BY <1>1
<1>3. \A i \in DOMAIN b : i + Len(a) \in DOMAIN c /\ c[i + Len(a)] = b[i]
  BY <1>1, SMTT(30)
<1>4. SlotsOf(c) = SlotsOf(a) \cup SlotsOf(b)
  <2>1. SlotsOf(c) \subseteq SlotsOf(a) \cup SlotsOf(b)
    BY <1>1, <1>2 DEF SlotsOf
  <2>2. SlotsOf(a) \subseteq SlotsOf(c)
    BY <1>1 DEF SlotsOf
  <2>3. SlotsOf(b) \subseteq SlotsOf(c)
    BY <1>3, Zenon DEF SlotsOf
  <2>4. QED
    BY <2>1, <2>2, <2>3, Zenon
<1>5. NoRepeat(c)
  <2> SUFFICES ASSUME NEW i \in DOMAIN c, NEW j \in DOMAIN c, c[i] = c[j]
               PROVE  i = j
    BY Zenon DEF NoRepeat
  <2>1. CASE i <= Len(a) /\ j <= Len(a)
    BY <2>1, <1>1 DEF NoRepeat
  <2>2. CASE i > Len(a) /\ j > Len(a)
    BY <2>2, <1>1, <1>2 DEF NoRepeat
  <2>3. CASE i <= Len(a) /\ j > Len(a)
    <3>1. c[i] \in SlotsOf(a) /\ c[j] \in SlotsOf(b)
      BY <2>3, <1>1, <1>2 DEF SlotsOf
    <3>2. QED
      BY <3>1, Zenon
  <2>4. CASE i > Len(a) /\ j <= Len(a)
    <3>1. c[j] \in SlotsOf(a) /\ c[i] \in SlotsOf(b)
      BY <2>4, <1>1, <1>2 DEF SlotsOf
    <3>2. QED
      BY <3>1, Zenon
  <2>5. QED
    BY <1>1, <2>1, <2>2, <2>3, <2>4
<1>6. QED
  BY <1>4, <1>5, Zenon DEF c
-----------------------------------------------------------------------------
\* The slot a put is given belongs to no other feature and to no tombstone, and
\* taking it keeps the slots partitioned.
LEMMA AdmitPartition ==
  ASSUME TypeOK, SlotPartition, NEW f \in Feats, AdmitFeature(f),
         tombstones' = tombstones
  PROVE  /\ SlotPartition'
         /\ \A g \in Feats : g # f => index[g] # TargetEntry(f)
         /\ TargetEntry(f) \notin SlotsOf(tombstones)
<1>1. CASE index[f] # None
  <2>1. index' = index /\ bump_ptr' = bump_ptr /\ free_list' = free_list
    BY <1>1, Zenon DEF AdmitFeature, TargetEntry, TypeOK
  <2>2. Live' = Live
    BY <2>1, Zenon DEF Live
  <2>3. SlotsOf(free_list)' = SlotsOf(free_list) /\ SlotsOf(tombstones)' = SlotsOf(tombstones)
    BY <2>1, Zenon DEF SlotsOf
  <2>4. /\ NoRepeat(free_list) => NoRepeat(free_list)'
        /\ NoRepeat(tombstones) => NoRepeat(tombstones)'
    BY <2>1, Zenon DEF NoRepeat
  <2>5. SlotPartition'
    BY <2>1, <2>2, <2>3, <2>4, Zenon DEF SlotPartition
  <2>6. TargetEntry(f) = index[f] /\ index[f] \in Live
    BY <1>1, Zenon DEF TargetEntry, Live
  <2>7. \A g \in Feats : g # f => index[g] # index[f]
    BY <1>1, Zenon DEF SlotPartition
  <2>8. index[f] \notin SlotsOf(tombstones)
    BY <2>6, Zenon DEF SlotPartition
  <2>9. QED
    BY <2>5, <2>6, <2>7, <2>8, Zenon
<1>2. CASE index[f] = None /\ free_list # <<>>
  <2> DEFINE e == free_list[Len(free_list)]
  <2>1. /\ TargetEntry(f) = e
        /\ index' = [index EXCEPT ![f] = e]
        /\ free_list' = SubSeq(free_list, 1, Len(free_list) - 1)
        /\ bump_ptr' = bump_ptr
    BY <1>2, Zenon DEF AdmitFeature, TargetEntry, AllocEntry
  <2>2. /\ e \in SlotsOf(free_list)
        /\ SlotsOf(free_list') = SlotsOf(free_list) \ {e}
        /\ NoRepeat(free_list')
    BY <1>2, <2>1, PopSlot, Zenon DEF TypeOK, SlotPartition
  <2>3. e \in Entries /\ e # None
    BY <2>1, AdmitType, ConstantsAssumption DEF Entries
  <2> HIDE DEF e
  <2>4. \A g \in Feats : index[g] # e
    BY <2>2, <2>3, Zenon DEF SlotPartition, Live
  <2>5. Live' = Live \cup {e}
    BY <1>2, <2>1, <2>3, Zenon DEF Live, TypeOK
  <2>6. \A g, h \in Feats : index'[g] = index'[h] /\ index'[g] # None => g = h
    BY <2>1, <2>4, Zenon DEF SlotPartition, TypeOK
  <2>7. SlotsOf(tombstones)' = SlotsOf(tombstones) /\ NoRepeat(tombstones)'
    BY DEF SlotsOf, NoRepeat, SlotPartition
  <2>8. QED
    BY <2>1, <2>2, <2>4, <2>5, <2>6, <2>7 DEF SlotPartition
<1>3. CASE index[f] = None /\ free_list = <<>>
  <2>1. /\ TargetEntry(f) = bump_ptr
        /\ index' = [index EXCEPT ![f] = bump_ptr]
        /\ free_list' = free_list
        /\ bump_ptr' = bump_ptr + 1
    BY <1>3, Zenon DEF AdmitFeature, TargetEntry, AllocEntry
  <2>2. bump_ptr \in Nat /\ bump_ptr # None
    BY ConstantsAssumption DEF TypeOK
  <2>3. bump_ptr \notin 0 .. (bump_ptr - 1)
        /\ 0 .. (bump_ptr' - 1) = (0 .. (bump_ptr - 1)) \cup {bump_ptr}
    BY <2>1, <2>2, SMTT(30)
  <2>4. /\ \A g \in Feats : index[g] # bump_ptr
        /\ bump_ptr \notin SlotsOf(free_list) /\ bump_ptr \notin SlotsOf(tombstones)
    BY <2>2, <2>3, Zenon DEF SlotPartition, Live
  <2>5. Live' = Live \cup {bump_ptr}
    BY <1>3, <2>1, <2>2, Zenon DEF Live, TypeOK
  <2>6. \A g, h \in Feats : index'[g] = index'[h] /\ index'[g] # None => g = h
    BY <2>1, <2>4, Zenon DEF SlotPartition, TypeOK
  <2>7. /\ SlotsOf(tombstones)' = SlotsOf(tombstones) /\ NoRepeat(tombstones)'
        /\ SlotsOf(free_list)' = SlotsOf(free_list) /\ NoRepeat(free_list)'
    BY <2>1 DEF SlotsOf, NoRepeat, SlotPartition
  <2>8. QED
    BY <2>1, <2>3, <2>4, <2>5, <2>6, <2>7 DEF SlotPartition
<1>4. QED
  BY <1>1, <1>2, <1>3, Zenon

\* Deleting a feature takes its slot away from the index and from no one else.
LEMMA UnindexSlot ==
  ASSUME TypeOK, SlotPartition, NEW f \in Feats, index[f] # None,
         index' = [index EXCEPT ![f] = None]
  PROVE  /\ index[f] \in Entries
         /\ Live' = Live \ {index[f]}
         /\ index[f] \in Live
         /\ index[f] \notin SlotsOf(free_list)
         /\ index[f] \notin SlotsOf(tombstones)
         /\ \A g, h \in Feats : index'[g] = index'[h] /\ index'[g] # None => g = h
<1>1. index[f] \in Entries /\ index[f] \in Live
  BY Zenon DEF TypeOK, Live
<1>2. \A g, h \in Feats : index[g] = index[h] /\ index[g] # None => g = h
  BY Zenon DEF SlotPartition
<1>3. Live' = Live \ {index[f]}
  <2>1. \A g \in Feats : index'[g] = IF g = f THEN None ELSE index[g]
    BY Zenon DEF TypeOK
  <2>2. QED
    BY <1>2, <2>1 DEF Live
<1>4. \A g, h \in Feats : index'[g] = index'[h] /\ index'[g] # None => g = h
  BY <1>2, Zenon DEF TypeOK
<1>5. QED
  BY <1>1, <1>3, <1>4, Zenon DEF SlotPartition

\* A step that leaves the allocator and the tombstones alone keeps the partition.
LEMMA PartitionUnchanged ==
  ASSUME SlotPartition, UNCHANGED <<index, bump_ptr, free_list, tombstones>>
  PROVE  SlotPartition'
<1>1. /\ Live' = Live
      /\ SlotsOf(free_list)' = SlotsOf(free_list)
      /\ SlotsOf(tombstones)' = SlotsOf(tombstones)
      /\ NoRepeat(free_list)' = NoRepeat(free_list)
      /\ NoRepeat(tombstones)' = NoRepeat(tombstones)
  BY Zenon DEF Live, SlotsOf, NoRepeat
<1>2. QED
  BY <1>1, Zenon DEF SlotPartition

\* The slots of the bin stay partitioned between the index, the free list and
\* the tombstones: no slot is leaked, shared or handed out twice.
THEOREM SlotPartitionInvariant == Spec => []SlotPartition
<1>1. Init => SlotPartition
  <2> SUFFICES ASSUME Init PROVE SlotPartition
    OBVIOUS
  <2>1. Live = {}
    BY Zenon DEF Init, Live
  <2>2. SlotsOf(<<>>) = {} /\ NoRepeat(<<>>)
    BY DEF SlotsOf, NoRepeat
  <2>3. 0 .. (bump_ptr - 1) = {}
    BY DEF Init
  <2>4. QED
    BY <2>1, <2>2, <2>3, Zenon DEF Init, SlotPartition
<1>2. TypeOK /\ CheckpointMode /\ SlotPartition /\ [Next]_vars => SlotPartition'
  <2> SUFFICES ASSUME TypeOK, CheckpointMode, SlotPartition, [Next]_vars
               PROVE  SlotPartition'
    OBVIOUS
  <2>1. ASSUME NEW f \in Feats, NEW v \in Vals, NEW full \in BOOLEAN, PutOverlay(f, v, full)
        PROVE  SlotPartition'
    BY <2>1, AdmitPartition, Zenon DEF PutOverlay
  <2>2. ASSUME NEW f \in Feats, NEW full \in BOOLEAN, PutBusy(f, full)
        PROVE  SlotPartition'
    BY <2>2, AdmitPartition, Zenon DEF PutBusy, ovVars
  <2>3. ASSUME NEW f \in Feats, NEW v \in Vals, NEW full \in BOOLEAN, PutBuffered(f, v, full)
        PROVE  SlotPartition'
    BY <2>3, AdmitPartition, Zenon DEF PutBuffered, ovVars
  <2>4. ASSUME NEW f \in Feats, NEW full \in BOOLEAN, DeleteNow(f, full)
        PROVE  SlotPartition'
    <3>1. /\ index[f] # None
          /\ index' = [index EXCEPT ![f] = None]
          /\ free_list' = Append(free_list, index[f])
          /\ tombstones' = tombstones /\ bump_ptr' = bump_ptr
      BY <2>4, Zenon DEF DeleteNow, ovVars
    <3>2. /\ SlotsOf(free_list') = SlotsOf(free_list) \cup {index[f]}
          /\ NoRepeat(free_list')
      BY <3>1, UnindexSlot, PushSlot, Zenon DEF TypeOK, SlotPartition
    <3>3. SlotsOf(tombstones)' = SlotsOf(tombstones) /\ NoRepeat(tombstones)'
      <4>1. NoRepeat(tombstones)
        BY Zenon DEF SlotPartition
      <4>2. QED
        BY <3>1, <4>1, Zenon DEF SlotsOf, NoRepeat
    <3>4. /\ Live' = Live \ {index[f]} /\ index[f] \in Live
          /\ index[f] \notin SlotsOf(free_list) /\ index[f] \notin SlotsOf(tombstones)
          /\ \A g, h \in Feats : index'[g] = index'[h] /\ index'[g] # None => g = h
      BY <3>1, UnindexSlot, Zenon
    <3>5. QED
      BY <3>1, <3>2, <3>3, <3>4 DEF SlotPartition
  <2>5. ASSUME NEW f \in Feats, DeleteTombstone(f)
        PROVE  SlotPartition'
    <3>1. /\ index[f] # None
          /\ index' = [index EXCEPT ![f] = None]
          /\ tombstones' = Append(tombstones, index[f])
          /\ free_list' = free_list /\ bump_ptr' = bump_ptr
      BY <2>5, Zenon DEF DeleteTombstone
    <3>2. /\ SlotsOf(tombstones') = SlotsOf(tombstones) \cup {index[f]}
          /\ NoRepeat(tombstones')
      BY <3>1, UnindexSlot, PushSlot, Zenon DEF TypeOK, SlotPartition
    <3>3. SlotsOf(free_list)' = SlotsOf(free_list) /\ NoRepeat(free_list)'
      <4>1. NoRepeat(free_list)
        BY Zenon DEF SlotPartition
      <4>2. QED
        BY <3>1, <4>1, Zenon DEF SlotsOf, NoRepeat
    <3>4. /\ Live' = Live \ {index[f]} /\ index[f] \in Live
          /\ index[f] \notin SlotsOf(free_list) /\ index[f] \notin SlotsOf(tombstones)
          /\ \A g, h \in Feats : index'[g] = index'[h] /\ index'[g] # None => g = h
      BY <3>1, UnindexSlot, Zenon
    <3>5. QED
      BY <3>1, <3>2, <3>3, <3>4, SMTT(30), ZenonT(60) DEF SlotPartition
  <2>6. CASE Flush
    BY <2>6, PartitionUnchanged, Zenon DEF Flush, binVars, ovVars
  <2>7. CASE StepBegin
    <3>1. tombstones = <<>>
      BY <2>7, Zenon DEF StepBegin, CheckpointMode
    <3>2. QED
      BY <2>7, <3>1, PartitionUnchanged, Zenon DEF StepBegin, CheckpointBegin, binVars
  <2>8. CASE StepNextPhase
    BY <2>8, PartitionUnchanged, Zenon DEF StepNextPhase, binVars, ovVars
  <2>9. CASE StepDump
    BY <2>9, PartitionUnchanged, Zenon DEF StepDump, binVars, ovVars
  <2>10. CASE StepSkip
    BY <2>10, PartitionUnchanged, Zenon DEF StepSkip, binVars, ovVars
  <2>11. CASE StepFinish
    <3>1. /\ index' = index /\ bump_ptr' = bump_ptr
          /\ free_list' = free_list \o tombstones
          /\ tombstones' = <<>>
      BY <2>11, Zenon DEF StepFinish, CheckpointEnd, FreeTombstones
    <3>2. /\ SlotsOf(free_list') = SlotsOf(free_list) \cup SlotsOf(tombstones)
          /\ NoRepeat(free_list')
      BY <3>1, JoinSlots, Zenon DEF TypeOK, SlotPartition
    <3>3. SlotsOf(tombstones') = {} /\ NoRepeat(tombstones')
      BY <3>1 DEF SlotsOf, NoRepeat
    <3>4. Live' = Live
      BY <3>1, Zenon DEF Live
    <3>5. QED
      BY <3>1, <3>2, <3>3, <3>4, Zenon DEF SlotPartition
  <2>12. CASE phase = "IDLE" /\ Checkpoint
    <3>1. tombstones = <<>>
      BY <2>12, Zenon DEF CheckpointMode
    <3>2. QED
      BY <2>12, <3>1, PartitionUnchanged, Zenon DEF Checkpoint, binVars
  <2>13. CASE UNCHANGED vars
    BY <2>13, PartitionUnchanged, Zenon DEF vars, binVars, ovVars
  <2>14. QED
    BY <2>1, <2>2, <2>3, <2>4, <2>5, <2>6, <2>7, <2>8, <2>9, <2>10, <2>11, <2>12, <2>13, Zenon
    DEF Next, Put, Delete, Step
<1>3. QED
  BY <1>1, <1>2, TypeCorrect, CheckpointModeInvariant, PTL DEF Spec
-----------------------------------------------------------------------------
\* dimbin_buf_key, with or without the early flush of the buffer, changes the
\* effective key of its own slot alone.
LEMMA BufKeyEffect ==
  ASSUME TypeOK, NEW e \in Entries, NEW k \in Feats \cup {NoFeat}, NEW full \in BOOLEAN,
         key_file' = KeyFileAfter(full), key_buf' = KeyBufAfter(e, k, full)
  PROVE  \A x \in Entries : EffectiveKey(x)' = IF x = e THEN k ELSE EffectiveKey(x)
BY ConstantsAssumption, Zenon
DEF TypeOK, KeyFileAfter, KeyBufAfter, NoKeys, FlushedKeys, EffectiveKey

\* The same when the buffer, new key included, is then flushed by a full write
\* buffer.
LEMMA BufKeySpilled ==
  ASSUME TypeOK, NEW e \in Entries, NEW k \in Feats \cup {NoFeat}, NEW full \in BOOLEAN,
         key_file' = FlushedKeys(KeyFileAfter(full), KeyBufAfter(e, k, full)),
         key_buf' = NoKeys
  PROVE  \A x \in Entries : EffectiveKey(x)' = IF x = e THEN k ELSE EffectiveKey(x)
BY ConstantsAssumption, Zenon
DEF TypeOK, KeyFileAfter, KeyBufAfter, NoKeys, FlushedKeys, EffectiveKey

\* Flushing the key buffer changes no effective key.
LEMMA WriteBackKeys ==
  ASSUME TypeOK, WriteBack
  PROVE  \A x \in Entries : EffectiveKey(x)' = EffectiveKey(x)
BY ConstantsAssumption, Zenon DEF TypeOK, WriteBack, NoKeys, FlushedKeys, EffectiveKey

\* Freeing the tombstones clears exactly their keys, wherever the arena of the
\* key buffer fills up.
LEMMA FreeTombstonesKeys ==
  ASSUME TypeOK, NEW cut \in 1 .. (Len(tombstones) + 1), FreeTombstones(cut)
  PROVE  \A x \in Entries : EffectiveKey(x)' = IF x \in SlotsOf(tombstones) THEN NoFeat
                                               ELSE EffectiveKey(x)
<1>1. SlotsOf(tombstones) = TombstonesFrom(1)
  <2>1. tombstones \in Seq(Entries)
    BY Zenon DEF TypeOK
  <2>2. DOMAIN tombstones = 1 .. Len(tombstones)
    BY <2>1, SMTT(30)
  <2>3. QED
    BY <2>2, Zenon DEF SlotsOf, TombstonesFrom
<1>2. TombstonesFrom(cut) \subseteq TombstonesFrom(1)
  BY SMTT(30) DEF TombstonesFrom
<1>3. QED
  BY <1>1, <1>2, ConstantsAssumption, Zenon
  DEF TypeOK, FreeTombstones, NoKeys, FlushedKeys, EffectiveKey

\* A put that writes its feature's id to the slot it was given keeps keys and
\* owners together.
LEMMA PutKeepsKeys ==
  ASSUME TypeOK, SlotPartition, KeysNameOwners, NEW f \in Feats, AdmitFeature(f),
         tombstones' = tombstones,
         \A x \in Entries : EffectiveKey(x)' = IF x = TargetEntry(f) THEN f ELSE EffectiveKey(x)
  PROVE  KeysNameOwners'
<1>1. TargetEntry(f) \in Entries /\ None \notin Entries
  BY AdmitType, ConstantsAssumption DEF Entries
<1>2. /\ \A g \in Feats : g # f => index[g] # TargetEntry(f)
      /\ TargetEntry(f) \notin SlotsOf(tombstones)
  BY AdmitPartition, Zenon
<1>3. \A g \in Feats : index'[g] = IF g = f THEN TargetEntry(f) ELSE index[g]
  BY Zenon DEF AdmitFeature, TypeOK
<1>4. Live \subseteq Live' /\ TargetEntry(f) \in Live'
  <2>1. \A g \in Feats : index[g] # None => index'[g] = index[g]
    BY <1>3, Zenon DEF TargetEntry
  <2>2. QED
    BY <1>1, <1>3, <2>1, Zenon DEF Live
<1>5. ASSUME NEW g \in Feats, index'[g] # None
      PROVE  EffectiveKey(index[g])' = g
  <2>1. index'[g] \in Entries
    BY <1>1, <1>3, <1>5, Zenon DEF TypeOK
  <2>2. QED
    BY <1>2, <1>3, <1>5, <2>1, Zenon DEF KeysNameOwners
<1>6. ASSUME NEW e \in Entries, e \notin Live', e \notin SlotsOf(tombstones)'
      PROVE  EffectiveKey(e)' = NoFeat
  <2>1. SlotsOf(tombstones)' = SlotsOf(tombstones)
    BY Zenon DEF SlotsOf
  <2>2. QED
    BY <1>4, <1>6, <2>1, Zenon DEF KeysNameOwners
<1>7. QED
  BY <1>5, <1>6, Zenon DEF KeysNameOwners

\* A step that changes neither owners nor effective keys keeps them together.
LEMMA KeysUnchanged ==
  ASSUME TypeOK, KeysNameOwners, index' = index, tombstones' = tombstones,
         \A x \in Entries : EffectiveKey(x)' = EffectiveKey(x)
  PROVE  KeysNameOwners'
<1>1. Live' = Live /\ SlotsOf(tombstones)' = SlotsOf(tombstones)
  BY Zenon DEF Live, SlotsOf
<1>2. \A f \in Feats : index[f] # None => index[f] \in Entries
  BY Zenon DEF TypeOK
<1>3. QED
  BY <1>1, <1>2, Zenon DEF KeysNameOwners

\* The same when neither the key buffer nor the key file is touched.
LEMMA KeysUntouched ==
  ASSUME TypeOK, KeysNameOwners, index' = index, tombstones' = tombstones,
         UNCHANGED keyVars
  PROVE  KeysNameOwners'
<1>1. \A x \in Entries : EffectiveKey(x)' = EffectiveKey(x)
  BY Zenon DEF EffectiveKey, keyVars
<1>2. QED
  BY <1>1, KeysUnchanged, Zenon

\* The key file with its buffer names exactly the owners in the index, so that
\* a clean close loses and invents no feature.
THEOREM KeysNameOwnersInvariant == Spec => []KeysNameOwners
<1>1. Init => KeysNameOwners
  BY ConstantsAssumption, Zenon DEF Init, KeysNameOwners, EffectiveKey, NoKeys
<1>2. TypeOK /\ CheckpointMode /\ SlotPartition /\ KeysNameOwners /\ [Next]_vars
        => KeysNameOwners'
  <2> SUFFICES ASSUME TypeOK, CheckpointMode, SlotPartition, KeysNameOwners, [Next]_vars
               PROVE  KeysNameOwners'
    OBVIOUS
  <2>1. ASSUME NEW f \in Feats, NEW v \in Vals, NEW full \in BOOLEAN, PutOverlay(f, v, full)
        PROVE  KeysNameOwners'
    <3>1. /\ AdmitFeature(f) /\ tombstones' = tombstones
          /\ key_file' = KeyFileAfter(full)
          /\ key_buf' = KeyBufAfter(TargetEntry(f), f, full)
      BY <2>1, Zenon DEF PutOverlay
    <3>2. TargetEntry(f) \in Entries
      BY <3>1, AdmitType, Zenon
    <3>3. QED
      BY <3>1, <3>2, BufKeyEffect, PutKeepsKeys, Zenon
  <2>2. ASSUME NEW f \in Feats, NEW full \in BOOLEAN, PutBusy(f, full)
        PROVE  KeysNameOwners'
    <3>1. /\ AdmitFeature(f) /\ tombstones' = tombstones
          /\ key_file' = KeyFileAfter(full)
          /\ key_buf' = KeyBufAfter(TargetEntry(f), f, full)
      BY <2>2, Zenon DEF PutBusy, ovVars
    <3>2. TargetEntry(f) \in Entries
      BY <3>1, AdmitType, Zenon
    <3>3. QED
      BY <3>1, <3>2, BufKeyEffect, PutKeepsKeys, Zenon
  <2>3. ASSUME NEW f \in Feats, NEW v \in Vals, NEW full \in BOOLEAN, PutBuffered(f, v, full)
        PROVE  KeysNameOwners'
    <3>1. AdmitFeature(f) /\ tombstones' = tombstones
      BY <2>3, Zenon DEF PutBuffered, ovVars
    <3>2. TargetEntry(f) \in Entries
      BY <3>1, AdmitType, Zenon
    <3>3. \/ /\ key_file' = KeyFileAfter(full)
             /\ key_buf' = KeyBufAfter(TargetEntry(f), f, full)
          \/ /\ key_file' = FlushedKeys(KeyFileAfter(full), KeyBufAfter(TargetEntry(f), f, full))
             /\ key_buf' = NoKeys
      BY <2>3, Zenon DEF PutBuffered
    <3>4. QED
      BY <3>1, <3>2, <3>3, BufKeyEffect, BufKeySpilled, PutKeepsKeys, Zenon
  <2>4. ASSUME NEW f \in Feats, NEW full \in BOOLEAN, DeleteNow(f, full)
        PROVE  KeysNameOwners'
    <3>1. /\ index[f] # None
          /\ index' = [index EXCEPT ![f] = None]
          /\ key_file' = KeyFileAfter(full)
          /\ key_buf' = KeyBufAfter(index[f], NoFeat, full)
          /\ tombstones' = tombstones
      BY <2>4, Zenon DEF DeleteNow, ovVars
    <3>2. index[f] \in Entries /\ Live' = Live \ {index[f]}
      BY <3>1, UnindexSlot, Zenon
    <3>3. \A x \in Entries : EffectiveKey(x)' = IF x = index[f] THEN NoFeat ELSE EffectiveKey(x)
      BY <3>1, <3>2, BufKeyEffect, Zenon
    <3>4. ASSUME NEW g \in Feats, index'[g] # None
          PROVE  EffectiveKey(index[g])' = g
      <4>1. g # f /\ index'[g] = index[g] /\ index[g] \in Entries /\ index[g] # index[f]
        BY <3>1, <3>4, Zenon DEF TypeOK, SlotPartition
      <4>2. QED
        BY <3>3, <3>4, <4>1, Zenon DEF KeysNameOwners
    <3>5. SlotsOf(tombstones)' = SlotsOf(tombstones)
      BY <3>1, Zenon DEF SlotsOf
    <3>6. QED
      BY <3>2, <3>3, <3>4, <3>5, Zenon DEF KeysNameOwners
  <2>5. ASSUME NEW f \in Feats, DeleteTombstone(f)
        PROVE  KeysNameOwners'
    <3>1. /\ index[f] # None
          /\ index' = [index EXCEPT ![f] = None]
          /\ tombstones' = Append(tombstones, index[f])
          /\ UNCHANGED keyVars
      BY <2>5, Zenon DEF DeleteTombstone
    <3>2. index[f] \in Entries /\ Live' = Live \ {index[f]}
      BY <3>1, UnindexSlot, Zenon
    <3>3. SlotsOf(tombstones)' = SlotsOf(tombstones) \cup {index[f]}
      BY <3>1, UnindexSlot, PushSlot, Zenon DEF TypeOK, SlotPartition
    <3>4. \A x \in Entries : EffectiveKey(x)' = EffectiveKey(x)
      BY <3>1, Zenon DEF EffectiveKey, keyVars
    <3>5. \A g \in Feats : index'[g] # None => index'[g] = index[g] /\ index[g] \in Entries
      BY <3>1, Zenon DEF TypeOK
    <3>6. QED
      BY <3>2, <3>3, <3>4, <3>5, Zenon DEF KeysNameOwners
  <2>6. CASE Flush
    BY <2>6, WriteBackKeys, KeysUnchanged, Zenon DEF Flush, binVars, ovVars
  <2>7. CASE StepBegin
    <3>1. tombstones' = tombstones
      BY <2>7, Zenon DEF StepBegin, CheckpointBegin, CheckpointMode
    <3>2. QED
      BY <2>7, <3>1, WriteBackKeys, KeysUnchanged, Zenon DEF StepBegin, CheckpointBegin, binVars
  <2>8. CASE StepNextPhase
    BY <2>8, KeysUntouched, Zenon DEF StepNextPhase, binVars, ovVars
  <2>9. CASE StepDump
    BY <2>9, KeysUntouched, Zenon DEF StepDump, binVars, ovVars
  <2>10. CASE StepSkip
    BY <2>10, KeysUntouched, Zenon DEF StepSkip, binVars, ovVars
  <2>11. CASE StepFinish
    <3>1. PICK cut \in 1 .. (Len(tombstones) + 1) : FreeTombstones(cut)
      BY <2>11, Zenon DEF StepFinish, CheckpointEnd
    <3>2. index' = index /\ tombstones' = <<>>
      BY <2>11, Zenon DEF StepFinish, CheckpointEnd
    <3>3. \A x \in Entries : EffectiveKey(x)' = IF x \in SlotsOf(tombstones) THEN NoFeat
                                                ELSE EffectiveKey(x)
      BY <3>1, FreeTombstonesKeys, Zenon
    <3>4. Live' = Live
      BY <3>2, Zenon DEF Live
    <3>5. \A f \in Feats : index[f] # None =>
            index[f] \in Entries /\ index[f] \notin SlotsOf(tombstones)
      BY DEF TypeOK, SlotPartition, Live
    <3>6. \A f \in Feats : index'[f] # None => EffectiveKey(index[f])' = f
      BY <3>2, <3>3, <3>5, Zenon DEF KeysNameOwners
    <3>7. QED
      BY <3>3, <3>4, <3>6, Zenon DEF KeysNameOwners
  <2>12. CASE phase = "IDLE" /\ Checkpoint
    <3>1. tombstones' = tombstones
      BY <2>12, Zenon DEF Checkpoint, CheckpointMode
    <3>2. QED
      BY <2>12, <3>1, WriteBackKeys, KeysUnchanged, Zenon DEF Checkpoint, binVars
  <2>13. CASE UNCHANGED vars
    BY <2>13, KeysUntouched, Zenon DEF vars, binVars, ovVars
  <2>14. QED
    BY <2>1, <2>2, <2>3, <2>4, <2>5, <2>6, <2>7, <2>8, <2>9, <2>10, <2>11, <2>12, <2>13, Zenon
    DEF Next, Put, Delete, Step
<1>3. QED
  BY <1>1, <1>2, TypeCorrect, CheckpointModeInvariant, SlotPartitionInvariant, PTL DEF Spec
-----------------------------------------------------------------------------
\* While the bin is in checkpoint mode nothing changes its data file.
THEOREM FrozenTheorem == Spec => FrozenDuringCheckpoint
<1> DEFINE Frozen == in_checkpoint /\ in_checkpoint' => data_file' = data_file
<1>1. TypeOK /\ CheckpointMode /\ [Next]_vars => [Frozen]_vars
  <2> SUFFICES ASSUME TypeOK, CheckpointMode, [Next]_vars, in_checkpoint, in_checkpoint'
               PROVE  data_file' = data_file
    OBVIOUS
  <2>1. resident = {} /\ phase # "IDLE"
    BY Zenon DEF CheckpointMode
  <2>2. CASE Flush
    <3>1. data_file' = FlushedPages
      BY <2>2, Zenon DEF Flush, WriteBack
    <3>2. QED
      BY <2>1, <3>1, Zenon DEF FlushedPages, TypeOK
  <2>3. CASE Step
    BY <2>1, <2>3, Zenon DEF Step, StepBegin, StepNextPhase, StepDump, StepSkip, StepFinish,
                      CheckpointEnd, pageVars
  <2>4. ASSUME NEW f \in Feats, Put(f) \/ Delete(f)
        PROVE  data_file' = data_file
    BY <2>4, Zenon DEF Put, Delete, PutOverlay, PutBusy, PutBuffered, DeleteNow, DeleteTombstone,
                pageVars
  <2>5. CASE UNCHANGED vars
    BY <2>5, Zenon DEF vars, pageVars
  <2>6. QED
    BY <2>1, <2>2, <2>3, <2>4, <2>5, Zenon DEF Next
<1>2. QED
  BY <1>1, TypeCorrect, CheckpointModeInvariant, PTL DEF Spec, FrozenDuringCheckpoint
-----------------------------------------------------------------------------
\* The strengthening DeltaChainComplete needs: a buffered page, which a flush
\* may write at any time, is already in the active dirty set.
DeltaInv == DeltaChainComplete /\ resident \subseteq active

\* A flush changes resident pages only.
LEMMA FlushChanges ==
  ASSUME TypeOK, data_file' = FlushedPages
  PROVE  ChangedPages \subseteq resident
BY Zenon DEF ChangedPages, FlushedPages, TypeOK

\* No page change escapes the chain of delta files, provided every delta file
\* can be started and a scan of the dirty tracker returns every marked page (as
\* it does while the bin has at most MaxDirty pages).
THEOREM DeltaChainInvariant ==
  ASSUME DeltaMayFail = FALSE,
         \A S \in SUBSET Pages : Scanned(S) = S
  PROVE  Spec => []DeltaChainComplete
<1>1. Init => DeltaInv
  BY Zenon DEF Init, DeltaInv, DeltaChainComplete
<1>2. TypeOK /\ CheckpointMode /\ DeltaInv /\ [Next]_vars => DeltaInv'
  <2> SUFFICES ASSUME TypeOK, CheckpointMode, DeltaInv, [Next]_vars
               PROVE  DeltaInv'
    OBVIOUS
  <2>1. ASSUME NEW f \in Feats, NEW v \in Vals, NEW full \in BOOLEAN, PutOverlay(f, v, full)
        PROVE  DeltaInv'
    BY <2>1, Zenon DEF PutOverlay, pageVars, stepVars, DeltaInv, DeltaChainComplete, PendingDump
  <2>2. ASSUME NEW f \in Feats, NEW full \in BOOLEAN, PutBusy(f, full)
        PROVE  DeltaInv'
    BY <2>2, Zenon DEF PutBusy, pageVars, ovVars, stepVars, DeltaInv, DeltaChainComplete, PendingDump
  <2>3. ASSUME NEW f \in Feats, NEW v \in Vals, NEW full \in BOOLEAN, PutBuffered(f, v, full)
        PROVE  DeltaInv'
    <3>1. /\ data_file' = FlushedPages \/ data_file' = data_file
          /\ stale' = stale \cup ChangedPages
          /\ active' = active \cup {PageOf(TargetEntry(f))}
          /\ resident' \subseteq resident \cup {PageOf(TargetEntry(f))}
          /\ UNCHANGED <<phase, current_bin, delta_open, dirty_blocks, ckpt>>
      BY <2>3, Zenon DEF PutBuffered, ovVars, stepVars
    <3>2. ChangedPages \subseteq resident
      BY <3>1, FlushChanges, Zenon DEF ChangedPages
    <3>3. PendingDump' = PendingDump
      BY <3>1, Zenon DEF PendingDump
    <3>4. QED
      BY <3>1, <3>2, <3>3, Zenon DEF DeltaInv, DeltaChainComplete
  <2>4. ASSUME NEW f \in Feats, NEW full \in BOOLEAN, DeleteNow(f, full)
        PROVE  DeltaInv'
    BY <2>4, Zenon DEF DeleteNow, pageVars, ovVars, stepVars, DeltaInv, DeltaChainComplete, PendingDump
  <2>5. ASSUME NEW f \in Feats, DeleteTombstone(f)
        PROVE  DeltaInv'
    BY <2>5, Zenon DEF DeleteTombstone, pageVars, stepVars, DeltaInv, DeltaChainComplete, PendingDump
  <2>6. CASE Flush
    <3>1. /\ data_file' = FlushedPages /\ resident' = {} /\ active' = active
          /\ stale' = stale \cup ChangedPages
          /\ UNCHANGED <<phase, current_bin, delta_open, dirty_blocks, ckpt>>
      BY <2>6, Zenon DEF Flush, WriteBack, ovVars, stepVars
    <3>2. PendingDump' = PendingDump
      BY <3>1, Zenon DEF PendingDump
    <3>3. QED
      BY <3>1, <3>2, FlushChanges, Zenon DEF DeltaInv, DeltaChainComplete
  <2>7. CASE StepBegin
    <3>1. /\ data_file' = FlushedPages /\ resident' = {} /\ active' = {}
          /\ stale' = stale \cup ChangedPages
          /\ phase = "IDLE" /\ phase' = "FLUSHING" /\ delta_open' = FALSE /\ ckpt' = active
          /\ Scanned(active) = active
      BY <2>7, Zenon DEF StepBegin, CheckpointBegin, WriteBack, TypeOK
    <3>2. stale \subseteq active /\ ChangedPages \subseteq active
      BY <3>1, FlushChanges, Zenon DEF DeltaInv, DeltaChainComplete
    <3>3. QED
      BY <3>1, <3>2, Zenon DEF DeltaInv, DeltaChainComplete, PendingDump
  <2>8. CASE StepNextPhase
    BY <2>8 DEF StepNextPhase, pageVars, ovVars, DeltaInv, DeltaChainComplete, PendingDump
  <2>9. CASE StepDump
    <3>1. /\ phase = "DUMPING" /\ current_bin = 0 /\ phase' = phase
          /\ dirty_blocks' = PendingDump \ DumpBatch
          /\ delta_open' = (dirty_blocks' # {})
          /\ current_bin' = IF delta_open' THEN 0 ELSE 1
          /\ stale' = stale \ DumpBatch
          /\ resident' = resident /\ active' = active
      BY <2>9, Zenon DEF StepDump, pageVars
    <3>2. stale \subseteq active \cup PendingDump
      BY <3>1, Zenon DEF DeltaInv, DeltaChainComplete
    <3>3. stale' \subseteq active \cup dirty_blocks'
      BY <3>1, <3>2, Zenon
    <3>4. CASE dirty_blocks' = {}
      BY <3>1, <3>3, <3>4, Zenon DEF DeltaInv, DeltaChainComplete
    <3>5. CASE dirty_blocks' # {}
      <4>1. PendingDump' = dirty_blocks' /\ current_bin' = 0
        BY <3>1, <3>5, Zenon DEF PendingDump
      <4>2. QED
        BY <3>1, <3>3, <4>1, Zenon DEF DeltaInv, DeltaChainComplete
    <3>6. QED
      BY <3>4, <3>5, Zenon
  <2>10. CASE StepSkip
    BY <2>10, Zenon DEF StepSkip
  <2>11. CASE StepFinish
    <3>1. /\ ReplayOverlay /\ phase = "FINISHING" /\ phase' = "IDLE"
          /\ stale' = stale \cup ChangedPages
      BY <2>11, Zenon DEF StepFinish, CheckpointEnd
    <3>2. resident = {} /\ stale \subseteq active
      BY <3>1, Zenon DEF CheckpointMode, DeltaInv, DeltaChainComplete
    <3>3. CASE ReplayPages = {}
      <4>1. UNCHANGED pageVars
        BY <3>1, <3>3, Zenon DEF ReplayOverlay
      <4>2. ChangedPages = {}
        BY <4>1, Zenon DEF ChangedPages, pageVars
      <4>3. QED
        BY <3>1, <3>2, <4>1, <4>2, Zenon DEF DeltaInv, DeltaChainComplete, pageVars
    <3>4. CASE ReplayPages # {}
      <4>1. /\ data_file' = [e \in Entries |-> IF PageOf(e) \in SpilledPages
                                               THEN ReplayedCell(e) ELSE data_file[e]]
            /\ resident' = KeptPages
            /\ active' = active \cup ReplayPages
        BY <3>1, <3>4, Zenon DEF ReplayOverlay
      <4>2. KeptPages \subseteq ReplayPages /\ SpilledPages \subseteq ReplayPages
        BY Zenon DEF KeptPages, SpilledPages
      <4>3. ChangedPages \subseteq SpilledPages
        <5>1. \A e \in Entries : data_file'[e] # data_file[e] => PageOf(e) \in SpilledPages
          BY <4>1, Zenon
        <5>2. QED
          BY <5>1, Zenon DEF ChangedPages
      <4>4. QED
        BY <3>1, <3>2, <4>1, <4>2, <4>3, Zenon DEF DeltaInv, DeltaChainComplete
    <3>5. QED
      BY <3>3, <3>4, Zenon
  <2>12. CASE phase = "IDLE" /\ Checkpoint
    <3>1. /\ data_file' = FlushedPages /\ resident' = {}
          /\ stale' = (stale \cup ChangedPages) \ active
          /\ phase' = phase /\ current_bin' = current_bin
      BY <2>12, Zenon DEF Checkpoint, WriteBack, stepVars, TypeOK
    <3>2. stale' = {}
      BY <2>12, <3>1, FlushChanges, Zenon DEF DeltaInv, DeltaChainComplete
    <3>3. QED
      BY <3>1, <3>2, Zenon DEF DeltaInv, DeltaChainComplete
  <2>13. CASE UNCHANGED vars
    BY <2>13, Zenon DEF vars, pageVars, ovVars, stepVars, DeltaInv, DeltaChainComplete, PendingDump
  <2>14. QED
    BY <2>1, <2>2, <2>3, <2>4, <2>5, <2>6, <2>7, <2>8, <2>9, <2>10, <2>11, <2>12, <2>13
    DEF Next, Put, Delete, Step
<1>3. DeltaInv => DeltaChainComplete
  BY Zenon DEF DeltaInv
<1>4. QED
  BY <1>1, <1>2, <1>3, TypeCorrect, CheckpointModeInvariant, PTL DEF Spec
-----------------------------------------------------------------------------
\* Slots in the overlay were allocated: the replay only touches pages below
\* the allocation mark.
OverlayBelow == \A e \in Entries : overlay[e] # None => e < bump_ptr

\* Page load: with at most two entries per page, a page that holds two
\* allocated slots lies wholly below the allocation mark.
LEMMA TailPage ==
  ASSUME EPP \in {1, 2}, NEW x \in Nat, NEW e \in Nat, NEW bump \in Nat,
         x # e, x < bump, e < bump, PageOf(x) = PageOf(e)
  PROVE  PageOf(x) < bump \div EPP
<1>1. CASE EPP = 1
  BY <1>1 DEF PageOf
<1>2. CASE EPP = 2
  BY <1>2 DEF PageOf
<1>3. QED
  BY <1>1, <1>2, Zenon

\* What a page load may do to the slot of another feature: keep it, or, with
\* three or more entries per page only, replace it by zero bytes.
Settles(new, old) == new \in {old, Zero} /\ (EPP \in {1, 2} => new = old)

\* write_buf_ensure_page, seen by the other slots of the page it loads.
LEMMA LoadSettles ==
  ASSUME NEW x \in Entries, NEW e \in Entries, NEW bump \in Nat, NEW file,
         x # e, x < bump, e < bump, PageOf(x) = PageOf(e)
  PROVE  Settles(LoadedCell(x, bump, file), file[x])
<1>1. x \in Nat /\ e \in Nat
  BY ConstantsAssumption DEF Entries
<1>2. EPP \in {1, 2} => PageOf(x) < bump \div EPP
  BY <1>1, TailPage, Zenon
<1>3. QED
  BY <1>2, Zenon DEF Settles, LoadedCell

\* Flushing the buffers changes what no slot reads.
LEMMA WriteBackReads ==
  ASSUME TypeOK, WriteBack, in_checkpoint' = in_checkpoint, overlay' = overlay
  PROVE  \A x \in Entries : ReadEntry(x)' = ReadEntry(x)
BY Zenon DEF TypeOK, WriteBack, FlushedPages, ReadEntry

\* Beginning a checkpoint changes what no slot reads.
LEMMA BeginReads ==
  ASSUME TypeOK, CheckpointMode, phase = "IDLE", WriteBack, overlay' = NoOverlay
  PROVE  \A x \in Entries : ReadEntry(x)' = ReadEntry(x)
<1>1. ~in_checkpoint
  BY Zenon DEF CheckpointMode
<1>2. \A x \in Entries : overlay'[x] = None
  BY Zenon DEF NoOverlay
<1>3. QED
  BY <1>1, <1>2, Zenon DEF TypeOK, WriteBack, FlushedPages, ReadEntry

\* The allocation mark is a natural number.
LEMMA BumpType ==
  ASSUME TypeOK
  PROVE  bump_ptr \in Nat
<1>1. bump_ptr \in 0 .. MaxEntries
  BY Zenon DEF TypeOK
<1>2. MaxEntries \in Nat
  BY ConstantsAssumption, Zenon
<1>3. QED
  BY <1>1, <1>2

\* The slot a put is given lies below the allocation mark it leaves, and a put
\* never lowers the mark.
LEMMA TargetBelow ==
  ASSUME TypeOK, SlotPartition, NEW f \in Feats, AdmitFeature(f)
  PROVE  /\ TargetEntry(f) \in Entries
         /\ TargetEntry(f) < bump_ptr'
         /\ bump_ptr \in Nat /\ bump_ptr' \in Nat /\ bump_ptr <= bump_ptr'
         /\ \A g \in Feats : index'[g] = IF g = f THEN TargetEntry(f) ELSE index[g]
<1>1. TargetEntry(f) \in Entries
  BY AdmitType, Zenon
<1>2. bump_ptr \in Nat /\ bump_ptr' \in Nat /\ bump_ptr <= bump_ptr'
  <2>1. bump_ptr \in Nat
    BY BumpType, Zenon
  <2>2. bump_ptr' = bump_ptr \/ bump_ptr' = bump_ptr + 1
    BY Zenon DEF AdmitFeature
  <2>3. QED
    BY <2>1, <2>2
<1>3. \A g \in Feats : index'[g] = IF g = f THEN TargetEntry(f) ELSE index[g]
  BY Zenon DEF AdmitFeature, TypeOK
<1>4. CASE index[f] # None
  <2>1. index[f] \in 0 .. (bump_ptr - 1)
    BY <1>4, Zenon DEF SlotPartition, Live
  <2>2. TargetEntry(f) = index[f]
    BY <1>4, Zenon DEF TargetEntry
  <2>3. TargetEntry(f) < bump_ptr'
    BY <1>2, <2>1, <2>2, SMTT(30)
  <2>4. QED
    BY <1>1, <1>2, <1>3, <2>3, Zenon
<1>5. CASE index[f] = None /\ free_list # <<>>
  <2>1. free_list[Len(free_list)] \in SlotsOf(free_list)
    BY <1>5, PopSlot, Zenon DEF TypeOK, SlotPartition
  <2>2. free_list[Len(free_list)] \in 0 .. (bump_ptr - 1)
    BY <2>1, Zenon DEF SlotPartition
  <2>3. TargetEntry(f) = free_list[Len(free_list)]
    BY <1>5, Zenon DEF TargetEntry, AllocEntry
  <2>4. TargetEntry(f) < bump_ptr'
    BY <1>2, <2>2, <2>3
  <2>5. QED
    BY <1>1, <1>2, <1>3, <2>4, Zenon
<1>6. CASE index[f] = None /\ free_list = <<>>
  BY <1>1, <1>2, <1>3, <1>6 DEF TargetEntry, AllocEntry, AdmitFeature
<1>7. QED
  BY <1>4, <1>5, <1>6, Zenon

\* A put into the overlay changes what its own slot reads, and no other.
LEMMA PutOverlayReads ==
  ASSUME TypeOK, SlotPartition, NEW f \in Feats, NEW v \in Vals, NEW full \in BOOLEAN,
         PutOverlay(f, v, full)
  PROVE  \A x \in Entries : ReadEntry(x)' = IF x = TargetEntry(f) THEN v ELSE ReadEntry(x)
<1> DEFINE e == TargetEntry(f)
<1>1. e \in Entries
  BY TargetBelow, Zenon DEF PutOverlay
<1>2. /\ in_checkpoint /\ in_checkpoint'
      /\ overlay' = [overlay EXCEPT ![e] = v]
      /\ UNCHANGED <<resident, write_buf, data_file>>
  BY Zenon DEF PutOverlay, pageVars
<1>3. \A x \in Entries : overlay'[x] = IF x = e THEN v ELSE overlay[x]
  BY <1>1, <1>2, Zenon DEF TypeOK
<1>4. v # None
  BY ConstantsAssumption, Zenon
<1> HIDE DEF e
<1>5. \A x \in Entries : ReadEntry(x)' = IF x = e THEN v ELSE ReadEntry(x)
  BY <1>2, <1>3, <1>4, Zenon DEF ReadEntry
<1>6. QED
  BY <1>5, Zenon DEF e

\* A put into the write buffer changes what its own slot reads; every other
\* allocated slot is settled by the page load, if there is one.
LEMMA PutBufferedReads ==
  ASSUME TypeOK, SlotPartition, NEW f \in Feats, NEW v \in Vals, NEW full \in BOOLEAN,
         PutBuffered(f, v, full)
  PROVE  \A x \in Entries : x < bump_ptr' =>
           IF x = TargetEntry(f) THEN ReadEntry(x)' = v
                                 ELSE Settles(ReadEntry(x)', ReadEntry(x))
<1> DEFINE e     == TargetEntry(f)
           hit   == PageOf(e) \in resident
           spill == ~hit /\ Cardinality(resident) >= MaxPages
<1>1. e \in Entries /\ e < bump_ptr' /\ bump_ptr' \in Nat
  BY TargetBelow, ZenonT(30) DEF PutBuffered
<1>2. /\ ~in_checkpoint /\ in_checkpoint' = in_checkpoint
      /\ data_file' = IF spill THEN FlushedPages ELSE data_file
      /\ write_buf' = [x \in Entries |->
            IF x = e THEN v
            ELSE IF ~hit /\ PageOf(x) = PageOf(e) THEN LoadedCell(x, bump_ptr', data_file')
            ELSE IF spill THEN Zero
            ELSE write_buf[x]]
      /\ resident' = (IF spill THEN {} ELSE resident) \cup {PageOf(e)}
  BY Zenon DEF PutBuffered, ovVars
<1>3. ~hit => \A x \in Entries : PageOf(x) = PageOf(e) => data_file'[x] = ReadEntry(x)
  BY <1>2, Zenon DEF ReadEntry, FlushedPages
<1>4. spill => \A x \in Entries : data_file'[x] = ReadEntry(x)
  BY <1>2, Zenon DEF ReadEntry, FlushedPages
<1> SUFFICES ASSUME NEW x \in Entries, x < bump_ptr'
             PROVE  IF x = e THEN ReadEntry(x)' = v ELSE Settles(ReadEntry(x)', ReadEntry(x))
  OBVIOUS
<1>5. ReadEntry(x)' = IF PageOf(x) \in resident' THEN write_buf'[x] ELSE data_file'[x]
  BY <1>2, Zenon DEF ReadEntry
<1>6. ReadEntry(x) = IF PageOf(x) \in resident THEN write_buf[x] ELSE data_file[x]
  BY <1>2, Zenon DEF ReadEntry
<1>7. \A c : Settles(c, c)
  BY Zenon DEF Settles
<1>8. CASE x = e
  BY <1>2, <1>5, <1>8, Zenon
<1>9. CASE x # e /\ ~hit /\ PageOf(x) = PageOf(e)
  <2>1. ReadEntry(x)' = LoadedCell(x, bump_ptr', data_file')
    BY <1>2, <1>5, <1>9, Zenon
  <2>2. Settles(LoadedCell(x, bump_ptr', data_file'), data_file'[x])
    BY <1>1, <1>9, LoadSettles, Zenon
  <2>3. QED
    BY <1>3, <1>9, <2>1, <2>2, Zenon
<1>10. CASE x # e /\ (hit \/ PageOf(x) # PageOf(e))
  <2>1. ReadEntry(x)' = ReadEntry(x)
    <3>1. CASE spill
      BY <1>2, <1>4, <1>5, <1>10, <3>1, Zenon
    <3>2. CASE ~spill
      BY <1>2, <1>5, <1>6, <1>10, <3>2, Zenon
    <3>3. QED
      BY <3>1, <3>2, Zenon
  <2>2. QED
    BY <1>7, <1>10, <2>1, Zenon
<1>11. QED
  BY <1>8, <1>9, <1>10, Zenon

\* The replay that ends a checkpoint settles every allocated slot.
LEMMA FinishReads ==
  ASSUME TypeOK, CheckpointMode, SlotPartition, OverlayBelow, StepFinish
  PROVE  \A x \in Entries : x < bump_ptr => Settles(ReadEntry(x)', ReadEntry(x))
<1>1. /\ ReplayOverlay /\ in_checkpoint' = FALSE
      /\ in_checkpoint = TRUE /\ resident = {} /\ bump_ptr \in Nat
  <2>1. /\ ReplayOverlay /\ in_checkpoint' = FALSE
        /\ phase = "FINISHING"
    BY Zenon DEF StepFinish, CheckpointEnd
  <2>2. in_checkpoint \in BOOLEAN
    BY Zenon DEF TypeOK
  <2>3. in_checkpoint = TRUE /\ resident = {}
    BY <2>1, <2>2, Zenon DEF CheckpointMode
  <2>4. QED
    BY <2>1, <2>3, BumpType, Zenon
<1> SUFFICES ASSUME NEW x \in Entries, x < bump_ptr
             PROVE  Settles(ReadEntry(x)', ReadEntry(x))
  OBVIOUS
<1>2. ReadEntry(x) = IF overlay[x] # None THEN overlay[x] ELSE data_file[x]
  BY <1>1, Zenon DEF ReadEntry
<1>3. ReadEntry(x)' = IF PageOf(x) \in resident' THEN write_buf'[x] ELSE data_file'[x]
  BY <1>1, Zenon DEF ReadEntry
<1>4. \A c : Settles(c, c)
  BY Zenon DEF Settles
<1>5. CASE ReplayPages = {}
  <2>1. UNCHANGED <<resident, write_buf, data_file>>
    BY <1>1, <1>5, Zenon DEF ReplayOverlay, pageVars
  <2>2. overlay[x] = None
    BY <1>5, Zenon DEF ReplayPages
  <2>3. QED
    BY <1>1, <1>2, <1>3, <1>4, <2>1, <2>2, Zenon
<1>6. CASE ReplayPages # {}
  <2>1. /\ data_file' = [e \in Entries |-> IF PageOf(e) \in SpilledPages
                                           THEN ReplayedCell(e) ELSE data_file[e]]
        /\ write_buf' = [e \in Entries |-> IF PageOf(e) \in KeptPages
                                           THEN ReplayedCell(e) ELSE Zero]
        /\ resident' = KeptPages
    BY <1>1, <1>6, Zenon DEF ReplayOverlay
  <2>2. ReadEntry(x)' = IF PageOf(x) \in ReplayPages THEN ReplayedCell(x) ELSE data_file[x]
    <3>1. KeptPages \subseteq ReplayPages /\ SpilledPages = ReplayPages \ KeptPages
      BY Zenon DEF KeptPages, SpilledPages
    <3>2. QED
      BY <1>3, <2>1, <3>1, Zenon
  <2>3. CASE overlay[x] # None
    <3>1. PageOf(x) \in ReplayPages
      BY <2>3, Zenon DEF ReplayPages
    <3>2. QED
      BY <1>2, <1>4, <2>2, <2>3, <3>1, Zenon DEF ReplayedCell
  <2>4. CASE overlay[x] = None /\ PageOf(x) \notin ReplayPages
    BY <1>2, <1>4, <2>2, <2>4, Zenon
  <2>5. CASE overlay[x] = None /\ PageOf(x) \in ReplayPages
    <3>1. PICK y \in Entries : overlay[y] # None /\ PageOf(y) = PageOf(x)
      BY <2>5, Zenon DEF ReplayPages
    <3>2. y # x /\ y < bump_ptr
      BY <2>5, <3>1, Zenon DEF OverlayBelow
    <3>3. Settles(LoadedCell(x, bump_ptr, data_file), data_file[x])
      BY <1>1, <3>1, <3>2, LoadSettles, Zenon
    <3>4. QED
      BY <1>2, <2>2, <2>5, <3>3, Zenon DEF ReplayedCell
  <2>6. QED
    BY <2>3, <2>4, <2>5, Zenon
<1>7. QED
  BY <1>5, <1>6, Zenon
-----------------------------------------------------------------------------
(* What every step of the engine amounts to for a reader: the four outcomes  *)
(* below.  The properties about reading follow from them alone.              *)

\* Feature g keeps its slot, and its slot is settled.
Kept(g) ==
  /\ index'[g] = index[g]
  /\ index[g] # None => Settles(ReadEntry(index[g])', ReadEntry(index[g]))

PutOutcome(f, v) ==
  /\ written' = [written EXCEPT ![f] = v]
  /\ index'[f] # None /\ ReadEntry(index[f])' = v
  /\ \A g \in Feats \ {f} : Kept(g)

BusyOutcome(f) ==
  /\ OverlayBudget > 0
  /\ written' = written
  /\ index'[f] # None /\ (index[f] # None => Kept(f))
  /\ \A g \in Feats \ {f} : Kept(g)

DeleteOutcome(f) ==
  /\ written' = [written EXCEPT ![f] = Absent]
  /\ index'[f] = None
  /\ \A g \in Feats \ {f} : Kept(g)

QuietOutcome == written' = written /\ \A g \in Feats : Kept(g)

\* A feature that keeps a settled slot is kept.
LEMMA KeptBySlot ==
  ASSUME TypeOK, NEW g \in Feats, index'[g] = index[g],
         \A x \in Entries : x = index[g] => Settles(ReadEntry(x)', ReadEntry(x))
  PROVE  Kept(g)
BY Zenon DEF Kept, TypeOK

\* The same when the slot reads exactly what it read.
LEMMA KeptBySame ==
  ASSUME TypeOK, NEW g \in Feats, index'[g] = index[g],
         \A x \in Entries : x = index[g] => ReadEntry(x)' = ReadEntry(x)
  PROVE  Kept(g)
BY KeptBySlot, Zenon DEF Settles

\* An indexed slot is an allocated one.
LEMMA LiveBelow ==
  ASSUME TypeOK, SlotPartition
  PROVE  \A g \in Feats : index[g] # None => index[g] \in Entries /\ index[g] < bump_ptr
<1>1. bump_ptr \in Nat
  BY BumpType, Zenon
<1>2. \A g \in Feats : index[g] # None => index[g] \in Live
  BY Zenon DEF Live
<1>3. Live \subseteq 0 .. (bump_ptr - 1)
  BY Zenon DEF SlotPartition
<1>4. \A g \in Feats : index[g] # None => index[g] \in Entries
  BY Zenon DEF TypeOK
<1>5. \A x \in 0 .. (bump_ptr - 1) : x < bump_ptr
  BY <1>1
<1>6. QED
  BY <1>2, <1>3, <1>4, <1>5, Zenon

\* A step that leaves everything a reader consults alone is quiet.
LEMMA QuietUnchanged ==
  ASSUME TypeOK, UNCHANGED <<index, in_checkpoint, overlay, resident, write_buf, data_file, written>>
  PROVE  QuietOutcome
<1>1. \A x \in Entries : ReadEntry(x)' = ReadEntry(x)
  BY Zenon DEF ReadEntry
<1>2. QED
  BY <1>1, KeptBySame, Zenon DEF QuietOutcome

\* The outcome of a put that the engine acknowledges.
LEMMA PutIsPut ==
  ASSUME TypeOK, SlotPartition, NEW f \in Feats, NEW v \in Vals, NEW full \in BOOLEAN,
         PutOverlay(f, v, full) \/ PutBuffered(f, v, full)
  PROVE  PutOutcome(f, v)
<1>1. AdmitFeature(f) /\ tombstones' = tombstones /\ written' = [written EXCEPT ![f] = v]
  BY Zenon DEF PutOverlay, PutBuffered, ovVars
<1>2. /\ TargetEntry(f) \in Entries /\ TargetEntry(f) < bump_ptr'
      /\ bump_ptr \in Nat /\ bump_ptr' \in Nat /\ bump_ptr <= bump_ptr'
      /\ \A g \in Feats : index'[g] = IF g = f THEN TargetEntry(f) ELSE index[g]
  BY <1>1, TargetBelow, Zenon
<1>3. \A g \in Feats \ {f} : index[g] # TargetEntry(f)
  BY <1>1, AdmitPartition, Zenon
<1>4. \A x \in Entries : x < bump_ptr' =>
        IF x = TargetEntry(f) THEN ReadEntry(x)' = v
                              ELSE Settles(ReadEntry(x)', ReadEntry(x))
  <2>1. CASE PutOverlay(f, v, full)
    BY <2>1, PutOverlayReads, Zenon DEF Settles
  <2>2. CASE PutBuffered(f, v, full)
    BY <2>2, PutBufferedReads, Zenon
  <2>3. QED
    BY <2>1, <2>2, Zenon
<1>5. index'[f] # None /\ ReadEntry(index[f])' = v
  <2>1. index'[f] \in Entries
    BY <1>2, Zenon
  <2>2. \A x \in Entries : x = index'[f] => ReadEntry(x)' = v
    BY <1>2, <1>4, Zenon
  <2>3. \A x \in Entries : x # None
    BY ConstantsAssumption, SMTT(30) DEF Entries
  <2>4. QED
    BY <2>1, <2>2, <2>3, Zenon
<1>6. ASSUME NEW g \in Feats \ {f} PROVE Kept(g)
  <2>1. \A x \in Entries : x = index[g] => x < bump_ptr' /\ x # TargetEntry(f)
    <3>1. \A x \in Entries : x \in Nat /\ x # None
      BY ConstantsAssumption DEF Entries
    <3>2. \A x \in Entries : x = index[g] => x < bump_ptr
      BY <3>1, LiveBelow, Zenon
    <3>3. \A x \in Entries : x < bump_ptr => x < bump_ptr'
      <4>1. bump_ptr \in Nat /\ bump_ptr' \in Nat /\ bump_ptr <= bump_ptr'
        BY <1>2, Zenon
      <4>2. QED
        BY <3>1, <4>1, SMTT(30)
    <3>4. index[g] # TargetEntry(f)
      BY <1>3, Zenon
    <3>5. QED
      BY <3>2, <3>3, <3>4, Zenon
  <2>2. QED
    BY <1>2, <1>4, <2>1, KeptBySlot, Zenon
<1>7. QED
  BY <1>1, <1>5, <1>6, Zenon DEF PutOutcome

\* Every step of the engine has one of the four outcomes.
LEMMA StepOutcome ==
  ASSUME TypeOK, CheckpointMode, SlotPartition, OverlayBelow, [Next]_vars
  PROVE  \/ \E f \in Feats : \E v \in Vals : PutOutcome(f, v)
         \/ \E f \in Feats : BusyOutcome(f) \/ DeleteOutcome(f)
         \/ QuietOutcome
<1>1. ASSUME NEW f \in Feats, NEW v \in Vals, NEW full \in BOOLEAN,
             PutOverlay(f, v, full) \/ PutBuffered(f, v, full)
      PROVE  PutOutcome(f, v)
  BY <1>1, PutIsPut, Zenon
<1>2. ASSUME NEW f \in Feats, NEW full \in BOOLEAN, PutBusy(f, full)
      PROVE  BusyOutcome(f)
  <2>1. /\ AdmitFeature(f) /\ OverlayBudget > 0 /\ written' = written
        /\ UNCHANGED <<in_checkpoint, overlay, resident, write_buf, data_file>>
    BY <1>2, Zenon DEF PutBusy, OverlayFull, pageVars, ovVars
  <2>2. \A x \in Entries : ReadEntry(x)' = ReadEntry(x)
    BY <2>1, Zenon DEF ReadEntry
  <2>3. /\ TargetEntry(f) \in Entries
        /\ \A g \in Feats : index'[g] = IF g = f THEN TargetEntry(f) ELSE index[g]
    BY <2>1, TargetBelow, Zenon
  <2>4. index'[f] # None /\ (index[f] # None => index'[f] = index[f])
    BY <2>3, ConstantsAssumption DEF TargetEntry, Entries
  <2>5. QED
    BY <2>1, <2>2, <2>3, <2>4, KeptBySame, Zenon DEF BusyOutcome
<1>3. ASSUME NEW f \in Feats, Delete(f)
      PROVE  DeleteOutcome(f)
  <2>1. /\ index' = [index EXCEPT ![f] = None]
        /\ written' = [written EXCEPT ![f] = Absent]
        /\ UNCHANGED <<in_checkpoint, overlay, resident, write_buf, data_file>>
    BY <1>3, Zenon DEF Delete, DeleteNow, DeleteTombstone, pageVars, ovVars
  <2>2. \A x \in Entries : ReadEntry(x)' = ReadEntry(x)
    BY <2>1, Zenon DEF ReadEntry
  <2>3. \A g \in Feats : index'[g] = IF g = f THEN None ELSE index[g]
    BY <2>1, Zenon DEF TypeOK
  <2>4. QED
    BY <2>1, <2>2, <2>3, KeptBySame, Zenon DEF DeleteOutcome
<1>4. CASE Flush
  <2>1. \A x \in Entries : ReadEntry(x)' = ReadEntry(x)
    BY <1>4, WriteBackReads, Zenon DEF Flush, ovVars
  <2>2. QED
    BY <1>4, <2>1, KeptBySame, Zenon DEF Flush, binVars, QuietOutcome
<1>5. CASE StepBegin
  <2>1. \A x \in Entries : ReadEntry(x)' = ReadEntry(x)
    BY <1>5, BeginReads, Zenon DEF StepBegin, CheckpointBegin
  <2>2. QED
    BY <1>5, <2>1, KeptBySame, Zenon DEF StepBegin, binVars, QuietOutcome
<1>6. CASE StepNextPhase \/ StepDump \/ StepSkip
  BY <1>6, QuietUnchanged, Zenon DEF StepNextPhase, StepDump, StepSkip, binVars, pageVars, ovVars
<1>7. CASE StepFinish
  <2>1. index' = index /\ written' = written
    BY <1>7, Zenon DEF StepFinish
  <2>2. \A x \in Entries : x < bump_ptr => Settles(ReadEntry(x)', ReadEntry(x))
    BY <1>7, FinishReads, Zenon
  <2>3. \A g \in Feats : \A x \in Entries : x = index[g] => x < bump_ptr
    BY LiveBelow, ConstantsAssumption DEF Entries
  <2>4. QED
    BY <2>1, <2>2, <2>3, KeptBySlot, Zenon DEF QuietOutcome
<1>8. CASE phase = "IDLE" /\ Checkpoint
  <2>1. \A x \in Entries : ReadEntry(x)' = ReadEntry(x)
    BY <1>8, BeginReads, Zenon DEF Checkpoint
  <2>2. QED
    BY <1>8, <2>1, KeptBySame, Zenon DEF Checkpoint, binVars, QuietOutcome
<1>9. CASE UNCHANGED vars
  BY <1>9, QuietUnchanged, Zenon DEF vars, binVars, pageVars, ovVars
<1>10. QED
  BY <1>1, <1>2, <1>3, <1>4, <1>5, <1>6, <1>7, <1>8, <1>9, Zenon DEF Next, Put, Step

\* Values are only parked in the overlay for allocated slots.
THEOREM OverlayBelowInvariant == Spec => []OverlayBelow
<1>1. Init => OverlayBelow
  BY Zenon DEF Init, OverlayBelow, NoOverlay
<1>2. TypeOK /\ SlotPartition /\ OverlayBelow /\ [Next]_vars => OverlayBelow'
  <2> SUFFICES ASSUME TypeOK, SlotPartition, OverlayBelow, [Next]_vars
               PROVE  OverlayBelow'
    OBVIOUS
  <2>1. \A e \in Entries : e \in Nat
    BY ConstantsAssumption DEF Entries
  <2>2. ASSUME NEW f \in Feats, AdmitFeature(f), overlay' = overlay
        PROVE  OverlayBelow'
    <3>1. bump_ptr \in Nat /\ bump_ptr' \in Nat /\ bump_ptr <= bump_ptr'
      BY <2>2, TargetBelow, Zenon
    <3>2. \A e \in Entries : e < bump_ptr => e < bump_ptr'
      BY <2>1, <3>1
    <3>3. QED
      BY <2>2, <3>2, Zenon DEF OverlayBelow
  <2>3. ASSUME NEW f \in Feats, NEW v \in Vals, NEW full \in BOOLEAN, PutOverlay(f, v, full)
        PROVE  OverlayBelow'
    <3>1. AdmitFeature(f) /\ overlay' = [overlay EXCEPT ![TargetEntry(f)] = v]
      BY <2>3, Zenon DEF PutOverlay
    <3>2. /\ bump_ptr \in Nat /\ bump_ptr' \in Nat /\ bump_ptr <= bump_ptr'
          /\ TargetEntry(f) < bump_ptr'
      BY <3>1, TargetBelow, Zenon
    <3>3. \A e \in Entries : e < bump_ptr => e < bump_ptr'
      BY <2>1, <3>2, SMTT(30)
    <3>4. \A e \in Entries : e # TargetEntry(f) => overlay'[e] = overlay[e]
      BY <3>1, Zenon DEF TypeOK
    <3>5. QED
      BY <3>2, <3>3, <3>4, Zenon DEF OverlayBelow
  <2>4. ASSUME NEW f \in Feats, Put(f)
        PROVE  OverlayBelow'
    BY <2>2, <2>3, <2>4, Zenon DEF Put, PutBusy, PutBuffered, ovVars
  <2>5. CASE StepBegin \/ StepFinish \/ Checkpoint
    BY <2>5, Zenon DEF StepBegin, CheckpointBegin, StepFinish, CheckpointEnd, Checkpoint,
                OverlayBelow, NoOverlay
  <2>6. CASE UNCHANGED <<bump_ptr, overlay>>
    BY <2>6, Zenon DEF OverlayBelow
  <2>7. (\E f \in Feats : Delete(f)) \/ Flush \/ StepNextPhase \/ StepDump \/ StepSkip
          \/ UNCHANGED vars => UNCHANGED <<bump_ptr, overlay>>
    BY Zenon DEF Delete, DeleteNow, DeleteTombstone, Flush, StepNextPhase, StepDump, StepSkip,
           vars, binVars, ovVars
  <2>8. QED
    BY <2>4, <2>5, <2>6, <2>7, Zenon DEF Next, Step
<1>3. QED
  BY <1>1, <1>2, TypeCorrect, SlotPartitionInvariant, PTL DEF Spec
-----------------------------------------------------------------------------
\* A stored feature never reads another feature's value, nor an older value of
\* its own, for every page layout and every overlay budget.
THEOREM NoForeignReadInvariant == Spec => []NoForeignRead
<1>1. Init => NoForeignRead
  BY Zenon DEF Init, NoForeignRead
<1>2. TypeOK /\ CheckpointMode /\ SlotPartition /\ OverlayBelow /\ NoForeignRead /\ [Next]_vars
        => NoForeignRead'
  <2> SUFFICES ASSUME TypeOK, CheckpointMode, SlotPartition, OverlayBelow, NoForeignRead,
                      [Next]_vars
               PROVE  NoForeignRead'
    OBVIOUS
  <2>1. ASSUME NEW g \in Feats, Kept(g), written'[g] = written[g], written'[g] # Absent
        PROVE  index'[g] # None /\ ReadEntry(index[g])' \in {written'[g], Zero}
    BY <2>1, Zenon DEF Kept, Settles, NoForeignRead
  <2>2. ASSUME NEW f \in Feats, NEW v \in Vals, PutOutcome(f, v)
        PROVE  NoForeignRead'
    BY <2>1, <2>2, Zenon DEF PutOutcome, NoForeignRead, TypeOK
  <2>3. ASSUME NEW f \in Feats, BusyOutcome(f)
        PROVE  NoForeignRead'
    <3>1. written'[f] # Absent => Kept(f)
      BY <2>3, Zenon DEF BusyOutcome, NoForeignRead
    <3>2. QED
      BY <2>1, <2>3, <3>1, ZenonT(30) DEF BusyOutcome, NoForeignRead
  <2>4. ASSUME NEW f \in Feats, DeleteOutcome(f)
        PROVE  NoForeignRead'
    BY <2>1, <2>4, ZenonT(30) DEF DeleteOutcome, NoForeignRead, TypeOK
  <2>5. CASE QuietOutcome
    BY <2>1, <2>5, Zenon DEF QuietOutcome, NoForeignRead
  <2>6. QED
    BY <2>2, <2>3, <2>4, <2>5, StepOutcome, Zenon
<1>3. QED
  BY <1>1, <1>2, TypeCorrect, CheckpointModeInvariant, SlotPartitionInvariant,
     OverlayBelowInvariant, PTL DEF Spec

\* Read your writes, for bins whose pages hold one or two entries.
THEOREM AckedReadableInvariant ==
  ASSUME EPP \in {1, 2}
  PROVE  Spec => []AckedReadable
<1>1. Init => AckedReadable
  BY Zenon DEF Init, AckedReadable
<1>2. TypeOK /\ CheckpointMode /\ SlotPartition /\ OverlayBelow /\ AckedReadable /\ [Next]_vars
        => AckedReadable'
  <2> SUFFICES ASSUME TypeOK, CheckpointMode, SlotPartition, OverlayBelow, AckedReadable,
                      [Next]_vars
               PROVE  AckedReadable'
    BY Zenon
  <2>1. ASSUME NEW g \in Feats, Kept(g), written'[g] = written[g], written'[g] # Absent
        PROVE  index'[g] # None /\ ReadEntry(index[g])' = written'[g]
    BY <2>1, Zenon DEF Kept, Settles, AckedReadable
  <2>2. ASSUME NEW f \in Feats, NEW v \in Vals, PutOutcome(f, v)
        PROVE  AckedReadable'
    BY <2>1, <2>2, Zenon DEF PutOutcome, AckedReadable, TypeOK
  <2>3. ASSUME NEW f \in Feats, BusyOutcome(f)
        PROVE  AckedReadable'
    <3>1. written'[f] # Absent => Kept(f)
      BY <2>3, Zenon DEF BusyOutcome, AckedReadable
    <3>2. QED
      BY <2>1, <2>3, <3>1, Zenon DEF BusyOutcome, AckedReadable
  <2>4. ASSUME NEW f \in Feats, DeleteOutcome(f)
        PROVE  AckedReadable'
    BY <2>1, <2>4, Zenon DEF DeleteOutcome, AckedReadable, TypeOK
  <2>5. CASE QuietOutcome
    BY <2>1, <2>5, Zenon DEF QuietOutcome, AckedReadable
  <2>6. QED
    BY <2>2, <2>3, <2>4, <2>5, StepOutcome, Zenon
<1>3. QED
  BY <1>1, <1>2, TypeCorrect, CheckpointModeInvariant, SlotPartitionInvariant,
     OverlayBelowInvariant, PTL DEF Spec

\* A feature that is not stored is not found, when the overlay has no budget
\* and so refuses no put.
THEOREM NoPhantomInvariant ==
  ASSUME OverlayBudget = 0
  PROVE  Spec => []NoPhantom
<1>1. Init => NoPhantom
  BY Zenon DEF Init, NoPhantom
<1>2. TypeOK /\ CheckpointMode /\ SlotPartition /\ OverlayBelow /\ NoPhantom /\ [Next]_vars
        => NoPhantom'
  <2> SUFFICES ASSUME TypeOK, CheckpointMode, SlotPartition, OverlayBelow, NoPhantom,
                      [Next]_vars
               PROVE  NoPhantom'
    OBVIOUS
  <2>1. ASSUME NEW f \in Feats, NEW v \in Vals, PutOutcome(f, v)
        PROVE  NoPhantom'
    BY <2>1, ConstantsAssumption, Zenon DEF PutOutcome, Kept, NoPhantom, TypeOK
  <2>2. ASSUME NEW f \in Feats, BusyOutcome(f)
        PROVE  FALSE
    BY <2>2 DEF BusyOutcome
  <2>3. ASSUME NEW f \in Feats, DeleteOutcome(f)
        PROVE  NoPhantom'
    BY <2>3, Zenon DEF DeleteOutcome, Kept, NoPhantom, TypeOK
  <2>4. CASE QuietOutcome
    BY <2>4, Zenon DEF QuietOutcome, Kept, NoPhantom
  <2>5. QED
    BY <2>1, <2>2, <2>3, <2>4, StepOutcome, Zenon
<1>3. QED
  BY <1>1, <1>2, TypeCorrect, CheckpointModeInvariant, SlotPartitionInvariant,
     OverlayBelowInvariant, PTL DEF Spec

\* The engine implements the abstract map: with one or two entries per page
\* and an unlimited overlay, every step is a put, a delete or invisible.
THEOREM Refinement ==
  ASSUME EPP \in {1, 2}, OverlayBudget = 0
  PROVE  Spec => ImplementsKV
<1>1. Init => KV!KVInit
  BY Zenon DEF Init, KV!KVInit, Visible
<1>2. TypeOK /\ CheckpointMode /\ SlotPartition /\ OverlayBelow /\ [Next]_vars
        => [KV!KVNext]_Visible
  <2> SUFFICES ASSUME TypeOK, CheckpointMode, SlotPartition, OverlayBelow, [Next]_vars
               PROVE  [KV!KVNext]_Visible
    BY Zenon
  <2>1. ASSUME NEW g \in Feats, Kept(g)
        PROVE  Visible'[g] = Visible[g]
    BY <2>1, Zenon DEF Kept, Settles, Visible
  <2>2. Visible = [g \in Feats |-> Visible[g]] /\ Visible' = [g \in Feats |-> Visible'[g]]
    BY Zenon DEF Visible
  <2>3. ASSUME NEW f \in Feats, NEW v \in Vals, PutOutcome(f, v)
        PROVE  KV!KVNext
    <3>1. Visible'[f] = v
      BY <2>3, Zenon DEF PutOutcome, Visible
    <3>2. \A g \in Feats \ {f} : Visible'[g] = Visible[g]
      BY <2>1, <2>3, Zenon DEF PutOutcome
    <3>3. Visible' = [Visible EXCEPT ![f] = v]
      BY <2>2, <3>1, <3>2, Zenon
    <3>4. QED
      BY <3>3, Zenon DEF KV!KVNext, KV!KVPut
  <2>4. ASSUME NEW f \in Feats, BusyOutcome(f)
        PROVE  FALSE
    BY <2>4 DEF BusyOutcome
  <2>5. ASSUME NEW f \in Feats, DeleteOutcome(f)
        PROVE  KV!KVNext
    <3>1. Visible'[f] = Absent
      BY <2>5, Zenon DEF DeleteOutcome, Visible
    <3>2. \A g \in Feats \ {f} : Visible'[g] = Visible[g]
      BY <2>1, <2>5, Zenon DEF DeleteOutcome
    <3>3. Visible' = [Visible EXCEPT ![f] = Absent]
      BY <2>2, <3>1, <3>2, Zenon
    <3>4. QED
      BY <3>3, Zenon DEF KV!KVNext, KV!KVDelete
  <2>6. CASE QuietOutcome
    BY <2>1, <2>2, <2>6, Zenon DEF QuietOutcome
  <2>7. QED
    BY <2>3, <2>4, <2>5, <2>6, StepOutcome, Zenon
<1>3. QED
  BY <1>1, <1>2, TypeCorrect, CheckpointModeInvariant, SlotPartitionInvariant,
     OverlayBelowInvariant, PTL DEF Spec, ImplementsKV, KV!KVSpec
-----------------------------------------------------------------------------
\* A write buffer at its watermark has asked for a flush.
THEOREM WatermarkInvariant == Spec => []WatermarkRaised
<1>1. Init => WatermarkRaised
  BY Zenon DEF Init, WatermarkRaised
<1>2. WatermarkRaised /\ [Next]_vars => WatermarkRaised'
  <2> SUFFICES ASSUME WatermarkRaised, [Next]_vars PROVE WatermarkRaised'
    OBVIOUS
  <2>1. CASE UNCHANGED pageVars
    BY <2>1, Zenon DEF pageVars, WatermarkRaised, AboveWatermark
  <2>2. CASE resident' = {}
    BY <2>2, Zenon DEF WatermarkRaised
  <2>3. ASSUME NEW f \in Feats, NEW v \in Vals, NEW full \in BOOLEAN, PutBuffered(f, v, full)
        PROVE  WatermarkRaised'
    BY <2>3, Zenon DEF PutBuffered, WatermarkRaised, AboveWatermark
  <2>4. CASE StepFinish
    BY <2>1, <2>4, Zenon DEF StepFinish, CheckpointEnd, ReplayOverlay, WatermarkRaised, AboveWatermark
  <2>5. Flush \/ StepBegin \/ Checkpoint => resident' = {}
    BY Zenon DEF Flush, StepBegin, CheckpointBegin, Checkpoint, WriteBack
  <2>6. StepNextPhase \/ StepDump \/ StepSkip \/ UNCHANGED vars => UNCHANGED pageVars
    BY Zenon DEF StepNextPhase, StepDump, StepSkip, vars
  <2>7. ASSUME NEW f \in Feats, Put(f) \/ Delete(f)
        PROVE  WatermarkRaised'
    BY <2>1, <2>3, <2>7, Zenon DEF Put, Delete, PutOverlay, PutBusy, DeleteNow, DeleteTombstone
  <2>8. QED
    BY <2>1, <2>2, <2>4, <2>5, <2>6, <2>7, Zenon DEF Next, Step
<1>3. QED
  BY <1>1, <1>2, PTL DEF Spec
=============================================================================
