---------------------------- MODULE ExportProofs ----------------------------
(***************************************************************************)
(* What the dump files of a checkpoint hold, for any bin, any set of dirty *)
(* pages, any page and batch size, and any puts and flushes meanwhile.     *)
(* Every step of the pipeline of export_step_single, and every completion  *)
(* of a read, keeps a context sound: its dump holds the slots below the    *)
(* point the scan has reached, in order and under the names they had when  *)
(* the checkpoint began.                                                   *)
(***************************************************************************)
EXTENDS ScanProofs
-----------------------------------------------------------------------------
(* The first step. *)

\* The fields other than those in but are left alone.
Same(x, y, but) == \A n \in Fields \ but : y[n] = x[n]

\* Submit, once the header is there.
Started(x) ==
  [x EXCEPT !.dump = IF @ = <<>> THEN <<Header>> ELSE @, !.ops = <<>>, !.ranges = <<>>]

\* The first step of a dump writes its header and nothing else
\* (export_write_header).
LEMMA HeaderSound ==
  ASSUME NEW x, Sound(x), x.phase = "IDLE"
  PROVE  /\ Sound(Started(x)) /\ Started(x).dump # <<>>
         /\ Started(x).phase = "IDLE" /\ Started(x).type = x.type
<1> DEFINE y == Started(x)
<1>1. IsContext(x)
  BY Zenon DEF Sound, Typed
<1>2. /\ IsContext(y) /\ Same(x, y, {"dump", "ops", "ranges"})
      /\ y.dump = (IF x.dump = <<>> THEN <<Header>> ELSE x.dump)
      /\ y.ops = <<>> /\ y.ranges = <<>>
  BY <1>1, Zenon DEF IsContext, Fields, Same, Started
<1> HIDE DEF y
<1>3. /\ y.type = x.type /\ y.snapshot_bump = x.snapshot_bump /\ y.cursor = x.cursor
      /\ y.dirty_pages = x.dirty_pages /\ y.page_cursor = x.page_cursor
      /\ y.scan_done = x.scan_done /\ y.phase = x.phase /\ y.reading = x.reading
      /\ y.batch_start = x.batch_start /\ y.batch_count = x.batch_count
      /\ y.keys = x.keys /\ y.pool = x.pool
  BY <1>2 DEF Same, Fields
<1>4. Frontier(y) = Frontier(x) /\ Base(y) = Base(x) /\ Due(y) = Due(x)
  BY <1>3, Zenon DEF Frontier, Base, Due
<1>5. Typed(y)
  BY <1>2, <1>3, Zenon DEF Sound, Typed
<1>6. Scanned(y)
  BY <1>3, <1>4, Zenon DEF Sound, Scanned
<1>7. x.ops = <<>> /\ x.ranges = <<>> /\ ~x.reading
  BY DEF Sound, Batched
<1>8. Batched(y)
  BY <1>2, <1>3, <1>7 DEF Sound, Batched
<1>9. Written(y) /\ Complete(y) /\ y.dump # <<>>
  <2>1. CASE x.dump = <<>>
    <3>1. y.dump = <<Header>> /\ Len(y.dump) = 1 /\ y.dump # <<>>
      BY <1>2, <2>1
    <3>2. Written(y)
      BY <3>1 DEF Written
    <3>3. \A e \in Due(x) : ~(e < Base(x))
      BY <2>1 DEF Sound, Complete
    <3> QED
      BY <3>1, <3>2, <3>3, <1>3, <1>4 DEF Complete
  <2>2. CASE x.dump # <<>>
    <3>1. y.dump = x.dump
      BY <1>2, <2>2, Zenon
    <3>2. Written(y)
      BY <1>3, <1>4, <3>1, Zenon DEF Sound, Written
    <3>3. Complete(y)
      BY <1>3, <1>4, <3>1, Zenon DEF Sound, Complete
    <3> QED
      BY <2>2, <3>1, <3>2, <3>3, Zenon
  <2> QED
    BY <2>1, <2>2, Zenon
<1> QED
  BY <1>3, <1>5, <1>6, <1>8, <1>9, Zenon DEF Sound, y
-----------------------------------------------------------------------------
(* Phase IDLE. *)

\* z asks for the next keys of y, and goes past no slot that has to be dumped.
Asks(y, z) ==
  /\ IsContext(z) /\ z.phase = "KEY_READ"
  /\ z.type = y.type /\ z.snapshot_bump = y.snapshot_bump /\ z.dirty_pages = y.dirty_pages
  /\ z.keys = y.keys /\ z.pool = y.pool /\ z.dump = y.dump
  /\ z.ops = y.ops /\ z.ranges = y.ranges
  /\ z.batch_start = Frontier(y) /\ z.batch_start \in Nat
  /\ z.batch_count \in 0 .. Batch
  /\ ~z.reading => z.batch_count = 0
  /\ Frontier(z) \in Nat /\ Frontier(z) <= y.snapshot_bump
  /\ z.batch_start + z.batch_count <= Frontier(z)
  /\ z.type = "FULL" => z.cursor \in 0 .. z.snapshot_bump
  /\ z.type = "DELTA" => z.page_cursor \in 0 .. Len(z.dirty_pages)
  /\ z.scan_done => Frontier(z) = z.snapshot_bump
  /\ \A e \in Due(y) : e < Frontier(z) => e < z.batch_start + z.batch_count

\* Asking for keys (the reads export_step_single submits in phase IDLE) keeps a
\* context sound.
LEMMA AskSound ==
  ASSUME NEW y, NEW z, Sound(y), y.phase = "IDLE", y.dump # <<>>, Asks(y, z)
  PROVE  Sound(z)
<1>1. y.snapshot_bump \in 0 .. MaxEntries /\ y.ops = <<>> /\ y.ranges = <<>>
  BY DEF Sound, Typed, Batched
<1>2. z.batch_start + z.batch_count <= z.snapshot_bump /\ Due(z) = Due(y)
  <2>1. Due(z) = Due(y)
    BY Zenon DEF Asks, Due
  <2>2. PICK b \in Nat, c \in 0 .. Batch, f \in Nat, s \in 0 .. MaxEntries :
          /\ b = z.batch_start /\ c = z.batch_count /\ f = Frontier(z) /\ s = z.snapshot_bump
          /\ f <= s /\ b + c <= f
    BY <1>1, Zenon DEF Asks
  <2>3. b + c <= s
    <3>1. Batch \in Nat /\ MaxEntries \in Nat
      BY PageFacts, Zenon
    <3> QED
      BY <2>2, <3>1
  <2> QED
    BY <2>1, <2>2, <2>3, Zenon
<1>3. Typed(z)
  BY <1>1, <1>2, Zenon DEF Asks, Sound, Typed
<1>4. Scanned(z)
  BY <1>2, Zenon DEF Asks, Scanned
<1>5. Base(z) = Base(y)
  BY DEF Asks, Base
<1>6. Written(z)
  BY <1>5, Zenon DEF Asks, Sound, Written
<1>7. Complete(z)
  BY <1>2, <1>5, Zenon DEF Asks, Sound, Complete
<1>8. Batched(z)
  <2>1. z.ops = <<>> /\ z.ranges = <<>> /\ z.phase = "KEY_READ"
    BY <1>1, Zenon DEF Asks
  <2>2. ~z.reading => KeysRead(z)
    BY DEF Asks, KeysRead
  <2> QED
    BY <2>1, <2>2, PageFacts DEF Batched
<1> QED
  BY <1>3, <1>4, <1>6, <1>7, <1>8, Zenon DEF Sound

\* A full export asks for the next keys in order.
LEMMA FullAsks ==
  ASSUME NEW y, Sound(y), y.phase = "IDLE", y.type = "FULL"
  PROVE  Asks(y, SubmitFull(y))
<1> DEFINE z == SubmitFull(y)
<1>1. /\ IsContext(y) /\ y.cursor \in 0 .. y.snapshot_bump /\ y.snapshot_bump \in 0 .. MaxEntries
      /\ Frontier(y) = y.cursor
  BY DEF Sound, Typed, Scanned, Frontier
<1>2. Batch \in Nat /\ MaxEntries \in Nat
  BY PageFacts, Zenon
<1>3. PICK c \in Nat, s \in Nat : c = y.cursor /\ s = y.snapshot_bump /\ c <= s
  BY <1>1, <1>2
<1>4. PICK end : end = Min({c + Batch, s})
  OBVIOUS
<1>5. end \in Nat /\ c <= end /\ end <= s /\ end - c \in 0 .. Batch /\ c + (end - c) = end
  <2>1. end \in Nat /\ end <= c + Batch /\ end <= s /\ (end = c + Batch \/ end = s)
    BY <1>2, <1>3, <1>4, MinOfTwo
  <2> QED
    BY <1>2, <1>3, <2>1
<1>6. /\ IsContext(z)
      /\ Same(y, z, {"batch_start", "batch_count", "reading", "phase", "cursor", "scan_done"})
      /\ z.batch_start = c /\ z.batch_count = end - c /\ z.reading = (end - c > 0)
      /\ z.phase = "KEY_READ" /\ z.cursor = end /\ z.scan_done = (end >= s)
  BY <1>1, <1>3, <1>4, Zenon DEF IsContext, Fields, Same, SubmitFull, ReadKeys
<1> HIDE DEF z
<1>7. /\ z.type = y.type /\ z.snapshot_bump = s /\ z.dirty_pages = y.dirty_pages
      /\ z.keys = y.keys /\ z.pool = y.pool /\ z.dump = y.dump
      /\ z.ops = y.ops /\ z.ranges = y.ranges
  BY <1>3, <1>6 DEF Same, Fields
<1>8. Frontier(z) = end
  BY <1>6, <1>7, Zenon DEF Frontier
<1>9. (z.scan_done => end = s) /\ (~z.reading => z.batch_count = 0) /\ end \in 0 .. s
  <2>1. (z.scan_done => end >= s) /\ (~z.reading => ~(end - c > 0))
    BY <1>6, Zenon
  <2>2. (end >= s => end = s) /\ (~(end - c > 0) => end - c = 0) /\ end \in 0 .. s
    BY <1>3, <1>5
  <2> QED
    BY <1>6, <2>1, <2>2, Zenon
<1>10. z.type # "DELTA"
  BY <1>7
<1>11. z.batch_start + z.batch_count = end /\ end <= end
  BY <1>5, <1>6
<1> QED
  BY <1>1, <1>3, <1>5, <1>6, <1>7, <1>8, <1>9, <1>10, <1>11, Zenon DEF Asks, z

\* A delta export asks for the keys of the next dirty pages, up to a batch; what
\* it drops has to be dumped in no bin where the dirty pages have no gap.
LEMMA DeltaAsks ==
  ASSUME NEW y, BinInv, Sound(y), y.phase = "IDLE", y.type = "DELTA",
         y.page_cursor # Len(y.dirty_pages)
  PROVE  Asks(y, SubmitDelta(y))
<1> DEFINE z == SubmitDelta(y)
<1>1. /\ IsContext(y) /\ y.snapshot_bump \in 0 .. MaxEntries /\ y.dirty_pages = Ascending(dirty)
      /\ \A p \in dirty : p * EPP < y.snapshot_bump
      /\ y.page_cursor \in 0 .. Len(y.dirty_pages)
  BY DEF Sound, Typed, Scanned
<1>2. PagesLeft(y)
  <2>1. Lists(y.dirty_pages)
    BY <1>1, AscendingLists, Zenon
  <2>2. Len(y.dirty_pages) \in Nat
    BY <2>1 DEF Lists
  <2>3. y.page_cursor \in Nat /\ y.page_cursor < Len(y.dirty_pages)
    BY <1>1, <2>2
  <2>4. \A p \in dirty : p \in Nat
    BY DEF BinInv
  <2> QED
    BY <1>1, <2>1, <2>3, <2>4, Zenon DEF PagesLeft
<1>3. Batch \in Nat /\ MaxEntries \in Nat
  BY PageFacts, Zenon
<1>4. PICK n \in 1 .. (Len(y.dirty_pages) - y.page_cursor) : n = Taken(y)
  BY <1>2, TakenIs, Zenon
<1>5. PICK start, end, next, limit :
        /\ start = PageAt(y, 1) * EPP /\ end = PageEnd(y, PageAt(y, n))
        /\ next = y.page_cursor + n
        /\ limit = IF next = Len(y.dirty_pages) THEN y.snapshot_bump
                   ELSE y.dirty_pages[next + 1] * EPP
  OBVIOUS
<1>6. /\ start \in Nat /\ end \in Nat /\ start < end /\ end <= y.snapshot_bump
      /\ next \in 1 .. Len(y.dirty_pages)
      /\ limit \in Nat /\ limit <= y.snapshot_bump /\ end <= limit
      /\ \A e \in Nat : PageOf(e) \in dirty /\ e < limit => e < end
  BY <1>2, <1>5, DeltaSpan, Zenon
<1>7. PICK c : c = Min({end - start, Batch})
  OBVIOUS
<1>8. c \in Nat /\ c <= end - start /\ c <= Batch /\ (c = end - start \/ c = Batch)
  <2>1. end - start \in Nat
    BY <1>6
  <2> QED
    BY <1>3, <1>7, <2>1, MinOfTwo
<1>9. /\ IsContext(z)
      /\ Same(y, z, {"batch_start", "batch_count", "reading", "phase", "page_cursor", "scan_done"})
      /\ z.batch_start = start /\ z.batch_count = c /\ z.reading = (c > 0)
      /\ z.phase = "KEY_READ" /\ z.page_cursor = next
      /\ z.scan_done = (next = Len(y.dirty_pages))
  <2>1. z = [ReadKeys(y, start, c) EXCEPT !.page_cursor = next,
                                          !.scan_done = next = Len(y.dirty_pages)]
    BY <1>4, <1>5, <1>7, Zenon DEF SubmitDelta, PageAt
  <2> HIDE DEF z
  <2> QED
    BY <1>1, <2>1, Zenon DEF IsContext, Fields, Same, ReadKeys
<1> HIDE DEF z
<1>10. /\ z.type = y.type /\ z.snapshot_bump = y.snapshot_bump /\ z.dirty_pages = y.dirty_pages
       /\ z.keys = y.keys /\ z.pool = y.pool /\ z.dump = y.dump
       /\ z.ops = y.ops /\ z.ranges = y.ranges
  BY <1>9 DEF Same, Fields
<1>11. Frontier(z) = limit /\ z.type # "FULL" /\ Frontier(y) = start
  <2>1. z.type = "DELTA" /\ z.type # "FULL" /\ y.type # "FULL"
    BY <1>10
  <2>2. Frontier(z) = limit
    BY <1>5, <1>9, <1>10, <2>1, Zenon DEF Frontier
  <2>3. Frontier(y) = start
    BY <1>5, <2>1, Zenon DEF Frontier, PageAt
  <2> QED
    BY <2>1, <2>2, <2>3
<1>12. (z.scan_done => limit = y.snapshot_bump) /\ (~z.reading => c = 0)
  <2>1. z.scan_done => limit = y.snapshot_bump
    BY <1>5, <1>9, Zenon
  <2>2. ~z.reading => c = 0
    <3>1. ~z.reading => ~(c > 0)
      BY <1>9, Zenon
    <3>2. ~(c > 0) => c = 0
      BY <1>8
    <3> QED
      BY <3>1, <3>2, Zenon
  <2> QED
    BY <2>1, <2>2
<1>13. next \in 0 .. Len(y.dirty_pages) /\ start + c <= limit /\ c \in 0 .. Batch
  BY <1>3, <1>6, <1>8
<1>14. ASSUME NEW e \in Due(y), e < limit
       PROVE  e < start + c
  <2>1. e \in Nat /\ PageOf(e) \in dirty /\ Gapless
    BY DEF Due, Gapless, Entries
  <2>2. end - start <= Batch
    BY <1>2, <1>4, <1>5, <2>1, DeltaFits, Zenon
  <2>3. e < end
    BY <1>6, <1>14, <2>1, Zenon
  <2> QED
    BY <1>3, <1>6, <1>8, <2>1, <2>2, <2>3
<1> QED
  BY <1>6, <1>9, <1>10, <1>11, <1>12, <1>13, <1>14, Zenon DEF Asks, z

\* Phase IDLE of an export: the header, and the next batch of keys if there is one.
LEMMA SubmitSound ==
  ASSUME NEW x, BinInv, Sound(x), x.phase = "IDLE"
  PROVE  Sound(Submit(x)) /\ Submit(x).type = x.type
<1> DEFINE y == Started(x)
<1>1. Sound(y) /\ y.dump # <<>> /\ y.phase = "IDLE" /\ y.type = x.type
  BY HeaderSound, Zenon
<1>2. Submit(x) = IF x.type = "FULL" THEN SubmitFull(y) ELSE SubmitDelta(y)
  BY Zenon DEF Submit, Started
<1> HIDE DEF y
<1>3. CASE x.type = "FULL"
  <2>1. Submit(x) = SubmitFull(y)
    BY <1>2, <1>3, Zenon
  <2>2. Asks(y, SubmitFull(y))
    BY <1>1, <1>3, FullAsks, Zenon
  <2> QED
    BY <1>1, <2>1, <2>2, AskSound, Zenon DEF Asks
<1>4. ASSUME x.type = "DELTA", y.page_cursor # Len(y.dirty_pages)
      PROVE  Sound(Submit(x)) /\ Submit(x).type = x.type
  <2>1. Submit(x) = SubmitDelta(y)
    BY <1>2, <1>4
  <2>2. Asks(y, SubmitDelta(y))
    BY <1>1, <1>4, DeltaAsks, Zenon
  <2> QED
    BY <1>1, <2>1, <2>2, AskSound, Zenon DEF Asks
<1>5. ASSUME x.type = "DELTA", y.page_cursor = Len(y.dirty_pages)
      PROVE  Sound(Submit(x)) /\ Submit(x).type = x.type
  <2> DEFINE z == Submit(x)
  <2>1. z = [y EXCEPT !.scan_done = TRUE]
    BY <1>2, <1>5 DEF SubmitDelta
  <2>2. IsContext(y)
    BY <1>1, Zenon DEF Sound, Typed
  <2> HIDE DEF z
  <2>3. IsContext(z) /\ Same(y, z, {"scan_done"}) /\ z.scan_done = TRUE
    BY <2>1, <2>2, Zenon DEF IsContext, Fields, Same
  <2>4. /\ z.type = y.type /\ z.snapshot_bump = y.snapshot_bump /\ z.cursor = y.cursor
        /\ z.dirty_pages = y.dirty_pages /\ z.page_cursor = y.page_cursor
        /\ z.phase = y.phase /\ z.reading = y.reading /\ z.dump = y.dump
        /\ z.batch_start = y.batch_start /\ z.batch_count = y.batch_count
        /\ z.keys = y.keys /\ z.pool = y.pool /\ z.ops = y.ops /\ z.ranges = y.ranges
    BY <2>3 DEF Same, Fields
  <2>5. Frontier(z) = Frontier(y) /\ Base(z) = Base(y) /\ Due(z) = Due(y)
    BY <2>4, Zenon DEF Frontier, Base, Due
  <2>6. Typed(z)
    BY <1>1, <2>3, <2>4, Zenon DEF Sound, Typed
  <2>7. Frontier(y) = y.snapshot_bump
    BY <1>1, <1>5 DEF Frontier
  <2>8. Scanned(z)
    BY <1>1, <2>4, <2>5, <2>7, Zenon DEF Sound, Scanned
  <2>9. Written(z)
    BY <1>1, <2>4, <2>5, Zenon DEF Sound, Written
  <2>10. Complete(z)
    <3>1. z.dump = y.dump /\ z.phase = "IDLE"
      BY <1>1, <2>4, Zenon
    <3> QED
      BY <1>1, <2>5, <3>1, Zenon DEF Sound, Complete
  <2>11. Batched(z)
    BY <1>1, <2>4 DEF Sound, Batched
  <2> QED
    BY <1>1, <2>4, <2>6, <2>8, <2>9, <2>10, <2>11, Zenon DEF Sound, z
<1>6. x.type \in {"FULL", "DELTA"}
  BY Zenon DEF Sound, Typed
<1> QED
  BY <1>3, <1>4, <1>5, <1>6, Zenon

\* The next slot to ask for is a number.
LEMMA FrontierIs ==
  ASSUME NEW x, BinInv, Sound(x)
  PROVE  Frontier(x) \in Nat
<1>1. CASE x.type = "FULL"
  BY <1>1, PageFacts DEF Sound, Typed, Scanned, Frontier
<1>2. ASSUME x.type = "DELTA"
      PROVE  Frontier(x) \in Nat
  <2>1. /\ x.snapshot_bump \in 0 .. MaxEntries /\ x.dirty_pages = Ascending(dirty)
        /\ x.page_cursor \in 0 .. Len(x.dirty_pages)
    BY <1>2 DEF Sound, Typed, Scanned
  <2>2. x.dirty_pages \in Seq(Nat) /\ Len(x.dirty_pages) \in Nat
    BY <2>1, AscendingLists DEF Lists
  <2>3. CASE x.page_cursor = Len(x.dirty_pages)
    <3>1. Frontier(x) = x.snapshot_bump
      BY <1>2, <2>3 DEF Frontier
    <3>2. MaxEntries \in Nat
      BY PageFacts, Zenon
    <3> QED
      BY <2>1, <3>1, <3>2
  <2>4. CASE x.page_cursor # Len(x.dirty_pages)
    <3>1. x.page_cursor + 1 \in 1 .. Len(x.dirty_pages)
      BY <2>1, <2>2, <2>4
    <3>2. x.dirty_pages[x.page_cursor + 1] \in Nat
      BY <2>2, <3>1
    <3>3. Frontier(x) = x.dirty_pages[x.page_cursor + 1] * EPP
      BY <1>2, <2>4 DEF Frontier
    <3> QED
      BY <3>2, <3>3, PageFacts, Zenon
  <2> QED
    BY <2>3, <2>4, Zenon
<1>3. x.type \in {"FULL", "DELTA"}
  BY Zenon DEF Sound, Typed
<1> QED
  BY <1>1, <1>2, <1>3, Zenon
-----------------------------------------------------------------------------
(* The phases of a batch. *)

\* Phase KEY_READ with the keys there: every owned slot of the batch is among
\* the ops; without one the export is IDLE again.
LEMMA ScanKeysSound ==
  ASSUME NEW x, BinInv, Sound(x), x.phase = "KEY_READ", ~x.reading
  PROVE  Sound(ScanKeys(x)) /\ ScanKeys(x).type = x.type
<1> DEFINE z == ScanKeys(x)
           v == Owned(x)
<1>1. /\ IsContext(x) /\ KeysRead(x) /\ x.batch_start \in Nat /\ x.batch_count \in 0 .. Batch
      /\ x.ops = <<>> /\ x.ranges = <<>>
  BY DEF Sound, Typed, Batched
<1>2. PICK b \in Nat, c \in Nat, f \in Nat, s \in Nat :
        /\ b = x.batch_start /\ c = x.batch_count /\ f = Frontier(x) /\ s = x.snapshot_bump
        /\ b + c <= f /\ b + c <= s /\ s <= MaxEntries /\ c <= Batch
  <2>1. Batch \in Nat /\ MaxEntries \in Nat
    BY PageFacts, Zenon
  <2>2. x.snapshot_bump \in Nat /\ x.snapshot_bump <= MaxEntries
    BY <2>1 DEF Sound, Typed
  <2>3. x.batch_count \in Nat /\ x.batch_count <= Batch
    BY <1>1, <2>1
  <2>4. x.batch_start + x.batch_count <= Frontier(x)
    BY DEF Sound, Scanned
  <2>5. x.batch_start + x.batch_count <= x.snapshot_bump
    BY DEF Sound, Typed
  <2>6. Frontier(x) \in Nat
    BY FrontierIs, Zenon
  <2> QED
    BY <1>1, <2>2, <2>3, <2>4, <2>5, <2>6, Zenon
<1>3. b + c <= MaxEntries
  BY <1>2, PageFacts
<1>4. /\ v \in Seq([feat : Feats, entry : Entries]) /\ Len(v) <= x.batch_count
      /\ \A i \in 1 .. Len(v) : InBatch(x, v[i])
      /\ \A i, j \in 1 .. Len(v) : i < j => v[i].entry < v[j].entry
      /\ \A e \in Entries :
           snapshot[e] # NoFeat /\ x.batch_start <= e /\ e < x.batch_start + x.batch_count =>
             \E i \in 1 .. Len(v) : v[i].entry = e
  BY <1>1, <1>2, <1>3, OwnedListed, Zenon
<1>5. z = IF v = <<>> THEN [x EXCEPT !.ops = <<>>, !.phase = "IDLE"]
          ELSE [x EXCEPT !.ops = v, !.ranges = Coalesced(v), !.reading = TRUE, !.phase = "EMB_READ"]
  BY Zenon DEF ScanKeys
<1> HIDE DEF z, v
<1>6. ASSUME v = <<>>
      PROVE  Sound(z) /\ z.type = x.type
  <2>1. z = [x EXCEPT !.ops = <<>>, !.phase = "IDLE"]
    BY <1>5, <1>6, Zenon
  <2>2. IsContext(z) /\ Same(x, z, {"ops", "phase"}) /\ z.ops = <<>> /\ z.phase = "IDLE"
    BY <1>1, <2>1, Zenon DEF IsContext, Fields, Same
  <2>3. /\ z.type = x.type /\ z.snapshot_bump = x.snapshot_bump /\ z.cursor = x.cursor
        /\ z.dirty_pages = x.dirty_pages /\ z.page_cursor = x.page_cursor
        /\ z.scan_done = x.scan_done /\ z.reading = x.reading /\ z.dump = x.dump
        /\ z.batch_start = x.batch_start /\ z.batch_count = x.batch_count
        /\ z.keys = x.keys /\ z.pool = x.pool /\ z.ranges = x.ranges
    BY <2>2 DEF Same, Fields
  <2>4. Frontier(z) = f /\ Base(z) = f /\ Due(z) = Due(x) /\ Base(x) = b
    BY <1>2, <2>2, <2>3 DEF Frontier, Base, Due
  <2>5. Typed(z)
    BY <2>2, <2>3 DEF Sound, Typed
  <2>6. Scanned(z)
    BY <1>2, <2>2, <2>3, <2>4 DEF Sound, Scanned
  <2>7. Written(z)
    <3>1. \A i \in 2 .. Len(x.dump) : x.dump[i] \in Pairs /\ x.dump[i].emb < b
      BY <2>4, Zenon DEF Sound, Written
    <3>2. \A i \in 2 .. Len(x.dump) : x.dump[i].emb < f
      <4>1. \A r \in Pairs : r.emb \in Nat
        BY DEF Pairs, Entries
      <4>2. \A e \in Nat : e < b => e < f
        BY <1>2
      <4> QED
        BY <3>1, <4>1, <4>2, Zenon
    <3>3. x.dump # <<>>
      BY DEF Sound, Written
    <3> QED
      BY <2>3, <2>4, <3>2, <3>3, Zenon DEF Sound, Written
  <2>8. Complete(z)
    <3>1. ASSUME NEW e \in Due(x), e < f
          PROVE  \E i \in 2 .. Len(x.dump) : x.dump[i].emb = e
      <4>1. e < b + c
        BY <1>2, <3>1 DEF Sound, Complete
      <4>2. e \in Entries /\ e \in Nat /\ snapshot[e] # NoFeat
        BY DEF Due, Entries
      <4>3. ~(b <= e)
        BY <1>2, <1>4, <1>6, <4>1, <4>2
      <4>4. e < b
        BY <1>2, <4>2, <4>3
      <4> QED
        BY <2>4, <4>4, Zenon DEF Sound, Complete
    <3> QED
      BY <2>2, <2>3, <2>4, <3>1 DEF Complete
  <2>9. Batched(z)
    BY <1>1, <2>2, <2>3, PageFacts DEF Batched
  <2> QED
    BY <2>3, <2>5, <2>6, <2>7, <2>8, <2>9, Zenon DEF Sound
<1>7. ASSUME v # <<>>
      PROVE  Sound(z) /\ z.type = x.type
  <2>1. z = [x EXCEPT !.ops = v, !.ranges = Coalesced(v), !.reading = TRUE, !.phase = "EMB_READ"]
    BY <1>5, <1>7, Zenon
  <2>2. /\ IsContext(z) /\ Same(x, z, {"ops", "ranges", "reading", "phase"})
        /\ z.ops = v /\ z.ranges = Coalesced(v) /\ z.reading = TRUE /\ z.phase = "EMB_READ"
    BY <1>1, <2>1, Zenon DEF IsContext, Fields, Same
  <2>3. /\ z.type = x.type /\ z.snapshot_bump = x.snapshot_bump /\ z.cursor = x.cursor
        /\ z.dirty_pages = x.dirty_pages /\ z.page_cursor = x.page_cursor
        /\ z.scan_done = x.scan_done /\ z.dump = x.dump
        /\ z.batch_start = x.batch_start /\ z.batch_count = x.batch_count
        /\ z.keys = x.keys /\ z.pool = x.pool
    BY <2>2 DEF Same, Fields
  <2>4. Frontier(z) = Frontier(x) /\ Base(z) = Base(x) /\ Due(z) = Due(x)
    BY <2>2, <2>3 DEF Frontier, Base, Due
  <2>5. Typed(z)
    BY <2>2, <2>3 DEF Sound, Typed
  <2>6. Scanned(z)
    BY <2>2, <2>3, <2>4 DEF Sound, Scanned
  <2>7. Written(z)
    <3>1. x.dump # <<>>
      BY DEF Sound, Written
    <3> QED
      BY <2>3, <2>4, <3>1, Zenon DEF Sound, Written
  <2>8. Complete(z)
    <3>1. x.phase # "IDLE"
      OBVIOUS
    <3> QED
      BY <2>2, <2>3, <2>4, <3>1 DEF Sound, Complete
  <2>9. OpsListed(z)
    <3>1. \A i \in 1 .. Len(v) : InBatch(z, v[i])
      BY <1>4, <2>3, Zenon DEF InBatch
    <3>2. \A e \in Due(z) : e \in Entries /\ snapshot[e] # NoFeat
      BY DEF Due
    <3> QED
      BY <1>4, <2>2, <2>3, <3>1, <3>2, Zenon DEF OpsListed
  <2>10. Batched(z)
    <3>1. Len(v) \in 0 .. Batch
      <4>1. Batch \in Nat
        BY PageFacts, Zenon
      <4> QED
        BY <1>2, <1>4, <4>1
    <3> QED
      BY <2>2, <2>9, <3>1 DEF Batched
  <2> QED
    BY <2>3, <2>5, <2>6, <2>7, <2>8, <2>10, Zenon DEF Sound
<1> QED
  BY <1>6, <1>7, Zenon DEF z

\* Phase EMB_READ with the embeddings there.
LEMMA EmbReadSound ==
  ASSUME NEW x, Sound(x), x.phase = "EMB_READ", ~x.reading
  PROVE  LET z == [x EXCEPT !.phase = "OUTPUT"] IN Sound(z) /\ z.type = x.type
<1> DEFINE z == [x EXCEPT !.phase = "OUTPUT"]
<1>1. IsContext(x)
  BY Zenon DEF Sound, Typed
<1>2. IsContext(z) /\ Same(x, z, {"phase"}) /\ z.phase = "OUTPUT"
  BY <1>1 DEF IsContext, Fields, Same
<1> HIDE DEF z
<1>3. /\ z.type = x.type /\ z.snapshot_bump = x.snapshot_bump /\ z.cursor = x.cursor
      /\ z.dirty_pages = x.dirty_pages /\ z.page_cursor = x.page_cursor
      /\ z.scan_done = x.scan_done /\ z.reading = x.reading /\ z.dump = x.dump
      /\ z.batch_start = x.batch_start /\ z.batch_count = x.batch_count
      /\ z.keys = x.keys /\ z.pool = x.pool /\ z.ops = x.ops /\ z.ranges = x.ranges
  BY <1>2 DEF Same, Fields
<1>4. Frontier(z) = Frontier(x) /\ Base(z) = Base(x) /\ Due(z) = Due(x)
  BY <1>2, <1>3 DEF Frontier, Base, Due
<1>5. Typed(z)
  BY <1>2, <1>3 DEF Sound, Typed
<1>6. Scanned(z)
  BY <1>2, <1>3, <1>4 DEF Sound, Scanned
<1>7. Written(z)
  <2>1. x.dump # <<>>
    BY DEF Sound, Written
  <2> QED
    BY <1>3, <1>4, <2>1, Zenon DEF Sound, Written
<1>8. Complete(z)
  BY <1>2, <1>3, <1>4 DEF Sound, Complete
<1>9. OpsListed(z)
  <2>1. OpsListed(x)
    BY DEF Sound, Batched
  <2>2. \A op : InBatch(z, op) <=> InBatch(x, op)
    BY <1>3, Zenon DEF InBatch
  <2> QED
    BY <1>3, <1>4, <2>1, <2>2 DEF OpsListed
<1>10. Batched(z)
  BY <1>2, <1>3, <1>9 DEF Sound, Batched
<1> QED
  BY <1>3, <1>5, <1>6, <1>7, <1>8, <1>10, Zenon DEF Sound, z

\* The members of a dump that a batch is appended to.
LEMMA ConcatIs ==
  ASSUME NEW S, NEW s \in Seq(S), NEW t \in Seq(S)
  PROVE  /\ s \o t \in Seq(S) /\ Len(s \o t) = Len(s) + Len(t)
         /\ \A i \in 1 .. Len(s) : (s \o t)[i] = s[i]
         /\ \A k \in 1 .. Len(t) : (s \o t)[Len(s) + k] = t[k]
  OBVIOUS

\* Phase OUTPUT: the pairs of the batch go behind those of the earlier batches.
LEMMA OutputSound ==
  ASSUME NEW x, BinInv, Sound(x), x.phase = "OUTPUT"
  PROVE  Sound(Output(x)) /\ Output(x).type = x.type
<1> DEFINE z == Output(x)
           q == [i \in 1 .. Len(x.ops) |-> [feat |-> x.ops[i].feat, emb |-> x.pool[i]]]
<1>1. /\ IsContext(x) /\ ~x.reading /\ OpsListed(x)
      /\ \A i \in 1 .. Len(x.ops) : x.pool[i] = x.ops[i].entry
  BY DEF Sound, Typed, Batched
<1>2. /\ IsContext(z) /\ Same(x, z, {"dump", "ops", "ranges", "phase"})
      /\ z.dump = x.dump \o q /\ z.ops = <<>> /\ z.ranges = <<>> /\ z.phase = "IDLE"
  <2>1. z = [x EXCEPT !.dump = x.dump \o q, !.ops = <<>>, !.ranges = <<>>, !.phase = "IDLE"]
    BY Zenon DEF Output
  <2> HIDE DEF z, q
  <2> QED
    BY <1>1, <2>1, Zenon DEF IsContext, Fields, Same
<1> HIDE DEF z
<1>3. /\ z.type = x.type /\ z.snapshot_bump = x.snapshot_bump /\ z.cursor = x.cursor
      /\ z.dirty_pages = x.dirty_pages /\ z.page_cursor = x.page_cursor
      /\ z.scan_done = x.scan_done /\ z.reading = x.reading
      /\ z.batch_start = x.batch_start /\ z.batch_count = x.batch_count
      /\ z.keys = x.keys /\ z.pool = x.pool
  BY <1>2 DEF Same, Fields
<1>4. PICK b \in Nat, c \in Nat, f \in Nat, m \in Nat :
        /\ b = x.batch_start /\ c = x.batch_count /\ f = Frontier(x) /\ m = Len(x.ops)
        /\ b + c <= f
  <2>1. Batch \in Nat
    BY PageFacts, Zenon
  <2>2. x.batch_start \in Nat /\ x.batch_count \in Nat
    BY <2>1 DEF Sound, Typed
  <2>3. Len(x.ops) \in Nat
    BY <2>1 DEF Sound, Batched
  <2>4. x.batch_start + x.batch_count <= Frontier(x)
    BY DEF Sound, Scanned
  <2> QED
    BY <2>2, <2>3, <2>4, FrontierIs, Zenon
<1>5. Frontier(z) = f /\ Base(z) = f /\ Due(z) = Due(x) /\ Base(x) = b
  BY <1>2, <1>3, <1>4 DEF Frontier, Base, Due
<1>6. Typed(z)
  BY <1>2, <1>3, Zenon DEF Sound, Typed
<1>7. Scanned(z)
  BY <1>2, <1>3, <1>4, <1>5, Zenon DEF Sound, Scanned
<1>8. /\ q \in Seq(Pairs) /\ Len(q) = m
      /\ \A k \in 1 .. m : q[k].emb = x.ops[k].entry /\ q[k].feat = x.ops[k].feat
  <2>1. \A k \in 1 .. m : q[k] = [feat |-> x.ops[k].feat, emb |-> x.ops[k].entry]
    BY <1>1, <1>4
  <2>2. \A k \in 1 .. m : x.ops[k] \in [feat : Feats, entry : Entries]
    BY <1>1, <1>4, Zenon DEF OpsListed, InBatch
  <2>3. m \in Nat /\ m = Len(x.ops)
    BY <1>4, Zenon
  <2>4. q = [k \in 1 .. m |-> q[k]]
    BY <2>3
  <2> HIDE DEF q
  <2>5. \A k \in 1 .. m : q[k] \in Pairs
    <3>1. \A op \in [feat : Feats, entry : Entries] :
            [feat |-> op.feat, emb |-> op.entry] \in [feat : Feats, emb : Entries]
      OBVIOUS
    <3> QED
      BY <2>1, <2>2, <3>1, Zenon DEF Pairs
  <2>6. q \in Seq(Pairs) /\ Len(q) = m
    <3>1. q \in [1 .. m -> Pairs]
      BY <2>4, <2>5, Zenon
    <3>2. \A n \in Nat : \A s : s \in [1 .. n -> Pairs] => s \in Seq(Pairs) /\ Len(s) = n
      OBVIOUS
    <3> QED
      BY <2>3, <3>1, <3>2, Zenon
  <2> QED
    BY <2>1, <2>6, SMTT(60)
<1> HIDE DEF q
<1>9. PICK d \in Nat : d = Len(x.dump)
  BY DEF Sound, Written
<1>10. /\ z.dump \in Seq(Pairs \cup {Header}) /\ Len(z.dump) = d + m
       /\ \A i \in 1 .. d : z.dump[i] = x.dump[i]
       /\ \A k \in 1 .. m : z.dump[d + k] = q[k]
       /\ d >= 1
  <2>1. x.dump \in Seq(Pairs \cup {Header}) /\ x.dump # <<>>
    BY DEF Sound, Written
  <2>2. q \in Seq(Pairs \cup {Header})
    BY <1>8
  <2>3. Len(x.dump) >= 1
    BY <2>1
  <2>4. PICK u : u = x.dump \o q
    BY Zenon
  <2>5. /\ u \in Seq(Pairs \cup {Header}) /\ Len(u) = Len(x.dump) + Len(q)
        /\ \A i \in 1 .. Len(x.dump) : u[i] = x.dump[i]
        /\ \A k \in 1 .. Len(q) : u[Len(x.dump) + k] = q[k]
    <3>1. LET v == x.dump \o q IN
          /\ v \in Seq(Pairs \cup {Header}) /\ Len(v) = Len(x.dump) + Len(q)
          /\ \A i \in 1 .. Len(x.dump) : v[i] = x.dump[i]
          /\ \A k \in 1 .. Len(q) : v[Len(x.dump) + k] = q[k]
      <4>1. PICK S : S = Pairs \cup {Header}
        BY Zenon
      <4>2. x.dump \in Seq(S) /\ q \in Seq(S)
        BY <2>1, <2>2, <4>1
      <4>3. LET v == x.dump \o q IN
            /\ v \in Seq(S) /\ Len(v) = Len(x.dump) + Len(q)
            /\ \A i \in 1 .. Len(x.dump) : v[i] = x.dump[i]
            /\ \A k \in 1 .. Len(q) : v[Len(x.dump) + k] = q[k]
        BY <4>2, ConcatIs
      <4> QED
        BY <4>1, <4>3
    <3> QED
      BY <2>4, <3>1
  <2>6. z.dump = u /\ Len(q) = m /\ Len(x.dump) = d
    BY <1>2, <1>8, <1>9, <2>4, Zenon
  <2> QED
    BY <2>3, <2>5, <2>6, Zenon
<1>11. \A i \in 2 .. Len(z.dump) :
         \/ i \in 2 .. d /\ z.dump[i] = x.dump[i]
         \/ \E k \in 1 .. m : i = d + k /\ z.dump[i] = q[k]
  <2>1. \A u, w \in Nat : \A i \in 2 .. (u + w) :
          (i \in 2 .. u /\ i \in 1 .. u) \/ \E k \in 1 .. w : i = u + k
    <3>1. \A u, w \in Nat : \A i \in 2 .. (u + w) :
            (i \in 2 .. u /\ i \in 1 .. u) \/ (i - u \in 1 .. w /\ i = u + (i - u))
      OBVIOUS
    <3> QED
      BY <3>1, ZenonT(60)
  <2>2. \A i \in 2 .. (d + m) : (i \in 2 .. d /\ i \in 1 .. d) \/ \E k \in 1 .. m : i = d + k
    BY <1>4, <1>9, <2>1, Zenon
  <2>3. \A i \in 1 .. d : z.dump[i] = x.dump[i]
    BY <1>10, Zenon
  <2>4. \A k \in 1 .. m : z.dump[d + k] = q[k]
    BY <1>10, Zenon
  <2>5. Len(z.dump) = d + m
    BY <1>10, Zenon
  <2> SUFFICES ASSUME NEW i \in 2 .. (d + m)
               PROVE  \/ i \in 2 .. d /\ z.dump[i] = x.dump[i]
                      \/ \E k \in 1 .. m : i = d + k /\ z.dump[i] = q[k]
    BY <2>5, Zenon
  <2>6. CASE i \in 2 .. d /\ i \in 1 .. d
    BY <2>3, <2>6, Zenon
  <2>7. ASSUME NEW k \in 1 .. m, i = d + k
        PROVE  i = d + k /\ z.dump[i] = q[k]
    BY <2>4, <2>7, Zenon
  <2> QED
    BY <2>2, <2>6, <2>7, Zenon
<1>12. \A i \in 2 .. d :
         /\ x.dump[i] \in Pairs /\ x.dump[i].emb < b
         /\ snapshot[x.dump[i].emb] # NoFeat => x.dump[i].feat = snapshot[x.dump[i].emb]
  BY <1>5, <1>9, Zenon DEF Sound, Written
<1>13. \A k \in 1 .. m :
         /\ q[k] \in Pairs /\ b <= q[k].emb /\ q[k].emb < b + c
         /\ snapshot[q[k].emb] # NoFeat => q[k].feat = snapshot[q[k].emb]
  <2>1. \A k \in 1 .. m : q[k] \in Pairs
    BY <1>8
  <2>2. ASSUME NEW k \in 1 .. m
        PROVE  /\ b <= q[k].emb /\ q[k].emb < b + c
               /\ snapshot[q[k].emb] # NoFeat => q[k].feat = snapshot[q[k].emb]
    <3>1. InBatch(x, x.ops[k])
      BY <1>1, <1>4, <2>2, Zenon DEF OpsListed
    <3>2. q[k].emb = x.ops[k].entry /\ q[k].feat = x.ops[k].feat
      BY <1>8, <2>2, Zenon
    <3> QED
      BY <1>4, <3>1, <3>2, Zenon DEF InBatch
  <2> QED
    BY <2>1, <2>2, Zenon
<1>14. \A r \in Pairs : r.emb \in Nat
  BY DEF Pairs, Entries
<1>15. Written(z)
  <2>1. \A e \in Nat : (e < b => e < f) /\ (e < b + c => e < f)
    BY <1>4
  <2>2. \A i \in 2 .. Len(z.dump) :
          /\ z.dump[i] \in Pairs /\ z.dump[i].emb < f
          /\ snapshot[z.dump[i].emb] # NoFeat => z.dump[i].feat = snapshot[z.dump[i].emb]
    <3> SUFFICES ASSUME NEW i \in 2 .. Len(z.dump)
                 PROVE  /\ z.dump[i] \in Pairs /\ z.dump[i].emb < f
                        /\ snapshot[z.dump[i].emb] # NoFeat =>
                             z.dump[i].feat = snapshot[z.dump[i].emb]
      OBVIOUS
    <3>1. CASE i \in 2 .. d /\ z.dump[i] = x.dump[i]
      BY <1>12, <1>14, <2>1, <3>1, Zenon
    <3>2. ASSUME NEW k \in 1 .. m, z.dump[i] = q[k]
          PROVE  /\ z.dump[i] \in Pairs /\ z.dump[i].emb < f
                 /\ snapshot[z.dump[i].emb] # NoFeat =>
                      z.dump[i].feat = snapshot[z.dump[i].emb]
      BY <1>13, <1>14, <2>1, <3>2, Zenon
    <3> QED
      BY <1>11, <3>1, <3>2, Zenon
  <2>3. ASSUME NEW i \in 2 .. Len(z.dump), NEW j \in 2 .. Len(z.dump), i < j
        PROVE  z.dump[i].emb < z.dump[j].emb
    <3>1. ASSUME i \in 2 .. d, j \in 2 .. d
          PROVE  z.dump[i].emb < z.dump[j].emb
      <4>1. x.dump[i].emb < x.dump[j].emb
        BY <1>9, <2>3, <3>1, Zenon DEF Sound, Written
      <4>2. z.dump[i] = x.dump[i] /\ z.dump[j] = x.dump[j]
        BY <1>10, <3>1
      <4> QED
        BY <4>1, <4>2, Zenon
    <3>2. ASSUME i \in 2 .. d, NEW k \in 1 .. m, j = d + k, z.dump[j] = q[k]
          PROVE  z.dump[i].emb < z.dump[j].emb
      <4>1. z.dump[i] = x.dump[i]
        BY <1>10, <3>2
      <4>2. x.dump[i].emb < b /\ b <= q[k].emb /\ x.dump[i].emb \in Nat /\ q[k].emb \in Nat
        BY <1>12, <1>13, <1>14, <3>2, Zenon
      <4>3. \A u, w \in Nat : u < b /\ b <= w => u < w
        BY <1>4
      <4> QED
        BY <3>2, <4>1, <4>2, <4>3, Zenon
    <3>3. ASSUME NEW k \in 1 .. m, i = d + k, j \in 2 .. d
          PROVE  FALSE
      BY <1>9, <2>3, <3>3, <1>4
    <3>4. ASSUME NEW k \in 1 .. m, i = d + k, z.dump[i] = q[k],
                 NEW l \in 1 .. m, j = d + l, z.dump[j] = q[l]
          PROVE  z.dump[i].emb < z.dump[j].emb
      <4>1. k < l
        BY <1>9, <2>3, <3>4, <1>4
      <4>2. x.ops[k].entry < x.ops[l].entry
        BY <1>1, <1>4, <4>1, Zenon DEF OpsListed
      <4> QED
        BY <1>8, <3>4, <4>2, Zenon
    <3> QED
      BY <1>11, <3>1, <3>2, <3>3, <3>4, Zenon
  <2>4. z.dump # <<>> /\ z.dump[1] = Header
    <3>1. x.dump # <<>> /\ x.dump[1] = Header
      BY DEF Sound, Written
    <3>2. Len(z.dump) > 0 /\ 1 \in 1 .. d
      <4>1. d \in Nat /\ m \in Nat /\ d >= 1 /\ Len(z.dump) = d + m
        BY <1>4, <1>9, <1>10, Zenon
      <4> QED
        BY <4>1
    <3> QED
      BY <1>10, <3>1, <3>2
  <2> QED
    BY <1>5, <1>10, <2>2, <2>3, <2>4, Zenon DEF Written
<1>16. Complete(z)
  <2>1. ASSUME NEW e \in Due(x), e < f
        PROVE  \E i \in 2 .. Len(z.dump) : z.dump[i].emb = e
    <3>1. e < b + c /\ e \in Nat
      BY <1>4, <2>1 DEF Sound, Complete, Due, Entries
    <3>2. CASE e < b
      <4>1. PICK i \in 2 .. d : x.dump[i].emb = e
        BY <1>5, <1>9, <3>2, Zenon DEF Sound, Complete
      <4>2. i \in 2 .. Len(z.dump) /\ i \in 1 .. d
        <5>1. \A u, w \in Nat : \A j \in 2 .. u : j \in 2 .. (u + w) /\ j \in 1 .. u
          OBVIOUS
        <5> QED
          BY <1>4, <1>9, <1>10, <4>1, <5>1, Zenon
      <4> QED
        BY <1>10, <4>1, <4>2, Zenon
    <3>3. CASE b <= e
      <4>1. PICK k \in 1 .. m : x.ops[k].entry = e
        BY <1>1, <1>4, <3>1, <3>3, Zenon DEF OpsListed
      <4>2. d + k \in 2 .. Len(z.dump)
        <5>1. \A u, w \in Nat : u >= 1 => \A j \in 1 .. w : u + j \in 2 .. (u + w)
          OBVIOUS
        <5> QED
          BY <1>4, <1>9, <1>10, <4>1, <5>1, Zenon
      <4>3. z.dump[d + k] = q[k] /\ q[k].emb = e
        BY <1>8, <1>10, <4>1, Zenon
      <4> QED
        BY <4>2, <4>3, Zenon
    <3> QED
      BY <1>4, <3>1, <3>2, <3>3
  <2> QED
    BY <1>2, <1>5, <2>1 DEF Complete
<1>17. Batched(z)
  BY <1>1, <1>2, <1>3, PageFacts DEF Batched
<1> QED
  BY <1>3, <1>6, <1>7, <1>15, <1>16, <1>17, Zenon DEF Sound, z

\* The keys of a batch arrive: those of slots owned when the checkpoint began are
\* what they were, whatever has been flushed since.
LEMMA KeysArriveSound ==
  ASSUME NEW x, BinInv, Sound(x), x.reading, x.phase = "KEY_READ"
  PROVE  Sound(Arrived(x))
<1> DEFINE z == Arrived(x)
           g == [i \in 0 .. (Batch - 1) |-> IF i < x.batch_count THEN key_file[x.batch_start + i]
                                            ELSE x.keys[i]]
<1>1. /\ IsContext(x) /\ DOMAIN x.keys = 0 .. (Batch - 1)
      /\ x.keys \in [0 .. (Batch - 1) -> Feats \cup {NoFeat, None}]
  BY DEF Sound, Typed
<1>2. z = [x EXCEPT !.reading = FALSE, !.keys = g]
  BY <1>1 DEF Arrived
<1> HIDE DEF z
<1>3. IsContext(z) /\ Same(x, z, {"reading", "keys"}) /\ z.reading = FALSE /\ z.keys = g
  <2> HIDE DEF g
  <2> QED
    BY <1>1, <1>2, Zenon DEF IsContext, Fields, Same
<1>4. /\ z.type = x.type /\ z.snapshot_bump = x.snapshot_bump /\ z.cursor = x.cursor
      /\ z.dirty_pages = x.dirty_pages /\ z.page_cursor = x.page_cursor
      /\ z.scan_done = x.scan_done /\ z.phase = x.phase /\ z.dump = x.dump
      /\ z.batch_start = x.batch_start /\ z.batch_count = x.batch_count
      /\ z.pool = x.pool /\ z.ops = x.ops /\ z.ranges = x.ranges
  BY <1>3 DEF Same, Fields
<1>5. Frontier(z) = Frontier(x) /\ Base(z) = Base(x) /\ Due(z) = Due(x)
  BY <1>4, Zenon DEF Frontier, Base, Due
<1>6. PICK b \in Nat, c \in Nat :
        b = x.batch_start /\ c = x.batch_count /\ b + c <= MaxEntries /\ c <= Batch
  <2>1. Batch \in Nat /\ MaxEntries \in Nat
    BY PageFacts, Zenon
  <2>2. /\ x.batch_start \in Nat /\ x.batch_count \in Nat /\ x.batch_count <= Batch
        /\ x.batch_start + x.batch_count <= MaxEntries
    BY <2>1 DEF Sound, Typed
  <2> QED
    BY <2>2, Zenon
<1>7. \A i \in 0 .. (Batch - 1) : i < c =>
        /\ g[i] = key_file[b + i] /\ g[i] \in Feats \cup {NoFeat}
        /\ snapshot[b + i] # NoFeat => g[i] = snapshot[b + i]
  <2> SUFFICES ASSUME NEW i \in 0 .. (Batch - 1), i < c
               PROVE  /\ g[i] = key_file[b + i] /\ g[i] \in Feats \cup {NoFeat}
                      /\ snapshot[b + i] # NoFeat => g[i] = snapshot[b + i]
    BY Zenon
  <2>1. g[i] = key_file[b + i]
    BY <1>6
  <2>2. b + i \in Entries
    BY <1>6, PageFacts DEF Entries
  <2> HIDE DEF g
  <2>3. /\ key_file[b + i] \in Feats \cup {NoFeat}
        /\ snapshot[b + i] # NoFeat => key_file[b + i] = snapshot[b + i]
    BY <2>2 DEF BinInv
  <2> QED
    BY <2>1, <2>3, Zenon
<1>8. g \in [0 .. (Batch - 1) -> Feats \cup {NoFeat, None}]
  <2>1. \A i \in 0 .. (Batch - 1) : ~(i < c) => g[i] = x.keys[i]
    BY <1>6
  <2>2. g = [i \in 0 .. (Batch - 1) |-> g[i]]
    OBVIOUS
  <2> HIDE DEF g
  <2>3. \A i \in 0 .. (Batch - 1) : g[i] \in Feats \cup {NoFeat, None}
    BY <1>1, <1>7, <2>1, Zenon
  <2> QED
    BY <2>2, <2>3, Zenon
<1> HIDE DEF g
<1>9. Typed(z)
  BY <1>3, <1>4, <1>8, Zenon DEF Sound, Typed
<1>10. Scanned(z)
  BY <1>4, <1>5, Zenon DEF Sound, Scanned
<1>11. Written(z)
  <2>1. x.dump # <<>>
    BY DEF Sound, Written
  <2> QED
    BY <1>4, <1>5, <2>1, Zenon DEF Sound, Written
<1>12. Complete(z)
  BY <1>4, <1>5 DEF Sound, Complete
<1>13. KeysRead(z)
  <2>1. \A i \in 0 .. (c - 1) : i \in 0 .. (Batch - 1) /\ i < c
    BY <1>6, PageFacts
  <2> QED
    BY <1>3, <1>4, <1>6, <1>7, <2>1 DEF KeysRead
<1>14. Batched(z)
  BY <1>3, <1>4, <1>13, Zenon DEF Sound, Batched
<1> QED
  BY <1>9, <1>10, <1>11, <1>12, <1>14, Zenon DEF Sound, z

\* The embeddings arrive: each buffer holds the content of its own slot, however
\* the slots were coalesced into reads.
LEMMA EmbsArriveSound ==
  ASSUME NEW x, BinInv, Sound(x), x.reading, x.phase = "EMB_READ"
  PROVE  Sound(Arrived(x))
<1> DEFINE z == Arrived(x)
           run(i) == CHOOSE q \in Range(x.ranges) : i \in q.at .. (q.at + q.count - 1)
           g == [i \in 1 .. Batch |-> IF i > Len(x.ops) THEN x.pool[i]
                                      ELSE run(i).start + (i - run(i).at)]
<1>1. /\ IsContext(x) /\ DOMAIN x.pool = 1 .. Batch /\ OpsListed(x)
      /\ x.pool \in [1 .. Batch -> Entries \cup {None}] /\ Len(x.ops) \in 0 .. Batch
  BY DEF Sound, Typed, Batched
<1>2. z = [x EXCEPT !.reading = FALSE, !.pool = g]
  BY <1>1 DEF Arrived
<1> HIDE DEF z
<1>3. IsContext(z) /\ Same(x, z, {"reading", "pool"}) /\ z.reading = FALSE /\ z.pool = g
  <2> HIDE DEF g
  <2> QED
    BY <1>1, <1>2, Zenon DEF IsContext, Fields, Same
<1>4. /\ z.type = x.type /\ z.snapshot_bump = x.snapshot_bump /\ z.cursor = x.cursor
      /\ z.dirty_pages = x.dirty_pages /\ z.page_cursor = x.page_cursor
      /\ z.scan_done = x.scan_done /\ z.phase = x.phase /\ z.dump = x.dump
      /\ z.batch_start = x.batch_start /\ z.batch_count = x.batch_count
      /\ z.keys = x.keys /\ z.ops = x.ops /\ z.ranges = x.ranges
  BY <1>3 DEF Same, Fields
<1>5. Frontier(z) = Frontier(x) /\ Base(z) = Base(x) /\ Due(z) = Due(x)
  BY <1>4, Zenon DEF Frontier, Base, Due
<1>6. Batch \in Nat /\ Len(x.ops) \in Nat /\ Len(x.ops) <= Batch
  BY <1>1, PageFacts
<1>7. \A i \in 1 .. Len(x.ops) : x.ops[i].entry \in Entries /\ x.ops[i].entry \in Nat
  BY <1>1 DEF OpsListed, InBatch, Entries
<1>8. Covers(x.ops, Len(x.ops), x.ranges)
  BY <1>1, <1>6, <1>7, CoalescedCovers, Zenon DEF OpsListed
<1>9. \A i \in 1 .. Len(x.ops) : run(i).start + (i - run(i).at) = x.ops[i].entry
  <2> SUFFICES ASSUME NEW i \in 1 .. Len(x.ops)
               PROVE  run(i).start + (i - run(i).at) = x.ops[i].entry
    OBVIOUS
  <2>1. \A r : r \in Range(x.ranges) <=> \E j \in 1 .. Len(x.ranges) : r = x.ranges[j]
    <3>1. DOMAIN x.ranges = 1 .. Len(x.ranges)
      BY <1>8 DEF Covers
    <3> QED
      BY <3>1 DEF Range
  <2>2. \E q \in Range(x.ranges) : i \in q.at .. (q.at + q.count - 1)
    BY <1>8, <2>1, Zenon DEF Covers, PlacesOf
  <2>3. run(i) \in Range(x.ranges) /\ i \in run(i).at .. (run(i).at + run(i).count - 1)
    BY <2>2, Zenon
  <2>4. PICK j \in 1 .. Len(x.ranges) : run(i) = x.ranges[j]
    BY <2>1, <2>3, Zenon
  <2> HIDE DEF run
  <2>5. i \in PlacesOf(x.ranges[j])
    BY <2>3, <2>4, Zenon DEF PlacesOf
  <2> QED
    BY <1>8, <2>4, <2>5, Zenon DEF Covers
<1>10. \A i \in 1 .. Len(x.ops) : g[i] = x.ops[i].entry
  <2>1. \A i \in 1 .. Len(x.ops) : i \in 1 .. Batch /\ ~(i > Len(x.ops))
    BY <1>6
  <2> HIDE DEF run
  <2> QED
    BY <1>9, <2>1
<1>11. g \in [1 .. Batch -> Entries \cup {None}]
  <2>1. \A i \in 1 .. Batch : i > Len(x.ops) => g[i] = x.pool[i]
    OBVIOUS
  <2>2. g = [i \in 1 .. Batch |-> g[i]]
    OBVIOUS
  <2> HIDE DEF g
  <2>3. \A i \in 1 .. Batch : i > Len(x.ops) \/ i \in 1 .. Len(x.ops)
    BY <1>6
  <2>4. \A i \in 1 .. Batch : g[i] \in Entries \cup {None}
    BY <1>1, <1>7, <1>10, <2>1, <2>3, Zenon
  <2> QED
    BY <2>2, <2>4, Zenon
<1> HIDE DEF g
<1>12. Typed(z)
  BY <1>3, <1>4, <1>11, Zenon DEF Sound, Typed
<1>13. Scanned(z)
  BY <1>4, <1>5, Zenon DEF Sound, Scanned
<1>14. Written(z)
  <2>1. x.dump # <<>>
    BY DEF Sound, Written
  <2> QED
    BY <1>4, <1>5, <2>1, Zenon DEF Sound, Written
<1>15. Complete(z)
  BY <1>4, <1>5 DEF Sound, Complete
<1>16. OpsListed(z)
  <2>1. \A op : InBatch(z, op) <=> InBatch(x, op)
    BY <1>4, Zenon DEF InBatch
  <2> QED
    BY <1>1, <1>4, <1>5, <2>1 DEF OpsListed
<1>17. Batched(z)
  BY <1>3, <1>4, <1>10, <1>16, Zenon DEF Sound, Batched
<1> QED
  BY <1>12, <1>13, <1>14, <1>15, <1>17, Zenon DEF Sound, z

\* Reads arrive for a context that waits for them.
LEMMA ArrivedSound ==
  ASSUME NEW x, BinInv, Sound(x), x.reading
  PROVE  Sound(Arrived(x)) /\ Arrived(x).type = x.type
<1>1. x.phase \in {"KEY_READ", "EMB_READ"}
  BY DEF Sound, Typed, Batched
<1>2. Sound(Arrived(x))
  BY <1>1, KeysArriveSound, EmbsArriveSound
<1>3. IsContext(x)
  BY Zenon DEF Sound, Typed
<1>4. \A g, h : [x EXCEPT !.reading = g, !.keys = h].type = x.type
                /\ [x EXCEPT !.reading = g, !.pool = h].type = x.type
  BY <1>3 DEF IsContext, Fields
<1> QED
  BY <1>2, <1>4 DEF Arrived

\* One call of export_step_single.
LEMMA StepSound ==
  ASSUME NEW x, BinInv, Sound(x)
  PROVE  Sound(StepSingle(x)) /\ StepSingle(x).type = x.type
<1>1. /\ x.phase \in {"IDLE", "KEY_READ", "EMB_READ", "OUTPUT"}
      /\ x.phase \in {"IDLE", "OUTPUT"} => ~x.reading
  BY DEF Sound, Typed, Batched
<1>2. CASE ScanOver(x) \/ x.reading
  <2>1. StepSingle(x) = x
    BY <1>1, <1>2 DEF StepSingle, ScanOver
  <2> QED
    BY <2>1, Zenon
<1>3. CASE x.phase = "IDLE" /\ ~ScanOver(x)
  <2>1. StepSingle(x) = Submit(x)
    BY <1>1, <1>3 DEF StepSingle, ScanOver
  <2> QED
    BY <1>3, <2>1, SubmitSound, Zenon
<1>4. CASE x.phase = "KEY_READ" /\ ~x.reading
  <2>1. StepSingle(x) = ScanKeys(x)
    BY <1>4 DEF StepSingle, ScanOver
  <2> QED
    BY <1>4, <2>1, ScanKeysSound, Zenon
<1>5. CASE x.phase = "EMB_READ" /\ ~x.reading
  <2>1. StepSingle(x) = [x EXCEPT !.phase = "OUTPUT"]
    BY <1>5 DEF StepSingle, ScanOver
  <2> QED
    BY <1>5, <2>1, EmbReadSound, Zenon
<1>6. CASE x.phase = "OUTPUT"
  <2>1. StepSingle(x) = Output(x)
    BY <1>1, <1>6 DEF StepSingle, ScanOver
  <2> QED
    BY <1>6, <2>1, OutputSound, Zenon
<1> QED
  BY <1>1, <1>2, <1>3, <1>4, <1>5, <1>6
-----------------------------------------------------------------------------
(* The bin meanwhile, and the calls. *)

\* A new context (graveldb_ckpt_export_begin).
LEMMA NewSound ==
  ASSUME BinInv, NEW t \in {"FULL", "DELTA"}
  PROVE  Sound(NewExport(t)) /\ NewExport(t).type = t
<1> DEFINE x == NewExport(t)
           dp == IF t = "DELTA" THEN Ascending(dirty) ELSE <<>>
<1>1. /\ IsContext(x)
      /\ x.type = t /\ x.snapshot_bump = bump_ptr /\ x.cursor = 0 /\ x.dirty_pages = dp
      /\ x.page_cursor = 0 /\ x.scan_done = FALSE /\ x.phase = "IDLE" /\ x.reading = FALSE
      /\ x.batch_start = 0 /\ x.batch_count = 0
      /\ x.ops = <<>> /\ x.ranges = <<>> /\ x.dump = <<>>
      /\ x.keys = [i \in 0 .. (Batch - 1) |-> None] /\ x.pool = [i \in 1 .. Batch |-> None]
  <2> HIDE DEF dp
  <2>1. x = [type |-> t, snapshot_bump |-> bump_ptr, cursor |-> 0, dirty_pages |-> dp,
             page_cursor |-> 0, scan_done |-> FALSE, phase |-> "IDLE", reading |-> FALSE,
             batch_start |-> 0, batch_count |-> 0, keys |-> [i \in 0 .. (Batch - 1) |-> None],
             ops |-> <<>>, ranges |-> <<>>, pool |-> [i \in 1 .. Batch |-> None], dump |-> <<>>]
    BY Zenon DEF NewExport, dp
  <2> HIDE DEF x
  <2> QED
    BY <2>1, Zenon DEF IsContext, Fields
<1> HIDE DEF x
<1>2. /\ bump_ptr \in Nat /\ bump_ptr \in 0 .. MaxEntries
      /\ \A e \in Entries : snapshot[e] # NoFeat => e < bump_ptr
      /\ \A p \in dirty : p \in Nat /\ p * EPP < bump_ptr
  BY PageFacts DEF BinInv
<1>3. Batch \in Nat /\ MaxEntries \in Nat
  BY PageFacts, Zenon
<1>4. t = "DELTA" => Lists(dp) /\ Len(dp) \in Nat
  <2>1. t = "DELTA" => Lists(dp)
    BY AscendingLists, Zenon
  <2> HIDE DEF dp
  <2> QED
    BY <2>1 DEF Lists
<1>5. Typed(x)
  <2>1. x.keys \in [0 .. (Batch - 1) -> Feats \cup {NoFeat, None}]
    BY <1>1
  <2>2. x.pool \in [1 .. Batch -> Entries \cup {None}]
    BY <1>1
  <2>3. t = "DELTA" => dp = Ascending(dirty)
    OBVIOUS
  <2>4. /\ x.batch_start \in Nat /\ x.batch_count \in 0 .. Batch
        /\ x.batch_start + x.batch_count <= x.snapshot_bump
    BY <1>1, <1>2, <1>3
  <2> HIDE DEF dp
  <2>5. x.type \in {"FULL", "DELTA"} /\ x.phase \in {"IDLE", "KEY_READ", "EMB_READ", "OUTPUT"}
    BY <1>1
  <2> QED
    BY <1>1, <1>2, <2>1, <2>2, <2>3, <2>4, <2>5, Zenon DEF Typed
<1> HIDE DEF dp
<1>6. Scanned(x)
  <2>1. t = "DELTA" => x.page_cursor \in 0 .. Len(x.dirty_pages)
    BY <1>1, <1>4
  <2> QED
    BY <1>1, <1>2, <2>1 DEF Scanned
<1>7. Written(x)
  BY <1>1 DEF Written
<1>8. Complete(x)
  <2> SUFFICES ASSUME NEW e \in Due(x), e < Frontier(x)
               PROVE  FALSE
    BY <1>1 DEF Complete, Base
  <2>1. e \in Entries /\ e \in Nat
    BY DEF Due, Entries
  <2>2. t = "DELTA"
    BY <1>1, <2>1 DEF Frontier
  <2>3. PageOf(e) \in dirty
    BY <1>1, <2>2 DEF Due
  <2>4. PICK i \in 1 .. Len(dp) : dp[i] = PageOf(e)
    BY <1>4, <2>2, <2>3 DEF Lists
  <2>5. Len(dp) # 0 /\ 1 \in 1 .. Len(dp) /\ Len(dp) \in Nat
    BY <1>4, <2>2, <2>4
  <2>6. Frontier(x) = dp[1] * EPP
    BY <1>1, <2>2, <2>5 DEF Frontier
  <2>7. dp[1] \in Nat /\ dp[1] <= PageOf(e) /\ PageOf(e) \in Nat
    <3>1. dp \in Seq(Nat) /\ \A j, k \in 1 .. Len(dp) : j < k => dp[j] < dp[k]
      BY <1>4, <2>2 DEF Lists
    <3> QED
      BY <2>4, <2>5, <3>1
  <2>8. dp[1] * EPP <= PageOf(e) * EPP /\ PageOf(e) * EPP <= e
    <3>1. PageOf(e) * EPP <= e /\ EPP \in Nat
      BY <2>1, PageFacts
    <3>2. \A p, q, k \in Nat : p <= q => p * k <= q * k
      OBVIOUS
    <3> QED
      BY <2>7, <3>1, <3>2, Zenon
  <2>9. PICK u \in Nat, v \in Nat : u = dp[1] * EPP /\ v = PageOf(e) * EPP
    BY <2>7, PageFacts, Zenon
  <2> QED
    BY <2>1, <2>6, <2>8, <2>9
<1>9. Batched(x)
  BY <1>1, <1>3 DEF Batched
<1> QED
  BY <1>1, <1>5, <1>6, <1>7, <1>8, <1>9, Zenon DEF Sound, x

\* Whether a context is sound depends on the checkpoint's view of the bin only.
LEMMA SoundFrame ==
  ASSUME snapshot' = snapshot, dirty' = dirty
  PROVE  \A x : (Sound(x)' <=> Sound(x)) /\ (Finished(x)' <=> Finished(x))
<1>1. ASSUME NEW CONSTANT x
      PROVE  Sound(x)' <=> Sound(x)
  <2>1. Due(x)' = Due(x)
    BY Zenon DEF Due, PageOf, Entries
  <2>2. Frontier(x)' = Frontier(x) /\ Base(x)' = Base(x)
    BY Zenon DEF Frontier, Base
  <2>3. Typed(x)' <=> Typed(x)
    BY DEF Typed
  <2>4. Scanned(x)' <=> Scanned(x)
    BY <2>2, Zenon DEF Scanned
  <2>5. Written(x)' <=> Written(x)
    BY <2>2, Zenon DEF Written
  <2>6. Complete(x)' <=> Complete(x)
    BY <2>1, <2>2, Zenon DEF Complete
  <2>7. Batched(x)' <=> Batched(x)
    BY <2>1, ZenonT(60) DEF Batched, KeysRead, OpsListed, InBatch
  <2> QED
    BY <2>3, <2>4, <2>5, <2>6, <2>7, Zenon DEF Sound
<1>2. ASSUME NEW CONSTANT x
      PROVE  Finished(x)' <=> Finished(x)
  BY <1>1, Zenon DEF Finished, ScanOver
<1> QED
  BY <1>1, <1>2, Zenon

\* A finished context has nothing left to do.
LEMMA FinishedIs ==
  ASSUME NEW x, Finished(x)
  PROVE  ScanOver(x) /\ ~x.reading /\ Trailer \in Range(x.dump)
<1>1. PICK y : Sound(y) /\ ScanOver(y) /\ x = [y EXCEPT !.dump = Append(@, Trailer)]
  BY Zenon DEF Finished
<1>2. IsContext(y) /\ y.dump \in Seq(Pairs \cup {Header}) /\ ~y.reading
  BY <1>1 DEF Sound, Typed, Written, Batched, ScanOver
<1>3. /\ x.scan_done = y.scan_done /\ x.phase = y.phase /\ x.reading = y.reading
      /\ x.dump = Append(y.dump, Trailer)
  BY <1>1, <1>2 DEF IsContext, Fields
<1>4. Trailer \in Range(Append(y.dump, Trailer))
  <2>1. PICK n \in Nat : n = Len(y.dump)
    BY <1>2
  <2>2. /\ DOMAIN Append(y.dump, Trailer) = 1 .. (n + 1)
        /\ Append(y.dump, Trailer)[n + 1] = Trailer
    BY <1>2, <2>1
  <2>3. n + 1 \in 1 .. (n + 1)
    BY <2>1
  <2> QED
    BY <2>2, <2>3, Zenon DEF Range
<1> QED
  BY <1>1, <1>2, <1>3, <1>4, Zenon DEF ScanOver

\* Any bin that a checkpoint may find.
LEMMA InitBin ==
  ASSUME Init
  PROVE  BinInv
<1>1. \A p \in dirty : p \in Nat /\ p * EPP < bump_ptr
  <2> SUFFICES ASSUME NEW p \in dirty
               PROVE  p \in Nat /\ p * EPP < bump_ptr
    OBVIOUS
  <2>1. bump_ptr \in Nat
    BY PageFacts DEF Init
  <2>2. PICK e \in 0 .. (bump_ptr - 1) : p = PageOf(e)
    BY DEF Init
  <2>3. e \in Nat /\ e < bump_ptr
    BY <2>1, <2>2
  <2>4. PageOf(e) \in Nat /\ PageOf(e) * EPP <= e /\ PageOf(e) * EPP \in Nat
    BY <2>3, PageFacts, Zenon
  <2>5. PICK v \in Nat : v = PageOf(e) * EPP
    BY <2>4
  <2>6. v < bump_ptr
    BY <2>1, <2>3, <2>4, <2>5
  <2> QED
    BY <2>2, <2>4, <2>5, <2>6, Zenon
<1> QED
  BY <1>1 DEF Init, BinInv

\* The key of a slot owned at the checkpoint is neither replaced nor buffered
\* again by a put of a new feature.
LEMMA LatePutBin ==
  ASSUME BinInv, NEW f \in Feats, LatePut(f)
  PROVE  BinInv'
<1>1. PICK e \in IF FreeSlots # {} THEN FreeSlots ELSE {bump_ptr} \cap Entries :
        /\ key_buf' = [key_buf EXCEPT ![e] = f]
        /\ bump_ptr' = IF e = bump_ptr THEN bump_ptr + 1 ELSE bump_ptr
  BY Zenon DEF LatePut
<1>2. UNCHANGED <<snapshot, key_file, dirty, exports>>
  BY Zenon DEF LatePut
<1>3. bump_ptr \in Nat /\ bump_ptr <= MaxEntries /\ MaxEntries \in Nat
  BY PageFacts DEF BinInv
<1>4. /\ e \in Entries
      /\ (e \in FreeSlots /\ e # bump_ptr) \/ (e = bump_ptr /\ bump_ptr < MaxEntries)
  BY <1>1, <1>3 DEF FreeSlots, Entries
<1>5. snapshot[e] = NoFeat
  BY <1>3, <1>4 DEF FreeSlots, BinInv
<1>6. bump_ptr' \in 0 .. MaxEntries /\ bump_ptr <= bump_ptr' /\ bump_ptr' \in Nat
  BY <1>1, <1>3, <1>4
<1>7. key_buf' \in [Entries -> Feats \cup {None}]
  BY <1>1, <1>4 DEF BinInv
<1>8. \A s \in Entries : snapshot[s] # NoFeat =>
        s < bump_ptr' /\ key_file[s] = snapshot[s] /\ key_buf'[s] = None
  <2>1. \A s \in Entries : s \in Nat
    BY DEF Entries
  <2>2. \A s \in Entries : snapshot[s] # NoFeat => key_buf'[s] = None
    BY <1>1, <1>4, <1>5 DEF BinInv
  <2>3. \A s \in Nat : s < bump_ptr => s < bump_ptr'
    BY <1>3, <1>6
  <2> QED
    BY <2>1, <2>2, <2>3, Zenon DEF BinInv
<1>9. \A p \in dirty : p \in Nat /\ p * EPP < bump_ptr'
  <2>1. \A p \in Nat : p * EPP \in Nat
    BY PageFacts, Zenon
  <2>2. \A v \in Nat : v < bump_ptr => v < bump_ptr'
    BY <1>3, <1>6
  <2> QED
    BY <2>1, <2>2, Zenon DEF BinInv
<1> QED
  BY <1>2, <1>6, <1>7, <1>8, <1>9, Zenon DEF BinInv

\* Nor by a flush of the key buffer (dimbin_flush_keys).
LEMMA FlushKeysBin ==
  ASSUME BinInv, FlushKeys
  PROVE  BinInv'
<1>1. /\ key_file' = [e \in Entries |-> IF key_buf[e] # None THEN key_buf[e] ELSE key_file[e]]
      /\ key_buf' = [e \in Entries |-> None]
      /\ UNCHANGED <<snapshot, bump_ptr, dirty>>
  BY Zenon DEF FlushKeys
<1>2. key_file' \in [Entries -> Feats \cup {NoFeat}]
  BY <1>1 DEF BinInv
<1>3. key_buf' \in [Entries -> Feats \cup {None}]
  BY <1>1
<1>4. \A e \in Entries : snapshot[e] # NoFeat => key_file'[e] = snapshot[e] /\ key_buf'[e] = None
  BY <1>1 DEF BinInv
<1> QED
  BY <1>1, <1>2, <1>3, <1>4, Zenon DEF BinInv

\* A step that leaves the exports alone.
LEMMA ContextsFrame ==
  ASSUME ContextsInv, UNCHANGED <<snapshot, dirty, exports>>
  PROVE  ContextsInv'
<1>1. \A t : /\ Sound(exports[t]) => Sound(exports[t])'
             /\ Finished(exports[t]) => Finished(exports[t])'
  BY SoundFrame, Zenon
<1> QED
  BY <1>1, Zenon DEF ContextsInv, NoExport

\* graveldb_ckpt_export_begin.
LEMMA BeginContexts ==
  ASSUME BinInv, ExportBegin
  PROVE  ContextsInv'
<1>1. PICK types \in {{"FULL"}, {"DELTA"}, {"FULL", "DELTA"}} :
        exports' = [t \in types |-> NewExport(t)]
  BY Zenon DEF ExportBegin
<1>2. snapshot' = snapshot /\ dirty' = dirty
  BY DEF ExportBegin, binVars
<1>3. DOMAIN exports' = types /\ \A t \in types : exports'[t] = NewExport(t)
  BY <1>1, Zenon
<1>4. types \subseteq {"FULL", "DELTA"}
  BY <1>1
<1>5. \A t \in types : Sound(NewExport(t)) /\ NewExport(t).type = t
  BY <1>4, NewSound, Zenon
<1>6. \A t \in types : Sound(exports[t])' /\ exports'[t].type = t
  BY <1>2, <1>3, <1>5, SoundFrame, Zenon
<1>7. exports' = [t \in DOMAIN exports' |-> exports'[t]]
  BY <1>1, <1>3, Zenon
<1> QED
  BY <1>1, <1>3, <1>6, <1>7, Zenon DEF ContextsInv

\* graveldb_ckpt_export_step; a finished context has no steps left.
LEMMA StepContexts ==
  ASSUME BinInv, ContextsInv, ExportStep
  PROVE  ContextsInv'
<1>1. /\ exports # NoExport
      /\ exports' = [t \in DOMAIN exports |-> StepSingle(exports[t])]
      /\ snapshot' = snapshot /\ dirty' = dirty
  BY DEF ExportStep, binVars
<1>2. PICK u \in DOMAIN exports : ~ScanOver(exports[u])
  BY Zenon DEF ExportStep
<1>3. /\ DOMAIN exports \in {{"FULL"}, {"DELTA"}, {"FULL", "DELTA"}}
      /\ \A t \in DOMAIN exports : exports[t].type = t
      /\ \A t \in DOMAIN exports : Sound(exports[t])
  BY <1>1, <1>2, FinishedIs, Zenon DEF ContextsInv
<1>4. /\ DOMAIN exports' = DOMAIN exports
      /\ \A t \in DOMAIN exports : exports'[t] = StepSingle(exports[t])
      /\ exports' = [t \in DOMAIN exports' |-> exports'[t]]
  BY <1>1, Zenon
<1>5. \A t \in DOMAIN exports : Sound(exports[t])' /\ exports'[t].type = t
  <2>1. \A t \in DOMAIN exports : Sound(StepSingle(exports[t])) /\ StepSingle(exports[t]).type = t
    BY <1>3, StepSound, Zenon
  <2> QED
    BY <1>1, <1>4, <2>1, SoundFrame, Zenon
<1> QED
  BY <1>3, <1>4, <1>5, Zenon DEF ContextsInv

\* Reads of a context arrive.
LEMMA ArriveContexts ==
  ASSUME BinInv, ContextsInv, NEW u, ReadArrives(u)
  PROVE  ContextsInv'
<1>1. /\ u \in DOMAIN exports /\ exports[u].reading
      /\ exports' = [exports EXCEPT ![u] = Arrived(exports[u])]
      /\ snapshot' = snapshot /\ dirty' = dirty
  BY DEF ReadArrives, binVars
<1>2. exports # NoExport
  BY <1>1 DEF NoExport
<1>3. /\ DOMAIN exports \in {{"FULL"}, {"DELTA"}, {"FULL", "DELTA"}}
      /\ \A t \in DOMAIN exports : exports[t].type = t
      /\ \A t \in DOMAIN exports : Sound(exports[t])
  BY <1>1, <1>2, FinishedIs, Zenon DEF ContextsInv
<1>4. /\ DOMAIN exports' = DOMAIN exports
      /\ \A t \in DOMAIN exports : exports'[t] = IF t = u THEN Arrived(exports[u]) ELSE exports[t]
      /\ exports' = [t \in DOMAIN exports' |-> exports'[t]]
  BY <1>1, Zenon
<1>5. Sound(Arrived(exports[u])) /\ Arrived(exports[u]).type = u
  BY <1>1, <1>3, ArrivedSound, Zenon
<1>6. \A t \in DOMAIN exports : Sound(exports[t])' /\ exports'[t].type = t
  <2> SUFFICES ASSUME NEW t \in DOMAIN exports
               PROVE  Sound(exports[t])' /\ exports'[t].type = t
    BY Zenon
  <2>1. CASE t = u
    <3>1. exports'[t] = Arrived(exports[u])
      BY <1>4, <2>1, Zenon
    <3> QED
      BY <1>1, <1>5, <2>1, <3>1, SoundFrame, Zenon
  <2>2. CASE t # u
    <3>1. exports'[t] = exports[t]
      BY <1>4, <2>2, Zenon
    <3> QED
      BY <1>1, <1>3, <3>1, SoundFrame, Zenon
  <2> QED
    BY <2>1, <2>2, Zenon
<1> QED
  BY <1>3, <1>4, <1>6, Zenon DEF ContextsInv

\* graveldb_ckpt_export_end, once.
LEMMA EndContexts ==
  ASSUME BinInv, ContextsInv, ExportEnd
  PROVE  ContextsInv'
<1> DEFINE done(t) == [exports[t] EXCEPT !.dump = Append(@, Trailer)]
<1>1. /\ exports # NoExport /\ ~Ended
      /\ \A t \in DOMAIN exports : ScanOver(exports[t])
      /\ exports' = [t \in DOMAIN exports |-> done(t)]
      /\ snapshot' = snapshot /\ dirty' = dirty
  BY DEF ExportEnd, binVars
<1>2. /\ DOMAIN exports \in {{"FULL"}, {"DELTA"}, {"FULL", "DELTA"}}
      /\ \A t \in DOMAIN exports : exports[t].type = t
      /\ \A t \in DOMAIN exports : Sound(exports[t])
  <2>1. ~ \A t \in DOMAIN exports : Finished(exports[t])
    BY <1>1, FinishedIs, Zenon DEF Ended
  <2> QED
    BY <1>1, <2>1, Zenon DEF ContextsInv
<1>3. \A t \in DOMAIN exports : Finished(done(t)) /\ done(t).type = t
  <2> SUFFICES ASSUME NEW t \in DOMAIN exports
               PROVE  Finished(done(t)) /\ done(t).type = t
    BY Zenon
  <2>1. Sound(exports[t]) /\ ScanOver(exports[t]) /\ exports[t].type = t
    BY <1>1, <1>2, Zenon
  <2>2. IsContext(exports[t])
    BY <2>1, Zenon DEF Sound, Typed
  <2>3. \A x : IsContext(x) => \A d : [x EXCEPT !.dump = d].type = x.type
    BY DEF IsContext, Fields
  <2>4. done(t).type = t
    BY <2>1, <2>2, <2>3
  <2>5. Finished(done(t))
    BY <2>1, Zenon DEF Finished
  <2> QED
    BY <2>4, <2>5, Zenon
<1> HIDE DEF done
<1>4. /\ DOMAIN exports' = DOMAIN exports
      /\ \A t \in DOMAIN exports : exports'[t] = done(t)
      /\ exports' = [t \in DOMAIN exports' |-> exports'[t]]
  BY <1>1, Zenon
<1>5. \A t \in DOMAIN exports : Finished(exports[t])' /\ exports'[t].type = t
  BY <1>1, <1>3, <1>4, SoundFrame, Zenon
<1> QED
  BY <1>2, <1>4, <1>5, Zenon DEF ContextsInv
-----------------------------------------------------------------------------
(* The theorems. *)

\* In every reachable state of an export, whatever is put and flushed meanwhile:
\* the bin still has what it had when the checkpoint began, and the dumps hold
\* the slots below the point the scans have reached, in order.
THEOREM ExportInvHolds == Spec => []ExportInv
<1>1. ImportInit => ExportInv
  BY InitBin, Zenon DEF ImportInit, Init, ExportInv, ContextsInv
<1>2. ExportInv /\ [Next]_allVars => ExportInv'
  <2> SUFFICES ASSUME ExportInv, [Next]_allVars
               PROVE  ExportInv'
    BY Zenon
  <2>0. BinInv /\ ContextsInv
    BY Zenon DEF ExportInv
  <2>1. ASSUME NEW f \in Feats, LatePut(f)
        PROVE  ExportInv'
    <3>1. UNCHANGED <<snapshot, dirty, exports>>
      BY <2>1 DEF LatePut
    <3> QED
      BY <2>0, <2>1, <3>1, LatePutBin, ContextsFrame, Zenon DEF ExportInv
  <2>2. CASE FlushKeys
    <3>1. UNCHANGED <<snapshot, dirty, exports>>
      BY <2>2 DEF FlushKeys
    <3> QED
      BY <2>0, <2>2, <3>1, FlushKeysBin, ContextsFrame, Zenon DEF ExportInv
  <2>3. UNCHANGED binVars => BinInv'
    BY <2>0 DEF binVars, BinInv
  <2>4. CASE ExportBegin
    BY <2>0, <2>3, <2>4, BeginContexts, Zenon DEF ExportInv, ExportBegin
  <2>5. CASE ExportStep
    BY <2>0, <2>3, <2>5, StepContexts, Zenon DEF ExportInv, ExportStep
  <2>6. CASE ExportEnd
    BY <2>0, <2>3, <2>6, EndContexts, Zenon DEF ExportInv, ExportEnd
  <2>7. ASSUME NEW t, ReadArrives(t)
        PROVE  ExportInv'
    BY <2>0, <2>3, <2>7, ArriveContexts, Zenon DEF ExportInv, ReadArrives
  <2>8. CASE UNCHANGED vars
    <3>1. UNCHANGED binVars /\ UNCHANGED <<snapshot, dirty, exports>>
      BY <2>8 DEF vars, binVars
    <3> QED
      BY <2>0, <2>3, <3>1, ContextsFrame, Zenon DEF ExportInv
  <2>9. CASE ImportNext
    <3>1. UNCHANGED vars
      BY <2>9, Zenon DEF ImportNext, ImportBegin, ImportStep, TakeBatch, WriteLands, ImportEnd
    <3> QED
      BY <2>8, <3>1, Zenon
  <2>10. CASE UNCHANGED allVars
    <3>1. UNCHANGED vars
      BY <2>10 DEF allVars
    <3> QED
      BY <2>8, <3>1, Zenon
  <2> QED
    BY <2>1, <2>2, <2>4, <2>5, <2>6, <2>7, <2>9, <2>10, Zenon DEF Next, ExportNext
<1> QED
  BY <1>1, <1>2, PTL DEF Spec

\* What a context in use is made of: y, or y and its trailer.
LEMMA ContextIs ==
  ASSUME ExportInv, NEW t \in DOMAIN exports
  PROVE  \E y : LET x == exports[t] IN
           /\ Sound(y) /\ y.type = t
           /\ \A n \in Fields \ {"dump"} : x[n] = y[n]
           /\ \/ x.dump = y.dump
              \/ x.dump = Append(y.dump, Trailer) /\ ScanOver(y)
<1>1. exports # NoExport
  BY DEF NoExport
<1>2. exports[t].type = t /\ (Sound(exports[t]) \/ Finished(exports[t]))
  BY <1>1, Zenon DEF ExportInv, ContextsInv
<1>3. CASE Sound(exports[t])
  BY <1>2, <1>3, Zenon
<1>4. CASE Finished(exports[t])
  <2>1. PICK y : /\ Sound(y) /\ ScanOver(y)
                 /\ exports[t] = [y EXCEPT !.dump = Append(@, Trailer)]
    BY <1>4, Zenon DEF Finished
  <2>2. IsContext(y)
    BY <2>1, Zenon DEF Sound, Typed
  <2>3. /\ \A n \in Fields \ {"dump"} : exports[t][n] = y[n]
        /\ exports[t].dump = Append(y.dump, Trailer)
    BY <2>1, <2>2 DEF IsContext, Fields
  <2>4. y.type = t
    BY <1>2, <2>3 DEF Fields
  <2> QED
    BY <2>1, <2>3, <2>4, Zenon
<1> QED
  BY <1>2, <1>3, <1>4, Zenon

\* The records of a dump are what a sound context has written behind its header.
LEMMA RecordsAre ==
  ASSUME ExportInv, NEW t \in DOMAIN exports
  PROVE  \E y : /\ Sound(y) /\ y.type = t
                /\ Ended => ScanOver(y)
                /\ DOMAIN Records(t) = 1 .. (Len(y.dump) - 1)
                /\ \A i \in 1 .. (Len(y.dump) - 1) : Records(t)[i] = y.dump[i + 1]
<1>1. PICK y : /\ Sound(y) /\ y.type = t
               /\ \/ exports[t].dump = y.dump
                  \/ exports[t].dump = Append(y.dump, Trailer) /\ ScanOver(y)
  BY ContextIs, Zenon
<1>2. PICK u, d : u = y.dump /\ d = exports[t].dump
  OBVIOUS
<1>3. u \in Seq(Pairs \cup {Header}) /\ Trailer \notin Pairs \cup {Header}
  <2>1. u \in Seq(Pairs \cup {Header})
    BY <1>1, <1>2, Zenon DEF Sound, Written
  <2>2. Trailer \notin Pairs /\ Trailer # Header
    BY ExportAssumption DEF Pairs, Entries
  <2> QED
    BY <2>1, <2>2
<1>4. PICK n \in Nat : n = Len(u)
  BY <1>3
<1>5. Trailer \notin Range(u)
  BY <1>3 DEF Range
<1>6. /\ Trailer \in Range(d) => ScanOver(y)
      /\ n = IF Trailer \in Range(d) THEN Len(d) - 1 ELSE Len(d)
      /\ \A i \in 1 .. n : d[i] = u[i] /\ d[i] \in Pairs \cup {Header}
  <2>1. CASE d = u
    BY <1>3, <1>4, <1>5, <2>1
  <2>2. CASE d = Append(u, Trailer) /\ ScanOver(y)
    <3>1. Len(d) = n + 1 /\ d[n + 1] = Trailer /\ DOMAIN d = 1 .. (n + 1)
      BY <1>3, <1>4, <2>2
    <3>2. \A i \in 1 .. n : d[i] = u[i] /\ u[i] \in Pairs \cup {Header}
      BY <1>3, <1>4, <2>2
    <3>3. Trailer \in Range(d)
      <4>1. n + 1 \in 1 .. (n + 1)
        BY <1>4
      <4> QED
        BY <3>1, <4>1, Zenon DEF Range
    <3>4. n = (n + 1) - 1
      BY <1>4
    <3> QED
      BY <2>2, <3>1, <3>2, <3>3, <3>4
  <2> QED
    BY <1>1, <1>2, <2>1, <2>2, Zenon
<1>7. Records(t) = SubSeq(d, 2, n)
  BY <1>2, <1>6, Zenon DEF Records
<1>8. /\ DOMAIN SubSeq(d, 2, n) = 1 .. (n - 1)
      /\ \A i \in 1 .. (n - 1) : SubSeq(d, 2, n)[i] = d[i + 1]
  <2>1. PICK S : S = Pairs \cup {Header}
    BY Zenon
  <2>2. \A i \in 2 .. n : d[i] \in S
    BY <1>4, <1>6, <2>1
  <2>3. 2 \in Int /\ n \in Int
    BY <1>4
  <2>4. PICK q : q = SubSeq(d, 2, n)
    BY Zenon
  <2>5. /\ q \in Seq(S)
        /\ Len(q) = IF 2 <= n THEN n - 2 + 1 ELSE 0
        /\ \A i \in 1 .. (n - 2 + 1) : q[i] = d[2 + i - 1]
    BY <2>2, <2>3, <2>4, SubSeqProperties
  <2>6. DOMAIN q = 1 .. (n - 1)
    BY <1>4, <2>5
  <2>7. \A i \in 1 .. (n - 1) : q[i] = d[i + 1]
    BY <1>4, <2>5
  <2> QED
    BY <2>4, <2>6, <2>7, Zenon
<1>9. \A i \in 1 .. (n - 1) : d[i + 1] = u[i + 1]
  BY <1>4, <1>6
<1>10. Ended => ScanOver(y)
  BY <1>2, <1>6, Zenon DEF Ended
<1> QED
  BY <1>1, <1>2, <1>4, <1>7, <1>8, <1>9, <1>10

\* The types, and that the buffers of a context hold a batch: the keys read, the
\* owned slots and the coalesced reads.
THEOREM ExportTypes == Spec => []ExportTypeOK
<1>1. ASSUME ExportInv
      PROVE  ExportTypeOK
  <2>1. /\ snapshot \in [Entries -> Feats \cup {NoFeat}]
        /\ key_file \in [Entries -> Feats \cup {NoFeat}]
        /\ key_buf \in [Entries -> Feats \cup {None}]
        /\ bump_ptr \in 0 .. MaxEntries
    BY <1>1, Zenon DEF ExportInv, BinInv
  <2>2. ASSUME NEW t \in DOMAIN exports
        PROVE  LET x == exports[t] IN
               /\ x.batch_count <= Batch /\ Len(x.ops) <= Batch /\ Len(x.ranges) <= Len(x.ops)
               /\ x.batch_start + x.batch_count <= x.snapshot_bump
               /\ x.keys \in [0 .. (Batch - 1) -> Feats \cup {NoFeat, None}]
               /\ x.pool \in [1 .. Batch -> Entries \cup {None}]
    <3>1. PICK y : /\ Sound(y) /\ y.type = t
                   /\ \A n \in Fields \ {"dump"} : exports[t][n] = y[n]
                   /\ \/ exports[t].dump = y.dump
                      \/ exports[t].dump = Append(y.dump, Trailer) /\ ScanOver(y)
      BY <1>1, ContextIs, Zenon
    <3>2. LET x == exports[t] IN
          /\ x.batch_count = y.batch_count /\ x.ops = y.ops /\ x.ranges = y.ranges
          /\ x.batch_start = y.batch_start /\ x.snapshot_bump = y.snapshot_bump
          /\ x.keys = y.keys /\ x.pool = y.pool
      BY <3>1 DEF Fields
    <3>3. /\ y.batch_start + y.batch_count <= y.snapshot_bump
          /\ y.keys \in [0 .. (Batch - 1) -> Feats \cup {NoFeat, None}]
          /\ y.pool \in [1 .. Batch -> Entries \cup {None}]
      BY <3>1, Zenon DEF Sound, Typed
    <3>4. y.batch_count <= Batch /\ Len(y.ops) \in Nat /\ Len(y.ops) <= Batch
      <4>1. Batch \in Nat
        BY PageFacts, Zenon
      <4>2. y.batch_count \in 0 .. Batch /\ Len(y.ops) \in 0 .. Batch
        BY <3>1, Zenon DEF Sound, Typed, Batched
      <4> QED
        BY <4>1, <4>2
    <3>5. Len(y.ranges) <= Len(y.ops)
      <4>1. CASE y.ops = <<>> /\ y.ranges = <<>>
        BY <4>1
      <4>2. CASE OpsListed(y)
        <5>1. \A i \in 1 .. Len(y.ops) : y.ops[i].entry \in Nat
          BY <4>2 DEF OpsListed, InBatch, Entries
        <5>2. Covers(y.ops, Len(y.ops), y.ranges)
          BY <3>4, <4>2, <5>1, CoalescedCovers, Zenon DEF OpsListed
        <5> QED
          BY <5>2, Zenon DEF Covers
      <4> QED
        BY <3>1, <4>1, <4>2, Zenon DEF Sound, Typed, Batched
    <3> QED
      BY <3>2, <3>3, <3>4, <3>5, Zenon
  <2> QED
    BY <2>1, <2>2, Zenon DEF ExportTypeOK
<1> QED
  BY <1>1, ExportInvHolds, PTL

\* Every embedding of the checkpoint is dumped under the feature that owned it
\* when the checkpoint began.
THEOREM SnapshotExactHolds == Spec => []SnapshotExact
<1>1. ASSUME ExportInv
      PROVE  SnapshotExact
  <2> SUFFICES ASSUME NEW t \in DOMAIN exports, NEW r \in Range(Records(t))
               PROVE  r.emb \in Entries /\ (snapshot[r.emb] # NoFeat => r.feat = snapshot[r.emb])
    BY Zenon DEF SnapshotExact
  <2>1. PICK y : /\ Sound(y) /\ y.type = t
                 /\ Ended => ScanOver(y)
                 /\ DOMAIN Records(t) = 1 .. (Len(y.dump) - 1)
                 /\ \A i \in 1 .. (Len(y.dump) - 1) : Records(t)[i] = y.dump[i + 1]
    BY <1>1, RecordsAre, Zenon
  <2>2. PICK i \in 1 .. (Len(y.dump) - 1) : r = y.dump[i + 1]
    BY <2>1, Zenon DEF Range
  <2>3. i + 1 \in 2 .. Len(y.dump)
    <3>1. Len(y.dump) \in Nat
      <4>1. y.dump \in Seq(Pairs \cup {Header})
        BY <2>1, Zenon DEF Sound, Written
      <4> QED
        BY <4>1
    <3> QED
      BY <2>2, <3>1
  <2>4. r \in Pairs /\ (snapshot[r.emb] # NoFeat => r.feat = snapshot[r.emb])
    BY <2>1, <2>2, <2>3, Zenon DEF Sound, Written
  <2> QED
    BY <2>4 DEF Pairs
<1> QED
  BY <1>1, ExportInvHolds, PTL

\* No slot is dumped twice.
THEOREM EachSlotOnceHolds == Spec => []EachSlotOnce
<1>1. ASSUME ExportInv
      PROVE  EachSlotOnce
  <2> SUFFICES ASSUME NEW t \in DOMAIN exports, NEW i \in DOMAIN Records(t),
                      NEW j \in DOMAIN Records(t), Records(t)[i].emb = Records(t)[j].emb
               PROVE  i = j
    BY Zenon DEF EachSlotOnce
  <2>1. PICK y : /\ Sound(y) /\ y.type = t
                 /\ Ended => ScanOver(y)
                 /\ DOMAIN Records(t) = 1 .. (Len(y.dump) - 1)
                 /\ \A k \in 1 .. (Len(y.dump) - 1) : Records(t)[k] = y.dump[k + 1]
    BY <1>1, RecordsAre, Zenon
  <2>2. PICK n \in Nat : n = Len(y.dump)
    <3>1. y.dump \in Seq(Pairs \cup {Header})
      BY <2>1, Zenon DEF Sound, Written
    <3> QED
      BY <3>1
  <2>3. /\ \A k \in 2 .. n : y.dump[k] \in Pairs
        /\ \A k, l \in 2 .. n : k < l => y.dump[k].emb < y.dump[l].emb
    BY <2>1, <2>2, Zenon DEF Sound, Written
  <2>4. i \in 1 .. (n - 1) /\ j \in 1 .. (n - 1) /\ y.dump[i + 1].emb = y.dump[j + 1].emb
    BY <2>1, <2>2, Zenon
  <2>5. i + 1 \in 2 .. n /\ j + 1 \in 2 .. n
    BY <2>2, <2>4
  <2>6. \A k \in 2 .. n : y.dump[k].emb \in Nat
    BY <2>3 DEF Pairs, Entries
  <2>7. ~(i + 1 < j + 1) /\ ~(j + 1 < i + 1)
    <3>1. \A a \in Nat : ~(a < a)
      OBVIOUS
    <3> QED
      BY <2>3, <2>4, <2>5, <2>6, <3>1, Zenon
  <2> QED
    BY <2>2, <2>4, <2>7
<1> QED
  BY <1>1, ExportInvHolds, PTL

\* A finished scan has dumped all that is due.
LEMMA AllDumped ==
  ASSUME ExportInv, Ended, NEW t \in DOMAIN exports
  PROVE  \E y : y.type = t /\ Due(y) \subseteq Dumped(t)
<1>1. PICK y : /\ Sound(y) /\ y.type = t
               /\ Ended => ScanOver(y)
               /\ DOMAIN Records(t) = 1 .. (Len(y.dump) - 1)
               /\ \A k \in 1 .. (Len(y.dump) - 1) : Records(t)[k] = y.dump[k + 1]
  BY RecordsAre, Zenon
<1>2. Base(y) = y.snapshot_bump
  BY <1>1 DEF Sound, Scanned, ScanOver, Base
<1>3. ASSUME NEW e \in Due(y)
      PROVE  e \in Dumped(t)
  <2>1. e < Base(y)
    BY <1>1, <1>2, <1>3, Zenon DEF Sound, Typed, Due
  <2>2. PICK i \in 2 .. Len(y.dump) : y.dump[i].emb = e
    BY <1>1, <2>1, Zenon DEF Sound, Complete
  <2>3. i - 1 \in 1 .. (Len(y.dump) - 1) /\ (i - 1) + 1 = i
    <3>1. Len(y.dump) \in Nat
      <4>1. y.dump \in Seq(Pairs \cup {Header})
        BY <1>1, Zenon DEF Sound, Written
      <4> QED
        BY <4>1
    <3> QED
      BY <2>2, <3>1
  <2>4. Records(t)[i - 1].emb = e /\ i - 1 \in DOMAIN Records(t)
    BY <1>1, <2>2, <2>3, Zenon
  <2> QED
    BY <2>4, Zenon DEF Dumped, Range
<1> QED
  BY <1>1, <1>3, Zenon

\* A finished full dump holds every embedding of the checkpoint.
THEOREM FullCompleteHolds == Spec => []FullComplete
<1>1. ASSUME ExportInv
      PROVE  FullComplete
  <2> SUFFICES ASSUME Ended, "FULL" \in DOMAIN exports, NEW e \in Entries, snapshot[e] # NoFeat
               PROVE  e \in Dumped("FULL")
    BY DEF FullComplete
  <2>1. PICK y : y.type = "FULL" /\ Due(y) \subseteq Dumped("FULL")
    BY <1>1, AllDumped, Zenon
  <2>2. e \in Due(y)
    BY <2>1 DEF Due
  <2> QED
    BY <2>1, <2>2
<1> QED
  BY <1>1, ExportInvHolds, PTL

\* A finished delta dump holds every embedding of the dirty pages, where a batch
\* is a whole number of pages and the dirty pages have no gap.
THEOREM DeltaCompleteHolds == Spec => []DeltaComplete
<1>1. ASSUME ExportInv
      PROVE  DeltaComplete
  <2> SUFFICES ASSUME Ended, "DELTA" \in DOMAIN exports, Batch % EPP = 0,
                      \A p, q \in dirty : \A r \in p .. q : r \in dirty,
                      NEW e \in Entries, snapshot[e] # NoFeat, PageOf(e) \in dirty
               PROVE  e \in Dumped("DELTA")
    BY DEF DeltaComplete
  <2>1. PICK y : y.type = "DELTA" /\ Due(y) \subseteq Dumped("DELTA")
    BY <1>1, AllDumped, Zenon
  <2>2. e \in Due(y)
    BY Zenon DEF Due
  <2> QED
    BY <2>1, <2>2
<1> QED
  BY <1>1, ExportInvHolds, PTL
=============================================================================
