---------------------------- MODULE ImportProofs ----------------------------
(***************************************************************************)
(* What a replica reads after it has loaded the dumps of an export, for    *)
(* any dumps and any import batch, and however the writes land.            *)
(***************************************************************************)
EXTENDS ExportProofs
-----------------------------------------------------------------------------
(* What is read of a finished dump. *)

\* Max of a bounded set of numbers: the last place of a feature in a batch.
LEMMA MaxIs ==
  ASSUME NEW T, T \subseteq Nat, T # {}, NEW n \in Nat, \A y \in T : y <= n
  PROVE  Max(T) \in T /\ \A y \in T : y <= Max(T)
<1> DEFINE D == {d \in Nat : \E y \in T : d = n - y}
<1>1. D \subseteq Nat /\ D # {}
  <2>1. PICK y : y \in T
    BY Zenon
  <2>2. n - y \in Nat
    BY <2>1
  <2>3. n - y \in D
    BY <2>1, <2>2, Zenon
  <2> QED
    BY <2>3, Zenon
<1>2. PICK d \in D : \A c \in D : d <= c
  <2> HIDE DEF D
  <2> QED
    BY <1>1, LeastMember, Zenon
<1>3. PICK x \in T : d = n - x
  BY <1>2, Zenon
<1>4. ASSUME NEW y \in T
      PROVE  x >= y
  <2>1. n - y \in Nat
    OBVIOUS
  <2>2. n - y \in D
    BY <2>1, Zenon
  <2>3. n - x <= n - y
    BY <1>2, <1>3, <2>2, Zenon
  <2>4. x \in Nat /\ y \in Nat
    BY Zenon
  <2> QED
    BY <2>3, <2>4
<1>5. Max(T) \in T /\ \A y \in T : Max(T) >= y
  <2> HIDE DEF D
  <2>1. \E z \in T : \A y \in T : z >= y
    BY <1>4, Zenon
  <2> QED
    BY <2>1, Zenon DEF Max
<1> QED
  BY <1>5

\* A member no other exceeds is the Max.
LEMMA MaxUnique ==
  ASSUME NEW T, T \subseteq Nat, NEW x \in T, \A y \in T : y <= x
  PROVE  Max(T) = x
<1>1. x \in Nat
  OBVIOUS
<1>2. Max(T) \in T /\ \A y \in T : y <= Max(T)
  BY <1>1, MaxIs, Zenon
<1>3. PICK m : m = Max(T)
  OBVIOUS
<1>4. m \in Nat /\ m <= x /\ x <= m
  BY <1>2, <1>3, Zenon
<1> QED
  BY <1>1, <1>3, <1>4

\* A finished dump: a header, pairs, at most one for each slot, and the trailer.
Whole(d) ==
  \E m \in 1 .. (MaxEntries + 1) :
    Len(d) = m + 1 /\ d[m + 1] = Trailer /\ \A i \in 2 .. m : d[i] \in Pairs

\* The pairs are in the order of their slots, so there are at most MaxEntries.
LEMMA DumpFits ==
  ASSUME NEW y, Sound(y), y.dump # <<>>
  PROVE  Len(y.dump) \in 1 .. (MaxEntries + 1) /\ \A i \in 2 .. Len(y.dump) : y.dump[i] \in Pairs
<1>1. PICK u, S : u = y.dump /\ S = Pairs \cup {Header}
  BY Zenon
<1>2. u \in Seq(S) /\ u # <<>>
  BY <1>1, Zenon DEF Sound, Written
<1>3. PICK n \in Nat : n = Len(u) /\ n > 0
  BY <1>2
<1>4. /\ \A i \in 2 .. n : u[i] \in Pairs
      /\ \A i, j \in 2 .. n : i < j => u[i].emb < u[j].emb
  BY <1>1, <1>3, Zenon DEF Sound, Written
<1>5. MaxEntries \in Nat
  BY ExportAssumption
<1>6. \A i \in 2 .. n : u[i].emb \in Nat /\ u[i].emb < MaxEntries
  BY <1>4, <1>5 DEF Pairs, Entries
<1> DEFINE R == {k \in Nat : k + 2 \in 2 .. n => u[k + 2].emb >= k}
<1>7. Nat \subseteq R
  <2>1. 0 \in R
    BY <1>3, <1>6
  <2>2. ASSUME NEW k \in Nat, k \in R
        PROVE  k + 1 \in R
    <3> SUFFICES ASSUME (k + 1) + 2 \in 2 .. n
                 PROVE  u[(k + 1) + 2].emb >= k + 1
      BY <2>2
    <3>1. k + 2 \in 2 .. n /\ k + 3 \in 2 .. n /\ k + 2 < k + 3 /\ (k + 1) + 2 = k + 3
      BY <1>3
    <3>2. u[k + 2].emb < u[k + 3].emb
      BY <1>4, <3>1, Zenon
    <3>3. u[k + 2].emb >= k
      BY <2>2, <3>1, Zenon
    <3>4. PICK a \in Nat, b \in Nat : a = u[k + 2].emb /\ b = u[k + 3].emb
      BY <1>6, <3>1, Zenon
    <3>5. b >= k + 1
      BY <3>2, <3>3, <3>4
    <3> QED
      BY <3>1, <3>4, <3>5
  <2> HIDE DEF R
  <2> QED
    BY <2>1, <2>2, NumberInduction, Zenon
<1>8. n <= MaxEntries + 1
  <2> SUFFICES ASSUME n >= 2 PROVE n <= MaxEntries + 1
    BY <1>3, <1>5
  <2>1. n - 2 \in Nat /\ (n - 2) + 2 = n /\ n \in 2 .. n
    BY <1>3
  <2>2. u[n].emb >= n - 2
    BY <1>7, <2>1
  <2>3. u[n].emb \in Nat /\ u[n].emb < MaxEntries
    BY <1>6, <2>1, Zenon
  <2>4. PICK a \in Nat : a = u[n].emb
    BY <2>3, Zenon
  <2> QED
    BY <1>3, <1>5, <2>2, <2>3, <2>4
<1> QED
  BY <1>1, <1>3, <1>4, <1>5, <1>8

\* Every dump is whole once the export has ended.
LEMMA DumpWhole ==
  ASSUME ExportInv, Ended, NEW t \in DOMAIN exports
  PROVE  Whole(exports[t].dump)
<1>1. exports # NoExport /\ Trailer \in Range(exports[t].dump)
  BY Zenon DEF Ended
<1>2. PICK y : /\ Sound(y) /\ y.type = t
               /\ \/ exports[t].dump = y.dump
                  \/ exports[t].dump = Append(y.dump, Trailer) /\ ScanOver(y)
  BY ContextIs, Zenon
<1>3. PICK u, d : u = y.dump /\ d = exports[t].dump
  OBVIOUS
<1>4. u \in Seq(Pairs \cup {Header}) /\ Trailer \notin Pairs \cup {Header}
  <2>1. u \in Seq(Pairs \cup {Header})
    BY <1>2, <1>3, Zenon DEF Sound, Written
  <2>2. Trailer \notin Pairs /\ Trailer # Header
    BY ExportAssumption DEF Pairs, Entries
  <2> QED
    BY <2>1, <2>2
<1>5. Trailer \notin Range(u)
  BY <1>4 DEF Range
<1>6. d = Append(u, Trailer) /\ ScanOver(y)
  BY <1>1, <1>2, <1>3, <1>5, Zenon
<1>7. u # <<>>
  BY <1>2, <1>3, <1>6, Zenon DEF Sound, Written, ScanOver
<1>8. Len(u) \in 1 .. (MaxEntries + 1) /\ \A i \in 2 .. Len(u) : u[i] \in Pairs
  BY <1>2, <1>3, <1>7, DumpFits, Zenon
<1>9. PICK m \in 1 .. (MaxEntries + 1) : m = Len(u)
  BY <1>8, Zenon
<1>10. m \in Nat /\ Len(d) = m + 1 /\ d[m + 1] = Trailer /\ \A i \in 2 .. m : d[i] = u[i]
  BY <1>4, <1>6, <1>9
<1> QED
  BY <1>3, <1>8, <1>9, <1>10, Zenon DEF Whole

\* Where the reader of a dump stops.
Stop(d) == Min({i \in 2 .. Len(d) : EndsEntries(d[i])})

\* It stops at the trailer at the latest, and has read pairs.
LEMMA StopIs ==
  ASSUME NEW d, Whole(d)
  PROVE  /\ Len(d) \in Nat /\ Stop(d) \in 2 .. Len(d) /\ Stop(d) <= MaxEntries + 2
         /\ EndsEntries(d[Stop(d)])
         /\ \A i \in 2 .. (Stop(d) - 1) : d[i] \in Pairs /\ ~EndsEntries(d[i])
<1>1. PICK m \in 1 .. (MaxEntries + 1) :
        Len(d) = m + 1 /\ d[m + 1] = Trailer /\ \A i \in 2 .. m : d[i] \in Pairs
  BY Zenon DEF Whole
<1>2. m \in Nat /\ m >= 1 /\ m <= MaxEntries + 1 /\ MaxEntries \in Nat
  BY ExportAssumption
<1> DEFINE T == {i \in 2 .. Len(d) : EndsEntries(d[i])}
<1>3. T \subseteq Nat /\ T # {}
  <2>1. m + 1 \in 2 .. Len(d)
    BY <1>1, <1>2
  <2>2. m + 1 \in T
    BY <1>1, <2>1, Zenon DEF EndsEntries
  <2> QED
    BY <2>2
<1>4. Min(T) \in T /\ \A j \in T : Min(T) <= j
  <2> HIDE DEF T
  <2> QED
    BY <1>3, MinIs, Zenon
<1>5. PICK s : s = Stop(d)
  OBVIOUS
<1>6. s \in T /\ \A j \in T : s <= j
  BY <1>4, <1>5, Zenon DEF Stop
<1>7. s \in Nat /\ s \in 2 .. Len(d) /\ EndsEntries(d[s]) /\ s <= m + 1
  BY <1>1, <1>2, <1>6
<1>8. ASSUME NEW i \in 2 .. (s - 1)
      PROVE  d[i] \in Pairs /\ ~EndsEntries(d[i])
  <2>1. i \in 2 .. m /\ i \in 2 .. Len(d) /\ ~(s <= i)
    BY <1>1, <1>2, <1>7
  <2> QED
    BY <1>1, <1>6, <2>1, Zenon
<1> QED
  BY <1>1, <1>2, <1>5, <1>7, <1>8

\* b is the n entries of d from pos on; less than a batch only if the reader stops.
Taking(d, pos, b, n) ==
  /\ Len(b) = n /\ DOMAIN b = 1 .. n /\ pos + n <= Stop(d)
  /\ n < ImportBatch => pos + n = Stop(d)
  /\ \A k \in 1 .. n : b[k] = d[pos + k - 1] /\ b[k] \in Pairs

\* What one call of import_step takes of a dump.
LEMMA BatchIs ==
  ASSUME NEW d, Whole(d), NEW pos \in 2 .. Stop(d)
  PROVE  \E n \in 0 .. ImportBatch : Taking(d, pos, BatchAt(d, pos), n)
<1>1. PICK s : s = Stop(d)
  OBVIOUS
<1>2. /\ Len(d) \in Nat /\ s \in 2 .. Len(d) /\ EndsEntries(d[s])
      /\ \A i \in 2 .. (s - 1) : d[i] \in Pairs /\ ~EndsEntries(d[i])
  BY <1>1, StopIs, Zenon
<1>3. s \in Nat /\ s >= 2 /\ pos \in Nat /\ pos >= 2 /\ pos <= s
  BY <1>1, <1>2
<1>4. ImportBatch \in Nat /\ ImportBatch > 0
  BY ImportAssumption
<1> DEFINE U == {i \in pos .. Len(d) : EndsEntries(d[i])}
<1>5. Min(U) = s
  <2>1. s \in U
    BY <1>2, <1>3
  <2>2. U \subseteq Nat
    BY <1>2, <1>3
  <2>3. \A i \in U : s <= i
    <3>1. ASSUME NEW i \in U, i < s PROVE FALSE
      <4>1. i \in 2 .. (s - 1) /\ EndsEntries(d[i])
        BY <1>2, <1>3, <3>1
      <4> QED
        BY <1>2, <4>1, Zenon
    <3> HIDE DEF U
    <3> QED
      BY <1>3, <2>2, <3>1
  <2> HIDE DEF U
  <2>4. Min(U) \in U /\ \A i \in U : Min(U) <= i
    BY <2>1, <2>2, MinIs, Zenon
  <2>5. PICK m : m = Min(U)
    OBVIOUS
  <2>6. m \in Nat /\ m <= s /\ s <= m
    BY <2>1, <2>2, <2>3, <2>4, <2>5, Zenon
  <2> QED
    BY <1>3, <2>5, <2>6
<1>6. PICK h \in Nat : /\ h = Min({s - 1, pos + ImportBatch - 1})
                       /\ h <= s - 1 /\ h <= pos + ImportBatch - 1
                       /\ h = s - 1 \/ h = pos + ImportBatch - 1
  <2>1. s - 1 \in Nat /\ pos + ImportBatch - 1 \in Nat
    BY <1>3, <1>4
  <2> QED
    BY <2>1, MinOfTwo, ZenonT(60)
<1>7. PICK b : b = BatchAt(d, pos)
  OBVIOUS
<1>8. b = SubSeq(d, pos, h)
  BY <1>5, <1>6, <1>7, Zenon DEF BatchAt
<1>9. \A i \in pos .. h : d[i] \in Pairs
  BY <1>2, <1>3, <1>6
<1>10. PICK n \in Nat : n = h - pos + 1
  BY <1>3, <1>4, <1>6
<1>11. /\ b \in Seq(Pairs) /\ Len(b) = n
       /\ \A k \in 1 .. n : b[k] = d[pos + k - 1]
  <2>1. /\ b \in Seq(Pairs)
        /\ Len(b) = IF pos <= h THEN h - pos + 1 ELSE 0
        /\ \A k \in 1 .. (h - pos + 1) : b[k] = d[pos + k - 1]
    <3>1. PICK S : S = Pairs
      OBVIOUS
    <3>2. pos \in Int /\ h \in Int
      BY <1>3
    <3>3. \A i \in pos .. h : d[i] \in S
      BY <1>9, <3>1, Zenon
    <3> QED
      BY <1>8, <3>1, <3>2, <3>3, SubSeqProperties
  <2>2. n = IF pos <= h THEN h - pos + 1 ELSE 0
    BY <1>3, <1>10
  <2>3. \A k \in 1 .. n : b[k] = d[pos + k - 1]
    BY <1>10, <2>1, Zenon
  <2> QED
    BY <2>1, <2>2, <2>3, Zenon
<1>12. DOMAIN b = 1 .. n /\ \A k \in 1 .. n : b[k] \in Pairs
  BY <1>11
<1>13. n \in 0 .. ImportBatch /\ pos + n <= s /\ (n < ImportBatch => pos + n = s)
  BY <1>3, <1>4, <1>6, <1>10
<1> QED
  BY <1>1, <1>7, <1>11, <1>12, <1>13, Zenon DEF Taking

\* What the parser finds in a dump: the pairs before the place where it stops.
LEMMA ParsedIs ==
  ASSUME NEW d, Whole(d)
  PROVE  /\ DOMAIN Parsed(d) = 1 .. (Stop(d) - 2)
         /\ \A i \in 1 .. (Stop(d) - 2) : Parsed(d)[i] = d[i + 1]
<1>1. PICK s \in Nat : s = Stop(d) /\ s >= 2 /\ \A i \in 2 .. (s - 1) : d[i] \in Pairs
  <2>1. PICK s : s = Stop(d)
    OBVIOUS
  <2>2. Len(d) \in Nat /\ s \in 2 .. Len(d) /\ \A i \in 2 .. (s - 1) : d[i] \in Pairs
    BY <2>1, StopIs, Zenon
  <2> QED
    BY <2>1, <2>2
<1>2. PICK q : q = Parsed(d)
  OBVIOUS
<1>3. q = SubSeq(d, 2, s - 1)
  BY <1>1, <1>2, Zenon DEF Parsed, Stop
<1>4. /\ q \in Seq(Pairs)
      /\ Len(q) = IF 2 <= s - 1 THEN (s - 1) - 2 + 1 ELSE 0
      /\ \A i \in 1 .. ((s - 1) - 2 + 1) : q[i] = d[2 + i - 1]
  <2>1. PICK S, h : S = Pairs /\ h = s - 1
    OBVIOUS
  <2>2. 2 \in Int /\ h \in Int /\ \A i \in 2 .. h : d[i] \in S
    BY <1>1, <2>1
  <2>3. /\ q \in Seq(S)
        /\ Len(q) = IF 2 <= h THEN h - 2 + 1 ELSE 0
        /\ \A i \in 1 .. (h - 2 + 1) : q[i] = d[2 + i - 1]
    BY <1>3, <2>1, <2>2, SubSeqProperties
  <2> QED
    BY <2>1, <2>3
<1>5. DOMAIN q = 1 .. (s - 2) /\ \A i \in 1 .. (s - 2) : q[i] = d[i + 1]
  BY <1>1, <1>4
<1> QED
  BY <1>1, <1>2, <1>5, Zenon
-----------------------------------------------------------------------------
(* The inductive invariant of an import. *)

\* The dump being loaded, how many of its entries have been taken, and the slot
\* of the first one.
Source == exports[imp.type].dump
Loaded == IF imp = None THEN 0 ELSE imp.pos - 2
First == r_bump - Loaded

\* Only finished dumps are loaded, each once and up to where the reader stops.
LoadInv ==
  /\ imported \subseteq DOMAIN exports
  /\ imported # {} \/ imp # None => Ended
  /\ imp # None => /\ imp \in ImportContexts /\ imp.type \in DOMAIN exports \ imported
                   /\ imp.pos \in 2 .. Stop(Source)
                   /\ imp.done => imp.pos = Stop(Source)

\* The slots taken are those of the entries loaded: there is room for two dumps.
RoomInv ==
  /\ r_bump \in Nat /\ r_bump <= 2 * MaxEntries /\ Loaded <= r_bump
  /\ imported = {} => r_bump <= Loaded
  /\ \A t \in imported : imported = {t} => r_bump <= MaxEntries + Loaded

\* Keys are in the key file below the allocation mark only.
KeysInv ==
  /\ r_keys \in [Slots -> Feats \cup {NoFeat}]
  /\ \A s \in Slots : s >= r_bump => r_keys[s] = NoFeat
  /\ DOMAIN r_index = Feats
  /\ ReplicaReopens

\* The entries of the dump being loaded that are of a feature.
LoadedAt(f) == IF imp = None THEN {} ELSE {i \in 2 .. (imp.pos - 1) : Source[i].feat = f}

\* The slot of a feature is that of its last entry taken, or one of an earlier
\* dump, with the embedding that dump gives it.
SlotsInv ==
  /\ promised \in [Feats -> Entries \cup {None}]
  /\ \A f \in Feats :
       /\ LoadedAt(f) # {} => r_index[f] = First + (Max(LoadedAt(f)) - 2)
       /\ LoadedAt(f) = {} /\ promised[f] = None => r_index[f] = None
       /\ LoadedAt(f) = {} /\ promised[f] # None =>
            r_index[f] \in 0 .. (First - 1) /\ r_data[r_index[f]] = promised[f]

\* The embedding of an entry taken is in its slot, or on its way there in a
\* buffer that still holds it.
WritesInv ==
  /\ r_data \in [Slots -> Entries \cup {None}]
  /\ imp # None =>
       /\ \A i \in 2 .. (imp.pos - 1) :
            \/ r_data[First + (i - 2)] = Source[i].emb
            \/ \E w \in imp.flight : w.slot = First + (i - 2)
       /\ \A w \in imp.flight :
            /\ w.slot \in First .. (r_bump - 1)
            /\ imp.pool[w.buf] = Source[(w.slot - First) + 2].emb

ImportInv == LoadInv /\ RoomInv /\ KeysInv /\ SlotsInv /\ WritesInv

\* Once the trailers are written nothing changes the dumps any more.
LEMMA EndedStops ==
  ASSUME ExportInv, Ended
  PROVE  ~ExportNext
<1>1. exports # NoExport
  BY Zenon DEF Ended
<1>2. \A t \in DOMAIN exports : Finished(exports[t])
  <2>1. ContextsInv
    BY Zenon DEF ExportInv
  <2>2. PICK t : t \in DOMAIN exports
    BY <1>1, <2>1 DEF ContextsInv
  <2>3. ~Sound(exports[t])
    <3> SUFFICES ASSUME Sound(exports[t]) PROVE FALSE
      BY Zenon
    <3>1. PICK u : u = exports[t].dump
      OBVIOUS
    <3>2. u \in Seq(Pairs \cup {Header})
      BY <3>1, Zenon DEF Sound, Written
    <3>3. Trailer \notin Pairs /\ Trailer # Header
      BY ExportAssumption DEF Pairs, Entries
    <3>4. Trailer \notin Range(u)
      BY <3>2, <3>3 DEF Range
    <3> QED
      BY <2>2, <3>1, <3>4, Zenon DEF Ended
  <2> QED
    BY <1>1, <2>1, <2>2, <2>3, Zenon DEF ContextsInv
<1>3. \A t \in DOMAIN exports : ScanOver(exports[t]) /\ ~exports[t].reading
  BY <1>2, FinishedIs, Zenon
<1> QED
  BY <1>1, <1>3, Zenon DEF ExportNext, LatePut, FlushKeys, ExportBegin, ExportStep, ExportEnd, ReadArrives

\* The invariant at the start.
LEMMA InitImport ==
  ASSUME ImportInit
  PROVE  ImportInv
<1>1. /\ imported = {} /\ imp = None /\ r_bump = 0 /\ exports = NoExport
      /\ r_index = [f \in Feats |-> None] /\ promised = [f \in Feats |-> None]
      /\ r_keys = [s \in Slots |-> NoFeat] /\ r_data = [s \in Slots |-> None]
  BY DEF ImportInit, Init
<1>2. MaxEntries \in Nat /\ NoFeat \notin Feats
  BY ExportAssumption
<1>3. LoadInv
  BY <1>1, Zenon DEF LoadInv
<1>4. RoomInv
  BY <1>1, <1>2 DEF RoomInv, Loaded
<1>5. KeysInv
  <2>1. ReplicaReopens
    <3>1. \A f \in Feats : {s \in Slots : r_keys[s] = f} = {} /\ r_index[f] = None
      BY <1>1, <1>2
    <3> QED
      BY <3>1, Zenon DEF ReplicaReopens
  <2> QED
    BY <1>1, <2>1 DEF KeysInv
<1>6. SlotsInv
  BY <1>1 DEF SlotsInv, LoadedAt
<1>7. WritesInv
  BY <1>1 DEF WritesInv
<1> QED
  BY <1>3, <1>4, <1>5, <1>6, <1>7, Zenon DEF ImportInv

\* While the export goes on nothing has been loaded.
LEMMA ExportImport ==
  ASSUME ExportInv, ImportInv, ExportNext, UNCHANGED importVars
  PROVE  ImportInv'
<1>1. imported = {} /\ imp = None
  BY EndedStops, Zenon DEF ImportInv, LoadInv
<1>2. /\ imported' = imported /\ imp' = imp /\ r_index' = r_index /\ r_bump' = r_bump
      /\ r_keys' = r_keys /\ r_data' = r_data /\ promised' = promised
  BY DEF importVars, replicaVars
<1>3. Loaded' = Loaded /\ First' = First
  BY <1>2, Zenon DEF Loaded, First
<1>4. \A f : LoadedAt(f) = {} /\ LoadedAt(f)' = {}
  BY <1>1, <1>2, Zenon DEF LoadedAt
<1>5. LoadInv'
  BY <1>1, <1>2, Zenon DEF LoadInv
<1>6. RoomInv'
  BY <1>2, <1>3, Zenon DEF ImportInv, RoomInv
<1>7. KeysInv'
  BY <1>2, Zenon DEF ImportInv, KeysInv, ReplicaReopens
<1>8. SlotsInv'
  BY <1>2, <1>3, <1>4, Zenon DEF ImportInv, SlotsInv
<1>9. WritesInv'
  BY <1>1, <1>2, Zenon DEF ImportInv, WritesInv
<1> QED
  BY <1>5, <1>6, <1>7, <1>8, <1>9, Zenon DEF ImportInv

\* Where an import is: it has taken the entries before p of a dump that is read
\* up to s, into the slots from c on, and there is room for the others.
At(s, p, c) ==
  /\ Ended /\ Whole(Source) /\ s = Stop(Source) /\ p = imp.pos /\ c = First
  /\ 2 <= p /\ p <= s /\ s <= MaxEntries + 2
  /\ r_bump = c + (p - 2) /\ c + (s - 2) <= 2 * MaxEntries
  /\ imported = {} => c = 0
  /\ \A i \in 2 .. (s - 1) : Source[i] \in Pairs

\* While a dump is loaded, that is where the import is.
LEMMA LoadingIs ==
  ASSUME ExportInv, ImportInv, imp # None
  PROVE  \E s, p, c \in Nat : At(s, p, c)
<1>1. /\ Ended /\ imported \subseteq DOMAIN exports /\ imp \in ImportContexts
      /\ imp.type \in DOMAIN exports \ imported /\ imp.pos \in 2 .. Stop(Source)
  BY Zenon DEF ImportInv, LoadInv
<1>2. Whole(Source)
  BY <1>1, DumpWhole, Zenon DEF Source
<1>3. PICK s : s = Stop(Source)
  OBVIOUS
<1>4. /\ Len(Source) \in Nat /\ s \in 2 .. Len(Source) /\ s <= MaxEntries + 2
      /\ \A i \in 2 .. (s - 1) : Source[i] \in Pairs
  BY <1>2, <1>3, StopIs, Zenon
<1>5. s \in Nat /\ s <= MaxEntries + 2 /\ MaxEntries \in Nat
  BY <1>4, ExportAssumption
<1>6. PICK p \in Nat : p = imp.pos /\ 2 <= p /\ p <= s
  BY <1>1, <1>3, <1>5
<1>7. Loaded = p - 2
  BY <1>6, Zenon DEF Loaded
<1>8. PICK r \in Nat : /\ r = r_bump /\ p - 2 <= r
                       /\ imported = {} => r <= p - 2
                       /\ \A t \in imported : imported = {t} => r <= MaxEntries + (p - 2)
  BY <1>7, Zenon DEF ImportInv, RoomInv
<1>9. PICK c \in Nat : c = First /\ r = c + (p - 2) /\ c = r - (p - 2)
  <2>1. r - (p - 2) \in Nat /\ r = (r - (p - 2)) + (p - 2)
    BY <1>6, <1>8
  <2>2. First = r - (p - 2)
    BY <1>7, <1>8, Zenon DEF First
  <2> QED
    BY <2>1, <2>2, Zenon
<1>10. imported = {} \/ \E t \in imported : imported = {t}
  <2>1. DOMAIN exports \subseteq {"FULL", "DELTA"}
    <3>1. exports # NoExport
      BY <1>1, Zenon DEF Ended
    <3> QED
      BY <3>1 DEF ExportInv, ContextsInv
  <2>2. imported \subseteq {"FULL", "DELTA"} \ {imp.type} /\ imp.type \in {"FULL", "DELTA"}
    BY <1>1, <2>1, Zenon
  <2> QED
    BY <2>2, Zenon
<1>11. (imported = {} => c = 0) /\ c <= MaxEntries
  <2>1. imported = {} => c = 0
    <3>1. imported = {} => r <= p - 2
      BY <1>8, Zenon
    <3> QED
      BY <1>6, <1>9, <3>1
  <2>2. ASSUME NEW t \in imported, imported = {t} PROVE c <= MaxEntries
    <3>1. r <= MaxEntries + (p - 2)
      BY <1>8, <2>2, Zenon
    <3> QED
      BY <1>5, <1>6, <1>9, <3>1
  <2>3. c = 0 => c <= MaxEntries
    BY <1>5
  <2> QED
    BY <1>10, <2>1, <2>2, <2>3, Zenon
<1>12. c + (s - 2) <= 2 * MaxEntries
  BY <1>5, <1>9, <1>11
<1> QED
  BY <1>1, <1>2, <1>3, <1>4, <1>5, <1>6, <1>8, <1>9, <1>11, <1>12, Zenon DEF At
-----------------------------------------------------------------------------
(* The steps of an import. *)

\* A dump is opened.
LEMMA BeginImport ==
  ASSUME ExportInv, ImportInv, NEW t \in {"FULL", "DELTA"}, ImportBegin(t)
  PROVE  ImportInv'
<1>1. /\ Ended /\ imp = None /\ t \in DOMAIN exports \ imported
      /\ imp' = [type |-> t, pos |-> 2, done |-> FALSE,
                 pool |-> [i \in 1 .. ImportBatch |-> None], flight |-> {}]
      /\ exports' = exports /\ imported' = imported /\ r_index' = r_index /\ r_bump' = r_bump
      /\ r_keys' = r_keys /\ r_data' = r_data /\ promised' = promised
  BY DEF ImportBegin, vars, replicaVars
<1>2. imp' \in ImportContexts
  BY <1>1 DEF ImportContexts
<1>3. imp' # None
  BY <1>2, ImportAssumption, Zenon
<1>4. imp'.type = t /\ imp'.pos = 2 /\ imp'.done = FALSE /\ imp'.flight = {}
  BY <1>1
<1>5. Loaded = 0 /\ Loaded' = 0 /\ First' = First
  <2>1. Loaded = 0 /\ Loaded' = 2 - 2
    BY <1>1, <1>3, <1>4, Zenon DEF Loaded
  <2>2. 2 - 2 = 0
    OBVIOUS
  <2> QED
    BY <1>1, <2>1, <2>2, Zenon DEF First
<1>6. \A f : LoadedAt(f) = {} /\ LoadedAt(f)' = {}
  <2>1. 2 .. (2 - 1) = {}
    OBVIOUS
  <2> QED
    BY <1>1, <1>3, <1>4, <2>1, Zenon DEF LoadedAt
<1>7. LoadInv'
  <2>1. Source' = exports[t].dump
    BY <1>1, <1>4, Zenon DEF Source
  <2>2. Stop(Source)' = Stop(exports[t].dump)
    BY <2>1, Zenon DEF Stop, EndsEntries
  <2>3. 2 \in 2 .. Stop(exports[t].dump)
    <3>1. Len(exports[t].dump) \in Nat /\ Stop(exports[t].dump) \in 2 .. Len(exports[t].dump)
      BY <1>1, DumpWhole, StopIs, Zenon
    <3>2. PICK s, l : s = Stop(exports[t].dump) /\ l = Len(exports[t].dump)
      BY Zenon
    <3>3. l \in Nat /\ s \in 2 .. l => 2 \in 2 .. s
      OBVIOUS
    <3> QED
      BY <3>1, <3>2, <3>3, Zenon
  <2>4. Ended'
    BY <1>1, Zenon DEF Ended
  <2>5. imported \subseteq DOMAIN exports
    BY Zenon DEF ImportInv, LoadInv
  <2> QED
    BY <1>1, <1>2, <1>4, <2>2, <2>3, <2>4, <2>5, Zenon DEF LoadInv
<1>8. RoomInv'
  BY <1>1, <1>5, Zenon DEF ImportInv, RoomInv
<1>9. KeysInv'
  BY <1>1, Zenon DEF ImportInv, KeysInv, ReplicaReopens
<1>10. SlotsInv'
  BY <1>1, <1>5, <1>6, Zenon DEF ImportInv, SlotsInv
<1>11. WritesInv'
  <2>1. 2 .. (2 - 1) = {}
    OBVIOUS
  <2> QED
    BY <1>1, <1>4, <2>1, Zenon DEF ImportInv, WritesInv
<1> QED
  BY <1>7, <1>8, <1>9, <1>10, <1>11, Zenon DEF ImportInv

\* What import_step makes of the context, and of the replica, when it takes n
\* entries at p with r slots in use.
Takes(r, p, b, n) ==
  /\ imp' \in ImportContexts /\ imp' # None
  /\ imp'.type = imp.type /\ imp'.pos = p + n /\ imp'.done = (n < ImportBatch)
  /\ \A k \in 1 .. n : imp'.pool[k] = b[k].emb
  /\ \A w : w \in imp'.flight <=> \E k \in 1 .. n : w = [slot |-> r + k - 1, buf |-> k]
  /\ exports' = exports /\ imported' = imported /\ r_bump' = r + n
  /\ r_data' = r_data /\ promised' = promised
  /\ r_index' = Indexed(b)
  /\ r_keys' = [s \in Slots |-> IF s \in r .. (r + n - 1) THEN b[s - r + 1].feat ELSE r_keys[s]]

\* import_step takes the next entries, and has a buffer and a slot for each.
LEMMA StepTakes ==
  ASSUME ExportInv, ImportInv, ImportStep
  PROVE  \E s, p, c, r, n \in Nat : \E b :
           /\ At(s, p, c) /\ r = r_bump /\ r = c + (p - 2)
           /\ Taking(Source, p, b, n) /\ n <= ImportBatch /\ imp.flight = {}
           /\ Takes(r, p, b, n)
<1>1. imp # None /\ imp.flight = {} /\ TakeBatch(BatchAt(Source, imp.pos))
  BY Zenon DEF ImportStep, Source
<1>2. PICK s, p, c \in Nat : At(s, p, c)
  BY <1>1, LoadingIs, Zenon
<1>3. /\ Whole(Source) /\ s = Stop(Source) /\ p = imp.pos /\ 2 <= p /\ p <= s
      /\ r_bump = c + (p - 2) /\ c + (s - 2) <= 2 * MaxEntries
      /\ \A i \in 2 .. (s - 1) : Source[i] \in Pairs
  BY <1>2, Zenon DEF At
<1>4. PICK r \in Nat : r = r_bump /\ r = c + (p - 2)
  <2>1. c + (p - 2) \in Nat
    BY <1>3
  <2> QED
    BY <1>3, <2>1, Zenon
<1>5. PICK n \in 0 .. ImportBatch : Taking(Source, p, BatchAt(Source, p), n)
  <2>1. p \in 2 .. s
    BY <1>3
  <2> QED
    BY <1>3, <2>1, BatchIs, Zenon
<1>6. PICK b : b = BatchAt(Source, p)
  OBVIOUS
<1>7. ImportBatch \in Nat /\ n \in Nat /\ n <= ImportBatch /\ MaxEntries \in Nat
  BY ImportAssumption, ExportAssumption
<1>8. /\ Len(b) = n /\ DOMAIN b = 1 .. n /\ p + n <= s
      /\ \A k \in 1 .. n : b[k] \in Pairs
  BY <1>3, <1>5, <1>6, Zenon DEF Taking
<1>9. imp \in ImportContexts
  BY <1>1, Zenon DEF ImportInv, LoadInv
<1> DEFINE W == {[slot |-> r + i - 1, buf |-> i] : i \in 1 .. n}
           P == [i \in DOMAIN imp.pool |-> IF i <= n THEN b[i].emb ELSE imp.pool[i]]
<1>10. /\ imp' = [imp EXCEPT !.pos = imp.pos + n, !.done = n < ImportBatch,
                             !.pool = P, !.flight = imp.flight \cup W]
       /\ exports' = exports /\ imported' = imported /\ r_bump' = r + n
       /\ r_data' = r_data /\ promised' = promised
       /\ r_index' = Indexed(b)
       /\ r_keys' = [i \in Slots |-> IF i \in r .. (r + n - 1) THEN b[i - r + 1].feat ELSE r_keys[i]]
  BY <1>1, <1>3, <1>4, <1>6, <1>8 DEF TakeBatch, vars
<1>11. P \in [1 .. ImportBatch -> Entries \cup {None}] /\ \A k \in 1 .. n : P[k] = b[k].emb
  <2>1. imp.pool \in [1 .. ImportBatch -> Entries \cup {None}]
    BY <1>9 DEF ImportContexts
  <2>2. \A k \in 1 .. n : b[k].emb \in Entries
    BY <1>8 DEF Pairs
  <2>3. \A k \in 1 .. ImportBatch : k <= n => k \in 1 .. n
    BY <1>7
  <2>4. \A k \in 1 .. n : k \in 1 .. ImportBatch /\ k <= n
    BY <1>7
  <2>5. DOMAIN imp.pool = 1 .. ImportBatch /\ \A k \in 1 .. ImportBatch : imp.pool[k] \in Entries \cup {None}
    BY <2>1, Zenon
  <2> QED
    BY <2>2, <2>3, <2>4, <2>5
<1>12. imp.flight \cup W \in SUBSET [slot : Slots, buf : 1 .. ImportBatch]
  <2>1. ASSUME NEW k \in 1 .. n
        PROVE  r + k - 1 \in Slots /\ k \in 1 .. ImportBatch
    <3>1. r = c + (p - 2) /\ p + n <= s /\ c + (s - 2) <= 2 * MaxEntries
      BY <1>3, <1>4, <1>8, Zenon
    <3>2. k \in Nat /\ 1 <= k /\ k <= n
      BY <1>7
    <3>3. r + k - 1 \in Nat /\ r + k - 1 <= 2 * MaxEntries - 1 /\ k <= ImportBatch
      BY <1>7, <3>1, <3>2
    <3> QED
      BY <1>7, <3>2, <3>3 DEF Slots
  <2> QED
    BY <1>1, <2>1
<1>13. p + n \in Nat /\ (n < ImportBatch) \in BOOLEAN
  BY <1>7
<1>14. /\ imp' \in ImportContexts
       /\ imp'.type = imp.type /\ imp'.pos = p + n /\ imp'.done = (n < ImportBatch)
       /\ imp'.pool = P /\ imp'.flight = imp.flight \cup W
  <2> HIDE DEF P, W
  <2>1. PICK q, d, y, z : q = p + n /\ d = (n < ImportBatch) /\ y = P /\ z = imp.flight \cup W
    BY Zenon
  <2>2. imp' = [imp EXCEPT !.pos = q, !.done = d, !.pool = y, !.flight = z]
    BY <1>3, <1>10, <2>1, Zenon
  <2>3. /\ q \in Nat /\ d \in BOOLEAN /\ y \in [1 .. ImportBatch -> Entries \cup {None}]
        /\ z \in SUBSET [slot : Slots, buf : 1 .. ImportBatch]
    BY <1>11, <1>12, <1>13, <2>1, Zenon
  <2>4. /\ imp' \in ImportContexts
        /\ imp'.type = imp.type /\ imp'.pos = q /\ imp'.done = d
        /\ imp'.pool = y /\ imp'.flight = z
    BY <1>9, <2>2, <2>3, Zenon DEF ImportContexts
  <2> QED
    BY <2>1, <2>4, Zenon
<1>15. imp' # None
  BY <1>14, ImportAssumption, Zenon
<1>16. \A w : w \in imp'.flight <=> \E k \in 1 .. n : w = [slot |-> r + k - 1, buf |-> k]
  BY <1>1, <1>14, Zenon
<1>17. \A k \in 1 .. n : imp'.pool[k] = b[k].emb
  BY <1>11, <1>14, Zenon
<1>18. Takes(r, p, b, n)
  <2> HIDE DEF P, W
  <2> QED
    BY <1>10, <1>14, <1>15, <1>16, <1>17, Zenon DEF Takes
<1> QED
  BY <1>1, <1>2, <1>4, <1>5, <1>6, <1>7, <1>18, Zenon

\* The places of a feature in a batch of n entries.
PlacesIn(b, n, f) == {k \in 1 .. n : b[k].feat = f}

\* The last place of a feature in a batch.
LEMMA LastPlace ==
  ASSUME NEW n \in Nat, NEW b, NEW f, PlacesIn(b, n, f) # {}
  PROVE  \E m \in 1 .. n : /\ m = Max(PlacesIn(b, n, f)) /\ b[m].feat = f
                           /\ \A k \in 1 .. n : b[k].feat = f => k <= m
<1>1. PlacesIn(b, n, f) \subseteq Nat /\ \A k \in PlacesIn(b, n, f) : k <= n
  BY DEF PlacesIn
<1>2. PICK m : m = Max(PlacesIn(b, n, f))
  OBVIOUS
<1>3. m \in PlacesIn(b, n, f) /\ \A k \in PlacesIn(b, n, f) : k <= m
  BY <1>1, <1>2, MaxIs, Zenon
<1> QED
  BY <1>2, <1>3, Zenon DEF PlacesIn

\* What the index is after a batch.
LEMMA IndexedIs ==
  ASSUME NEW n \in Nat, NEW b, DOMAIN b = 1 .. n
  PROVE  /\ DOMAIN Indexed(b) = Feats
         /\ \A f \in Feats : Indexed(b)[f] = IF PlacesIn(b, n, f) = {} THEN r_index[f]
                                             ELSE r_bump + Max(PlacesIn(b, n, f)) - 1
BY Zenon DEF Indexed, PlacesIn

\* Keys and index agree after a batch.
LEMMA StepKeys ==
  ASSUME KeysInv, NEW r \in Nat, NEW n \in Nat, NEW p, NEW b, r = r_bump, r + n <= 2 * MaxEntries,
         DOMAIN b = 1 .. n, \A k \in 1 .. n : b[k] \in Pairs, Takes(r, p, b, n)
  PROVE  KeysInv'
<1>1. MaxEntries \in Nat /\ NoFeat \notin Feats
  BY ExportAssumption
<1>2. /\ r_keys \in [Slots -> Feats \cup {NoFeat}]
      /\ \A s \in Slots : s >= r => r_keys[s] = NoFeat
  BY Zenon DEF KeysInv
<1>3. /\ r_bump' = r + n
      /\ r_keys' = [s \in Slots |-> IF s \in r .. (r + n - 1) THEN b[s - r + 1].feat ELSE r_keys[s]]
      /\ r_index' = Indexed(b)
  BY Zenon DEF Takes
<1>4. \A k \in 1 .. n : b[k].feat \in Feats
  BY DEF Pairs
<1>5. ASSUME NEW s \in Slots
      PROVE  /\ s \in r .. (r + n - 1) => s - r + 1 \in 1 .. n /\ r_keys'[s] = b[s - r + 1].feat
             /\ s \notin r .. (r + n - 1) => r_keys'[s] = r_keys[s]
             /\ s >= r + n => s \notin r .. (r + n - 1) /\ s >= r
             /\ s \in Nat /\ (s < r \/ s \in r .. (r + n - 1) \/ s >= r + n)
  <2>1. s \in Nat
    BY <1>1 DEF Slots
  <2>2. r_keys'[s] = IF s \in r .. (r + n - 1) THEN b[s - r + 1].feat ELSE r_keys[s]
    BY <1>3, Zenon
  <2>3. s \in r .. (r + n - 1) => s - r + 1 \in 1 .. n
    BY <2>1
  <2>4. s >= r + n => s \notin r .. (r + n - 1) /\ s >= r
    BY <2>1
  <2>5. s < r \/ s \in r .. (r + n - 1) \/ s >= r + n
    BY <2>1
  <2> QED
    BY <2>1, <2>2, <2>3, <2>4, <2>5, Zenon
<1>6. \A s \in Slots : s >= r_bump' => r_keys'[s] = NoFeat
  BY <1>2, <1>3, <1>5, Zenon
<1>7. r_keys' \in [Slots -> Feats \cup {NoFeat}]
  <2>1. \A s \in Slots : r_keys'[s] \in Feats \cup {NoFeat}
    <3>1. \A s \in Slots : r_keys[s] \in Feats \cup {NoFeat}
      BY <1>2, Zenon
    <3> QED
      BY <1>4, <1>5, <3>1, Zenon
  <2>2. r_keys' = [s \in Slots |-> r_keys'[s]]
    BY <1>3, Zenon
  <2> QED
    BY <2>1, <2>2, Zenon
<1>8. ASSUME NEW f \in Feats
      PROVE  IF {s \in Slots : r_keys'[s] = f} = {} THEN r_index'[f] = None
             ELSE r_index'[f] = Max({s \in Slots : r_keys'[s] = f})
  <2> DEFINE N == {s \in Slots : r_keys[s] = f}
             M == {s \in Slots : r_keys'[s] = f}
  <2>1. IF N = {} THEN r_index[f] = None ELSE r_index[f] = Max(N)
    BY Zenon DEF KeysInv, ReplicaReopens
  <2>2. r_index'[f] = IF PlacesIn(b, n, f) = {} THEN r_index[f] ELSE r + Max(PlacesIn(b, n, f)) - 1
    BY <1>3, IndexedIs, Zenon
  <2>3. CASE PlacesIn(b, n, f) = {}
    <3>1. \A k \in 1 .. n : b[k].feat # f
      BY <2>3, Zenon DEF PlacesIn
    <3>2. \A s \in Slots : r_keys'[s] = f <=> r_keys[s] = f
      <4>1. ASSUME NEW s \in Slots, s \in r .. (r + n - 1)
            PROVE  r_keys'[s] # f /\ r_keys[s] # f
        <5>1. s >= r
          BY <4>1
        <5> QED
          BY <1>1, <1>2, <1>5, <3>1, <4>1, <5>1, Zenon
      <4> QED
        BY <1>5, <4>1, Zenon
    <3>3. M = N
      BY <3>2, Zenon
    <3> HIDE DEF M, N
    <3>4. IF M = {} THEN r_index'[f] = None ELSE r_index'[f] = Max(M)
      BY <2>1, <2>2, <2>3, <3>3, Zenon
    <3> QED
      BY <3>4, Zenon DEF M
  <2>4. CASE PlacesIn(b, n, f) # {}
    <3>1. PICK m \in 1 .. n : /\ m = Max(PlacesIn(b, n, f)) /\ b[m].feat = f
                              /\ \A k \in 1 .. n : b[k].feat = f => k <= m
      BY <2>4, LastPlace, Zenon
    <3>2. PICK x : x = r + m - 1
      OBVIOUS
    <3>3. x \in Slots /\ x \in r .. (r + n - 1) /\ x - r + 1 = m
      BY <1>1, <3>2 DEF Slots
    <3>4. x \in M
      BY <1>5, <3>1, <3>3, Zenon
    <3>5. ASSUME NEW s \in M PROVE s <= x
      <4>1. s \in Nat /\ (s < r \/ s \in r .. (r + n - 1) \/ s >= r + n)
        BY <1>5, <3>5, Zenon
      <4>2. CASE s < r
        BY <3>2, <4>1, <4>2
      <4>3. CASE s \in r .. (r + n - 1)
        <5>1. s - r + 1 <= m
          BY <1>5, <3>1, <3>5, <4>3, Zenon
        <5> QED
          BY <3>2, <4>1, <5>1
      <4>4. CASE s >= r + n
        BY <1>1, <1>3, <1>6, <3>5, <4>4, Zenon
      <4> QED
        BY <4>1, <4>2, <4>3, <4>4, Zenon
    <3>6. M \subseteq Nat
      BY <1>1 DEF Slots
    <3> HIDE DEF M
    <3>7. Max(M) = x
      BY <3>4, <3>5, <3>6, MaxUnique, Zenon
    <3>8. M # {} /\ r_index'[f] = Max(M)
      BY <2>2, <2>4, <3>1, <3>2, <3>4, <3>7, Zenon
    <3> QED
      BY <3>8, Zenon DEF M
  <2> QED
    BY <2>3, <2>4, Zenon
<1>9. DOMAIN r_index' = Feats
  BY <1>3, IndexedIs, Zenon
<1> QED
  BY <1>6, <1>7, <1>8, <1>9, Zenon DEF KeysInv, ReplicaReopens

\* import_step: the entries taken get the slots from the allocation mark on, and
\* their embeddings are under way.
LEMMA StepImport ==
  ASSUME ExportInv, ImportInv, ImportStep
  PROVE  ImportInv'
<1>1. PICK s, p, c, r, n \in Nat : \E b :
           /\ At(s, p, c) /\ r = r_bump /\ r = c + (p - 2)
           /\ Taking(Source, p, b, n) /\ n <= ImportBatch /\ imp.flight = {}
           /\ Takes(r, p, b, n)
  BY StepTakes, Zenon
<1>2. PICK b : /\ At(s, p, c) /\ r = r_bump /\ r = c + (p - 2)
               /\ Taking(Source, p, b, n) /\ n <= ImportBatch /\ imp.flight = {}
               /\ Takes(r, p, b, n)
  BY <1>1, Zenon
<1>3. PICK d : d = Source
  OBVIOUS
<1>4. /\ Ended /\ s = Stop(Source) /\ p = imp.pos /\ c = First /\ 2 <= p /\ p <= s
      /\ c + (s - 2) <= 2 * MaxEntries /\ (imported = {} => c = 0)
      /\ s <= MaxEntries + 2
      /\ \A i \in 2 .. (s - 1) : d[i] \in Pairs
  BY <1>2, <1>3, Zenon DEF At
<1>5. /\ DOMAIN b = 1 .. n /\ p + n <= s /\ (n < ImportBatch => p + n = s)
      /\ \A k \in 1 .. n : b[k] = d[p + k - 1] /\ b[k] \in Pairs
  BY <1>2, <1>3, <1>4, Zenon DEF Taking
<1>6. /\ imp' \in ImportContexts /\ imp' # None
      /\ imp'.type = imp.type /\ imp'.pos = p + n /\ imp'.done = (n < ImportBatch)
      /\ \A k \in 1 .. n : imp'.pool[k] = b[k].emb
      /\ \A w : w \in imp'.flight <=> \E k \in 1 .. n : w = [slot |-> r + k - 1, buf |-> k]
      /\ exports' = exports /\ imported' = imported /\ r_bump' = r + n
      /\ r_data' = r_data /\ promised' = promised /\ r_index' = Indexed(b)
  BY <1>2, Zenon DEF Takes
<1>7. imp # None
  BY Zenon DEF ImportStep
<1>8. Source' = d /\ Stop(Source)' = s
  <2>1. Source' = Source
    BY <1>6, Zenon DEF Source
  <2>2. Stop(Source)' = Stop(Source)
    BY <2>1, Zenon DEF Stop, EndsEntries
  <2> QED
    BY <1>3, <1>4, <2>1, <2>2, Zenon
<1>90. /\ r = c + (p - 2) /\ 2 <= p /\ p <= s /\ p + n <= s /\ c + (s - 2) <= 2 * MaxEntries
      /\ MaxEntries \in Nat
  BY <1>2, <1>4, <1>5, ExportAssumption, Zenon
<1>9. p - 2 \in Nat /\ (p + n) - 2 \in Nat /\ (r + n) - ((p + n) - 2) = c
  BY <1>90
<1>10. Loaded = p - 2 /\ Loaded' = (p + n) - 2 /\ First = c /\ First' = c
  <2>1. Loaded = p - 2 /\ Loaded' = (p + n) - 2
    BY <1>4, <1>6, <1>7, Zenon DEF Loaded
  <2>2. First' = (r + n) - ((p + n) - 2)
    BY <1>6, <2>1, Zenon DEF First
  <2> QED
    BY <1>4, <1>9, <2>1, <2>2, Zenon
<1>11. r + n <= c + (s - 2) /\ r + n <= 2 * MaxEntries
  BY <1>90
<1>12. LoadInv'
  <2>1. p + n \in 2 .. s
    BY <1>90
  <2>2. Ended'
    BY <1>4, <1>6, Zenon DEF Ended
  <2>3. imported \subseteq DOMAIN exports /\ imp.type \in DOMAIN exports \ imported
    BY <1>7, Zenon DEF ImportInv, LoadInv
  <2> QED
    BY <1>5, <1>6, <1>8, <2>1, <2>2, <2>3, Zenon DEF LoadInv
<1>13. RoomInv'
  <2>1. r + n \in Nat /\ (p + n) - 2 <= r + n
    BY <1>90
  <2>2. imported = {} => r + n <= (p + n) - 2
    BY <1>2, <1>4
  <2>3. ASSUME NEW t \in imported, imported = {t}
        PROVE  r + n <= MaxEntries + ((p + n) - 2)
    <3>1. r <= MaxEntries + (p - 2)
      BY <1>2, <1>10, <2>3, Zenon DEF ImportInv, RoomInv
    <3> QED
      BY <1>90, <3>1
  <2> QED
    BY <1>6, <1>10, <1>11, <2>1, <2>2, <2>3, Zenon DEF RoomInv
<1>14. KeysInv'
  BY <1>2, <1>5, <1>11, StepKeys, Zenon DEF ImportInv
<1>15. SlotsInv'
  <2>1. ASSUME NEW f \in Feats
        PROVE  /\ LoadedAt(f) = {i \in 2 .. (p - 1) : d[i].feat = f}
               /\ LoadedAt(f)' = {i \in 2 .. ((p + n) - 1) : d[i].feat = f}
    BY <1>3, <1>4, <1>6, <1>7, <1>8, Zenon DEF LoadedAt
  <2>2. \A i \in 2 .. ((p + n) - 1) : i \notin 2 .. (p - 1) =>
          (i - p) + 1 \in 1 .. n /\ p + ((i - p) + 1) - 1 = i
    BY <1>90
  <2>3. 2 .. (p - 1) \subseteq 2 .. ((p + n) - 1)
    BY <1>90
  <2>4. ASSUME NEW f \in Feats, PlacesIn(b, n, f) = {}
        PROVE  LoadedAt(f)' = LoadedAt(f) /\ r_index'[f] = r_index[f]
    <3>1. \A k \in 1 .. n : d[p + k - 1].feat # f
      BY <1>5, <2>4, Zenon DEF PlacesIn
    <3>2. \A i \in 2 .. ((p + n) - 1) : d[i].feat = f => i \in 2 .. (p - 1)
      BY <2>2, <3>1, Zenon
    <3>3. {i \in 2 .. (p - 1) : d[i].feat = f} = {i \in 2 .. ((p + n) - 1) : d[i].feat = f}
      BY <2>3, <3>2, Zenon
    <3> QED
      BY <1>5, <1>6, <2>1, <2>4, <3>3, IndexedIs, ZenonT(60)
  <2>5. ASSUME NEW f \in Feats, PlacesIn(b, n, f) # {}
        PROVE  LoadedAt(f)' # {} /\ r_index'[f] = c + (Max(LoadedAt(f)') - 2)
    <3>1. PICK m \in 1 .. n : /\ m = Max(PlacesIn(b, n, f)) /\ b[m].feat = f
                              /\ \A k \in 1 .. n : b[k].feat = f => k <= m
      BY <2>5, LastPlace, Zenon
    <3>2. PICK L : L = LoadedAt(f)'
      BY Zenon
    <3>3. L = {i \in 2 .. ((p + n) - 1) : d[i].feat = f}
      BY <2>1, <3>2, Zenon
    <3>4. PICK x \in Nat : x = p + m - 1
      BY <1>90
    <3>5. x \in 2 .. ((p + n) - 1) /\ m \in Nat
      BY <1>90, <3>4
    <3>6. x \in L
      BY <1>5, <3>1, <3>3, <3>4, <3>5, Zenon
    <3>7. ASSUME NEW i \in L PROVE i <= x
      <4>1. i \in 2 .. ((p + n) - 1) /\ d[i].feat = f
        BY <3>3, <3>7, Zenon
      <4>2. CASE i \in 2 .. (p - 1)
        BY <1>90, <3>4, <3>5, <4>2
      <4>3. CASE i \notin 2 .. (p - 1)
        <5>0. PICK k \in 1 .. n : k = (i - p) + 1 /\ p + k - 1 = i
          BY <2>2, <4>1, <4>3, Zenon
        <5>1. (i - p) + 1 <= m
          BY <1>5, <3>1, <4>1, <5>0, Zenon
        <5>2. i \in Nat
          BY <4>1
        <5> QED
          BY <3>4, <3>5, <5>1, <5>2
      <4> QED
        BY <4>2, <4>3, Zenon
    <3>8. L \subseteq Nat
      BY <3>3
    <3>9. Max(L) = x
      BY <3>6, <3>7, <3>8, MaxUnique, Zenon
    <3>10. r_index'[f] = r + m - 1
      <4>1. Indexed(b)[f] = r_bump + Max(PlacesIn(b, n, f)) - 1
        BY <1>5, <2>5, IndexedIs, Zenon
      <4>2. r_index' = Indexed(b) /\ r_bump = r
        BY <1>2, <1>6, Zenon
      <4> QED
        BY <3>1, <4>1, <4>2, Zenon
    <3>11. r + m - 1 = c + (x - 2)
      BY <1>90, <3>4, <3>5
    <3> QED
      BY <3>2, <3>6, <3>9, <3>10, <3>11, Zenon
  <2> QED
    BY <1>6, <1>10, <2>4, <2>5, Zenon DEF ImportInv, SlotsInv
<1>16. WritesInv'
  <2>1. ASSUME NEW i \in 2 .. ((p + n) - 1)
        PROVE  r_data[c + (i - 2)] = d[i].emb \/ \E w \in imp'.flight : w.slot = c + (i - 2)
    <3>1. CASE i \in 2 .. (p - 1)
      BY <1>2, <1>3, <1>4, <1>7, <1>10, <3>1, Zenon DEF ImportInv, WritesInv
    <3>2. CASE i \notin 2 .. (p - 1)
      <4>1. PICK k \in 1 .. n : k = (i - p) + 1
        BY <1>90, <3>2
      <4>2. r + k - 1 = c + (i - 2)
        BY <1>90, <4>1
      <4>3. PICK w : w = [slot |-> r + k - 1, buf |-> k]
        BY Zenon
      <4>4. w \in imp'.flight /\ w.slot = r + k - 1
        BY <1>6, <4>3, Zenon
      <4> QED
        BY <4>2, <4>4, Zenon
    <3> QED
      BY <3>1, <3>2, Zenon
  <2>2. ASSUME NEW w \in imp'.flight
        PROVE  w.slot \in c .. ((r + n) - 1) /\ imp'.pool[w.buf] = d[(w.slot - c) + 2].emb
    <3>1. PICK k \in 1 .. n : w = [slot |-> r + k - 1, buf |-> k]
      BY <1>6, <2>2, Zenon
    <3>2. w.slot = r + k - 1 /\ w.buf = k
      BY <3>1
    <3>3. r + k - 1 \in c .. ((r + n) - 1) /\ ((r + k - 1) - c) + 2 = p + k - 1
      BY <1>90
    <3>4. imp'.pool[k] = d[p + k - 1].emb
      BY <1>5, <1>6, Zenon
    <3> QED
      BY <3>2, <3>3, <3>4, Zenon
  <2>3. r_data \in [Slots -> Entries \cup {None}]
    BY Zenon DEF ImportInv, WritesInv
  <2> QED
    BY <1>6, <1>8, <1>10, <2>1, <2>2, <2>3, Zenon DEF WritesInv
<1> QED
  BY <1>12, <1>13, <1>14, <1>15, <1>16, Zenon DEF ImportInv

\* What a slot holds once writes have landed: the buffer of one of them, or what
\* it held.
Holds(y, writes, x) ==
  /\ (\A v \in writes : v.slot # x) => y[x] = r_data[x]
  /\ (\E v \in writes : v.slot = x) => \E v \in writes : v.slot = x /\ y[x] = imp.pool[v.buf]

\* That is what writes landing, one by one or in import_end, leave in the slots.
LEMMA LandedIs ==
  ASSUME NEW writes, NEW y, y = Landed(writes)
  PROVE  y = [x \in Slots |-> y[x]] /\ \A x \in Slots : Holds(y, writes, x)
<1> DEFINE held(x) == LET at == {w \in writes : w.slot = x}
                      IN  IF at = {} THEN r_data[x] ELSE imp.pool[(CHOOSE w \in at : TRUE).buf]
<1>0. y = [x \in Slots |-> held(x)]
  BY DEF Landed
<1>1. y = [x \in Slots |-> y[x]]
  <2> HIDE DEF held
  <2> QED
    BY <1>0, Zenon
<1>2. ASSUME NEW x \in Slots
      PROVE  Holds(y, writes, x)
  <2>1. PICK at : at = {v \in writes : v.slot = x}
    BY Zenon
  <2>2. y[x] = IF at = {} THEN r_data[x] ELSE imp.pool[(CHOOSE v \in at : TRUE).buf]
    BY <1>0, <2>1
  <2>3. at # {} => (CHOOSE v \in at : TRUE) \in at
    BY Zenon
  <2>4. \A v : v \in at <=> v \in writes /\ v.slot = x
    BY <2>1, Zenon
  <2> QED
    BY <2>2, <2>3, <2>4, Zenon DEF Holds
<1> QED
  BY <1>1, <1>2, Zenon

\* A write lands, from a buffer that has not been filled again.
LEMMA LandsImport ==
  ASSUME ExportInv, ImportInv, WriteLands
  PROVE  ImportInv'
<1>1. PICK w \in imp.flight : r_data' = Landed({w}) /\ imp' = [imp EXCEPT !.flight = imp.flight \ {w}]
  BY Zenon DEF WriteLands
<1>2. /\ imp # None /\ exports' = exports /\ imported' = imported /\ r_index' = r_index
      /\ r_bump' = r_bump /\ r_keys' = r_keys /\ promised' = promised
  BY DEF WriteLands, vars
<1>3. imp \in ImportContexts
  BY <1>2, Zenon DEF ImportInv, LoadInv
<1>4. /\ imp' \in ImportContexts /\ imp'.type = imp.type /\ imp'.pos = imp.pos
      /\ imp'.done = imp.done /\ imp'.pool = imp.pool /\ imp'.flight = imp.flight \ {w}
  BY <1>1, <1>3 DEF ImportContexts
<1>5. imp' # None
  BY <1>4, ImportAssumption, Zenon
<1>6. Source' = Source /\ Stop(Source)' = Stop(Source)
  <2>1. Source' = Source
    BY <1>2, <1>4, Zenon DEF Source
  <2> QED
    BY <2>1, Zenon DEF Stop, EndsEntries
<1>7. Loaded' = Loaded /\ First' = First
  BY <1>2, <1>4, <1>5, Zenon DEF Loaded, First
<1>8. PICK s, p, c \in Nat : At(s, p, c)
  BY <1>2, LoadingIs, Zenon
<1>9. c = First /\ p = imp.pos
  BY <1>8, Zenon DEF At
<1>10. w.slot \in First .. (r_bump - 1) /\ imp.pool[w.buf] = Source[(w.slot - First) + 2].emb
  BY <1>1, <1>2, Zenon DEF ImportInv, WritesInv
<1>11. r_data \in [Slots -> Entries \cup {None}]
  BY Zenon DEF ImportInv, WritesInv
<1>12. /\ w \in [slot : Slots, buf : 1 .. ImportBatch]
       /\ imp.pool \in [1 .. ImportBatch -> Entries \cup {None}]
  BY <1>1, <1>3 DEF ImportContexts
<1>13. w.slot \in Slots /\ imp.pool[w.buf] \in Entries \cup {None}
  BY <1>12, Zenon
<1>14. /\ r_data'[w.slot] = imp.pool[w.buf]
       /\ \A x \in Slots : x # w.slot => r_data'[x] = r_data[x]
       /\ r_data' = [x \in Slots |-> r_data'[x]]
  <2>1. PICK W : W = {w}
    BY Zenon
  <2>2. PICK y : y = Landed(W)
    BY Zenon
  <2>3. y = [x \in Slots |-> y[x]] /\ \A x \in Slots : Holds(y, W, x)
    BY <2>2, LandedIs, Zenon
  <2>4. r_data' = y
    BY <1>1, <2>1, <2>2, Zenon
  <2>5. \A v : v \in W <=> v = w
    BY <2>1, Zenon
  <2>6. y[w.slot] = imp.pool[w.buf] /\ \A x \in Slots : x # w.slot => y[x] = r_data[x]
    <3>1. \A x \in Slots : Holds(y, W, x)
      BY <2>3, Zenon
    <3>2. PICK v \in W : v.slot = w.slot /\ y[w.slot] = imp.pool[v.buf]
      BY <1>13, <2>5, <3>1, Zenon DEF Holds
    <3>3. \A x \in Slots : x # w.slot => \A u \in W : u.slot # x
      BY <2>5, Zenon
    <3>4. \A x \in Slots : x # w.slot => y[x] = r_data[x]
      BY <3>1, <3>3, Zenon DEF Holds
    <3> QED
      BY <2>5, <3>2, <3>4, Zenon
  <2> QED
    BY <2>3, <2>4, <2>6, Zenon
<1>15. r_data' \in [Slots -> Entries \cup {None}]
  <2>1. \A x \in Slots : r_data'[x] \in Entries \cup {None}
    BY <1>11, <1>13, <1>14, Zenon
  <2> QED
    BY <1>14, <2>1, Zenon
<1>16. LoadInv'
  <2>1. Ended'
    BY <1>2, <1>8, Zenon DEF Ended, At
  <2> QED
    BY <1>2, <1>4, <1>6, <2>1, Zenon DEF ImportInv, LoadInv
<1>17. RoomInv'
  BY <1>2, <1>7, Zenon DEF ImportInv, RoomInv
<1>18. KeysInv'
  BY <1>2, Zenon DEF ImportInv, KeysInv, ReplicaReopens
<1>19. SlotsInv'
  <2>1. \A f : LoadedAt(f)' = LoadedAt(f)
    BY <1>2, <1>4, <1>5, <1>6, Zenon DEF LoadedAt
  <2>2. \A x \in 0 .. (First - 1) : r_data'[x] = r_data[x]
    <3>1. ASSUME NEW x \in 0 .. (c - 1)
          PROVE  x \in Slots /\ x # w.slot
      <4>1. PICK r \in Nat, l \in Nat : r = r_bump /\ l = w.slot
        BY <1>9, <1>10 DEF ImportInv, RoomInv
      <4>2. l \in c .. (r - 1) /\ r <= 2 * MaxEntries /\ MaxEntries \in Nat
        BY <1>9, <1>10, <4>1, ExportAssumption, Zenon DEF ImportInv, RoomInv
      <4> QED
        BY <4>1, <4>2 DEF Slots
    <3> QED
      BY <1>9, <1>14, <3>1, Zenon
  <2>3. \A f \in Feats : r_index[f] \in 0 .. (First - 1) => r_data'[r_index[f]] = r_data[r_index[f]]
    BY <2>2, Zenon
  <2> QED
    BY <1>2, <1>7, <2>1, <2>3, Zenon DEF ImportInv, SlotsInv
<1>20. WritesInv'
  <2>1. ASSUME NEW i \in 2 .. (imp.pos - 1)
        PROVE  r_data'[First + (i - 2)] = Source[i].emb \/ \E v \in imp'.flight : v.slot = First + (i - 2)
    <3>1. PICK x : x = First + (i - 2)
      OBVIOUS
    <3>2. CASE x = w.slot
      <4>1. (x - First) + 2 = i
        BY <1>9, <3>1
      <4> QED
        BY <1>10, <1>14, <3>1, <3>2, <4>1, Zenon
    <3>3. CASE x # w.slot
      <4>1. x \in Slots
        <5>1. /\ r_bump = c + (p - 2) /\ p <= s /\ c + (s - 2) <= 2 * MaxEntries /\ MaxEntries \in Nat
          BY <1>8, ExportAssumption, Zenon DEF At
        <5> QED
          BY <1>9, <3>1, <5>1 DEF Slots
      <4>2. r_data[x] = Source[i].emb \/ \E v \in imp.flight : v.slot = x
        BY <1>2, <3>1, Zenon DEF ImportInv, WritesInv
      <4>3. r_data'[x] = r_data[x]
        BY <1>14, <3>3, <4>1, Zenon
      <4>4. \A v \in imp.flight : v.slot = x => v \in imp'.flight
        BY <1>4, <3>3, Zenon
      <4> QED
        BY <3>1, <4>2, <4>3, <4>4, Zenon
    <3> QED
      BY <3>2, <3>3, Zenon
  <2>2. \A v \in imp'.flight : v \in imp.flight
    BY <1>4, Zenon
  <2> QED
    BY <1>2, <1>4, <1>6, <1>7, <1>15, <2>1, <2>2, Zenon DEF ImportInv, WritesInv
<1> QED
  BY <1>16, <1>17, <1>18, <1>19, <1>20, Zenon DEF ImportInv

\* import_end: what is still under way lands, and the replica has the dump.
LEMMA EndImport ==
  ASSUME ExportInv, ImportInv, ImportEnd
  PROVE  ImportInv'
<1>1. /\ imp # None /\ imp.done /\ r_data' = Landed(imp.flight) /\ imp' = None
      /\ imported' = imported \cup {imp.type} /\ exports' = exports
      /\ r_index' = r_index /\ r_bump' = r_bump /\ r_keys' = r_keys
      /\ promised' = [f \in Feats |->
           LET rs == Parsed(exports[imp.type].dump)
               at == {i \in DOMAIN rs : rs[i].feat = f}
           IN  IF at = {} THEN promised[f] ELSE rs[Max(at)].emb]
  BY Zenon DEF ImportEnd, vars
<1>2. PICK s, p, c \in Nat : At(s, p, c)
  BY <1>1, LoadingIs, Zenon
<1>3. PICK d : d = Source
  OBVIOUS
<1>4. p = s
  BY <1>1, <1>2, Zenon DEF ImportInv, LoadInv, At
<1>5. /\ Ended /\ Whole(d) /\ s = Stop(d) /\ s = imp.pos /\ c = First /\ 2 <= s
      /\ r_bump = c + (s - 2) /\ c + (s - 2) <= 2 * MaxEntries /\ s <= MaxEntries + 2
      /\ imported = {} => c = 0
  BY <1>2, <1>3, <1>4, Zenon DEF At
<1>6. MaxEntries \in Nat /\ \A i \in 2 .. (s - 1) : d[i] \in Pairs
  BY <1>2, <1>3, <1>4, ExportAssumption, Zenon DEF At
<1>7. PICK r \in Nat : r = r_bump /\ r = c + (s - 2) /\ r <= 2 * MaxEntries
  BY <1>5, <1>6
<1>8. Loaded = s - 2 /\ Loaded' = 0 /\ First' = r
  <2>1. Loaded = s - 2 /\ Loaded' = 0 /\ First' = r - 0
    BY <1>1, <1>5, <1>7, Zenon DEF Loaded, First
  <2> QED
    BY <2>1
<1>9. imp \in ImportContexts /\ imp.type \in DOMAIN exports \ imported /\ imported \subseteq DOMAIN exports
  BY <1>1, Zenon DEF ImportInv, LoadInv
<1>10. /\ \A i \in 2 .. (s - 1) :
            r_data[c + (i - 2)] = d[i].emb \/ \E w \in imp.flight : w.slot = c + (i - 2)
       /\ \A w \in imp.flight :
            w.slot \in c .. (r - 1) /\ imp.pool[w.buf] = d[(w.slot - c) + 2].emb
  BY <1>1, <1>3, <1>5, <1>7, Zenon DEF ImportInv, WritesInv
<1>11. PICK y, W : y = Landed(W) /\ W = imp.flight
  BY Zenon
<1>12. r_data' = y /\ y = [x \in Slots |-> y[x]] /\ \A x \in Slots : Holds(y, W, x)
  BY <1>1, <1>11, LandedIs, Zenon
<1>13. \A x \in Slots : Holds(y, imp.flight, x)
  BY <1>11, <1>12, Zenon
<1>14. ASSUME NEW i \in 2 .. (s - 1)
       PROVE  y[c + (i - 2)] = d[i].emb
  <2>1. PICK x \in Slots : x = c + (i - 2) /\ (x - c) + 2 = i
    <3>1. c + (i - 2) \in Slots /\ ((c + (i - 2)) - c) + 2 = i
      BY <1>6, <1>7 DEF Slots
    <3> QED
      BY <3>1, Zenon
  <2>2. \A w \in imp.flight : w.slot = x => imp.pool[w.buf] = d[i].emb
    BY <1>10, <2>1, Zenon
  <2>3. r_data[x] = d[i].emb \/ \E w \in imp.flight : w.slot = x
    BY <1>10, <2>1, Zenon
  <2> QED
    BY <1>13, <2>1, <2>2, <2>3, Zenon DEF Holds
<1>15. ASSUME NEW x \in 0 .. (c - 1)
       PROVE  x \in Slots /\ y[x] = r_data[x]
  <2>1. c <= r /\ r <= 2 * MaxEntries /\ MaxEntries \in Nat
    BY <1>5, <1>7, ExportAssumption
  <2>2. x \in Slots /\ x \notin c .. (r - 1)
    BY <2>1 DEF Slots
  <2> QED
    BY <1>10, <1>13, <2>2, Zenon DEF Holds
<1>16. r_data' \in [Slots -> Entries \cup {None}]
  <2>1. r_data \in [Slots -> Entries \cup {None}]
    BY Zenon DEF ImportInv, WritesInv
  <2>2. \A w \in imp.flight : imp.pool[w.buf] \in Entries \cup {None}
    BY <1>9, Zenon DEF ImportContexts
  <2>3. \A x \in Slots : y[x] \in Entries \cup {None}
    BY <1>13, <2>1, <2>2, Zenon DEF Holds
  <2> QED
    BY <1>12, <2>3, Zenon
<1>17. LoadInv'
  <2>1. Ended'
    BY <1>1, <1>5, Zenon DEF Ended
  <2> QED
    BY <1>1, <1>9, <2>1, Zenon DEF LoadInv
<1>18. RoomInv'
  <2>1. ASSUME NEW t \in imported', imported' = {t}
        PROVE  r <= MaxEntries + 0
    <3>1. imported = {}
      BY <1>1, <1>9, <2>1, Zenon
    <3> QED
      BY <1>5, <1>6, <1>7, <3>1
  <2>2. imported' # {}
    BY <1>1, Zenon
  <2>3. 0 <= r
    OBVIOUS
  <2> QED
    BY <1>1, <1>7, <1>8, <2>1, <2>2, <2>3, Zenon DEF RoomInv
<1>19. KeysInv'
  BY <1>1, Zenon DEF ImportInv, KeysInv, ReplicaReopens
<1>20. ASSUME NEW f \in Feats
       PROVE  /\ LoadedAt(f) = {} => promised'[f] = promised[f]
              /\ LoadedAt(f) # {} => /\ promised'[f] \in Entries /\ r_index[f] \in 0 .. (r - 1)
                                     /\ y[r_index[f]] = promised'[f]
  <2>1. PICK L : L = LoadedAt(f)
    OBVIOUS
  <2>2. L = {i \in 2 .. (s - 1) : d[i].feat = f}
    BY <1>1, <1>3, <1>5, <2>1, Zenon DEF LoadedAt
  <2>3. PICK q : q = Parsed(d)
    OBVIOUS
  <2>4. DOMAIN q = 1 .. (s - 2) /\ \A i \in 1 .. (s - 2) : q[i] = d[i + 1]
    BY <1>5, <2>3, ParsedIs, Zenon
  <2>5. PICK A : A = {i \in 1 .. (s - 2) : q[i].feat = f}
    BY Zenon
  <2>6. promised'[f] = IF A = {} THEN promised[f] ELSE q[Max(A)].emb
    <3>1. Parsed(exports[imp.type].dump) = q
      BY <1>3, <2>3, Zenon DEF Source
    <3>2. promised'[f] = LET at == {i \in DOMAIN q : q[i].feat = f}
                         IN  IF at = {} THEN promised[f] ELSE q[Max(at)].emb
      BY <1>1, <3>1, Zenon
    <3> QED
      BY <2>4, <2>5, <3>2, Zenon
  <2>7. \A i \in Nat : i \in 1 .. (s - 2) <=> i + 1 \in 2 .. (s - 1)
    BY <1>5
  <2>8. \A i \in A : i + 1 \in L
    BY <2>2, <2>4, <2>5, <2>7
  <2>9. \A j \in L : j - 1 \in A
    <3>1. ASSUME NEW j \in L PROVE j - 1 \in A
      <4>1. j \in 2 .. (s - 1) /\ d[j].feat = f
        BY <2>2, <3>1, Zenon
      <4>2. j - 1 \in 1 .. (s - 2) /\ (j - 1) + 1 = j
        BY <1>5, <4>1
      <4>3. q[j - 1] = d[j]
        BY <2>4, <4>2, Zenon
      <4> QED
        BY <2>5, <4>1, <4>2, <4>3, Zenon
    <3> QED
      BY <3>1, Zenon
  <2>10. CASE L = {}
    <3>1. A = {}
      BY <2>8, <2>10, Zenon
    <3> QED
      BY <2>1, <2>6, <2>10, <3>1, Zenon
  <2>11. CASE L # {}
    <3>1. A # {} /\ A \subseteq Nat /\ \A i \in A : i <= s - 2
      BY <2>5, <2>9, <2>11
    <3>2. s - 2 \in Nat
      BY <1>5
    <3>3. PICK m : m = Max(A)
      OBVIOUS
    <3>4. m \in A /\ \A i \in A : i <= m
      BY <3>1, <3>2, <3>3, MaxIs, Zenon
    <3>5. m \in Nat /\ m \in 1 .. (s - 2) /\ m + 1 \in 2 .. (s - 1) /\ (m + 1) - 2 = m - 1
      BY <1>5, <2>5, <3>4
    <3>6. m + 1 \in L /\ L \subseteq Nat
      BY <2>2, <2>8, <3>4
    <3>7. ASSUME NEW j \in L PROVE j <= m + 1
      <4>1. j - 1 <= m /\ j \in Nat
        BY <2>9, <3>4, <3>6, <3>7, Zenon
      <4> QED
        BY <3>5, <4>1
    <3>8. Max(L) = m + 1
      BY <3>6, <3>7, MaxUnique, Zenon
    <3>9. r_index[f] = c + ((m + 1) - 2)
      BY <1>5, <2>1, <2>11, <3>8, Zenon DEF ImportInv, SlotsInv
    <3>10. promised'[f] = d[m + 1].emb
      BY <2>4, <2>6, <3>1, <3>3, <3>5, Zenon
    <3>11. y[r_index[f]] = d[m + 1].emb
      BY <1>14, <3>5, <3>9, Zenon
    <3>12. c + ((m + 1) - 2) \in 0 .. (r - 1)
      BY <1>5, <1>7, <3>5
    <3>13. d[m + 1].emb \in Entries
      BY <1>6, <3>5 DEF Pairs
    <3> QED
      BY <2>1, <2>11, <3>9, <3>10, <3>11, <3>12, <3>13, Zenon
  <2> QED
    BY <2>10, <2>11, Zenon
<1>21. SlotsInv'
  <2>1. \A f : LoadedAt(f)' = {}
    BY <1>1, Zenon DEF LoadedAt
  <2>2. None \notin Entries /\ 0 .. (c - 1) \subseteq 0 .. (r - 1)
    BY <1>5, <1>7, ImportAssumption DEF Entries
  <2>3. promised \in [Feats -> Entries \cup {None}]
    BY Zenon DEF ImportInv, SlotsInv
  <2>4. promised' \in [Feats -> Entries \cup {None}]
    <3>1. \A f \in Feats : promised'[f] \in Entries \cup {None}
      BY <1>20, <2>3, Zenon
    <3>2. DOMAIN promised' = Feats /\ promised' = [f \in Feats |-> promised'[f]]
      BY <1>1, Zenon
    <3> QED
      BY <3>1, <3>2, Zenon
  <2>5. ASSUME NEW f \in Feats
        PROVE  /\ promised'[f] = None => r_index[f] = None
               /\ promised'[f] # None => r_index[f] \in 0 .. (r - 1) /\ y[r_index[f]] = promised'[f]
    <3>1. CASE LoadedAt(f) = {}
      <4>1. /\ promised[f] = None => r_index[f] = None
            /\ promised[f] # None => r_index[f] \in 0 .. (c - 1) /\ r_data[r_index[f]] = promised[f]
        BY <1>5, <3>1, Zenon DEF ImportInv, SlotsInv
      <4> QED
        BY <1>15, <1>20, <2>2, <3>1, <4>1, Zenon
    <3>2. CASE LoadedAt(f) # {}
      BY <1>20, <2>2, <3>2, Zenon
    <3> QED
      BY <3>1, <3>2, Zenon
  <2>6. r_data' = y
    BY <1>12, Zenon
  <2> QED
    BY <1>1, <1>8, <2>1, <2>4, <2>5, <2>6, Zenon DEF SlotsInv
<1>22. WritesInv'
  BY <1>1, <1>16, Zenon DEF WritesInv
<1> QED
  BY <1>17, <1>18, <1>19, <1>21, <1>22, Zenon DEF ImportInv
-----------------------------------------------------------------------------
(* The theorems. *)

\* In every reachable state the entries taken of a dump are in their slots or on
\* the way there, and the other features read as the dumps loaded before say.
THEOREM ImportInvHolds == Spec => []ImportInv
<1>1. ImportInit => ImportInv
  BY InitImport, Zenon
<1>2. ExportInv /\ ImportInv /\ [Next]_allVars => ImportInv'
  <2> SUFFICES ASSUME ExportInv, ImportInv, [Next]_allVars
               PROVE  ImportInv'
    BY Zenon
  <2>1. CASE ExportNext /\ UNCHANGED importVars
    BY <2>1, ExportImport, Zenon
  <2>2. CASE ImportNext
    BY <2>2, BeginImport, StepImport, LandsImport, EndImport, Zenon DEF ImportNext
  <2>3. CASE UNCHANGED allVars
    <3>1. /\ exports' = exports /\ imported' = imported /\ imp' = imp /\ r_index' = r_index
          /\ r_bump' = r_bump /\ r_keys' = r_keys /\ r_data' = r_data /\ promised' = promised
      BY <2>3 DEF allVars, vars, importVars, replicaVars
    <3>2. Source' = Source /\ Loaded' = Loaded /\ First' = First /\ (Ended <=> Ended')
      BY <3>1, Zenon DEF Source, Loaded, First, Ended
    <3>3. Stop(Source)' = Stop(Source)
      BY <3>2, Zenon DEF Stop, EndsEntries
    <3>4. \A f : LoadedAt(f)' = LoadedAt(f)
      BY <3>1, <3>2, Zenon DEF LoadedAt
    <3>5. LoadInv' /\ RoomInv'
      BY <3>1, <3>2, <3>3, Zenon DEF ImportInv, LoadInv, RoomInv
    <3>6. KeysInv'
      BY <3>1, Zenon DEF ImportInv, KeysInv, ReplicaReopens
    <3>7. SlotsInv' /\ WritesInv'
      BY <3>1, <3>2, <3>4, Zenon DEF ImportInv, SlotsInv, WritesInv
    <3> QED
      BY <3>5, <3>6, <3>7, Zenon DEF ImportInv
  <2> QED
    BY <2>1, <2>2, <2>3, Zenon DEF Next
<1> QED
  BY <1>1, <1>2, ExportInvHolds, PTL DEF Spec

\* The index of the replica is the one that reopening it would rebuild from the
\* keys, at every moment of an import.
THEOREM ReplicaReopensHolds == Spec => []ReplicaReopens
<1>1. ImportInv => ReplicaReopens
  BY Zenon DEF ImportInv, KeysInv
<1> QED
  BY <1>1, ImportInvHolds, PTL

\* Between imports every feature reads from the replica as the last dump loaded
\* that has it says.
THEOREM ReplicaReadsHolds == Spec => []ReplicaReads
<1>1. ImportInv => ReplicaReads
  <2> SUFFICES ASSUME ImportInv, imp = None, NEW f \in Feats
               PROVE  IF promised[f] = None THEN r_index[f] = None
                      ELSE r_index[f] # None /\ r_data[r_index[f]] = promised[f]
    BY Zenon DEF ReplicaReads
  <2>1. LoadedAt(f) = {}
    BY Zenon DEF LoadedAt
  <2>2. /\ promised[f] = None => r_index[f] = None
        /\ promised[f] # None => r_index[f] \in 0 .. (First - 1) /\ r_data[r_index[f]] = promised[f]
    BY <2>1, Zenon DEF ImportInv, SlotsInv
  <2>3. First \in Nat
    BY DEF ImportInv, RoomInv, First, Loaded
  <2>4. None \notin 0 .. (First - 1)
    BY <2>3, ImportAssumption
  <2> QED
    BY <2>2, <2>4, Zenon
<1> QED
  BY <1>1, ImportInvHolds, PTL
=============================================================================
