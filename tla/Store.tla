------------------------------- MODULE Store -------------------------------
(***************************************************************************)
(* A database over its files: puts and deletes in several bins, the        *)
(* asynchronous flush and get over io_uring, closing, crashing in the      *)
(* middle of any flush, and reopening with the index rebuilt from the key  *)
(* files.                                                                  *)
(*                                                                         *)
(* A page holds one slot.  Slots are numbered through all bins, in the     *)
(* order in which rebuild_index_from_keys visits them.  The write and key  *)
(* buffers are not at their limits and no checkpoint is left in progress   *)
(* between two calls (the Engine module has both).  A crash is the end of  *)
(* the process: what it has written stays written.                         *)
(***************************************************************************)
EXTENDS Integers, Sequences, Functions

CONSTANTS
  Feats,     \* feature ids
  Vals,      \* embeddings
  NoFeat,    \* the key 0
  Zero,      \* the content of a slot nobody wrote
  None,      \* no slot, key, buffer or call
  Absent,    \* a lookup answered NOT_FOUND
  Unsure,    \* history: nothing is claimed
  Layouts,   \* the layouts to start with: the bin of each slot, ascending
  MaxOpens,  \* bound on the times the database is opened
  GetOpens   \* bound: gets are submitted while it is open for the first GetOpens times

ASSUME StoreAssumption ==
  /\ MaxOpens \in Nat \ {0}
  /\ GetOpens \in 1..MaxOpens
  /\ \A l \in Layouts : l \in Seq(Nat)
  /\ \A l \in Layouts : \A s, t \in DOMAIN l : s <= t => l[s] <= l[t]
  /\ None \notin Nat \cup Feats \cup {NoFeat} /\ NoFeat \notin Feats
  /\ {None, Absent, Unsure} \cap (Vals \cup {Zero}) = {} /\ Absent # Unsure

VARIABLES
  layout,     \* the bin of each slot: the files' layout, fixed by the dimensions
  up, opens,  \* the database is open; how often it was opened
  use_uring,  \* uring_io_init succeeded at open
  reserved,   \* bins whose files dimbin_reserve has extended, beyond all slots
  index,      \* HashIndex: the slot of each feature
  bump_ptr,   \* slots of a bin that were ever allocated
  free_list,  \* the stack of free slots of a bin
  key_buf, key_file,   \* buffered and written keys by slot
  page,       \* the write buffer: what a resident page holds
  data_file,  \* the .bin files by slot
  flushing,   \* an asynchronous flush is in flight (AsyncFlushState)
  submitted,  \* its queue was handed to the kernel
  sqes,       \* the pages whose writes have not landed
  get,        \* the asynchronous get in flight
  expect,     \* history: what a read of the feature must return
  held,       \* history: expect when the flush in flight was submitted
  durable,    \* history: what a reopen after a crash must return
  late,       \* history: features put since the flush was submitted
  dropped,    \* history: features whose late put was dropped with its page
  orphaned    \* history: features a crash left with a second slot

fileVars == <<layout, reserved, key_file, data_file>>
slotVars == <<index, bump_ptr, free_list>>
ringVars == <<flushing, submitted, sqes, held, late>>
procVars == <<up, opens, use_uring>>
histVars == <<expect, durable, dropped, orphaned>>
vars == <<procVars, fileVars, slotVars, key_buf, page, ringVars, get, histVars>>

Slots == DOMAIN layout

Bins == {layout[s] : s \in Slots}

SlotsOf(b) == {s \in Slots : layout[s] = b}

\* The slots of a bin follow one another: the first, the last, and how many.
First(b) == CHOOSE s \in SlotsOf(b) : \A t \in SlotsOf(b) : s <= t

Last(b) == CHOOSE s \in SlotsOf(b) : \A t \in SlotsOf(b) : t <= s

Capacity(b) == Last(b) - First(b) + 1

NoKeys == [s \in Slots |-> None]

NoPages == [s \in Slots |-> None]

Resident == {s \in Slots : page[s] # None}

Init ==
  /\ layout \in Layouts
  /\ up = TRUE /\ opens = 1 /\ use_uring \in BOOLEAN
  /\ reserved = {}
  /\ index = [f \in Feats |-> None]
  /\ bump_ptr = [b \in Bins |-> 0]
  /\ free_list = [b \in Bins |-> <<>>]
  /\ key_buf = NoKeys
  /\ key_file = [s \in Slots |-> NoFeat]
  /\ page = NoPages
  /\ data_file = [s \in Slots |-> Zero]
  /\ flushing = FALSE /\ submitted = FALSE /\ sqes = {}
  /\ get = None
  /\ expect = [f \in Feats |-> Absent]
  /\ durable = expect
  /\ held = [f \in Feats |-> Unsure]
  /\ late = {} /\ dropped = {} /\ orphaned = {}
-----------------------------------------------------------------------------
(* Reading. *)

ReadSlot(s) == IF page[s] # None THEN page[s] ELSE data_file[s]

Read(f) == IF index[f] = None THEN Absent ELSE ReadSlot(index[f])

\* Faulty variant: the write buffer is not looked at.
GetSubmitDisk(f) ==
  /\ up /\ get = None /\ opens <= GetOpens
  /\ index[f] # None
  /\ expect[f] # Unsure /\ f \notin dropped
  /\ get' = [feat |-> f, slot |-> index[f], val |-> None, window |-> {expect[f]}]
  /\ UNCHANGED <<procVars, fileVars, slotVars, key_buf, page, ringVars, histVars>>

\* graveldb_batch_get_submit of a stored feature whose page is not resident:
\* the slot is looked up now, and read later.
GetSubmit(f) ==
  /\ up /\ get = None /\ opens <= GetOpens
  /\ index[f] # None /\ page[index[f]] = None
  /\ expect[f] # Unsure /\ f \notin dropped
  /\ get' = [feat |-> f, slot |-> index[f], val |-> None, window |-> {expect[f]}]
  /\ UNCHANGED <<procVars, fileVars, slotVars, key_buf, page, ringVars, histVars>>

\* The kernel reads the slot.
GetLands ==
  /\ up /\ get # None /\ get.val = None
  /\ get' = [get EXCEPT !.feat = None, !.slot = None, !.val = data_file[get.slot]]
  /\ UNCHANGED <<procVars, fileVars, slotVars, key_buf, page, ringVars, histVars>>

\* graveldb_batch_get_poll finds the read complete, or graveldb_batch_get_cancel
\* waits for it.
GetDone ==
  /\ up /\ get # None /\ get.val # None
  /\ get' = None
  /\ UNCHANGED <<procVars, fileVars, slotVars, key_buf, page, ringVars, histVars>>

\* History: what the get in flight may return once reads of f return v.
Seen(f, v) ==
  IF get # None /\ get.val = None /\ get.feat = f /\ get.window # {Unsure}
  THEN [get EXCEPT !.window = IF v = Unsure THEN {Unsure} ELSE @ \cup {v}]
  ELSE get
-----------------------------------------------------------------------------
(* Writing. *)

\* dimbin_alloc_entry: the top of the free list, else the next slot.
Alloc(b) ==
  IF free_list[b] # <<>>
  THEN free_list[b][Len(free_list[b])]
  ELSE First(b) + bump_ptr[b]

CanAlloc(b) == free_list[b] # <<>> \/ bump_ptr[b] < Capacity(b)

\* Faulty variant: every key of the slots is taken from the buffer.
KeysWrittenAll(S) == [s \in Slots |-> IF s \in S THEN key_buf[s] ELSE key_file[s]]

\* The key file once the buffered keys of the slots in S are written.
KeysWritten(S) == [s \in Slots |-> IF s \in S /\ key_buf[s] # None THEN key_buf[s] ELSE key_file[s]]

\* graveldb_batch_put of a feature with bin b's dimension; its key is buffered
\* even if the feature is stored already.
Put(f, b, v) ==
  /\ up
  /\ IF index[f] # None
     THEN /\ layout[index[f]] = b
          /\ key_buf' = [key_buf EXCEPT ![index[f]] = f]
          /\ page' = [page EXCEPT ![index[f]] = v]
          /\ UNCHANGED slotVars
     ELSE /\ CanAlloc(b)
          /\ index' = [index EXCEPT ![f] = Alloc(b)]
          /\ free_list' = [free_list EXCEPT ![b] = IF @ = <<>> THEN @ ELSE SubSeq(@, 1, Len(@) - 1)]
          /\ bump_ptr' = [bump_ptr EXCEPT ![b] = IF free_list[b] = <<>> THEN @ + 1 ELSE @]
          /\ key_buf' = [key_buf EXCEPT ![Alloc(b)] = f]
          /\ page' = [page EXCEPT ![Alloc(b)] = v]
  /\ reserved' = reserved \cup {b}
  /\ expect' = [expect EXCEPT ![f] = v]
  /\ durable' = [durable EXCEPT ![f] = Unsure]
  /\ held' = [held EXCEPT ![f] = Unsure]
  /\ late' = IF flushing THEN late \cup {f} ELSE late
  /\ dropped' = dropped \ {f}
  /\ get' = Seen(f, v)
  /\ UNCHANGED <<procVars, layout, key_file, data_file, flushing, submitted, sqes, orphaned>>

\* A feature stored in another bin is refused (DIM_MISMATCH), after file space
\* was reserved for it.
PutRefused(f, b) ==
  /\ up /\ index[f] # None /\ layout[index[f]] # b
  /\ reserved' = reserved \cup {b}
  /\ UNCHANGED <<procVars, layout, key_file, data_file, slotVars, key_buf, page, get, ringVars,
                 histVars>>

\* Faulty variant: the key stays.
DeleteKeepsKey(f) ==
  /\ up /\ index[f] # None
  /\ free_list' = [free_list EXCEPT ![layout[index[f]]] = Append(@, index[f])]
  /\ index' = [index EXCEPT ![f] = None]
  /\ expect' = [expect EXCEPT ![f] = Absent]
  /\ durable' = [durable EXCEPT ![f] = Unsure]
  /\ held' = [held EXCEPT ![f] = Unsure]
  /\ late' = late \ {f}
  /\ dropped' = dropped \ {f}
  /\ get' = Seen(f, Unsure)
  /\ UNCHANGED <<procVars, fileVars, key_buf, bump_ptr, page, flushing, submitted, sqes, orphaned>>

\* graveldb_batch_delete.
Delete(f) ==
  /\ up /\ index[f] # None
  /\ LET s == index[f]
     IN  /\ free_list' = [free_list EXCEPT ![layout[s]] = Append(@, s)]
         /\ key_buf' = [key_buf EXCEPT ![s] = NoFeat]
  /\ index' = [index EXCEPT ![f] = None]
  /\ expect' = [expect EXCEPT ![f] = Absent]
  /\ durable' = [durable EXCEPT ![f] = Unsure]
  /\ held' = [held EXCEPT ![f] = Unsure]
  /\ late' = late \ {f}
  /\ dropped' = dropped \ {f}
  /\ get' = Seen(f, Unsure)
  /\ UNCHANGED <<procVars, fileVars, bump_ptr, page, flushing, submitted, sqes, orphaned>>
-----------------------------------------------------------------------------
(* Flushing. *)

PagesWritten(S) == [s \in Slots |-> IF s \in S THEN ReadSlot(s) ELSE data_file[s]]

\* graveldb_flush, and the flush of every bin that graveldb_checkpoint begins
\* with and graveldb_close ends with: keys, then pages, then the buffers go.
WriteBack ==
  /\ key_file' = KeysWritten(Slots)
  /\ key_buf' = NoKeys
  /\ data_file' = PagesWritten(Resident)

\* History: what has to survive once everything resident is written.
Kept == [f \in Feats |-> IF f \in dropped THEN Unsure ELSE expect[f]]

Flush ==
  /\ up /\ ~flushing
  /\ WriteBack
  /\ page' = NoPages
  /\ durable' = Kept
  /\ UNCHANGED <<procVars, layout, reserved, slotVars, ringVars, get, expect, dropped, orphaned>>

\* graveldb_flush_submit: the keys are written, a write per resident page is
\* queued, from the live buffer.  Without io_uring the writes happen here.
FlushSubmit ==
  /\ up /\ ~flushing
  /\ key_file' = KeysWritten(Slots)
  /\ key_buf' = NoKeys
  /\ sqes' = IF use_uring THEN Resident ELSE {}
  /\ data_file' = IF use_uring THEN data_file ELSE PagesWritten(Resident)
  /\ flushing' = TRUE /\ submitted' = FALSE
  /\ held' = Kept
  /\ late' = {}
  /\ UNCHANGED <<procVars, layout, reserved, slotVars, page, get, histVars>>

\* The kernel performs a queued write.
WriteLands(s) ==
  /\ up /\ submitted
  /\ data_file' = PagesWritten({s})
  /\ sqes' = sqes \ {s}
  /\ UNCHANGED <<procVars, layout, reserved, key_file, slotVars, key_buf, page, flushing,
                 submitted, held, late, get, histVars>>

\* uring_io_poll hands the queue to the kernel; graveldb_flush_poll answers AGAIN.
PollAgain ==
  /\ up /\ flushing /\ sqes # {} /\ ~submitted
  /\ submitted' = TRUE
  /\ UNCHANGED <<procVars, fileVars, slotVars, key_buf, page, flushing, sqes, held, late,
                 get, histVars>>

\* Faulty variant: the writes need not be complete.
PollDoneEarly ==
  /\ up /\ flushing
  /\ page' = NoPages
  /\ flushing' = FALSE /\ submitted' = FALSE /\ sqes' = {}
  /\ dropped' = dropped \cup late
  /\ durable' = [f \in Feats |-> IF held[f] = Unsure THEN durable[f] ELSE held[f]]
  /\ held' = [f \in Feats |-> Unsure]
  /\ late' = {}
  /\ get' = IF get # None /\ get.feat \in late THEN Seen(get.feat, Unsure) ELSE get
  /\ UNCHANGED <<procVars, fileVars, slotVars, key_buf, expect, orphaned>>

\* graveldb_flush_poll finds all writes complete: it drops every page that is
\* resident now.
PollDone ==
  /\ up /\ flushing /\ sqes = {}
  /\ page' = NoPages
  /\ flushing' = FALSE /\ submitted' = FALSE
  /\ dropped' = dropped \cup late
  /\ durable' = [f \in Feats |-> IF held[f] = Unsure THEN durable[f] ELSE held[f]]
  /\ held' = [f \in Feats |-> Unsure]
  /\ late' = {}
  /\ get' = IF get # None /\ get.feat \in late THEN Seen(get.feat, Unsure) ELSE get
  /\ UNCHANGED <<procVars, fileVars, slotVars, key_buf, sqes, expect, orphaned>>
-----------------------------------------------------------------------------
(* Ending and reopening. *)

\* What the end of the process leaves of its memory.
Ends ==
  /\ up' = FALSE
  /\ index' = [f \in Feats |-> None]
  /\ bump_ptr' = [b \in Bins |-> 0]
  /\ free_list' = [b \in Bins |-> <<>>]
  /\ key_buf' = NoKeys
  /\ page' = NoPages
  /\ flushing' = FALSE /\ submitted' = FALSE /\ sqes' = {}
  /\ held' = [f \in Feats |-> Unsure]
  /\ late' = {}
  /\ get' = None
  /\ UNCHANGED <<opens, use_uring, layout, reserved, orphaned>>

\* graveldb_close, the host having polled its gets.  A flush in flight is
\* abandoned: its pages are still resident and are flushed with the others.
Close ==
  /\ up /\ get = None /\ opens < MaxOpens
  /\ key_file' = KeysWritten(Slots)
  /\ data_file' = PagesWritten(Resident)
  /\ durable' = Kept
  /\ Ends
  /\ UNCHANGED <<expect, dropped>>

\* The process ends anywhere, also within a flush: of each bin the first keys
\* are written, and pages only after all keys.
Crash(K, P) ==
  /\ up /\ opens < MaxOpens
  /\ \A s \in K : key_buf[s] # None
  /\ \A s \in K : \A t \in SlotsOf(layout[s]) : t < s /\ key_buf[t] # None => t \in K
  /\ \A p \in P : \A t \in SlotsOf(layout[p]) : key_buf[t] # None => t \in K
  /\ key_file' = KeysWritten(K)
  /\ data_file' = PagesWritten(P)
  /\ expect' = durable
  /\ dropped' = {}
  /\ Ends
  /\ UNCHANGED durable

\* rebuild_index_from_keys, one slot: an empty slot is freed, a feature that is
\* indexed in another bin is discarded from both, and any other is indexed.
RebuildSlot(db, s) ==
  LET f == db.keys[s]
      Freed(d, t) == [d EXCEPT !.free[layout[t]] = Append(@, t), !.buf[t] = NoFeat]
  IN  IF f = NoFeat THEN Freed(db, s)
      ELSE IF db.index[f] # None /\ layout[db.index[f]] # layout[s]
      THEN LET p == db.index[f]
           IN  Freed(Freed([db EXCEPT !.index[f] = None, !.keys[p] = NoFeat, !.keys[s] = NoFeat],
                           p), s)
      ELSE [db EXCEPT !.index[f] = s]

\* The slots up to n, those of bins without files left out.
Rebuild[n \in 0 .. Len(layout)] ==
  IF n = 0 THEN [keys |-> key_file, buf |-> NoKeys, index |-> [f \in Feats |-> None],
                 free |-> [b \in Bins |-> <<>>]]
  ELSE IF layout[n] \in reserved THEN RebuildSlot(Rebuild[n - 1], n)
  ELSE Rebuild[n - 1]

Rebuilt == Rebuild[Len(layout)]

\* History: the key file names the feature twice.
Doubled(f) == \E s, t \in Slots : s # t /\ key_file[s] = f /\ key_file[t] = f

\* graveldb_open: a bin whose files were extended counts all their slots as
\* allocated; the index is rebuilt.
Open ==
  /\ ~up
  /\ up' = TRUE /\ opens' = opens + 1
  /\ \E db \in {Rebuilt} :
       /\ key_file' = db.keys /\ key_buf' = db.buf
       /\ index' = db.index /\ free_list' = db.free
  /\ bump_ptr' = [b \in Bins |-> IF b \in reserved THEN Capacity(b) ELSE 0]
  /\ orphaned' = {f \in Feats : Doubled(f)}
  /\ expect' = [f \in Feats |-> IF f \in orphaned \cup orphaned' THEN Unsure ELSE expect[f]]
  /\ durable' = [f \in Feats |-> IF f \in orphaned \cup orphaned' THEN Unsure ELSE durable[f]]
  /\ UNCHANGED <<use_uring, layout, reserved, data_file, page, ringVars, get, dropped>>
-----------------------------------------------------------------------------
Next ==
  \/ \E f \in Feats, b \in Bins, v \in Vals : Put(f, b, v)
  \/ \E f \in Feats, b \in Bins : PutRefused(f, b)
  \/ \E f \in Feats : Delete(f)
  \/ \E f \in Feats : GetSubmit(f)
  \/ GetLands
  \/ GetDone
  \/ Flush
  \/ FlushSubmit
  \/ \E s \in sqes : WriteLands(s)
  \/ PollAgain
  \/ PollDone
  \/ Close
  \/ \E K \in SUBSET Slots, P \in SUBSET Resident : Crash(K, P)
  \/ Open

Spec == Init /\ [][Next]_vars
-----------------------------------------------------------------------------
(* Properties. *)

\* The types of the variables.
TypeOK ==
  /\ layout \in Layouts
  /\ up \in BOOLEAN /\ opens \in 1..MaxOpens /\ use_uring \in BOOLEAN
  /\ reserved \subseteq Bins
  /\ index \in [Feats -> Slots \cup {None}]
  /\ bump_ptr \in [Bins -> Nat] /\ \A b \in Bins : bump_ptr[b] <= Capacity(b)
  /\ free_list \in [Bins -> Seq(Slots)]
  /\ key_buf \in [Slots -> Feats \cup {NoFeat, None}]
  /\ key_file \in [Slots -> Feats \cup {NoFeat}]
  /\ page \in [Slots -> Vals \cup {None}]
  /\ data_file \in [Slots -> Vals \cup {Zero}]
  /\ flushing \in BOOLEAN /\ submitted \in BOOLEAN
  /\ sqes \subseteq Slots
  /\ late \subseteq Feats /\ dropped \subseteq Feats /\ orphaned \subseteq Feats
  /\ expect \in [Feats -> Vals \cup {Absent, Unsure}]
  /\ held \in [Feats -> Vals \cup {Absent, Unsure}]
  /\ durable \in [Feats -> Vals \cup {Absent, Unsure}]

\* While the database is open, a read returns what the last put or delete of
\* the feature left, in this session or in one that was closed; after a crash,
\* what it was when the last flush completed, if it was not touched since.
\* Excepted are puts during an asynchronous flush once that flush completes
\* (graveldb_flush_poll), and features that a crash left named by two slots
\* (rebuild_index_from_keys), until they are put again.
ExpectedRead ==
  up => \A f \in Feats : expect[f] # Unsure /\ f \notin dropped => Read(f) = expect[f]

\* The same without the exception for puts during an asynchronous flush.
AckedReadable == up => \A f \in Feats : expect[f] # Unsure => Read(f) = expect[f]

EffectiveKey(s) == IF key_buf[s] # None THEN key_buf[s] ELSE key_file[s]

Allocated == {s \in Slots : s - First(layout[s]) < bump_ptr[layout[s]]}

\* In every session a slot has one owner.  An indexed slot is named by its
\* feature in the key file or buffer, a free slot is named by none and is on
\* the free list once, and every other slot that was allocated is named by a
\* feature a crash left with two slots (dimbin_alloc_entry,
\* dimbin_free_entry, rebuild_index_from_keys).
SlotsOwnedOnce ==
  up => /\ \A f \in Feats : index[f] # None => EffectiveKey(index[f]) = f
        /\ \A b \in Bins : /\ IsInjective(free_list[b])
                           /\ \A s \in Range(free_list[b]) : EffectiveKey(s) = NoFeat
        /\ \A s \in Allocated : \/ EffectiveKey(s) \in orphaned
                                \/ \E f \in Feats : index[f] = s
                                \/ s \in Range(free_list[layout[s]])

\* An asynchronous get answers with a value its feature had between the call of
\* graveldb_batch_get_submit and the read, if the feature was not deleted, nor
\* a put of it dropped, in between.
GetInWindow ==
  get # None => (get.val # None /\ get.window # {Unsure} => get.val \in get.window)
=============================================================================
