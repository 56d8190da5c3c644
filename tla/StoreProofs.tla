---------------------------- MODULE StoreProofs -----------------------------
(***************************************************************************)
(* A database and its files, for any number of features, slots, bins and   *)
(* sessions: the loop of rebuild_index_from_keys over any layout and any   *)
(* content of the key files; what an allocation hands out and what an      *)
(* asynchronous get may answer; who owns which slot through puts, deletes, *)
(* flushes, crashes and reopening; and what a read returns after them.     *)
(***************************************************************************)
EXTENDS Store, WellFoundedInduction, TLAPS
-----------------------------------------------------------------------------
(* Induction over the natural numbers.  A property is the set of the       *)
(* numbers that have it, so that the facts below are first-order and can   *)
(* be cited like any other.                                                *)

\* A set of numbers that is not empty has a least member: used where the code
\* searches upwards and stops at the first hit.
LEMMA LeastMember ==
  ASSUME NEW T, T \subseteq Nat, T # {}
  PROVE  \E x \in T : \A y \in T : x <= y
<1> DEFINE R == {ss \in Nat \X Nat : ss[1] < ss[2]}
<1>1. OpToRel(<, Nat) = R
  BY Zenon DEF OpToRel
<1>2. IsWellFoundedOn(R, Nat)
  BY <1>1, NatLessThanWellFounded, Zenon
<1>3. \E x \in T : \A y \in T : ~ (<<y, x>> \in R)
  <2> HIDE DEF R
  <2> QED
    BY <1>2, WFMin, Zenon
<1>4. PICK x \in T : \A y \in T : ~ (<<y, x>> \in R)
  BY <1>3, Zenon
<1>5. ASSUME NEW y \in T PROVE x <= y
  <2>1. x \in Nat /\ y \in Nat
    OBVIOUS
  <2>2. ~(<<y, x>> \in R)
    BY <1>4, Zenon
  <2>3. <<y, x>> \in R <=> y < x
    BY <2>1, Zenon
  <2> QED
    BY <2>1, <2>2, <2>3
<1> QED
  BY <1>5, Zenon

\* A bounded set of numbers that is not empty has a greatest member.
LEMMA GreatestMember ==
  ASSUME NEW n \in Nat, NEW T, T \subseteq 0 .. n, T # {}
  PROVE  \E x \in T : \A y \in T : y <= x
<1> DEFINE D == {d \in Nat : n - d \in T}
<1>1. \A y \in T : y \in Int /\ n - y \in Nat /\ n - (n - y) = y
  OBVIOUS
<1>2. \A y \in T : n - y \in D
  BY <1>1, Zenon
<1>3. PICK d \in D : \A e \in D : d <= e
  BY <1>2, LeastMember, Zenon
<1>4. n - d \in T
  BY <1>3, Zenon
<1>5. ASSUME NEW y \in T PROVE y <= n - d
  BY <1>1, <1>2, <1>3, <1>5, SMTT(60)
<1> QED
  BY <1>4, <1>5, Zenon

\* Induction: a set that has 0 and, with a number, the next one, has them all.
LEMMA SetInduction ==
  ASSUME NEW S, 0 \in S, \A n \in Nat : n \in S => n + 1 \in S
  PROVE  Nat \subseteq S
<1> SUFFICES ASSUME ~(Nat \subseteq S) PROVE FALSE
  OBVIOUS
<1>1. Nat \ S # {}
  OBVIOUS
<1>2. PICK x \in Nat \ S : \A y \in Nat \ S : x <= y
  BY <1>1, LeastMember, Zenon
<1>3. x # 0 /\ x - 1 \in Nat /\ x - 1 + 1 = x
  BY <1>2
<1>4. x - 1 \notin S
  BY <1>3, <1>2, Zenon
<1> QED
  BY <1>2, <1>3, <1>4
-----------------------------------------------------------------------------
(* The free list of a bin is a stack of slots. *)

\* dimbin_free_entry pushes a slot.
LEMMA Pushed ==
  ASSUME NEW S, NEW seq \in Seq(S), NEW e \in S
  PROVE  /\ Append(seq, e) \in Seq(S)
         /\ Range(Append(seq, e)) = Range(seq) \cup {e}
         /\ IsInjective(seq) /\ e \notin Range(seq) => IsInjective(Append(seq, e))
<1> DEFINE n == Len(seq)
           t == Append(seq, e)
<1>1. n \in Nat /\ DOMAIN seq = 1 .. n /\ t \in Seq(S) /\ DOMAIN t = 1 .. n + 1
  OBVIOUS
<1>2. (\A i \in 1 .. n : t[i] = seq[i]) /\ t[n + 1] = e
  OBVIOUS
<1> HIDE DEF n, t
<1>3. Range(t) = Range(seq) \cup {e}
  <2>1. \A x : x \in Range(t) <=> \E i \in 1 .. n + 1 : x = t[i]
    BY <1>1, Zenon DEF Range
  <2>2. \A x : x \in Range(seq) <=> \E i \in 1 .. n : x = seq[i]
    BY <1>1, Zenon DEF Range
  <2>3. \A x : x \in Range(t) => x \in Range(seq) \cup {e}
    BY <1>1, <1>2, <2>1, <2>2
  <2>4. \A x : x \in Range(seq) \cup {e} => x \in Range(t)
    BY <1>1, <1>2, <2>1, <2>2
  <2> QED
    BY <2>3, <2>4, Zenon
<1>4. ASSUME IsInjective(seq), e \notin Range(seq) PROVE IsInjective(t)
  BY <1>1, <1>2, <1>4 DEF IsInjective, Range
<1> QED
  BY <1>1, <1>3, <1>4, Zenon DEF t

\* dimbin_alloc_entry pops the slot that was freed last.
LEMMA Popped ==
  ASSUME NEW S, NEW seq \in Seq(S), seq # <<>>, IsInjective(seq)
  PROVE  LET top == seq[Len(seq)]
             rest == SubSeq(seq, 1, Len(seq) - 1)
         IN  /\ rest \in Seq(S) /\ top \in S /\ top \in Range(seq)
             /\ Range(rest) = Range(seq) \ {top}
             /\ IsInjective(rest)
<1> DEFINE n == Len(seq)
           t == SubSeq(seq, 1, Len(seq) - 1)
<1>1. n \in Nat /\ n # 0 /\ DOMAIN seq = 1 .. n /\ t \in Seq(S) /\ DOMAIN t = 1 .. n - 1
  OBVIOUS
<1>2. \A i \in 1 .. n - 1 : t[i] = seq[i]
  OBVIOUS
<1>3. seq[n] \in S /\ n \in 1 .. n
  BY <1>1
<1> HIDE DEF n, t
<1>4. seq[n] \in Range(seq)
  BY <1>1, <1>3, Zenon DEF Range
<1>5. Range(t) = Range(seq) \ {seq[n]}
  <2>1. \A x : x \in Range(t) <=> \E i \in 1 .. n - 1 : x = seq[i]
    BY <1>1, <1>2, Zenon DEF Range
  <2>2. \A x : x \in Range(seq) <=> \E i \in 1 .. n : x = seq[i]
    BY <1>1, Zenon DEF Range
  <2>3. \A i \in 1 .. n - 1 : seq[i] # seq[n]
    BY <1>1, <1>3 DEF IsInjective
  <2>4. \A x : x \in Range(t) => x \in Range(seq) \ {seq[n]}
    BY <1>1, <1>3, <2>1, <2>2, <2>3
  <2>5. \A x : x \in Range(seq) \ {seq[n]} => x \in Range(t)
    BY <1>1, <1>3, <2>1, <2>2
  <2> QED
    BY <2>4, <2>5, Zenon
<1>6. IsInjective(t)
  BY <1>1, <1>2 DEF IsInjective
<1> QED
  BY <1>1, <1>3, <1>4, <1>5, <1>6, Zenon DEF t, n
-----------------------------------------------------------------------------
(* The slots of a bin follow one another. *)

\* What the layout of the files says about slots and bins.
LEMMA LayoutFacts ==
  ASSUME layout \in Layouts
  PROVE  /\ Len(layout) \in Nat /\ Slots = 1 .. Len(layout)
         /\ \A s \in Slots : layout[s] \in Nat /\ layout[s] \in Bins /\ s \in SlotsOf(layout[s])
         /\ \A s, t \in Slots : s <= t => layout[s] <= layout[t]
BY StoreAssumption DEF Slots, Bins, SlotsOf

\* The first and the last slot of a bin.
LEMMA BinBounds ==
  ASSUME layout \in Layouts, NEW b \in Bins
  PROVE  /\ First(b) \in SlotsOf(b) /\ First(b) \in Nat
         /\ Capacity(b) \in Nat \ {0}
         /\ \A s \in Slots : s \in SlotsOf(b) <=> First(b) <= s /\ s < First(b) + Capacity(b)
         /\ \A n \in Nat : n < Capacity(b) => First(b) + n \in SlotsOf(b)
<1> DEFINE B == SlotsOf(b)
<1>1. /\ Len(layout) \in Nat /\ Slots = 1 .. Len(layout)
      /\ \A s \in Slots : layout[s] \in Nat
      /\ \A s, t \in Slots : s <= t => layout[s] <= layout[t]
  BY LayoutFacts, Zenon
<1>2. B \subseteq 1 .. Len(layout) /\ B # {}
  BY <1>1, Zenon DEF SlotsOf, Bins
<1>3. B \subseteq Nat /\ B \subseteq 0 .. Len(layout)
  BY <1>1, <1>2
<1>4. \E x \in B : \A y \in B : x <= y
  <2> HIDE DEF B
  <2> QED
    BY <1>2, <1>3, LeastMember, Zenon
<1>5. \E x \in B : \A y \in B : y <= x
  <2> HIDE DEF B
  <2> QED
    BY <1>1, <1>2, <1>3, GreatestMember, Zenon
<1>6. First(b) \in B /\ \A y \in B : First(b) <= y
  BY <1>4, Zenon DEF First
<1>7. Last(b) \in B /\ \A y \in B : y <= Last(b)
  BY <1>5, Zenon DEF Last
<1>8. /\ Capacity(b) = Last(b) - First(b) + 1
       /\ First(b) \in Nat /\ Last(b) \in Nat /\ First(b) <= Last(b)
  BY <1>3, <1>6, <1>7, Zenon DEF Capacity
<1>9. ASSUME NEW s \in Slots PROVE s \in B <=> First(b) <= s /\ s <= Last(b)
  <2>1. s \in Nat /\ First(b) \in Slots /\ Last(b) \in Slots /\ layout[First(b)] = b /\ layout[Last(b)] = b
    BY <1>1, <1>6, <1>7 DEF SlotsOf
  <2>2. s \in B => First(b) <= s /\ s <= Last(b)
    BY <1>6, <1>7, Zenon
  <2>3. First(b) <= s /\ s <= Last(b) => layout[s] = b
    <3>1. layout[s] \in Nat /\ b \in Nat
      BY <1>1, <2>1, Zenon
    <3>2. First(b) <= s => b <= layout[s]
      BY <1>1, <2>1, Zenon
    <3>3. s <= Last(b) => layout[s] <= b
      BY <1>1, <2>1, Zenon
    <3> QED
      BY <3>1, <3>2, <3>3
  <2> QED
    BY <2>2, <2>3, Zenon DEF SlotsOf
<1>10. ASSUME NEW s \in Slots
       PROVE  s \in B <=> First(b) <= s /\ s < First(b) + Capacity(b)
  <2>1. s \in Nat
    BY <1>1
  <2>2. s \in B <=> First(b) <= s /\ s <= Last(b)
    BY <1>9, Zenon
  <2> HIDE DEF B
  <2> QED
    BY <1>8, <2>1, <2>2
<1>11. ASSUME NEW n \in Nat, n < Capacity(b) PROVE First(b) + n \in B
  <2>1. Last(b) \in 1 .. Len(layout) /\ First(b) \in 1 .. Len(layout)
    BY <1>2, <1>6, <1>7, Zenon
  <2>2. First(b) + n \in Slots /\ First(b) <= First(b) + n /\ First(b) + n < First(b) + Capacity(b)
    <3> HIDE DEF B
    <3> QED
      BY <1>1, <1>8, <1>11, <2>1
  <2> QED
    BY <1>10, <2>2, Zenon
<1> QED
  BY <1>6, <1>8, <1>10, <1>11
-----------------------------------------------------------------------------
(* rebuild_index_from_keys. *)

RebuildInit == [keys |-> key_file, buf |-> NoKeys, index |-> [f \in Feats |-> None],
                free |-> [b \in Bins |-> <<>>]]

RebuildStep(db, n) == IF layout[n] \in reserved THEN RebuildSlot(db, n) ELSE db

\* The loop over the slots is well defined: it starts from empty tables, and
\* visits one slot after another.
LEMMA RebuildDef ==
  ASSUME layout \in Layouts
  PROVE  /\ Rebuild[0] = RebuildInit
         /\ \A n \in 1 .. Len(layout) : Rebuild[n] = RebuildStep(Rebuild[n - 1], n)
<1> DEFINE N == Len(layout)
           Body(g, i) == IF i = 0 THEN RebuildInit ELSE RebuildStep(g[i - 1], i)
           Loop(g, n) == g = [i \in 0 .. n |-> Body(g, i)]
           S == {n \in Nat : \E g : Loop(g, n)}
<1>n. N \in Nat
  BY LayoutFacts, Zenon
<1>1. 0 \in S
  <2> DEFINE g == [i \in 0 .. 0 |-> RebuildInit]
  <2>1. g = [i \in 0 .. 0 |-> Body(g, i)]
    OBVIOUS
  <2>2. Loop(g, 0)
    BY <2>1, Zenon
  <2> QED
    BY <2>2, Zenon
<1>2. ASSUME NEW n \in Nat, n \in S PROVE n + 1 \in S
  <2>1. PICK g : Loop(g, n)
    BY <1>2, Zenon
  <2> DEFINE h == [i \in 0 .. n + 1 |-> IF i <= n THEN g[i] ELSE Body(g, i)]
  <2> HIDE DEF RebuildInit, RebuildStep
  <2>2. ASSUME NEW i \in 0 .. n + 1 PROVE h[i] = Body(h, i)
    <3>1. CASE i <= n
      <4>1. h[i] = g[i] /\ g[i] = Body(g, i)
        BY <2>1, <3>1
      <4>2. i # 0 => h[i - 1] = g[i - 1]
        BY <3>1
      <4> QED
        BY <4>1, <4>2, Zenon
    <3>2. CASE i = n + 1
      <4>1. h[i] = Body(g, i) /\ i # 0 /\ i - 1 = n
        BY <3>2
      <4>2. h[i - 1] = g[i - 1]
        BY <4>1
      <4> QED
        BY <4>1, <4>2, Zenon
    <3> QED
      BY <3>1, <3>2
  <2>3. Loop(h, n + 1)
    BY <2>2, Zenon
  <2> HIDE DEF h, Loop
  <2>4. n + 1 \in Nat /\ \E g0 : Loop(g0, n + 1)
    BY <2>3
  <2> QED
    BY <2>4, Zenon
<1>3. Nat \subseteq S
  <2> HIDE DEF S
  <2> QED
    BY <1>1, <1>2, SetInduction, Zenon
<1>4. \E g : Loop(g, N)
  BY <1>n, <1>3, Zenon
<1>5. Rebuild = [i \in 0 .. N |-> Body(Rebuild, i)]
  <2>1. Rebuild = CHOOSE g : Loop(g, N)
    BY Zenon DEF Rebuild, RebuildInit, RebuildStep
  <2> HIDE DEF Loop
  <2>2. Loop(Rebuild, N)
    BY <1>4, <2>1, Zenon
  <2> QED
    BY <2>2, Zenon DEF Loop
<1> HIDE DEF RebuildInit, RebuildStep
<1>6. Rebuild[0] = RebuildInit
  BY <1>n, <1>5
<1>7. ASSUME NEW n \in 1 .. N PROVE Rebuild[n] = RebuildStep(Rebuild[n - 1], n)
  BY <1>n, <1>5
<1> QED
  BY <1>6, <1>7, Zenon

\* The tables that are rebuilt.
Db == [keys : [Slots -> Feats \cup {NoFeat}], buf : [Slots -> {NoFeat, None}],
       index : [Feats -> Slots \cup {None}], free : [Bins -> Seq(Slots)]]

\* An empty slot is freed.
LEMMA RebuildEmpty ==
  ASSUME layout \in Layouts, NEW db \in Db, NEW s \in Slots, db.keys[s] = NoFeat
  PROVE  RebuildSlot(db, s) =
           [keys |-> db.keys, buf |-> [db.buf EXCEPT ![s] = NoFeat], index |-> db.index,
            free |-> [db.free EXCEPT ![layout[s]] = Append(db.free[layout[s]], s)]]
BY Zenon DEF RebuildSlot, Db

\* Slots p and s are cleared and freed, and feature f is indexed no more.
Discarded(db, p, s, f) ==
  [keys |-> [db.keys EXCEPT ![p] = NoFeat, ![s] = NoFeat],
   buf |-> [db.buf EXCEPT ![p] = NoFeat, ![s] = NoFeat],
   index |-> [db.index EXCEPT ![f] = None],
   free |-> [db.free EXCEPT ![layout[p]] = Append(db.free[layout[p]], p),
                            ![layout[s]] = Append(db.free[layout[s]], s)]]

\* A feature that is indexed in another bin is discarded from both slots.
LEMMA RebuildDiscard ==
  ASSUME layout \in Layouts, NEW db \in Db, NEW s \in Slots, NEW f \in Feats, NEW p \in Slots,
         db.keys[s] = f, db.index[f] = p, layout[p] # layout[s]
  PROVE  RebuildSlot(db, s) = Discarded(db, p, s, f)
<1>1. f # NoFeat /\ p # None /\ layout[p] \in Bins /\ layout[s] \in Bins
  BY StoreAssumption, LayoutFacts
<1> QED
  BY <1>1, ZenonT(60) DEF RebuildSlot, Db, Discarded

\* Any other feature is indexed.
LEMMA RebuildIndex ==
  ASSUME layout \in Layouts, NEW db \in Db, NEW s \in Slots, NEW f \in Feats,
         db.keys[s] = f, db.index[f] # None => layout[db.index[f]] = layout[s]
  PROVE  RebuildSlot(db, s) =
           [keys |-> db.keys, buf |-> db.buf, index |-> [db.index EXCEPT ![f] = s],
            free |-> db.free]
<1>1. f # NoFeat
  BY StoreAssumption, Zenon
<1> QED
  BY <1>1, Zenon DEF RebuildSlot, Db

\* The slot is one of the first n, in a bin with files.
Visited(s, n) == s <= n /\ layout[s] \in reserved

\* Keys are kept or cleared; what is indexed is named by its feature.
KeysKept(db, n) ==
  /\ \A s \in Slots : db.keys[s] = key_file[s] \/ (db.keys[s] = NoFeat /\ s <= n)
  /\ \A f \in Feats : db.index[f] # None =>
       /\ Visited(db.index[f], n)
       /\ db.keys[db.index[f]] = f /\ db.buf[db.index[f]] = None

\* The free lists hold, once, the slots that are named by no feature.
FreeExact(db, n) ==
  /\ \A s \in Slots : db.buf[s] = NoFeat <=> Visited(s, n) /\ db.keys[s] = NoFeat
  /\ \A b \in Bins : /\ IsInjective(db.free[b])
                     /\ \A s \in Slots : s \in Range(db.free[b]) <=> layout[s] = b /\ db.buf[s] = NoFeat

\* A feature that the key file names once is indexed there; a slot that is
\* neither indexed nor free is named by a feature that it names twice.
IndexExact(db, n) ==
  /\ \A s \in Slots, f \in Feats : key_file[s] = f /\ Visited(s, n) /\ ~Doubled(f) => db.index[f] = s
  /\ \A s \in Slots, f \in Feats : db.keys[s] = f /\ Visited(s, n) /\ db.index[f] # s => Doubled(f)

RebuildInv(db, n) == db \in Db /\ KeysKept(db, n) /\ FreeExact(db, n) /\ IndexExact(db, n)

\* The loop starts right.
LEMMA RebuildInvInit ==
  ASSUME layout \in Layouts, key_file \in [Slots -> Feats \cup {NoFeat}]
  PROVE  RebuildInv(RebuildInit, 0)
<1> USE StoreAssumption DEF RebuildInit
<1>1. \A s \in Slots : s \in Nat /\ ~(s <= 0)
  BY LayoutFacts
<1>2. RebuildInit \in Db
  BY DEF Db, NoKeys
<1>3. KeysKept(RebuildInit, 0)
  BY Zenon DEF KeysKept
<1>4. FreeExact(RebuildInit, 0)
  <2>1. IsInjective(<<>>) /\ Range(<<>>) = {}
    BY DEF IsInjective, Range
  <2> QED
    BY <1>1, <2>1, Zenon DEF FreeExact, NoKeys, Visited
<1>5. IndexExact(RebuildInit, 0)
  BY <1>1, Zenon DEF IndexExact, Visited
<1> QED
  BY <1>2, <1>3, <1>4, <1>5, Zenon DEF RebuildInv

\* The first n slots, and then the next.
LEMMA VisitedNext ==
  ASSUME layout \in Layouts, NEW n \in Nat, n + 1 \in Slots
  PROVE  \A s \in Slots : /\ s \in Nat
                          /\ Visited(s, n + 1) <=> Visited(s, n) \/ (s = n + 1 /\ layout[s] \in reserved)
                          /\ s <= n => s # n + 1 /\ s <= n + 1
                          /\ s <= n + 1 => s <= n \/ s = n + 1
BY LayoutFacts DEF Visited

\* One slot more: every branch of the loop's body keeps the invariant.
LEMMA RebuildInvStep ==
  ASSUME layout \in Layouts, key_file \in [Slots -> Feats \cup {NoFeat}],
         NEW n \in Nat, n + 1 \in Slots, NEW db, RebuildInv(db, n)
  PROVE  RebuildInv(RebuildStep(db, n + 1), n + 1)
<1> DEFINE m == n + 1
           r == RebuildStep(db, m)
<1>a. db \in Db /\ KeysKept(db, n) /\ FreeExact(db, n) /\ IndexExact(db, n)
  BY Zenon DEF RebuildInv
<1>v. /\ m \in Slots
      /\ \A s \in Slots : /\ s \in Nat
                          /\ Visited(s, m) <=> Visited(s, n) \/ (s = m /\ layout[s] \in reserved)
                          /\ s <= n => s # m /\ s <= m
                          /\ s <= m => s <= n \/ s = m
  BY VisitedNext, Zenon
<1>l. layout[m] \in Bins /\ ~Visited(m, n) /\ db.buf[m] = None /\ NoFeat # None
  <2>1. layout[m] \in Bins /\ ~Visited(m, n)
    BY <1>v, LayoutFacts, Zenon DEF Visited
  <2>2. db.buf[m] # NoFeat /\ db.buf[m] \in {NoFeat, None}
    BY <1>a, <1>v, <2>1, Zenon DEF FreeExact, Db
  <2> QED
    BY <2>1, <2>2, StoreAssumption, Zenon
<1>k. db.keys[m] = key_file[m]
  BY <1>a, <1>v, Zenon DEF KeysKept
<1> HIDE DEF m
<1>i. \A f \in Feats : db.index[f] # None => db.index[f] \in Slots /\ Visited(db.index[f], m)
  BY <1>a, <1>v DEF KeysKept, Db
<1>1. CASE layout[m] \notin reserved
  <2>1. r = db
    BY <1>1, Zenon DEF RebuildStep
  <2>2. \A s \in Slots : Visited(s, m) <=> Visited(s, n)
    BY <1>1, <1>v, Zenon
  <2>3. KeysKept(db, m)
    BY <1>a, <1>v, <1>i, Zenon DEF KeysKept
  <2>4. FreeExact(db, m)
    BY <1>a, <2>2, Zenon DEF FreeExact
  <2>5. IndexExact(db, m)
    BY <1>a, <2>2, Zenon DEF IndexExact
  <2> QED
    BY <1>a, <2>1, <2>3, <2>4, <2>5, Zenon DEF RebuildInv, m
<1>2. CASE layout[m] \in reserved /\ db.keys[m] = NoFeat
  <2>1. r = [keys |-> db.keys, buf |-> [db.buf EXCEPT ![m] = NoFeat], index |-> db.index,
             free |-> [db.free EXCEPT ![layout[m]] = Append(db.free[layout[m]], m)]]
    BY <1>2, <1>a, <1>v, RebuildEmpty, Zenon DEF RebuildStep
  <2>2. /\ r.keys = db.keys /\ r.index = db.index
        /\ \A s \in Slots : r.buf[s] = IF s = m THEN NoFeat ELSE db.buf[s]
        /\ \A b \in Bins : r.free[b] = IF b = layout[m] THEN Append(db.free[b], m) ELSE db.free[b]
    BY <1>a, <2>1, SMTT(30) DEF Db
  <2>3. r \in Db
    BY <1>a, <1>v, <1>l, <2>1, Pushed DEF Db
  <2> HIDE DEF r
  <2>4. KeysKept(r, m)
    <3>1. \A f \in Feats : db.index[f] # None => db.index[f] # m
      BY <1>a, <1>l, Zenon DEF KeysKept
    <3>2. \A f \in Feats : db.index[f] # None => r.buf[db.index[f]] = None
      BY <1>a, <1>i, <2>2, <3>1, Zenon DEF KeysKept
    <3> QED
      BY <1>a, <1>v, <1>i, <2>2, <3>2, ZenonT(60) DEF KeysKept
  <2>5. FreeExact(r, m)
    <3>1. \A s \in Slots : r.buf[s] = NoFeat <=> Visited(s, m) /\ r.keys[s] = NoFeat
      BY <1>a, <1>2, <1>v, <1>l, <2>2 DEF FreeExact
    <3>2. ASSUME NEW b \in Bins
          PROVE  /\ IsInjective(r.free[b])
                 /\ \A s \in Slots : s \in Range(r.free[b]) <=> layout[s] = b /\ r.buf[s] = NoFeat
      <4>1. IsInjective(db.free[b]) /\ db.free[b] \in Seq(Slots)
        BY <1>a, Zenon DEF FreeExact, Db
      <4>2. \A s \in Slots : s \in Range(db.free[b]) <=> layout[s] = b /\ db.buf[s] = NoFeat
        BY <1>a, Zenon DEF FreeExact
      <4>3. CASE b # layout[m]
        BY <1>v, <2>2, <4>1, <4>2, <4>3, Zenon
      <4>4. CASE b = layout[m]
        <5>1. m \notin Range(db.free[b])
          BY <1>v, <1>l, <4>2, Zenon
        <5>2. /\ Range(r.free[b]) = Range(db.free[b]) \cup {m}
              /\ IsInjective(r.free[b])
          BY <1>v, <2>2, <4>1, <4>4, <5>1, Pushed
        <5> QED
          BY <1>v, <1>l, <2>2, <4>2, <4>4, <5>2, Zenon
      <4> QED
        BY <4>3, <4>4, Zenon
    <3> QED
      BY <3>1, <3>2, Zenon DEF FreeExact
  <2>6. IndexExact(r, m)
    BY <1>a, <1>2, <1>k, <1>v, <2>2, StoreAssumption DEF IndexExact
  <2> QED
    BY <2>3, <2>4, <2>5, <2>6, Zenon DEF RebuildInv, r, m
<1>3. ASSUME layout[m] \in reserved, NEW f \in Feats, db.keys[m] = f, db.index[f] # None,
             layout[db.index[f]] # layout[m]
      PROVE  RebuildInv(r, m)
  <2>p. PICK p \in Slots : p = db.index[f]
    BY <1>3, <1>i, Zenon
  <2>1. p \in Slots /\ p # m /\ layout[p] \in Bins /\ Visited(p, n) /\ db.keys[p] = f
        /\ db.buf[p] = None
    BY <1>3, <1>a, <1>l, <2>p, LayoutFacts, Zenon DEF KeysKept
  <2>r. r = RebuildSlot(db, m)
    BY <1>3, Zenon DEF RebuildStep
  <2> HIDE DEF r
  <2>2. Doubled(f) /\ f # NoFeat
    <3>1. key_file[p] = f /\ key_file[m] = f /\ f # NoFeat
      BY <1>3, <1>a, <1>k, <2>1, StoreAssumption, Zenon DEF KeysKept
    <3> QED
      BY <1>v, <2>1, <3>1, Zenon DEF Doubled
  <2>3. r = [keys |-> [db.keys EXCEPT ![p] = NoFeat, ![m] = NoFeat],
             buf |-> [db.buf EXCEPT ![p] = NoFeat, ![m] = NoFeat],
             index |-> [db.index EXCEPT ![f] = None],
             free |-> [db.free EXCEPT ![layout[p]] = Append(db.free[layout[p]], p),
                                      ![layout[m]] = Append(db.free[layout[m]], m)]]
    <3>1. db.index[f] = p /\ layout[p] # layout[m]
      BY <1>3, <2>p, Zenon
    <3>2. db \in Db /\ m \in Slots /\ db.keys[m] = f
      BY <1>3, <1>a, <1>v, Zenon
    <3>3. r = Discarded(db, p, m, f)
      BY <2>r, <3>1, <3>2, RebuildDiscard
    <3> QED
      BY <3>3, Zenon DEF Discarded
  <2>4. /\ \A s \in Slots : r.keys[s] = IF s \in {p, m} THEN NoFeat ELSE db.keys[s]
        /\ \A s \in Slots : r.buf[s] = IF s \in {p, m} THEN NoFeat ELSE db.buf[s]
        /\ \A g \in Feats : r.index[g] = IF g = f THEN None ELSE db.index[g]
        /\ \A b \in Bins : r.free[b] = IF b = layout[m] THEN Append(db.free[b], m)
                                       ELSE IF b = layout[p] THEN Append(db.free[b], p)
                                       ELSE db.free[b]
    <3>1. \A s \in Slots : r.keys[s] = IF s \in {p, m} THEN NoFeat ELSE db.keys[s]
      BY <1>a, <2>3, Zenon DEF Db
    <3>2. \A s \in Slots : r.buf[s] = IF s \in {p, m} THEN NoFeat ELSE db.buf[s]
      BY <1>a, <2>3, Zenon DEF Db
    <3>3. \A g \in Feats : r.index[g] = IF g = f THEN None ELSE db.index[g]
      BY <1>a, <2>3, Zenon DEF Db
    <3>4. r.free = [db.free EXCEPT ![layout[p]] = Append(db.free[layout[p]], p),
                                   ![layout[m]] = Append(db.free[layout[m]], m)]
      BY <2>3, Zenon
    <3>5. \A b \in Bins : r.free[b] = IF b = layout[m] THEN Append(db.free[b], m)
                                      ELSE IF b = layout[p] THEN Append(db.free[b], p)
                                      ELSE db.free[b]
      <4>1. DOMAIN db.free = Bins /\ layout[m] # layout[p]
        BY <1>3, <1>a, <2>p, Zenon DEF Db
      <4> QED
        BY <3>4, <4>1, ZenonT(60)
    <3> QED
      BY <3>1, <3>2, <3>3, <3>5, Zenon
  <2>5. r \in Db
    <3>1. /\ [db.keys EXCEPT ![p] = NoFeat, ![m] = NoFeat] \in [Slots -> Feats \cup {NoFeat}]
          /\ [db.buf EXCEPT ![p] = NoFeat, ![m] = NoFeat] \in [Slots -> {NoFeat, None}]
          /\ [db.index EXCEPT ![f] = None] \in [Feats -> Slots \cup {None}]
      BY <1>a, Zenon DEF Db
    <3>2. /\ Append(db.free[layout[p]], p) \in Seq(Slots)
          /\ Append(db.free[layout[m]], m) \in Seq(Slots)
      BY <1>a, <1>v, <1>l, <2>1 DEF Db
    <3>3. [db.free EXCEPT ![layout[p]] = Append(db.free[layout[p]], p),
                          ![layout[m]] = Append(db.free[layout[m]], m)] \in [Bins -> Seq(Slots)]
      BY <1>a, <3>2, Zenon DEF Db
    <3> QED
      BY <2>3, <3>1, <3>3, Zenon DEF Db
  <2>6. KeysKept(r, m)
    <3>1. \A s \in Slots : r.keys[s] = key_file[s] \/ (r.keys[s] = NoFeat /\ s <= m)
      BY <1>a, <1>v, <2>1, <2>4 DEF KeysKept, Visited
    <3>2. ASSUME NEW g \in Feats, r.index[g] # None
          PROVE  /\ Visited(r.index[g], m)
                 /\ r.keys[r.index[g]] = g /\ r.buf[r.index[g]] = None
      <4>1. g # f /\ r.index[g] = db.index[g] /\ db.index[g] # None
        BY <2>4, <3>2, Zenon
      <4>2. db.keys[db.index[g]] = g /\ db.buf[db.index[g]] = None /\ Visited(db.index[g], m)
            /\ db.index[g] \in Slots
        BY <1>a, <1>i, <4>1, Zenon DEF KeysKept
      <4>3. db.index[g] \notin {p, m}
        BY <1>3, <2>1, <4>1, <4>2, Zenon
      <4> QED
        BY <2>4, <4>1, <4>2, <4>3
    <3> QED
      BY <3>1, <3>2, Zenon DEF KeysKept
  <2>7. FreeExact(r, m)
    <3>1. \A s \in Slots : r.buf[s] = NoFeat <=> Visited(s, m) /\ r.keys[s] = NoFeat
      BY <1>a, <1>3, <1>v, <2>1, <2>4 DEF FreeExact
    <3>2. ASSUME NEW b \in Bins
          PROVE  /\ IsInjective(r.free[b])
                 /\ \A s \in Slots : s \in Range(r.free[b]) <=> layout[s] = b /\ r.buf[s] = NoFeat
      <4>1. IsInjective(db.free[b]) /\ db.free[b] \in Seq(Slots)
        BY <1>a, Zenon DEF FreeExact, Db
      <4>2. \A s \in Slots : s \in Range(db.free[b]) <=> layout[s] = b /\ db.buf[s] = NoFeat
        BY <1>a, Zenon DEF FreeExact
      <4>3. CASE b \notin {layout[m], layout[p]}
        BY <1>v, <2>1, <2>4, <4>1, <4>2, <4>3, Zenon
      <4>4. ASSUME NEW q \in {m, p}, b = layout[q]
            PROVE  /\ IsInjective(r.free[b])
                   /\ \A s \in Slots : s \in Range(r.free[b]) <=> layout[s] = b /\ r.buf[s] = NoFeat
        <5>0. q \in Slots /\ q \notin Range(db.free[b])
          BY <1>v, <1>l, <2>1, <4>2, <4>4, Zenon
        <5>1. q \in Slots /\ q \notin Range(db.free[b]) /\ r.free[b] = Append(db.free[b], q)
          BY <1>3, <2>4, <2>p, <4>4, <5>0, ZenonT(60)
        <5>2. /\ Range(r.free[b]) = Range(db.free[b]) \cup {q}
              /\ IsInjective(r.free[b])
          BY <4>1, <5>1, Pushed
        <5>3. \A s \in Slots : layout[s] = b => (r.buf[s] = NoFeat <=> db.buf[s] = NoFeat \/ s = q)
          BY <1>3, <1>v, <2>1, <2>4, <2>p, <4>4
        <5> QED
          BY <4>2, <4>4, <5>1, <5>2, <5>3, Zenon
      <4> QED
        BY <4>3, <4>4, Zenon
    <3> QED
      BY <3>1, <3>2, Zenon DEF FreeExact
  <2>8. IndexExact(r, m)
    <3>1. ASSUME NEW s \in Slots, NEW g \in Feats, key_file[s] = g, Visited(s, m), ~Doubled(g)
          PROVE  r.index[g] = s
      <4>1. g # f /\ s # m
        BY <1>3, <1>k, <2>2, <3>1, Zenon
      <4>2. Visited(s, n)
        BY <1>v, <3>1, <4>1, Zenon
      <4> QED
        BY <1>a, <2>4, <3>1, <4>1, <4>2, Zenon DEF IndexExact
    <3>2. ASSUME NEW s \in Slots, NEW g \in Feats, r.keys[s] = g, Visited(s, m), r.index[g] # s
          PROVE  Doubled(g)
      <4>1. CASE g = f
        BY <2>2, <4>1, Zenon
      <4>2. CASE g # f
        <5>1. s \notin {p, m} /\ db.keys[s] = g /\ db.index[g] # s
          BY <2>4, <3>2, <4>2, StoreAssumption, Zenon
        <5>2. Visited(s, n)
          BY <1>v, <3>2, <5>1, Zenon
        <5> QED
          BY <1>a, <5>1, <5>2, Zenon DEF IndexExact
      <4> QED
        BY <4>1, <4>2, Zenon
    <3> QED
      BY <3>1, <3>2, Zenon DEF IndexExact
  <2> QED
    BY <2>5, <2>6, <2>7, <2>8, Zenon DEF RebuildInv
<1>4. ASSUME layout[m] \in reserved, NEW f \in Feats, db.keys[m] = f,
             db.index[f] # None => layout[db.index[f]] = layout[m]
      PROVE  RebuildInv(r, m)
  <2>r. r = RebuildSlot(db, m)
    BY <1>4, Zenon DEF RebuildStep
  <2> HIDE DEF r
  <2>1. r = [keys |-> db.keys, buf |-> db.buf, index |-> [db.index EXCEPT ![f] = m],
             free |-> db.free]
    BY <1>4, <1>a, <1>v, <2>r, RebuildIndex, Zenon
  <2>2. /\ r.keys = db.keys /\ r.buf = db.buf /\ r.free = db.free
        /\ \A g \in Feats : r.index[g] = IF g = f THEN m ELSE db.index[g]
    BY <1>a, <2>1, Zenon DEF Db
  <2>3. r \in Db
    BY <1>a, <1>v, <2>1, Zenon DEF Db
  <2>4. KeysKept(r, m)
    <3>1. \A s \in Slots : r.keys[s] = key_file[s] \/ (r.keys[s] = NoFeat /\ s <= m)
      BY <1>a, <1>v, <2>2 DEF KeysKept
    <3>2. ASSUME NEW g \in Feats, r.index[g] # None
          PROVE  /\ Visited(r.index[g], m)
                 /\ r.keys[r.index[g]] = g /\ r.buf[r.index[g]] = None
      <4>1. CASE g = f
        BY <1>4, <1>v, <1>l, <2>2, <4>1, Zenon
      <4>2. CASE g # f
        BY <1>a, <1>i, <2>2, <3>2, <4>2, Zenon DEF KeysKept
      <4> QED
        BY <4>1, <4>2, Zenon
    <3> QED
      BY <3>1, <3>2, Zenon DEF KeysKept
  <2>5. FreeExact(r, m)
    <3>1. \A s \in Slots : r.buf[s] = NoFeat <=> Visited(s, m) /\ r.keys[s] = NoFeat
      BY <1>a, <1>4, <1>v, <1>l, <2>2, StoreAssumption DEF FreeExact
    <3> QED
      BY <1>a, <2>2, <3>1 DEF FreeExact
  <2>6. IndexExact(r, m)
    <3>1. ASSUME NEW s \in Slots, NEW g \in Feats, key_file[s] = g, Visited(s, m), ~Doubled(g)
          PROVE  r.index[g] = s
      <4>1. CASE g = f
        BY <1>4, <1>k, <1>v, <2>2, <3>1, <4>1, Zenon DEF Doubled
      <4>2. CASE g # f
        <5>1. s # m
          BY <1>4, <1>k, <3>1, <4>2, Zenon
        <5> QED
          BY <1>a, <1>v, <2>2, <3>1, <4>2, <5>1, Zenon DEF IndexExact
      <4> QED
        BY <4>1, <4>2, Zenon
    <3>2. ASSUME NEW s \in Slots, NEW g \in Feats, r.keys[s] = g, Visited(s, m), r.index[g] # s
          PROVE  Doubled(g)
      <4>0. db.keys[s] = g
        BY <2>2, <3>2, Zenon
      <4>1. CASE g = f
        <5>1. s # m
          BY <2>2, <3>2, <4>1, Zenon
        <5>2. key_file[s] = f /\ key_file[m] = f
          BY <1>4, <1>a, <1>k, <4>0, <4>1, StoreAssumption, Zenon DEF KeysKept
        <5> QED
          BY <1>v, <4>1, <5>1, <5>2, Zenon DEF Doubled
      <4>2. CASE g # f
        <5>1. s # m /\ db.index[g] # s
          BY <1>4, <2>2, <3>2, <4>0, <4>2, Zenon
        <5> QED
          BY <1>a, <1>v, <3>2, <4>0, <5>1, Zenon DEF IndexExact
      <4> QED
        BY <4>1, <4>2, Zenon
    <3> QED
      BY <3>1, <3>2, Zenon DEF IndexExact
  <2> QED
    BY <2>3, <2>4, <2>5, <2>6, Zenon DEF RebuildInv
<1>5. db.keys[m] \in Feats \cup {NoFeat}
  BY <1>a, <1>v, Zenon DEF Db
<1> QED
  <2> HIDE DEF r
  <2>1. RebuildInv(r, m)
    <3>1. ASSUME NEW f \in Feats, db.keys[m] = f, layout[m] \in reserved
          PROVE  RebuildInv(r, m)
      <4>1. CASE db.index[f] # None /\ layout[db.index[f]] # layout[m]
        BY <1>3, <3>1, <4>1, Zenon
      <4>2. CASE db.index[f] # None => layout[db.index[f]] = layout[m]
        BY <1>4, <3>1, <4>2, Zenon
      <4> QED
        BY <4>1, <4>2, Zenon
    <3>2. layout[m] \notin reserved => RebuildInv(r, m)
      BY <1>1, Zenon DEF r, m
    <3>3. layout[m] \in reserved /\ db.keys[m] = NoFeat => RebuildInv(r, m)
      BY <1>2, Zenon DEF r, m
    <3> QED
      BY <1>5, <3>1, <3>2, <3>3, Zenon
  <2> QED
    BY <2>1, Zenon DEF r, m

\* What graveldb_open rebuilds: the invariant, for all slots.
LEMMA RebuiltInv ==
  ASSUME layout \in Layouts, key_file \in [Slots -> Feats \cup {NoFeat}]
  PROVE  RebuildInv(Rebuilt, Len(layout))
<1> DEFINE N == Len(layout)
           S == {n \in Nat : n <= N => RebuildInv(Rebuild[n], n)}
<1>0. N \in Nat /\ Slots = 1 .. N
  BY LayoutFacts, Zenon
<1>1. 0 \in S
  BY RebuildDef, RebuildInvInit, Zenon
<1>2. ASSUME NEW n \in Nat, n \in S PROVE n + 1 \in S
  <2> SUFFICES ASSUME n + 1 <= N PROVE RebuildInv(Rebuild[n + 1], n + 1)
    OBVIOUS
  <2>1. n <= N /\ n + 1 \in 1 .. N /\ (n + 1) - 1 = n
    BY <1>0
  <2>2. RebuildInv(Rebuild[n], n)
    BY <1>2, <2>1, Zenon
  <2>3. Rebuild[n + 1] = RebuildStep(Rebuild[n], n + 1)
    BY <2>1, RebuildDef, Zenon
  <2>4. n + 1 \in Slots
    BY <1>0, <2>1, Zenon
  <2> QED
    BY <2>2, <2>3, <2>4, RebuildInvStep, Zenon
<1>3. Nat \subseteq S
  <2> HIDE DEF S
  <2> QED
    BY <1>1, <1>2, SetInduction, Zenon
<1>4. RebuildInv(Rebuild[N], N)
  BY <1>0, <1>3
<1> QED
  BY <1>4, Zenon DEF Rebuilt
-----------------------------------------------------------------------------
(* The inductive invariant. *)

\* The asynchronous get, and what is left of memory while the process is down.
Gets == [feat : Feats \cup {None}, slot : Slots \cup {None}, val : Vals \cup {Zero, None},
         window : SUBSET (Vals \cup {Absent, Unsure})]

GetTyped ==
  get # None => get \in Gets /\ (get.val = None => get.feat \in Feats /\ get.slot \in Slots)

Down ==
  ~up => /\ opens < MaxOpens /\ ~flushing
         /\ key_buf = NoKeys /\ page = NoPages /\ get = None
         /\ held = [f \in Feats |-> Unsure]

Types == TypeOK /\ GetTyped /\ Down

\* SlotsOwnedOnce, and only allocated slots are in use.
Owned ==
  up => /\ SlotsOwnedOnce
        /\ \A f \in Feats : index[f] # None => index[f] \in Allocated
        /\ \A b \in Bins : Range(free_list[b]) \subseteq SlotsOf(b) \cap Allocated
        /\ \A s \in Slots : s \notin Allocated => key_file[s] = NoFeat /\ key_buf[s] = None

\* A bin whose files were never extended holds no key.
Extended ==
  \A s \in Slots : layout[s] \notin reserved => key_file[s] = NoFeat /\ key_buf[s] = None

Ownership == Owned /\ Extended

\* What is expected of the feature is known, and its key is written where it
\* is indexed and nowhere else.
Clean(f) ==
  /\ expect[f] # Unsure /\ f \notin dropped
  /\ \A s \in Slots : key_buf[s] # f
  /\ f \notin orphaned => /\ \A s \in Slots : key_file[s] = f => index[f] = s
                          /\ index[f] # None => key_file[index[f]] = f /\ key_buf[index[f]] = None

\* What a reopen after a crash must return is in the files already.
DurableOK ==
  up => \A f \in Feats : durable[f] # Unsure =>
          /\ Clean(f) /\ durable[f] = expect[f] /\ f \notin late
          /\ index[f] # None => data_file[index[f]] = expect[f]

\* What was held when the flush in flight was submitted is what is expected.
HeldOK ==
  up => \A f \in Feats : held[f] # Unsure =>
          Clean(f) /\ held[f] = expect[f] /\ f \notin late

\* Whatever was not put since then is in the files, or its write is queued.
Landing ==
  /\ up /\ flushing => \A f \in Feats :
       expect[f] # Unsure /\ f \notin late \cup dropped /\ index[f] # None =>
         index[f] \in sqes \/ data_file[index[f]] = expect[f]
  /\ ~flushing => late = {}

\* While the process is down, the files say what is expected.
OnDisk ==
  ~up => \A f \in Feats :
    /\ durable[f] # Unsure => expect[f] = durable[f] /\ f \notin dropped
    /\ expect[f] # Unsure /\ f \notin dropped \cup orphaned =>
         IF expect[f] = Absent THEN \A s \in Slots : key_file[s] # f
         ELSE \E s \in Slots : key_file[s] = f /\ data_file[s] = expect[f]

Reads == ExpectedRead /\ DurableOK /\ HeldOK /\ Landing /\ OnDisk

\* A get in flight reads a slot that still holds its feature.
GetOK ==
  get # None /\ get.val = None /\ get.window # {Unsure} =>
    /\ up /\ index[get.feat] = get.slot
    /\ data_file[get.slot] \in get.window
    /\ page[get.slot] # None => page[get.slot] \in get.window

StoreInv == Types /\ Ownership /\ Reads /\ GetOK /\ GetInWindow
-----------------------------------------------------------------------------
(* Types. *)

\* The layout never changes, and with it the slots of every bin.
LEMMA SameLayout ==
  ASSUME layout' = layout
  PROVE  /\ Slots' = Slots /\ Bins' = Bins
         /\ \A b : SlotsOf(b)' = SlotsOf(b) /\ First(b)' = First(b) /\ Capacity(b)' = Capacity(b)
         /\ NoKeys' = NoKeys /\ NoPages' = NoPages
BY Zenon DEF Slots, Bins, SlotsOf, First, Last, Capacity, NoKeys, NoPages

\* No step changes the layout.
LEMMA LayoutFixed ==
  ASSUME Next PROVE layout' = layout
BY Zenon DEF Next, Put, PutRefused, Delete, GetSubmit, GetLands, GetDone, Flush, FlushSubmit, WriteLands, PollAgain,
       PollDone, Close, Crash, Open, Ends, fileVars

\* Every layout has its keys and pages in range when they are written back.
LEMMA WrittenTyped ==
  ASSUME TypeOK
  PROVE  /\ \A S : KeysWritten(S) \in [Slots -> Feats \cup {NoFeat}]
         /\ \A S : PagesWritten(S) \in [Slots -> Vals \cup {Zero}]
         /\ Kept \in [Feats -> Vals \cup {Absent, Unsure}]
         /\ NoKeys \in [Slots -> Feats \cup {NoFeat, None}]
         /\ NoPages \in [Slots -> Vals \cup {None}]
<1>1. ASSUME NEW S PROVE KeysWritten(S) \in [Slots -> Feats \cup {NoFeat}]
  BY Zenon DEF TypeOK, KeysWritten
<1>2. ASSUME NEW S PROVE PagesWritten(S) \in [Slots -> Vals \cup {Zero}]
  BY Zenon DEF TypeOK, PagesWritten, ReadSlot
<1>3. Kept \in [Feats -> Vals \cup {Absent, Unsure}]
  BY Zenon DEF TypeOK, Kept
<1> QED
  BY <1>1, <1>2, <1>3, Zenon DEF NoKeys, NoPages

\* The slot that is allocated is one of the bin.
LEMMA AllocTyped ==
  ASSUME TypeOK, NEW b \in Bins, CanAlloc(b),
         Owned, up
  PROVE  Alloc(b) \in SlotsOf(b) /\ Alloc(b) \in Slots /\ layout[Alloc(b)] = b
<1>1. layout \in Layouts /\ free_list[b] \in Seq(Slots) /\ bump_ptr[b] \in Nat
  BY Zenon DEF TypeOK
<1>2. CASE free_list[b] # <<>>
  <2>1. free_list[b][Len(free_list[b])] \in Range(free_list[b])
    BY <1>1, <1>2 DEF Range
  <2>2. Range(free_list[b]) \subseteq SlotsOf(b)
    BY Zenon DEF Owned
  <2> QED
    BY <1>2, <2>1, <2>2, Zenon DEF Alloc, SlotsOf
<1>3. CASE free_list[b] = <<>>
  BY <1>1, <1>3, BinBounds, Zenon DEF Alloc, CanAlloc, SlotsOf
<1> QED
  BY <1>2, <1>3, Zenon

\* Types, step by step.
LEMMA TypesStep ==
  ASSUME Types, Owned, Next
  PROVE  TypeOK'
<1>l. /\ layout' = layout /\ Slots' = Slots /\ Bins' = Bins
      /\ \A b : Capacity(b)' = Capacity(b)
  BY LayoutFixed, SameLayout, Zenon
<1>t. TypeOK /\ GetTyped /\ Down
  BY Zenon DEF Types
<1>c. \A b \in Bins : Capacity(b) \in Nat
  BY <1>t, BinBounds, Zenon DEF TypeOK
<1>1. ASSUME NEW f \in Feats, NEW b \in Bins, NEW v \in Vals, Put(f, b, v) PROVE TypeOK'
  <2>1. /\ layout' \in Layouts /\ up' \in BOOLEAN /\ opens' \in 1..MaxOpens /\ use_uring' \in BOOLEAN
        /\ reserved' \subseteq Bins
        /\ key_file' \in [Slots -> Feats \cup {NoFeat}] /\ data_file' \in [Slots -> Vals \cup {Zero}]
        /\ flushing' \in BOOLEAN /\ submitted' \in BOOLEAN /\ sqes' \subseteq Slots
        /\ late' \subseteq Feats /\ dropped' \subseteq Feats /\ orphaned' \subseteq Feats
        /\ expect' \in [Feats -> Vals \cup {Absent, Unsure}]
        /\ held' \in [Feats -> Vals \cup {Absent, Unsure}]
        /\ durable' \in [Feats -> Vals \cup {Absent, Unsure}]
    BY <1>1, <1>t, <1>l, Zenon DEF Put, procVars, TypeOK
  <2>2. CASE index[f] # None
    <3>1. /\ index' = index /\ bump_ptr' = bump_ptr /\ free_list' = free_list
          /\ key_buf' = [key_buf EXCEPT ![index[f]] = f] /\ page' = [page EXCEPT ![index[f]] = v]
      BY <1>1, <2>2, Zenon DEF Put, slotVars
    <3>2. key_buf' \in [Slots -> Feats \cup {NoFeat, None}] /\ page' \in [Slots -> Vals \cup {None}]
      BY <1>t, <2>2, <3>1, Zenon DEF TypeOK
    <3> QED
      BY <1>t, <1>l, <2>1, <3>1, <3>2, Zenon DEF TypeOK
  <2>3. CASE index[f] = None
    <3>1. /\ CanAlloc(b)
          /\ index' = [index EXCEPT ![f] = Alloc(b)]
          /\ free_list' = [free_list EXCEPT ![b] = IF @ = <<>> THEN @ ELSE SubSeq(@, 1, Len(@) - 1)]
          /\ bump_ptr' = [bump_ptr EXCEPT ![b] = IF free_list[b] = <<>> THEN @ + 1 ELSE @]
          /\ key_buf' = [key_buf EXCEPT ![Alloc(b)] = f]
          /\ page' = [page EXCEPT ![Alloc(b)] = v]
      BY <1>1, <2>3, Zenon DEF Put
    <3>2. Alloc(b) \in Slots
      BY <1>t, <1>1, <3>1, AllocTyped, Zenon DEF Put
    <3>3. index' \in [Feats -> Slots \cup {None}]
      BY <1>t, <3>1, <3>2, Zenon DEF TypeOK
    <3>4. key_buf' \in [Slots -> Feats \cup {NoFeat, None}] /\ page' \in [Slots -> Vals \cup {None}]
      BY <1>t, <3>1, <3>2, Zenon DEF TypeOK
    <3>5. free_list' \in [Bins -> Seq(Slots)]
      <4>1. free_list[b] \in Seq(Slots) /\ free_list \in [Bins -> Seq(Slots)]
        BY <1>t, Zenon DEF TypeOK
      <4>2. free_list[b] # <<>> => SubSeq(free_list[b], 1, Len(free_list[b]) - 1) \in Seq(Slots)
        BY <4>1
      <4> QED
        BY <3>1, <4>1, <4>2, Zenon
    <3>6. bump_ptr' \in [Bins -> Nat] /\ \A c \in Bins : bump_ptr'[c] <= Capacity(c)
      <4>1. bump_ptr \in [Bins -> Nat] /\ \A c \in Bins : bump_ptr[c] <= Capacity(c)
        BY <1>t, Zenon DEF TypeOK
      <4>2. free_list[b] = <<>> => bump_ptr[b] < Capacity(b)
        BY <3>1, Zenon DEF CanAlloc
      <4> QED
        BY <1>c, <3>1, <4>1, <4>2
    <3> QED
      BY <1>l, <2>1, <3>3, <3>4, <3>5, <3>6, Zenon DEF TypeOK
  <2> QED
    BY <2>2, <2>3, Zenon
<1>2. ASSUME NEW f \in Feats, Delete(f) PROVE TypeOK'
  <2>1. index[f] \in Slots /\ layout[index[f]] \in Bins
    BY <1>2, <1>t, LayoutFacts, Zenon DEF Delete, TypeOK
  <2>2. /\ free_list' = [free_list EXCEPT ![layout[index[f]]] = Append(@, index[f])]
        /\ key_buf' = [key_buf EXCEPT ![index[f]] = NoFeat]
        /\ index' = [index EXCEPT ![f] = None]
    BY <1>2, Zenon DEF Delete
  <2>3. free_list' \in [Bins -> Seq(Slots)]
    <3>1. free_list[layout[index[f]]] \in Seq(Slots) /\ free_list \in [Bins -> Seq(Slots)]
      BY <1>t, <2>1, Zenon DEF TypeOK
    <3>2. Append(free_list[layout[index[f]]], index[f]) \in Seq(Slots)
      BY <2>1, <3>1
    <3> QED
      BY <2>2, <3>1, <3>2, Zenon
  <2>4. /\ index' \in [Feats -> Slots \cup {None}]
        /\ key_buf' \in [Slots -> Feats \cup {NoFeat, None}]
    BY <1>t, <2>1, <2>2, Zenon DEF TypeOK
  <2> QED
    BY <1>2, <1>t, <1>l, <2>3, <2>4, Zenon DEF Delete, TypeOK, procVars, fileVars
<1>3. CASE GetLands \/ GetDone \/ \E f \in Feats : GetSubmit(f)
  BY <1>3, <1>t, <1>l DEF GetLands, GetDone, GetSubmit, TypeOK, procVars, fileVars, slotVars, ringVars, histVars
<1>w. /\ \A S : KeysWritten(S) \in [Slots -> Feats \cup {NoFeat}]
      /\ \A S : PagesWritten(S) \in [Slots -> Vals \cup {Zero}]
      /\ Kept \in [Feats -> Vals \cup {Absent, Unsure}]
      /\ NoKeys \in [Slots -> Feats \cup {NoFeat, None}]
      /\ NoPages \in [Slots -> Vals \cup {None}]
  BY <1>t, WrittenTyped, Zenon
<1>4. CASE Flush
  BY <1>4, <1>t, <1>l, <1>w, Zenon DEF Flush, WriteBack, TypeOK, procVars, slotVars, ringVars
<1>5. CASE FlushSubmit
  BY <1>5, <1>t, <1>l, <1>w, Zenon DEF FlushSubmit, TypeOK, procVars, slotVars, histVars, Resident
<1>6. CASE \E s \in sqes : WriteLands(s)
  BY <1>6, <1>t, <1>l, <1>w DEF WriteLands, TypeOK, procVars, slotVars, histVars
<1>7. CASE PollAgain
  BY <1>7, <1>t, <1>l, Zenon DEF PollAgain, TypeOK, procVars, fileVars, slotVars, histVars
<1>8. CASE PollDone
  BY <1>8, <1>t, <1>l, <1>w, Zenon DEF PollDone, TypeOK, procVars, fileVars, slotVars
<1>9. CASE Ends /\ up /\ (Close \/ \E K \in SUBSET Slots, P \in SUBSET Resident : Crash(K, P))
  <2>1. /\ key_file' \in [Slots -> Feats \cup {NoFeat}] /\ data_file' \in [Slots -> Vals \cup {Zero}]
        /\ expect' \in [Feats -> Vals \cup {Absent, Unsure}]
        /\ durable' \in [Feats -> Vals \cup {Absent, Unsure}]
        /\ dropped' \subseteq Feats
    BY <1>9, <1>t, <1>w DEF Close, Crash, TypeOK
  <2>2. /\ index' \in [Feats -> Slots \cup {None}]
        /\ bump_ptr' \in [Bins -> Nat] /\ \A b \in Bins : bump_ptr'[b] <= Capacity(b)
        /\ free_list' \in [Bins -> Seq(Slots)]
        /\ key_buf' \in [Slots -> Feats \cup {NoFeat, None}] /\ page' \in [Slots -> Vals \cup {None}]
        /\ held' \in [Feats -> Vals \cup {Absent, Unsure}]
        /\ up' = FALSE /\ flushing' = FALSE /\ submitted' = FALSE /\ sqes' = {} /\ late' = {}
        /\ opens' = opens /\ use_uring' = use_uring /\ reserved' = reserved /\ orphaned' = orphaned
    BY <1>9, <1>c, <1>w DEF Ends
  <2> QED
    BY <1>t, <1>l, <2>1, <2>2, Zenon DEF TypeOK
<1>10. CASE Open
  <2>1. /\ up' = TRUE /\ opens' \in 1 .. MaxOpens /\ use_uring' = use_uring /\ reserved' = reserved
        /\ data_file' = data_file /\ page' = page /\ flushing' = flushing /\ submitted' = submitted
        /\ sqes' = sqes /\ held' = held /\ late' = late /\ dropped' = dropped
        /\ orphaned' \subseteq Feats
    BY <1>10, <1>t, StoreAssumption DEF Open, Down, TypeOK, ringVars
  <2>2. Rebuilt \in Db
    BY <1>t, RebuiltInv, Zenon DEF TypeOK, RebuildInv
  <2>3. /\ key_file' \in [Slots -> Feats \cup {NoFeat}] /\ key_buf' \in [Slots -> Feats \cup {NoFeat, None}]
        /\ index' \in [Feats -> Slots \cup {None}] /\ free_list' \in [Bins -> Seq(Slots)]
    BY <1>10, <2>2, Zenon DEF Open, Db
  <2>4. bump_ptr' \in [Bins -> Nat] /\ \A b \in Bins : bump_ptr'[b] <= Capacity(b)
    <3>1. bump_ptr' = [b \in Bins |-> IF b \in reserved THEN Capacity(b) ELSE 0]
      BY <1>10, Zenon DEF Open
    <3>2. \A b \in Bins : Capacity(b) <= Capacity(b) /\ 0 <= Capacity(b) /\ 0 \in Nat
      BY <1>c
    <3> QED
      BY <1>c, <3>1, <3>2, Zenon
  <2>5. /\ expect' \in [Feats -> Vals \cup {Absent, Unsure}]
        /\ durable' \in [Feats -> Vals \cup {Absent, Unsure}]
    BY <1>10, <1>t, Zenon DEF Open, TypeOK
  <2> QED
    BY <1>t, <1>l, <2>1, <2>3, <2>4, <2>5, Zenon DEF TypeOK
<1>e. Close \/ (\E K \in SUBSET Slots, P \in SUBSET Resident : Crash(K, P)) => Ends /\ up
  BY Zenon DEF Close, Crash
<1>11. ASSUME NEW f \in Feats, NEW b \in Bins, PutRefused(f, b) PROVE TypeOK'
  BY <1>11, <1>t, <1>l, Zenon DEF PutRefused, TypeOK, procVars, slotVars, ringVars, histVars
<1> QED
  BY <1>1, <1>2, <1>3, <1>4, <1>5, <1>6, <1>7, <1>8, <1>9, <1>10, <1>11, <1>e, Zenon DEF Next

\* What a put or a delete does to the window of the get in flight.
LEMMA SeenFacts ==
  ASSUME GetTyped, NEW f, NEW v \in Vals \cup {Absent, Unsure}
  PROVE  /\ get = None => Seen(f, v) = None
         /\ get # None =>
              /\ Seen(f, v) \in Gets
              /\ Seen(f, v).feat = get.feat /\ Seen(f, v).slot = get.slot /\ Seen(f, v).val = get.val
              /\ Seen(f, v).window = IF get.val = None /\ get.feat = f /\ get.window # {Unsure}
                                     THEN IF v = Unsure THEN {Unsure} ELSE get.window \cup {v}
                                     ELSE get.window
<1>1. CASE get # None /\ get.val = None /\ get.feat = f /\ get.window # {Unsure}
  <2>1. get \in Gets
    BY <1>1, Zenon DEF GetTyped
  <2> DEFINE w == IF v = Unsure THEN {Unsure} ELSE get.window \cup {v}
  <2>2. w \in SUBSET (Vals \cup {Absent, Unsure})
    BY <2>1, Zenon DEF Gets
  <2>3. Seen(f, v) = [get EXCEPT !.window = w]
    BY <1>1, Zenon DEF Seen
  <2> HIDE DEF w
  <2>4. /\ Seen(f, v) \in Gets /\ Seen(f, v).feat = get.feat /\ Seen(f, v).slot = get.slot
        /\ Seen(f, v).val = get.val /\ Seen(f, v).window = w
    BY <2>1, <2>2, <2>3, Zenon DEF Gets
  <2> QED
    BY <1>1, <2>4, Zenon DEF w
<1>2. CASE ~(get # None /\ get.val = None /\ get.feat = f /\ get.window # {Unsure})
  <2>1. Seen(f, v) = get
    BY <1>2, Zenon DEF Seen
  <2> QED
    BY <1>2, <2>1, Zenon DEF GetTyped
<1> QED
  BY <1>1, <1>2, Zenon

\* Puts, deletes and the completion of a flush change the window at most.
GetChanges ==
  \/ \E f \in Feats, b \in Bins, v \in Vals : Put(f, b, v)
  \/ \E f \in Feats : Delete(f)
  \/ PollDone

\* A get in flight names a stored feature and its slot
\* (graveldb_batch_get_submit).
LEMMA GetTypedStep ==
  ASSUME Types, Next
  PROVE  GetTyped'
<1>l. layout' = layout /\ Slots' = Slots
  BY LayoutFixed, SameLayout, Zenon
<1>t. TypeOK /\ GetTyped
  BY Zenon DEF Types
<1> USE DEF GetTyped
<1>1. ASSUME GetChanges PROVE GetTyped'
  <2>1. get' = get \/ \E f, v : v \in Vals \cup {Absent, Unsure} /\ get' = Seen(f, v)
    BY <1>1 DEF GetChanges, Put, Delete, PollDone
  <2>2. get' = get => GetTyped'
    BY <1>t, <1>l, Zenon DEF Gets
  <2>3. ASSUME NEW f, NEW v \in Vals \cup {Absent, Unsure}, get' = Seen(f, v) PROVE GetTyped'
    <3>1. \/ get # None /\ get' \in Gets /\ get'.feat = get.feat /\ get'.slot = get.slot /\ get'.val = get.val
          \/ get' = None
      BY <1>t, <2>3, SeenFacts, Zenon
    <3> QED
      BY <1>t, <1>l, <3>1, Zenon DEF Gets
  <2> QED
    BY <2>1, <2>2, <2>3, Zenon
<1>2. ASSUME NEW f \in Feats, GetSubmit(f) PROVE GetTyped'
  <2>1. get' = [feat |-> f, slot |-> index[f], val |-> None, window |-> {expect[f]}]
    BY <1>2, Zenon DEF GetSubmit
  <2>2. index[f] \in Slots /\ expect[f] \in Vals \cup {Absent, Unsure}
    BY <1>2, <1>t, Zenon DEF GetSubmit, TypeOK
  <2> QED
    BY <1>l, <2>1, <2>2, Zenon DEF Gets
<1>3. CASE GetLands
  <2>1. get \in Gets /\ get.slot \in Slots
    BY <1>3, <1>t, Zenon DEF GetLands
  <2>2. data_file[get.slot] \in Vals \cup {Zero} /\ data_file[get.slot] # None
    BY <1>t, <2>1, StoreAssumption, Zenon DEF TypeOK
  <2>3. get' = [get EXCEPT !.feat = None, !.slot = None, !.val = data_file[get.slot]]
    BY <1>3, Zenon DEF GetLands
  <2>4. get' \in Gets /\ get'.val # None
    BY <2>1, <2>2, <2>3, Zenon DEF Gets
  <2> QED
    BY <1>l, <2>4, Zenon DEF Gets
<1>4. CASE GetDone
  BY <1>4, Zenon DEF GetDone
<1>5. ASSUME get' \in {get, None} PROVE GetTyped'
  BY <1>5, <1>t, <1>l, Zenon DEF Gets
<1>6. Next => GetChanges \/ (\E f \in Feats : GetSubmit(f)) \/ GetLands \/ get' \in {get, None}
  BY Zenon DEF Next, GetChanges, PutRefused, GetDone, Flush, FlushSubmit, WriteLands, PollAgain, Close, Crash, Ends, Open
<1> QED
  BY <1>1, <1>2, <1>3, <1>5, <1>6, Zenon

\* A process that has ended left nothing in memory (graveldb_close, a crash).
LEMMA DownStep ==
  ASSUME Types, Next
  PROVE  Down'
<1>l. layout' = layout /\ NoKeys' = NoKeys /\ NoPages' = NoPages
  BY LayoutFixed, SameLayout, Zenon
<1>1. CASE Close \/ \E K \in SUBSET Slots, P \in SUBSET Resident : Crash(K, P)
  <2>1. Ends /\ opens < MaxOpens
    BY <1>1, Zenon DEF Close, Crash
  <2> QED
    BY <1>l, <2>1, Zenon DEF Down, Ends
<1>2. CASE ~(Close \/ \E K \in SUBSET Slots, P \in SUBSET Resident : Crash(K, P))
  <2>1. (up /\ up' = up) \/ up' = TRUE
    BY <1>2, ZenonT(60) DEF Next, Put, PutRefused, Delete, GetSubmit, GetLands, GetDone, Flush, FlushSubmit,
                            WriteLands, PollAgain, PollDone, Open, procVars
  <2>2. up'
    BY <2>1
  <2> QED
    BY <2>2, Zenon DEF Down
<1> QED
  BY <1>1, <1>2, Zenon
-----------------------------------------------------------------------------
(* Who owns which slot. *)

\* Two features never share a slot, and a slot named by a feature that has no
\* second slot is the one where the feature is indexed.
LEMMA KeyIndexed ==
  ASSUME TypeOK, Owned, up
  PROVE  /\ \A f, g \in Feats : index[f] # None /\ index[f] = index[g] => f = g
         /\ \A f \in Feats, s \in Slots : EffectiveKey(s) = f /\ f \notin orphaned => index[f] = s
<1>1. SlotsOwnedOnce
  BY Zenon DEF Owned
<1>2. ASSUME NEW f \in Feats, NEW g \in Feats, index[f] # None, index[f] = index[g] PROVE f = g
  BY <1>1, <1>2, Zenon DEF SlotsOwnedOnce
<1>3. ASSUME NEW f \in Feats, NEW s \in Slots, EffectiveKey(s) = f, f \notin orphaned
      PROVE  index[f] = s
  <2>1. f # NoFeat /\ f # None
    BY StoreAssumption, Zenon
  <2>2. s \in Allocated
    BY <1>3, <2>1, Zenon DEF Owned, EffectiveKey
  <2>3. s \notin Range(free_list[layout[s]])
    <3>1. layout[s] \in Bins
      BY LayoutFacts, Zenon DEF TypeOK
    <3> QED
      BY <1>1, <1>3, <2>1, <3>1, Zenon DEF SlotsOwnedOnce
  <2>4. PICK g \in Feats : index[g] = s
    BY <1>1, <1>3, <2>2, <2>3, Zenon DEF SlotsOwnedOnce
  <2>5. index[g] # None
    BY <2>4, LayoutFacts, StoreAssumption DEF TypeOK
  <2> QED
    BY <1>1, <1>3, <2>4, <2>5, Zenon DEF SlotsOwnedOnce
<1> QED
  BY <1>2, <1>3, Zenon

\* Slots keep their owners when the keys that name them stay.
LEMMA SameOwners ==
  ASSUME Owned, up, layout' = layout, index' = index, bump_ptr' = bump_ptr, free_list' = free_list,
         orphaned' = orphaned,
         \A s \in Slots : EffectiveKey(s)' = EffectiveKey(s),
         \A s \in Slots : key_file[s] = NoFeat /\ key_buf[s] = None =>
                            key_file'[s] = NoFeat /\ key_buf'[s] = None
  PROVE  Owned'
<1>1. Slots' = Slots /\ Bins' = Bins /\ Allocated' = Allocated /\ \A b : SlotsOf(b)' = SlotsOf(b)
  <2>1. Slots' = Slots /\ Bins' = Bins /\ \A b : SlotsOf(b)' = SlotsOf(b) /\ First(b)' = First(b)
    BY SameLayout, Zenon
  <2> QED
    BY <2>1, Zenon DEF Allocated
<1>o. /\ SlotsOwnedOnce
      /\ \A f \in Feats : index[f] # None => index[f] \in Allocated
      /\ \A b \in Bins : Range(free_list[b]) \subseteq SlotsOf(b) \cap Allocated
      /\ \A s \in Slots : s \notin Allocated => key_file[s] = NoFeat /\ key_buf[s] = None
  BY Zenon DEF Owned
<1>a. Allocated \subseteq Slots /\ \A b : SlotsOf(b) \subseteq Slots
  BY Zenon DEF Allocated, SlotsOf
<1>2. SlotsOwnedOnce'
  <2>1. \A f \in Feats : index[f] # None => EffectiveKey(index[f])' = f
    BY <1>o, <1>a, Zenon DEF SlotsOwnedOnce
  <2>2. \A b \in Bins : IsInjective(free_list[b]) /\ \A s \in Range(free_list[b]) : EffectiveKey(s)' = NoFeat
    BY <1>o, <1>a, Zenon DEF SlotsOwnedOnce
  <2>3. \A s \in Allocated : \/ EffectiveKey(s)' \in orphaned
                             \/ \E f \in Feats : index[f] = s
                             \/ s \in Range(free_list[layout[s]])
    BY <1>o, <1>a, Zenon DEF SlotsOwnedOnce
  <2> QED
    BY <1>1, <2>1, <2>2, <2>3, Zenon DEF SlotsOwnedOnce
<1> QED
  BY <1>1, <1>2, <1>o, Zenon DEF Owned

\* Slots that dimbin_alloc_entry may return are nobody's.
LEMMA AllocFacts ==
  ASSUME Types, Owned, up, NEW b \in Bins, CanAlloc(b)
  PROVE  /\ Alloc(b) \in Slots /\ layout[Alloc(b)] = b
         /\ EffectiveKey(Alloc(b)) = NoFeat
         /\ \A g \in Feats : index[g] # Alloc(b)
         /\ \A c \in Bins : c # b => Alloc(b) \notin Range(free_list[c])
<1> DEFINE a == Alloc(b)
<1>t. TypeOK
  BY Zenon DEF Types
<1>1. a \in Slots /\ layout[a] = b
  BY <1>t, AllocTyped, Zenon
<1>2. EffectiveKey(a) = NoFeat
  <2>1. layout \in Layouts /\ free_list[b] \in Seq(Slots) /\ bump_ptr[b] \in Nat
    BY <1>t, Zenon DEF TypeOK
  <2>2. CASE free_list[b] # <<>>
    <3>1. a \in Range(free_list[b])
      BY <2>1, <2>2 DEF Range, Alloc
    <3> QED
      BY <3>1, Zenon DEF Owned, SlotsOwnedOnce
  <2>3. CASE free_list[b] = <<>>
    <3>1. a = First(b) + bump_ptr[b] /\ First(b) \in Nat
      BY <2>1, <2>3, BinBounds, Zenon DEF Alloc
    <3>2. a \notin Allocated
      BY <1>1, <2>1, <3>1 DEF Allocated
    <3> QED
      BY <1>1, <3>2, Zenon DEF Owned, EffectiveKey
  <2> QED
    BY <2>2, <2>3, Zenon
<1>3. ASSUME NEW g \in Feats PROVE index[g] # a
  <2>1. a # None /\ g # NoFeat
    BY <1>1, <1>t, LayoutFacts, StoreAssumption DEF TypeOK
  <2> HIDE DEF a
  <2> QED
    BY <1>2, <2>1, Zenon DEF Owned, SlotsOwnedOnce
<1>4. \A c \in Bins : c # b => a \notin Range(free_list[c])
  BY <1>1, Zenon DEF Owned, SlotsOf
<1> QED
  BY <1>1, <1>2, <1>3, <1>4, Zenon

\* A stored feature never reads as absent.
LEMMA ReadFacts ==
  ASSUME TypeOK
  PROVE  /\ \A s \in Slots : ReadSlot(s) \in Vals \cup {Zero} /\ ReadSlot(s) # Absent
         /\ \A f \in Feats : index[f] # None => index[f] \in Slots /\ Read(f) = ReadSlot(index[f])
         /\ \A f \in Feats : Read(f) = Absent <=> index[f] = None
<1>1. \A s \in Slots : ReadSlot(s) \in Vals \cup {Zero}
  BY Zenon DEF TypeOK, ReadSlot
<1>2. Absent \notin Vals \cup {Zero}
  BY StoreAssumption, Zenon
<1>3. \A f \in Feats : index[f] # None => index[f] \in Slots /\ Read(f) = ReadSlot(index[f])
  BY Zenon DEF TypeOK, Read
<1> QED
  BY <1>1, <1>2, <1>3, Zenon DEF Read

\* The step writes f's value v to slot a, which is f's and no other feature's.
PutAt(f, v, a) ==
  /\ index'[f] = a /\ \A g \in Feats : g # f => index'[g] = index[g] /\ index[g] # a
  /\ page'[a] = v /\ \A s \in Slots : s # a => page'[s] = page[s] /\ key_buf'[s] = key_buf[s]
  /\ key_buf'[a] \in {key_buf[a], f}
  /\ index[f] \in {None, a}

\* A put writes one slot, which is its feature's and no other's.
LEMMA PutFacts ==
  ASSUME Types, Ownership, NEW f \in Feats, NEW b \in Bins, NEW v \in Vals, Put(f, b, v)
  PROVE  \E a \in Slots : PutAt(f, v, a)
<1>t. TypeOK /\ Owned /\ up
  BY Zenon DEF Types, Ownership, Put
<1>1. CASE index[f] # None
  <2>1. /\ index' = index /\ key_buf' = [key_buf EXCEPT ![index[f]] = f]
        /\ page' = [page EXCEPT ![index[f]] = v]
    BY <1>1, Zenon DEF Put, slotVars
  <2>2. index[f] \in Slots
    BY <1>1, <1>t, Zenon DEF TypeOK
  <2>3. \A g \in Feats : g # f => index[g] # index[f]
    BY <1>1, <1>t, KeyIndexed, Zenon
  <2>4. page'[index[f]] = v /\ \A s \in Slots : s # index[f] => page'[s] = page[s]
    BY <1>t, <2>1, <2>2, Zenon DEF TypeOK
  <2>5. key_buf'[index[f]] = f /\ \A s \in Slots : s # index[f] => key_buf'[s] = key_buf[s]
    BY <1>t, <2>1, <2>2, Zenon DEF TypeOK
  <2> QED
    BY <1>1, <2>1, <2>2, <2>3, <2>4, <2>5, Zenon DEF PutAt
<1>2. CASE index[f] = None
  <2>1. /\ CanAlloc(b) /\ index' = [index EXCEPT ![f] = Alloc(b)]
        /\ key_buf' = [key_buf EXCEPT ![Alloc(b)] = f] /\ page' = [page EXCEPT ![Alloc(b)] = v]
    BY <1>2, Zenon DEF Put
  <2>2. Alloc(b) \in Slots /\ \A g \in Feats : index[g] # Alloc(b)
    BY <1>t, <2>1, AllocFacts, Zenon
  <2>3. index'[f] = Alloc(b) /\ \A g \in Feats : g # f => index'[g] = index[g]
    BY <1>t, <2>1, Zenon DEF TypeOK
  <2>4. page'[Alloc(b)] = v /\ \A s \in Slots : s # Alloc(b) => page'[s] = page[s]
    BY <1>t, <2>1, <2>2, Zenon DEF TypeOK
  <2>5. key_buf'[Alloc(b)] = f /\ \A s \in Slots : s # Alloc(b) => key_buf'[s] = key_buf[s]
    BY <1>t, <2>1, <2>2, Zenon DEF TypeOK
  <2> QED
    BY <1>2, <2>2, <2>3, <2>4, <2>5, Zenon DEF PutAt
<1> QED
  BY <1>1, <1>2, Zenon

-----------------------------------------------------------------------------
(* The asynchronous get. *)

\* The get in flight, if it is judged at all.
Judged == get # None /\ get.val = None /\ get.window # {Unsure}

\* The slot of a get in flight stays its feature's.
LEMMA GetStep ==
  ASSUME Types, Ownership, Reads, GetOK, GetInWindow, Next
  PROVE  GetOK' /\ GetInWindow'
<1>t. TypeOK /\ GetTyped /\ Down /\ Owned /\ ExpectedRead
  BY Zenon DEF Types, Ownership, Reads
<1>l. layout' = layout /\ Slots' = Slots
  BY LayoutFixed, SameLayout, Zenon
<1>j. Judged => get.feat \in Feats /\ get.slot \in Slots
  BY <1>t, Zenon DEF Judged, GetTyped
<1>g. Judged => /\ up /\ index[get.feat] = get.slot
                /\ data_file[get.slot] \in get.window
                /\ page[get.slot] # None => page[get.slot] \in get.window
  BY Zenon DEF GetOK, Judged
<1>r. Judged => ReadSlot(get.slot) \in get.window
  BY <1>g, Zenon DEF ReadSlot
<1>same. ASSUME get' = get,
                Judged => /\ up' /\ index'[get.feat] = get.slot
                          /\ data_file'[get.slot] \in get.window
                          /\ page'[get.slot] # None => page'[get.slot] \in get.window
         PROVE  GetOK' /\ GetInWindow'
  BY <1>same, Zenon DEF GetOK, GetInWindow, Judged
<1>1. ASSUME NEW f \in Feats, NEW b \in Bins, NEW v \in Vals, Put(f, b, v) PROVE GetOK' /\ GetInWindow'
  <2>p. up' = up /\ data_file' = data_file /\ get' = Seen(f, v)
    BY <1>1, Zenon DEF Put, procVars
  <2>0. PICK a \in Slots : PutAt(f, v, a)
    BY <1>1, PutFacts, Zenon
  <2>1. /\ index'[f] = a /\ \A g \in Feats : g # f => index'[g] = index[g] /\ index[g] # a
        /\ page'[a] = v /\ \A s \in Slots : s # a => page'[s] = page[s] /\ key_buf'[s] = key_buf[s]
        /\ key_buf'[a] \in {key_buf[a], f}
        /\ index[f] \in {None, a}
    BY <2>0, Zenon DEF PutAt
  <2>n. None \notin Slots /\ v # Unsure
    BY <1>t, LayoutFacts, StoreAssumption DEF TypeOK
  <2>2. CASE Judged /\ get.feat = f
    <3>1. get.slot = a
      BY <1>g, <1>j, <2>1, <2>2, <2>n, SMTT(30), ZenonT(60)
    <3>2. /\ get'.feat = f /\ get'.slot = a /\ get'.val = None
          /\ get'.window = get.window \cup {v}
      BY <1>t, <2>2, <2>p, <2>n, <3>1, SeenFacts, Zenon DEF Judged
    <3>3. data_file[a] \in get.window /\ up
      BY <1>g, <2>2, <3>1, Zenon
    <3> QED
      BY <2>1, <2>p, <3>2, <3>3, Zenon DEF GetOK, GetInWindow
  <2>3. CASE ~(Judged /\ get.feat = f)
    <3>1. get' = get
      BY <2>3, <2>p, Zenon DEF Seen, Judged
    <3>2. Judged => index'[get.feat] = index[get.feat] /\ index[get.feat] # a
      BY <1>j, <2>1, <2>3, Zenon
    <3> QED
      BY <1>g, <1>j, <1>same, <2>1, <2>p, <3>1, <3>2, Zenon
  <2> QED
    BY <2>2, <2>3, Zenon
<1>2. ASSUME NEW f \in Feats, Delete(f) PROVE GetOK' /\ GetInWindow'
  <2>p. /\ up' = up /\ data_file' = data_file /\ page' = page /\ get' = Seen(f, Unsure)
        /\ index' = [index EXCEPT ![f] = None]
    BY <1>2, Zenon DEF Delete, procVars, fileVars
  <2>1. CASE Judged /\ get.feat = f
    <3>1. get'.val = None /\ get'.window = {Unsure}
      BY <1>t, <2>1, <2>p, SeenFacts, Zenon DEF Judged
    <3> QED
      BY <3>1, Zenon DEF GetOK, GetInWindow
  <2>2. CASE ~(Judged /\ get.feat = f)
    <3>1. get' = get
      BY <2>2, <2>p, Zenon DEF Seen, Judged
    <3>2. Judged => index'[get.feat] = index[get.feat]
      BY <1>j, <1>t, <2>2, <2>p, Zenon DEF TypeOK
    <3> QED
      BY <1>g, <1>same, <2>p, <3>1, <3>2, Zenon
  <2> QED
    BY <2>1, <2>2, Zenon
<1>3. ASSUME NEW f \in Feats, GetSubmit(f) PROVE GetOK' /\ GetInWindow'
  <2>1. /\ get' = [feat |-> f, slot |-> index[f], val |-> None, window |-> {expect[f]}]
        /\ up /\ up' = up /\ data_file' = data_file /\ page' = page /\ index' = index
        /\ index[f] # None /\ page[index[f]] = None /\ expect[f] # Unsure /\ f \notin dropped
    BY <1>3, Zenon DEF GetSubmit, procVars, fileVars, slotVars
  <2>2. data_file[index[f]] = expect[f]
    BY <1>t, <2>1, Zenon DEF ExpectedRead, Read, ReadSlot
  <2>3. get'.feat = f /\ get'.slot = index[f] /\ get'.val = None /\ get'.window = {expect[f]}
    BY <2>1, Zenon
  <2> QED
    BY <2>1, <2>2, <2>3, Zenon DEF GetOK, GetInWindow
<1>4. CASE GetLands
  <2>1. /\ get # None /\ get.val = None
        /\ get' = [get EXCEPT !.feat = None, !.slot = None, !.val = data_file[get.slot]]
    BY <1>4, Zenon DEF GetLands
  <2>2. get \in Gets /\ get.slot \in Slots
    BY <1>t, <2>1, Zenon DEF GetTyped
  <2>3. get'.val = data_file[get.slot] /\ get'.window = get.window
    BY <2>1, <2>2, Zenon DEF Gets
  <2>4. data_file[get.slot] # None
    BY <1>t, <2>2, StoreAssumption, Zenon DEF TypeOK
  <2>5. get.window # {Unsure} => data_file[get.slot] \in get.window
    BY <1>g, <2>1, Zenon DEF Judged
  <2> QED
    BY <2>3, <2>4, <2>5, Zenon DEF GetOK, GetInWindow
<1>5. ASSUME get' = None PROVE GetOK' /\ GetInWindow'
  BY <1>5, Zenon DEF GetOK, GetInWindow
<1>6. CASE Flush \/ FlushSubmit \/ \E s \in sqes : WriteLands(s)
  <2>1. get' = get /\ up' = up /\ index' = index
    BY <1>6, Zenon DEF Flush, FlushSubmit, WriteLands, procVars, slotVars, ringVars, histVars
  <2>2. \A s \in Slots : page'[s] # None => page'[s] = page[s]
    BY <1>6, ZenonT(30) DEF Flush, FlushSubmit, WriteLands, NoPages
  <2>3. \A s \in Slots : data_file'[s] \in {data_file[s], ReadSlot(s)}
    BY <1>6, Zenon DEF Flush, WriteBack, FlushSubmit, WriteLands, PagesWritten
  <2> QED
    BY <1>g, <1>j, <1>r, <1>same, <2>1, <2>2, <2>3, Zenon
<1>7. CASE PollAgain \/ \E f \in Feats, b \in Bins : PutRefused(f, b)
  <2>1. get' = get /\ up' = up /\ index' = index /\ page' = page /\ data_file' = data_file
    BY <1>7, Zenon DEF PollAgain, PutRefused, procVars, fileVars, slotVars
  <2> QED
    BY <1>g, <1>same, <2>1, Zenon
<1>8. CASE PollDone
  <2>1. /\ up' = up /\ index' = index /\ page' = NoPages /\ data_file' = data_file
        /\ get' = IF get # None /\ get.feat \in late THEN Seen(get.feat, Unsure) ELSE get
    BY <1>8, Zenon DEF PollDone, procVars, fileVars, slotVars
  <2>2. CASE Judged /\ get.feat \in late
    <3>0. get' = Seen(get.feat, Unsure)
      BY <2>1, <2>2, Zenon DEF Judged
    <3>1. get'.val = None /\ get'.window = {Unsure}
      BY <1>t, <2>2, <3>0, SeenFacts, Zenon DEF Judged
    <3> QED
      BY <3>1, Zenon DEF GetOK, GetInWindow
  <2>3. CASE ~(Judged /\ get.feat \in late)
    <3>1. get' = get
      BY <2>1, <2>3, Zenon DEF Seen, Judged
    <3>2. \A s \in Slots : page'[s] = None
      BY <2>1, Zenon DEF NoPages
    <3> QED
      BY <1>g, <1>j, <1>same, <2>1, <3>1, <3>2, Zenon
  <2> QED
    BY <2>2, <2>3, Zenon
<1>9. Open => get' = None
  BY <1>t, Zenon DEF Open, Down
<1>10. GetDone \/ Close \/ (\E K \in SUBSET Slots, P \in SUBSET Resident : Crash(K, P)) => get' = None
  BY Zenon DEF GetDone, Close, Crash, Ends
<1> QED
  BY <1>1, <1>2, <1>3, <1>4, <1>5, <1>6, <1>7, <1>8, <1>9, <1>10, Zenon DEF Next
-----------------------------------------------------------------------------
(* Who owns which slot. *)

\* A put of a feature that is not stored takes the slot over.
LEMMA PutOwned ==
  ASSUME Types, Owned, NEW f \in Feats, NEW b \in Bins, NEW v \in Vals, Put(f, b, v), index[f] = None
  PROVE  Owned'
<1> DEFINE a == Alloc(b)
<1>t. TypeOK /\ layout \in Layouts /\ bump_ptr[b] \in Nat /\ free_list[b] \in Seq(Slots)
  BY Zenon DEF Types, TypeOK
<1>l. /\ layout' = layout /\ Slots' = Slots /\ Bins' = Bins
      /\ \A c : SlotsOf(c)' = SlotsOf(c) /\ First(c)' = First(c)
  BY SameLayout, Zenon DEF Put
<1>p. /\ up /\ CanAlloc(b) /\ key_file' = key_file /\ orphaned' = orphaned
      /\ index' = [index EXCEPT ![f] = a]
      /\ free_list' = [free_list EXCEPT ![b] = IF @ = <<>> THEN @ ELSE SubSeq(@, 1, Len(@) - 1)]
      /\ bump_ptr' = [bump_ptr EXCEPT ![b] = IF free_list[b] = <<>> THEN @ + 1 ELSE @]
      /\ key_buf' = [key_buf EXCEPT ![a] = f]
  BY Zenon DEF Put
<1>a. /\ a \in Slots /\ layout[a] = b /\ EffectiveKey(a) = NoFeat
      /\ \A g \in Feats : index[g] # a
      /\ \A c \in Bins : c # b => a \notin Range(free_list[c])
  BY <1>p, AllocFacts, Zenon
<1>o. /\ up /\ SlotsOwnedOnce
      /\ \A g \in Feats : index[g] # None => index[g] \in Allocated
      /\ \A c \in Bins : Range(free_list[c]) \subseteq SlotsOf(c) \cap Allocated
      /\ \A s \in Slots : s \notin Allocated => key_file[s] = NoFeat /\ key_buf[s] = None
  BY <1>p, Zenon DEF Owned
<1>1. /\ \A g \in Feats : index'[g] = IF g = f THEN a ELSE index[g]
      /\ \A s \in Slots : key_buf'[s] = IF s = a THEN f ELSE key_buf[s]
      /\ \A s \in Slots : EffectiveKey(s)' = IF s = a THEN f ELSE EffectiveKey(s)
  <2>1. \A g \in Feats : index'[g] = IF g = f THEN a ELSE index[g]
    BY <1>p, <1>t, Zenon DEF TypeOK
  <2>2. \A s \in Slots : key_buf'[s] = IF s = a THEN f ELSE key_buf[s]
    BY <1>p, <1>t, <1>a, Zenon DEF TypeOK
  <2>3. f # None
    BY StoreAssumption, Zenon
  <2> QED
    BY <1>p, <2>1, <2>2, <2>3, Zenon DEF EffectiveKey
<1>2. ASSUME NEW c \in Bins
      PROVE  IsInjective(free_list'[c]) /\ Range(free_list'[c]) = Range(free_list[c]) \ {a}
  <2>0. IsInjective(free_list[c]) /\ free_list[c] \in Seq(Slots)
    BY <1>o, <1>t, Zenon DEF SlotsOwnedOnce, TypeOK
  <2>1. CASE c # b
    <3>1. free_list'[c] = free_list[c]
      BY <1>p, <1>t, <2>1, Zenon DEF TypeOK
    <3> QED
      BY <1>a, <2>0, <2>1, <3>1, Zenon
  <2>2. CASE c = b /\ free_list[b] = <<>>
    <3>1. free_list'[c] = free_list[c]
      BY <1>p, <1>t, <2>2, Zenon DEF TypeOK
    <3>2. Range(free_list[c]) = {}
      BY <2>2, SMTT(30) DEF Range
    <3> QED
      BY <2>0, <3>1, <3>2, Zenon
  <2>3. CASE c = b /\ free_list[b] # <<>>
    <3>1. free_list'[c] = SubSeq(free_list[b], 1, Len(free_list[b]) - 1)
      BY <1>p, <1>t, <2>3, Zenon DEF TypeOK
    <3>2. a = free_list[b][Len(free_list[b])]
      BY <2>3, Zenon DEF Alloc
    <3> HIDE DEF a
    <3> QED
      BY <2>0, <2>3, <3>1, <3>2, Popped, Zenon
  <2> QED
    BY <2>1, <2>2, <2>3, Zenon
<1>3. ASSUME NEW s \in Slots PROVE s \in Allocated' <=> s \in Allocated \/ s = a
  <2>1. /\ s \in Allocated <=> s - First(layout[s]) < bump_ptr[layout[s]]
        /\ s \in Allocated' <=> s - First(layout[s]) < bump_ptr'[layout[s]]
    BY <1>l, Zenon DEF Allocated
  <2>2. s \in Nat /\ layout[s] \in Bins /\ First(layout[s]) \in Nat
    BY <1>t, LayoutFacts, BinBounds
  <2>3. CASE layout[s] # b
    <3>1. bump_ptr'[layout[s]] = bump_ptr[layout[s]]
      BY <1>p, <1>t, <2>2, <2>3, Zenon DEF TypeOK
    <3> QED
      BY <1>a, <2>1, <2>3, <3>1, Zenon
  <2>4. CASE layout[s] = b /\ free_list[b] = <<>>
    <3>1. bump_ptr'[b] = bump_ptr[b] + 1 /\ a = First(b) + bump_ptr[b]
      BY <1>p, <1>t, <2>4, Zenon DEF TypeOK, Alloc
    <3> HIDE DEF a
    <3> QED
      BY <1>t, <2>1, <2>2, <2>4, <3>1
  <2>5. CASE layout[s] = b /\ free_list[b] # <<>>
    <3>1. bump_ptr'[b] = bump_ptr[b]
      BY <1>p, <1>t, <2>5, Zenon DEF TypeOK
    <3>2. a \in Range(free_list[b])
      BY <1>t, <2>5, SMTT(30) DEF Range, Alloc
    <3> QED
      BY <1>o, <2>1, <2>5, <3>1, <3>2, Zenon
  <2> QED
    BY <2>3, <2>4, <2>5, Zenon
<1>4. Allocated' \subseteq Slots /\ Allocated \subseteq Slots /\ \A c : SlotsOf(c) \subseteq Slots
  BY <1>l, Zenon DEF Allocated, SlotsOf
<1> HIDE DEF a
<1>5. \A g \in Feats : index'[g] # None => EffectiveKey(index[g])' = g
  <2> SUFFICES ASSUME NEW g \in Feats, index'[g] # None PROVE EffectiveKey(index[g])' = g
    OBVIOUS
  <2>1. CASE g = f
    <3>1. index'[g] = a /\ key_buf'[a] = g /\ g # None
      BY <1>a, <1>1, <2>1, StoreAssumption, Zenon
    <3> QED
      BY <3>1, Zenon DEF EffectiveKey
  <2>2. CASE g # f
    <3>1. index'[g] = index[g] /\ index[g] \in Slots /\ index[g] # a /\ EffectiveKey(index[g]) = g
      BY <1>a, <1>o, <1>1, <1>4, <2>2, Zenon DEF SlotsOwnedOnce
    <3>2. key_buf'[index[g]] = key_buf[index[g]] /\ key_file' = key_file
      BY <1>1, <1>p, <3>1, Zenon
    <3> QED
      BY <3>1, <3>2, Zenon DEF EffectiveKey
  <2> QED
    BY <2>1, <2>2, Zenon
<1>6. \A c \in Bins : \A s \in Range(free_list'[c]) : EffectiveKey(s)' = NoFeat
  <2> SUFFICES ASSUME NEW c \in Bins, NEW s \in Range(free_list'[c]) PROVE EffectiveKey(s)' = NoFeat
    OBVIOUS
  <2>1. s \in Range(free_list[c]) /\ s # a
    BY <1>2, Zenon
  <2>2. s \in Slots /\ EffectiveKey(s) = NoFeat
    BY <1>o, <1>4, <2>1, Zenon DEF SlotsOwnedOnce
  <2> QED
    BY <1>1, <2>1, <2>2, Zenon
<1>7. ASSUME NEW s \in Allocated'
      PROVE  \/ EffectiveKey(s)' \in orphaned
             \/ \E g \in Feats : index'[g] = s
             \/ s \in Range(free_list'[layout[s]])
  <2>1. CASE s = a
    BY <1>1, <2>1, Zenon
  <2>2. CASE s # a
    <3>1. s \in Allocated /\ s \in Slots /\ layout[s] \in Bins
      BY <1>t, <1>3, <1>4, <2>2, LayoutFacts, Zenon
    <3>2. CASE EffectiveKey(s) \in orphaned
      BY <1>1, <2>2, <3>1, <3>2, Zenon
    <3>3. CASE \E g \in Feats : index[g] = s
      <4>1. PICK g \in Feats : index[g] = s
        BY <3>3, Zenon
      <4>2. g # f
        BY <3>1, <4>1, <1>t, LayoutFacts, StoreAssumption, SMTT(30)
      <4> QED
        BY <1>1, <4>1, <4>2, Zenon
    <3>4. CASE s \in Range(free_list[layout[s]])
      BY <1>2, <2>2, <3>1, <3>4, Zenon
    <3> QED
      BY <1>o, <3>1, <3>2, <3>3, <3>4, Zenon DEF SlotsOwnedOnce
  <2> QED
    BY <2>1, <2>2, Zenon
<1>8. SlotsOwnedOnce'
  BY <1>l, <1>p, <1>2, <1>5, <1>6, <1>7, Zenon DEF SlotsOwnedOnce
<1>9. \A g \in Feats : index'[g] # None => index'[g] \in Allocated'
  BY <1>a, <1>o, <1>1, <1>3, <1>4, Zenon
<1>10. \A c \in Bins : Range(free_list'[c]) \subseteq SlotsOf(c) \cap Allocated'
  BY <1>o, <1>2, <1>3, <1>4, Zenon
<1>11. \A s \in Slots : s \notin Allocated' => key_file'[s] = NoFeat /\ key_buf'[s] = None
  BY <1>o, <1>p, <1>1, <1>3, Zenon
<1> QED
  BY <1>l, <1>8, <1>9, <1>10, <1>11, Zenon DEF Owned

\* A delete gives the slot back, to the free list of its bin.
LEMMA DeleteOwned ==
  ASSUME Types, Owned, NEW f \in Feats, Delete(f)
  PROVE  Owned'
<1>1. PICK a \in Slots : a = index[f]
  BY Zenon DEF Types, TypeOK, Delete
<1>t. TypeOK /\ layout \in Layouts /\ layout[a] \in Bins
  BY LayoutFacts, Zenon DEF Types, TypeOK
<1>p. /\ up /\ key_file' = key_file /\ orphaned' = orphaned /\ bump_ptr' = bump_ptr /\ layout' = layout
      /\ free_list' = [free_list EXCEPT ![layout[a]] = Append(@, a)]
      /\ key_buf' = [key_buf EXCEPT ![a] = NoFeat]
      /\ index' = [index EXCEPT ![f] = None]
  BY <1>1, ZenonT(30) DEF Delete, fileVars
<1>l. /\ Slots' = Slots /\ Bins' = Bins /\ Allocated' = Allocated
      /\ \A c : SlotsOf(c)' = SlotsOf(c)
  <2>1. Slots' = Slots /\ Bins' = Bins /\ \A b : SlotsOf(b)' = SlotsOf(b) /\ First(b)' = First(b)
    BY <1>p, SameLayout, Zenon
  <2> QED
    BY <1>p, <2>1, Zenon DEF Allocated
<1>o. /\ up /\ SlotsOwnedOnce
      /\ \A g \in Feats : index[g] # None => index[g] \in Allocated
      /\ \A c \in Bins : Range(free_list[c]) \subseteq SlotsOf(c) \cap Allocated
      /\ \A s \in Slots : s \notin Allocated => key_file[s] = NoFeat /\ key_buf[s] = None
  BY <1>p, Zenon DEF Owned
<1>a. /\ EffectiveKey(a) = f /\ a \in Allocated /\ f # NoFeat /\ a # None /\ NoFeat # None
      /\ \A g \in Feats : g # f => index[g] # a
  <2>1. f # NoFeat /\ a # None /\ NoFeat # None
    BY <1>t, LayoutFacts, StoreAssumption
  <2> QED
    BY <1>t, <1>o, <1>p, <1>1, <2>1, KeyIndexed, Zenon DEF SlotsOwnedOnce
<1>2. /\ \A g \in Feats : index'[g] = IF g = f THEN None ELSE index[g]
      /\ \A s \in Slots : key_buf'[s] = IF s = a THEN NoFeat ELSE key_buf[s]
      /\ \A s \in Slots : EffectiveKey(s)' = IF s = a THEN NoFeat ELSE EffectiveKey(s)
  <2>1. \A g \in Feats : index'[g] = IF g = f THEN None ELSE index[g]
    BY <1>p, <1>t, Zenon DEF TypeOK
  <2>2. \A s \in Slots : key_buf'[s] = IF s = a THEN NoFeat ELSE key_buf[s]
    BY <1>p, <1>t, Zenon DEF TypeOK
  <2> QED
    BY <1>a, <1>p, <2>1, <2>2, Zenon DEF EffectiveKey
<1>3. ASSUME NEW c \in Bins
      PROVE  /\ IsInjective(free_list'[c])
             /\ Range(free_list'[c]) = IF c = layout[a] THEN Range(free_list[c]) \cup {a}
                                       ELSE Range(free_list[c])
  <2>0. IsInjective(free_list[c]) /\ free_list[c] \in Seq(Slots) /\ a \notin Range(free_list[c])
    BY <1>a, <1>o, <1>t, Zenon DEF SlotsOwnedOnce, TypeOK
  <2>1. free_list'[c] = IF c = layout[a] THEN Append(free_list[c], a) ELSE free_list[c]
    BY <1>p, <1>t, Zenon DEF TypeOK
  <2>2. /\ Range(Append(free_list[c], a)) = Range(free_list[c]) \cup {a}
        /\ IsInjective(Append(free_list[c], a))
    BY <2>0, Pushed
  <2> QED
    BY <2>0, <2>1, <2>2, Zenon
<1>4. Allocated \subseteq Slots /\ \A c : SlotsOf(c) \subseteq Slots
  BY Zenon DEF Allocated, SlotsOf
<1>5. \A g \in Feats : index'[g] # None => EffectiveKey(index[g])' = g
  <2> SUFFICES ASSUME NEW g \in Feats, index'[g] # None PROVE EffectiveKey(index[g])' = g
    OBVIOUS
  <2>1. g # f /\ index'[g] = index[g] /\ index[g] \in Slots
    BY <1>o, <1>2, <1>4, Zenon
  <2>2. index[g] # a /\ EffectiveKey(index[g]) = g
    BY <1>a, <1>o, <2>1, Zenon DEF SlotsOwnedOnce
  <2>3. key_buf'[index[g]] = key_buf[index[g]] /\ key_file' = key_file
    BY <1>2, <1>p, <2>1, <2>2, Zenon
  <2> QED
    BY <2>1, <2>2, <2>3, Zenon DEF EffectiveKey
<1>6. \A c \in Bins : \A s \in Range(free_list'[c]) : EffectiveKey(s)' = NoFeat
  <2>1. ASSUME NEW c \in Bins, NEW s \in Range(free_list'[c]) PROVE EffectiveKey(s)' = NoFeat
    <3>1. s = a \/ s \in Range(free_list[c])
      BY <1>3, Zenon
    <3>2. s \in Slots
      BY <1>o, <1>4, <3>1, Zenon
    <3>3. s # a => EffectiveKey(s) = NoFeat
      BY <1>o, <3>1, Zenon DEF SlotsOwnedOnce
    <3> QED
      BY <1>2, <3>2, <3>3, Zenon
  <2> QED
    BY <2>1, Zenon
<1>7. ASSUME NEW s \in Allocated
      PROVE  \/ EffectiveKey(s)' \in orphaned
             \/ \E g \in Feats : index'[g] = s
             \/ s \in Range(free_list'[layout[s]])
  <2>1. CASE s = a
    BY <1>t, <1>3, <2>1, ZenonT(30)
  <2>2. CASE s # a
    <3>1. s \in Slots /\ layout[s] \in Bins
      BY <1>t, <1>4, LayoutFacts, Zenon
    <3>2. CASE EffectiveKey(s) \in orphaned
      BY <1>2, <2>2, <3>1, <3>2, Zenon
    <3>3. CASE \E g \in Feats : index[g] = s
      BY <1>1, <1>2, <2>2, <3>3, Zenon
    <3>4. CASE s \in Range(free_list[layout[s]])
      BY <1>3, <3>1, <3>4, Zenon
    <3> QED
      BY <1>o, <3>2, <3>3, <3>4, Zenon DEF SlotsOwnedOnce
  <2> QED
    BY <2>1, <2>2, Zenon
<1>8. SlotsOwnedOnce'
  BY <1>l, <1>p, <1>3, <1>5, <1>6, <1>7, Zenon DEF SlotsOwnedOnce
<1>9. \A g \in Feats : index'[g] # None => index'[g] \in Allocated
  BY <1>o, <1>2, Zenon
<1>10. \A c \in Bins : Range(free_list'[c]) \subseteq SlotsOf(c) \cap Allocated
  <2>1. a \in SlotsOf(layout[a]) \cap Allocated
    BY <1>a, Zenon DEF SlotsOf
  <2> QED
    BY <1>o, <1>3, <2>1, Zenon
<1>11. \A s \in Slots : s \notin Allocated => key_file'[s] = NoFeat /\ key_buf'[s] = None
  BY <1>a, <1>o, <1>p, <1>2, Zenon
<1> QED
  BY <1>l, <1>8, <1>9, <1>10, <1>11, Zenon DEF Owned

\* Writing all keys moves them from the buffer to the file.
LEMMA WrittenKeys ==
  ASSUME TypeOK, layout' = layout, key_file' = KeysWritten(Slots), key_buf' = NoKeys
  PROVE  /\ \A s \in Slots : key_buf'[s] = None /\ key_file'[s] = EffectiveKey(s)
         /\ \A s \in Slots : EffectiveKey(s)' = EffectiveKey(s)
         /\ \A s \in Slots : key_file[s] = NoFeat /\ key_buf[s] = None =>
                               key_file'[s] = NoFeat /\ key_buf'[s] = None
BY Zenon DEF KeysWritten, NoKeys, EffectiveKey

\* What reopening finds in the files.
LEMMA Reopened ==
  ASSUME Types, Extended, Open
  PROVE  /\ \A s \in Slots : key_file'[s] = key_file[s] \/ key_file'[s] = NoFeat
         /\ \A s \in Slots : key_buf'[s] \in {NoFeat, None}
         /\ \A s \in Slots : key_buf'[s] = NoFeat <=> layout[s] \in reserved /\ key_file'[s] = NoFeat
         /\ \A f \in Feats : index'[f] # None =>
              /\ index'[f] \in Slots /\ layout[index'[f]] \in reserved
              /\ key_file'[index'[f]] = f /\ key_buf'[index'[f]] = None
         /\ \A b \in Bins :
              /\ IsInjective(free_list'[b]) /\ free_list'[b] \in Seq(Slots)
              /\ \A s \in Slots : s \in Range(free_list'[b]) <=> layout[s] = b /\ key_buf'[s] = NoFeat
         /\ \A s \in Slots, f \in Feats : key_file[s] = f /\ f \notin orphaned' => index'[f] = s
         /\ \A s \in Slots, f \in Feats : key_file'[s] = f /\ index'[f] # s => f \in orphaned'
<1>t. TypeOK /\ layout \in Layouts /\ key_file \in [Slots -> Feats \cup {NoFeat}]
  BY Zenon DEF Types, TypeOK
<1> DEFINE N == Len(layout)
           db == Rebuilt
<1>1. db \in Db /\ KeysKept(db, N) /\ FreeExact(db, N) /\ IndexExact(db, N)
  BY <1>t, RebuiltInv, Zenon DEF RebuildInv
<1>2. key_file' = db.keys /\ key_buf' = db.buf /\ index' = db.index /\ free_list' = db.free
  BY Zenon DEF Open
<1> HIDE DEF db
<1>3. \A s \in Slots : Visited(s, N) <=> layout[s] \in reserved
  BY <1>t, LayoutFacts DEF Visited
<1> HIDE DEF N
<1>4. orphaned' = {f \in Feats : Doubled(f)}
  BY Zenon DEF Open
<1>5. \A s \in Slots : key_file[s] # NoFeat => layout[s] \in reserved
  BY Zenon DEF Extended
<1>6. \A s \in Slots : key_file'[s] = key_file[s] \/ key_file'[s] = NoFeat
  BY <1>1, <1>2, Zenon DEF KeysKept
<1>7. \A s \in Slots : key_buf'[s] \in {NoFeat, None}
  BY <1>1, <1>2, Zenon DEF Db
<1>8. \A s \in Slots : key_buf'[s] = NoFeat <=> layout[s] \in reserved /\ key_file'[s] = NoFeat
  BY <1>1, <1>2, <1>3, Zenon DEF FreeExact
<1>9. \A f \in Feats : index'[f] # None =>
              /\ index'[f] \in Slots /\ layout[index'[f]] \in reserved
              /\ key_file'[index'[f]] = f /\ key_buf'[index'[f]] = None
  BY <1>1, <1>2, <1>3, Zenon DEF KeysKept, Db
<1>10. \A b \in Bins :
              /\ IsInjective(free_list'[b]) /\ free_list'[b] \in Seq(Slots)
              /\ \A s \in Slots : s \in Range(free_list'[b]) <=> layout[s] = b /\ key_buf'[s] = NoFeat
  BY <1>1, <1>2, Zenon DEF FreeExact, Db
<1>11. ASSUME NEW s \in Slots, NEW f \in Feats, key_file[s] = f, f \notin orphaned' PROVE index'[f] = s
  BY <1>1, <1>2, <1>3, <1>4, <1>5, <1>11, StoreAssumption, Zenon DEF IndexExact
<1>12. ASSUME NEW s \in Slots, NEW f \in Feats, key_file'[s] = f, index'[f] # s PROVE f \in orphaned'
  <2>1. key_file[s] = f /\ layout[s] \in reserved
    BY <1>5, <1>6, <1>12, StoreAssumption, Zenon
  <2> QED
    BY <1>1, <1>2, <1>3, <1>4, <1>12, <2>1, Zenon DEF IndexExact
<1> QED
  BY <1>6, <1>7, <1>8, <1>9, <1>10, <1>11, <1>12, Zenon

\* After a reopen every slot of a bin with files is owned.
LEMMA OpenOwned ==
  ASSUME Types, Extended, Open
  PROVE  Owned' /\ Extended'
<1>t. TypeOK /\ layout \in Layouts /\ key_file \in [Slots -> Feats \cup {NoFeat}]
  BY Zenon DEF Types, TypeOK
<1>p. layout' = layout /\ reserved' = reserved
      /\ bump_ptr' = [b \in Bins |-> IF b \in reserved THEN Capacity(b) ELSE 0]
  BY Zenon DEF Open
<1>l. /\ Slots' = Slots /\ Bins' = Bins
      /\ \A c : SlotsOf(c)' = SlotsOf(c) /\ First(c)' = First(c)
  BY <1>p, SameLayout, Zenon
<1>r. /\ \A s \in Slots : key_file'[s] = key_file[s] \/ key_file'[s] = NoFeat
      /\ \A s \in Slots : key_buf'[s] \in {NoFeat, None}
      /\ \A s \in Slots : key_buf'[s] = NoFeat <=> layout[s] \in reserved /\ key_file'[s] = NoFeat
      /\ \A f \in Feats : index'[f] # None =>
           /\ index'[f] \in Slots /\ layout[index'[f]] \in reserved
           /\ key_file'[index'[f]] = f /\ key_buf'[index'[f]] = None
      /\ \A b \in Bins :
           /\ IsInjective(free_list'[b]) /\ free_list'[b] \in Seq(Slots)
           /\ \A s \in Slots : s \in Range(free_list'[b]) <=> layout[s] = b /\ key_buf'[s] = NoFeat
      /\ \A s \in Slots, f \in Feats : key_file'[s] = f /\ index'[f] # s => f \in orphaned'
  BY Reopened, Zenon
<1>n. NoFeat # None
  BY StoreAssumption, Zenon
<1>1. \A s \in Slots : s \in Allocated' <=> layout[s] \in reserved
  <2> SUFFICES ASSUME NEW s \in Slots PROVE s \in Allocated' <=> layout[s] \in reserved
    OBVIOUS
  <2>1. s \in Allocated' <=> s - First(layout[s]) < bump_ptr'[layout[s]]
    BY <1>l, <1>p, Zenon DEF Allocated
  <2>2. s \in Nat /\ layout[s] \in Bins /\ s \in SlotsOf(layout[s])
    BY <1>t, LayoutFacts
  <2>3. /\ First(layout[s]) \in Nat /\ Capacity(layout[s]) \in Nat
        /\ First(layout[s]) <= s /\ s < First(layout[s]) + Capacity(layout[s])
    BY <1>t, <2>2, BinBounds, Zenon
  <2>4. bump_ptr'[layout[s]] = IF layout[s] \in reserved THEN Capacity(layout[s]) ELSE 0
    BY <1>p, <2>2, Zenon
  <2> QED
    BY <2>1, <2>2, <2>3, <2>4
<1>2. Allocated' \subseteq Slots
  BY <1>l, Zenon DEF Allocated
<1>3. \A s \in Slots : ~(layout[s] \in reserved) => key_file'[s] = NoFeat /\ key_buf'[s] = None
  BY <1>r, <1>n, Zenon DEF Extended
<1>4. \A f \in Feats : index'[f] # None => EffectiveKey(index[f])' = f
  BY <1>r, Zenon DEF EffectiveKey
<1>5. \A b \in Bins : \A s \in Range(free_list'[b]) : s \in Slots /\ layout[s] = b /\ key_buf'[s] = NoFeat
  <2> SUFFICES ASSUME NEW b \in Bins, NEW s \in Range(free_list'[b]) PROVE s \in Slots
    BY <1>r, Zenon
  <2> QED
    BY <1>r DEF Range
<1>6. \A b \in Bins : \A s \in Range(free_list'[b]) : EffectiveKey(s)' = NoFeat
  BY <1>n, <1>5, Zenon DEF EffectiveKey
<1>7. ASSUME NEW s \in Allocated'
      PROVE  \/ EffectiveKey(s)' \in orphaned'
             \/ \E f \in Feats : index'[f] = s
             \/ s \in Range(free_list'[layout[s]])
  <2>1. s \in Slots /\ layout[s] \in reserved /\ layout[s] \in Bins
    BY <1>t, <1>1, <1>2, LayoutFacts, Zenon
  <2>2. CASE key_file'[s] = NoFeat
    BY <1>r, <2>1, <2>2, Zenon
  <2>3. CASE key_file'[s] # NoFeat
    <3>1. key_file'[s] \in Feats /\ key_buf'[s] = None
      BY <1>r, <1>t, <2>1, <2>3
    <3>2. EffectiveKey(s)' = key_file'[s]
      BY <3>1, Zenon DEF EffectiveKey
    <3> QED
      BY <1>r, <2>1, <3>1, <3>2
  <2> QED
    BY <2>2, <2>3, Zenon
<1>8. SlotsOwnedOnce'
  BY <1>l, <1>p, <1>r, <1>4, <1>6, <1>7, Zenon DEF SlotsOwnedOnce
<1>9. \A b \in Bins : Range(free_list'[b]) \subseteq SlotsOf(b) \cap Allocated'
  BY <1>r, <1>1, <1>5, SMTT(30), ZenonT(60) DEF SlotsOf
<1>10. Owned'
  BY <1>l, <1>r, <1>1, <1>3, <1>8, <1>9, Zenon DEF Owned
<1> QED
  BY <1>l, <1>p, <1>3, <1>10, Zenon DEF Extended

\* Ownership, step by step.
LEMMA OwnershipStep ==
  ASSUME Types, Ownership, Next
  PROVE  Ownership'
<1>t. TypeOK /\ Down /\ Owned /\ Extended
  BY Zenon DEF Types, Ownership
<1>l. layout' = layout /\ Slots' = Slots /\ Bins' = Bins /\ NoKeys' = NoKeys
  BY LayoutFixed, SameLayout, Zenon
<1> SUFFICES Owned' /\ Extended'
  BY Zenon DEF Ownership
<1>same. ASSUME up, index' = index, bump_ptr' = bump_ptr, free_list' = free_list, orphaned' = orphaned,
                reserved \subseteq reserved',
                \A s \in Slots : EffectiveKey(s)' = EffectiveKey(s),
                \A s \in Slots : key_file[s] = NoFeat /\ key_buf[s] = None =>
                                   key_file'[s] = NoFeat /\ key_buf'[s] = None
         PROVE  Owned' /\ Extended'
  <2>1. Owned'
    BY <1>t, <1>l, <1>same, SameOwners, Zenon
  <2> QED
    BY <1>t, <1>l, <1>same, <2>1, Zenon DEF Extended
<1>1. ASSUME NEW f \in Feats, NEW b \in Bins, NEW v \in Vals, Put(f, b, v) PROVE Owned' /\ Extended'
  <2>1. CASE index[f] # None
    <3>1. up /\ index' = index /\ bump_ptr' = bump_ptr /\ free_list' = free_list /\ orphaned' = orphaned
          /\ reserved \subseteq reserved' /\ key_file' = key_file
          /\ key_buf' = [key_buf EXCEPT ![index[f]] = f]
      BY <1>1, <2>1, Zenon DEF Put, slotVars
    <3>2. PICK a \in Slots : a = index[f]
      BY <1>t, <2>1, Zenon DEF TypeOK
    <3>3. key_buf'[a] = f /\ \A s \in Slots : s # a => key_buf'[s] = key_buf[s]
      BY <1>t, <3>1, <3>2, Zenon DEF TypeOK
    <3>4. EffectiveKey(a) = f /\ f # NoFeat /\ f # None
      BY <1>t, <2>1, <3>1, <3>2, StoreAssumption, Zenon DEF Owned, SlotsOwnedOnce
    <3>5. \A s \in Slots : EffectiveKey(s)' = EffectiveKey(s)
      BY <3>1, <3>3, <3>4, Zenon DEF EffectiveKey
    <3>6. ASSUME NEW s \in Slots, key_file[s] = NoFeat, key_buf[s] = None
          PROVE  key_file'[s] = NoFeat /\ key_buf'[s] = None
      <4>1. s # a
        BY <3>4, <3>6, Zenon DEF EffectiveKey
      <4> QED
        BY <3>1, <3>3, <3>6, <4>1, Zenon
    <3> QED
      BY <1>same, <3>1, <3>5, <3>6, Zenon
  <2>2. CASE index[f] = None
    <3>1. Owned'
      BY <1>1, <1>t, <2>2, PutOwned, Zenon
    <3>2. /\ up /\ CanAlloc(b) /\ key_buf' = [key_buf EXCEPT ![Alloc(b)] = f]
          /\ key_file' = key_file /\ reserved' = reserved \cup {b}
      BY <1>1, <2>2, Zenon DEF Put
    <3>3. Alloc(b) \in Slots /\ layout[Alloc(b)] = b
      BY <1>t, <3>2, AllocTyped, Zenon
    <3>4. \A s \in Slots : s # Alloc(b) => key_buf'[s] = key_buf[s]
      BY <1>t, <3>2, Zenon DEF TypeOK
    <3> QED
      BY <1>l, <1>t, <3>1, <3>2, <3>3, <3>4, Zenon DEF Extended
  <2> QED
    BY <2>1, <2>2, Zenon
<1>2. ASSUME NEW f \in Feats, Delete(f) PROVE Owned' /\ Extended'
  <2>1. Owned'
    BY <1>2, <1>t, DeleteOwned, Zenon
  <2>2. PICK a \in Slots : a = index[f]
    BY <1>2, <1>t, Zenon DEF TypeOK, Delete
  <2>3. /\ up /\ key_file' = key_file /\ reserved' = reserved /\ index[f] # None
        /\ key_buf' = [key_buf EXCEPT ![a] = NoFeat]
    BY <1>2, <2>2, Zenon DEF Delete, fileVars
  <2>4. layout[a] \in reserved
    <3>1. EffectiveKey(a) = f /\ f # NoFeat
      BY <1>t, <2>2, <2>3, StoreAssumption, Zenon DEF Owned, SlotsOwnedOnce
    <3> QED
      BY <1>t, <3>1, Zenon DEF Extended, EffectiveKey
  <2>5. \A s \in Slots : s # a => key_buf'[s] = key_buf[s]
    BY <1>t, <2>3, Zenon DEF TypeOK
  <2> QED
    BY <1>l, <1>t, <2>1, <2>3, <2>4, <2>5, Zenon DEF Extended
<1>3. CASE \/ \E f \in Feats : GetSubmit(f)
           \/ GetLands \/ GetDone \/ PollAgain \/ PollDone
           \/ \E s \in sqes : WriteLands(s)
  <2>1. up /\ index' = index /\ bump_ptr' = bump_ptr /\ free_list' = free_list /\ orphaned' = orphaned
        /\ reserved' = reserved /\ key_file' = key_file /\ key_buf' = key_buf
    BY <1>3, Zenon DEF GetSubmit, GetLands, GetDone, PollAgain, PollDone, WriteLands, fileVars, slotVars, histVars
  <2> QED
    BY <1>same, <2>1, Zenon DEF EffectiveKey
<1>4. CASE Flush \/ FlushSubmit
  <2>1. up /\ index' = index /\ bump_ptr' = bump_ptr /\ free_list' = free_list /\ orphaned' = orphaned
        /\ reserved' = reserved /\ key_file' = KeysWritten(Slots) /\ key_buf' = NoKeys
    BY <1>4, Zenon DEF Flush, FlushSubmit, WriteBack, slotVars, histVars
  <2> QED
    BY <1>t, <1>l, <1>same, <2>1, WrittenKeys, Zenon
<1>5. CASE Close \/ \E K \in SUBSET Slots, P \in SUBSET Resident : Crash(K, P)
  <2>1. up' = FALSE /\ reserved' = reserved /\ key_buf' = NoKeys /\ \E K : key_file' = KeysWritten(K)
    BY <1>5, Zenon DEF Close, Crash, Ends
  <2>2. Owned'
    BY <2>1, Zenon DEF Owned
  <2>3. \A s \in Slots : key_file[s] = NoFeat /\ key_buf[s] = None => key_file'[s] = NoFeat /\ key_buf'[s] = None
    BY <2>1, Zenon DEF KeysWritten, NoKeys
  <2> QED
    BY <1>l, <1>t, <2>1, <2>2, <2>3, Zenon DEF Extended
<1>6. CASE Open
  BY <1>6, <1>t, OpenOwned, Zenon
<1>7. ASSUME NEW f \in Feats, NEW b \in Bins, PutRefused(f, b) PROVE Owned' /\ Extended'
  <2>1. up /\ index' = index /\ bump_ptr' = bump_ptr /\ free_list' = free_list /\ orphaned' = orphaned
        /\ reserved \subseteq reserved' /\ key_file' = key_file /\ key_buf' = key_buf
    BY <1>7, Zenon DEF PutRefused, slotVars, histVars
  <2> QED
    BY <1>same, <2>1, Zenon DEF EffectiveKey
<1> QED
  BY <1>1, <1>2, <1>3, <1>4, <1>5, <1>6, <1>7, Zenon DEF Next
-----------------------------------------------------------------------------
(* What reads return. *)

\* A put makes its feature read the new value from its page, and nothing is
\* durable of it until a flush (graveldb_batch_put).
LEMMA PutReads ==
  ASSUME Types, Ownership, Reads, NEW f \in Feats, NEW b \in Bins, NEW v \in Vals, Put(f, b, v)
  PROVE  Reads'
<1>t. TypeOK /\ up /\ ExpectedRead /\ DurableOK /\ HeldOK /\ Landing
  BY Zenon DEF Types, Reads, Put
<1>l. layout' = layout /\ Slots' = Slots
  BY SameLayout, Zenon DEF Put
<1>0. PICK a \in Slots : PutAt(f, v, a)
  BY PutFacts, Zenon
<1>1. /\ index'[f] = a /\ \A g \in Feats : g # f => index'[g] = index[g] /\ index[g] # a
      /\ page'[a] = v /\ \A s \in Slots : s # a => page'[s] = page[s] /\ key_buf'[s] = key_buf[s]
      /\ key_buf'[a] \in {key_buf[a], f}
      /\ index[f] \in {None, a}
  BY <1>0, Zenon DEF PutAt
<1>n. a # None /\ v # None /\ v # Unsure
  BY <1>t, LayoutFacts, StoreAssumption DEF TypeOK
<1>2. /\ up' = up /\ key_file' = key_file /\ data_file' = data_file /\ flushing' = flushing
      /\ sqes' = sqes /\ orphaned' = orphaned
      /\ dropped' = dropped \ {f} /\ late' = IF flushing THEN late \cup {f} ELSE late
  BY Zenon DEF Put, procVars
<1>3. /\ expect'[f] = v /\ \A g \in Feats : g # f => expect'[g] = expect[g]
      /\ durable'[f] = Unsure /\ \A g \in Feats : g # f => durable'[g] = durable[g]
      /\ held'[f] = Unsure /\ \A g \in Feats : g # f => held'[g] = held[g]
  BY <1>t, Zenon DEF Put, TypeOK
<1>4. \A g \in Feats : index[g] # None => index[g] \in Slots
  BY <1>t, Zenon DEF TypeOK
<1>5. ExpectedRead'
  <2>1. ASSUME NEW g \in Feats, expect'[g] # Unsure, g \notin dropped' PROVE Read(g)' = expect'[g]
    <3>1. CASE g = f
      BY <1>1, <1>3, <1>n, <3>1, Zenon DEF Read, ReadSlot
    <3>2. CASE g # f
      <4>1. Read(g) = expect[g]
        BY <1>2, <1>3, <1>t, <2>1, <3>2, Zenon DEF ExpectedRead
      <4>2. Read(g)' = Read(g)
        BY <1>1, <1>2, <1>4, <3>2, Zenon DEF Read, ReadSlot
      <4> QED
        BY <1>3, <3>2, <4>1, <4>2, Zenon
    <3> QED
      BY <3>1, <3>2, Zenon
  <2> QED
    BY <2>1, Zenon DEF ExpectedRead
<1>6. ASSUME NEW g \in Feats, g # f, Clean(g) PROVE Clean(g)'
  <2>1. \A s \in Slots : key_buf'[s] # g
    BY <1>1, <1>6, Zenon DEF Clean
  <2>2. index'[g] = index[g] /\ (index[g] # None => key_buf'[index[g]] = key_buf[index[g]])
    BY <1>1, <1>4, <1>6, Zenon
  <2>3. expect'[g] # Unsure /\ g \notin dropped'
    BY <1>2, <1>3, <1>6, Zenon DEF Clean
  <2> QED
    BY <1>l, <1>2, <1>6, <2>1, <2>2, <2>3, Zenon DEF Clean
<1>7. DurableOK'
  <2>1. ASSUME NEW g \in Feats, durable'[g] # Unsure
        PROVE  /\ Clean(g)' /\ durable'[g] = expect'[g] /\ g \notin late'
               /\ index'[g] # None => data_file'[index'[g]] = expect'[g]
    <3>1. g # f
      BY <1>3, <2>1, Zenon
    <3>2. /\ Clean(g) /\ durable[g] = expect[g] /\ g \notin late
          /\ index[g] # None => data_file[index[g]] = expect[g]
      BY <1>t, <1>3, <2>1, <3>1, Zenon DEF DurableOK
    <3> QED
      BY <1>1, <1>2, <1>3, <1>6, <3>1, <3>2, Zenon
  <2> QED
    BY <2>1, Zenon DEF DurableOK
<1>8. HeldOK'
  BY <1>t, <1>2, <1>3, <1>6, Zenon DEF HeldOK
<1>9. Landing'
  <2>1. flushing => f \in late'
    BY <1>2, Zenon
  <2> QED
    BY <1>t, <1>1, <1>2, <1>3, <2>1, Zenon DEF Landing
<1>10. OnDisk'
  BY <1>t, <1>2, Zenon DEF OnDisk
<1> QED
  BY <1>5, <1>7, <1>8, <1>9, <1>10, Zenon DEF Reads

\* After a delete the feature is absent, and its key is unwritten in the buffer
\* until a flush (graveldb_batch_delete).
LEMMA DeleteReads ==
  ASSUME Types, Ownership, Reads, NEW f \in Feats, Delete(f)
  PROVE  Reads'
<1>t. TypeOK /\ up /\ Owned /\ ExpectedRead /\ DurableOK /\ HeldOK /\ Landing
  BY Zenon DEF Types, Ownership, Reads, Delete
<1>l. layout' = layout /\ Slots' = Slots
  BY SameLayout, Zenon DEF Delete, fileVars
<1>1. PICK a \in Slots : a = index[f]
  BY <1>t, Zenon DEF TypeOK, Delete
<1>2. /\ up' = up /\ key_file' = key_file /\ data_file' = data_file /\ flushing' = flushing
      /\ sqes' = sqes /\ orphaned' = orphaned /\ page' = page
      /\ dropped' = dropped \ {f} /\ late' = late \ {f}
  BY Zenon DEF Delete, procVars, fileVars
<1>3. /\ index'[f] = None /\ \A g \in Feats : g # f => index'[g] = index[g] /\ index[g] # a
      /\ key_buf'[a] = NoFeat /\ \A s \in Slots : s # a => key_buf'[s] = key_buf[s]
  <2>1. index' = [index EXCEPT ![f] = None] /\ key_buf' = [key_buf EXCEPT ![a] = NoFeat] /\ index[f] # None
    BY <1>1, Zenon DEF Delete
  <2>2. \A g \in Feats : g # f => index[g] # a
    BY <1>t, <1>1, <2>1, KeyIndexed, Zenon
  <2> QED
    BY <1>t, <2>1, <2>2, Zenon DEF TypeOK
<1>4. /\ expect'[f] = Absent /\ \A g \in Feats : g # f => expect'[g] = expect[g]
      /\ durable'[f] = Unsure /\ \A g \in Feats : g # f => durable'[g] = durable[g]
      /\ held'[f] = Unsure /\ \A g \in Feats : g # f => held'[g] = held[g]
  BY <1>t, Zenon DEF Delete, TypeOK
<1>5. \A g \in Feats : index[g] # None => index[g] \in Slots
  BY <1>t, Zenon DEF TypeOK
<1>6. ExpectedRead'
  BY <1>t, <1>2, <1>3, <1>4 DEF ExpectedRead, Read, ReadSlot
<1>7. ASSUME NEW g \in Feats, g # f, Clean(g) PROVE Clean(g)'
  <2>0. g # NoFeat
    BY StoreAssumption, Zenon
  <2>1. \A s \in Slots : key_buf'[s] # g
    BY <1>3, <1>7, <2>0, Zenon DEF Clean
  <2>2. index'[g] = index[g] /\ (index[g] # None => key_buf'[index[g]] = key_buf[index[g]])
    BY <1>3, <1>5, <1>7, Zenon
  <2>3. expect'[g] # Unsure /\ g \notin dropped'
    BY <1>2, <1>4, <1>7, Zenon DEF Clean
  <2> QED
    BY <1>l, <1>2, <1>7, <2>1, <2>2, <2>3, Zenon DEF Clean
<1>8. DurableOK'
  BY <1>t, <1>2, <1>3, <1>4, <1>7, Zenon DEF DurableOK
<1>9. HeldOK'
  BY <1>t, <1>2, <1>4, <1>7, Zenon DEF HeldOK
<1>10. Landing'
  BY <1>t, <1>2, <1>3, <1>4, Zenon DEF Landing
<1>11. OnDisk'
  BY <1>t, <1>2, Zenon DEF OnDisk
<1> QED
  BY <1>6, <1>8, <1>9, <1>10, <1>11, Zenon DEF Reads

\* Once all keys are written, every feature of which something is expected is
\* named by the key file where it is indexed.
LEMMA WrittenClean ==
  ASSUME TypeOK, Owned, up, layout' = layout, key_file' = KeysWritten(Slots), key_buf' = NoKeys,
         index' = index, expect' = expect, dropped' = dropped, orphaned' = orphaned,
         NEW f \in Feats, expect[f] # Unsure, f \notin dropped
  PROVE  Clean(f)'
<1>1. Slots' = Slots
  BY SameLayout, Zenon
<1>2. /\ \A s \in Slots : key_buf'[s] = None /\ key_file'[s] = EffectiveKey(s)
      /\ \A s \in Slots : EffectiveKey(s)' = EffectiveKey(s)
  BY WrittenKeys, Zenon
<1>3. f # None
  BY StoreAssumption, Zenon
<1>4. \A s \in Slots : EffectiveKey(s) = f /\ f \notin orphaned => index[f] = s
  BY KeyIndexed, Zenon
<1>5. index[f] # None => index[f] \in Slots /\ EffectiveKey(index[f]) = f
  BY Zenon DEF Owned, SlotsOwnedOnce, TypeOK
<1> QED
  BY <1>1, <1>2, <1>3, <1>4, <1>5 DEF Clean

\* What is written back reads as before.
LEMMA WrittenReads ==
  ASSUME TypeOK, layout' = layout, NEW S \in SUBSET Slots, data_file' = PagesWritten(S),
         page' = page \/ (S = Resident /\ page' = NoPages), index' = index
  PROVE  /\ \A s \in Slots : ReadSlot(s)' = ReadSlot(s)
         /\ \A s \in Slots : data_file'[s] = IF s \in S THEN ReadSlot(s) ELSE data_file[s]
         /\ \A f \in Feats : Read(f)' = Read(f)
<1>1. \A s \in Slots : data_file'[s] = IF s \in S THEN ReadSlot(s) ELSE data_file[s]
  BY Zenon DEF PagesWritten
<1>2. \A s \in Slots : ReadSlot(s)' = ReadSlot(s)
  BY <1>1, Zenon DEF ReadSlot, NoPages, Resident
<1>3. \A f \in Feats : index[f] # None => index[f] \in Slots
  BY Zenon DEF TypeOK
<1>4. \A f \in Feats : Read(f)' = Read(f)
  BY <1>2, <1>3, Zenon DEF Read, ReadSlot
<1> QED
  BY <1>1, <1>2, <1>4, Zenon

\* A flush writes all keys and pages, so that what is expected is in the files
\* (graveldb_flush).
LEMMA FlushReads ==
  ASSUME Types, Ownership, Reads, Flush
  PROVE  Reads'
<1>t. TypeOK /\ up /\ Owned /\ ExpectedRead /\ HeldOK /\ Landing /\ ~flushing /\ Resident \subseteq Slots
  BY Zenon DEF Types, Ownership, Reads, Flush, Resident
<1>1. /\ up' = up /\ layout' = layout /\ key_file' = KeysWritten(Slots) /\ key_buf' = NoKeys
      /\ data_file' = PagesWritten(Resident) /\ page' = NoPages /\ durable' = Kept
      /\ index' = index /\ expect' = expect /\ dropped' = dropped /\ orphaned' = orphaned
      /\ flushing' = flushing /\ held' = held /\ late' = late
  BY Zenon DEF Flush, WriteBack, procVars, slotVars, ringVars
<1>2. /\ \A s \in Slots : data_file'[s] = IF s \in Resident THEN ReadSlot(s) ELSE data_file[s]
      /\ \A f \in Feats : Read(f)' = Read(f)
  BY <1>t, <1>1, WrittenReads, Zenon
<1>3. \A f \in Feats : expect[f] # Unsure /\ f \notin dropped => Clean(f)'
  BY <1>t, <1>1, WrittenClean, Zenon
<1>4. ExpectedRead'
  BY <1>t, <1>1, <1>2, Zenon DEF ExpectedRead
<1>5. DurableOK'
  <2>1. ASSUME NEW f \in Feats, durable'[f] # Unsure
        PROVE  /\ Clean(f)' /\ durable'[f] = expect'[f] /\ f \notin late'
               /\ index'[f] # None => data_file'[index'[f]] = expect'[f]
    <3>1. expect[f] # Unsure /\ f \notin dropped /\ durable'[f] = expect[f]
      BY <1>1, <2>1, Zenon DEF Kept
    <3>2. late = {}
      BY <1>t, Zenon DEF Landing
    <3>3. index[f] # None => data_file'[index[f]] = expect[f]
      <4>1. Read(f) = expect[f]
        BY <1>t, <3>1, Zenon DEF ExpectedRead
      <4>2. index[f] # None => index[f] \in Slots /\ Read(f) = ReadSlot(index[f])
        BY <1>t, ReadFacts, Zenon
      <4> QED
        BY <1>2, <4>1, <4>2, Zenon DEF Resident, ReadSlot
    <3> QED
      BY <1>1, <1>3, <3>1, <3>2, <3>3, Zenon
  <2> QED
    BY <2>1, Zenon DEF DurableOK
<1>6. HeldOK'
  BY <1>t, <1>1, <1>3, Zenon DEF HeldOK, Clean
<1>7. Landing' /\ OnDisk'
  BY <1>t, <1>1, Zenon DEF Landing, OnDisk
<1> QED
  BY <1>4, <1>5, <1>6, <1>7, Zenon DEF Reads

\* At the submit the keys are written and the page writes queued
\* (graveldb_flush_submit).
LEMMA FlushSubmitReads ==
  ASSUME Types, Ownership, Reads, FlushSubmit
  PROVE  Reads'
<1>t. TypeOK /\ up /\ Owned /\ ExpectedRead /\ DurableOK /\ HeldOK /\ Landing /\ ~flushing
  BY Zenon DEF Types, Ownership, Reads, FlushSubmit
<1>1. /\ up' = up /\ layout' = layout /\ key_file' = KeysWritten(Slots) /\ key_buf' = NoKeys
      /\ sqes' = IF use_uring THEN Resident ELSE {}
      /\ data_file' = IF use_uring THEN data_file ELSE PagesWritten(Resident)
      /\ flushing' = TRUE /\ held' = Kept /\ late' = {} /\ page' = page
      /\ index' = index /\ expect' = expect /\ dropped' = dropped /\ orphaned' = orphaned
      /\ durable' = durable
  BY Zenon DEF FlushSubmit, procVars, slotVars, histVars
<1> DEFINE S == IF use_uring THEN {} ELSE Resident
<1>2. S \in SUBSET Slots /\ data_file' = PagesWritten(S)
  <2>1. data_file = PagesWritten({})
    BY <1>t, Zenon DEF TypeOK, PagesWritten
  <2> QED
    BY <1>1, <2>1, Zenon DEF Resident
<1> HIDE DEF S
<1>3. /\ \A s \in Slots : data_file'[s] = IF s \in S THEN ReadSlot(s) ELSE data_file[s]
      /\ \A f \in Feats : Read(f)' = Read(f)
  BY <1>t, <1>1, <1>2, WrittenReads, Zenon
<1>4. \A f \in Feats : expect[f] # Unsure /\ f \notin dropped => Clean(f)'
  BY <1>t, <1>1, WrittenClean, Zenon
<1>5. \A f \in Feats : expect[f] # Unsure /\ f \notin dropped /\ index[f] # None =>
        index[f] \in Slots /\ ReadSlot(index[f]) = expect[f]
  BY <1>t, ReadFacts, Zenon DEF ExpectedRead
<1>6. ExpectedRead'
  BY <1>t, <1>1, <1>3, Zenon DEF ExpectedRead
<1>7. DurableOK'
  <2>1. ASSUME NEW f \in Feats, durable'[f] # Unsure
        PROVE  /\ Clean(f)' /\ durable'[f] = expect'[f] /\ f \notin late'
               /\ index'[f] # None => data_file'[index'[f]] = expect'[f]
    <3>1. /\ expect[f] # Unsure /\ f \notin dropped /\ durable[f] = expect[f]
          /\ index[f] # None => data_file[index[f]] = expect[f]
      BY <1>t, <1>1, <2>1, Zenon DEF DurableOK, Clean
    <3> QED
      BY <1>1, <1>3, <1>4, <1>5, <3>1, Zenon
  <2> QED
    BY <2>1, Zenon DEF DurableOK
<1>8. HeldOK'
  BY <1>t, <1>1, <1>4, Zenon DEF HeldOK, Kept
<1>9. Landing'
  <2>1. ASSUME NEW f \in Feats, expect[f] # Unsure, f \notin dropped, index[f] # None
        PROVE  index[f] \in sqes' \/ data_file'[index[f]] = expect[f]
    BY <1>1, <1>3, <1>5, <2>1, Zenon DEF S, Resident, ReadSlot
  <2> QED
    BY <1>1, <2>1, Zenon DEF Landing
<1>10. OnDisk'
  BY <1>t, <1>1, Zenon DEF OnDisk
<1> QED
  BY <1>6, <1>7, <1>8, <1>9, <1>10, Zenon DEF Reads

\* A queued write that lands brings to the file what its page holds
\* (uring_io_submit_write).
LEMMA WriteLandsReads ==
  ASSUME Types, Ownership, Reads, NEW s \in sqes, WriteLands(s)
  PROVE  Reads'
<1>t. TypeOK /\ up /\ s \in Slots /\ ExpectedRead /\ DurableOK /\ HeldOK /\ Landing
  BY Zenon DEF Types, TypeOK, Reads, WriteLands
<1>1. /\ up' = up /\ layout' = layout /\ key_file' = key_file /\ key_buf' = key_buf
      /\ data_file' = PagesWritten({s}) /\ sqes' = sqes \ {s}
      /\ flushing' = flushing /\ held' = held /\ late' = late /\ page' = page
      /\ index' = index /\ expect' = expect /\ dropped' = dropped /\ orphaned' = orphaned
      /\ durable' = durable
  BY Zenon DEF WriteLands, procVars, slotVars, histVars
<1>2. /\ \A t \in Slots : data_file'[t] = IF t \in {s} THEN ReadSlot(t) ELSE data_file[t]
      /\ \A f \in Feats : Read(f)' = Read(f)
  BY <1>t, <1>1, WrittenReads, Zenon
<1>3. \A f \in Feats : expect[f] # Unsure /\ f \notin dropped /\ index[f] # None =>
        index[f] \in Slots /\ ReadSlot(index[f]) = expect[f]
  BY <1>t, ReadFacts, Zenon DEF ExpectedRead
<1>4. \A f \in Feats : Clean(f)' <=> Clean(f)
  BY <1>1, SameLayout, Zenon DEF Clean
<1>5. ExpectedRead'
  BY <1>t, <1>1, <1>2, Zenon DEF ExpectedRead
<1>6. DurableOK'
  <2>1. \A f \in Feats : durable[f] # Unsure => expect[f] # Unsure /\ f \notin dropped
    BY <1>t, Zenon DEF DurableOK, Clean
  <2> QED
    BY <1>t, <1>1, <1>2, <1>3, <1>4, <2>1, ZenonT(30) DEF DurableOK
<1>7. HeldOK'
  BY <1>t, <1>1, <1>4, Zenon DEF HeldOK
<1>8. Landing'
  BY <1>t, <1>1, <1>2, <1>3, Zenon DEF Landing
<1>9. OnDisk'
  BY <1>t, <1>1, Zenon DEF OnDisk
<1> QED
  BY <1>5, <1>6, <1>7, <1>8, <1>9, Zenon DEF Reads

\* When all writes have landed the pages are dropped; reads now go to the file,
\* except of features put since the submit (graveldb_flush_poll).
LEMMA PollDoneReads ==
  ASSUME Types, Ownership, Reads, PollDone
  PROVE  Reads'
<1>t. TypeOK /\ up /\ flushing /\ sqes = {} /\ ExpectedRead /\ DurableOK /\ HeldOK /\ Landing
  BY Zenon DEF Types, Reads, PollDone
<1>1. /\ up' = up /\ layout' = layout /\ key_file' = key_file /\ key_buf' = key_buf
      /\ data_file' = data_file /\ page' = NoPages /\ flushing' = FALSE
      /\ dropped' = dropped \cup late /\ late' = {}
      /\ durable' = [f \in Feats |-> IF held[f] = Unsure THEN durable[f] ELSE held[f]]
      /\ held' = [f \in Feats |-> Unsure]
      /\ index' = index /\ expect' = expect /\ orphaned' = orphaned
  BY Zenon DEF PollDone, procVars, fileVars, slotVars
<1>2. \A f \in Feats : expect[f] # Unsure /\ f \notin late \cup dropped /\ index[f] # None =>
        index[f] \in Slots /\ data_file[index[f]] = expect[f]
  BY <1>t, Zenon DEF Landing, TypeOK
<1>3. ASSUME NEW f \in Feats, Clean(f), f \notin late PROVE Clean(f)'
  BY <1>1, <1>3, SameLayout, Zenon DEF Clean
<1>4. ExpectedRead'
  <2>1. ASSUME NEW f \in Feats, expect[f] # Unsure, f \notin late \cup dropped
        PROVE  Read(f)' = expect[f]
    <3>1. CASE index[f] = None
      BY <1>t, <1>1, <2>1, <3>1, Zenon DEF ExpectedRead, Read
    <3>2. CASE index[f] # None
      BY <1>1, <1>2, <2>1, <3>2, Zenon DEF Read, ReadSlot, NoPages
    <3> QED
      BY <3>1, <3>2, Zenon
  <2> QED
    BY <1>1, <2>1, Zenon DEF ExpectedRead
<1>5. DurableOK'
  <2>1. ASSUME NEW f \in Feats, durable'[f] # Unsure
        PROVE  /\ Clean(f)' /\ durable'[f] = expect'[f] /\ f \notin late'
               /\ index'[f] # None => data_file'[index'[f]] = expect'[f]
    <3>1. CASE held[f] = Unsure
      <4>1. durable'[f] = durable[f]
        BY <1>1, <3>1, Zenon
      <4>2. /\ Clean(f) /\ durable[f] = expect[f] /\ f \notin late
            /\ index[f] # None => data_file[index[f]] = expect[f]
        BY <1>t, <2>1, <4>1, Zenon DEF DurableOK
      <4> QED
        BY <1>1, <1>3, <4>1, <4>2, Zenon
    <3>2. CASE held[f] # Unsure
      <4>1. durable'[f] = held[f]
        BY <1>1, <3>2, Zenon
      <4>2. Clean(f) /\ held[f] = expect[f] /\ f \notin late
        BY <1>t, <3>2, Zenon DEF HeldOK
      <4>3. index[f] # None => data_file[index[f]] = expect[f]
        BY <1>2, <4>2, Zenon DEF Clean
      <4> QED
        BY <1>1, <1>3, <4>1, <4>2, <4>3, Zenon
    <3> QED
      BY <3>1, <3>2, Zenon
  <2> QED
    BY <2>1, Zenon DEF DurableOK
<1>6. HeldOK' /\ Landing' /\ OnDisk'
  BY <1>t, <1>1, Zenon DEF HeldOK, Landing, OnDisk
<1> QED
  BY <1>4, <1>5, <1>6, Zenon DEF Reads

\* While the process is down only OnDisk says something.
LEMMA DownReads ==
  ASSUME Ends, OnDisk' PROVE Reads'
BY Zenon DEF Ends, Reads, ExpectedRead, DurableOK, HeldOK, Landing

\* A close flushes, and the files say what is expected (graveldb_close).
LEMMA CloseReads ==
  ASSUME Types, Ownership, Reads, Close
  PROVE  Reads'
<1>t. TypeOK /\ up /\ Owned /\ ExpectedRead /\ Resident \subseteq Slots
  BY Zenon DEF Types, Ownership, Reads, Close, Resident
<1>1. /\ Ends /\ layout' = layout /\ key_file' = KeysWritten(Slots) /\ key_buf' = NoKeys
      /\ data_file' = PagesWritten(Resident) /\ durable' = Kept
      /\ expect' = expect /\ dropped' = dropped /\ orphaned' = orphaned
  BY Zenon DEF Close, Ends
<1>2. \A s \in Slots : data_file'[s] = ReadSlot(s) /\ key_file'[s] = EffectiveKey(s)
  BY <1>1, Zenon DEF PagesWritten, Resident, ReadSlot, KeysWritten, EffectiveKey
<1>3. ASSUME NEW f \in Feats, expect[f] # Unsure, f \notin dropped \cup orphaned
      PROVE  IF expect[f] = Absent THEN \A s \in Slots : key_file'[s] # f
             ELSE \E s \in Slots : key_file'[s] = f /\ data_file'[s] = expect[f]
  <2>1. Read(f) = expect[f]
    BY <1>t, <1>3, Zenon DEF ExpectedRead
  <2>2. CASE expect[f] = Absent
    <3>1. index[f] = None
      BY <1>t, <2>1, <2>2, ReadFacts, Zenon
    <3>2. \A s \in Slots : EffectiveKey(s) = f => index[f] = s
      BY <1>t, <1>3, KeyIndexed, Zenon
    <3>3. None \notin Slots
      BY <1>t, LayoutFacts, StoreAssumption DEF TypeOK
    <3> QED
      BY <1>2, <2>2, <3>1, <3>2, <3>3, Zenon
  <2>3. CASE expect[f] # Absent
    <3>1. index[f] # None /\ index[f] \in Slots /\ ReadSlot(index[f]) = expect[f]
      BY <1>t, <2>1, <2>3, ReadFacts, Zenon
    <3>2. EffectiveKey(index[f]) = f
      BY <1>t, <3>1, Zenon DEF Owned, SlotsOwnedOnce
    <3> QED
      BY <1>2, <2>3, <3>1, <3>2, Zenon
  <2> QED
    BY <2>2, <2>3, Zenon
<1>4. \A f \in Feats : durable'[f] # Unsure => expect[f] = durable'[f] /\ f \notin dropped
  BY <1>1, Zenon DEF Kept
<1>5. OnDisk'
  BY <1>1, <1>3, <1>4, SameLayout, Zenon DEF OnDisk
<1> QED
  BY <1>1, <1>5, DownReads, Zenon

\* A crash leaves some of the keys and pages written, and the files still say
\* what must survive (dimbin_flush cut anywhere).
LEMMA CrashReads ==
  ASSUME Types, Ownership, Reads, NEW K \in SUBSET Slots, NEW P \in SUBSET Resident, Crash(K, P)
  PROVE  Reads'
<1>t. TypeOK /\ up /\ ExpectedRead /\ DurableOK
  BY Zenon DEF Types, Reads, Crash
<1>1. /\ Ends /\ layout' = layout /\ key_file' = KeysWritten(K) /\ data_file' = PagesWritten(P)
      /\ expect' = durable /\ durable' = durable /\ dropped' = {} /\ orphaned' = orphaned
  BY Zenon DEF Crash, Ends
<1>2. \A s \in Slots : /\ data_file'[s] \in {data_file[s], ReadSlot(s)}
                       /\ key_file'[s] = key_file[s] \/ key_file'[s] = key_buf[s]
                       /\ key_buf[s] = None => key_file'[s] = key_file[s]
  BY <1>1, Zenon DEF PagesWritten, KeysWritten
<1>3. ASSUME NEW f \in Feats, durable[f] # Unsure, f \notin orphaned
      PROVE  IF durable[f] = Absent THEN \A s \in Slots : key_file'[s] # f
             ELSE \E s \in Slots : key_file'[s] = f /\ data_file'[s] = durable[f]
  <2>1. /\ Clean(f) /\ durable[f] = expect[f]
        /\ index[f] # None => data_file[index[f]] = expect[f]
    BY <1>t, <1>3, Zenon DEF DurableOK
  <2>2. Read(f) = expect[f]
    BY <1>t, <2>1, Zenon DEF ExpectedRead, Clean
  <2>3. CASE durable[f] = Absent
    <3>1. index[f] = None
      BY <1>t, <2>1, <2>2, <2>3, ReadFacts, Zenon
    <3>2. None \notin Slots
      BY <1>t, LayoutFacts, StoreAssumption, SMTT(60) DEF TypeOK
    <3>3. \A s \in Slots : key_file[s] # f /\ key_buf[s] # f
      BY <1>3, <2>1, <3>1, <3>2, Zenon DEF Clean
    <3> QED
      BY <1>2, <2>3, <3>3, Zenon
  <2>4. CASE durable[f] # Absent
    <3>1. index[f] # None /\ index[f] \in Slots /\ ReadSlot(index[f]) = expect[f]
      BY <1>t, <2>1, <2>2, <2>4, ReadFacts, Zenon
    <3>2. key_file[index[f]] = f /\ key_buf[index[f]] = None
      BY <1>3, <2>1, <3>1, Zenon DEF Clean
    <3> QED
      BY <1>2, <2>1, <2>4, <3>1, <3>2, Zenon
  <2> QED
    BY <2>3, <2>4, Zenon
<1>4. OnDisk'
  BY <1>1, <1>3, SameLayout, Zenon DEF OnDisk
<1> QED
  BY <1>1, <1>4, DownReads, Zenon

\* The index rebuilt from the keys finds what the files say
\* (rebuild_index_from_keys).
LEMMA OpenReads ==
  ASSUME Types, Ownership, Reads, Open
  PROVE  Reads'
<1>t. TypeOK /\ ~up /\ Down /\ OnDisk /\ Landing /\ Extended
  BY Zenon DEF Types, Ownership, Reads, Open
<1>1. /\ up' = TRUE /\ layout' = layout /\ data_file' = data_file /\ page' = page /\ flushing' = flushing
      /\ held' = held /\ late' = late /\ dropped' = dropped
      /\ expect' = [f \in Feats |-> IF f \in orphaned \cup orphaned' THEN Unsure ELSE expect[f]]
      /\ durable' = [f \in Feats |-> IF f \in orphaned \cup orphaned' THEN Unsure ELSE durable[f]]
  BY Zenon DEF Open, ringVars
<1>2. page = NoPages /\ held = [f \in Feats |-> Unsure] /\ ~flushing /\ late = {}
  BY <1>t, Zenon DEF Down, Landing
<1>r. /\ \A s \in Slots : key_file'[s] = key_file[s] \/ key_file'[s] = NoFeat
      /\ \A s \in Slots : key_buf'[s] \in {NoFeat, None}
      /\ \A f \in Feats : index'[f] # None =>
           /\ index'[f] \in Slots /\ key_file'[index'[f]] = f /\ key_buf'[index'[f]] = None
      /\ \A s \in Slots, f \in Feats : key_file[s] = f /\ f \notin orphaned' => index'[f] = s
  BY <1>t, Reopened, Zenon DEF Types
<1>n. \A f \in Feats : f # NoFeat /\ f # None
  BY StoreAssumption, Zenon
<1>3. ASSUME NEW f \in Feats, expect'[f] # Unsure, f \notin dropped
      PROVE  /\ expect'[f] = expect[f] /\ f \notin orphaned \cup orphaned'
             /\ index'[f] = None => expect[f] = Absent
             /\ index'[f] # None => data_file[index'[f]] = expect[f]
  <2>1. expect'[f] = expect[f] /\ f \notin orphaned \cup orphaned' /\ expect[f] # Unsure
    BY <1>1, <1>3, Zenon
  <2>2. IF expect[f] = Absent THEN \A s \in Slots : key_file[s] # f
        ELSE \E s \in Slots : key_file[s] = f /\ data_file[s] = expect[f]
    BY <1>t, <1>3, <2>1, Zenon DEF OnDisk
  <2>3. None \notin Slots
    BY <1>t, LayoutFacts, StoreAssumption DEF TypeOK
  <2>4. CASE expect[f] = Absent
    <3>1. index'[f] = None
      BY <1>n, <1>r, <2>2, <2>4
    <3> QED
      BY <2>1, <2>4, <3>1, Zenon
  <2>5. CASE expect[f] # Absent
    <3>1. PICK s \in Slots : key_file[s] = f /\ data_file[s] = expect[f]
      BY <2>2, <2>5, Zenon
    <3>2. index'[f] = s
      BY <1>r, <2>1, <3>1, Zenon
    <3> QED
      BY <2>1, <2>3, <3>1, <3>2, Zenon
  <2> QED
    BY <2>4, <2>5, Zenon
<1>4. ExpectedRead'
  <2>1. ASSUME NEW f \in Feats, expect'[f] # Unsure, f \notin dropped PROVE Read(f)' = expect'[f]
    <3>1. CASE index'[f] = None
      BY <1>3, <2>1, <3>1, Zenon DEF Read
    <3>2. CASE index'[f] # None
      <4>1. index'[f] \in Slots /\ page'[index'[f]] = None
        BY <1>1, <1>2, <1>r, <3>2, Zenon DEF NoPages
      <4> QED
        BY <1>1, <1>3, <2>1, <3>2, <4>1, Zenon DEF Read, ReadSlot
    <3> QED
      BY <3>1, <3>2, Zenon
  <2> QED
    BY <1>1, <2>1, Zenon DEF ExpectedRead
<1>5. DurableOK'
  <2>1. ASSUME NEW f \in Feats, durable'[f] # Unsure
        PROVE  /\ Clean(f)' /\ durable'[f] = expect'[f] /\ f \notin late'
               /\ index'[f] # None => data_file'[index'[f]] = expect'[f]
    <3>1. durable'[f] = durable[f] /\ f \notin orphaned \cup orphaned' /\ durable[f] # Unsure
      BY <1>1, <2>1, Zenon
    <3>2. expect[f] = durable[f] /\ f \notin dropped
      BY <1>t, <3>1, Zenon DEF OnDisk
    <3>3. expect'[f] = expect[f]
      BY <1>1, <3>1, Zenon
    <3>4. \A s \in Slots : key_buf'[s] # f
      BY <1>n, <1>r, Zenon
    <3>5. \A s \in Slots : key_file'[s] = f => index'[f] = s
      BY <1>n, <1>r, <3>1, Zenon
    <3>6. index'[f] # None => key_file'[index'[f]] = f /\ key_buf'[index'[f]] = None
      BY <1>r, Zenon
    <3>7. Clean(f)'
      BY <1>1, <3>1, <3>2, <3>3, <3>4, <3>5, <3>6, SameLayout, Zenon DEF Clean
    <3> QED
      BY <1>1, <1>2, <1>3, <3>1, <3>2, <3>3, <3>7, Zenon
  <2> QED
    BY <2>1, Zenon DEF DurableOK
<1>6. HeldOK' /\ Landing' /\ OnDisk'
  BY <1>1, <1>2, Zenon DEF HeldOK, Landing, OnDisk
<1> QED
  BY <1>4, <1>5, <1>6, Zenon DEF Reads

\* Reads return the same when only a get in flight or the ring changes.
LEMMA SameReads ==
  ASSUME Reads, up' = up, layout' = layout, key_file' = key_file, key_buf' = key_buf,
         data_file' = data_file, page' = page, flushing' = flushing, sqes' = sqes,
         held' = held, late' = late, index' = index, expect' = expect,
         durable' = durable, dropped' = dropped, orphaned' = orphaned
  PROVE  Reads'
<1>1. Slots' = Slots
  BY SameLayout, Zenon
<1>2. \A f : Read(f)' = Read(f)
  BY Zenon DEF Read, ReadSlot
<1>3. \A f : Clean(f)' <=> Clean(f)
  BY <1>1, Zenon DEF Clean
<1>4. ExpectedRead'
  BY <1>2, Zenon DEF Reads, ExpectedRead
<1>5. DurableOK' /\ HeldOK'
  BY <1>3, ZenonT(60) DEF Reads, DurableOK, HeldOK
<1>6. Landing' /\ OnDisk'
  BY <1>1, Zenon DEF Reads, Landing, OnDisk
<1> QED
  BY <1>4, <1>5, <1>6, Zenon DEF Reads

\* Reads, step by step.
LEMMA ReadsStep ==
  ASSUME Types, Ownership, Reads, Next
  PROVE  Reads'
<1>1. CASE \/ GetLands \/ GetDone \/ PollAgain
           \/ \E f \in Feats : GetSubmit(f)
           \/ \E f \in Feats, b \in Bins : PutRefused(f, b)
  <2>1. /\ up' = up /\ layout' = layout /\ key_file' = key_file /\ key_buf' = key_buf
        /\ data_file' = data_file /\ page' = page /\ flushing' = flushing /\ sqes' = sqes
        /\ held' = held /\ late' = late /\ index' = index /\ expect' = expect
        /\ durable' = durable /\ dropped' = dropped /\ orphaned' = orphaned
    BY <1>1, Zenon DEF GetLands, GetDone, PollAgain, GetSubmit, PutRefused, procVars, fileVars, slotVars, ringVars, histVars
  <2> QED
    BY <2>1, SameReads, Zenon
<1> QED
  BY <1>1, PutReads, DeleteReads, FlushReads, FlushSubmitReads, WriteLandsReads, PollDoneReads,
     CloseReads, CrashReads, OpenReads, Zenon DEF Next
-----------------------------------------------------------------------------
(* The theorems. *)

\* A new database stores nothing (graveldb_open on an empty directory).
LEMMA StoreInit ==
  ASSUME Init PROVE StoreInv
<1>l. layout \in Layouts /\ \A b \in Bins : Capacity(b) \in Nat
  BY BinBounds, Zenon DEF Init
<1>1. TypeOK
  <2>1. /\ index \in [Feats -> Slots \cup {None}] /\ free_list \in [Bins -> Seq(Slots)]
        /\ key_buf \in [Slots -> Feats \cup {NoFeat, None}] /\ key_file \in [Slots -> Feats \cup {NoFeat}]
        /\ page \in [Slots -> Vals \cup {None}] /\ data_file \in [Slots -> Vals \cup {Zero}]
    BY DEF Init, NoKeys, NoPages
  <2>2. bump_ptr \in [Bins -> Nat] /\ \A b \in Bins : bump_ptr[b] <= Capacity(b)
    BY <1>l DEF Init
  <2>3. /\ expect \in [Feats -> Vals \cup {Absent, Unsure}] /\ durable = expect
        /\ held \in [Feats -> Vals \cup {Absent, Unsure}]
    BY Zenon DEF Init
  <2>4. /\ up \in BOOLEAN /\ use_uring \in BOOLEAN /\ flushing \in BOOLEAN /\ submitted \in BOOLEAN
        /\ reserved = {} /\ sqes = {} /\ late = {} /\ dropped = {} /\ orphaned = {}
    BY Zenon DEF Init
  <2>5. opens \in 1 .. MaxOpens
    <3>1. MaxOpens \in Nat \ {0} /\ opens = 1
      BY StoreAssumption, Zenon DEF Init
    <3> QED
      BY <3>1
  <2> QED
    BY <1>l, <2>1, <2>2, <2>3, <2>4, <2>5, Zenon DEF TypeOK
<1>2. GetTyped /\ Down /\ GetOK /\ GetInWindow
  BY Zenon DEF Init, GetTyped, Down, GetOK, GetInWindow
<1>3. Owned
  <2>1. IsInjective(<<>>) /\ Range(<<>>) = {}
    BY DEF IsInjective, Range
  <2>2. Allocated = {}
    <3> SUFFICES ASSUME NEW s \in Slots PROVE ~(s - First(layout[s]) < bump_ptr[layout[s]])
      BY Zenon DEF Allocated
    <3>1. s \in Nat /\ layout[s] \in Bins /\ s \in SlotsOf(layout[s])
      BY <1>l, LayoutFacts
    <3>2. First(layout[s]) \in Nat /\ First(layout[s]) <= s
      BY <1>l, <3>1, BinBounds, Zenon
    <3>3. bump_ptr[layout[s]] = 0
      BY <3>1, Zenon DEF Init
    <3> QED
      BY <3>1, <3>2, <3>3
  <2>3. /\ \A f \in Feats : index[f] = None
        /\ \A b \in Bins : free_list[b] = <<>>
        /\ \A s \in Slots : key_file[s] = NoFeat /\ key_buf[s] = None
    BY Zenon DEF Init, NoKeys
  <2> QED
    BY <2>1, <2>2, <2>3, Zenon DEF Owned, SlotsOwnedOnce
<1>4. Extended
  BY Zenon DEF Extended, Init, NoKeys
<1>5. ExpectedRead /\ HeldOK /\ Landing /\ OnDisk
  BY Zenon DEF Init, ExpectedRead, Read, HeldOK, Landing, OnDisk
<1>6. DurableOK
  <2>1. /\ up /\ \A f \in Feats : durable[f] = Absent /\ expect[f] = Absent /\ index[f] = None
        /\ late = {} /\ dropped = {}
        /\ \A s \in Slots : key_file[s] = NoFeat /\ key_buf[s] = None
    BY Zenon DEF Init, NoKeys
  <2>2. Absent # Unsure /\ \A f \in Feats : f # NoFeat /\ f # None
    BY StoreAssumption, Zenon
  <2> QED
    BY <2>1, <2>2, Zenon DEF DurableOK, Clean
<1> QED
  BY <1>1, <1>2, <1>3, <1>4, <1>5, <1>6, Zenon DEF StoreInv, Types, Ownership, Reads

\* A step that changes nothing keeps the invariant.
LEMMA StoreStutter ==
  ASSUME StoreInv, UNCHANGED vars PROVE StoreInv'
<1>1. /\ layout' = layout /\ up' = up /\ opens' = opens /\ use_uring' = use_uring
      /\ reserved' = reserved /\ index' = index /\ bump_ptr' = bump_ptr /\ free_list' = free_list
      /\ key_buf' = key_buf /\ key_file' = key_file /\ page' = page /\ data_file' = data_file
      /\ flushing' = flushing /\ submitted' = submitted /\ sqes' = sqes /\ get' = get
      /\ expect' = expect /\ held' = held /\ durable' = durable /\ late' = late
      /\ dropped' = dropped /\ orphaned' = orphaned
  BY Zenon DEF vars, procVars, fileVars, slotVars, ringVars, histVars
<1>l. /\ Slots' = Slots /\ Bins' = Bins /\ NoKeys' = NoKeys /\ NoPages' = NoPages
      /\ \A b : SlotsOf(b)' = SlotsOf(b) /\ First(b)' = First(b) /\ Capacity(b)' = Capacity(b)
  BY <1>1, SameLayout, Zenon
<1>2. Types'
  BY <1>1, <1>l, Zenon DEF StoreInv, Types, TypeOK, GetTyped, Gets, Down
<1>3. Allocated' = Allocated
  BY <1>1, <1>l, Zenon DEF Allocated
<1>4. Ownership'
  BY <1>1, <1>l, <1>3, Zenon DEF StoreInv, Ownership, Owned, Extended, SlotsOwnedOnce, EffectiveKey
<1>5. Reads'
  BY <1>1, SameReads, Zenon DEF StoreInv
<1>6. GetOK' /\ GetInWindow'
  BY <1>1, Zenon DEF StoreInv, GetOK, GetInWindow
<1> QED
  BY <1>2, <1>4, <1>5, <1>6, Zenon DEF StoreInv

\* In every reachable state of the database and its files the inductive
\* invariant holds: who owns which slot, what the buffers and files hold of
\* what is expected, and what the get in flight will read.
THEOREM StoreInvHolds == Spec => []StoreInv
<1>1. Init => StoreInv
  BY StoreInit, Zenon
<1>2. StoreInv /\ [Next]_vars => StoreInv'
  <2> SUFFICES ASSUME StoreInv, [Next]_vars PROVE StoreInv'
    OBVIOUS
  <2>1. CASE Next
    <3>1. Types /\ Ownership /\ Owned /\ Reads /\ GetOK /\ GetInWindow
      BY Zenon DEF StoreInv, Ownership
    <3>2. Types'
      BY <2>1, <3>1, TypesStep, GetTypedStep, DownStep, Zenon DEF Types
    <3>3. Ownership'
      BY <2>1, <3>1, OwnershipStep, Zenon
    <3>4. Reads'
      BY <2>1, <3>1, ReadsStep, Zenon
    <3>5. GetOK' /\ GetInWindow'
      BY <2>1, <3>1, GetStep, Zenon
    <3> QED
      BY <3>2, <3>3, <3>4, <3>5, Zenon DEF StoreInv
  <2>2. CASE UNCHANGED vars
    BY <2>2, StoreStutter, Zenon
  <2> QED
    BY <2>1, <2>2, Zenon
<1> QED
  BY <1>1, <1>2, PTL DEF Spec

\* Every variable stays in range, whatever the layout, the features and the
\* number of sessions: bump_ptr never passes the capacity of its bin
\* (dimbin_alloc_entry), and no key but a feature's or 0 reaches a key file.
THEOREM StoreTypeOK == Spec => []TypeOK
<1>1. StoreInv => TypeOK
  BY Zenon DEF StoreInv, Types
<1> QED
  BY <1>1, StoreInvHolds, PTL

\* A slot has one owner, in every session and after every crash
\* (dimbin_alloc_entry, dimbin_free_entry, rebuild_index_from_keys).
THEOREM StoreSlotsOwnedOnce == Spec => []SlotsOwnedOnce
<1>1. StoreInv => SlotsOwnedOnce
  BY Zenon DEF StoreInv, Ownership, Owned, SlotsOwnedOnce
<1> QED
  BY <1>1, StoreInvHolds, PTL

\* A read returns what the last put or delete left, through asynchronous
\* flushes, closing, crashes anywhere in a flush and reopening
\* (graveldb_batch_get, graveldb_flush_submit, graveldb_flush_poll, graveldb_open).
THEOREM StoreExpectedRead == Spec => []ExpectedRead
<1>1. StoreInv => ExpectedRead
  BY Zenon DEF StoreInv, Reads
<1> QED
  BY <1>1, StoreInvHolds, PTL

\* An asynchronous get answers with a value of its window
\* (graveldb_batch_get_submit, graveldb_batch_get_poll).
THEOREM StoreGetInWindow == Spec => []GetInWindow
<1>1. StoreInv => GetInWindow
  BY Zenon DEF StoreInv
<1> QED
  BY <1>1, StoreInvHolds, PTL
=============================================================================
