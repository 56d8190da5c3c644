---------------------------- MODULE ScanProofs -----------------------------
(***************************************************************************)
(* The loops of checkpoint export, for any input: the owned slots of a     *)
(* batch, the runs they are coalesced into and the dirty pages that a      *)
(* batch takes.  And the inductive invariant of an export.                 *)
(***************************************************************************)
EXTENDS Import, SequenceTheorems, WellFoundedInduction, TLAPS
-----------------------------------------------------------------------------
(* Numbers. *)

\* A set of numbers that is not empty has a least member: used where a loop
\* stops at the first page that fills a batch.
LEMMA LeastMember ==
  ASSUME NEW T, T \subseteq Nat, T # {}
  PROVE  \E x \in T : \A y \in T : x <= y
<1> DEFINE R == {ss \in Nat \X Nat : ss[1] < ss[2]}
<1>1. OpToRel(<, Nat) = R
  BY Zenon DEF OpToRel
<1>2. IsWellFoundedOn(R, Nat)
  BY <1>1, NatLessThanWellFounded, Zenon
<1>3. \E x \in T : \A y \in T : ~ (<<y, x>> \in R)
  <2> HIDE DEF R
  <2> QED
    BY <1>2, WFMin, Zenon
<1>4. PICK x \in T : \A y \in T : ~ (<<y, x>> \in R)
  BY <1>3, Zenon
<1>5. ASSUME NEW y \in T PROVE x <= y
  <2>1. x \in Nat /\ y \in Nat
    OBVIOUS
  <2>2. ~(<<y, x>> \in R)
    BY <1>4, Zenon
  <2>3. <<y, x>> \in R <=> y < x
    BY <2>1, Zenon
  <2> QED
    BY <2>1, <2>2, <2>3
<1> QED
  BY <1>5, Zenon

\* Induction, with a property as the set of the numbers that have it: used for
\* the loops over the keys, the pages and the owned slots of a batch.
LEMMA NumberInduction ==
  ASSUME NEW S, 0 \in S, \A n \in Nat : n \in S => n + 1 \in S
  PROVE  Nat \subseteq S
<1> SUFFICES ASSUME ~(Nat \subseteq S) PROVE FALSE
  OBVIOUS
<1>1. Nat \ S # {}
  OBVIOUS
<1>2. PICK x \in Nat \ S : \A y \in Nat \ S : x <= y
  BY <1>1, LeastMember, Zenon
<1>3. x # 0 /\ x - 1 \in Nat /\ x - 1 + 1 = x
  BY <1>2
<1>4. x - 1 \notin S
  BY <1>3, <1>2, Zenon
<1> QED
  BY <1>2, <1>3, <1>4

\* Min of a set of numbers.
LEMMA MinIs ==
  ASSUME NEW T, T \subseteq Nat, T # {}
  PROVE  Min(T) \in T /\ \A y \in T : Min(T) <= y
<1>1. \E x \in T : \A y \in T : x <= y
  BY LeastMember, Zenon
<1> QED
  BY <1>1, Zenon DEF Min

\* Min of two numbers, as in the bounds of a batch and of a page.
LEMMA MinOfTwo ==
  ASSUME NEW a \in Nat, NEW b \in Nat
  PROVE  /\ Min({a, b}) \in Nat /\ Min({a, b}) <= a /\ Min({a, b}) <= b
         /\ Min({a, b}) = a \/ Min({a, b}) = b
<1>1. Min({a, b}) \in {a, b} /\ \A y \in {a, b} : Min({a, b}) <= y
  BY MinIs
<1> QED
  BY <1>1
-----------------------------------------------------------------------------
(* The loops of the export as recursive functions. *)

\* upto[n] is what the loop of Kept has kept of the first n members.
KeepsUpTo(s, keep, upto) ==
  /\ upto[0] = <<>>
  /\ \A n \in 1 .. Len(s) :
       upto[n] = IF n \in keep THEN Append(upto[n - 1], s[n]) ELSE upto[n - 1]

\* The loop of Kept goes from one member to the next.
LEMMA KeptLoop ==
  ASSUME NEW s, Len(s) \in Nat, NEW keep
  PROVE  \E upto : KeepsUpTo(s, keep, upto) /\ Kept(s, keep) = upto[Len(s)]
<1> DEFINE N == Len(s)
           Body(g, i) ==
             IF i = 0 THEN <<>>
             ELSE IF i \in keep THEN Append(g[i - 1], s[i]) ELSE g[i - 1]
           Loop(g, n) == g = [i \in 0 .. n |-> Body(g, i)]
           S == {n \in Nat : \E g : Loop(g, n)}
           all == CHOOSE g : Loop(g, N)
<1>1. 0 \in S
  <2> DEFINE g == [i \in 0 .. 0 |-> <<>>]
  <2>1. g = [i \in 0 .. 0 |-> Body(g, i)]
    OBVIOUS
  <2>2. Loop(g, 0)
    BY <2>1, Zenon
  <2> QED
    BY <2>2, Zenon
<1>2. ASSUME NEW n \in Nat, n \in S PROVE n + 1 \in S
  <2>1. PICK g : Loop(g, n)
    BY <1>2, Zenon
  <2> DEFINE h == [i \in 0 .. (n + 1) |-> IF i <= n THEN g[i] ELSE Body(g, i)]
  <2>2. ASSUME NEW i \in 0 .. (n + 1) PROVE h[i] = Body(h, i)
    <3>1. CASE i <= n
      <4>1. h[i] = g[i] /\ g[i] = Body(g, i)
        <5> HIDE DEF Body
        <5>1. i \in 0 .. n
          BY <3>1
        <5>2. h[i] = g[i]
          BY <3>1
        <5> QED
          BY <2>1, <5>1, <5>2, Zenon
      <4>2. i # 0 => h[i - 1] = g[i - 1]
        BY <3>1
      <4> QED
        BY <4>1, <4>2, Zenon
    <3>2. CASE i = n + 1
      <4>1. h[i] = Body(g, i) /\ i # 0 /\ i - 1 = n
        BY <3>2
      <4>2. h[i - 1] = g[i - 1]
        BY <4>1
      <4> QED
        BY <4>1, <4>2, Zenon
    <3> QED
      BY <3>1, <3>2
  <2>3. Loop(h, n + 1)
    BY <2>2, Zenon
  <2> HIDE DEF h, Loop
  <2>4. n + 1 \in Nat /\ \E g0 : Loop(g0, n + 1)
    BY <2>3
  <2> QED
    BY <2>4, Zenon
<1>3. Nat \subseteq S
  <2> HIDE DEF S
  <2> QED
    BY <1>1, <1>2, NumberInduction, Zenon
<1>4. \E g : Loop(g, N)
  BY <1>3, Zenon
<1>5. all = [i \in 0 .. N |-> Body(all, i)]
  <2> HIDE DEF Loop
  <2>2. Loop(all, N)
    BY <1>4, Zenon
  <2> QED
    BY <2>2, Zenon DEF Loop
<1>6. Kept(s, keep) = all[N]
  BY Zenon DEF Kept
<1> HIDE DEF all
<1>7. all[0] = <<>>
  BY <1>5
<1>8. ASSUME NEW n \in 1 .. N
      PROVE  all[n] = IF n \in keep THEN Append(all[n - 1], s[n]) ELSE all[n - 1]
  <2>1. n \in 0 .. N /\ n # 0
    OBVIOUS
  <2>2. all[n] = Body(all, n)
    <3> HIDE DEF Body
    <3> QED
      BY <1>5, <2>1, Zenon
  <2> QED
    BY <2>1, <2>2, Zenon
<1>9. KeepsUpTo(s, keep, all)
  BY <1>7, <1>8, Zenon DEF KeepsUpTo
<1> QED
  BY <1>6, <1>9, Zenon

\* The members at the places in at, in ascending order, are those of s at the
\* places in keep up to n.
Places(s, keep, n, q, at) ==
  /\ Len(q) <= n
  /\ at \in [1 .. Len(q) -> (1 .. n) \cap keep]
  /\ \A i, j \in 1 .. Len(q) : i < j => at[i] < at[j]
  /\ \A i \in 1 .. Len(q) : q[i] = s[at[i]]
  /\ \A m \in (1 .. n) \cap keep : \E i \in 1 .. Len(q) : at[i] = m

\* What Kept keeps, in order: used for the scan of the dirty pages
\* (dirty_tracker_scan_ckpt) and of a batch of keys (export_step_single).
LEMMA KeptPlaces ==
  ASSUME NEW X, NEW s \in Seq(X), NEW keep
  PROVE  /\ Kept(s, keep) \in Seq(X)
         /\ \E at : Places(s, keep, Len(s), Kept(s, keep), at)
<1>1. Len(s) \in Nat /\ \A n \in 1 .. Len(s) : s[n] \in X
  OBVIOUS
<1>2. PICK upto : KeepsUpTo(s, keep, upto) /\ Kept(s, keep) = upto[Len(s)]
  BY <1>1, KeptLoop, Zenon
<1> DEFINE Good(n) == upto[n] \in Seq(X) /\ \E at : Places(s, keep, n, upto[n], at)
           S == {n \in Nat : n <= Len(s) => Good(n)}
<1>3. 0 \in S
  <2> DEFINE at == [i \in 1 .. 0 |-> 0]
  <2>1. Places(s, keep, 0, <<>>, at) /\ <<>> \in Seq(X)
    BY DEF Places
  <2>2. Good(0)
    BY <1>2, <2>1, Zenon DEF KeepsUpTo
  <2> QED
    BY <2>2
<1>4. ASSUME NEW n \in Nat, n \in S PROVE n + 1 \in S
  <2> SUFFICES ASSUME n + 1 <= Len(s) PROVE Good(n + 1)
    OBVIOUS
  <2>1. n <= Len(s) /\ n + 1 \in 1 .. Len(s) /\ n + 1 - 1 = n
    BY <1>1
  <2>2. Good(n)
    BY <1>4, <2>1, Zenon
  <2>3. PICK q : q = upto[n]
    OBVIOUS
  <2>4. q \in Seq(X) /\ \E at : Places(s, keep, n, q, at)
    BY <2>2, <2>3, Zenon
  <2>5. PICK at : Places(s, keep, n, q, at)
    BY <2>4, Zenon
  <2>6. upto[n + 1] = IF n + 1 \in keep THEN Append(q, s[n + 1]) ELSE q
    BY <1>2, <2>1, <2>3 DEF KeepsUpTo
  <2>7. CASE n + 1 \notin keep
    <3>1. (1 .. n + 1) \cap keep = (1 .. n) \cap keep
      BY <2>7
    <3>2. Len(q) <= n + 1
      BY <2>4, <2>5 DEF Places
    <3>3. Places(s, keep, n + 1, q, at)
      BY <2>5, <3>1, <3>2, Zenon DEF Places
    <3> QED
      BY <2>4, <2>6, <2>7, <3>3, Zenon
  <2>8. CASE n + 1 \in keep
    <3> DEFINE l == Len(q)
               new == [i \in 1 .. (l + 1) |-> IF i <= l THEN at[i] ELSE n + 1]
               r == Append(q, s[n + 1])
    <3>1. l \in Nat /\ r \in Seq(X) /\ Len(r) = l + 1 /\ r[l + 1] = s[n + 1]
      BY <1>1, <2>1, <2>4
    <3>2. \A i \in 1 .. l : r[i] = q[i]
      BY <2>4
    <3>3. /\ l <= n /\ \A i \in 1 .. l : at[i] \in 1 .. n /\ at[i] \in keep
          /\ \A i, j \in 1 .. l : i < j => at[i] < at[j]
          /\ \A i \in 1 .. l : q[i] = s[at[i]]
          /\ \A m \in (1 .. n) \cap keep : \E i \in 1 .. l : at[i] = m
      BY <2>5 DEF Places
    <3> HIDE DEF l, r
    <3>4. new[l + 1] = n + 1 /\ \A i \in 1 .. l : new[i] = at[i]
      BY <3>1
    <3>5. new \in [1 .. (l + 1) -> (1 .. n + 1) \cap keep]
      BY <2>8, <3>1, <3>3
    <3>6. \A i \in 1 .. (l + 1) : i \in 1 .. l \/ i = l + 1
      BY <3>1
    <3> HIDE DEF new
    <3>7. \A i, j \in 1 .. (l + 1) : i < j => new[i] < new[j]
      <4>1. \A i, j \in 1 .. (l + 1) : i < j => i \in 1 .. l /\ (j \in 1 .. l \/ j = l + 1)
        BY <3>1
      <4>2. \A i \in 1 .. l : at[i] < n + 1
        BY <3>1, <3>3
      <4>3. ASSUME NEW i \in 1 .. (l + 1), NEW j \in 1 .. (l + 1), i < j PROVE new[i] < new[j]
        <5>1. i \in 1 .. l /\ new[i] = at[i]
          BY <3>4, <4>1, <4>3, Zenon
        <5>2. CASE j \in 1 .. l
          BY <3>3, <3>4, <4>3, <5>1, <5>2, Zenon
        <5>3. CASE j = l + 1
          BY <3>4, <4>2, <5>1, <5>3, Zenon
        <5> QED
          BY <4>1, <4>3, <5>2, <5>3, Zenon
      <4> QED
        BY <4>3, Zenon
    <3>8. \A i \in 1 .. (l + 1) : r[i] = s[new[i]]
      BY <3>1, <3>2, <3>3, <3>4, <3>6, Zenon
    <3>9. \A m \in (1 .. n + 1) \cap keep : \E i \in 1 .. (l + 1) : new[i] = m
      <4>1. \A m \in 1 .. n + 1 : m \in 1 .. n \/ m = n + 1
        OBVIOUS
      <4>2. 1 .. l \subseteq 1 .. (l + 1) /\ l + 1 \in 1 .. (l + 1)
        BY <3>1
      <4> QED
        BY <3>3, <3>4, <4>1, <4>2, Zenon
    <3>10. l + 1 <= n + 1
      BY <3>1, <3>3
    <3>11. Places(s, keep, n + 1, r, new)
      BY <3>1, <3>5, <3>7, <3>8, <3>9, <3>10, Zenon DEF Places
    <3> QED
      BY <2>6, <2>8, <3>1, <3>11, Zenon DEF r
  <2> QED
    BY <2>7, <2>8, Zenon
<1>5. Len(s) \in S
  <2> HIDE DEF S
  <2> QED
    BY <1>1, <1>3, <1>4, NumberInduction, Zenon
<1>6. Good(Len(s))
  BY <1>1, <1>5
<1> QED
  BY <1>2, <1>6, Zenon

\* upto[n] are the ranges of the first n owned slots.
CoalescesUpTo(ops, upto) ==
  /\ upto[0] = <<>>
  /\ \A n \in 1 .. Len(ops) : upto[n] = Extended(upto[n - 1], ops[n], n)

\* The loop of export_build_coalesced_ranges goes from one slot to the next.
LEMMA CoalescedLoop ==
  ASSUME NEW ops, Len(ops) \in Nat
  PROVE  \E upto : CoalescesUpTo(ops, upto) /\ Coalesced(ops) = upto[Len(ops)]
<1> DEFINE N == Len(ops)
           Body(g, i) == IF i = 0 THEN <<>> ELSE Extended(g[i - 1], ops[i], i)
           Loop(g, n) == g = [i \in 0 .. n |-> Body(g, i)]
           S == {n \in Nat : \E g : Loop(g, n)}
           all == CHOOSE g : Loop(g, N)
<1>1. 0 \in S
  <2> DEFINE g == [i \in 0 .. 0 |-> <<>>]
  <2>1. g = [i \in 0 .. 0 |-> Body(g, i)]
    OBVIOUS
  <2>2. Loop(g, 0)
    BY <2>1, Zenon
  <2> QED
    BY <2>2, Zenon
<1>2. ASSUME NEW n \in Nat, n \in S PROVE n + 1 \in S
  <2>1. PICK g : Loop(g, n)
    BY <1>2, Zenon
  <2> DEFINE h == [i \in 0 .. (n + 1) |-> IF i <= n THEN g[i] ELSE Body(g, i)]
  <2>2. ASSUME NEW i \in 0 .. (n + 1) PROVE h[i] = Body(h, i)
    <3>1. CASE i <= n
      <4>1. h[i] = g[i] /\ g[i] = Body(g, i)
        <5> HIDE DEF Body
        <5>1. i \in 0 .. n
          BY <3>1
        <5>2. h[i] = g[i]
          BY <3>1
        <5> QED
          BY <2>1, <5>1, <5>2, Zenon
      <4>2. i # 0 => h[i - 1] = g[i - 1]
        BY <3>1
      <4> QED
        BY <4>1, <4>2, Zenon
    <3>2. CASE i = n + 1
      <4>1. h[i] = Body(g, i) /\ i # 0 /\ i - 1 = n
        BY <3>2
      <4>2. h[i - 1] = g[i - 1]
        BY <4>1
      <4> QED
        BY <4>1, <4>2, Zenon
    <3> QED
      BY <3>1, <3>2
  <2>3. Loop(h, n + 1)
    BY <2>2, Zenon
  <2> HIDE DEF h, Loop
  <2>4. n + 1 \in Nat /\ \E g0 : Loop(g0, n + 1)
    BY <2>3
  <2> QED
    BY <2>4, Zenon
<1>3. Nat \subseteq S
  <2> HIDE DEF S
  <2> QED
    BY <1>1, <1>2, NumberInduction, Zenon
<1>4. \E g : Loop(g, N)
  BY <1>3, Zenon
<1>5. all = [i \in 0 .. N |-> Body(all, i)]
  <2> HIDE DEF Loop
  <2>2. Loop(all, N)
    BY <1>4, Zenon
  <2> QED
    BY <2>2, Zenon DEF Loop
<1>6. Coalesced(ops) = all[N]
  BY Zenon DEF Coalesced
<1> HIDE DEF all
<1>7. all[0] = <<>>
  BY <1>5
<1>8. ASSUME NEW n \in 1 .. N PROVE all[n] = Extended(all[n - 1], ops[n], n)
  <2>1. n \in 0 .. N /\ n # 0
    OBVIOUS
  <2>2. all[n] = Body(all, n)
    <3> HIDE DEF Body
    <3> QED
      BY <1>5, <2>1, Zenon
  <2> QED
    BY <2>1, <2>2, Zenon
<1>9. CoalescesUpTo(ops, all)
  BY <1>7, <1>8, Zenon DEF CoalescesUpTo
<1> QED
  BY <1>6, <1>9, Zenon

\* The i-th dirty page from the cursor on.
PageAt(x, i) == x.dirty_pages[x.page_cursor + i]

\* sum[i] is the number of slots on the first i pages from the cursor on.
SumsUpTo(x, n, sum) ==
  /\ sum[0] = 0
  /\ \A i \in 1 .. n : sum[i] = sum[i - 1] + (PageEnd(x, PageAt(x, i)) - PageAt(x, i) * EPP)

\* The slots collected from dirty pages are added up from page to page.
LEMMA CollectedLoop ==
  ASSUME NEW x, NEW n \in Nat
  PROVE  \E sum : SumsUpTo(x, n, sum) /\ Collected(x, n) = sum[n]
<1> DEFINE N == n
           Body(g, i) ==
             IF i = 0 THEN 0 ELSE g[i - 1] + (PageEnd(x, PageAt(x, i)) - PageAt(x, i) * EPP)
           Loop(g, m) == g = [i \in 0 .. m |-> Body(g, i)]
           S == {m \in Nat : \E g : Loop(g, m)}
           all == CHOOSE g : Loop(g, N)
<1>1. 0 \in S
  <2> DEFINE g == [i \in 0 .. 0 |-> 0]
  <2>1. g = [i \in 0 .. 0 |-> Body(g, i)]
    OBVIOUS
  <2>2. Loop(g, 0)
    BY <2>1, Zenon
  <2> QED
    BY <2>2, Zenon
<1>2. ASSUME NEW m \in Nat, m \in S PROVE m + 1 \in S
  <2>1. PICK g : Loop(g, m)
    BY <1>2, Zenon
  <2> DEFINE h == [i \in 0 .. (m + 1) |-> IF i <= m THEN g[i] ELSE Body(g, i)]
  <2>2. ASSUME NEW i \in 0 .. (m + 1) PROVE h[i] = Body(h, i)
    <3>1. CASE i <= m
      <4>1. h[i] = g[i] /\ g[i] = Body(g, i)
        <5> HIDE DEF Body
        <5>1. i \in 0 .. m
          BY <3>1
        <5>2. h[i] = g[i]
          BY <3>1
        <5> QED
          BY <2>1, <5>1, <5>2, Zenon
      <4>2. i # 0 => h[i - 1] = g[i - 1]
        BY <3>1
      <4> QED
        BY <4>1, <4>2, Zenon
    <3>2. CASE i = m + 1
      <4>1. h[i] = Body(g, i) /\ i # 0 /\ i - 1 = m
        BY <3>2
      <4>2. h[i - 1] = g[i - 1]
        BY <4>1
      <4> QED
        BY <4>1, <4>2, Zenon
    <3> QED
      BY <3>1, <3>2
  <2>3. Loop(h, m + 1)
    BY <2>2, Zenon
  <2> HIDE DEF h, Loop
  <2>4. m + 1 \in Nat /\ \E g0 : Loop(g0, m + 1)
    BY <2>3
  <2> QED
    BY <2>4, Zenon
<1>3. Nat \subseteq S
  <2> HIDE DEF S
  <2> QED
    BY <1>1, <1>2, NumberInduction, Zenon
<1>4. \E g : Loop(g, N)
  BY <1>3, Zenon
<1>5. all = [i \in 0 .. N |-> Body(all, i)]
  <2> HIDE DEF Loop
  <2>2. Loop(all, N)
    BY <1>4, Zenon
  <2> QED
    BY <2>2, Zenon DEF Loop
<1>6. Collected(x, n) = all[N]
  BY Zenon DEF Collected, PageAt
<1> HIDE DEF all
<1>7. all[0] = 0
  BY <1>5
<1>8. ASSUME NEW i \in 1 .. N
      PROVE  all[i] = all[i - 1] + (PageEnd(x, PageAt(x, i)) - PageAt(x, i) * EPP)
  <2>1. i \in 0 .. N /\ i # 0
    OBVIOUS
  <2>2. all[i] = Body(all, i)
    <3> HIDE DEF Body
    <3> QED
      BY <1>5, <2>1, Zenon
  <2> QED
    BY <2>1, <2>2, Zenon
<1>9. SumsUpTo(x, n, all)
  BY <1>7, <1>8, Zenon DEF SumsUpTo
<1> QED
  BY <1>6, <1>9, Zenon
-----------------------------------------------------------------------------
(* Coalesced reads. *)

Runs == [start : Nat, count : Nat, at : Nat]
PlacesOf(r) == r.at .. (r.at + r.count - 1)

\* The runs rs are of adjacent slots among the first n, and miss none of these.
Covers(ops, n, rs) ==
  /\ rs \in Seq(Runs) /\ Len(rs) <= n
  /\ \A j \in 1 .. Len(rs) : \A i \in PlacesOf(rs[j]) :
       i \in 1 .. n /\ ops[i].entry = rs[j].start + (i - rs[j].at)
  /\ \A i \in 1 .. n : \E j \in 1 .. Len(rs) : i \in PlacesOf(rs[j])
  /\ n > 0 => Len(rs) > 0 /\ rs[Len(rs)].at + rs[Len(rs)].count = n + 1

\* One more owned slot extends the last run or begins one.
LEMMA ExtendedCovers ==
  ASSUME NEW n \in Nat, NEW ops, n + 1 \in 1 .. Len(ops), ops[n + 1].entry \in Nat,
         NEW rs, Covers(ops, n, rs)
  PROVE  Covers(ops, n + 1, Extended(rs, ops[n + 1], n + 1))
<1> DEFINE l == Len(rs)
           e == ops[n + 1].entry
<1>1. /\ rs \in Seq(Runs) /\ l \in Nat /\ l <= n
      /\ \A j \in 1 .. l : rs[j] \in Runs
      /\ \A j \in 1 .. l : \A i \in PlacesOf(rs[j]) :
           i \in 1 .. n /\ ops[i].entry = rs[j].start + (i - rs[j].at)
      /\ \A i \in 1 .. n : \E j \in 1 .. l : i \in PlacesOf(rs[j])
      /\ n > 0 => l > 0 /\ rs[l].at + rs[l].count = n + 1
  BY DEF Covers
<1>2. \A i \in 1 .. n + 1 : i \in 1 .. n \/ i = n + 1
  OBVIOUS
<1>3. 1 .. n \subseteq 1 .. n + 1 /\ n + 1 \in 1 .. n + 1 /\ n + 1 > 0 /\ e \in Nat
  OBVIOUS
<1>4. CASE rs # <<>> /\ e = rs[Len(rs)].start + rs[Len(rs)].count
  <2>1. l \in 1 .. l /\ l > 0
    BY <1>1, <1>4
  <2>2. PICK r \in Runs : r = rs[l]
    BY <1>1, <2>1, Zenon
  <2>3. r.start \in Nat /\ r.count \in Nat /\ r.at \in Nat
    BY <2>2 DEF Runs
  <2>4. rs[Len(rs)] = r
    BY <2>2, Zenon
  <2>5. PICK q : q = [r EXCEPT !.count = r.count + 1]
    BY Zenon
  <2>6. q \in Runs /\ q.start = r.start /\ q.at = r.at /\ q.count = r.count + 1
    BY <2>2, <2>3, <2>5, SMTT(60) DEF Runs
  <2> DEFINE t == [rs EXCEPT ![l] = q]
  <2>7. t \in Seq(Runs) /\ Len(t) = l /\ t[l] = q /\ \A j \in 1 .. l : j # l => t[j] = rs[j]
    BY <1>1, <2>1, <2>6
  <2>8. Extended(rs, ops[n + 1], n + 1) = t
    BY <1>4, <2>4, <2>5, Zenon DEF Extended
  <2> HIDE DEF t, l
  <2>9. n > 0 /\ r.at + r.count = n + 1 /\ e = r.start + r.count
    BY <1>1, <1>4, <2>1, <2>2, <2>4
  <2>10. \A i : i \in PlacesOf(q) <=> i \in PlacesOf(r) \/ i = n + 1
    <3>1. \A a, c, m \in Nat : a + c = m + 1 =>
            \A i : i \in a .. (a + (c + 1) - 1) <=> i \in a .. (a + c - 1) \/ i = m + 1
      OBVIOUS
    <3>2. PlacesOf(q) = r.at .. (r.at + (r.count + 1) - 1)
      BY <2>6, Zenon DEF PlacesOf
    <3>3. PlacesOf(r) = r.at .. (r.at + r.count - 1)
      BY Zenon DEF PlacesOf
    <3> QED
      BY <2>3, <2>9, <3>1, <3>2, <3>3, Zenon
  <2>11. (n + 1) - r.at = r.count
    BY <2>3, <2>9
  <2>12. ASSUME NEW j \in 1 .. l, NEW i \in PlacesOf(t[j])
         PROVE  i \in 1 .. n + 1 /\ ops[i].entry = t[j].start + (i - t[j].at)
    <3>1. CASE j # l
      BY <1>1, <1>3, <2>7, <3>1, Zenon
    <3>2. CASE j = l
      <4>1. i \in PlacesOf(r) \/ i = n + 1
        BY <2>7, <2>10, <3>2, Zenon
      <4>2. CASE i \in PlacesOf(r)
        <5>1. i \in 1 .. n /\ ops[i].entry = r.start + (i - r.at)
          BY <1>1, <2>1, <2>2, <4>2, Zenon
        <5> QED
          BY <1>3, <2>6, <2>7, <3>2, <5>1, Zenon
      <4>3. CASE i = n + 1
        <5>1. ops[i].entry = q.start + (i - q.at)
          <6>1. ops[n + 1].entry = r.start + ((n + 1) - r.at)
            BY <2>9, <2>11, Zenon
          <6>2. ops[i].entry = ops[n + 1].entry
            BY <4>3, Zenon
          <6>3. i - q.at = (n + 1) - r.at
            BY <2>6, <4>3, Zenon
          <6> QED
            BY <2>6, <6>1, <6>2, <6>3, Zenon
        <5> QED
          BY <1>3, <2>7, <3>2, <4>3, <5>1, Zenon
      <4> QED
        BY <4>1, <4>2, <4>3, Zenon
    <3> QED
      BY <3>1, <3>2, Zenon
  <2>13. ASSUME NEW i \in 1 .. n + 1 PROVE \E j \in 1 .. l : i \in PlacesOf(t[j])
    <3>1. CASE i = n + 1
      BY <2>1, <2>7, <2>10, <3>1, Zenon
    <3>2. CASE i \in 1 .. n
      BY <1>1, <2>1, <2>2, <2>7, <2>10, <3>2, Zenon
    <3> QED
      BY <1>2, <3>1, <3>2, Zenon
  <2>14. l <= n + 1 /\ q.at + q.count = n + 1 + 1
    BY <1>1, <2>3, <2>6, <2>9, SMTT(60)
  <2> QED
    BY <2>1, <2>7, <2>8, <2>12, <2>13, <2>14, Zenon DEF Covers
<1>5. CASE ~(rs # <<>> /\ e = rs[Len(rs)].start + rs[Len(rs)].count)
  <2>1. PICK q : q = [start |-> e, count |-> 1, at |-> n + 1]
    BY Zenon
  <2>2. q \in Runs /\ q.start = e /\ q.at = n + 1 /\ q.count = 1
    BY <1>3, <2>1 DEF Runs
  <2> DEFINE t == Append(rs, q)
  <2>3. /\ t \in Seq(Runs) /\ Len(t) = l + 1 /\ t[l + 1] = q
        /\ \A j \in 1 .. l : t[j] = rs[j]
    BY <1>1, <2>2
  <2>4. Extended(rs, ops[n + 1], n + 1) = t
    BY <1>5, <2>1, Zenon DEF Extended
  <2> HIDE DEF t, l
  <2>5. PlacesOf(q) = {n + 1}
    BY <2>2 DEF PlacesOf
  <2>6. \A j \in 1 .. l + 1 : j \in 1 .. l \/ j = l + 1
    BY <1>1
  <2>7. 1 .. l \subseteq 1 .. l + 1 /\ l + 1 \in 1 .. l + 1 /\ l + 1 > 0 /\ l + 1 <= n + 1
    BY <1>1
  <2>8. ASSUME NEW j \in 1 .. l + 1, NEW i \in PlacesOf(t[j])
        PROVE  i \in 1 .. n + 1 /\ ops[i].entry = t[j].start + (i - t[j].at)
    <3>1. CASE j \in 1 .. l
      BY <1>1, <1>3, <2>3, <3>1, Zenon
    <3>2. CASE j = l + 1
      <4>1. i = n + 1
        BY <2>3, <2>5, <3>2, Zenon
      <4>2. ops[i].entry = q.start + (i - q.at)
        BY <1>3, <2>2, <4>1
      <4> QED
        BY <1>3, <2>3, <3>2, <4>1, <4>2, Zenon
    <3> QED
      BY <2>6, <3>1, <3>2, Zenon
  <2>9. ASSUME NEW i \in 1 .. n + 1 PROVE \E j \in 1 .. l + 1 : i \in PlacesOf(t[j])
    <3>1. CASE i = n + 1
      BY <2>3, <2>5, <2>7, <3>1, Zenon
    <3>2. CASE i \in 1 .. n
      BY <1>1, <2>3, <2>7, <3>2, Zenon
    <3> QED
      BY <1>2, <3>1, <3>2, Zenon
  <2>10. q.at + q.count = n + 1 + 1
    BY <2>2
  <2> QED
    BY <2>3, <2>4, <2>7, <2>8, <2>9, <2>10, Zenon DEF Covers
<1> QED
  BY <1>4, <1>5, Zenon

\* The reads of the embeddings cover the owned slots of a batch, each place of
\* the pool with the slot of its op, and are not more than these.
LEMMA CoalescedCovers ==
  ASSUME NEW ops, Len(ops) \in Nat, \A i \in 1 .. Len(ops) : ops[i].entry \in Nat
  PROVE  Covers(ops, Len(ops), Coalesced(ops))
<1>1. PICK upto : CoalescesUpTo(ops, upto) /\ Coalesced(ops) = upto[Len(ops)]
  BY CoalescedLoop, Zenon
<1> DEFINE S == {n \in Nat : n <= Len(ops) => Covers(ops, n, upto[n])}
<1>2. 0 \in S
  <2>1. Covers(ops, 0, <<>>)
    BY DEF Covers
  <2> QED
    BY <1>1, <2>1, Zenon DEF CoalescesUpTo
<1>3. ASSUME NEW n \in Nat, n \in S PROVE n + 1 \in S
  <2> SUFFICES ASSUME n + 1 <= Len(ops) PROVE Covers(ops, n + 1, upto[n + 1])
    OBVIOUS
  <2>1. n <= Len(ops) /\ n + 1 \in 1 .. Len(ops) /\ n + 1 - 1 = n
    OBVIOUS
  <2>2. upto[n + 1] = Extended(upto[n], ops[n + 1], n + 1)
    BY <1>1, <2>1 DEF CoalescesUpTo
  <2>3. Covers(ops, n, upto[n])
    BY <1>3, <2>1, Zenon
  <2> QED
    BY <2>1, <2>2, <2>3, ExtendedCovers, Zenon
<1>4. Len(ops) \in S
  <2> HIDE DEF S
  <2> QED
    BY <1>2, <1>3, NumberInduction, Zenon
<1> QED
  BY <1>1, <1>4
-----------------------------------------------------------------------------
(* The inductive invariant of an export. *)

Pairs == [feat : Feats, emb : Entries]

\* A context is a record of these fields.
Fields ==
  {"type", "snapshot_bump", "cursor", "dirty_pages", "page_cursor", "scan_done", "phase",
   "reading", "batch_start", "batch_count", "keys", "ops", "ranges", "pool", "dump"}
IsContext(x) == x = [n \in Fields |-> x[n]]

\* The bin: what had an owner when the checkpoint began still has, on disk, and
\* the frozen dirty pages are pages of allocated slots.
BinInv ==
  /\ snapshot \in [Entries -> Feats \cup {NoFeat}]
  /\ key_file \in [Entries -> Feats \cup {NoFeat}]
  /\ key_buf \in [Entries -> Feats \cup {None}]
  /\ bump_ptr \in 0 .. MaxEntries
  /\ \A e \in Entries : snapshot[e] # NoFeat =>
       e < bump_ptr /\ key_file[e] = snapshot[e] /\ key_buf[e] = None
  /\ \A p \in dirty : p \in Nat /\ p * EPP < bump_ptr

\* The fields that hardly change.
Typed(x) ==
  /\ IsContext(x)
  /\ x.type \in {"FULL", "DELTA"} /\ x.phase \in {"IDLE", "KEY_READ", "EMB_READ", "OUTPUT"}
  /\ x.snapshot_bump \in 0 .. MaxEntries
  /\ \A e \in Entries : snapshot[e] # NoFeat => e < x.snapshot_bump
  /\ x.type = "DELTA" => x.dirty_pages = Ascending(dirty) /\ \A p \in dirty : p * EPP < x.snapshot_bump
  /\ x.batch_start \in Nat /\ x.batch_count \in 0 .. Batch
  /\ x.batch_start + x.batch_count <= x.snapshot_bump
  /\ x.keys \in [0 .. (Batch - 1) -> Feats \cup {NoFeat, None}]
  /\ x.pool \in [1 .. Batch -> Entries \cup {None}]

\* The first slot not yet asked for.
Frontier(x) ==
  IF x.type = "FULL" THEN x.cursor
  ELSE IF x.page_cursor = Len(x.dirty_pages) THEN x.snapshot_bump
  ELSE x.dirty_pages[x.page_cursor + 1] * EPP

\* Where the scan of keys is.
Scanned(x) ==
  /\ x.type = "FULL" => x.cursor \in 0 .. x.snapshot_bump
  /\ x.type = "DELTA" => x.page_cursor \in 0 .. Len(x.dirty_pages)
  /\ x.scan_done => Frontier(x) = x.snapshot_bump
  /\ x.phase # "IDLE" => x.batch_start + x.batch_count <= Frontier(x)

\* The slots below are in the dump, if they have to be.
Base(x) == IF x.phase = "IDLE" THEN Frontier(x) ELSE x.batch_start

\* The dump so far: a header and pairs in the order of the slots.
Written(x) ==
  /\ x.dump \in Seq(Pairs \cup {Header})
  /\ x.dump = <<>> => x.phase = "IDLE" /\ ~x.scan_done
  /\ x.dump # <<>> => x.dump[1] = Header
  /\ \A i \in 2 .. Len(x.dump) :
       /\ x.dump[i] \in Pairs /\ x.dump[i].emb < Base(x)
       /\ snapshot[x.dump[i].emb] # NoFeat => x.dump[i].feat = snapshot[x.dump[i].emb]
  /\ \A i, j \in 2 .. Len(x.dump) : i < j => x.dump[i].emb < x.dump[j].emb

\* The slots an export must not miss.
Due(x) ==
  {e \in Entries : /\ snapshot[e] # NoFeat
                   /\ x.type = "DELTA" =>
                        /\ Batch % EPP = 0 /\ \A p, q \in dirty : \A r \in p .. q : r \in dirty
                        /\ PageOf(e) \in dirty}

\* None has been missed.
Complete(x) ==
  /\ \A e \in Due(x) : e < Base(x) => \E i \in 2 .. Len(x.dump) : x.dump[i].emb = e
  /\ x.phase # "IDLE" => \A e \in Due(x) : e < Frontier(x) => e < x.batch_start + x.batch_count

\* The batch of an export, by phase.
InBatch(x, op) ==
  /\ op \in [feat : Feats, entry : Entries]
  /\ x.batch_start <= op.entry /\ op.entry < x.batch_start + x.batch_count
  /\ snapshot[op.entry] # NoFeat => op.feat = snapshot[op.entry]
KeysRead(x) ==
  \A i \in 0 .. (x.batch_count - 1) :
    /\ x.keys[i] \in Feats \cup {NoFeat}
    /\ snapshot[x.batch_start + i] # NoFeat => x.keys[i] = snapshot[x.batch_start + i]
OpsListed(x) ==
  /\ \A i \in 1 .. Len(x.ops) : InBatch(x, x.ops[i])
  /\ \A i, j \in 1 .. Len(x.ops) : i < j => x.ops[i].entry < x.ops[j].entry
  /\ \A e \in Due(x) : x.batch_start <= e /\ e < x.batch_start + x.batch_count =>
       \E i \in 1 .. Len(x.ops) : x.ops[i].entry = e
  /\ x.ranges = Coalesced(x.ops)
Batched(x) ==
  /\ Len(x.ops) \in 0 .. Batch
  /\ x.phase \in {"IDLE", "KEY_READ"} => x.ops = <<>> /\ x.ranges = <<>>
  /\ x.phase \in {"IDLE", "OUTPUT"} => ~x.reading
  /\ x.phase = "KEY_READ" /\ ~x.reading => KeysRead(x)
  /\ x.phase \in {"EMB_READ", "OUTPUT"} => OpsListed(x)
  /\ x.phase \in {"EMB_READ", "OUTPUT"} /\ ~x.reading =>
       \A i \in 1 .. Len(x.ops) : x.pool[i] = x.ops[i].entry

Sound(x) == Typed(x) /\ Scanned(x) /\ Written(x) /\ Complete(x) /\ Batched(x)

\* x is y with its trailer.
Finished(x) ==
  \E y : Sound(y) /\ ScanOver(y) /\ x = [y EXCEPT !.dump = Append(@, Trailer)]

\* The contexts: none yet, or all being written, or all finished.
ContextsInv ==
  \/ exports = NoExport
  \/ /\ DOMAIN exports \in {{"FULL"}, {"DELTA"}, {"FULL", "DELTA"}}
     /\ exports = [t \in DOMAIN exports |-> exports[t]]
     /\ \A t \in DOMAIN exports : exports[t].type = t
     /\ \/ \A t \in DOMAIN exports : Sound(exports[t])
        \/ \A t \in DOMAIN exports : Finished(exports[t])

ExportInv == BinInv /\ ContextsInv
-----------------------------------------------------------------------------
(* The pages and the slots of a batch. *)

\* Slots and pages.
LEMMA PageFacts ==
  /\ EPP \in Nat /\ EPP > 0 /\ MaxEntries \in Nat /\ Batch \in Nat /\ Batch > 0
  /\ \A e \in Nat : PageOf(e) \in Nat /\ PageOf(e) * EPP <= e /\ e < (PageOf(e) + 1) * EPP
  /\ \A p \in Nat : p * EPP \in Nat /\ p <= p * EPP
  /\ \A p, q \in Nat : p < q => (p + 1) * EPP <= q * EPP
<1>1. \A e \in Nat, k \in Nat \ {0} :
        e \div k \in Nat /\ (e \div k) * k <= e /\ e < ((e \div k) + 1) * k
  OBVIOUS
<1>2. \A p \in Nat, k \in Nat \ {0} : p * k \in Nat /\ p <= p * k
  OBVIOUS
<1>3. \A p, q, k \in Nat : p < q => (p + 1) * k <= q * k
  OBVIOUS
<1>4. EPP \in Nat \ {0} /\ MaxEntries \in Nat /\ Batch \in Nat /\ Batch > 0 /\ EPP > 0
  BY ExportAssumption
<1>5. EPP \in Nat
  BY <1>4
<1> QED
  BY <1>1, <1>2, <1>3, <1>4, <1>5, Zenon DEF PageOf

\* dp lists the pages in dirty in ascending order.
Lists(dp) ==
  /\ dp \in Seq(Nat)
  /\ \A i \in 1 .. Len(dp) : dp[i] \in dirty
  /\ \A i, j \in 1 .. Len(dp) : i < j => dp[i] < dp[j]
  /\ \A p \in dirty : \E i \in 1 .. Len(dp) : dp[i] = p

\* The scan of the dirty pages lists them all, in ascending order.
LEMMA AscendingLists ==
  ASSUME BinInv
  PROVE  Lists(Ascending(dirty))
<1> DEFINE s == [n \in 1 .. MaxEntries |-> n - 1]
           keep == {n \in 1 .. MaxEntries : n - 1 \in dirty}
           dp == Ascending(dirty)
<1>1. MaxEntries \in Nat
  BY PageFacts, Zenon
<1>2. s \in Seq(Nat) /\ Len(s) = MaxEntries
  BY <1>1
<1>3. dp = Kept(s, keep)
  BY Zenon DEF Ascending
<1>4. dp \in Seq(Nat) /\ \E at : Places(s, keep, MaxEntries, dp, at)
  BY <1>2, <1>3, KeptPlaces, Zenon
<1>5. PICK at : Places(s, keep, MaxEntries, dp, at)
  BY <1>4, Zenon
<1>6. PICK l \in Nat : l = Len(dp)
  BY <1>4
<1>7. /\ \A i \in 1 .. l : at[i] \in 1 .. MaxEntries /\ at[i] \in keep /\ dp[i] = s[at[i]]
      /\ \A i, j \in 1 .. l : i < j => at[i] < at[j]
      /\ \A m \in (1 .. MaxEntries) \cap keep : \E i \in 1 .. l : at[i] = m
  BY <1>5, <1>6 DEF Places
<1> HIDE DEF dp
<1>8. \A i \in 1 .. l : dp[i] = at[i] - 1 /\ at[i] - 1 \in dirty
  BY <1>1, <1>7, Zenon
<1>9. \A i, j \in 1 .. l : i < j => dp[i] < dp[j]
  <2>1. ASSUME NEW i \in 1 .. l, NEW j \in 1 .. l, i < j PROVE dp[i] < dp[j]
    <3>0. \A m \in 1 .. MaxEntries : m \in Nat
      BY <1>1
    <3>1. PICK a \in Nat, b \in Nat : a = at[i] /\ b = at[j]
      BY <1>7, <3>0, Zenon
    <3>2. a < b /\ dp[i] = a - 1 /\ dp[j] = b - 1
      BY <1>7, <1>8, <2>1, <3>1, Zenon
    <3> QED
      BY <3>1, <3>2
  <2> QED
    BY <2>1, Zenon
<1>10. ASSUME NEW p \in dirty PROVE \E i \in 1 .. l : dp[i] = p
  <2>1. p \in Nat /\ p * EPP < bump_ptr /\ bump_ptr \in 0 .. MaxEntries
    BY DEF BinInv
  <2>2. p <= p * EPP /\ p * EPP \in Nat
    BY <2>1, PageFacts, Zenon
  <2>3. p + 1 \in 1 .. MaxEntries /\ (p + 1) - 1 = p
    BY <1>1, <2>1, <2>2
  <2>4. p + 1 \in keep
    BY <2>3, Zenon
  <2>5. PICK i \in 1 .. l : at[i] = p + 1
    BY <1>7, <2>3, <2>4, Zenon
  <2>6. dp[i] = (p + 1) - 1
    BY <1>8, <2>5, Zenon
  <2> QED
    BY <2>3, <2>6, Zenon
<1> QED
  BY <1>4, <1>6, <1>8, <1>9, <1>10, Zenon DEF Lists, dp

\* The owned slots of a batch are listed in order, each with the owner it had
\* when the checkpoint began, and none that had one then is left out.
LEMMA OwnedListed ==
  ASSUME BinInv, NEW x, KeysRead(x), x.batch_start \in Nat, x.batch_count \in 0 .. Batch,
         x.batch_start + x.batch_count <= MaxEntries
  PROVE  LET v == Owned(x) IN
         /\ v \in Seq([feat : Feats, entry : Entries]) /\ Len(v) <= x.batch_count
         /\ \A i \in 1 .. Len(v) : InBatch(x, v[i])
         /\ \A i, j \in 1 .. Len(v) : i < j => v[i].entry < v[j].entry
         /\ \A e \in Entries :
              snapshot[e] # NoFeat /\ x.batch_start <= e /\ e < x.batch_start + x.batch_count =>
                \E i \in 1 .. Len(v) : v[i].entry = e
<1>1. PICK b \in Nat, c \in Nat : b = x.batch_start /\ c = x.batch_count /\ b + c <= MaxEntries
  BY PageFacts
<1> DEFINE op(i) == [feat |-> x.keys[i - 1], entry |-> b + i - 1]
           s == [i \in 1 .. c |-> op(i)]
           keep == {i \in 1 .. c : x.keys[i - 1] # NoFeat}
           X == [feat : Feats \cup {NoFeat}, entry : Entries]
           v == Owned(x)
<1>2. v = Kept(s, keep)
  BY <1>1, Zenon DEF Owned
<1>3. \A i \in 1 .. c : i - 1 \in 0 .. (c - 1) /\ b + i - 1 \in Entries /\ b + (i - 1) = b + i - 1
  BY <1>1, PageFacts DEF Entries
<1>4. \A i \in 1 .. c : /\ x.keys[i - 1] \in Feats \cup {NoFeat}
                        /\ snapshot[b + i - 1] # NoFeat => x.keys[i - 1] = snapshot[b + i - 1]
  BY <1>1, <1>3 DEF KeysRead
<1>5. \A i \in 1 .. c : op(i) \in X /\ op(i).feat = x.keys[i - 1] /\ op(i).entry = b + i - 1
  BY <1>3, <1>4, Zenon
<1>6. s \in Seq(X) /\ Len(s) = c /\ \A i \in 1 .. c : s[i] = op(i)
  <2> HIDE DEF op, X
  <2> QED
    BY <1>1, <1>5
<1> HIDE DEF op, s, v
<1>7. v \in Seq(X) /\ \E at : Places(s, keep, c, v, at)
  <2> HIDE DEF keep, X
  <2> QED
    BY <1>2, <1>6, KeptPlaces, Zenon
<1>8. PICK at : Places(s, keep, c, v, at)
  BY <1>7, Zenon
<1>9. PICK l \in Nat : l = Len(v)
  BY <1>7
<1>10. /\ l <= c
       /\ \A i \in 1 .. l : at[i] \in 1 .. c /\ at[i] \in keep /\ v[i] = s[at[i]]
       /\ \A i, j \in 1 .. l : i < j => at[i] < at[j]
       /\ \A m \in (1 .. c) \cap keep : \E i \in 1 .. l : at[i] = m
  BY <1>8, <1>9, Zenon DEF Places
<1>11. \A i \in 1 .. l : v[i] \in X /\ v[i].feat = x.keys[at[i] - 1] /\ v[i].entry = b + at[i] - 1
  <2>1. ASSUME NEW i \in 1 .. l
        PROVE  v[i] \in X /\ v[i].feat = x.keys[at[i] - 1] /\ v[i].entry = b + at[i] - 1
    <3>1. PICK m \in 1 .. c : m = at[i] /\ v[i] = s[m]
      BY <1>10, Zenon
    <3>2. v[i] = op(m)
      BY <1>6, <3>1, Zenon
    <3> QED
      BY <1>5, <3>1, <3>2, Zenon
  <2> QED
    BY <2>1, Zenon
<1>12. \A i \in 1 .. l : v[i] \in [feat : Feats, entry : Entries]
  <2>1. \A i \in 1 .. l : v[i].feat # NoFeat
    BY <1>10, <1>11
  <2> QED
    BY <1>11, <2>1
<1>13. \A i \in 1 .. l : InBatch(x, v[i])
  <2>1. \A i \in 1 .. l : b <= v[i].entry /\ v[i].entry < b + c
    BY <1>1, <1>10, <1>11
  <2>2. \A i \in 1 .. l : snapshot[v[i].entry] # NoFeat => v[i].feat = snapshot[v[i].entry]
    <3>1. ASSUME NEW i \in 1 .. l, snapshot[v[i].entry] # NoFeat
          PROVE  v[i].feat = snapshot[v[i].entry]
      <4>1. PICK m \in 1 .. c : m = at[i]
        BY <1>10, Zenon
      <4>2. v[i].feat = x.keys[m - 1] /\ v[i].entry = b + m - 1
        BY <1>11, <4>1, Zenon
      <4> QED
        BY <1>4, <3>1, <4>2, Zenon
    <3> QED
      BY <3>1, Zenon
  <2> QED
    BY <1>1, <1>12, <2>1, <2>2, Zenon DEF InBatch
<1>14. \A i, j \in 1 .. l : i < j => v[i].entry < v[j].entry
  BY <1>1, <1>10, <1>11
<1>15. ASSUME NEW e \in Entries, snapshot[e] # NoFeat, b <= e, e < b + c
       PROVE  \E i \in 1 .. l : v[i].entry = e
  <2>1. e \in Nat /\ e - b + 1 \in 1 .. c /\ b + (e - b + 1) - 1 = e
    BY <1>1, <1>15, PageFacts DEF Entries
  <2>2. PICK m \in 1 .. c : b + m - 1 = e
    BY <2>1
  <2>3. x.keys[m - 1] # NoFeat
    BY <1>4, <1>15, <2>2
  <2>4. PICK i \in 1 .. l : at[i] = m
    BY <1>10, <2>3, Zenon
  <2> QED
    BY <1>11, <2>2, <2>4, Zenon
<1>16. v \in Seq([feat : Feats, entry : Entries])
  <2> DEFINE Y == [feat : Feats, entry : Entries]
  <2> HIDE DEF X, Y
  <2>1. \A i \in 1 .. l : v[i] \in Y
    BY <1>12, Zenon DEF Y
  <2>2. v \in Seq(Y)
    BY <1>7, <1>9, <2>1
  <2> QED
    BY <2>2, Zenon DEF Y
<1> QED
  BY <1>1, <1>9, <1>10, <1>13, <1>14, <1>15, <1>16, Zenon DEF v
-----------------------------------------------------------------------------
(* The batch of a delta export. *)

\* What the submission of a batch reads of a delta export with pages left.
PagesLeft(x) ==
  /\ Lists(x.dirty_pages) /\ x.snapshot_bump \in 0 .. MaxEntries
  /\ \A p \in dirty : p \in Nat /\ p * EPP < x.snapshot_bump
  /\ x.page_cursor \in Nat /\ x.page_cursor < Len(x.dirty_pages)

Gapless == Batch % EPP = 0 /\ \A p, q \in dirty : \A r \in p .. q : r \in dirty

\* The end of a page of allocated slots.
LEMMA PageEndIs ==
  ASSUME NEW x, x.snapshot_bump \in Nat, NEW p \in Nat, p * EPP < x.snapshot_bump
  PROVE  /\ PageEnd(x, p) \in Nat /\ PageEnd(x, p) <= (p + 1) * EPP
         /\ PageEnd(x, p) <= x.snapshot_bump /\ p * EPP < PageEnd(x, p)
         /\ \A e \in Nat : e < x.snapshot_bump /\ e < (p + 1) * EPP => e < PageEnd(x, p)
         /\ \A q \in Nat : p < q /\ q * EPP < x.snapshot_bump => PageEnd(x, p) = (p + 1) * EPP
<1>1. PICK sb \in Nat : sb = x.snapshot_bump
  OBVIOUS
<1>2. (p + 1) * EPP \in Nat /\ p * EPP < (p + 1) * EPP
  <2>1. \A m, k \in Nat : k > 0 => (m + 1) * k \in Nat /\ m * k < (m + 1) * k
    OBVIOUS
  <2> QED
    BY <2>1, PageFacts, Zenon
<1>3. PICK u \in Nat : u = (p + 1) * EPP
  BY <1>2, Zenon
<1>4. PICK m : m = PageEnd(x, p)
  OBVIOUS
<1>5. m = Min({u, sb})
  BY <1>1, <1>3, <1>4, Zenon DEF PageEnd
<1>6. m \in Nat /\ m <= u /\ m <= sb /\ (m = u \/ m = sb)
  BY <1>5, MinOfTwo, Zenon
<1>7. p * EPP < m
  BY <1>1, <1>2, <1>3, <1>6, Zenon
<1>8. \A e \in Nat : e < sb /\ e < u => e < m
  BY <1>6, Zenon
<1>9. ASSUME NEW q \in Nat, p < q, q * EPP < sb PROVE m = u
  <2>1. u <= q * EPP /\ q * EPP \in Nat
    BY <1>3, <1>9, PageFacts, Zenon
  <2> QED
    BY <1>6, <1>9, <2>1
<1> QED
  BY <1>1, <1>3, <1>4, <1>6, <1>7, <1>8, <1>9, Zenon

\* The first, the last and the next page of a batch.
LEMMA PageAtIs ==
  ASSUME NEW x, PagesLeft(x)
  PROVE  /\ Len(x.dirty_pages) \in Nat
         /\ \A i \in 1 .. (Len(x.dirty_pages) - x.page_cursor) :
              PageAt(x, i) \in dirty /\ PageAt(x, i) \in Nat /\ PageAt(x, i) * EPP < x.snapshot_bump
         /\ \A i, j \in 1 .. (Len(x.dirty_pages) - x.page_cursor) :
              i < j => PageAt(x, i) < PageAt(x, j)
<1>1. PICK dp \in Seq(Nat), pc \in Nat : dp = x.dirty_pages /\ pc = x.page_cursor
  BY DEF PagesLeft, Lists
<1>2. /\ \A i \in 1 .. Len(dp) : dp[i] \in dirty
      /\ \A i, j \in 1 .. Len(dp) : i < j => dp[i] < dp[j]
      /\ \A p \in dirty : p \in Nat /\ p * EPP < x.snapshot_bump
  BY <1>1, Zenon DEF PagesLeft, Lists
<1>3. PICK l \in Nat : l = Len(dp)
  OBVIOUS
<1>4. \A i \in 1 .. (l - pc) : pc + i \in 1 .. l
  BY <1>1, <1>3
<1>5. \A i, j \in 1 .. (l - pc) : i < j => pc + i < pc + j
  BY <1>1, <1>3
<1>6. \A i \in 1 .. (l - pc) : dp[pc + i] \in dirty
  BY <1>2, <1>3, <1>4, Zenon
<1>7. \A i, j \in 1 .. (l - pc) : i < j => dp[pc + i] < dp[pc + j]
  BY <1>2, <1>3, <1>4, <1>5, Zenon
<1> QED
  BY <1>1, <1>2, <1>3, <1>6, <1>7, Zenon DEF PageAt

\* The number of pages of a batch.
LEMMA TakenIs ==
  ASSUME NEW x, PagesLeft(x)
  PROVE  /\ Taken(x) \in 1 .. (Len(x.dirty_pages) - x.page_cursor)
         /\ \A m \in 1 .. (Taken(x) - 1) : ~(Collected(x, m) >= Batch)
<1>1. PICK left \in Nat : left = Len(x.dirty_pages) - x.page_cursor /\ left > 0
  <2>1. Len(x.dirty_pages) \in Nat /\ x.page_cursor \in Nat /\ x.page_cursor < Len(x.dirty_pages)
    BY PageAtIs, Zenon DEF PagesLeft
  <2> QED
    BY <2>1
<1> DEFINE T == {n \in 1 .. left : Collected(x, n) >= Batch} \cup {left}
<1>2. Taken(x) = Min(T)
  BY <1>1, Zenon DEF Taken
<1>3. T \subseteq 1 .. left /\ T # {}
  BY <1>1
<1>4. T \subseteq Nat
  BY <1>1, <1>3
<1>5. PICK n \in T : n = Taken(x) /\ \A y \in T : n <= y
  <2> HIDE DEF T
  <2> QED
    BY <1>2, <1>3, <1>4, MinIs, Zenon
<1>6. ASSUME NEW m \in 1 .. (n - 1), Collected(x, m) >= Batch PROVE FALSE
  <2>1. n \in 1 .. left
    BY <1>3, <1>5, Zenon
  <2>2. m \in 1 .. left /\ ~(n <= m)
    BY <1>1, <2>1
  <2>3. m \in T
    BY <1>6, <2>2, Zenon
  <2> QED
    BY <1>5, <2>2, <2>3, Zenon
<1>7. n \in 1 .. left
  BY <1>3, <1>5, Zenon
<1> HIDE DEF T
<1> QED
  BY <1>1, <1>5, <1>6, <1>7, Zenon

\* Of two slots' pages in the list, the place says which is the greater.
LEMMA PlaceOrder ==
  ASSUME NEW dp, Lists(dp), dirty \subseteq Nat,
         NEW i \in 1 .. Len(dp), NEW j \in 1 .. Len(dp)
  PROVE  dp[i] < dp[j] <=> i < j
<1>1. dp \in Seq(Nat) /\ \A k, m \in 1 .. Len(dp) : k < m => dp[k] < dp[m]
  BY DEF Lists
<1>2. PICK l \in Nat : l = Len(dp)
  BY <1>1
<1>3. PICK a \in Nat, b \in Nat : a = dp[i] /\ b = dp[j]
  BY <1>1
<1>4. i < j => a < b
  BY <1>1, <1>3, Zenon
<1>5. j < i => b < a
  BY <1>1, <1>3, Zenon
<1>6. i = j => a = b
  BY <1>3, Zenon
<1> QED
  BY <1>2, <1>3, <1>4, <1>5, <1>6

\* The range a batch of dirty pages spans: it ends before the next dirty page,
\* and no slot of a dirty page lies between the two.
LEMMA DeltaSpan ==
  ASSUME NEW x, PagesLeft(x), NEW n \in 1 .. (Len(x.dirty_pages) - x.page_cursor)
  PROVE  LET start == PageAt(x, 1) * EPP
             end   == PageEnd(x, PageAt(x, n))
             next  == x.page_cursor + n
             limit == IF next = Len(x.dirty_pages) THEN x.snapshot_bump
                      ELSE x.dirty_pages[next + 1] * EPP
         IN  /\ start \in Nat /\ end \in Nat /\ start < end /\ end <= x.snapshot_bump
             /\ next \in 1 .. Len(x.dirty_pages)
             /\ limit \in Nat /\ limit <= x.snapshot_bump /\ end <= limit
             /\ \A e \in Nat : PageOf(e) \in dirty /\ e < limit => e < end
<1>1. PICK dp \in Seq(Nat), pc \in Nat, sb \in Nat :
        dp = x.dirty_pages /\ pc = x.page_cursor /\ sb = x.snapshot_bump /\ pc < Len(dp)
  <2>1. x.snapshot_bump \in 0 .. MaxEntries /\ MaxEntries \in Nat
    BY PageFacts, Zenon DEF PagesLeft
  <2>2. x.snapshot_bump \in Nat
    BY <2>1
  <2> QED
    BY <2>2, Zenon DEF PagesLeft, Lists
<1>2. Lists(dp) /\ \A p \in dirty : p \in Nat /\ p * EPP < sb
  BY <1>1, Zenon DEF PagesLeft
<1>3. PICK l \in Nat : l = Len(dp)
  BY <1>1
<1>4. 1 \in 1 .. (l - pc) /\ n \in 1 .. (l - pc) /\ pc + n \in 1 .. l
  BY <1>1, <1>3
<1>5. PICK p \in Nat, q \in Nat :
        /\ p = PageAt(x, 1) /\ q = PageAt(x, n) /\ q = dp[pc + n]
        /\ p * EPP < sb /\ q * EPP < sb /\ q \in dirty
  BY <1>1, <1>3, <1>4, PageAtIs, Zenon DEF PageAt
<1>6. p <= q
  <2>1. n = 1 \/ 1 < n
    BY <1>1, <1>3
  <2>2. n = 1 => p = q
    BY <1>5, Zenon
  <2>3. 1 < n => p < q
    BY <1>1, <1>3, <1>4, <1>5, PageAtIs, Zenon
  <2> QED
    BY <1>5, <2>1, <2>2, <2>3
<1>7. PICK end \in Nat : /\ end = PageEnd(x, q) /\ end <= (q + 1) * EPP /\ end <= sb /\ q * EPP < end
                         /\ \A e \in Nat : e < sb /\ e < (q + 1) * EPP => e < end
  BY <1>1, <1>5, PageEndIs, Zenon
<1>8. PICK start \in Nat : start = p * EPP /\ start <= q * EPP /\ start < end
  <2>1. p * EPP \in Nat /\ q * EPP \in Nat
    BY <1>5, PageFacts, Zenon
  <2>2. p * EPP <= q * EPP
    <3>1. \A a, b, k \in Nat : a <= b => a * k <= b * k
      OBVIOUS
    <3> QED
      BY <1>5, <1>6, <3>1, PageFacts, Zenon
  <2>3. p * EPP < end
    BY <1>7, <2>1, <2>2
  <2> QED
    BY <2>1, <2>2, <2>3, Zenon
<1>9. ASSUME NEW e \in Nat, PageOf(e) \in Nat, PageOf(e) <= q, e < sb PROVE e < end
  <2>1. e < (PageOf(e) + 1) * EPP /\ EPP \in Nat
    BY PageFacts, Zenon
  <2>2. (PageOf(e) + 1) * EPP <= (q + 1) * EPP
    <3>1. \A a, b, k \in Nat : a <= b => (a + 1) * k <= (b + 1) * k
      OBVIOUS
    <3> QED
      BY <1>9, <2>1, <3>1, Zenon
  <2>3. e < (q + 1) * EPP
    <3>1. PICK u \in Nat, v \in Nat : u = (PageOf(e) + 1) * EPP /\ v = (q + 1) * EPP
      <4>1. \A a, k \in Nat : (a + 1) * k \in Nat
        OBVIOUS
      <4> QED
        BY <1>9, <2>1, <4>1, Zenon
    <3> QED
      BY <2>1, <2>2, <3>1
  <2> QED
    BY <1>7, <1>9, <2>3, Zenon
<1>10. ASSUME NEW e \in Nat, PageOf(e) \in dirty
       PROVE  \E k \in 1 .. l : dp[k] = PageOf(e)
  BY <1>2, <1>3, <1>10, Zenon DEF Lists
<1> DEFINE limit == IF x.page_cursor + n = Len(x.dirty_pages) THEN x.snapshot_bump
                    ELSE x.dirty_pages[x.page_cursor + n + 1] * EPP
           Limits == /\ limit \in Nat /\ limit <= sb /\ end <= limit
                     /\ \A e \in Nat : PageOf(e) \in dirty /\ e < limit => e < end
<1>11. ASSUME pc + n = l PROVE Limits
  <2>0. limit = sb
    BY <1>1, <1>3, <1>11, Zenon
  <2> HIDE DEF limit
  <2>1. ASSUME NEW e \in Nat, PageOf(e) \in dirty, e < sb PROVE e < end
    <3>1. PICK k \in 1 .. l : dp[k] = PageOf(e)
      BY <1>10, <2>1, Zenon
    <3>2. ~(l < k) /\ k \in Nat
      BY <1>3
    <3>3. ~(q < PageOf(e))
      BY <1>2, <1>3, <1>4, <1>5, <1>11, <3>1, <3>2, PlaceOrder, Zenon
    <3>4. PageOf(e) \in Nat
      BY <1>2, <2>1, Zenon
    <3>5. PageOf(e) <= q
      BY <3>3, <3>4
    <3> QED
      BY <1>9, <2>1, <3>4, <3>5, Zenon
  <2>2. sb <= sb
    OBVIOUS
  <2> QED
    BY <1>7, <2>0, <2>1, <2>2, Zenon
<1>12. ASSUME pc + n # l PROVE Limits
  <2>1. pc + n + 1 \in 1 .. l
    BY <1>3, <1>4, <1>12
  <2>2. PICK r \in Nat : r = dp[pc + n + 1] /\ r \in dirty /\ r * EPP < sb
    BY <1>2, <1>3, <2>1, Zenon DEF Lists
  <2>3. q < r
    <3>1. pc + n < pc + n + 1
      BY <1>3, <1>4
    <3>2. dp[pc + n] < dp[pc + n + 1]
      BY <1>2, <1>3, <1>4, <2>1, <3>1, Zenon DEF Lists
    <3> QED
      BY <1>5, <2>2, <3>2, Zenon
  <2>0. limit = r * EPP
    BY <1>1, <1>3, <1>12, <2>2, Zenon
  <2> HIDE DEF limit
  <2>4. limit \in Nat /\ limit = r * EPP /\ (q + 1) * EPP <= limit /\ limit < sb
    BY <1>5, <2>0, <2>2, <2>3, PageFacts, Zenon
  <2>5. end <= limit
    <3>1. PICK u \in Nat : u = (q + 1) * EPP
      <4>1. \A a, k \in Nat : (a + 1) * k \in Nat
        OBVIOUS
      <4> QED
        BY <4>1, PageFacts, Zenon
    <3> QED
      BY <1>7, <2>4, <3>1
  <2>6. ASSUME NEW e \in Nat, PageOf(e) \in dirty, e < limit PROVE e < end
    <3>1. PICK k \in 1 .. l : dp[k] = PageOf(e)
      BY <1>10, <2>6, Zenon
    <3>2. PICK g \in Nat : g = PageOf(e) /\ g * EPP <= e /\ g * EPP \in Nat
      BY PageFacts, Zenon
    <3>3. g * EPP < r * EPP
      BY <2>4, <2>6, <3>2
    <3>4. g < r
      <4>1. \A a, b, m \in Nat : a * m < b * m => a < b
        OBVIOUS
      <4> QED
        BY <2>2, <3>2, <3>3, <4>1, PageFacts, Zenon
    <3>5. k < pc + n + 1
      BY <1>2, <1>3, <2>1, <2>2, <3>1, <3>2, <3>4, PlaceOrder, Zenon
    <3>6. ~(pc + n < k)
      BY <1>3, <1>4, <3>5
    <3>7. ~(q < g)
      BY <1>2, <1>3, <1>4, <1>5, <3>1, <3>2, <3>6, PlaceOrder, Zenon
    <3>8. g <= q /\ e < sb
      BY <2>4, <2>6, <3>2, <3>7
    <3> QED
      BY <1>9, <3>2, <3>8, Zenon
  <2>7. limit <= sb
    BY <2>4
  <2> QED
    BY <2>4, <2>5, <2>6, <2>7, Zenon
<1>13. Limits
  BY <1>11, <1>12, Zenon
<1> HIDE DEF limit
<1> QED
  BY <1>1, <1>3, <1>4, <1>5, <1>7, <1>8, <1>13, Zenon DEF limit

\* Without gaps, the next dirty page is the next page.
LEMMA NextPage ==
  ASSUME NEW x, PagesLeft(x), Gapless,
         NEW i \in 1 .. (Len(x.dirty_pages) - x.page_cursor),
         i + 1 \in 1 .. (Len(x.dirty_pages) - x.page_cursor)
  PROVE  PageAt(x, i + 1) = PageAt(x, i) + 1
<1>1. PICK dp \in Seq(Nat), pc \in Nat : dp = x.dirty_pages /\ pc = x.page_cursor
  BY Zenon DEF PagesLeft, Lists
<1>2. Lists(dp) /\ dirty \subseteq Nat
  BY <1>1, Zenon DEF PagesLeft
<1>3. PICK l \in Nat : l = Len(dp)
  BY <1>1
<1>4. /\ i \in 1 .. (l - pc) /\ i + 1 \in 1 .. (l - pc) /\ i < i + 1
      /\ pc + i \in 1 .. l /\ pc + (i + 1) \in 1 .. l
  <2>1. i \in 1 .. (l - pc) /\ i + 1 \in 1 .. (l - pc)
    BY <1>1, <1>3, Zenon
  <2>2. \A a, b \in Nat : \A j : j \in 1 .. (a - b) /\ j + 1 \in 1 .. (a - b) =>
          j < j + 1 /\ b + j \in 1 .. a /\ b + (j + 1) \in 1 .. a
    OBVIOUS
  <2> QED
    BY <1>1, <1>3, <2>1, <2>2, Zenon
<1>5. PICK p \in Nat, q \in Nat :
        /\ p = PageAt(x, i) /\ q = PageAt(x, i + 1) /\ p = dp[pc + i] /\ q = dp[pc + (i + 1)]
        /\ p \in dirty /\ q \in dirty /\ p < q
  BY <1>1, <1>3, <1>4, PageAtIs, Zenon DEF PageAt
<1>6. p + 1 \in p .. q
  BY <1>5, SMTT(60)
<1>7. p + 1 \in dirty
  BY <1>5, <1>6, Zenon DEF Gapless
<1>8. PICK k \in 1 .. l : dp[k] = p + 1
  BY <1>2, <1>3, <1>7, Zenon DEF Lists
<1>9. dp[pc + i] < dp[k] <=> pc + i < k
  BY <1>2, <1>3, <1>4, PlaceOrder, Zenon
<1>10. dp[k] < dp[pc + (i + 1)] <=> k < pc + (i + 1)
  BY <1>2, <1>3, <1>4, PlaceOrder, Zenon
<1>11. pc + i < k
  <2>1. p < p + 1
    BY <1>5
  <2> QED
    BY <1>5, <1>8, <1>9, <2>1, Zenon
<1>12. ~(k < pc + (i + 1))
  BY <1>3, <1>4, <1>11
<1>13. ~(p + 1 < q)
  BY <1>5, <1>8, <1>10, <1>12, Zenon
<1> QED
  BY <1>5, <1>13, SMTT(60)

\* Without gaps, the slots of the pages of a batch are those of its range.
LEMMA CollectedSpan ==
  ASSUME NEW x, PagesLeft(x), Gapless,
         NEW n \in 1 .. (Len(x.dirty_pages) - x.page_cursor)
  PROVE  Collected(x, n) = PageEnd(x, PageAt(x, n)) - PageAt(x, 1) * EPP
<1>1. PICK left \in Nat, sb \in Nat :
        left = Len(x.dirty_pages) - x.page_cursor /\ sb = x.snapshot_bump
  <2>1. /\ Len(x.dirty_pages) \in Nat /\ x.page_cursor \in Nat /\ MaxEntries \in Nat
        /\ x.page_cursor < Len(x.dirty_pages) /\ x.snapshot_bump \in 0 .. MaxEntries
    BY PageAtIs, PageFacts, Zenon DEF PagesLeft
  <2>2. Len(x.dirty_pages) - x.page_cursor \in Nat /\ x.snapshot_bump \in Nat
    BY <2>1
  <2> QED
    BY <2>2, Zenon
<1>2. n \in Nat /\ n \in 1 .. left
  BY <1>1
<1>3. PICK sum : SumsUpTo(x, n, sum) /\ Collected(x, n) = sum[n]
  BY <1>2, CollectedLoop, Zenon
<1> DEFINE P(i) == PageAt(x, i)
           E(i) == PageEnd(x, PageAt(x, i))
<1>4. \A i \in 1 .. left : P(i) \in Nat /\ P(i) * EPP < sb
  BY <1>1, PageAtIs, Zenon
<1>5. \A i \in 1 .. left : E(i) \in Nat /\ P(i) * EPP \in Nat
  BY <1>1, <1>4, PageEndIs, PageFacts, Zenon
<1>6. \A i \in 1 .. n : sum[i] = sum[i - 1] + (E(i) - P(i) * EPP)
  BY <1>3, Zenon DEF SumsUpTo
<1>7. ASSUME NEW i \in Nat, i \in 1 .. left, i + 1 \in 1 .. left PROVE E(i) = P(i + 1) * EPP
  <2>1. P(i + 1) = P(i) + 1
    BY <1>1, <1>7, NextPage, Zenon
  <2>2. P(i) < P(i + 1)
    BY <1>4, <1>7, <2>1
  <2>3. E(i) = (P(i) + 1) * EPP
    BY <1>1, <1>4, <1>7, <2>2, PageEndIs, Zenon
  <2> QED
    BY <2>1, <2>3, Zenon
<1> DEFINE S == {i \in Nat : i + 1 <= n => sum[i + 1] = E(i + 1) - P(1) * EPP}
<1> HIDE DEF P, E
<1>8. 0 \in S
  <2>1. 1 \in 1 .. n /\ 1 - 1 = 0 /\ 0 + 1 = 1 /\ 1 \in 1 .. left
    BY <1>1, <1>2
  <2>2. sum[1] = sum[0] + (E(1) - P(1) * EPP) /\ sum[0] = 0
    BY <1>3, <1>6, <2>1, Zenon DEF SumsUpTo
  <2>3. sum[1] = E(1) - P(1) * EPP
    BY <1>5, <2>1, <2>2
  <2> QED
    BY <2>1, <2>3
<1>9. ASSUME NEW i \in Nat, i \in S PROVE i + 1 \in S
  <2> SUFFICES ASSUME (i + 1) + 1 <= n PROVE sum[(i + 1) + 1] = E((i + 1) + 1) - P(1) * EPP
    OBVIOUS
  <2>1. PICK j \in Nat : j = i + 1
    OBVIOUS
  <2>2. /\ j \in 1 .. left /\ j + 1 \in 1 .. left /\ j + 1 \in 1 .. n /\ (j + 1) - 1 = j
        /\ i + 1 <= n /\ 1 \in 1 .. left
    BY <1>1, <1>2, <2>1
  <2>3. sum[j] = E(j) - P(1) * EPP
    BY <1>9, <2>1, <2>2, Zenon
  <2>4. sum[j + 1] = sum[j] + (E(j + 1) - P(j + 1) * EPP)
    BY <1>6, <2>2, Zenon
  <2>5. E(j) = P(j + 1) * EPP
    BY <1>7, <2>2, Zenon
  <2>6. PICK a \in Nat, b \in Nat, c \in Nat :
          a = P(j + 1) * EPP /\ b = E(j + 1) /\ c = P(1) * EPP
    BY <1>5, <2>2, Zenon
  <2>7. sum[j + 1] = (a - c) + (b - a)
    BY <2>3, <2>4, <2>5, <2>6, Zenon
  <2>8. sum[j + 1] = b - c
    BY <2>6, <2>7
  <2> QED
    BY <2>1, <2>6, <2>8, Zenon
<1>10. n - 1 \in S /\ n - 1 + 1 = n /\ (n - 1) + 1 = n /\ n <= n
  <2>1. n - 1 \in Nat /\ n - 1 + 1 = n /\ (n - 1) + 1 = n /\ n <= n
    BY <1>2
  <2> HIDE DEF S
  <2> QED
    BY <1>8, <1>9, <2>1, NumberInduction, Zenon
<1>11. sum[n] = E(n) - P(1) * EPP
  BY <1>10, Zenon
<1> QED
  BY <1>3, <1>11, Zenon DEF E, P

\* Without gaps and with a batch of whole pages, the range of a step is not cut.
LEMMA DeltaFits ==
  ASSUME NEW x, PagesLeft(x), Gapless
  PROVE  PageEnd(x, PageAt(x, Taken(x))) - PageAt(x, 1) * EPP <= Batch
<1>1. PICK left \in Nat, n \in Nat, sb \in Nat :
        /\ left = Len(x.dirty_pages) - x.page_cursor /\ sb = x.snapshot_bump
        /\ n = Taken(x) /\ n \in 1 .. left
  <2>1. /\ Len(x.dirty_pages) \in Nat /\ x.page_cursor \in Nat /\ MaxEntries \in Nat
        /\ x.page_cursor < Len(x.dirty_pages) /\ x.snapshot_bump \in 0 .. MaxEntries
        /\ Taken(x) \in 1 .. (Len(x.dirty_pages) - x.page_cursor)
    BY PageAtIs, TakenIs, PageFacts, Zenon DEF PagesLeft
  <2>2. /\ Len(x.dirty_pages) - x.page_cursor \in Nat /\ x.snapshot_bump \in Nat
        /\ Taken(x) \in Nat
    BY <2>1
  <2> QED
    BY <2>1, <2>2, Zenon
<1>2. PICK p \in Nat, q \in Nat : /\ p = PageAt(x, 1) /\ p * EPP < sb
                                  /\ q = PageAt(x, n) /\ q * EPP < sb
  <2>1. 1 \in 1 .. left
    BY <1>1
  <2> QED
    BY <1>1, <2>1, PageAtIs, Zenon
<1>3. PICK end \in Nat : end = PageEnd(x, q) /\ end <= (q + 1) * EPP
  BY <1>1, <1>2, PageEndIs, Zenon
<1>4. PICK k \in Nat : k = EPP /\ k > 0 /\ Batch \in Nat /\ Batch > 0 /\ Batch % k = 0
  BY PageFacts, Zenon DEF Gapless
<1>5. PICK m \in Nat : Batch = m * k /\ m > 0
  <2>1. \A b \in Nat, c \in Nat \ {0} : b % c = 0 => b = (b \div c) * c /\ b \div c \in Nat
    OBVIOUS
  <2>2. k \in Nat \ {0}
    BY <1>4
  <2>3. Batch = (Batch \div k) * k /\ Batch \div k \in Nat
    BY <1>4, <2>1, <2>2, Zenon
  <2>4. PICK m \in Nat : m = Batch \div k
    BY <2>3, Zenon
  <2>5. Batch = m * k
    BY <2>3, <2>4, Zenon
  <2>6. m > 0
    BY <1>4, <2>5
  <2> QED
    BY <2>5, <2>6, Zenon
<1>6. ASSUME p <= q, q * k - p * k < m * k PROVE end - p * k <= Batch
  <2>1. \A a, b, c \in Nat : a <= b => b * c - a * c = (b - a) * c /\ b - a \in Nat
    OBVIOUS
  <2>0. q * k - p * k = (q - p) * k /\ q - p \in Nat
    <3>1. p \in Nat /\ q \in Nat /\ k \in Nat
      BY <1>2, <1>4, Zenon
    <3> QED
      BY <1>6, <2>1, <3>1
  <2>2. PICK d \in Nat : d = q - p /\ q * k - p * k = d * k
    BY <2>0, Zenon
  <2>3. \A a, b, c \in Nat : a * c < b * c => (a + 1) * c <= b * c
    OBVIOUS
  <2>4. (d + 1) * k <= m * k
    BY <1>4, <1>5, <1>6, <2>2, <2>3, Zenon
  <2>5. \A a, b \in Nat : (a + 1) * b = a * b + b /\ a * b \in Nat
    OBVIOUS
  <2>6. PICK dk \in Nat, pk \in Nat, qk \in Nat : dk = d * k /\ pk = p * k /\ qk = q * k
    BY <1>2, <1>4, <2>2, <2>5, Zenon
  <2>7. (d + 1) * k = dk + k /\ (q + 1) * k = qk + k
    <3>1. (d + 1) * k = d * k + k
      BY <1>4, <2>2, <2>5, Zenon
    <3>2. (q + 1) * k = q * k + k
      BY <1>2, <1>4, <2>5, Zenon
    <3> QED
      BY <2>6, <3>1, <3>2, Zenon
  <2>8. qk - pk = dk /\ dk + k <= Batch /\ end <= qk + k
    BY <1>3, <1>4, <1>5, <2>2, <2>4, <2>6, <2>7, Zenon
  <2>9. end - pk <= Batch
    BY <1>3, <1>4, <2>6, <2>8
  <2> QED
    BY <2>6, <2>9, Zenon
<1>7. CASE n = 1
  <2>1. p = q
    BY <1>2, <1>7, Zenon
  <2>2. \A a, b \in Nat : a * b - a * b = 0
    OBVIOUS
  <2>3. 0 < m * k
    BY <1>4, <1>5
  <2>4. p <= q /\ q * k - p * k < m * k
    BY <1>2, <1>4, <2>1, <2>2, <2>3
  <2> QED
    BY <1>1, <1>2, <1>3, <1>4, <1>6, <2>4, Zenon
<1>8. CASE n # 1
  <2>1. PICK h \in Nat : h + 1 = n
    <3>1. n - 1 \in Nat /\ (n - 1) + 1 = n
      BY <1>1
    <3> QED
      BY <3>1, Zenon
  <2>2. h \in 1 .. left /\ h + 1 \in 1 .. left /\ h \in 1 .. (n - 1) /\ 1 < n /\ 1 \in 1 .. left
    BY <1>1, <1>8, <2>1
  <2>3. ~(Collected(x, h) >= Batch)
    BY <1>1, <2>2, TakenIs, Zenon
  <2>4. Collected(x, h) = PageEnd(x, PageAt(x, h)) - p * EPP
    BY <1>1, <1>2, <2>2, CollectedSpan, Zenon
  <2>5. PICK g \in Nat : g = PageAt(x, h) /\ g * EPP < sb /\ q = g + 1 /\ g < q
    <3>1. PageAt(x, h) \in Nat /\ PageAt(x, h) * EPP < sb
      BY <1>1, <2>2, PageAtIs, Zenon
    <3>2. q = PageAt(x, h) + 1
      BY <1>1, <1>2, <2>1, <2>2, NextPage, Zenon
    <3>3. PICK g \in Nat : g = PageAt(x, h)
      BY <3>1, Zenon
    <3>4. g < g + 1
      BY <3>3
    <3> QED
      BY <3>1, <3>2, <3>3, <3>4, Zenon
  <2>6. PageEnd(x, g) = q * EPP
    BY <1>1, <1>2, <2>5, PageEndIs, Zenon
  <2>7. p < q
    BY <1>1, <1>2, <2>2, PageAtIs, Zenon
  <2>8. Collected(x, h) = q * k - p * k
    BY <1>4, <2>4, <2>5, <2>6, Zenon
  <2>9. p <= q /\ q * k - p * k < m * k
    <3>1. PICK pk \in Nat, qk \in Nat : pk = p * k /\ qk = q * k
      <4>1. \A a, b \in Nat : a * b \in Nat
        OBVIOUS
      <4> QED
        BY <1>2, <1>4, <4>1, Zenon
    <3>2. ~(qk - pk >= Batch)
      BY <2>3, <2>8, <3>1, Zenon
    <3>3. qk - pk < Batch /\ p <= q
      BY <1>2, <1>4, <2>7, <3>1, <3>2
    <3> QED
      BY <1>5, <3>1, <3>3, Zenon
  <2> QED
    BY <1>1, <1>2, <1>3, <1>4, <1>6, <2>9, Zenon
<1> QED
  BY <1>7, <1>8, Zenon
=============================================================================
