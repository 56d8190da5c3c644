---------------------------- MODULE OrderProofs -----------------------------
(***************************************************************************)
(* The order of the example server's responses, for any requests that any  *)
(* number of clients pipeline and any split of them by sockets and disk.   *)
(***************************************************************************)
EXTENDS ServerProofs, SequenceTheorems, WellFoundedInduction
-----------------------------------------------------------------------------
(* The inductive invariant. *)

\* The i-th request of a client with this script.
Req(script, i) == [no |-> i, kind |-> script[i]]

\* q are the requests of the script after the first b.
From(script, b, q) == \A i \in 1..Len(q) : q[i] = Req(script, b + i)

\* Response, in a server whose mode is ro.
Reply(ro, r) ==
  IF r.kind = "stream"
  THEN <<Item(r.no, 0, TRUE)>> \o Frames(r.no, 0, Chunks) \o <<Item(r.no, Chunks + 1, TRUE)>>
  ELSE <<Item(r.no, 0, ~(ro /\ Writes(r)))>>

Replies(ro, script) == [i \in 1..Len(script) |-> Reply(ro, Req(script, i))]

\* The responses to the first n requests of the script.
Out(ro, script) == Joined(Replies(ro, script))

\* What is sent of the response to a pull in progress.
Partial(a) ==
  IF a # Idle /\ a.req.kind = "stream" THEN StreamStart(a.req, a.offset) ELSE <<>>

\* The requests that have been answered or begun.
Begun(k) == IF k.async = Idle THEN k.answered ELSE k.answered + 1

Items == [req : Nat, part : Nat, ok : BOOLEAN]

\* What connection k and the client's side s hold of a stream of requests: those
\* received and those on the way follow the ones begun, and what was sent and
\* queued are the responses to these.
InOrder(ro, k, s) ==
  /\ k.answered \in Nat /\ k.send \in Seq(Items) /\ s.got \in Seq(Items)
  /\ s.sent <= Len(s.script) /\ Begun(k) + Len(k.recv) + Len(s.net) = s.sent
  /\ From(s.script, Begun(k), k.recv) /\ From(s.script, Begun(k) + Len(k.recv), s.net)
  /\ \A i \in 1..Begun(k) : s.script[i] # "junk"
  /\ k.async # Idle => k.async.req = Req(s.script, Begun(k))
  /\ s.got \o k.send = Out(ro, s.script)[k.answered] \o Partial(k.async)

\* What a closed connection has sent are responses in order, the last one
\* perhaps in part.
Delivered(ro, s) ==
  /\ s.got \in Seq(Items)
  /\ \E n \in 0..Len(s.script) : /\ \A i \in 1..n : s.script[i] # "junk"
                                 /\ IsPrefix(s.got, Out(ro, s.script)[n])

\* One connection, from before it is accepted until it is closed.
Ordered(ro, k, s) ==
  /\ k.state \in {"away", "backlog", "piped"} => k = NoConn(k.state)
  /\ k.state # "closed" => InOrder(ro, k, s)
  /\ k.state = "closed" => k.send = <<>> /\ k.async = Idle /\ Delivered(ro, s)

OrderInv == \A c \in Clients : Ordered(readonly, conn[c], client[c])
-----------------------------------------------------------------------------
(* Induction over the natural numbers, with a property as the set of the   *)
(* numbers that have it.                                                   *)

\* A set of numbers that has 0 and, with a number, the next one, has them all:
\* used for the loop over the requests of a connection (process_message).
LEMMA NumberInduction ==
  ASSUME NEW S, 0 \in S, \A n \in Nat : n \in S => n + 1 \in S
  PROVE  Nat \subseteq S
<1> DEFINE R == {ss \in Nat \X Nat : ss[1] < ss[2]}
           T == Nat \ S
<1> SUFFICES ASSUME T # {} PROVE FALSE
  BY Zenon
<1>1. IsWellFoundedOn(R, Nat)
  <2>1. OpToRel(<, Nat) = R
    BY Zenon DEF OpToRel
  <2> QED
    BY <2>1, NatLessThanWellFounded, Zenon
<1>2. PICK x \in T : \A y \in T : ~ (<<y, x>> \in R)
  <2>1. T \subseteq Nat
    BY Zenon
  <2> HIDE DEF R, T
  <2> QED
    BY <1>1, <2>1, WFMin, Zenon
<1>3. x \in Nat /\ x # 0
  BY <1>2, Zenon
<1>4. x - 1 \in Nat /\ x - 1 + 1 = x /\ x - 1 < x
  BY <1>3
<1>5. <<x - 1, x>> \in R
  BY <1>3, <1>4, Zenon
<1>6. x - 1 \in S
  BY <1>2, <1>4, <1>5, Zenon
<1> QED
  BY <1>2, <1>4, <1>6, Zenon
-----------------------------------------------------------------------------
(* Sequences one after the other. *)

\* Joining goes from one sequence to the next.
LEMMA JoinedDef ==
  ASSUME NEW parts, Len(parts) \in Nat
  PROVE  /\ Joined(parts)[0] = <<>>
         /\ \A n \in 1..Len(parts) : Joined(parts)[n] = Joined(parts)[n - 1] \o parts[n]
<1> DEFINE N == Len(parts)
           Body(g, i) == IF i = 0 THEN <<>> ELSE g[i - 1] \o parts[i]
           Loop(g, n) == g = [i \in 0..n |-> Body(g, i)]
           S == {n \in Nat : \E g : Loop(g, n)}
           all == Joined(parts)
<1>1. 0 \in S
  <2> DEFINE g == [i \in 0..0 |-> <<>>]
  <2>1. g = [i \in 0..0 |-> Body(g, i)]
    OBVIOUS
  <2>2. Loop(g, 0)
    BY <2>1, Zenon
  <2> QED
    BY <2>2, Zenon
<1>2. ASSUME NEW n \in Nat, n \in S PROVE n + 1 \in S
  <2>1. PICK g : Loop(g, n)
    BY <1>2, Zenon
  <2> DEFINE h == [i \in 0..(n + 1) |-> IF i <= n THEN g[i] ELSE Body(g, i)]
  <2>2. ASSUME NEW i \in 0..(n + 1) PROVE h[i] = Body(h, i)
    <3>1. CASE i <= n
      <4>1. h[i] = g[i] /\ g[i] = Body(g, i)
        BY <2>1, <3>1
      <4>2. i # 0 => h[i - 1] = g[i - 1]
        BY <3>1
      <4> QED
        BY <4>1, <4>2, Zenon
    <3>2. CASE i = n + 1
      <4>1. h[i] = Body(g, i) /\ i # 0 /\ i - 1 = n
        BY <3>2
      <4>2. h[i - 1] = g[i - 1]
        BY <4>1
      <4> QED
        BY <4>1, <4>2, Zenon
    <3> QED
      BY <3>1, <3>2
  <2>3. Loop(h, n + 1)
    BY <2>2, Zenon
  <2> HIDE DEF h, Loop
  <2>4. n + 1 \in Nat /\ \E g0 : Loop(g0, n + 1)
    BY <2>3
  <2> QED
    BY <2>4, Zenon
<1>3. Nat \subseteq S
  <2> HIDE DEF S
  <2> QED
    BY <1>1, <1>2, NumberInduction, Zenon
<1>4. \E g : Loop(g, N)
  BY <1>3, Zenon
<1>5. all = [i \in 0..N |-> Body(all, i)]
  <2>1. all = CHOOSE g : Loop(g, N)
    BY Zenon DEF Joined
  <2> HIDE DEF Loop
  <2>2. Loop(all, N)
    BY <1>4, <2>1, Zenon
  <2> QED
    BY <2>2, Zenon DEF Loop
<1> HIDE DEF all
<1>6. all[0] = <<>>
  BY <1>5
<1>7. ASSUME NEW n \in 1..N PROVE all[n] = all[n - 1] \o parts[n]
  <2>1. n \in 0..N /\ n # 0
    OBVIOUS
  <2>2. all[n] = Body(all, n)
    BY <1>5, <2>1, Zenon
  <2> QED
    BY <2>1, <2>2, Zenon
<1> QED
  BY <1>6, <1>7, Zenon DEF all

\* A stretch of some parts is joined to the parts before it.
LEMMA JoinedCut ==
  ASSUME NEW X, NEW parts \in Seq(Seq(X)), NEW qs \in Seq(Seq(X)), NEW a \in Nat,
         a + Len(qs) <= Len(parts), \A i \in 1..Len(qs) : qs[i] = parts[a + i]
  PROVE  /\ Joined(parts)[a] \in Seq(X) /\ Joined(qs)[Len(qs)] \in Seq(X)
         /\ Joined(parts)[a] \o Joined(qs)[Len(qs)] = Joined(parts)[a + Len(qs)]
<1> DEFINE all == Joined(parts)
           some == Joined(qs)
<1>1. /\ Len(parts) \in Nat /\ Len(qs) \in Nat
      /\ \A i \in 1..Len(parts) : parts[i] \in Seq(X)
      /\ \A i \in 1..Len(qs) : qs[i] \in Seq(X)
  BY LenProperties, ElementOfSeq, Zenon
<1>2. /\ all[0] = <<>> /\ \A n \in 1..Len(parts) : all[n] = all[n - 1] \o parts[n]
      /\ some[0] = <<>> /\ \A n \in 1..Len(qs) : some[n] = some[n - 1] \o qs[n]
  BY <1>1, JoinedDef, Zenon
<1> HIDE DEF all, some
<1>3. ASSUME NEW ps \in Seq(Seq(X)), NEW f, f[0] = <<>>,
             \A n \in 1..Len(ps) : f[n] = f[n - 1] \o ps[n]
      PROVE  \A n \in 0..Len(ps) : f[n] \in Seq(X)
  <2> DEFINE S == {n \in Nat : n <= Len(ps) => f[n] \in Seq(X)}
  <2>0. Len(ps) \in Nat /\ \A i \in 1..Len(ps) : ps[i] \in Seq(X)
    BY LenProperties, ElementOfSeq, Zenon
  <2>1. 0 \in S
    BY <1>3, EmptySeq, Zenon
  <2>2. ASSUME NEW n \in Nat, n \in S PROVE n + 1 \in S
    <3>1. SUFFICES ASSUME n + 1 <= Len(ps) PROVE f[n + 1] \in Seq(X)
      OBVIOUS
    <3>2. n <= Len(ps) /\ n + 1 \in 1..Len(ps) /\ n + 1 - 1 = n
      BY <2>0, <3>1
    <3>3. f[n] \in Seq(X) /\ ps[n + 1] \in Seq(X) /\ f[n + 1] = f[n] \o ps[n + 1]
      <4>1. \A j \in 1..Len(ps) : j - 1 = n => f[j] = f[n] \o ps[j]
        BY <1>3, Zenon
      <4>2. f[n + 1] = f[n] \o ps[n + 1]
        <5>1. PICK j : j = n + 1
          OBVIOUS
        <5>2. j \in 1..Len(ps) /\ j - 1 = n
          BY <2>0, <3>1, <5>1
        <5>3. f[j] = f[n] \o ps[j]
          BY <4>1, <5>2, Zenon
        <5> QED
          BY <5>1, <5>3, Zenon
      <4> QED
        BY <2>0, <2>2, <3>2, <4>2, Zenon
    <3> QED
      BY <3>3, ConcatProperties, ZenonT(60)
  <2>3. Nat \subseteq S
    <3> HIDE DEF S
    <3> QED
      BY <2>1, <2>2, NumberInduction, Zenon
  <2>4. ASSUME NEW n \in 0..Len(ps) PROVE n \in Nat /\ n <= Len(ps)
    BY <2>0
  <2> QED
    BY <2>3, <2>4, Zenon
<1>4. /\ \A n \in 0..Len(parts) : all[n] \in Seq(X)
      /\ \A n \in 0..Len(qs) : some[n] \in Seq(X)
  BY <1>2, <1>3, Zenon
<1>5. a \in 0..Len(parts) /\ Len(qs) \in 0..Len(qs)
  BY <1>1
<1>6. all[a] \o some[Len(qs)] = all[a + Len(qs)]
  <2> DEFINE S == {n \in Nat : n <= Len(qs) => all[a] \o some[n] = all[a + n]}
  <2>1. 0 \in S
    <3>1. a + 0 = a /\ all[a] \o <<>> = all[a]
      BY <1>4, <1>5, ConcatEmptySeq
    <3> QED
      BY <1>2, <3>1, Zenon
  <2>2. ASSUME NEW n \in Nat, n \in S PROVE n + 1 \in S
    <3>0. n + 1 \in Nat
      OBVIOUS
    <3>1. SUFFICES ASSUME n + 1 <= Len(qs) PROVE all[a] \o some[n + 1] = all[a + (n + 1)]
      BY <3>0, Zenon
    <3>2. /\ n <= Len(qs) /\ n \in 0..Len(qs) /\ n + 1 \in 1..Len(qs) /\ n + 1 - 1 = n
          /\ a + (n + 1) \in 1..Len(parts) /\ a + (n + 1) - 1 = a + n /\ a + n \in 0..Len(parts)
      BY <1>1, <3>1
    <3>3. some[n + 1] = some[n] \o qs[n + 1] /\ all[a + (n + 1)] = all[a + n] \o qs[n + 1]
      <4>1. \A j \in 1..Len(qs) : j - 1 = n => some[j] = some[n] \o qs[j]
        BY <1>2, Zenon
      <4>2. \A j \in 1..Len(parts) : j - 1 = a + n => all[j] = all[a + n] \o parts[j]
        BY <1>2, Zenon
      <4>3. parts[a + (n + 1)] = qs[n + 1]
        BY <3>2, Zenon
      <4> QED
        <5>1. PICK j, k : j = n + 1 /\ k = a + (n + 1)
          OBVIOUS
        <5>2. j \in 1..Len(qs) /\ j - 1 = n /\ k \in 1..Len(parts) /\ k - 1 = a + n
          BY <1>1, <3>1, <5>1
        <5>3. some[j] = some[n] \o qs[j] /\ all[k] = all[a + n] \o parts[k]
          BY <4>1, <4>2, <5>2, Zenon
        <5> QED
          BY <4>3, <5>1, <5>3, Zenon
    <3>4. all[a] \in Seq(X) /\ some[n] \in Seq(X) /\ qs[n + 1] \in Seq(X)
      BY <1>1, <1>4, <1>5, <3>2, Zenon
    <3>5. all[a] \o (some[n] \o qs[n + 1]) = (all[a] \o some[n]) \o qs[n + 1]
      <4>1. \A x, y, z \in Seq(X) : (x \o y) \o z = x \o (y \o z)
        BY ConcatAssociative, SMTT(60)
      <4> QED
        BY <3>4, <4>1, ZenonT(60)
    <3> QED
      BY <2>2, <3>2, <3>3, <3>5, Zenon
  <2>3. Nat \subseteq S
    <3> HIDE DEF S
    <3> QED
      BY <2>1, <2>2, NumberInduction, Zenon
  <2>4. Len(qs) <= Len(qs)
    BY <1>1
  <2> QED
    BY <1>1, <2>3, <2>4, Zenon
<1> QED
  BY <1>4, <1>5, <1>6, Zenon DEF all, some
-----------------------------------------------------------------------------
(* Responses. *)

\* A chunk of the send queue.
LEMMA ItemTyped ==
  ASSUME NEW k \in Nat, NEW part \in Nat, NEW ok \in BOOLEAN
  PROVE  Item(k, part, ok) \in Items
BY Zenon DEF Item, Items

\* The frames of a streamed response (stream_build_frame), in any portions.
LEMMA FramesFacts ==
  ASSUME NEW k \in Nat, NEW from \in Nat, NEW to \in Nat, from <= to
  PROVE  /\ Frames(k, from, to) \in Seq(Items)
         /\ \A mid \in from..to : Frames(k, from, mid) \o Frames(k, mid, to) = Frames(k, from, to)
<1> DEFINE F(i) == Item(k, i, TRUE)
<1>1. \A i \in Nat : F(i) \in Items
  <2>1. TRUE \in BOOLEAN
    OBVIOUS
  <2> QED
    BY <2>1, ItemTyped, Zenon
<1>2. \A i, j : Frames(k, i, j) = [n \in 1..(j - i) |-> F(i + n)]
  BY Zenon DEF Frames
<1> HIDE DEF F
<1>3. ASSUME NEW i \in Nat, NEW j \in Nat, i <= j
      PROVE  /\ Frames(k, i, j) \in Seq(Items) /\ Len(Frames(k, i, j)) = j - i
             /\ \A n \in 1..(j - i) : Frames(k, i, j)[n] = F(i + n)
  <2>1. PICK s : s = [n \in 1..(j - i) |-> F(i + n)]
    BY Zenon
  <2>2. \A n \in 1..(j - i) : i + n \in Nat
    BY <1>3
  <2>3. s \in Seq(Items) /\ Len(s) = j - i /\ \A n \in 1..(j - i) : s[n] = F(i + n)
    BY <1>1, <1>3, <2>1, <2>2
  <2> QED
    BY <1>2, <2>1, <2>3, Zenon
<1>4. ASSUME NEW mid \in from..to
      PROVE  Frames(k, from, mid) \o Frames(k, mid, to) = Frames(k, from, to)
  <2>1. mid \in Nat /\ from <= mid /\ mid <= to
    OBVIOUS
  <2>2. PICK s, t, u : s = Frames(k, from, mid) /\ t = Frames(k, mid, to) /\ u = Frames(k, from, to)
    OBVIOUS
  <2>3. /\ s \in Seq(Items) /\ Len(s) = mid - from /\ \A n \in 1..(mid - from) : s[n] = F(from + n)
        /\ t \in Seq(Items) /\ Len(t) = to - mid /\ \A n \in 1..(to - mid) : t[n] = F(mid + n)
        /\ u \in Seq(Items) /\ Len(u) = to - from /\ \A n \in 1..(to - from) : u[n] = F(from + n)
    BY <1>3, <2>1, <2>2, Zenon
  <2>4. /\ s \o t \in Seq(Items) /\ Len(s \o t) = Len(s) + Len(t)
        /\ \A i \in 1..(Len(s) + Len(t)) :
             (s \o t)[i] = IF i <= Len(s) THEN s[i] ELSE t[i - Len(s)]
    BY <2>3, ConcatProperties, Zenon
  <2>5. Len(s \o t) = Len(u)
    BY <2>1, <2>3, <2>4
  <2>6. ASSUME NEW i \in 1..Len(s \o t) PROVE (s \o t)[i] = u[i]
    <3>1. CASE i <= Len(s)
      BY <2>1, <2>3, <2>4, <3>1
    <3>2. CASE ~(i <= Len(s))
      <4>1. i - Len(s) \in 1..(to - mid) /\ mid + (i - Len(s)) = from + i /\ i \in 1..(to - from)
        BY <2>1, <2>3, <2>4, <3>2
      <4>2. t[i - Len(s)] = F(mid + (i - Len(s))) /\ u[i] = F(from + i)
        BY <2>3, <4>1, Zenon
      <4>3. (s \o t)[i] = t[i - Len(s)]
        BY <2>4, <3>2, Zenon
      <4> QED
        BY <4>1, <4>2, <4>3, Zenon
    <3> QED
      BY <3>1, <3>2, Zenon
  <2>7. s \o t = u
    BY <2>3, <2>4, <2>5, <2>6, SeqEqual, Zenon
  <2> QED
    BY <2>2, <2>7, Zenon
<1> QED
  BY <1>3, <1>4, Zenon

\* A streamed response grows by frames (stream_resume).
LEMMA StreamGrows ==
  ASSUME NEW r, r.no \in Nat, NEW i \in Nat, NEW j \in Nat, i <= j
  PROVE  /\ StreamStart(r, i) \in Seq(Items) /\ Frames(r.no, i, j) \in Seq(Items)
         /\ StreamStart(r, i) \o Frames(r.no, i, j) = StreamStart(r, j)
<1> DEFINE h == <<Item(r.no, 0, TRUE)>>
<1>1. h \in Seq(Items)
  <2>1. TRUE \in BOOLEAN /\ 0 \in Nat
    OBVIOUS
  <2>2. Item(r.no, 0, TRUE) \in Items
    BY <2>1, ItemTyped, Zenon
  <2>3. \A x \in Items : <<x>> \in Seq(Items)
    OBVIOUS
  <2> QED
    BY <2>2, <2>3, Zenon
<1>2. 0 <= i /\ 0 <= j /\ i \in 0..j /\ 0 \in Nat
  OBVIOUS
<1>3. /\ Frames(r.no, 0, i) \in Seq(Items) /\ Frames(r.no, i, j) \in Seq(Items)
      /\ Frames(r.no, 0, i) \o Frames(r.no, i, j) = Frames(r.no, 0, j)
  BY <1>2, FramesFacts, Zenon
<1>4. /\ StreamStart(r, i) = h \o Frames(r.no, 0, i) /\ StreamStart(r, j) = h \o Frames(r.no, 0, j)
  BY Zenon DEF StreamStart
<1> HIDE DEF h
<1>5. h \o Frames(r.no, 0, i) \in Seq(Items)
  BY <1>1, <1>3, ConcatProperties, Zenon
<1>6. \A x, y, z \in Seq(Items) : (x \o y) \o z = x \o (y \o z)
  BY ConcatAssociative
<1>7. (h \o Frames(r.no, 0, i)) \o Frames(r.no, i, j) = h \o (Frames(r.no, 0, i) \o Frames(r.no, i, j))
  BY <1>1, <1>3, <1>6, Zenon
<1>8. StreamStart(r, i) \o Frames(r.no, i, j) = StreamStart(r, j)
  BY <1>3, <1>4, <1>7, Zenon
<1>9. StreamStart(r, i) \in Seq(Items)
  BY <1>4, <1>5, Zenon
<1> QED
  BY <1>3, <1>8, <1>9, Zenon

\* What the whole response to a pull is.
LEMMA PullReply ==
  ASSUME NEW ro \in BOOLEAN, NEW r \in Reqs
  PROVE  /\ Reply(ro, r) \in Seq(Items)
         /\ r.kind = "stream" => Reply(ro, r) = StreamStart(r, Chunks) \o <<Item(r.no, Chunks + 1, TRUE)>>
         /\ r.kind = "pull" => Reply(ro, r) = <<Item(r.no, 0, TRUE)>>
<1>1. r.no \in Nat /\ Chunks \in Nat /\ Chunks + 1 \in Nat /\ 0 \in Nat /\ Chunks <= Chunks
  BY ServerAssumption DEF Reqs
<1>2. \A x \in Items : <<x>> \in Seq(Items)
  OBVIOUS
<1>3. CASE r.kind = "stream"
  <2>1. Reply(ro, r) = StreamStart(r, Chunks) \o <<Item(r.no, Chunks + 1, TRUE)>>
    BY <1>3, Zenon DEF Reply, StreamStart
  <2>2. TRUE \in BOOLEAN
    OBVIOUS
  <2>3. <<Item(r.no, Chunks + 1, TRUE)>> \in Seq(Items) /\ StreamStart(r, Chunks) \in Seq(Items)
    BY <1>1, <1>2, <2>2, ItemTyped, StreamGrows, Zenon
  <2>4. Reply(ro, r) \in Seq(Items)
    BY <2>1, <2>3, ConcatProperties, Zenon
  <2>5. r.kind # "pull"
    BY <1>3, Zenon
  <2> QED
    BY <2>1, <2>4, <2>5, Zenon
<1>4. CASE r.kind # "stream"
  <2>1. Reply(ro, r) = <<Item(r.no, 0, ~(ro /\ Writes(r)))>>
    BY <1>4, Zenon DEF Reply
  <2>2. (~(ro /\ Writes(r))) \in BOOLEAN
    OBVIOUS
  <2>3. r.kind = "pull" => ~Writes(r)
    BY Zenon DEF Writes
  <2>4. ~Writes(r) => (~(ro /\ Writes(r))) = TRUE
    BY Zenon
  <2> QED
    BY <1>1, <1>2, <1>4, <2>1, <2>2, <2>3, <2>4, ItemTyped, Zenon
<1> QED
  BY <1>3, <1>4, Zenon

\* The responses to a script, one after the other.
LEMMA OutFacts ==
  ASSUME NEW ro \in BOOLEAN, NEW script \in Seq(Kinds)
  PROVE  /\ Replies(ro, script) \in Seq(Seq(Items)) /\ Len(Replies(ro, script)) = Len(script)
         /\ \A i \in 1..Len(script) : /\ Req(script, i) \in Reqs
                                      /\ Replies(ro, script)[i] = Reply(ro, Req(script, i))
         /\ Out(ro, script)[0] = <<>>
         /\ \A n \in 0..Len(script) : Out(ro, script)[n] \in Seq(Items)
         /\ \A n \in Nat : n + 1 <= Len(script) =>
              Out(ro, script)[n + 1] = Out(ro, script)[n] \o Reply(ro, Req(script, n + 1))
<1> DEFINE F(i) == Reply(ro, Req(script, i))
           R == Replies(ro, script)
<1>1. Len(script) \in Nat /\ \A i \in 1..Len(script) : i \in Nat /\ script[i] \in Kinds
  OBVIOUS
<1>2. \A i \in 1..Len(script) : Req(script, i) \in Reqs
  BY <1>1, Zenon DEF Req, Reqs
<1>3. \A i \in 1..Len(script) : F(i) \in Seq(Items)
  BY <1>2, PullReply, Zenon
<1>4. R = [i \in 1..Len(script) |-> F(i)]
  BY Zenon DEF Replies
<1>5. R \in Seq(Seq(Items)) /\ Len(R) = Len(script) /\ \A i \in 1..Len(script) : R[i] = F(i)
  <2> HIDE DEF F, R
  <2> QED
    BY <1>1, <1>3, <1>4
<1>6. /\ Joined(R)[0] = <<>>
      /\ \A n \in 1..Len(script) : Joined(R)[n] = Joined(R)[n - 1] \o R[n]
  BY <1>1, <1>5, JoinedDef, Zenon
<1>7. ASSUME NEW n \in Nat, n + 1 <= Len(script)
      PROVE  Out(ro, script)[n + 1] = Out(ro, script)[n] \o F(n + 1)
  <2>1. PICK j : j = n + 1
    OBVIOUS
  <2>2. j \in 1..Len(script) /\ j - 1 = n
    BY <1>1, <1>7, <2>1
  <2>3. Joined(R)[j] = Joined(R)[j - 1] \o R[j] /\ R[j] = F(j)
    BY <1>5, <1>6, <2>2, Zenon
  <2>4. Joined(R)[j] = Joined(R)[n] \o F(j)
    BY <2>2, <2>3, Zenon
  <2> QED
    BY <2>1, <2>4, Zenon DEF Out
<1>8. ASSUME NEW n \in 0..Len(script) PROVE Out(ro, script)[n] \in Seq(Items)
  <2>1. n \in Nat /\ n + Len(<<>>) <= Len(R) /\ 1..Len(<<>>) = {}
    BY <1>1, <1>5
  <2>2. <<>> \in Seq(Seq(Items)) /\ \A i \in 1..Len(<<>>) : <<>>[i] = R[n + i]
    BY <2>1
  <2> QED
    BY <1>5, <2>1, <2>2, JoinedCut, Zenon DEF Out
<1> QED
  BY <1>2, <1>5, <1>6, <1>7, <1>8, Zenon DEF Out

\* The responses to requests that follow in the script follow the responses
\* to those before them (process_message).
LEMMA ResponsesFollow ==
  ASSUME readonly \in BOOLEAN, NEW script \in Seq(Kinds), NEW reqs \in Seq(Reqs), NEW a \in Nat,
         a + Len(reqs) <= Len(script), From(script, a, reqs)
  PROVE  /\ Responses(reqs) \in Seq(Items)
         /\ Out(readonly, script)[a] \o Responses(reqs) = Out(readonly, script)[a + Len(reqs)]
<1> DEFINE F(i) == Response(reqs[i])
           parts == Replies(readonly, script)
<1>1. PICK qs : qs = [i \in 1..Len(reqs) |-> F(i)]
  BY Zenon
<1>2. \A r : Response(r) = Reply(readonly, r)
  BY Zenon DEF Response, Reply
<1>3. Len(reqs) \in Nat /\ \A i \in 1..Len(reqs) : reqs[i] \in Reqs /\ i \in Nat
  OBVIOUS
<1>4. \A i \in 1..Len(reqs) : F(i) \in Seq(Items)
  BY <1>2, <1>3, PullReply, Zenon
<1>5. qs \in Seq(Seq(Items)) /\ Len(qs) = Len(reqs) /\ \A i \in 1..Len(reqs) : qs[i] = F(i)
  <2> HIDE DEF F
  <2> QED
    BY <1>1, <1>3, <1>4
<1>6. \A i \in 1..Len(reqs) : a + i \in 1..Len(script)
  BY <1>3
<1>7. /\ parts \in Seq(Seq(Items)) /\ Len(parts) = Len(script)
      /\ \A i \in 1..Len(script) : parts[i] = Reply(readonly, Req(script, i))
  BY OutFacts, Zenon
<1>8. \A i \in 1..Len(reqs) : qs[i] = parts[a + i]
  BY <1>2, <1>5, <1>6, <1>7, Zenon DEF From
<1>9. Responses(reqs) = Joined(qs)[Len(qs)]
  BY <1>1, <1>5, Zenon DEF Responses
<1> HIDE DEF parts
<1>10. /\ Joined(qs)[Len(qs)] \in Seq(Items)
       /\ Joined(parts)[a] \o Joined(qs)[Len(qs)] = Joined(parts)[a + Len(qs)]
  BY <1>5, <1>7, <1>8, JoinedCut, ZenonT(60)
<1> QED
  BY <1>5, <1>9, <1>10, Zenon DEF Out, parts

\* A part of the requests that follow in the script.
LEMMA FromCut ==
  ASSUME NEW script, NEW b \in Nat, NEW q \in Seq(Reqs), From(script, b, q), NEW m \in 0..Len(q)
  PROVE  LET s == SubSeq(q, 1, m)
             t == SubSeq(q, m + 1, Len(q))
         IN  /\ s \in Seq(Reqs) /\ Len(s) = m /\ From(script, b, s) /\ \A i \in 1..m : s[i] = q[i]
             /\ t \in Seq(Reqs) /\ Len(t) = Len(q) - m /\ From(script, b + m, t)
<1> DEFINE s == SubSeq(q, 1, m)
           t == SubSeq(q, m + 1, Len(q))
<1>1. s \in Seq(Reqs) /\ Len(s) = m /\ \A i \in 1..m : s[i] = q[i]
  OBVIOUS
<1>2. t \in Seq(Reqs) /\ Len(t) = Len(q) - m /\ \A i \in 1..(Len(q) - m) : t[i] = q[m + i]
  OBVIOUS
<1>3. \A i \in 1..Len(q) : q[i] = Req(script, b + i)
  BY Zenon DEF From
<1>4. \A i \in 1..m : i \in 1..Len(q)
  OBVIOUS
<1>5. \A i \in 1..(Len(q) - m) : m + i \in 1..Len(q) /\ b + (m + i) = (b + m) + i
  OBVIOUS
<1>6. From(script, b, s)
  BY <1>1, <1>3, <1>4, Zenon DEF From
<1>7. From(script, b + m, t)
  <2>1. ASSUME NEW i \in 1..(Len(q) - m) PROVE t[i] = Req(script, (b + m) + i)
    <3>1. t[i] = q[m + i] /\ q[m + i] = Req(script, b + (m + i))
      BY <1>2, <1>3, <1>5, Zenon
    <3> QED
      BY <1>5, <3>1, Zenon
  <2> QED
    BY <1>2, <2>1, Zenon DEF From
<1> QED
  BY <1>1, <1>2, <1>6, <1>7, Zenon

\* The requests after the next one.
LEMMA FromTail ==
  ASSUME NEW script, NEW b \in Nat, NEW q \in Seq(Reqs), From(script, b, q), q # <<>>
  PROVE  Tail(q) \in Seq(Reqs) /\ Len(Tail(q)) = Len(q) - 1 /\ From(script, b + 1, Tail(q))
<1>1. PICK t : t = Tail(q)
  BY Zenon
<1>2. /\ Len(q) \in Nat /\ t \in Seq(Reqs) /\ Len(t) = Len(q) - 1
      /\ \A i \in 1..(Len(q) - 1) : t[i] = q[i + 1]
  BY <1>1
<1>3. \A i \in 1..(Len(q) - 1) : i + 1 \in 1..Len(q) /\ b + (i + 1) = (b + 1) + i
  BY <1>2
<1>4. ASSUME NEW i \in 1..(Len(q) - 1) PROVE t[i] = Req(script, (b + 1) + i)
  <2>1. t[i] = q[i + 1] /\ q[i + 1] = Req(script, b + (i + 1))
    BY <1>2, <1>3, Zenon DEF From
  <2> QED
    BY <1>3, <2>1, Zenon
<1>5. From(script, b + 1, t)
  BY <1>2, <1>4, Zenon DEF From
<1> QED
  BY <1>1, <1>2, <1>5, Zenon

\* Requests that follow in the script, one part after the other.
LEMMA FromJoin ==
  ASSUME NEW script, NEW b \in Nat, NEW q \in Seq(Reqs), NEW t \in Seq(Reqs),
         From(script, b, q), From(script, b + Len(q), t)
  PROVE  /\ q \o t \in Seq(Reqs) /\ Len(q \o t) = Len(q) + Len(t) /\ From(script, b, q \o t)
<1>1. /\ q \o t \in Seq(Reqs) /\ Len(q \o t) = Len(q) + Len(t)
      /\ \A i \in 1..(Len(q) + Len(t)) : (q \o t)[i] = IF i <= Len(q) THEN q[i] ELSE t[i - Len(q)]
  BY ConcatProperties, Zenon
<1>2. ASSUME NEW i \in 1..(Len(q) + Len(t)) PROVE (q \o t)[i] = Req(script, b + i)
  <2>1. CASE i <= Len(q)
    <3>1. i \in 1..Len(q)
      BY <2>1
    <3> QED
      BY <1>1, <2>1, <3>1, Zenon DEF From
  <2>2. CASE ~(i <= Len(q))
    <3>1. i - Len(q) \in 1..Len(t) /\ (b + Len(q)) + (i - Len(q)) = b + i
      BY <2>2
    <3>2. t[i - Len(q)] = Req(script, (b + Len(q)) + (i - Len(q)))
      BY <3>1, Zenon DEF From
    <3> QED
      BY <1>1, <2>2, <3>1, <3>2, Zenon
  <2> QED
    BY <2>1, <2>2, Zenon
<1> QED
  BY <1>1, <1>2, Zenon DEF From
-----------------------------------------------------------------------------
(* What a thread does with one connection. *)

\* A server is read-only or not.
Mode == readonly \in BOOLEAN

\* An outcome that keeps the order.
Sound(o, c) == Fits(o, c) /\ InOrder(readonly, o.conn, o.client)

\* Closing is decided, not done, here.
LEMMA ClosingSound ==
  ASSUME NEW c, NEW o, Sound(o, c)
  PROVE  Sound(Closing(o), c) /\ Closing(o).close = TRUE
<1>1. /\ Closing(o).conn = o.conn /\ Closing(o).client = o.client
      /\ Closing(o).close = TRUE
  BY Zenon DEF Closing, Sound, Fits
<1> QED
  BY <1>1, ClosingFits, Zenon DEF Sound

\* A write takes from the send queue what it gives to the client, in order
\* (client_flush_send).
LEMMA FlushSound ==
  ASSUME NEW c, NEW o, NEW reset, Sound(o, c), NEW p \in FlushSend(o, reset)
  PROVE  Sound(p, c) /\ p.conn.async = o.conn.async
<1> DEFINE queue == o.conn.send
           S(n) == SubSeq(queue, 1, n)
           T(n) == SubSeq(queue, n + 1, Len(queue))
           Sent(n) == [o EXCEPT !.conn.send = SubSeq(queue, n + 1, Len(queue)),
                                !.conn.spoiled = @ \/ (reset /\ n = Len(queue) /\ o.conn.async # Idle),
                                !.client.got = @ \o SubSeq(queue, 1, n),
                                !.client.blocked = n < Len(queue)]
<1>0. Fits(o, c) /\ InOrder(readonly, o.conn, o.client)
  BY Zenon DEF Sound
<1>1. p = o \/ p = Closing(o) \/ \E n \in 1..Len(queue) : p = Sent(n)
  BY Zenon DEF FlushSend
<1>2. Fits(p, c) /\ p.conn.async = o.conn.async
  BY <1>0, FlushFits, Zenon
<1>3. CASE p = o
  BY <1>3, Zenon
<1>4. CASE p = Closing(o)
  BY <1>2, <1>4, ClosingSound, Zenon
<1>5. ASSUME NEW n \in 1..Len(queue), p = Sent(n) PROVE Sound(p, c)
  <2>1. PICK spoiled, blocked :
          p = [o EXCEPT !.conn.send = T(n), !.conn.spoiled = spoiled,
                        !.client.got = o.client.got \o S(n), !.client.blocked = blocked]
    BY <1>5, Zenon
  <2>2. PICK s, t : s = S(n) /\ t = T(n)
    BY Zenon
  <2>3. p = [o EXCEPT !.conn.send = t, !.conn.spoiled = spoiled,
                      !.client.got = o.client.got \o s, !.client.blocked = blocked]
    BY <2>1, <2>2, Zenon
  <2>4. queue \in Seq(Items) /\ o.client.got \in Seq(Items)
    BY <1>0, Zenon DEF InOrder
  <2>5. s \in Seq(Items) /\ t \in Seq(Items) /\ s \o t = queue
    <3> HIDE DEF queue
    <3>1. s \in Seq(Items) /\ t \in Seq(Items)
      BY <2>2, <2>4
    <3>2. 1 \in 1..(Len(queue) + 1) /\ n \in (1 - 1)..Len(queue) /\ Len(queue) \in n..Len(queue)
      BY <2>4
    <3>3. s \o t = SubSeq(queue, 1, Len(queue))
      BY <2>2, <2>4, <3>2, ConcatAdjacentSubSeq, Zenon
    <3> QED
      BY <2>4, <3>1, <3>3, SubSeqFull, Zenon
  <2>6. /\ p.conn = [o.conn EXCEPT !.send = t, !.spoiled = spoiled]
        /\ p.client = [o.client EXCEPT !.got = o.client.got \o s, !.blocked = blocked]
    BY <1>0, <2>3, Zenon DEF Fits
  <2>7. /\ p.conn.recv = o.conn.recv /\ p.conn.send = t /\ p.conn.async = o.conn.async
        /\ p.conn.answered = o.conn.answered
    BY <1>0, <2>6, Zenon DEF Fits, ConnTyped
  <2>8. /\ p.client.script = o.client.script /\ p.client.sent = o.client.sent
        /\ p.client.net = o.client.net /\ p.client.got = o.client.got \o s
    BY <1>0, <2>6, Zenon DEF Fits, ClientTyped
  <2>9. \A x, y, z \in Seq(Items) : (x \o y) \o z = x \o (y \o z)
    BY ConcatAssociative
  <2>10. (o.client.got \o s) \o t = o.client.got \o queue /\ o.client.got \o s \in Seq(Items)
    <3>1. (o.client.got \o s) \o t = o.client.got \o (s \o t)
      BY <2>4, <2>5, <2>9, Zenon
    <3> QED
      BY <2>4, <2>5, <3>1, ConcatProperties, Zenon
  <2>11. Begun(p.conn) = Begun(o.conn)
    BY <2>7, Zenon DEF Begun
  <2>12. InOrder(readonly, p.conn, p.client)
    BY <1>0, <2>5, <2>7, <2>8, <2>10, <2>11, Zenon DEF InOrder
  <2> QED
    BY <1>2, <2>12, Zenon DEF Sound
<1> QED
  BY <1>1, <1>2, <1>3, <1>4, <1>5, Zenon

\* Requests are answered in the order they came (process_message).
LEMMA AnsweredSound ==
  ASSUME NEW c, NEW o, Mode, Sound(o, c), o.conn.async = Idle,
         NEW m \in 0..Len(o.conn.recv), \A i \in 1..m : o.conn.recv[i].kind # "junk"
  PROVE  LET p == Answered(o, m)
         IN  /\ Sound(p, c) /\ p.conn.async = Idle
             /\ p.conn.recv = SubSeq(o.conn.recv, m + 1, Len(o.conn.recv))
<1> DEFINE p == Answered(o, m)
           recv == o.conn.recv
           send == o.conn.send
           got == o.client.got
           script == o.client.script
           net == o.client.net
           a == o.conn.answered
           out == Out(readonly, script)
<1>0. Fits(o, c) /\ InOrder(readonly, o.conn, o.client)
  BY Zenon DEF Sound
<1>1. Fits(p, c) /\ p.conn.async = Idle /\ p.conn.recv = SubSeq(recv, m + 1, Len(recv))
  BY <1>0, AnsweredFits, Zenon
<1>2. PICK s, t, R, done :
        /\ s = SubSeq(recv, 1, m) /\ t = SubSeq(recv, m + 1, Len(recv)) /\ R = Responses(s)
        /\ p = [o EXCEPT !.conn.recv = t, !.conn.send = send \o R, !.conn.answered = a + m,
                         !.done = done]
  BY Zenon DEF Answered
<1>3. /\ p.conn.recv = t /\ p.conn.send = send \o R /\ p.conn.answered = a + m /\ p.client = o.client
  <2>1. /\ p.conn = [o.conn EXCEPT !.recv = t, !.send = send \o R, !.answered = a + m]
        /\ p.client = o.client
    BY <1>0, <1>2, Zenon DEF Fits
  <2> QED
    BY <1>0, <2>1, Zenon DEF Fits, ConnTyped
<1>4. Begun(o.conn) = a /\ Begun(p.conn) = a + m
  BY <1>1, <1>3, Zenon DEF Begun
<1>5. /\ recv \in Seq(Reqs) /\ net \in Seq(Reqs) /\ script \in Seq(Kinds) /\ o.client.sent \in Nat
  BY <1>0, Zenon DEF Fits, ConnTyped, ClientTyped
<1>6. /\ a \in Nat /\ send \in Seq(Items) /\ got \in Seq(Items)
      /\ o.client.sent <= Len(script) /\ a + Len(recv) + Len(net) = o.client.sent
      /\ From(script, a, recv) /\ From(script, a + Len(recv), net)
      /\ \A i \in 1..a : script[i] # "junk"
      /\ got \o send = out[a] \o Partial(Idle)
  BY <1>0, <1>4, Zenon DEF InOrder
<1>a. m \in 0..Len(recv)
  OBVIOUS
<1>b. Len(recv) \in Nat /\ Len(net) \in Nat /\ Len(script) \in Nat
  BY <1>5, LenProperties, Zenon
<1> HIDE DEF p, recv, send, got, script, net, a, out
<1>7. /\ s \in Seq(Reqs) /\ Len(s) = m /\ From(script, a, s) /\ \A i \in 1..m : s[i] = recv[i]
      /\ t \in Seq(Reqs) /\ Len(t) = Len(recv) - m /\ From(script, a + m, t)
  <2> DEFINE x == SubSeq(recv, 1, m)
             y == SubSeq(recv, m + 1, Len(recv))
  <2>1. /\ x \in Seq(Reqs) /\ Len(x) = m /\ From(script, a, x) /\ \A i \in 1..m : x[i] = recv[i]
        /\ y \in Seq(Reqs) /\ Len(y) = Len(recv) - m /\ From(script, a + m, y)
    BY <1>5, <1>6, <1>a, FromCut, Zenon
  <2> QED
    BY <1>2, <2>1, Zenon
<1>8. /\ m \in Nat /\ a + m \in Nat /\ a + m <= Len(script)
      /\ (a + m) + (Len(recv) - m) = a + Len(recv)
      /\ (a + m) + (Len(recv) - m) + Len(net) = o.client.sent
  BY <1>5, <1>6, <1>a, <1>b, SMTT(60)
<1>9. R \in Seq(Items) /\ out[a] \o R = out[a + m]
  <2>1. a + Len(s) <= Len(script) /\ a + Len(s) = a + m
    BY <1>7, <1>8, Zenon
  <2>2. Responses(s) \in Seq(Items) /\ out[a] \o Responses(s) = out[a + Len(s)]
    BY <1>5, <1>6, <1>7, <2>1, ResponsesFollow, Zenon DEF out, Mode
  <2> QED
    BY <1>2, <2>1, <2>2, Zenon
<1>10. out[a] \in Seq(Items) /\ out[a + m] \in Seq(Items)
  <2>1. a \in 0..Len(script) /\ a + m \in 0..Len(script)
    BY <1>5, <1>6, <1>8
  <2> QED
    BY <1>5, <2>1, OutFacts, Zenon DEF Mode, out
<1>11. Partial(Idle) = <<>>
  BY Zenon DEF Partial
<1>12. send \o R \in Seq(Items) /\ got \o (send \o R) = out[a + m] \o Partial(Idle)
  <2>1. \A x, y, z \in Seq(Items) : (x \o y) \o z = x \o (y \o z)
    BY ConcatAssociative
  <2>2. got \o (send \o R) = (got \o send) \o R
    BY <1>6, <1>9, <2>1, Zenon
  <2>3. got \o send = out[a] /\ out[a + m] \o Partial(Idle) = out[a + m]
    BY <1>6, <1>10, <1>11, ConcatEmptySeq, Zenon
  <2>4. send \o R \in Seq(Items)
    BY <1>6, <1>9, ConcatProperties, Zenon
  <2> QED
    BY <1>9, <2>2, <2>3, <2>4, Zenon
<1>13. \A i \in 1..(a + m) : script[i] # "junk"
  <2> SUFFICES ASSUME NEW i \in 1..(a + m) PROVE script[i] # "junk"
    OBVIOUS
  <2>1. CASE i <= a
    <3>1. i \in 1..a
      BY <1>6, <2>1
    <3> QED
      BY <1>6, <3>1, Zenon
  <2>2. CASE ~(i <= a)
    <3>1. i - a \in 1..m /\ a + (i - a) = i /\ i - a \in 1..Len(s)
      BY <1>6, <1>7, <1>8, <2>2
    <3>2. s[i - a] = Req(script, i) /\ s[i - a].kind # "junk"
      BY <1>7, <3>1, Zenon DEF From, recv
    <3>3. Req(script, i).kind = script[i]
      BY Zenon DEF Req
    <3> QED
      BY <3>2, <3>3, Zenon
  <2> QED
    BY <2>1, <2>2, Zenon
<1>14. InOrder(readonly, p.conn, p.client)
  <2>1. From(script, (a + m) + Len(t), net) /\ (a + m) + Len(t) + Len(net) = o.client.sent
    BY <1>6, <1>7, <1>8, Zenon
  <2> QED
    BY <1>1, <1>3, <1>4, <1>6, <1>7, <1>8, <1>12, <1>13, <2>1, Zenon DEF InOrder, p, recv, send, got, script, net, a, out
<1> QED
  BY <1>1, <1>14, Zenon DEF Sound, p, recv

\* A pull in progress is told from none.
LEMMA AsyncBusy ==
  ASSUME NEW r \in Reqs, r.kind \in {"pull", "stream"}, NEW j \in Nat
  PROVE  [req |-> r, offset |-> j, reading |-> TRUE] # Idle
<1>1. r \in [no : Nat, kind : {"pull", "stream"}]
  BY Zenon DEF Reqs
<1>2. [req |-> r, offset |-> j, reading |-> TRUE]
        \in [req : [no : Nat, kind : {"pull", "stream"}], offset : Nat, reading : BOOLEAN]
  BY <1>1, Zenon
<1> QED
  BY <1>2, ServerAssumption, Zenon

\* A pull that waits is the next request; what is streamed of it is queued
\* after the responses before it (handle_pull, handle_pull_stream).
LEMMA PullWaitsSound ==
  ASSUME NEW c, NEW o, Mode, Sound(o, c), o.conn.async = Idle,
         o.conn.recv # <<>>, o.conn.recv[1].kind \in {"pull", "stream"}, NEW j \in 0..(Chunks - 1)
  PROVE  Sound(PullWaits(o, j), c)
<1> DEFINE p == PullWaits(o, j)
           recv == o.conn.recv
           send == o.conn.send
           got == o.client.got
           script == o.client.script
           net == o.client.net
           a == o.conn.answered
           out == Out(readonly, script)
           r == Head(recv)
           waiting == [req |-> r, offset |-> j, reading |-> TRUE]
           more == IF r.kind = "stream" THEN send \o StreamStart(r, j) ELSE send
<1>0. Fits(o, c) /\ InOrder(readonly, o.conn, o.client) /\ j \in Nat
  BY ServerAssumption DEF Sound
<1>1. Fits(p, c)
  BY <1>0, PullWaitsFits, Zenon
<1>2. p = [o EXCEPT !.conn.recv = Tail(recv), !.conn.async = waiting, !.conn.send = more]
  BY Zenon DEF PullWaits
<1>3. /\ p.conn.recv = Tail(recv) /\ p.conn.send = more /\ p.conn.async = waiting
      /\ p.conn.answered = a /\ p.client = o.client
  <2> HIDE DEF p, waiting, more
  <2>1. /\ p.conn = [o.conn EXCEPT !.recv = Tail(recv), !.async = waiting, !.send = more]
        /\ p.client = o.client
    BY <1>0, <1>2, Zenon DEF Fits
  <2> QED
    BY <1>0, <2>1, Zenon DEF Fits, ConnTyped
<1>4. recv \in Seq(Reqs) /\ net \in Seq(Reqs) /\ script \in Seq(Kinds) /\ o.client.sent \in Nat
  BY <1>0, Zenon DEF Fits, ConnTyped, ClientTyped
<1>5. /\ r \in Reqs /\ r = recv[1] /\ Len(recv) >= 1 /\ Len(recv) \in Nat
  BY <1>4
<1>6. waiting # Idle /\ r.kind \in {"pull", "stream"} /\ waiting.req = r /\ waiting.offset = j
  BY <1>0, <1>5, AsyncBusy, Zenon
<1>7. Begun(o.conn) = a /\ Begun(p.conn) = a + 1
  BY <1>3, <1>6, Zenon DEF Begun
<1>8. /\ a \in Nat /\ send \in Seq(Items) /\ got \in Seq(Items)
      /\ o.client.sent <= Len(script) /\ a + Len(recv) + Len(net) = o.client.sent
      /\ From(script, a, recv) /\ From(script, a + Len(recv), net)
      /\ \A i \in 1..a : script[i] # "junk"
      /\ got \o send = out[a] \o Partial(Idle)
  BY <1>0, <1>7, Zenon DEF InOrder
<1>c. recv # <<>>
  OBVIOUS
<1> HIDE DEF p, recv, send, got, script, net, a, out, r, waiting, more
<1>9. PICK t : t = Tail(recv)
  BY Zenon
<1>10. t \in Seq(Reqs) /\ Len(t) = Len(recv) - 1 /\ From(script, a + 1, t)
  BY <1>3, <1>4, <1>8, <1>9, <1>c, FromTail, Zenon
<1>11. /\ a + 1 \in Nat /\ a + 1 <= Len(script)
       /\ (a + 1) + (Len(recv) - 1) = a + Len(recv)
       /\ (a + 1) + (Len(recv) - 1) + Len(net) = o.client.sent
  <2>1. /\ a \in Nat /\ Len(recv) \in Nat /\ Len(recv) >= 1 /\ Len(net) \in Nat
        /\ Len(script) \in Nat /\ o.client.sent <= Len(script)
        /\ a + Len(recv) + Len(net) = o.client.sent
    <3>1. Len(net) \in Nat /\ Len(script) \in Nat
      BY <1>4
    <3> QED
      BY <1>5, <1>8, <3>1, Zenon
  <2>2. PICK m \in Nat, n \in Nat, l \in Nat, s \in Nat :
          /\ m = Len(recv) /\ n = Len(net) /\ l = Len(script) /\ s = o.client.sent
          /\ m >= 1 /\ s <= l /\ a + m + n = s
    BY <1>4, <2>1, Zenon
  <2>3. a \in Nat
    BY <2>1, Zenon
  <2>4. a + 1 \in Nat /\ a + 1 <= l /\ (a + 1) + (m - 1) = a + m /\ (a + 1) + (m - 1) + n = s
    BY <2>2, <2>3
  <2> QED
    BY <2>2, <2>4, Zenon
<1>12. r = Req(script, a + 1) /\ script[a + 1] # "junk"
  <2>1. 1 \in 1..Len(recv)
    BY <1>5
  <2>2. r = Req(script, a + 1)
    BY <1>5, <1>8, <2>1, Zenon DEF From
  <2>3. r.kind = script[a + 1]
    BY <2>2, Zenon DEF Req
  <2> QED
    BY <1>6, <2>2, <2>3, Zenon
<1>13. \A i \in 1..(a + 1) : script[i] # "junk"
  <2>1. \A i \in 1..(a + 1) : i = a + 1 \/ i \in 1..a
    BY <1>8
  <2> QED
    BY <1>8, <1>12, <2>1, Zenon
<1>14. got \o send = out[a] /\ out[a] \in Seq(Items)
  <2>1. a \in 0..Len(script)
    BY <1>8, <1>11
  <2>2. out[a] \in Seq(Items) /\ Partial(Idle) = <<>>
    BY <1>4, <2>1, OutFacts, Zenon DEF Mode, out, Partial
  <2> QED
    BY <1>8, <2>2, ConcatEmptySeq, Zenon
<1>15. more \in Seq(Items) /\ got \o more = out[a] \o Partial(waiting)
  <2>1. CASE r.kind = "stream"
    <3>1. r.no \in Nat
      BY <1>5, Zenon DEF Reqs
    <3>2. PICK u : u = StreamStart(r, j) /\ u \in Seq(Items)
      <4>1. j <= j
        BY <1>0
      <4> QED
        BY <1>0, <3>1, <4>1, StreamGrows, Zenon
    <3>3. more = send \o u /\ Partial(waiting) = u
      BY <1>6, <2>1, <3>2, Zenon DEF more, Partial
    <3>4. \A x, y, z \in Seq(Items) : (x \o y) \o z = x \o (y \o z)
      BY ConcatAssociative, SMTT(60)
    <3>5. got \o (send \o u) = (got \o send) \o u /\ send \o u \in Seq(Items)
      BY <1>8, <3>2, <3>4, ConcatProperties, ZenonT(60)
    <3> QED
      BY <1>14, <3>3, <3>5, Zenon
  <2>2. CASE r.kind # "stream"
    <3>1. more = send /\ Partial(waiting) = <<>>
      BY <1>6, <2>2, Zenon DEF more, Partial
    <3> QED
      BY <1>8, <1>14, <3>1, ConcatEmptySeq, Zenon
  <2> QED
    BY <2>1, <2>2, Zenon
<1>16. InOrder(readonly, p.conn, p.client)
  <2>1. From(script, (a + 1) + Len(t), net) /\ (a + 1) + Len(t) + Len(net) = o.client.sent
    BY <1>8, <1>10, <1>11, Zenon
  <2>2. waiting.req = Req(script, a + 1)
    BY <1>6, <1>12, Zenon
  <2> QED
    BY <1>3, <1>7, <1>8, <1>9, <1>10, <1>13, <1>15, <2>1, <2>2, Zenon
       DEF InOrder, p, recv, send, got, script, net, a, out
<1> QED
  BY <1>1, <1>16, Zenon DEF Sound, p

\* process_message, as often as it can be called.
LEMMA ProcessSound ==
  ASSUME NEW c, NEW o, Mode, Sound(o, c), NEW p \in ProcessMessages(o)
  PROVE  Sound(p, c)
<1> DEFINE recv == o.conn.recv
           Clean(m) == \A i \in 1..m : recv[i].kind # "junk"
<1>0. recv \in Seq(Reqs) /\ Len(recv) \in Nat
  BY DEF Sound, Fits, ConnTyped
<1>1. CASE o.conn.async # Idle
  <2>1. p = o
    BY <1>1 DEF ProcessMessages
  <2> QED
    BY <2>1, Zenon
<1>2. CASE o.conn.async = Idle
  <2>1. \/ \E m \in 0..Len(recv) : Clean(m) /\ (p = Answered(o, m) \/ p = Closing(Answered(o, m)))
        \/ \E m \in 0..(Len(recv) - 1), j \in 0..(Chunks - 1) :
             /\ Clean(m) /\ recv[m + 1].kind \in {"pull", "stream"}
             /\ p = PullWaits(Answered(o, m), j)
    <3>1. Len(recv) \in 0..Len(recv) /\ \A m \in 0..(Len(recv) - 1) : m \in 0..Len(recv)
      BY <1>0
    <3> DEFINE S1 == {Answered(o, m) : m \in {n \in {Len(recv)} : Clean(n)}}
               S2 == {Closing(Answered(o, m)) : m \in {n \in 0..(Len(recv) - 1) :
                                                     Clean(n) /\ recv[n + 1].kind = "junk"}}
               S3 == {PullWaits(Answered(o, m), j) :
                        m \in {n \in 0..(Len(recv) - 1) :
                                 Clean(n) /\ recv[n + 1].kind \in {"pull", "stream"}},
                        j \in 0..(Chunks - 1)}
    <3>2. p \in (IF o.conn.async # Idle THEN {o} ELSE S1 \cup S2 \cup S3)
      BY DEF ProcessMessages
    <3>3. p \in S1 \/ p \in S2 \/ p \in S3
      <4> HIDE DEF S1, S2, S3
      <4> QED
        BY <1>2, <3>2
    <3> HIDE DEF Clean, recv
    <3> QED
      BY <3>1, <3>3
  <2>2. ASSUME NEW m \in 0..Len(recv), Clean(m)
        PROVE  LET q == Answered(o, m)
               IN  /\ Sound(q, c) /\ Sound(Closing(q), c) /\ q.conn.async = Idle
                   /\ q.conn.recv = SubSeq(recv, m + 1, Len(recv))
    <3>1. LET q == Answered(o, m)
          IN  /\ Sound(q, c) /\ q.conn.async = Idle
              /\ q.conn.recv = SubSeq(recv, m + 1, Len(recv))
      BY <1>2, <2>2, AnsweredSound, Zenon
    <3> QED
      BY <3>1, ClosingSound, Zenon
  <2>3. ASSUME NEW m \in 0..(Len(recv) - 1), NEW j \in 0..(Chunks - 1), Clean(m),
               recv[m + 1].kind \in {"pull", "stream"}
        PROVE  Sound(PullWaits(Answered(o, m), j), c)
    <3> DEFINE q == Answered(o, m)
    <3>1. m \in 0..Len(recv)
      BY <1>0
    <3>2. Sound(q, c) /\ q.conn.async = Idle /\ q.conn.recv = SubSeq(recv, m + 1, Len(recv))
      BY <2>2, <2>3, <3>1, Zenon
    <3>3. q.conn.recv # <<>> /\ q.conn.recv[1] = recv[m + 1]
      BY <1>0, <3>2, SuffixHead, Zenon
    <3>4. q.conn.recv[1].kind \in {"pull", "stream"}
      BY <2>3, <3>3, Zenon
    <3> HIDE DEF q
    <3>5. Sound(PullWaits(q, j), c)
      <4>1. q.conn.async = Idle /\ q.conn.recv # <<>>
        BY <3>2, <3>3, Zenon
      <4>2. Sound(q, c)
        BY <3>2, Zenon
      <4> QED
        BY <3>4, <4>1, <4>2, PullWaitsSound, Zenon
    <3> QED
      BY <3>5, Zenon DEF q
  <2> HIDE DEF Clean
  <2> QED
    BY <2>1, <2>2, <2>3, Zenon
<1> QED
  BY <1>1, <1>2, Zenon

\* What is read is appended to what was read before.
LEMMA ReadSound ==
  ASSUME NEW c, NEW o, Sound(o, c), NEW p \in ReadSocket(o)
  PROVE  Sound(p, c)
<1> DEFINE net == o.client.net
           recv == o.conn.recv
           script == o.client.script
           b == Begun(o.conn)
<1>0. Fits(o, c) /\ InOrder(readonly, o.conn, o.client)
  BY Zenon DEF Sound
<1>1. Fits(p, c)
  BY <1>0, ReadFits, Zenon
<1>2. CASE p = Closing(o)
  BY <1>2, ClosingSound, Zenon
<1>3. ASSUME NEW n \in 1..Len(net),
             p = [o EXCEPT !.conn.recv = @ \o SubSeq(net, 1, n),
                           !.client.net = SubSeq(@, n + 1, Len(@))]
      PROVE  Sound(p, c)
  <2>1. PICK x, y : x = SubSeq(net, 1, n) /\ y = SubSeq(net, n + 1, Len(net))
    BY Zenon
  <2>2. p = [o EXCEPT !.conn.recv = recv \o x, !.client.net = y]
    BY <1>3, <2>1, Zenon
  <2>3. /\ p.conn = [o.conn EXCEPT !.recv = recv \o x] /\ p.client = [o.client EXCEPT !.net = y]
    BY <1>0, <2>2, Zenon DEF Fits
  <2>4. /\ p.conn.recv = recv \o x /\ p.conn.send = o.conn.send /\ p.conn.async = o.conn.async
        /\ p.conn.answered = o.conn.answered
    BY <1>0, <2>3, Zenon DEF Fits, ConnTyped
  <2>5. /\ p.client.script = script /\ p.client.sent = o.client.sent
        /\ p.client.net = y /\ p.client.got = o.client.got
    BY <1>0, <2>3, Zenon DEF Fits, ClientTyped
  <2>6. recv \in Seq(Reqs) /\ net \in Seq(Reqs)
    BY <1>0, Zenon DEF Fits, ConnTyped, ClientTyped
  <2>7. o.conn.answered \in Nat /\ From(script, b, recv) /\ From(script, b + Len(recv), net)
        /\ b + Len(recv) + Len(net) = o.client.sent
    BY <1>0, Zenon DEF InOrder
  <2>8. b \in Nat
    BY <2>7 DEF Begun
  <2>9. Begun(p.conn) = b
    BY <2>4, Zenon DEF Begun
  <2>10. n \in 0..Len(net)
    BY <2>6
  <2> HIDE DEF net, recv, script, b
  <2>11. Len(recv) \in Nat /\ Len(net) \in Nat /\ b + Len(recv) \in Nat
    BY <2>6, <2>8
  <2>12. /\ x \in Seq(Reqs) /\ Len(x) = n /\ From(script, b + Len(recv), x)
         /\ y \in Seq(Reqs) /\ Len(y) = Len(net) - n /\ From(script, (b + Len(recv)) + n, y)
    <3> DEFINE u == SubSeq(net, 1, n)
               v == SubSeq(net, n + 1, Len(net))
    <3>1. /\ u \in Seq(Reqs) /\ Len(u) = n /\ From(script, b + Len(recv), u)
          /\ v \in Seq(Reqs) /\ Len(v) = Len(net) - n /\ From(script, (b + Len(recv)) + n, v)
      BY <2>6, <2>7, <2>10, <2>11, FromCut
    <3> QED
      BY <2>1, <3>1, Zenon
  <2>13. /\ recv \o x \in Seq(Reqs) /\ Len(recv \o x) = Len(recv) + n /\ From(script, b, recv \o x)
    BY <2>6, <2>7, <2>8, <2>12, FromJoin
  <2>14. /\ b + (Len(recv) + n) = (b + Len(recv)) + n
         /\ b + (Len(recv) + n) + (Len(net) - n) = o.client.sent
    BY <2>7, <2>8, <2>10, <2>11
  <2>15. /\ From(script, b + Len(recv \o x), y) /\ b + Len(recv \o x) + Len(y) = o.client.sent
    BY <2>12, <2>13, <2>14, Zenon
  <2>16. InOrder(readonly, p.conn, p.client)
    BY <1>0, <2>4, <2>5, <2>9, <2>13, <2>15, Zenon DEF InOrder, script, b
  <2> QED
    BY <1>1, <2>16, Zenon DEF Sound
<1> QED
  BY <1>2, <1>3, Zenon DEF ReadSocket

\* The handling of an event on a connection.
LEMMA ServeSound ==
  ASSUME NEW c \in Clients, Mode, Sound(Start(c), c), NEW read,
         NEW p \in Serve(c, read)
  PROVE  Sound(p, c)
<1>1. PICK i \in (IF read THEN ReadSocket(Start(c)) ELSE {Start(c)}) :
        \E o \in (IF i.close \/ ~read THEN {i} ELSE ProcessMessages(i)) :
          p \in (IF o.close THEN {o} ELSE FlushSend(o, TRUE))
  BY Zenon DEF Serve
<1>2. Sound(i, c)
  BY <1>1, ReadSound, Zenon
<1>3. PICK o \in (IF i.close \/ ~read THEN {i} ELSE ProcessMessages(i)) :
        p \in (IF o.close THEN {o} ELSE FlushSend(o, TRUE))
  BY <1>1, Zenon
<1>4. Sound(o, c)
  BY <1>2, <1>3, ProcessSound, Zenon
<1> QED
  BY <1>3, <1>4, FlushSound, Zenon

\* The first i chunks of the response to pull r, as far as they are sent.
Sent(r, i) == IF r.kind = "stream" THEN StreamStart(r, i) ELSE <<>>

\* With g sent and s queued, what is queued when the chunks of r up to n are
\* there continues the stream x of responses.
Continued(ro, r, i, n, s, x, g) ==
  /\ r.kind = "stream" =>
       LET m == Frames(r.no, i, n) \o <<>>
       IN  s \o m \in Seq(Items) /\ g \o (s \o m) = x \o StreamStart(r, n)
  /\ r.kind = "stream" /\ n = Chunks =>
       LET m == Frames(r.no, i, n) \o <<Item(r.no, Chunks + 1, TRUE)>>
       IN  s \o m \in Seq(Items) /\ g \o (s \o m) = x \o Reply(ro, r)
  /\ r.kind # "stream" =>
       LET m == Append(s, Item(r.no, 0, TRUE))
       IN  m \in Seq(Items) /\ g \o m = x \o Reply(ro, r)

\* Concatenation of queued chunks.
LEMMA ItemsJoin ==
  \A u, v, w \in Seq(Items) : (u \o v) \o w = u \o (v \o w)
BY ConcatAssociative, SMTT(60)

\* What is queued once more chunks of a pull are there completes what was sent
\* of its response, up to these chunks (pull_resume, stream_resume).
LEMMA MoreChunks ==
  ASSUME NEW ro \in BOOLEAN, NEW r \in Reqs, r.kind \in {"pull", "stream"}, NEW i \in Nat,
         NEW n \in Nat, i <= n, NEW s \in Seq(Items), NEW x \in Seq(Items), NEW g \in Seq(Items),
         g \o s = x \o Sent(r, i)
  PROVE  Continued(ro, r, i, n, s, x, g)
<1>1. \A u, v, w \in Seq(Items) : (u \o v) \o w = u \o (v \o w)
  BY ItemsJoin, Zenon
<1>2. \A u, v \in Seq(Items) : u \o v \in Seq(Items)
  BY ConcatProperties, Zenon
<1>3. r.no \in Nat /\ Chunks + 1 \in Nat /\ 0 \in Nat
  BY ServerAssumption DEF Reqs
<1>4. \A u \in Items : <<u>> \in Seq(Items)
  OBVIOUS
<1>5. Item(r.no, Chunks + 1, TRUE) \in Items /\ Item(r.no, 0, TRUE) \in Items
  <2>1. TRUE \in BOOLEAN
    OBVIOUS
  <2> QED
    BY <1>3, <2>1, ItemTyped, Zenon
<1>6. PICK F, A, B : /\ F = Frames(r.no, i, n) /\ A = StreamStart(r, i) /\ B = StreamStart(r, n)
                     /\ F \in Seq(Items) /\ A \in Seq(Items) /\ A \o F = B
  BY <1>3, StreamGrows, ZenonT(60)
<1>7. CASE r.kind = "stream"
  <2>1. g \o s = x \o A
    BY <1>6, <1>7, Zenon DEF Sent
  <2>2. s \o F \in Seq(Items) /\ g \o (s \o F) = x \o B
    <3>1. g \o (s \o F) = (g \o s) \o F
      BY <1>1, <1>6, ZenonT(60)
    <3>2. (x \o A) \o F = x \o (A \o F)
      BY <1>1, <1>6, ZenonT(60)
    <3> QED
      BY <1>2, <1>6, <2>1, <3>1, <3>2, Zenon
  <2>3. F \o <<>> = F
    BY <1>6, ConcatEmptySeq, Zenon
  <2>4. ASSUME n = Chunks, NEW T, T = <<Item(r.no, Chunks + 1, TRUE)>>
        PROVE  s \o (F \o T) \in Seq(Items) /\ g \o (s \o (F \o T)) = x \o Reply(ro, r)
    <3>1. T \in Seq(Items) /\ B \in Seq(Items)
      BY <1>2, <1>4, <1>5, <1>6, <2>4, Zenon
    <3>2. Reply(ro, r) = B \o T
      BY <1>6, <1>7, <2>4, PullReply, Zenon
    <3>3. (s \o F) \o T = s \o (F \o T)
      <4>1. s \in Seq(Items) /\ F \in Seq(Items) /\ T \in Seq(Items)
        BY <1>6, <3>1, Zenon
      <4> QED
        BY <4>1, ItemsJoin, ZenonT(60)
    <3>4. g \o ((s \o F) \o T) = (g \o (s \o F)) \o T
      BY <1>1, <2>2, <3>1, ZenonT(60)
    <3>5. (x \o B) \o T = x \o (B \o T)
      BY <1>1, <3>1, ZenonT(60)
    <3>6. (s \o F) \o T \in Seq(Items)
      BY <1>2, <2>2, <3>1, Zenon
    <3> QED
      BY <2>2, <3>2, <3>3, <3>4, <3>5, <3>6, Zenon
  <2> QED
    BY <1>6, <1>7, <2>2, <2>3, <2>4, Zenon DEF Continued
<1>8. CASE r.kind # "stream"
  <2>1. PICK T, m : T = <<Item(r.no, 0, TRUE)>> /\ m = Append(s, Item(r.no, 0, TRUE))
    BY Zenon
  <2>2. T \in Seq(Items) /\ m = s \o T
    BY <1>4, <1>5, <2>1, AppendIsConcat, Zenon
  <2>3. r.kind = "pull"
    BY <1>8, Zenon
  <2>4. Reply(ro, r) = T
    BY <2>1, <2>3, PullReply, Zenon
  <2>5. g \o s = x
    <3>1. g \o s = x \o <<>>
      BY <1>8, Zenon DEF Sent
    <3> QED
      BY <3>1, ConcatEmptySeq, Zenon
  <2>6. g \o (s \o T) = (g \o s) \o T /\ s \o T \in Seq(Items)
    BY <1>1, <1>2, <2>2, ZenonT(60)
  <2> QED
    BY <1>8, <2>1, <2>2, <2>4, <2>5, <2>6, Zenon DEF Continued
<1> QED
  BY <1>7, <1>8, Zenon

\* A pull goes on where it stopped, and is answered when it is complete.
LEMMA ChunksDoneSound ==
  ASSUME NEW c, NEW o, Mode, Sound(o, c), o.conn.async # Idle,
         NEW n \in (o.conn.async.offset + 1)..Chunks
  PROVE  Sound(ChunksDone(o, n), c)
<1> DEFINE p == ChunksDone(o, n)
           k == o.conn.async
           r == k.req
           send == o.conn.send
           got == o.client.got
           script == o.client.script
           a == o.conn.answered
           out == Out(readonly, script)
           next == IF n = Chunks THEN Idle ELSE [k EXCEPT !.offset = n, !.reading = TRUE]
           more == IF r.kind = "stream" THEN send \o StreamMore(k, n)
                   ELSE IF n = Chunks THEN Append(send, Item(r.no, 0, TRUE)) ELSE send
           done == IF n = Chunks THEN a + 1 ELSE a
<1>0. Fits(o, c) /\ InOrder(readonly, o.conn, o.client)
  BY Zenon DEF Sound
<1>1. Fits(p, c)
  BY <1>0, ChunksDoneFits, Zenon
<1>2. p = [o EXCEPT !.conn.send = more, !.conn.async = next, !.conn.answered = done]
  BY Zenon DEF ChunksDone
<1>3. /\ p.conn.recv = o.conn.recv /\ p.conn.send = more /\ p.conn.async = next
      /\ p.conn.answered = done /\ p.client = o.client
  <2> HIDE DEF p, more, next, done
  <2>1. /\ p.conn = [o.conn EXCEPT !.send = more, !.async = next, !.answered = done]
        /\ p.client = o.client
    BY <1>0, <1>2, Zenon DEF Fits
  <2> QED
    BY <1>0, <2>1, Zenon DEF Fits, ConnTyped
<1>4. AsyncTyped(k) /\ script \in Seq(Kinds) /\ o.client.sent \in Nat
      /\ o.conn.recv \in Seq(Reqs) /\ o.client.net \in Seq(Reqs)
  BY <1>0, Zenon DEF Fits, ConnTyped, ClientTyped
<1>5. /\ r \in Reqs /\ r.kind \in {"pull", "stream"} /\ k.offset \in 0..(Chunks - 1)
      /\ k = [req |-> r, offset |-> k.offset, reading |-> k.reading]
  BY <1>4, Zenon DEF AsyncTyped
<1>6. n \in Nat /\ k.offset \in Nat /\ k.offset <= n /\ Chunks \in Nat
  BY <1>5, ServerAssumption, SMTT(60)
<1>7. [k EXCEPT !.offset = n, !.reading = TRUE] = [req |-> r, offset |-> n, reading |-> TRUE]
  <2>1. PICK x, y, z : k = [req |-> x, offset |-> y, reading |-> z] /\ r = x
    BY <1>5, Zenon
  <2> HIDE DEF k, r
  <2>2. [k EXCEPT !.offset = n] = [req |-> x, offset |-> n, reading |-> z]
    BY <2>1
  <2>3. PICK u : u = [req |-> x, offset |-> n, reading |-> z]
    BY Zenon
  <2>4. \A t : [u EXCEPT !.reading = t] = [req |-> x, offset |-> n, reading |-> t]
    BY <2>3
  <2> QED
    BY <2>1, <2>2, <2>3, <2>4, Zenon
<1>8. /\ n # Chunks => next # Idle
      /\ next # Idle => n # Chunks /\ next.req = r /\ next.offset = n
  <2>1. [req |-> r, offset |-> n, reading |-> TRUE] # Idle
    BY <1>5, <1>6, AsyncBusy, Zenon
  <2>2. next = IF n = Chunks THEN Idle ELSE [req |-> r, offset |-> n, reading |-> TRUE]
    BY <1>7, Zenon
  <2> HIDE DEF next, r
  <2> QED
    BY <2>1, <2>2, Zenon
<1>9. Begun(o.conn) = a + 1 /\ Begun(p.conn) = a + 1
  BY <1>3, <1>8, Zenon DEF Begun
<1>10. /\ a \in Nat /\ send \in Seq(Items) /\ got \in Seq(Items)
       /\ o.client.sent <= Len(script) /\ r = Req(script, a + 1)
       /\ (a + 1) + Len(o.conn.recv) + Len(o.client.net) = o.client.sent
       /\ got \o send = out[a] \o Partial(k)
  BY <1>0, <1>9, Zenon DEF InOrder
<1> HIDE DEF p, k, r, send, got, script, a, out, next, more, done
<1>11. a \in 0..Len(script) /\ a + 1 <= Len(script)
  <2>1. PICK x, y, z : /\ x = Len(o.conn.recv) /\ y = Len(o.client.net) /\ z = Len(script)
                       /\ x \in Nat /\ y \in Nat /\ z \in Nat
    BY <1>4, LenProperties, Zenon
  <2>2. /\ a \in Nat /\ o.client.sent \in Nat
        /\ (a + 1) + x + y = o.client.sent /\ o.client.sent <= z
    BY <1>4, <1>10, <2>1, Zenon
  <2>3. a \in 0..z /\ a + 1 <= z
    <3>1. \A i, j, h, l, m \in Nat : (i + 1) + j + h = l /\ l <= m => i \in 0..m /\ i + 1 <= m
      OBVIOUS
    <3> QED
      BY <2>1, <2>2, <3>1, Zenon
  <2> QED
    BY <2>1, <2>3, Zenon
<1>12. out[a] \in Seq(Items) /\ out[a + 1] = out[a] \o Reply(readonly, r) /\ out[a + 1] \in Seq(Items)
  <2>1. a + 1 \in 0..Len(script)
    BY <1>4, <1>10, <1>11, SMTT(60)
  <2> QED
    BY <1>4, <1>10, <1>11, <2>1, OutFacts, Zenon DEF Mode, out
<1>13. got \o send = out[a] \o Sent(r, k.offset)
  BY <1>10, Zenon DEF Partial, Sent, k, r
<1>14. Continued(readonly, r, k.offset, n, send, out[a], got)
  BY <1>5, <1>6, <1>10, <1>12, <1>13, MoreChunks, Zenon DEF Mode
<1>15. more \in Seq(Items) /\ got \o more = out[done] \o Partial(next)
  <2>1. CASE n = Chunks
    <3>1. more \in Seq(Items) /\ got \o more = out[a + 1] /\ done = a + 1 /\ next = Idle
      BY <1>12, <1>14, <2>1, Zenon DEF more, done, next, StreamMore, r, Continued
    <3>2. Partial(next) = <<>>
      BY <3>1, Zenon DEF Partial
    <3> QED
      BY <1>12, <3>1, <3>2, ConcatEmptySeq, Zenon
  <2>2. CASE n # Chunks /\ r.kind = "stream"
    <3>1. more = send \o (Frames(r.no, k.offset, n) \o <<>>) /\ done = a
      BY <2>2, Zenon DEF more, done, StreamMore, r
    <3>2. Partial(next) = StreamStart(r, n)
      BY <1>8, <2>2, Zenon DEF Partial
    <3> QED
      BY <1>14, <2>2, <3>1, <3>2, Zenon DEF Continued
  <2>3. CASE n # Chunks /\ r.kind # "stream"
    <3>1. more = send /\ done = a /\ Partial(next) = <<>>
      BY <1>8, <2>3, Zenon DEF more, done, Partial
    <3> QED
      BY <1>10, <1>13, <2>3, <3>1, Zenon DEF Sent
  <2> QED
    BY <2>1, <2>2, <2>3, Zenon
<1>16. done \in Nat
  BY <1>10 DEF done
<1>17. next # Idle => next.req = Req(script, a + 1)
  BY <1>8, <1>10, Zenon
<1>18. InOrder(readonly, p.conn, p.client)
  BY <1>0, <1>3, <1>9, <1>15, <1>16, <1>17, Zenon DEF InOrder, p, script, got, out
<1> QED
  BY <1>1, <1>18, Zenon DEF Sound, p

\* client_async_resume and what the loop does after it.
LEMMA ResumeSound ==
  ASSUME NEW c \in Clients, Mode, Sound(Start(c), c), conn[c].async # Idle, NEW p \in Resume(c)
  PROVE  Sound(p, c)
<1> DEFINE a == Start(c).conn.async
           polled == IF a.reading THEN {Start(c)}
                     ELSE {ChunksDone(Start(c), n) : n \in (a.offset + 1)..Chunks}
           flushed == UNION {FlushSend(q, q.conn.async = Idle) : q \in polled}
<1>1. p \in UNION {IF f.close \/ f.conn.async # Idle THEN {f} ELSE ProcessMessages(f) : f \in flushed}
  BY Zenon DEF Resume
<1>2. PICK f \in flushed : p \in (IF f.close \/ f.conn.async # Idle THEN {f} ELSE ProcessMessages(f))
  <2> HIDE DEF flushed
  <2> QED
    BY <1>1, Zenon
<1>3. PICK q \in polled : f \in FlushSend(q, q.conn.async = Idle)
  <2> HIDE DEF polled
  <2> QED
    BY <1>2, Zenon
<1>4. a = conn[c].async
  BY Zenon DEF Start
<1>5. q = Start(c) \/ \E n \in (a.offset + 1)..Chunks : q = ChunksDone(Start(c), n)
  BY <1>3, Zenon
<1>6. Sound(q, c)
  BY <1>4, <1>5, ChunksDoneSound, Zenon
<1>7. Sound(f, c)
  BY <1>3, <1>6, FlushSound, Zenon
<1> QED
  BY <1>2, <1>7, ProcessSound, Zenon
-----------------------------------------------------------------------------
(* Prefixes of the responses. *)

\* What comes first is a prefix.
LEMMA FirstPart ==
  ASSUME NEW s \in Seq(Items), NEW t \in Seq(Items)
  PROVE  IsPrefix(s, s \o t)
<1>1. PICK u : u = s \o t /\ u \in Seq(Items) /\ Len(u) = Len(s) + Len(t)
               /\ \A i \in 1..Len(s) : u[i] = s[i]
  <2>1. /\ s \o t \in Seq(Items) /\ Len(s \o t) = Len(s) + Len(t)
        /\ \A i \in 1..Len(s) : (s \o t)[i] = s[i]
    OBVIOUS
  <2> QED
    BY <2>1, Zenon
<1>2. Len(s) <= Len(u) /\ Len(s) \in Nat
  BY <1>1
<1>3. PICK v : v = SubSeq(u, 1, Len(s))
  BY Zenon
<1>4. v \in Seq(Items) /\ Len(v) = Len(s) /\ \A i \in 1..Len(s) : v[i] = u[i]
  BY <1>1, <1>2, <1>3
<1>5. s = v
  BY <1>1, <1>4, SeqEqual, Zenon
<1> QED
  BY <1>1, <1>2, <1>3, <1>5, Zenon DEF IsPrefix

\* The responses in progress are a part of those to the requests begun.
LEMMA InOrderPrefix ==
  ASSUME NEW ro \in BOOLEAN, NEW k, NEW s, ConnTyped(k), ClientTyped(s), InOrder(ro, k, s)
  PROVE  \E n \in 0..Len(s.script) :
           /\ \A i \in 1..n : s.script[i] # "junk"
           /\ IsPrefix(s.got, Out(ro, s.script)[n])
           /\ IsPrefix(s.got \o k.send, Out(ro, s.script)[n])
<1> DEFINE script == s.script
           out == Out(ro, script)
           a == k.answered
           b == Begun(k)
           r == k.async.req
<1>1. /\ script \in Seq(Kinds) /\ s.sent \in Nat /\ k.recv \in Seq(Reqs) /\ s.net \in Seq(Reqs)
      /\ k.async # Idle => AsyncTyped(k.async)
  BY Zenon DEF ConnTyped, ClientTyped
<1>2. /\ a \in Nat /\ k.send \in Seq(Items) /\ s.got \in Seq(Items) /\ s.sent <= Len(script)
      /\ b + Len(k.recv) + Len(s.net) = s.sent /\ \A i \in 1..b : script[i] # "junk"
      /\ k.async # Idle => r = Req(script, b)
      /\ s.got \o k.send = out[a] \o Partial(k.async)
  BY Zenon DEF InOrder
<1>3. b \in Nat /\ (k.async = Idle => b = a) /\ (k.async # Idle => b = a + 1)
  BY <1>2, SMTT(60) DEF Begun
<1>4. b \in 0..Len(script) /\ a \in 0..Len(script)
  <2>1. \A i, j, h, l, m \in Nat : i + j + h = l /\ l <= m => i \in 0..m
    OBVIOUS
  <2>2. Len(k.recv) \in Nat /\ Len(s.net) \in Nat /\ Len(script) \in Nat
    BY <1>1, LenProperties, Zenon
  <2>3. b \in 0..Len(script)
    BY <1>1, <1>2, <1>3, <2>1, <2>2, Zenon
  <2>4. \A m \in Nat : \A i \in Nat : i + 1 \in 0..m => i \in 0..m
    OBVIOUS
  <2> QED
    BY <1>2, <1>3, <2>2, <2>3, <2>4, Zenon
<1> HIDE DEF script, out, a, b, r
<1>5. out[a] \in Seq(Items) /\ out[b] \in Seq(Items)
  BY <1>1, <1>4, OutFacts, Zenon DEF out
<1>6. PICK gs : gs = s.got \o k.send /\ gs \in Seq(Items)
  BY <1>2, ConcatProperties, Zenon
<1>7. \E rest \in Seq(Items) : out[b] = gs \o rest
  <2>1. CASE k.async = Idle
    <3>0. <<>> \in Seq(Items)
      OBVIOUS
    <3>1. Partial(k.async) = <<>>
      BY <2>1, Zenon DEF Partial
    <3>2. gs = out[b]
      BY <1>2, <1>3, <1>5, <1>6, <2>1, <3>1, ConcatEmptySeq, Zenon
    <3>3. out[b] = gs \o <<>>
      BY <1>6, <3>2, ConcatEmptySeq, Zenon
    <3> QED
      BY <3>0, <3>3, Zenon
  <2>2. CASE k.async # Idle
    <3>1. AsyncTyped(k.async) /\ b = a + 1 /\ r = Req(script, a + 1)
      BY <1>1, <1>2, <1>3, <2>2, Zenon
    <3>2. r \in Reqs /\ r.kind \in {"pull", "stream"} /\ k.async.offset \in 0..(Chunks - 1)
      BY <3>1, Zenon DEF AsyncTyped, r
    <3>3. out[b] = out[a] \o Reply(ro, r)
      <4>1. a + 1 <= Len(script) /\ a \in Nat
        BY <1>1, <1>2, <1>4, <3>1
      <4> QED
        BY <1>1, <3>1, <4>1, OutFacts, Zenon DEF out
    <3>4. Reply(ro, r) \in Seq(Items)
      BY <3>2, PullReply, Zenon
    <3>5. CASE r.kind # "stream"
      <4>1. Partial(k.async) = <<>>
        BY <3>5, Zenon DEF Partial, r
      <4>2. gs = out[a]
        BY <1>2, <1>5, <1>6, <4>1, ConcatEmptySeq, Zenon
      <4> QED
        BY <3>3, <3>4, <4>2, Zenon
    <3>6. CASE r.kind = "stream"
      <4>1. PICK i, A : i = k.async.offset /\ A = StreamStart(r, i)
        OBVIOUS
      <4>2. i \in Nat /\ Chunks \in Nat /\ i <= Chunks /\ r.no \in Nat /\ Chunks + 1 \in Nat
        BY <3>2, <4>1, ServerAssumption DEF Reqs
      <4>3. PICK F, B : /\ F = Frames(r.no, i, Chunks) /\ B = StreamStart(r, Chunks)
                        /\ F \in Seq(Items) /\ A \in Seq(Items) /\ A \o F = B
        <5>1. /\ StreamStart(r, i) \in Seq(Items) /\ Frames(r.no, i, Chunks) \in Seq(Items)
              /\ StreamStart(r, i) \o Frames(r.no, i, Chunks) = StreamStart(r, Chunks)
          BY <4>2, StreamGrows, Zenon
        <5> QED
          BY <4>1, <5>1, Zenon
      <4>4. PICK T : T = <<Item(r.no, Chunks + 1, TRUE)>> /\ T \in Seq(Items)
        <5>1. \A u \in Items : <<u>> \in Seq(Items)
          OBVIOUS
        <5>2. TRUE \in BOOLEAN
          OBVIOUS
        <5>3. Item(r.no, Chunks + 1, TRUE) \in Items
          BY <4>2, <5>2, ItemTyped, Zenon
        <5> QED
          BY <5>1, <5>3, Zenon
      <4>5. Reply(ro, r) = B \o T
        BY <3>2, <3>6, <4>3, <4>4, PullReply, Zenon
      <4>6. gs = out[a] \o A
        <5>1. Partial(k.async) = A
          BY <2>2, <3>6, <4>1, Zenon DEF Partial, r
        <5> QED
          BY <1>2, <1>6, <5>1, Zenon
      <4>7. (A \o F) \o T = A \o (F \o T) /\ F \o T \in Seq(Items)
        BY <4>3, <4>4, ItemsJoin, ConcatProperties, ZenonT(60)
      <4>8. (out[a] \o A) \o (F \o T) = out[a] \o (A \o (F \o T))
        <5>1. PICK x, y : x = out[a] /\ y = F \o T /\ x \in Seq(Items) /\ y \in Seq(Items)
          BY <1>5, <4>7, Zenon
        <5>2. A \in Seq(Items)
          BY <4>3, Zenon
        <5>3. (x \o A) \o y = x \o (A \o y)
          BY <5>1, <5>2, ItemsJoin, ZenonT(60)
        <5> QED
          BY <5>1, <5>3, Zenon
      <4>9. out[b] = gs \o (F \o T)
        BY <3>3, <4>3, <4>5, <4>6, <4>7, <4>8, Zenon
      <4> QED
        BY <4>7, <4>9, Zenon
    <3> QED
      BY <3>5, <3>6, Zenon
  <2> QED
    BY <2>1, <2>2, Zenon
<1>8. PICK rest \in Seq(Items) : out[b] = gs \o rest
  BY <1>7, Zenon
<1>9. IsPrefix(gs, out[b])
  BY <1>6, <1>8, FirstPart, Zenon
<1>10. IsPrefix(s.got, out[b])
  <2>1. (s.got \o k.send) \o rest = s.got \o (k.send \o rest) /\ k.send \o rest \in Seq(Items)
    BY <1>2, <1>8, ItemsJoin, ConcatProperties, Zenon
  <2>2. out[b] = s.got \o (k.send \o rest)
    BY <1>6, <1>8, <2>1, Zenon
  <2> QED
    BY <1>2, <2>1, <2>2, FirstPart, Zenon
<1> QED
  BY <1>2, <1>4, <1>6, <1>9, <1>10, Zenon DEF out, script
-----------------------------------------------------------------------------
(* One connection in a step. *)

\* The stream of a client's side: what it sent and received.
SameSide(s, t) ==
  t.script = s.script /\ t.sent = s.sent /\ t.net = s.net /\ t.got = s.got

\* The order does not depend on the rest of a connection and its client.
LEMMA SameStream ==
  ASSUME NEW ro, NEW k, NEW m, NEW s, NEW t, InOrder(ro, k, s), SameSide(s, t),
         m.recv = k.recv /\ m.send = k.send /\ m.answered = k.answered /\ m.async = k.async
  PROVE  InOrder(ro, m, t)
<1>1. Begun(m) = Begun(k)
  BY Zenon DEF Begun
<1> QED
  BY <1>1, Zenon DEF InOrder, SameSide

\* A connection as client_init leaves it, and as client_close leaves it.
LEMMA NoConnFields ==
  ASSUME NEW st
  PROVE  /\ NoConn(st).state = st /\ NoConn(st).recv = <<>> /\ NoConn(st).send = <<>>
         /\ NoConn(st).answered = 0 /\ NoConn(st).async = Idle
BY Zenon DEF NoConn

\* A connection that is not touched, whatever else its client does.
LEMMA UntouchedOrdered ==
  ASSUME NEW ro, NEW k, NEW s, NEW t, Ordered(ro, k, s), SameSide(s, t)
  PROVE  Ordered(ro, k, t)
<1>1. k.state # "closed" => InOrder(ro, k, t)
  BY SameStream, Zenon DEF Ordered
<1>2. Delivered(ro, s) => Delivered(ro, t)
  BY Zenon DEF Delivered, SameSide
<1> QED
  BY <1>1, <1>2, Zenon DEF Ordered

\* A connection is queued or accepted as it came.
LEMMA FreshOrdered ==
  ASSUME NEW ro, NEW k, NEW s, NEW t, NEW st \in {"backlog", "piped", "open"}, Ordered(ro, k, s),
         k.state \in {"away", "backlog", "piped"}, SameSide(s, t)
  PROVE  Ordered(ro, NoConn(st), t)
<1>1. k.state # "closed" /\ st # "closed"
  OBVIOUS
<1>2. k = NoConn(k.state) /\ InOrder(ro, k, s)
  BY <1>1, Zenon DEF Ordered
<1>3. k.recv = <<>> /\ k.send = <<>> /\ k.answered = 0 /\ k.async = Idle
  BY <1>2, NoConnFields, ZenonT(60)
<1>4. InOrder(ro, NoConn(st), t)
  BY <1>2, <1>3, NoConnFields, SameStream, Zenon
<1> QED
  BY <1>1, <1>4, NoConnFields, Zenon DEF Ordered

\* A connection is closed, with what was sent of the responses.
LEMMA ClosedOrdered ==
  ASSUME NEW ro \in BOOLEAN, NEW k, NEW s, NEW t, ConnTyped(k), ClientTyped(s), InOrder(ro, k, s),
         SameSide(s, t)
  PROVE  Ordered(ro, NoConn("closed"), t)
<1>1. PICK n \in 0..Len(s.script) :
        (\A i \in 1..n : s.script[i] # "junk") /\ IsPrefix(s.got, Out(ro, s.script)[n])
  BY InOrderPrefix, Zenon
<1>2. s.got \in Seq(Items)
  BY Zenon DEF InOrder
<1>3. Delivered(ro, t)
  BY <1>1, <1>2, Zenon DEF Delivered, SameSide
<1>4. "closed" \notin {"away", "backlog", "piped"}
  OBVIOUS
<1> QED
  BY <1>3, <1>4, NoConnFields, Zenon DEF Ordered

\* The side of a client is the same if it is not touched.
LEMMA SideKept == \A s : SameSide(s, s)
BY Zenon DEF SameSide

\* A step that treats one connection keeps the order of the others.
LEMMA OneOrdered ==
  ASSUME OrderInv, readonly' = readonly, NEW c \in Clients,
         \A d \in Clients : d # c => conn'[d] = conn[d] /\ client'[d] = client[d],
         Ordered(readonly, conn'[c], client'[c])
  PROVE  OrderInv'
<1>1. ASSUME NEW d \in Clients PROVE Ordered(readonly', conn'[d], client'[d])
  <2>1. CASE d = c
    BY <2>1, Zenon
  <2>2. CASE d # c
    BY <2>2, Zenon DEF OrderInv
  <2> QED
    BY <2>1, <2>2, Zenon
<1> QED
  BY <1>1, Zenon DEF OrderInv

\* Nothing changes for any connection.
LEMMA NoneOrdered ==
  ASSUME OrderInv, readonly' = readonly, conn' = conn, client' = client
  PROVE  OrderInv'
BY Zenon DEF OrderInv
-----------------------------------------------------------------------------
(* The steps. *)

\* The outcome for an open connection is that of its thread (Settle).
LEMMA SettleOrdered ==
  ASSUME ServerInv, OrderInv, NEW c \in Clients, NEW o, Sound(o, c), Settle(c, o),
         readonly' = readonly
  PROVE  OrderInv'
<1>1. Mode /\ DOMAIN conn = Clients /\ DOMAIN client = Clients
  BY Zenon DEF ServerInv, Typed, Conns, Mode
<1>2. /\ \A d \in Clients : d # c => conn'[d] = conn[d] /\ client'[d] = client[d]
      /\ conn'[c] = (IF o.close THEN NoConn("closed") ELSE o.conn) /\ client'[c] = o.client
  BY <1>1, Zenon DEF Settle
<1>3. /\ ConnTyped(o.conn) /\ ClientTyped(o.client) /\ o.conn.state = "open"
      /\ InOrder(readonly, o.conn, o.client)
  BY Zenon DEF Sound, Fits
<1>4. CASE o.close
  <2>1. Ordered(readonly, NoConn("closed"), o.client)
    BY <1>1, <1>3, ClosedOrdered, SideKept, Zenon DEF Mode
  <2> QED
    BY <1>2, <1>4, <2>1, OneOrdered, Zenon
<1>5. CASE ~o.close
  <2>1. "open" \notin {"away", "backlog", "piped"} /\ "open" # "closed"
    OBVIOUS
  <2>2. Ordered(readonly, o.conn, o.client)
    BY <1>3, <2>1, Zenon DEF Ordered
  <2> QED
    BY <1>2, <1>5, <2>2, OneOrdered, Zenon
<1> QED
  BY <1>4, <1>5, Zenon

\* A thread starts from a connection in order.
LEMMA StartSound ==
  ASSUME ServerInv, OrderInv, NEW c \in Clients, Open(c)
  PROVE  Sound(Start(c), c) /\ Mode
<1>1. Conns /\ Mode /\ conn[c].state = "open"
  BY Zenon DEF ServerInv, Typed, Mode, Open
<1>2. Start(c).conn = conn[c] /\ Start(c).client = client[c] /\ "open" # "closed"
  BY Zenon DEF Start
<1>3. InOrder(readonly, conn[c], client[c])
  BY <1>1, <1>2, Zenon DEF OrderInv, Ordered
<1> QED
  BY <1>1, <1>2, <1>3, StartFits, Zenon DEF Sound

\* A waiting pull is resumed, or an event on a connection is handled.
LEMMA HandleOrdered ==
  ASSUME ServerInv, OrderInv, NEW l \in Threads, ResumeConn(l) \/ ServeConn(l)
  PROVE  OrderInv'
<1>1. l \in AllThreads /\ Round(l)
  BY Zenon DEF ServerInv, Threads, AllThreads
<1>2. readonly' = readonly
  BY Zenon DEF ResumeConn, ServeConn, config
<1>3. CASE ResumeConn(l)
  <2>1. PICK c \in todo[l] : \E o \in Resume(c) : Settle(c, o)
    BY <1>3, Zenon DEF ResumeConn
  <2>2. PICK o \in Resume(c) : Settle(c, o)
    BY <2>1, Zenon
  <2>3. c \in Clients /\ Open(c) /\ conn[c].async # Idle
    BY <1>1, Zenon DEF Round, OpenAt
  <2>4. Sound(Start(c), c) /\ Mode
    BY <2>3, StartSound, Zenon
  <2>5. Sound(o, c)
    BY <2>2, <2>3, <2>4, ResumeSound, Zenon
  <2> QED
    BY <1>2, <2>2, <2>3, <2>5, SettleOrdered, Zenon
<1>4. CASE ServeConn(l)
  <2>1. PICK e \in events[l] : e[1] # Listen /\ \E o \in Serve(e[1], e[2]) : Settle(e[1], o)
    BY <1>4, Zenon DEF ServeConn
  <2>2. PICK o \in Serve(e[1], e[2]) : Settle(e[1], o)
    BY <2>1, Zenon
  <2>3. e[1] \in Clients /\ Open(e[1])
    BY <1>1, <2>1, Zenon DEF Round, OpenAt
  <2>4. Sound(Start(e[1]), e[1]) /\ Mode
    BY <2>3, StartSound, Zenon
  <2>5. Sound(o, e[1])
    BY <2>2, <2>3, <2>4, ServeSound, Zenon
  <2> QED
    BY <1>2, <2>2, <2>3, <2>5, SettleOrdered, Zenon
<1> QED
  BY <1>3, <1>4, Zenon

\* Connections are accepted, or closed for want of a slot (Admit).
LEMMA AdmitOrdered ==
  ASSUME ServerInv, OrderInv, NEW l, NEW cs, Admit(l, cs), readonly' = readonly,
         \A c \in Range(cs) : conn[c].state \in {"backlog", "piped"}
  PROVE  OrderInv'
<1>1. ASSUME NEW c \in Clients PROVE Ordered(readonly, conn'[c], client'[c])
  <2>1. /\ readonly \in BOOLEAN /\ ConnTyped(conn[c]) /\ ClientTyped(client[c])
        /\ Ordered(readonly, conn[c], client[c])
    BY Zenon DEF ServerInv, Typed, Conns, OrderInv
  <2>2. CASE c \notin Range(cs)
    <3>1. conn'[c] = conn[c] /\ client'[c] = client[c]
      BY <2>2, Zenon DEF Admit
    <3> QED
      BY <2>1, <3>1, Zenon
  <2>3. CASE c \in Range(cs)
    <3>1. conn'[c] \in {NoConn("open"), NoConn("closed")} /\ client'[c] = [client[c] EXCEPT !.thread = l]
      BY <2>3, Zenon DEF Admit
    <3>2. SameSide(client[c], client'[c])
      BY <2>1, <3>1, Zenon DEF ClientTyped, SameSide
    <3>3. conn[c].state \in {"backlog", "piped"} /\ "closed" \notin {"backlog", "piped"}
      BY <2>3, ZenonT(60)
    <3>4. InOrder(readonly, conn[c], client[c])
      BY <2>1, <3>3, Zenon DEF Ordered
    <3>5. Ordered(readonly, NoConn("closed"), client'[c])
      BY <2>1, <3>2, <3>4, ClosedOrdered, Zenon
    <3>6. Ordered(readonly, NoConn("open"), client'[c])
      <4>1. conn[c].state \in {"away", "backlog", "piped"} /\ "open" \in {"backlog", "piped", "open"}
        BY <3>3, Zenon
      <4> QED
        BY <2>1, <3>2, <4>1, FreshOrdered, Zenon
    <3> QED
      BY <3>1, <3>5, <3>6, Zenon
  <2> QED
    BY <2>2, <2>3, Zenon
<1> QED
  BY <1>1, Zenon DEF OrderInv

\* server_loop accepts a connection; a worker takes those in its pipe.
LEMMA AcceptOrdered ==
  ASSUME ServerInv, OrderInv, NEW l \in Threads,
         (l = Main /\ AcceptConn) \/ (l # Main /\ NotifyConns(l))
  PROVE  OrderInv'
<1>1. Typed /\ Queues /\ Round(l)
  BY Zenon DEF ServerInv, Threads, AllThreads
<1>2. CASE l = Main /\ AcceptConn
  <2> DEFINE e == <<Listen, TRUE>>
             c == Head(backlog)
  <2>1. e \in events[Main] /\ Admit(Main, <<c>>) /\ readonly' = readonly
    BY <1>2, Zenon DEF AcceptConn, Take, config
  <2>2. backlog # <<>> /\ backlog \in Seq(Clients)
    <3>1. e[1] = Listen
      BY Pairs, Zenon
    <3> QED
      BY <1>1, <1>2, <2>1, <3>1, Zenon DEF Round, Typed
  <2>3. c = backlog[1] /\ 1 \in 1..Len(backlog) /\ DOMAIN <<c>> = {1} /\ <<c>>[1] = c
    BY <2>2
  <2>4. conn[c].state = "backlog"
    BY <1>1, <2>3, Zenon DEF Queues
  <2> HIDE DEF c
  <2>5. \A d \in Range(<<c>>) : conn[d].state \in {"backlog", "piped"}
    BY <2>3, <2>4, Zenon DEF Range
  <2> QED
    BY <2>1, <2>5, AdmitOrdered, Zenon
<1>3. CASE l # Main /\ NotifyConns(l)
  <2>1. l \in Workers /\ Admit(l, pipe[l]) /\ readonly' = readonly
    BY <1>3, Zenon DEF NotifyConns, config, Threads
  <2>2. pipe[l] \in Seq(Clients)
    BY <1>1, <2>1, Zenon DEF Typed
  <2>3. DOMAIN pipe[l] = 1..Len(pipe[l])
    BY <2>2
  <2>4. \A d \in Range(pipe[l]) : conn[d].state \in {"backlog", "piped"}
    <3>1. \A i \in 1..Len(pipe[l]) : conn[pipe[l][i]].state = "piped"
      BY <1>1, <2>1, Zenon DEF Queues
    <3>2. PICK cs : cs = pipe[l]
      OBVIOUS
    <3>3. \A d \in Range(cs) : conn[d].state = "piped"
      BY <2>3, <3>1, <3>2, Zenon DEF Range
    <3> QED
      BY <3>2, <3>3, Zenon
  <2> QED
    BY <2>1, <2>4, AdmitOrdered, Zenon
<1> QED
  BY <1>2, <1>3, Zenon

\* A client connects, or its connection is handed to a worker, or closed because
\* the worker has exited.
LEMMA QueuedOrdered ==
  ASSUME ServerInv, OrderInv, (readonly /\ Distribute) \/ \E c \in Clients : Connect(c)
  PROVE  OrderInv'
<1>1. DOMAIN conn = Clients /\ Typed /\ Queues /\ \A s : SameSide(s, s)
  BY SideKept, Zenon DEF ServerInv, Conns
<1>2. PICK c \in Clients, st \in {"backlog", "piped", "closed"} :
        /\ conn[c].state \in {"away", "backlog", "piped"}
        /\ conn' = [conn EXCEPT ![c] = NoConn(st)] /\ client' = client /\ readonly' = readonly
  <2>1. CASE readonly /\ Distribute
    <3>0. Main \notin Threads /\ Round(Main)
      BY <2>1, ServerAssumption, Zenon DEF ServerInv, Threads, AllThreads
    <3>1. /\ backlog # <<>> /\ client' = client /\ readonly' = readonly
          /\ \/ conn' = [conn EXCEPT ![Head(backlog)] = NoConn("piped")]
             \/ conn' = [conn EXCEPT ![Head(backlog)] = NoConn("closed")]
      BY <2>1, <3>0, Zenon DEF Distribute, config, Round
    <3>2. Head(backlog) \in Clients /\ Head(backlog) = backlog[1] /\ 1 \in 1..Len(backlog)
      BY <1>1, <3>1 DEF Typed
    <3>3. conn[Head(backlog)].state = "backlog"
      BY <1>1, <3>2, Zenon DEF Queues
    <3>4. /\ "piped" \in {"backlog", "piped", "closed"} /\ "closed" \in {"backlog", "piped", "closed"}
          /\ "backlog" \in {"away", "backlog", "piped"}
      OBVIOUS
    <3> QED
      BY <3>1, <3>2, <3>3, <3>4, Zenon
  <2>2. ASSUME NEW c \in Clients, Connect(c)
        PROVE  /\ conn[c].state = "away" /\ conn' = [conn EXCEPT ![c] = NoConn("backlog")]
               /\ client' = client /\ readonly' = readonly
    BY <2>2, Zenon DEF Connect, config
  <2>3. "backlog" \in {"backlog", "piped", "closed"} /\ "away" \in {"away", "backlog", "piped"}
    OBVIOUS
  <2> QED
    BY <2>1, <2>2, <2>3, Zenon
<1>3. conn'[c] = NoConn(st) /\ \A d \in Clients : d # c => conn'[d] = conn[d]
  BY <1>1, <1>2, Zenon
<1>4. Ordered(readonly, NoConn(st), client[c])
  <2>1. /\ Ordered(readonly, conn[c], client[c]) /\ readonly \in BOOLEAN
        /\ ConnTyped(conn[c]) /\ ClientTyped(client[c])
    BY Zenon DEF OrderInv, ServerInv, Typed, Conns
  <2>2. CASE st \in {"backlog", "piped"}
    BY <1>1, <1>2, <2>1, <2>2, FreshOrdered, Zenon
  <2>3. CASE st = "closed"
    <3>1. conn[c].state # "closed"
      BY <1>2, Zenon
    <3>2. InOrder(readonly, conn[c], client[c])
      BY <2>1, <3>1, Zenon DEF Ordered
    <3> QED
      BY <2>1, <2>3, <3>2, SideKept, ClosedOrdered, Zenon
  <2> QED
    BY <1>2, <2>2, <2>3, Zenon
<1> QED
  BY <1>2, <1>3, <1>4, OneOrdered, Zenon

\* A worker closes its connections; server_loop's and those in the backlog are
\* closed at the end (Exit, Stopped).
LEMMA EndOrdered ==
  ASSUME ServerInv, OrderInv, Stopped \/ \E l \in Threads \cup {Main} : Exit(l)
  PROVE  OrderInv'
<1>1. Typed /\ Queues
  BY Zenon DEF ServerInv
<1>2. readonly' = readonly /\ client' = client
  BY Zenon DEF Stopped, Exit, config
<1>3. ASSUME NEW c \in Clients
      PROVE  \/ conn'[c] = conn[c]
             \/ conn'[c] = NoConn("closed") /\ conn[c].state \in {"open", "backlog"}
  <2>1. ASSUME NEW l, c \in OpenAt(l) PROVE conn[c].state = "open"
    BY <2>1, Zenon DEF OpenAt, Open
  <2>2. ASSUME c \in Range(backlog) PROVE conn[c].state = "backlog"
    <3>1. DOMAIN backlog = 1..Len(backlog)
      BY <1>1 DEF Typed
    <3> QED
      BY <1>1, <2>2, <3>1, Zenon DEF Queues, Range
  <2>3. CASE Stopped
    BY <2>1, <2>2, <2>3, Zenon DEF Stopped
  <2>4. ASSUME NEW l \in Threads \cup {Main}, Exit(l)
        PROVE  \/ conn'[c] = conn[c]
               \/ conn'[c] = NoConn("closed") /\ conn[c].state = "open"
    BY <2>1, <2>4, Zenon DEF Exit
  <2> QED
    BY <2>3, <2>4, Zenon
<1>4. ASSUME NEW c \in Clients PROVE Ordered(readonly, conn'[c], client[c])
  <2>1. /\ readonly \in BOOLEAN /\ ConnTyped(conn[c]) /\ ClientTyped(client[c])
        /\ Ordered(readonly, conn[c], client[c])
    BY Zenon DEF ServerInv, Typed, Conns, OrderInv
  <2>2. ASSUME conn[c].state \in {"open", "backlog"} PROVE Ordered(readonly, NoConn("closed"), client[c])
    <3>1. conn[c].state # "closed"
      BY <2>2, Zenon
    <3>2. InOrder(readonly, conn[c], client[c])
      BY <2>1, <3>1, Zenon DEF Ordered
    <3> QED
      BY <2>1, <3>2, SideKept, ClosedOrdered, Zenon
  <2> QED
    BY <1>3, <2>1, <2>2, Zenon
<1> QED
  BY <1>2, <1>4, Zenon DEF OrderInv

\* A client pipelines its next request, hangs up, or reads.
LEMMA ClientOrdered ==
  ASSUME ServerInv, OrderInv, NEW c \in Clients, Send(c) \/ HangUp(c) \/ Drain(c)
  PROVE  OrderInv'
<1> DEFINE s == client[c]
           t == client'[c]
           k == conn[c]
<1>1. /\ readonly' = readonly /\ conn' = conn /\ DOMAIN client = Clients
      /\ ClientTyped(s) /\ ConnTyped(k) /\ Ordered(readonly, k, s)
  BY Zenon DEF Send, HangUp, Drain, config, ServerInv, Conns, OrderInv
<1>2. \A d \in Clients : d # c => client'[d] = client[d]
  BY <1>1, Zenon DEF Send, HangUp, Drain
<1>3. CASE HangUp(c) \/ Drain(c)
  <2>1. \/ t = [s EXCEPT !.here = FALSE]
        \/ t = [s EXCEPT !.blocked = FALSE]
    BY <1>1, <1>3, Zenon DEF HangUp, Drain
  <2>2. SameSide(s, t)
    BY <1>1, <2>1, Zenon DEF ClientTyped, SameSide
  <2>3. Ordered(readonly, k, t)
    BY <1>1, <2>2, UntouchedOrdered, Zenon
  <2> QED
    BY <1>1, <1>2, <2>3, OneOrdered, Zenon
<1>4. CASE Send(c)
  <2>1. /\ k.state \in {"backlog", "piped", "open"} /\ s.sent < Len(s.script)
        /\ t = [s EXCEPT !.sent = s.sent + 1, !.net = Append(s.net, Req(s.script, s.sent + 1))]
    BY <1>1, <1>4, Zenon DEF Send, Request, Req
  <2>2. /\ t.script = s.script /\ t.sent = s.sent + 1 /\ t.got = s.got
        /\ t.net = Append(s.net, Req(s.script, s.sent + 1))
    BY <1>1, <2>1, Zenon DEF ClientTyped
  <2>3. k.state # "closed"
    BY <2>1, Zenon
  <2>4. InOrder(readonly, k, s)
    BY <1>1, <2>3, Zenon DEF Ordered
  <2>5. /\ k.recv \in Seq(Reqs) /\ s.net \in Seq(Reqs) /\ s.sent \in Nat /\ s.script \in Seq(Kinds)
    BY <1>1, Zenon DEF ConnTyped, ClientTyped
  <2>6. /\ k.answered \in Nat /\ Begun(k) + Len(k.recv) + Len(s.net) = s.sent
        /\ From(s.script, Begun(k) + Len(k.recv), s.net)
    BY <2>4, Zenon DEF InOrder
  <2>7. Begun(k) \in Nat
    BY <2>6 DEF Begun
  <2>8. PICK b, x, n, net, u, more : /\ b = Begun(k) + Len(k.recv) /\ x = Len(s.net) /\ n = s.sent
                                     /\ net = s.net /\ u = Req(s.script, s.sent + 1)
                                     /\ more = Append(net, u)
    BY Zenon
  <2>9. b \in Nat /\ x \in Nat /\ n \in Nat /\ b + x = n /\ net \in Seq(Reqs) /\ x = Len(net)
    <3>1. Len(k.recv) \in Nat /\ Len(s.net) \in Nat
      BY <2>5, LenProperties, Zenon
    <3>2. \A i, j \in Nat : i + j \in Nat
      OBVIOUS
    <3> QED
      BY <2>5, <2>6, <2>7, <2>8, <3>1, <3>2, Zenon
  <2> HIDE DEF s, t, k
  <2>10. u \in Reqs
    <3>1. n + 1 \in 1..Len(s.script)
      BY <2>1, <2>5, <2>8, <2>9, SMTT(60)
    <3>2. readonly \in BOOLEAN
      BY Zenon DEF ServerInv, Typed
    <3> QED
      BY <2>5, <2>8, <3>1, <3>2, OutFacts, Zenon
  <2>11. /\ more \in Seq(Reqs) /\ Len(more) = x + 1 /\ more[x + 1] = u
         /\ \A i \in 1..x : more[i] = net[i]
    <3>1. /\ Append(net, u) \in Seq(Reqs) /\ Len(Append(net, u)) = Len(net) + 1
          /\ Append(net, u)[Len(net) + 1] = u
          /\ \A i \in 1..Len(net) : Append(net, u)[i] = net[i]
      <4>1. net \in Seq(Reqs) /\ u \in Reqs
        BY <2>9, <2>10, Zenon
      <4> QED
        BY <4>1, AppendProperties
    <3> QED
      BY <2>8, <2>9, <3>1, Zenon
  <2>12. From(s.script, b, more)
    <3>1. \A i \in 1..x : net[i] = Req(s.script, b + i)
      BY <2>6, <2>8, <2>9, Zenon DEF From
    <3>2. \A i \in 1..(x + 1) : i \in 1..x \/ i = x + 1
      BY <2>9
    <3>3. b + (x + 1) = n + 1
      BY <2>9
    <3>4. u = Req(s.script, b + (x + 1))
      BY <2>8, <3>3, Zenon
    <3> QED
      BY <2>11, <3>1, <3>2, <3>4, Zenon DEF From
  <2>13. b + (x + 1) = n + 1 /\ n + 1 <= Len(s.script)
    <3>1. b + (x + 1) = n + 1
      BY <2>9
    <3>2. \A i, j \in Nat : i < j => i + 1 <= j
      OBVIOUS
    <3>3. n < Len(s.script) /\ Len(s.script) \in Nat
      BY <2>1, <2>5, <2>8, LenProperties, Zenon
    <3> QED
      BY <2>9, <3>1, <3>2, <3>3, Zenon
  <2>14. InOrder(readonly, k, t)
    <3>1. t.net = more /\ t.sent = n + 1
      BY <2>2, <2>8, Zenon
    <3>2. Begun(k) + Len(k.recv) + Len(t.net) = t.sent /\ t.sent <= Len(t.script)
      BY <2>2, <2>8, <2>11, <2>13, <3>1, Zenon
    <3>3. From(t.script, Begun(k) + Len(k.recv), t.net)
      BY <2>2, <2>8, <2>12, <3>1, Zenon
    <3> QED
      BY <2>2, <2>4, <3>2, <3>3, Zenon DEF InOrder
  <2>15. Ordered(readonly, k, t)
    BY <1>1, <2>3, <2>14, Zenon DEF Ordered
  <2> QED
    BY <1>1, <1>2, <2>15, OneOrdered, Zenon DEF k, t
<1> QED
  BY <1>3, <1>4, Zenon

\* The disk completes the reads of a chunk; the pull is the same.
LEMMA ReadDoneOrdered ==
  ASSUME ServerInv, OrderInv, NEW c \in Clients, ReadDone(c)
  PROVE  OrderInv'
<1> DEFINE k == conn[c]
           m == conn'[c]
           a == conn[c].async
           b == [a EXCEPT !.reading = FALSE]
<1>1. /\ readonly' = readonly /\ client' = client /\ DOMAIN conn = Clients
      /\ ConnTyped(k) /\ a # Idle /\ Ordered(readonly, k, client[c])
  BY Zenon DEF ReadDone, config, ServerInv, Conns, OrderInv
<1>2. AsyncTyped(a) /\ k.state = "open"
  BY <1>1, Zenon DEF ConnTyped
<1>3. m = [k EXCEPT !.async = b] /\ \A d \in Clients : d # c => conn'[d] = conn[d]
  BY <1>1, Zenon DEF ReadDone
<1>4. b # Idle /\ b.req = a.req /\ b.offset = a.offset
  <2>1. PICK r \in Reqs, j \in 0..(Chunks - 1), t \in BOOLEAN :
          a = [req |-> r, offset |-> j, reading |-> t]
    BY <1>2, Zenon DEF AsyncTyped
  <2>2. a.req = r /\ a.offset = j /\ r.kind \in {"pull", "stream"} /\ j \in Nat
    <3>1. a.req = r /\ a.offset = j
      BY <2>1
    <3>2. r.kind \in {"pull", "stream"}
      BY <1>2, <3>1, Zenon DEF AsyncTyped
    <3>3. j \in Nat
      BY ServerAssumption
    <3> QED
      BY <3>1, <3>2, <3>3, Zenon
  <2>3. b = [req |-> r, offset |-> j, reading |-> FALSE]
    <3>1. \A u : [a EXCEPT !.reading = u] = [req |-> r, offset |-> j, reading |-> u]
      BY <2>1
    <3> QED
      BY <3>1, Zenon
  <2>4. r \in [no : Nat, kind : {"pull", "stream"}]
    BY <2>2, Zenon DEF Reqs
  <2>5. [req |-> r, offset |-> j, reading |-> FALSE]
          \in [req : [no : Nat, kind : {"pull", "stream"}], offset : Nat, reading : BOOLEAN]
    BY <2>2, <2>4, Zenon
  <2> HIDE DEF a, b
  <2> QED
    BY <2>2, <2>3, <2>5, ServerAssumption, Zenon
<1> HIDE DEF b, m
<1>5. /\ m.state = "open" /\ m.recv = k.recv /\ m.send = k.send /\ m.async = b
      /\ m.answered = k.answered
  BY <1>1, <1>2, <1>3, Zenon DEF ConnTyped
<1>6. "open" # "closed" /\ "open" \notin {"away", "backlog", "piped"}
  OBVIOUS
<1>7. InOrder(readonly, k, client[c])
  BY <1>1, <1>2, <1>6, Zenon DEF Ordered
<1>8. Begun(m) = Begun(k) /\ Partial(b) = Partial(a)
  <2>1. Begun(m) = Begun(k)
    BY <1>1, <1>4, <1>5, Zenon DEF Begun
  <2>2. Partial(b) = Partial(a)
    BY <1>1, <1>4, Zenon DEF Partial
  <2> QED
    BY <2>1, <2>2, Zenon
<1>9. InOrder(readonly, m, client[c])
  BY <1>1, <1>4, <1>5, <1>7, <1>8, Zenon DEF InOrder
<1>10. Ordered(readonly, m, client[c])
  BY <1>5, <1>6, <1>9, Zenon DEF Ordered
<1> QED
  BY <1>1, <1>3, <1>10, OneOrdered, Zenon DEF m
-----------------------------------------------------------------------------
(* The order of responses. *)

\* No request has been sent yet.
LEMMA InitOrdered ==
  ASSUME Init
  PROVE  OrderInv
<1>1. PICK scripts \in Scripts :
        client = [c \in Clients |-> [script |-> scripts[c], sent |-> 0, net |-> <<>>, got |-> <<>>,
                                     here |-> TRUE, blocked |-> FALSE, thread |-> Main]]
  BY Zenon DEF Init
<1>2. ASSUME NEW c \in Clients PROVE Ordered(readonly, conn[c], client[c])
  <2>1. conn[c] = NoConn("away") /\ readonly \in BOOLEAN /\ scripts[c] \in Seq(Kinds)
    BY ServerAssumption, Zenon DEF Init, Kinds
  <2>2. PICK k, s : k = conn[c] /\ s = client[c]
    OBVIOUS
  <2>3. /\ k.state = "away" /\ k.recv = <<>> /\ k.send = <<>> /\ k.answered = 0 /\ k.async = Idle
    BY <2>1, <2>2, NoConnFields, Zenon
  <2>4. s.script = scripts[c] /\ s.sent = 0 /\ s.net = <<>> /\ s.got = <<>>
    BY <1>1, <2>2, Zenon
  <2>5. /\ Begun(k) = 0 /\ Partial(Idle) = <<>> /\ Out(readonly, s.script)[0] = <<>>
    BY <2>1, <2>3, <2>4, OutFacts, Zenon DEF Begun, Partial
  <2>6. /\ 0 \in Nat /\ <<>> \in Seq(Items) /\ 0 <= Len(s.script) /\ Len(<<>>) = 0
        /\ 0 + 0 + 0 = 0 /\ 1..0 = {}
    BY <2>1, <2>4
  <2>7. InOrder(readonly, k, s)
    <3>1. From(s.script, Begun(k), <<>>) /\ From(s.script, Begun(k) + Len(<<>>), <<>>)
      BY <2>6, Zenon DEF From
    <3>2. \A i \in 1..Begun(k) : s.script[i] # "junk"
      BY <2>5, <2>6, Zenon
    <3>3. Begun(k) + Len(k.recv) + Len(s.net) = s.sent
      BY <2>3, <2>4, <2>5, <2>6, Zenon
    <3> QED
      BY <2>3, <2>4, <2>5, <2>6, <3>1, <3>2, <3>3, Zenon DEF InOrder
  <2>8. "away" # "closed"
    OBVIOUS
  <2> QED
    BY <2>1, <2>2, <2>3, <2>7, <2>8, Zenon DEF Ordered
<1> QED
  BY <1>2, Zenon DEF OrderInv

\* Every step keeps the order.
LEMMA OrderStep ==
  ASSUME ServerInv, OrderInv, [Next]_vars
  PROVE  OrderInv'
<1>1. CASE \E l \in Threads : Thread(l)
  <2>1. PICK l \in Threads : Thread(l)
    BY <1>1, Zenon
  <2>2. CASE Top(l) \/ Wait(l)
    <3>1. readonly' = readonly /\ conn' = conn /\ client' = client
      BY <2>2, Zenon DEF Top, Wait, config
    <3> QED
      BY <3>1, NoneOrdered, Zenon
  <2>3. CASE ResumeConn(l) \/ ServeConn(l)
    BY <2>3, HandleOrdered, Zenon
  <2>4. CASE (l = Main /\ AcceptConn) \/ (l # Main /\ NotifyConns(l))
    BY <2>4, AcceptOrdered, Zenon
  <2>5. CASE Exit(l)
    BY <2>5, EndOrdered, Zenon
  <2> QED
    BY <2>1, <2>2, <2>3, <2>4, <2>5, Zenon DEF Thread
<1>2. CASE AcceptLoop \/ \E c \in Clients : Connect(c)
  <2>1. CASE AcceptReady
    <3>1. readonly' = readonly /\ conn' = conn /\ client' = client
      BY <2>1, Zenon DEF AcceptReady, config
    <3> QED
      BY <3>1, NoneOrdered, Zenon
  <2>2. CASE Exit(Main)
    BY <2>2, EndOrdered, Zenon
  <2>3. CASE (readonly /\ Distribute) \/ \E c \in Clients : Connect(c)
    BY <2>3, QueuedOrdered, Zenon
  <2> QED
    BY <1>2, <2>1, <2>2, <2>3, Zenon DEF AcceptLoop
<1>3. CASE Stopped
  BY <1>3, EndOrdered, Zenon
<1>4. CASE \E c \in Clients : Send(c) \/ HangUp(c) \/ Drain(c)
  BY <1>4, ClientOrdered, Zenon
<1>5. CASE \E c \in Clients : ReadDone(c)
  BY <1>5, ReadDoneOrdered, Zenon
<1>6. CASE Stop \/ FlushDone \/ UNCHANGED vars
  <2>1. readonly' = readonly /\ conn' = conn /\ client' = client
    BY <1>6, Zenon DEF Stop, FlushDone, config, vars
  <2> QED
    BY <2>1, NoneOrdered, Zenon
<1> QED
  BY <1>1, <1>2, <1>3, <1>4, <1>5, <1>6, Zenon DEF Next

\* What is received, queued and on the way is one stream of requests and one of
\* responses per connection, in every state.
THEOREM OrderInvHolds == Spec => []OrderInv
<1>1. Init => OrderInv
  BY InitOrdered, Zenon
<1>2. ServerInv /\ OrderInv /\ [Next]_vars => OrderInv'
  BY OrderStep, Zenon
<1> QED
  BY <1>1, <1>2, ServerInvHolds, PTL DEF Spec

\* The responses to the first n requests of a client.
LEMMA FirstResponses ==
  ASSUME ServerInv, NEW c \in Clients, NEW n \in 0..Len(client[c].script)
  PROVE  Responses(Requests(c, n)) = Out(readonly, client[c].script)[n]
<1> DEFINE script == client[c].script
           F(i) == Req(script, i)
<1>1. readonly \in BOOLEAN /\ script \in Seq(Kinds)
  BY Zenon DEF ServerInv, Typed, Conns, ClientTyped
<1>2. PICK reqs : reqs = [i \in 1..n |-> F(i)]
  BY Zenon
<1>3. Requests(c, n) = reqs
  BY <1>2, Zenon DEF Requests, Request, Req
<1>4. \A i \in 1..Len(script) : F(i) \in Reqs
  BY <1>1, OutFacts, Zenon
<1> HIDE DEF F, script
<1>5. n \in Nat /\ n <= Len(script) /\ 0 + n = n /\ 0 \in Nat /\ \A i \in 1..n : i \in 1..Len(script) /\ 0 + i = i
  BY <1>1 DEF script
<1>6. \A i \in 1..n : F(i) \in Reqs
  BY <1>4, <1>5, Zenon
<1>7. reqs \in Seq(Reqs) /\ Len(reqs) = n /\ \A i \in 1..n : reqs[i] = F(i)
  BY <1>2, <1>5, <1>6
<1>8. From(script, 0, reqs)
  BY <1>5, <1>7, Zenon DEF From, F
<1>9. 0 + Len(reqs) <= Len(script) /\ 0 + Len(reqs) = n
  BY <1>5, <1>7, Zenon
<1>10. /\ Responses(reqs) \in Seq(Items)
       /\ Out(readonly, script)[0] \o Responses(reqs) = Out(readonly, script)[0 + Len(reqs)]
  BY <1>1, <1>5, <1>7, <1>8, <1>9, ResponsesFollow, Zenon
<1>11. Out(readonly, script)[0] = <<>>
  BY <1>1, OutFacts, Zenon
<1>12. <<>> \o Responses(reqs) = Responses(reqs)
  BY <1>10, ConcatEmptySeq, Zenon
<1> QED
  BY <1>3, <1>9, <1>10, <1>11, <1>12, Zenon DEF script

\* Every client receives the responses to its requests in their order, complete
\* up to the one in progress, however many it pipelines, whichever pulls wait
\* for the disk and however little a socket takes; what comes after a message
\* that is no request is not answered (process_message, client_async_resume,
\* client_flush_send).
THEOREM ResponsesInOrderHolds == Spec => []ResponsesInOrder
<1>1. ASSUME ServerInv, OrderInv PROVE ResponsesInOrder
  <2> SUFFICES ASSUME NEW c \in Clients
               PROVE  LET out == client[c].got \o conn[c].send
                      IN  /\ \E n \in Answerable(c) : IsPrefix(out, Responses(Requests(c, n)))
                          /\ Open(c) /\ conn[c].async = Idle =>
                               out = Responses(Requests(c, conn[c].answered))
    BY Zenon DEF ResponsesInOrder
  <2> DEFINE s == client[c]
             k == conn[c]
  <2>1. /\ readonly \in BOOLEAN /\ ConnTyped(k) /\ ClientTyped(s) /\ Ordered(readonly, k, s)
    BY <1>1, Zenon DEF ServerInv, Typed, Conns, OrderInv
  <2>2. \A n \in 0..Len(s.script) : Responses(Requests(c, n)) = Out(readonly, s.script)[n]
    BY <1>1, FirstResponses, Zenon
  <2>3. PICK n \in 0..Len(s.script) :
          /\ \A i \in 1..n : s.script[i] # "junk"
          /\ IsPrefix(s.got \o k.send, Out(readonly, s.script)[n])
    <3>1. CASE k.state # "closed"
      <4>1. InOrder(readonly, k, s)
        BY <2>1, <3>1, Zenon DEF Ordered
      <4> HIDE DEF s, k
      <4> QED
        BY <2>1, <4>1, InOrderPrefix, Zenon
    <3>2. CASE k.state = "closed"
      <4>1. k.send = <<>> /\ Delivered(readonly, s)
        BY <2>1, <3>2, Zenon DEF Ordered
      <4>2. s.got \in Seq(Items)
        BY <4>1, Zenon DEF Delivered
      <4>3. s.got \o k.send = s.got
        BY <4>1, <4>2, ConcatEmptySeq, Zenon
      <4> QED
        BY <4>1, <4>3, Zenon DEF Delivered
    <3> QED
      BY <3>1, <3>2, Zenon
  <2>4. n \in Answerable(c) /\ IsPrefix(s.got \o k.send, Responses(Requests(c, n)))
    BY <2>2, <2>3, Zenon DEF Answerable
  <2>5. ASSUME Open(c), k.async = Idle
        PROVE  s.got \o k.send = Responses(Requests(c, k.answered))
    <3>1. k.state = "open" /\ "open" # "closed"
      BY <2>5, Zenon DEF Open
    <3>2. InOrder(readonly, k, s)
      BY <2>1, <3>1, Zenon DEF Ordered
    <3>3. /\ k.answered \in Nat /\ s.sent <= Len(s.script)
          /\ Begun(k) + Len(k.recv) + Len(s.net) = s.sent
          /\ s.got \o k.send = Out(readonly, s.script)[k.answered] \o Partial(Idle)
      BY <2>5, <3>2, Zenon DEF InOrder
    <3>4. Begun(k) = k.answered /\ Partial(Idle) = <<>>
      BY <2>5, Zenon DEF Begun, Partial
    <3>5. k.recv \in Seq(Reqs) /\ s.net \in Seq(Reqs) /\ s.sent \in Nat /\ s.script \in Seq(Kinds)
      BY <2>1, Zenon DEF ConnTyped, ClientTyped
    <3>6. k.answered \in 0..Len(s.script)
      <4>1. \A i, j, h, l, m \in Nat : i + j + h = l /\ l <= m => i \in 0..m
        OBVIOUS
      <4>2. Len(k.recv) \in Nat /\ Len(s.net) \in Nat /\ Len(s.script) \in Nat
        BY <3>5, LenProperties, Zenon
      <4> HIDE DEF s, k
      <4> QED
        BY <3>3, <3>4, <3>5, <4>1, <4>2, Zenon
    <3>7. Out(readonly, s.script)[k.answered] \in Seq(Items)
      BY <2>1, <3>5, <3>6, OutFacts, Zenon
    <3>8. s.got \o k.send = Out(readonly, s.script)[k.answered]
      BY <3>3, <3>4, <3>7, ConcatEmptySeq, Zenon
    <3> QED
      BY <2>2, <3>6, <3>8, Zenon
  <2> QED
    BY <2>4, <2>5, Zenon
<1> QED
  BY <1>1, ServerInvHolds, OrderInvHolds, PTL
=============================================================================
