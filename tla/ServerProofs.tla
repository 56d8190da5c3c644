---------------------------- MODULE ServerProofs ----------------------------
(***************************************************************************)
(* Proofs about the example server, for any number of clients, workers and *)
(* connections per thread, any requests and any split of them by sockets.  *)
(***************************************************************************)
EXTENDS Server, FiniteSetTheorems, TLAPS
-----------------------------------------------------------------------------
(* The inductive invariant. *)

Kinds == {"pull", "stream", "push", "save", "ping", "junk"}

Reqs == [no : Nat, kind : Kinds]

\* A pull that waits for the disk.
AsyncTyped(a) ==
  /\ a \in [req : Reqs, offset : 0..(Chunks - 1), reading : BOOLEAN]
  /\ a.req.kind \in {"pull", "stream"}

\* A ClientConn; only an open connection has a pull in progress.
ConnTyped(k) ==
  /\ k = [state |-> k.state, recv |-> k.recv, send |-> k.send, async |-> k.async,
          answered |-> k.answered, spoiled |-> k.spoiled]
  /\ k.state \in {"away", "backlog", "piped", "open", "closed"}
  /\ k.recv \in Seq(Reqs) /\ Len(k.recv) <= RecvCap
  /\ k.async # Idle => AsyncTyped(k.async) /\ k.state = "open"

\* The client's side.
ClientTyped(s) ==
  /\ s = [script |-> s.script, sent |-> s.sent, net |-> s.net, got |-> s.got, here |-> s.here,
          blocked |-> s.blocked, thread |-> s.thread]
  /\ s.script \in Seq(Kinds) /\ s.sent \in Nat /\ s.net \in Seq(Reqs)

\* The variables that are not about one connection.
Typed ==
  /\ readonly \in BOOLEAN /\ running \in BOOLEAN /\ stopped \in BOOLEAN /\ slots \in SlotCounts
  /\ pc \in [AllThreads -> {"top", "resume", "handle", "exited"}]
  /\ todo \in [AllThreads -> SUBSET Clients] /\ DOMAIN events = AllThreads
  /\ backlog \in Seq(Clients) /\ pipe \in [Workers -> Seq(Clients)] /\ rr_next \in Workers
  /\ flush_in_flight \in BOOLEAN /\ flush_io \in BOOLEAN /\ unsaved \in BOOLEAN

Conns ==
  /\ DOMAIN conn = Clients /\ DOMAIN client = Clients
  /\ \A c \in Clients : ConnTyped(conn[c]) /\ ClientTyped(client[c])

\* A connection that is not accepted yet is in one queue, once.
Queues ==
  /\ \A i \in 1..Len(backlog) : conn[backlog[i]].state = "backlog"
  /\ \A i, j \in 1..Len(backlog) : backlog[i] = backlog[j] => i = j
  /\ \A w \in Workers : \A i \in 1..Len(pipe[w]) : conn[pipe[w][i]].state = "piped"
  /\ \A w, v \in Workers : \A i \in 1..Len(pipe[w]), j \in 1..Len(pipe[v]) :
       pipe[w][i] = pipe[v][j] => w = v

\* A connection that waits is in a queue.
Queued ==
  /\ \A c \in Clients : conn[c].state = "backlog" => \E i \in 1..Len(backlog) : backlog[i] = c
  /\ \A c \in Clients : conn[c].state = "piped" =>
       \E w \in Workers : \E i \in 1..Len(pipe[w]) : pipe[w][i] = c

\* What thread l has yet to handle in this round is still there: each of its
\* connections is open and the thread's own, and has at most one event.  The
\* thread of readonly_accept_loop has a connection to accept.
Round(l) ==
  /\ l \notin Threads => /\ IF l = Main THEN pc[l] # "resume" ELSE pc[l] = "top"
                         /\ events[l] = {}
                         /\ pc[l] = "handle" => backlog # <<>>
  /\ pc[l] # "resume" => todo[l] = {}
  /\ pc[l] # "handle" => events[l] = {}
  /\ \A c \in todo[l] : c \in OpenAt(l) /\ conn[c].async # Idle
  /\ \A e \in events[l] :
       /\ e \in (Clients \cup {Listen}) \X BOOLEAN
       /\ e[1] # Listen => e[1] \in OpenAt(l)
       /\ e[1] = Listen => e[2] = TRUE /\ (l = Main => backlog # <<>>)
       /\ \A d \in events[l] : d[1] = e[1] => d = e

\* Thread l has no more connections than slots, and none if it serves none or,
\* being a worker, has exited.
Seated(l) ==
  /\ IsFiniteSet(OpenAt(l)) /\ Cardinality(OpenAt(l)) <= slots
  /\ l \notin Threads \/ (pc[l] = "exited" /\ l # Main) => OpenAt(l) = {}

\* The order of the end.
Ends ==
  /\ \A c \in Clients : Open(c) => client[c].thread \in AllThreads
  /\ stopped => /\ ~running /\ ~unsaved /\ backlog = <<>> /\ \A c \in Clients : ~Open(c)
                /\ \A l \in Threads \cup {Main} : pc[l] = "exited"

ServerInv ==
  Typed /\ Conns /\ Queues /\ Queued /\ (\A l \in AllThreads : Round(l) /\ Seated(l)) /\ Ends
-----------------------------------------------------------------------------
(* What a thread does with one connection. *)

\* An outcome for client c leaves a connection and a client's side.
Fits(o, c) ==
  /\ o = [conn |-> o.conn, client |-> o.client, done |-> o.done, close |-> o.close]
  /\ ConnTyped(o.conn) /\ o.conn.state = "open"
  /\ ClientTyped(o.client) /\ o.client.thread = client[c].thread
  /\ o.close \in BOOLEAN

\* A thread starts from the connection as it is.
LEMMA StartFits ==
  ASSUME NEW c \in Clients, Conns, Open(c)
  PROVE  Fits(Start(c), c)
BY Zenon DEF Conns, Open, Start, Fits

\* Closing is decided, not done, here.
LEMMA ClosingFits ==
  ASSUME NEW c, NEW o, Fits(o, c)
  PROVE  Fits(Closing(o), c)
<1>1. PICK k, s, d, b : o = [conn |-> k, client |-> s, done |-> d, close |-> b]
  BY Zenon DEF Fits
<1>2. o.conn = k /\ o.client = s /\ o.done = d
  BY <1>1, Zenon
<1>3. Closing(o) = [conn |-> k, client |-> s, done |-> d, close |-> TRUE]
  <2>1. \A t : [o EXCEPT !.close = t] = [conn |-> k, client |-> s, done |-> d, close |-> t]
    BY <1>1
  <2> QED
    BY <2>1, Zenon DEF Closing
<1>4. /\ Closing(o).conn = o.conn /\ Closing(o).client = o.client
      /\ Closing(o).done = o.done /\ Closing(o).close = TRUE
  BY <1>2, <1>3
<1> QED
  BY <1>2, <1>3, <1>4, Zenon DEF Fits

\* A write moves chunks from the send queue to the socket (client_flush_send).
LEMMA FlushFits ==
  ASSUME NEW c, NEW o, NEW reset, Fits(o, c), NEW p \in FlushSend(o, reset)
  PROVE  Fits(p, c) /\ p.conn.async = o.conn.async
<1> DEFINE queue == o.conn.send
           Sent(n) == [o EXCEPT !.conn.send = SubSeq(queue, n + 1, Len(queue)),
                                !.conn.spoiled = @ \/ (reset /\ n = Len(queue) /\ o.conn.async # Idle),
                                !.client.got = @ \o SubSeq(queue, 1, n),
                                !.client.blocked = n < Len(queue)]
<1>1. p = o \/ p = Closing(o) \/ \E n \in 1..Len(queue) : p = Sent(n)
  BY Zenon DEF FlushSend
<1>2. CASE p = o
  BY <1>2, Zenon
<1>3. CASE p = Closing(o)
  <2>1. p.conn = o.conn
    BY <1>3, Zenon DEF Closing, Fits
  <2> QED
    BY <1>3, <2>1, ClosingFits, Zenon
<1>4. ASSUME NEW n \in 1..Len(queue), p = Sent(n) PROVE Fits(p, c) /\ p.conn.async = o.conn.async
  <2>1. PICK send, spoiled, got, blocked :
          p = [o EXCEPT !.conn.send = send, !.conn.spoiled = spoiled,
                        !.client.got = got, !.client.blocked = blocked]
    BY <1>4, Zenon
  <2>2. /\ p = [conn |-> p.conn, client |-> p.client, done |-> o.done, close |-> o.close]
        /\ p.conn = [o.conn EXCEPT !.send = send, !.spoiled = spoiled]
        /\ p.client = [o.client EXCEPT !.got = got, !.blocked = blocked]
    BY <2>1, Zenon DEF Fits
  <2>3. p.conn = [state |-> o.conn.state, recv |-> o.conn.recv, send |-> send,
                  async |-> o.conn.async, answered |-> o.conn.answered, spoiled |-> spoiled]
    BY <2>2, Zenon DEF Fits, ConnTyped
  <2>4. p.client = [script |-> o.client.script, sent |-> o.client.sent, net |-> o.client.net,
                    got |-> got, here |-> o.client.here, blocked |-> blocked,
                    thread |-> o.client.thread]
    BY <2>2, Zenon DEF Fits, ClientTyped
  <2>5. ConnTyped(p.conn) /\ p.conn.state = "open" /\ p.conn.async = o.conn.async
    BY <2>3 DEF Fits, ConnTyped
  <2>6. ClientTyped(p.client) /\ p.client.thread = client[c].thread
    BY <2>4 DEF Fits, ClientTyped
  <2> QED
    BY <2>2, <2>5, <2>6 DEF Fits
<1> QED
  BY <1>1, <1>2, <1>3, <1>4, Zenon

\* Requests are taken from the buffer in order.
LEMMA AnsweredFits ==
  ASSUME NEW c, NEW o, Fits(o, c), NEW m \in 0..Len(o.conn.recv)
  PROVE  LET p == Answered(o, m)
         IN  /\ Fits(p, c) /\ p.conn.async = o.conn.async
             /\ p.conn.recv = SubSeq(o.conn.recv, m + 1, Len(o.conn.recv))
<1> DEFINE p == Answered(o, m)
           rest == SubSeq(o.conn.recv, m + 1, Len(o.conn.recv))
<1>1. PICK send, answered, done :
        p = [o EXCEPT !.conn.recv = rest, !.conn.send = send, !.conn.answered = answered,
                      !.done = done]
  BY Zenon DEF Answered
<1>2. rest \in Seq(Reqs) /\ Len(rest) <= RecvCap
  <2>1. o.conn.recv \in Seq(Reqs) /\ Len(o.conn.recv) <= RecvCap /\ RecvCap \in Nat
    BY ServerAssumption, Zenon DEF Fits, ConnTyped
  <2> QED
    BY <2>1
<1> HIDE DEF rest, p
<1>3. /\ p = [conn |-> p.conn, client |-> o.client, done |-> done, close |-> o.close]
      /\ p.conn = [o.conn EXCEPT !.recv = rest, !.send = send, !.answered = answered]
  BY <1>1, Zenon DEF Fits
<1>4. p.conn = [state |-> o.conn.state, recv |-> rest, send |-> send, async |-> o.conn.async,
                answered |-> answered, spoiled |-> o.conn.spoiled]
  BY <1>3, Zenon DEF Fits, ConnTyped
<1>5. ConnTyped(p.conn) /\ p.conn.state = "open" /\ p.conn.async = o.conn.async /\ p.conn.recv = rest
  BY <1>2, <1>4 DEF Fits, ConnTyped
<1>6. Fits(p, c)
  BY <1>3, <1>5 DEF Fits
<1> QED
  BY <1>5, <1>6, Zenon DEF p, rest

\* A pull that waits is the request at the head of the buffer (handle_pull,
\* handle_pull_stream).
LEMMA PullWaitsFits ==
  ASSUME NEW c, NEW o, Fits(o, c), NEW j \in 0..(Chunks - 1), o.conn.recv # <<>>,
         o.conn.recv[1].kind \in {"pull", "stream"}
  PROVE  Fits(PullWaits(o, j), c)
<1> DEFINE p == PullWaits(o, j)
           r == Head(o.conn.recv)
           rest == Tail(o.conn.recv)
           waiting == [req |-> r, offset |-> j, reading |-> TRUE]
<1>1. PICK send : p = [o EXCEPT !.conn.recv = rest, !.conn.async = waiting, !.conn.send = send]
  BY Zenon DEF PullWaits
<1>2. /\ rest \in Seq(Reqs) /\ Len(rest) <= RecvCap
      /\ r \in Reqs /\ r.kind \in {"pull", "stream"}
  <2>1. o.conn.recv \in Seq(Reqs) /\ Len(o.conn.recv) <= RecvCap /\ RecvCap \in Nat
    BY ServerAssumption, Zenon DEF Fits, ConnTyped
  <2> QED
    BY <2>1
<1>3. AsyncTyped(waiting)
  BY <1>2, Zenon DEF AsyncTyped
<1> HIDE DEF p, rest, waiting
<1>4. /\ p = [conn |-> p.conn, client |-> o.client, done |-> o.done, close |-> o.close]
      /\ p.conn = [o.conn EXCEPT !.recv = rest, !.async = waiting, !.send = send]
  BY <1>1, Zenon DEF Fits
<1>5. p.conn = [state |-> o.conn.state, recv |-> rest, send |-> send, async |-> waiting,
                answered |-> o.conn.answered, spoiled |-> o.conn.spoiled]
  BY <1>4, Zenon DEF Fits, ConnTyped
<1>6. ConnTyped(p.conn) /\ p.conn.state = "open"
  BY <1>2, <1>3, <1>5 DEF Fits, ConnTyped
<1>7. Fits(p, c)
  BY <1>4, <1>6 DEF Fits
<1> QED
  BY <1>7, Zenon DEF p

\* What is left of a buffer begins with the request after those taken.
LEMMA SuffixHead ==
  ASSUME NEW S, NEW s \in Seq(S), NEW m \in 0..(Len(s) - 1)
  PROVE  LET rest == SubSeq(s, m + 1, Len(s)) IN rest # <<>> /\ rest[1] = s[m + 1]
<1>1. Len(SubSeq(s, m + 1, Len(s))) = Len(s) - m
  OBVIOUS
<1>2. SubSeq(s, m + 1, Len(s))[1] = s[m + 1]
  OBVIOUS
<1>3. Len(s) - m # 0 /\ Len(<<>>) = 0
  OBVIOUS
<1> QED
  BY <1>1, <1>2, <1>3, Zenon

\* process_message, as often as it can be called.
LEMMA ProcessFits ==
  ASSUME NEW c, NEW o, Fits(o, c), NEW p \in ProcessMessages(o)
  PROVE  Fits(p, c)
<1> DEFINE recv == o.conn.recv
<1>0. recv \in Seq(Reqs) /\ Len(recv) \in Nat
  BY DEF Fits, ConnTyped
<1>1. \/ p = o
      \/ \E m \in 0..Len(recv) : p = Answered(o, m) \/ p = Closing(Answered(o, m))
      \/ \E m \in 0..(Len(recv) - 1), j \in 0..(Chunks - 1) :
           recv[m + 1].kind \in {"pull", "stream"} /\ p = PullWaits(Answered(o, m), j)
  BY <1>0 DEF ProcessMessages
<1>2. ASSUME NEW m \in 0..Len(recv) PROVE Fits(Answered(o, m), c) /\ Fits(Closing(Answered(o, m)), c)
  BY AnsweredFits, ClosingFits, Zenon
<1>3. ASSUME NEW m \in 0..(Len(recv) - 1), NEW j \in 0..(Chunks - 1),
             recv[m + 1].kind \in {"pull", "stream"}
      PROVE  Fits(PullWaits(Answered(o, m), j), c)
  <2> DEFINE q == Answered(o, m)
  <2>1. m \in 0..Len(recv)
    BY <1>0
  <2>2. Fits(q, c) /\ q.conn.recv = SubSeq(recv, m + 1, Len(recv))
    BY <2>1, AnsweredFits, Zenon
  <2>3. q.conn.recv # <<>> /\ q.conn.recv[1] = recv[m + 1]
    BY <1>0, <2>2, SuffixHead, Zenon
  <2>4. q.conn.recv[1].kind \in {"pull", "stream"}
    BY <1>3, <2>3, Zenon
  <2> QED
    BY <2>2, <2>3, <2>4, PullWaitsFits, Zenon
<1> QED
  BY <1>1, <1>2, <1>3, Zenon

\* The read of an event never fills the buffer beyond its limit.
LEMMA ReadFits ==
  ASSUME NEW c, NEW o, Fits(o, c), NEW p \in ReadSocket(o)
  PROVE  Fits(p, c)
<1> DEFINE net == o.client.net
           recv == o.conn.recv
<1>0. recv \in Seq(Reqs) /\ net \in Seq(Reqs) /\ Len(recv) <= RecvCap /\ RecvCap \in Nat
  BY ServerAssumption, Zenon DEF Fits, ConnTyped, ClientTyped
<1>1. CASE p = Closing(o)
  BY <1>1, ClosingFits, Zenon
<1>2. ASSUME NEW n \in 1..Len(net), n <= RecvCap - Len(recv),
             p = [o EXCEPT !.conn.recv = @ \o SubSeq(net, 1, n),
                           !.client.net = SubSeq(@, n + 1, Len(@))]
      PROVE  Fits(p, c)
  <2> DEFINE more == recv \o SubSeq(net, 1, n)
             left == SubSeq(net, n + 1, Len(net))
  <2>1. more \in Seq(Reqs) /\ Len(more) <= RecvCap /\ left \in Seq(Reqs)
    <3> HIDE DEF recv, net
    <3>1. SubSeq(net, 1, n) \in Seq(Reqs) /\ Len(SubSeq(net, 1, n)) = n /\ left \in Seq(Reqs)
      BY <1>0
    <3> QED
      BY <1>0, <1>2, <3>1
  <2>2. p = [o EXCEPT !.conn.recv = more, !.client.net = left]
    BY <1>2, Zenon
  <2> HIDE DEF more, left
  <2>3. /\ p = [conn |-> p.conn, client |-> p.client, done |-> o.done, close |-> o.close]
        /\ p.conn = [o.conn EXCEPT !.recv = more]
        /\ p.client = [o.client EXCEPT !.net = left]
    BY <2>2, Zenon DEF Fits
  <2>4. p.conn = [state |-> o.conn.state, recv |-> more, send |-> o.conn.send,
                  async |-> o.conn.async, answered |-> o.conn.answered, spoiled |-> o.conn.spoiled]
    BY <2>3, Zenon DEF Fits, ConnTyped
  <2>5. p.client = [script |-> o.client.script, sent |-> o.client.sent, net |-> left,
                    got |-> o.client.got, here |-> o.client.here, blocked |-> o.client.blocked,
                    thread |-> o.client.thread]
    BY <2>3, Zenon DEF Fits, ClientTyped
  <2>6. ConnTyped(p.conn) /\ p.conn.state = "open"
    BY <2>1, <2>4 DEF Fits, ConnTyped
  <2>7. ClientTyped(p.client) /\ p.client.thread = client[c].thread
    BY <2>1, <2>5 DEF Fits, ClientTyped
  <2> QED
    BY <2>3, <2>6, <2>7 DEF Fits
<1> QED
  BY <1>1, <1>2, Zenon DEF ReadSocket

\* The handling of an event on a connection.
LEMMA ServeFits ==
  ASSUME NEW c \in Clients, Conns, Open(c), NEW read, NEW p \in Serve(c, read)
  PROVE  Fits(p, c)
<1>1. PICK i \in (IF read THEN ReadSocket(Start(c)) ELSE {Start(c)}) :
        \E o \in (IF i.close \/ ~read THEN {i} ELSE ProcessMessages(i)) :
          p \in (IF o.close THEN {o} ELSE FlushSend(o, TRUE))
  BY Zenon DEF Serve
<1>2. Fits(i, c)
  BY <1>1, StartFits, ReadFits, Zenon
<1>3. PICK o \in (IF i.close \/ ~read THEN {i} ELSE ProcessMessages(i)) :
        p \in (IF o.close THEN {o} ELSE FlushSend(o, TRUE))
  BY <1>1, Zenon
<1>4. Fits(o, c)
  BY <1>2, <1>3, ProcessFits, Zenon
<1> QED
  BY <1>3, <1>4, FlushFits, Zenon

\* A pull goes on where it stopped (pull_resume, stream_resume).
LEMMA ChunksDoneFits ==
  ASSUME NEW c, NEW o, Fits(o, c), o.conn.async # Idle, NEW n \in (o.conn.async.offset + 1)..Chunks
  PROVE  Fits(ChunksDone(o, n), c)
<1> DEFINE p == ChunksDone(o, n)
           a == o.conn.async
           next == IF n = Chunks THEN Idle ELSE [a EXCEPT !.offset = n, !.reading = TRUE]
<1>1. PICK send, answered :
        p = [o EXCEPT !.conn.send = send, !.conn.async = next, !.conn.answered = answered]
  BY Zenon DEF ChunksDone
<1>2. next # Idle => AsyncTyped(next)
  <2>1. AsyncTyped(a) /\ Chunks \in Nat
    BY ServerAssumption, Zenon DEF Fits, ConnTyped
  <2>2. a.offset \in 0..(Chunks - 1)
    BY <2>1, Zenon DEF AsyncTyped
  <2>3. n # Chunks => n \in 0..(Chunks - 1)
    BY <2>1, <2>2
  <2> QED
    BY <2>1, <2>3, Zenon DEF AsyncTyped
<1> HIDE DEF p, next
<1>3. /\ p = [conn |-> p.conn, client |-> o.client, done |-> o.done, close |-> o.close]
      /\ p.conn = [o.conn EXCEPT !.send = send, !.async = next, !.answered = answered]
  BY <1>1, Zenon DEF Fits
<1>4. p.conn = [state |-> o.conn.state, recv |-> o.conn.recv, send |-> send, async |-> next,
                answered |-> answered, spoiled |-> o.conn.spoiled]
  BY <1>3, Zenon DEF Fits, ConnTyped
<1>5. ConnTyped(p.conn) /\ p.conn.state = "open"
  BY <1>2, <1>4 DEF Fits, ConnTyped
<1>6. Fits(p, c)
  BY <1>3, <1>5 DEF Fits
<1> QED
  BY <1>6, Zenon DEF p

\* client_async_resume and what the loop does after it.
LEMMA ResumeFits ==
  ASSUME NEW c \in Clients, Conns, Open(c), conn[c].async # Idle, NEW p \in Resume(c)
  PROVE  Fits(p, c)
<1> DEFINE a == Start(c).conn.async
           polled == IF a.reading THEN {Start(c)}
                     ELSE {ChunksDone(Start(c), n) : n \in (a.offset + 1)..Chunks}
           flushed == UNION {FlushSend(q, q.conn.async = Idle) : q \in polled}
<1>1. p \in UNION {IF f.close \/ f.conn.async # Idle THEN {f} ELSE ProcessMessages(f) : f \in flushed}
  BY Zenon DEF Resume
<1>2. PICK f \in flushed : p \in (IF f.close \/ f.conn.async # Idle THEN {f} ELSE ProcessMessages(f))
  <2> HIDE DEF flushed
  <2> QED
    BY <1>1, Zenon
<1>3. PICK q \in polled : f \in FlushSend(q, q.conn.async = Idle)
  <2> HIDE DEF polled
  <2> QED
    BY <1>2, Zenon
<1>4. Fits(Start(c), c) /\ a = conn[c].async
  BY StartFits, Zenon DEF Start
<1>5. q = Start(c) \/ \E n \in (a.offset + 1)..Chunks : q = ChunksDone(Start(c), n)
  BY <1>3, Zenon
<1>6. Fits(q, c)
  BY <1>4, <1>5, ChunksDoneFits, Zenon
<1>7. Fits(f, c)
  BY <1>3, <1>6, FlushFits, Zenon
<1> QED
  BY <1>2, <1>7, ProcessFits, Zenon
-----------------------------------------------------------------------------
(* What a step leaves alone. *)

\* A thread has the connections it had if none of them is opened, closed or
\* handed to another thread.
LEMMA SameOpen ==
  ASSUME \A c \in Clients : (Open(c)' <=> Open(c)) /\ client'[c].thread = client[c].thread,
         NEW l
  PROVE  OpenAt(l)' = OpenAt(l)
BY Zenon DEF OpenAt, Open

\* A thread that does not move has the same round before it if its connections
\* stay open, and its pulls in progress.
LEMMA RoundKept ==
  ASSUME NEW l, Round(l), readonly' = readonly,
         pc'[l] = pc[l], todo'[l] = todo[l], events'[l] = events[l],
         \A c \in OpenAt(l) : c \in OpenAt(l)' /\ (conn[c].async # Idle => conn'[c].async # Idle),
         pc[l] = "handle" /\ l = Main /\ backlog # <<>> => backlog' # <<>>
  PROVE  Round(l)'
<1>1. l \notin Threads' => /\ IF l = Main THEN pc'[l] # "resume" ELSE pc'[l] = "top"
                           /\ events'[l] = {}
                           /\ pc'[l] = "handle" => backlog' # <<>>
  <2>1. pc[l] = "top" => pc[l] # "handle"
    BY Zenon
  <2> QED
    BY <2>1, Zenon DEF Round, Threads
<1>2. /\ pc'[l] # "resume" => todo'[l] = {}
      /\ pc'[l] # "handle" => events'[l] = {}
      /\ \A c \in todo'[l] : c \in OpenAt(l)' /\ conn'[c].async # Idle
  BY Zenon DEF Round
<1>3. ASSUME NEW e \in events'[l]
      PROVE  /\ e \in (Clients \cup {Listen}) \X BOOLEAN
             /\ e[1] # Listen => e[1] \in OpenAt(l)'
             /\ e[1] = Listen => e[2] = TRUE /\ (l = Main => backlog' # <<>>)
             /\ \A d \in events'[l] : d[1] = e[1] => d = e
  <2>1. e \in events[l] /\ pc[l] = "handle"
    BY Zenon DEF Round
  <2> QED
    BY <2>1, Zenon DEF Round
<1> QED
  BY <1>1, <1>2, <1>3, Zenon DEF Round

\* It has room for the connections it has.
LEMMA SeatedKept ==
  ASSUME NEW l, Seated(l), readonly' = readonly, slots' = slots,
         pc'[l] = pc[l] \/ (pc[l] # "exited" /\ pc'[l] # "exited"),
         OpenAt(l)' = OpenAt(l)
  PROVE  Seated(l)'
BY Zenon DEF Seated, Threads

\* The queues hold what they held if only connections in use change.
LEMMA QueuesKept ==
  ASSUME Typed, Queues, backlog' = backlog, pipe' = pipe,
         \A c \in Clients : conn[c].state \in {"backlog", "piped"} => conn'[c].state = conn[c].state
  PROVE  Queues'
<1>1. \A i \in 1..Len(backlog) : backlog[i] \in Clients
  BY DEF Typed
<1>2. ASSUME NEW w \in Workers, NEW i \in 1..Len(pipe[w]) PROVE pipe[w][i] \in Clients
  <2>1. pipe[w] \in Seq(Clients)
    BY Zenon DEF Typed
  <2> QED
    BY <2>1
<1> QED
  BY <1>1, <1>2, ZenonT(60) DEF Queues

\* What waits is where it was if no connection begins to wait.
LEMMA QueuedKept ==
  ASSUME Queued, backlog' = backlog, pipe' = pipe,
         \A c \in Clients : conn'[c].state \in {"backlog", "piped"} => conn[c].state = conn'[c].state
  PROVE  Queued'
BY Zenon DEF Queued
-----------------------------------------------------------------------------
(* The steps that move no connection. *)

\* gravel_server_stop only clears the flag, and the disk completes a flush.
LEMMA QuietStep ==
  ASSUME ServerInv, Stop \/ FlushDone \/ UNCHANGED vars
  PROVE  ServerInv'
<1>1. /\ UNCHANGED <<readonly, slots, pc, todo, events, conn, client, backlog, pipe,
                     rr_next, unsaved, flush_in_flight, stopped>>
      /\ running' \in BOOLEAN /\ flush_io' \in BOOLEAN /\ (running' => running)
  <2>0. running \in BOOLEAN /\ flush_io \in BOOLEAN
    BY Zenon DEF ServerInv, Typed
  <2>1. CASE Stop
    BY <2>0, <2>1, Zenon DEF Stop, config, loopVars, dbVars
  <2>2. CASE FlushDone
    BY <2>0, <2>2, Zenon DEF FlushDone, config, loopVars
  <2>3. CASE UNCHANGED vars
    BY <2>0, <2>3, Zenon DEF vars, config, loopVars, dbVars
  <2> QED
    BY <2>1, <2>2, <2>3, Zenon
<1>2. \A l : OpenAt(l)' = OpenAt(l)
  BY <1>1, SameOpen, Zenon DEF Open
<1>3. Typed'
  BY <1>1, Zenon DEF ServerInv, Typed
<1>4. Conns'
  BY <1>1, Zenon DEF ServerInv, Conns
<1>5. Queues' /\ Queued'
  BY <1>1, QueuesKept, QueuedKept, Zenon DEF ServerInv
<1>6. ASSUME NEW l \in AllThreads PROVE Round(l)' /\ Seated(l)'
  <2>1. Round(l) /\ Seated(l)
    BY Zenon DEF ServerInv
  <2>2. Round(l)'
    BY <1>1, <1>2, <2>1, RoundKept, Zenon
  <2>3. Seated(l)'
    BY <1>1, <1>2, <2>1, SeatedKept, Zenon
  <2> QED
    BY <2>2, <2>3, Zenon
<1>7. Ends'
  BY <1>1, Zenon DEF ServerInv, Ends, Threads, Open
<1> QED
  BY <1>3, <1>4, <1>5, <1>6, <1>7, Zenon DEF ServerInv

\* A client sends, hangs up or reads.
LEMMA ClientStep ==
  ASSUME ServerInv, NEW c \in Clients, Send(c) \/ HangUp(c) \/ Drain(c)
  PROVE  ServerInv'
<1>1. UNCHANGED <<readonly, running, slots, pc, todo, events, conn, backlog, pipe,
                  rr_next, flush_in_flight, flush_io, unsaved, stopped>>
  BY Zenon DEF Send, HangUp, Drain, config, loopVars, dbVars
<1>2. ClientTyped(client[c]) /\ DOMAIN client = Clients
  BY Zenon DEF ServerInv, Conns
<1> DEFINE s == client[c]
           Side(sent, net, here, blocked) ==
             [script |-> s.script, sent |-> sent, net |-> net, got |-> s.got, here |-> here,
              blocked |-> blocked, thread |-> s.thread]
<1>3. DOMAIN client' = Clients /\ \A d \in Clients : d # c => client'[d] = client[d]
  BY <1>2, Zenon DEF Send, HangUp, Drain
<1>4. PICK sent, net, here, blocked :
        sent \in Nat /\ net \in Seq(Reqs) /\ client'[c] = Side(sent, net, here, blocked)
  <2>0. s.sent \in Nat /\ s.net \in Seq(Reqs) /\ s.script \in Seq(Kinds)
    BY <1>2, Zenon DEF ClientTyped
  <2>1. CASE Send(c)
    <3> DEFINE n == s.sent + 1
               req == Request(c, n)
    <3>1. n \in 1..Len(s.script)
      BY <2>0, <2>1 DEF Send
    <3>2. req \in Reqs
      BY <2>0, <3>1 DEF Request, Reqs
    <3>3. client'[c] = Side(n, Append(s.net, req), s.here, s.blocked)
      BY <1>2, <2>1, Zenon DEF Send, ClientTyped
    <3> HIDE DEF req, n
    <3>4. n \in Nat /\ Append(s.net, req) \in Seq(Reqs)
      BY <2>0, <3>1, <3>2
    <3> QED
      BY <3>3, <3>4, Zenon
  <2>2. CASE HangUp(c)
    <3>1. client'[c] = [s EXCEPT !.here = FALSE]
      BY <1>2, <2>2, Zenon DEF HangUp
    <3>2. \A t : [s EXCEPT !.here = t] = Side(s.sent, s.net, t, s.blocked)
      BY <1>2 DEF ClientTyped
    <3> QED
      BY <2>0, <3>1, <3>2, Zenon
  <2>3. CASE Drain(c)
    <3>1. client'[c] = [s EXCEPT !.blocked = FALSE]
      BY <1>2, <2>3, Zenon DEF Drain
    <3>2. \A t : [s EXCEPT !.blocked = t] = Side(s.sent, s.net, s.here, t)
      BY <1>2 DEF ClientTyped
    <3> QED
      BY <2>0, <3>1, <3>2, Zenon
  <2> QED
    BY <2>1, <2>2, <2>3, Zenon
<1>5. ClientTyped(client'[c]) /\ client'[c].thread = client[c].thread
  BY <1>2, <1>4 DEF ClientTyped
<1>6. \A l : OpenAt(l)' = OpenAt(l)
  BY <1>1, <1>3, <1>5, SameOpen, Zenon DEF Open
<1>7. Typed'
  BY <1>1, Zenon DEF ServerInv, Typed
<1>8. Conns'
  BY <1>1, <1>3, <1>5, Zenon DEF ServerInv, Conns
<1>9. Queues' /\ Queued'
  BY <1>1, QueuesKept, QueuedKept, Zenon DEF ServerInv
<1>10. ASSUME NEW l \in AllThreads PROVE Round(l)' /\ Seated(l)'
  <2>1. Round(l) /\ Seated(l)
    BY Zenon DEF ServerInv
  <2>2. Round(l)'
    BY <1>1, <1>6, <2>1, RoundKept, Zenon
  <2>3. Seated(l)'
    BY <1>1, <1>6, <2>1, SeatedKept, Zenon
  <2> QED
    BY <2>2, <2>3, Zenon
<1>11. Ends'
  BY <1>1, <1>3, <1>5, Zenon DEF ServerInv, Ends, Threads, Open
<1> QED
  BY <1>7, <1>8, <1>9, <1>10, <1>11, Zenon DEF ServerInv

\* The disk completes the reads of a chunk; the pull is still in progress.
LEMMA ReadDoneStep ==
  ASSUME ServerInv, NEW c \in Clients, ReadDone(c)
  PROVE  ServerInv'
<1> DEFINE k == conn[c]
           a == conn[c].async
<1>1. UNCHANGED <<readonly, running, slots, pc, todo, events, client, backlog, pipe,
                  rr_next, flush_in_flight, flush_io, unsaved, stopped>>
  BY Zenon DEF ReadDone, config, loopVars, dbVars
<1>2. ConnTyped(k) /\ DOMAIN conn = Clients /\ a # Idle /\ AsyncTyped(a) /\ k.state = "open"
  BY Zenon DEF ServerInv, Conns, ReadDone, ConnTyped
<1>3. DOMAIN conn' = Clients /\ \A d \in Clients : d # c => conn'[d] = conn[d]
  BY <1>2, Zenon DEF ReadDone
<1>4. PICK b : AsyncTyped(b) /\ b # Idle /\ conn'[c] = [k EXCEPT !.async = b]
  <2> DEFINE b == [a EXCEPT !.reading = FALSE]
  <2>1. conn'[c] = [k EXCEPT !.async = b]
    BY <1>2, Zenon DEF ReadDone
  <2>2. PICK r \in Reqs, j \in 0..(Chunks - 1), t \in BOOLEAN :
          a = [req |-> r, offset |-> j, reading |-> t]
    BY <1>2, Zenon DEF AsyncTyped
  <2>3. b = [req |-> r, offset |-> j, reading |-> FALSE] /\ a.req = r
    <3>1. \A u : [a EXCEPT !.reading = u] = [req |-> r, offset |-> j, reading |-> u]
      BY <2>2
    <3>2. a.req = r
      BY <2>2
    <3> QED
      BY <3>1, <3>2, Zenon
  <2> HIDE DEF b
  <2>4. b.req = r /\ b \in [req : Reqs, offset : 0..(Chunks - 1), reading : BOOLEAN]
    BY <2>3, Zenon
  <2>5. AsyncTyped(b)
    BY <1>2, <2>3, <2>4, Zenon DEF AsyncTyped
  <2>6. b # Idle
    <3>1. r.kind \in {"pull", "stream"}
      BY <1>2, <2>3, Zenon DEF AsyncTyped
    <3>2. r \in [no : Nat, kind : {"pull", "stream"}]
      BY <3>1, Zenon DEF Reqs
    <3>3. j \in Nat
      BY ServerAssumption
    <3>4. b \in [req : [no : Nat, kind : {"pull", "stream"}], offset : Nat, reading : BOOLEAN]
      BY <2>3, <3>2, <3>3, Zenon
    <3> QED
      BY <3>4, ServerAssumption, Zenon
  <2> QED
    BY <2>1, <2>5, <2>6, Zenon
<1>5. conn'[c] = [state |-> "open", recv |-> k.recv, send |-> k.send, async |-> b,
                  answered |-> k.answered, spoiled |-> k.spoiled]
  BY <1>2, <1>4, Zenon DEF ConnTyped
<1>6. ConnTyped(conn'[c]) /\ conn'[c].state = conn[c].state /\ conn'[c].async # Idle
  BY <1>2, <1>4, <1>5, Zenon DEF ConnTyped
<1>7. \A l : OpenAt(l)' = OpenAt(l)
  BY <1>1, <1>3, <1>6, SameOpen, Zenon DEF Open
<1>8. Typed'
  BY <1>1, Zenon DEF ServerInv, Typed
<1>9. Conns'
  BY <1>1, <1>3, <1>6, Zenon DEF ServerInv, Conns
<1>10. Queues' /\ Queued'
  BY <1>1, <1>3, <1>6, QueuesKept, QueuedKept, Zenon DEF ServerInv
<1>11. ASSUME NEW l \in AllThreads PROVE Round(l)' /\ Seated(l)'
  <2>1. Round(l) /\ Seated(l) /\ OpenAt(l) \subseteq Clients
    BY Zenon DEF ServerInv, OpenAt
  <2>2. Round(l)'
    BY <1>1, <1>3, <1>6, <1>7, <2>1, RoundKept, Zenon
  <2>3. Seated(l)'
    BY <1>1, <1>7, <2>1, SeatedKept, Zenon
  <2> QED
    BY <2>2, <2>3, Zenon
<1>12. Ends'
  BY <1>1, <1>3, <1>6, Zenon DEF ServerInv, Ends, Threads, Open
<1> QED
  BY <1>8, <1>9, <1>10, <1>11, <1>12, Zenon DEF ServerInv

\* An event is a pair.
LEMMA Pairs ==
  ASSUME NEW x, NEW y
  PROVE  <<x, y>>[1] = x /\ <<x, y>>[2] = y /\ \A S, T : x \in S /\ y \in T => <<x, y>> \in S \X T
OBVIOUS

\* The waiting pulls a thread is to resume are its own connections, and so is
\* what epoll reports (Ready), with one event each.
LEMMA LoopStep ==
  ASSUME ServerInv, NEW l \in Threads, Top(l) \/ Wait(l)
  PROVE  ServerInv'
<1>0. l \in AllThreads /\ Round(l) /\ pc[l] # "exited" /\ Typed
  BY Zenon DEF ServerInv, Threads, AllThreads, Top, Wait, ServerAssumption
<1>1. UNCHANGED <<readonly, running, slots, conn, client, backlog, pipe, rr_next, stopped>>
  BY Zenon DEF Top, Wait, config
<1>2. \A m : OpenAt(m)' = OpenAt(m)
  BY <1>1, SameOpen, Zenon DEF Open
<1>3. /\ \A m \in AllThreads : m # l => pc'[m] = pc[m] /\ todo'[m] = todo[m] /\ events'[m] = events[m]
      /\ pc'[l] \in {"top", "resume", "handle"}
      /\ pc' \in [AllThreads -> {"top", "resume", "handle", "exited"}]
      /\ todo' \in [AllThreads -> SUBSET Clients] /\ DOMAIN events' = AllThreads
      /\ flush_in_flight' \in BOOLEAN /\ flush_io' \in BOOLEAN /\ unsaved' \in BOOLEAN
  <2>1. CASE Top(l)
    <3>1. {c \in OpenAt(l) : conn[c].async # Idle} \in SUBSET Clients
      BY Zenon DEF OpenAt
    <3> QED
      BY <1>0, <2>1, <3>1, Zenon DEF Top, Typed, dbVars
  <2>2. CASE Wait(l)
    BY <1>0, <2>2, Zenon DEF Wait, Typed
  <2> QED
    BY <2>1, <2>2, Zenon
<1>4. Round(l)'
  <2>1. CASE Top(l)
    <3>1. /\ pc'[l] = "resume" /\ events'[l] = {}
          /\ todo'[l] = {c \in OpenAt(l) : conn[c].async # Idle}
      BY <1>0, <2>1, Zenon DEF Top, Typed, Round
    <3> QED
      BY <1>0, <1>1, <1>2, <3>1, Zenon DEF Round, Threads
  <2>2. CASE Wait(l)
    <3>1. /\ todo'[l] = {} /\ events'[l] = Ready(l)
          /\ pc'[l] = IF Ready(l) = {} THEN "top" ELSE "handle"
      BY <1>0, <2>2, Zenon DEF Wait, Typed
    <3> DEFINE Reads(c) == client[c].net # <<>> \/ ~client[c].here
               Own(e) == \E c \in OpenAt(l) : e = <<c, Reads(c)>>
               Other(e) == e = <<Listen, TRUE>> /\ (l = Main => backlog # <<>>)
    <3>2. \A e \in Ready(l) : Own(e) \/ Other(e)
      BY Zenon DEF Ready
    <3>3. OpenAt(l) \subseteq Clients /\ Listen \notin Clients /\ \A c : Reads(c) \in BOOLEAN
      BY ServerAssumption, Zenon DEF OpenAt
    <3> HIDE DEF Reads
    <3>4. ASSUME NEW e, Own(e)
          PROVE  /\ e \in (Clients \cup {Listen}) \X BOOLEAN
                 /\ e[1] \in OpenAt(l) /\ e[1] # Listen /\ e = <<e[1], Reads(e[1])>>
      <4>1. PICK c \in OpenAt(l) : e = <<c, Reads(c)>>
        BY <3>4, Zenon
      <4>2. e[1] = c
        BY <4>1, Pairs, Zenon
      <4> QED
        BY <3>3, <4>1, <4>2, Pairs, Zenon
    <3>5. ASSUME NEW e, Other(e)
          PROVE  /\ e \in (Clients \cup {Listen}) \X BOOLEAN
                 /\ e[1] = Listen /\ e[2] = TRUE /\ (l = Main => backlog # <<>>)
      <4>1. TRUE \in BOOLEAN /\ Listen \in Clients \cup {Listen}
        OBVIOUS
      <4> QED
        BY <3>5, <4>1, Pairs, Zenon
    <3>6. ASSUME NEW e \in Ready(l), NEW d \in Ready(l), d[1] = e[1] PROVE d = e
      <4>1. Own(e) /\ Own(d) => d = e
        BY <3>4, <3>6, Zenon
      <4>2. Other(e) /\ Other(d) => d = e
        BY Zenon
      <4>3. ~(Own(e) /\ Other(d)) /\ ~(Own(d) /\ Other(e))
        <5> HIDE DEF Own, Other
        <5> QED
          BY <3>4, <3>5, <3>6, Zenon
      <4> QED
        BY <3>2, <4>1, <4>2, <4>3, Zenon
    <3>7. ASSUME NEW e \in Ready(l)
          PROVE  /\ e \in (Clients \cup {Listen}) \X BOOLEAN
                 /\ e[1] # Listen => e[1] \in OpenAt(l)
                 /\ e[1] = Listen => e[2] = TRUE /\ (l = Main => backlog # <<>>)
      <4> HIDE DEF Own, Other
      <4>1. CASE Own(e)
        BY <3>4, <4>1, Zenon
      <4>2. CASE Other(e)
        BY <3>5, <4>2, Zenon
      <4> QED
        BY <3>2, <4>1, <4>2, Zenon
    <3> QED
      <4>1. l \in Threads'
        BY <1>1, Zenon DEF Threads
      <4>2. ASSUME NEW e \in events'[l]
            PROVE  /\ e \in (Clients \cup {Listen}) \X BOOLEAN
                   /\ e[1] # Listen => e[1] \in OpenAt(l)'
                   /\ e[1] = Listen => e[2] = TRUE /\ (l = Main => backlog' # <<>>)
                   /\ \A d \in events'[l] : d[1] = e[1] => d = e
        BY <1>1, <1>2, <3>1, <3>6, <3>7, Zenon
      <4>3. pc'[l] # "resume" /\ (pc'[l] # "handle" => events'[l] = {})
        BY <3>1, Zenon
      <4> QED
        BY <3>1, <4>1, <4>2, <4>3, Zenon DEF Round
  <2> QED
    BY <2>1, <2>2, Zenon
<1>5. Typed'
  BY <1>0, <1>1, <1>3, Zenon DEF Typed
<1>6. Conns'
  BY <1>1, Zenon DEF ServerInv, Conns
<1>7. Queues' /\ Queued'
  BY <1>1, QueuesKept, QueuedKept, Zenon DEF ServerInv
<1>8. ASSUME NEW m \in AllThreads PROVE Round(m)' /\ Seated(m)'
  <2>1. Round(m) /\ Seated(m)
    BY Zenon DEF ServerInv
  <2>2. Round(m)'
    BY <1>1, <1>2, <1>3, <1>4, <2>1, RoundKept, Zenon
  <2>3. Seated(m)'
    BY <1>0, <1>1, <1>2, <1>3, <2>1, SeatedKept, Zenon
  <2> QED
    BY <2>2, <2>3, Zenon
<1>9. Ends'
  BY <1>0, <1>1, <1>3, Zenon DEF ServerInv, Ends, Threads, AllThreads, Open
<1> QED
  BY <1>5, <1>6, <1>7, <1>8, <1>9, Zenon DEF ServerInv
-----------------------------------------------------------------------------
(* A thread handles one connection. *)

\* A connection that has not been used, or is closed.
LEMMA NoConnTyped ==
  ASSUME NEW state \in {"away", "backlog", "piped", "open", "closed"}
  PROVE  ConnTyped(NoConn(state)) /\ NoConn(state).state = state /\ NoConn(state).async = Idle
<1>1. <<>> \in Seq(Reqs) /\ Len(<<>>) = 0 /\ RecvCap \in Nat
  BY ServerAssumption
<1> QED
  BY <1>1 DEF NoConn, ConnTyped

\* What thread l has done with its round: the other threads have not moved.
Moved(l) ==
  /\ \A m \in AllThreads : m # l => /\ pc'[m] = pc[m] /\ todo'[m] = todo[m]
                                    /\ events'[m] = events[m]
  /\ pc' \in [AllThreads -> {"top", "resume", "handle", "exited"}]
  /\ todo' \in [AllThreads -> SUBSET Clients] /\ DOMAIN events' = AllThreads
  /\ pc'[l] # "exited" /\ todo'[l] \subseteq todo[l] /\ events'[l] \subseteq events[l]
  /\ pc'[l] # "resume" => todo'[l] = {}
  /\ pc'[l] # "handle" => events'[l] = {}

\* A thread that is done with a connection keeps it or closes it; it is in none
\* of its lists any more.  It stays typed and the other ones are not touched.
LEMMA SettleStep ==
  ASSUME ServerInv, NEW l \in Threads, pc[l] # "exited", NEW c \in OpenAt(l), NEW o, Fits(o, c),
         Settle(c, o), Moved(l), c \notin todo'[l], \A e \in events'[l] : e[1] # c,
         UNCHANGED <<readonly, slots, running, backlog, pipe, rr_next, stopped>>
  PROVE  ServerInv'
<1>1. /\ l \in AllThreads /\ Round(l) /\ Seated(l) /\ Typed /\ ~stopped
      /\ c \in Clients /\ Open(c) /\ client[c].thread = l
      /\ DOMAIN conn = Clients /\ DOMAIN client = Clients
  BY Zenon DEF ServerInv, Conns, Typed, Threads, AllThreads, OpenAt, Ends
<1>2. /\ DOMAIN conn' = Clients /\ DOMAIN client' = Clients
      /\ \A d \in Clients : d # c => conn'[d] = conn[d] /\ client'[d] = client[d]
      /\ conn'[c] = (IF o.close THEN NoConn("closed") ELSE o.conn) /\ client'[c] = o.client
  BY <1>1, Zenon DEF Settle
<1>3. /\ ConnTyped(conn'[c]) /\ ClientTyped(client'[c]) /\ client'[c].thread = l
      /\ conn'[c].state = IF o.close THEN "closed" ELSE "open"
  BY <1>1, <1>2, NoConnTyped, Zenon DEF Fits
<1>4. ASSUME NEW m PROVE OpenAt(m)' = IF o.close THEN OpenAt(m) \ {c} ELSE OpenAt(m)
  <2>1. \A d \in Clients : d # c => (Open(d)' <=> Open(d)) /\ client'[d].thread = client[d].thread
    BY <1>2, Zenon DEF Open
  <2>2. Open(c)' <=> ~o.close
    BY <1>3, Zenon DEF Open
  <2> QED
    BY <1>1, <1>3, <2>1, <2>2, Zenon DEF OpenAt
<1>5. \A m : m # l => OpenAt(m)' = OpenAt(m)
  BY <1>1, <1>4, ZenonT(60) DEF OpenAt
<1>6. Seated(l)'
  <2>1. Cardinality(OpenAt(l)) <= slots /\ IsFiniteSet(OpenAt(l)) /\ slots \in Nat
    BY <1>1, ServerAssumption, Zenon DEF Seated, Typed
  <2>2. /\ IsFiniteSet(OpenAt(l) \ {c}) /\ Cardinality(OpenAt(l) \ {c}) = Cardinality(OpenAt(l)) - 1
        /\ Cardinality(OpenAt(l)) \in Nat
    BY <2>1, FS_RemoveElement, FS_CardinalityType, Zenon
  <2>3. \A n \in Nat : n <= slots => n - 1 <= slots
    BY <2>1
  <2>4. Cardinality(OpenAt(l) \ {c}) <= slots
    BY <2>1, <2>2, <2>3, Zenon
  <2>5. IsFiniteSet(OpenAt(l)') /\ Cardinality(OpenAt(l)') <= slots
    BY <1>4, <2>1, <2>2, <2>4, Zenon
  <2>6. l \in Threads' /\ pc'[l] # "exited"
    BY Zenon DEF Threads, Moved
  <2> QED
    BY <2>5, <2>6, Zenon DEF Seated
<1>7. Round(l)'
  <2>1. \A d \in OpenAt(l) : d # c => d \in OpenAt(l)' /\ conn'[d] = conn[d]
    BY <1>2, <1>4, ZenonT(60) DEF OpenAt
  <2>2. l \in Threads'
    BY Zenon DEF Threads
  <2> QED
    BY <1>1, <2>1, <2>2, ZenonT(60) DEF Round, Moved
<1>8. flush_in_flight' \in BOOLEAN /\ flush_io' \in BOOLEAN /\ unsaved' \in BOOLEAN
  BY <1>1, Zenon DEF Settle, Execute, dbVars, Typed
<1>9. Typed'
  BY <1>1, <1>8, Zenon DEF Typed, Moved
<1>10. Conns'
  BY <1>2, <1>3, Zenon DEF ServerInv, Conns
<1>11. Queues' /\ Queued'
  <2>1. conn[c].state = "open" /\ conn'[c].state \notin {"backlog", "piped"}
    <3>1. "open" \notin {"backlog", "piped"} /\ "closed" \notin {"backlog", "piped"}
      OBVIOUS
    <3> QED
      BY <1>1, <1>3, <3>1, Zenon DEF Open
  <2>2. ASSUME NEW d \in Clients, conn[d].state \in {"backlog", "piped"} PROVE conn'[d].state = conn[d].state
    <3>1. d # c
      BY <2>1, <2>2, Zenon
    <3> QED
      BY <1>2, <3>1, Zenon
  <2>3. ASSUME NEW d \in Clients, conn'[d].state \in {"backlog", "piped"} PROVE conn[d].state = conn'[d].state
    <3>1. d # c
      BY <2>1, <2>3, Zenon
    <3> QED
      BY <1>2, <3>1, Zenon
  <2> QED
    BY <2>2, <2>3, QueuesKept, QueuedKept, Zenon DEF ServerInv
<1>12. ASSUME NEW m \in AllThreads, m # l PROVE Round(m)' /\ Seated(m)'
  <2>1. Round(m) /\ Seated(m)
    BY Zenon DEF ServerInv
  <2>2. \A d \in OpenAt(m) : conn'[d] = conn[d]
    BY <1>1, <1>2, <1>12, Zenon DEF OpenAt
  <2>3. Round(m)'
    <3>1. \A d \in OpenAt(m) : d \in OpenAt(m)' /\ (conn[d].async # Idle => conn'[d].async # Idle)
      BY <1>5, <1>12, <2>2, Zenon
    <3>2. pc'[m] = pc[m] /\ todo'[m] = todo[m] /\ events'[m] = events[m]
      BY <1>12, Zenon DEF Moved
    <3> QED
      BY <2>1, <3>1, <3>2, RoundKept, Zenon
  <2>4. Seated(m)'
    BY <1>5, <1>12, <2>1, SeatedKept, Zenon DEF Moved
  <2> QED
    BY <2>3, <2>4, Zenon
<1>13. Ends'
  <2>1. \A d \in Clients : Open(d)' => client'[d].thread \in AllThreads
    BY <1>1, <1>2, <1>3, Zenon DEF ServerInv, Ends, Open
  <2> QED
    BY <1>1, <2>1, Zenon DEF Ends
<1> QED
  BY <1>6, <1>7, <1>9, <1>10, <1>11, <1>12, <1>13, Zenon DEF ServerInv

\* A waiting pull is resumed, or an event on a connection is handled.
LEMMA HandleStep ==
  ASSUME ServerInv, NEW l \in Threads, ResumeConn(l) \/ ServeConn(l)
  PROVE  ServerInv'
<1>1. l \in AllThreads /\ Round(l) /\ Typed /\ Conns
  BY Zenon DEF ServerInv, Threads, AllThreads
<1>2. CASE ResumeConn(l)
  <2>1. PICK c \in todo[l] : \E o \in Resume(c) : Settle(c, o) /\ todo' = [todo EXCEPT ![l] = @ \ {c}]
    BY <1>2, Zenon DEF ResumeConn
  <2>2. PICK o \in Resume(c) : Settle(c, o)
    BY <2>1, Zenon
  <2>3. c \in OpenAt(l) /\ c \in Clients /\ Open(c) /\ conn[c].async # Idle /\ pc[l] = "resume"
    BY <1>1, <1>2, Zenon DEF Round, ResumeConn, OpenAt
  <2>4. Fits(o, c)
    BY <1>1, <2>2, <2>3, ResumeFits, Zenon
  <2>5. UNCHANGED <<readonly, slots, running, pc, events, backlog, pipe, rr_next, stopped>>
    BY <1>2, Zenon DEF ResumeConn, config
  <2>6. /\ todo'[l] = todo[l] \ {c} /\ todo' \in [AllThreads -> SUBSET Clients]
        /\ \A m \in AllThreads : m # l => todo'[m] = todo[m]
    BY <1>1, <2>1, Zenon DEF Typed
  <2>7. events[l] = {} /\ pc[l] # "exited"
    BY <1>1, <2>3, Zenon DEF Round
  <2>8. Moved(l)
    BY <1>1, <2>3, <2>5, <2>6, <2>7, Zenon DEF Moved, Typed
  <2> QED
    BY <2>2, <2>3, <2>4, <2>5, <2>6, <2>7, <2>8, SettleStep, Zenon
<1>3. CASE ServeConn(l)
  <2>1. PICK e \in events[l] : e[1] # Listen /\ Take(l, e) /\ \E o \in Serve(e[1], e[2]) : Settle(e[1], o)
    BY <1>3, Zenon DEF ServeConn
  <2>2. PICK o \in Serve(e[1], e[2]) : Settle(e[1], o)
    BY <2>1, Zenon
  <2>3. e[1] \in OpenAt(l) /\ e[1] \in Clients /\ Open(e[1]) /\ \A d \in events[l] : d[1] = e[1] => d = e
    BY <1>1, <2>1, Zenon DEF Round, OpenAt
  <2>4. Fits(o, e[1])
    BY <1>1, <2>2, <2>3, ServeFits, Zenon
  <2>5. UNCHANGED <<readonly, slots, running, todo, backlog, pipe, rr_next, stopped>>
    BY <1>3, Zenon DEF ServeConn, config
  <2>6. /\ pc[l] = "handle" /\ events'[l] = events[l] \ {e} /\ DOMAIN events' = AllThreads
        /\ pc'[l] = IF events[l] = {e} THEN "top" ELSE "handle"
        /\ \A m \in AllThreads : m # l => pc'[m] = pc[m] /\ events'[m] = events[m]
        /\ pc' \in [AllThreads -> {"top", "resume", "handle", "exited"}]
    BY <1>1, <2>1, Zenon DEF Take, Typed
  <2>7. todo[l] = {} /\ pc[l] # "exited" /\ pc'[l] # "exited"
    BY <1>1, <2>6, Zenon DEF Round
  <2>8. Moved(l)
    BY <1>1, <2>5, <2>6, <2>7, Zenon DEF Moved, Typed
  <2>9. \A d \in events'[l] : d[1] # e[1]
    BY <2>3, <2>6, Zenon
  <2> QED
    BY <2>2, <2>3, <2>4, <2>5, <2>7, <2>8, <2>9, SettleStep, Zenon
<1> QED
  BY <1>2, <1>3, Zenon
-----------------------------------------------------------------------------
(* Connections are admitted. *)

\* As many connections are admitted as have an index within the free slots.
LEMMA ImageBound ==
  ASSUME NEW cs, NEW J \in SUBSET DOMAIN cs, NEW n \in Nat, J \subseteq 1..n
  PROVE  IsFiniteSet({cs[i] : i \in J}) /\ Cardinality({cs[i] : i \in J}) <= n
<1> DEFINE T == {cs[i] : i \in J}
           f == [i \in J |-> cs[i]]
<1>1. f \in Surjection(J, T)
  <2>1. f \in [J -> T] /\ \A t \in T : \E i \in J : f[i] = t
    BY Zenon
  <2> QED
    BY <2>1, Zenon DEF Surjection
<1>2. IsFiniteSet(1..n) /\ Cardinality(1..n) = n
  BY FS_Interval
<1>3. IsFiniteSet(J) /\ Cardinality(J) <= n
  BY <1>2, FS_Subset, Zenon
<1>4. IsFiniteSet(T) /\ Cardinality(T) <= Cardinality(J)
  BY <1>1, <1>3, FS_Surjection, Zenon
<1>5. Cardinality(T) \in Nat /\ Cardinality(J) \in Nat
  BY <1>3, <1>4, FS_CardinalityType, Zenon
<1> HIDE DEF T
<1>6. Cardinality(T) <= n
  BY <1>3, <1>4, <1>5
<1> QED
  BY <1>4, <1>6, Zenon DEF T

\* A thread that admits connections from a queue opens no more of them than it
\* has free slots (find_free_slot).
LEMMA AdmitStep ==
  ASSUME ServerInv, NEW l \in Threads, pc[l] # "exited", NEW cs \in Seq(Clients),
         \A i \in 1..Len(cs) : ~Open(cs[i]), Admit(l, cs), Moved(l),
         \A e \in events'[l] : e[1] # Listen,
         UNCHANGED <<readonly, slots, running, rr_next, flush_in_flight, flush_io, unsaved, stopped>>,
         backlog' \in Seq(Clients), pipe' \in [Workers -> Seq(Clients)], Queues', Queued',
         l # Main => backlog' = backlog
  PROVE  ServerInv'
<1> DEFINE free == slots - Cardinality(OpenAt(l))
           In(c) == \E i \in 1..Len(cs) : cs[i] = c /\ i <= free
           I == {c \in Range(cs) : In(c)}
<1>1. /\ l \in AllThreads /\ Round(l) /\ Seated(l) /\ Typed /\ ~stopped
      /\ DOMAIN conn = Clients /\ DOMAIN client = Clients
  BY Zenon DEF ServerInv, Conns, Typed, Threads, AllThreads, Ends
<1>2. DOMAIN cs = 1..Len(cs) /\ Range(cs) \subseteq Clients /\ \A c \in Range(cs) : ~Open(c)
  <2>1. DOMAIN cs = 1..Len(cs) /\ \A i \in 1..Len(cs) : cs[i] \in Clients
    OBVIOUS
  <2> QED
    BY <2>1, Zenon DEF Range
<1>3. /\ DOMAIN conn' = Clients /\ DOMAIN client' = Clients
      /\ \A c \in Clients \ Range(cs) : conn'[c] = conn[c] /\ client'[c] = client[c]
      /\ \A c \in Range(cs) : /\ conn'[c] = NoConn(IF In(c) THEN "open" ELSE "closed")
                              /\ client'[c] = [client[c] EXCEPT !.thread = l]
  BY <1>2, Zenon DEF Admit
<1> HIDE DEF In
<1>4. ASSUME NEW c \in Range(cs)
      PROVE  /\ ConnTyped(conn'[c]) /\ ClientTyped(client'[c]) /\ client'[c].thread = l
             /\ (Open(c)' <=> In(c))
  <2>1. ClientTyped(client[c])
    BY <1>2, Zenon DEF ServerInv, Conns
  <2>2. client'[c] = [client[c] EXCEPT !.thread = l]
    BY <1>3, Zenon
  <2>3. ClientTyped(client'[c]) /\ client'[c].thread = l
    BY <2>1, <2>2, Zenon DEF ClientTyped
  <2>4. CASE In(c)
    BY <1>3, <2>3, <2>4, NoConnTyped, Zenon DEF Open
  <2>5. CASE ~In(c)
    <3>1. conn'[c] = NoConn("closed")
      BY <1>3, <2>5, Zenon
    <3>2. ConnTyped(conn'[c]) /\ conn'[c].state = "closed"
      BY <3>1, NoConnTyped, Zenon
    <3>3. "closed" # "open"
      OBVIOUS
    <3> QED
      BY <2>3, <2>5, <3>2, <3>3, Zenon DEF Open
  <2> QED
    BY <2>4, <2>5, Zenon
<1>5. OpenAt(l)' = OpenAt(l) \cup I /\ OpenAt(l) \cap I = {}
  <2>1. \A c \in Clients \ Range(cs) : (Open(c)' <=> Open(c)) /\ client'[c].thread = client[c].thread
    BY <1>3, Zenon DEF Open
  <2> QED
    BY <1>2, <1>4, <2>1, Zenon DEF OpenAt
<1>6. \A m : m # l => OpenAt(m)' = OpenAt(m)
  <2>1. \A c \in Clients \ Range(cs) : (Open(c)' <=> Open(c)) /\ client'[c].thread = client[c].thread
    BY <1>3, Zenon DEF Open
  <2> QED
    BY <1>2, <1>4, <2>1, ZenonT(60) DEF OpenAt
<1>7. Seated(l)'
  <2>1. /\ Cardinality(OpenAt(l)) <= slots /\ Cardinality(OpenAt(l)) \in Nat
        /\ IsFiniteSet(OpenAt(l)) /\ slots \in Nat
    BY <1>1, ServerAssumption, FS_CardinalityType, Zenon DEF Seated, Typed
  <2>2. free \in Nat /\ free = slots - Cardinality(OpenAt(l))
    BY <2>1
  <2> DEFINE J == {i \in 1..Len(cs) : i <= free}
  <2> HIDE DEF free
  <2>3. J \in SUBSET DOMAIN cs /\ J \subseteq 1..free /\ I = {cs[i] : i \in J}
    <3>1. J \in SUBSET DOMAIN cs /\ J \subseteq 1..free
      BY <1>2, <2>2
    <3>2. I = {cs[i] : i \in J}
      BY <1>2, Zenon DEF In, Range
    <3> QED
      BY <3>1, <3>2, Zenon
  <2>4. IsFiniteSet(I) /\ Cardinality(I) <= free /\ Cardinality(I) \in Nat
    BY <2>2, <2>3, ImageBound, FS_CardinalityType, ZenonT(60)
  <2> HIDE DEF I
  <2>5. IsFiniteSet(OpenAt(l)') /\ Cardinality(OpenAt(l)') = Cardinality(OpenAt(l)) + Cardinality(I)
    <3>1. Cardinality({}) = 0
      BY FS_EmptySet, Zenon
    <3>2. /\ IsFiniteSet(OpenAt(l) \cup I)
          /\ Cardinality(OpenAt(l) \cup I) = Cardinality(OpenAt(l)) + Cardinality(I) - 0
      BY <1>5, <2>1, <2>4, <3>1, FS_Union, Zenon
    <3>3. \A x, y \in Nat : x + y - 0 = x + y
      OBVIOUS
    <3> QED
      BY <1>5, <2>1, <2>4, <3>2, <3>3, Zenon
  <2>6. \A x, y, z \in Nat : y <= z - x => x + y <= z
    OBVIOUS
  <2>7. Cardinality(OpenAt(l)') <= slots
    BY <2>1, <2>2, <2>4, <2>5, <2>6, Zenon
  <2>8. l \in Threads' /\ pc'[l] # "exited"
    BY Zenon DEF Threads, Moved
  <2> QED
    BY <2>5, <2>7, <2>8, Zenon DEF Seated
<1>8. ASSUME NEW m, NEW c \in OpenAt(m) PROVE c \in OpenAt(m)' /\ conn'[c] = conn[c]
  <2>1. c \in Clients \ Range(cs)
    BY <1>2, Zenon DEF OpenAt
  <2>2. c \in OpenAt(m)'
    BY <1>5, <1>6, Zenon
  <2> QED
    BY <1>3, <2>1, <2>2, Zenon
<1>9. Round(l)'
  <2>1. l \in Threads'
    BY Zenon DEF Threads
  <2> QED
    BY <1>1, <1>8, <2>1, ZenonT(60) DEF Round, Moved
<1>10. ASSUME NEW m \in AllThreads, m # l PROVE Round(m)' /\ Seated(m)'
  <2>1. Round(m) /\ Seated(m)
    BY Zenon DEF ServerInv
  <2>2. pc'[m] = pc[m] /\ todo'[m] = todo[m] /\ events'[m] = events[m]
    BY <1>10, Zenon DEF Moved
  <2>3. m = Main => backlog' = backlog
    BY <1>10, Zenon
  <2>4. Round(m)'
    BY <1>8, <2>1, <2>2, <2>3, RoundKept, Zenon
  <2>5. Seated(m)'
    BY <1>6, <1>10, <2>1, <2>2, SeatedKept, Zenon
  <2> QED
    BY <2>4, <2>5, Zenon
<1>11. Typed'
  BY <1>1, Zenon DEF Typed, Moved
<1>12. Conns'
  BY <1>3, <1>4, Zenon DEF ServerInv, Conns
<1>13. Ends'
  <2>1. \A d \in Clients : Open(d)' => client'[d].thread \in AllThreads
    BY <1>1, <1>3, <1>4, Zenon DEF ServerInv, Ends, Open
  <2> QED
    BY <1>1, <2>1, Zenon DEF Ends
<1> QED
  BY <1>7, <1>9, <1>10, <1>11, <1>12, <1>13, Zenon DEF ServerInv

\* An event that is taken up was the only one of its connection.
LEMMA TakeMoves ==
  ASSUME ServerInv, NEW l \in Threads, NEW e, Take(l, e), todo' = todo
  PROVE  /\ Moved(l) /\ pc[l] = "handle" /\ e \in events[l]
         /\ \A d \in events'[l] : d[1] # e[1]
<1>1. l \in AllThreads /\ Round(l) /\ Typed
  BY Zenon DEF ServerInv, Threads, AllThreads
<1>2. /\ pc[l] = "handle" /\ e \in events[l] /\ events'[l] = events[l] \ {e} /\ DOMAIN events' = AllThreads
      /\ pc'[l] = IF events[l] = {e} THEN "top" ELSE "handle"
      /\ \A m \in AllThreads : m # l => pc'[m] = pc[m] /\ events'[m] = events[m]
      /\ pc' \in [AllThreads -> {"top", "resume", "handle", "exited"}]
  BY <1>1, Zenon DEF Take, Typed
<1>3. todo[l] = {} /\ pc'[l] # "exited"
  BY <1>1, <1>2, Zenon DEF Round
<1>4. Moved(l)
  BY <1>1, <1>2, <1>3, Zenon DEF Moved, Typed
<1>5. \A d \in events[l] : d[1] = e[1] => d = e
  BY <1>1, <1>2, Zenon DEF Round
<1> QED
  BY <1>2, <1>4, <1>5, Zenon

\* server_loop accepts the connection at the head of the backlog.
LEMMA AcceptStep ==
  ASSUME ServerInv, Main \in Threads, AcceptConn
  PROVE  ServerInv'
<1> DEFINE e == <<Listen, TRUE>>
           c == Head(backlog)
<1>1. /\ UNCHANGED <<readonly, slots, running, todo, pipe, rr_next, flush_in_flight, flush_io, unsaved, stopped>>
      /\ Take(Main, e) /\ Admit(Main, <<c>>) /\ backlog' = Tail(backlog)
  BY Zenon DEF AcceptConn, config, dbVars
<1>2. Moved(Main) /\ pc[Main] = "handle" /\ e \in events[Main] /\ \A d \in events'[Main] : d[1] # Listen
  <2>1. e[1] = Listen /\ todo' = todo
    BY <1>1, Pairs, Zenon
  <2> HIDE DEF e
  <2> QED
    BY <1>1, <2>1, TakeMoves, Zenon
<1>3. Typed /\ Queues /\ Round(Main) /\ e[1] = Listen
  BY Pairs, Zenon DEF ServerInv, Threads, AllThreads
<1>4. backlog # <<>> /\ backlog \in Seq(Clients) /\ pipe \in [Workers -> Seq(Clients)]
  BY <1>2, <1>3, Zenon DEF Round, Typed
<1>5. /\ c \in Clients /\ c = backlog[1] /\ 1 \in 1..Len(backlog)
      /\ <<c>> \in Seq(Clients) /\ Len(<<c>>) = 1 /\ <<c>>[1] = c
      /\ Tail(backlog) \in Seq(Clients) /\ Range(<<c>>) = {c}
  <2>1. /\ c \in Clients /\ c = backlog[1] /\ 1 \in 1..Len(backlog)
        /\ <<c>> \in Seq(Clients) /\ Len(<<c>>) = 1 /\ <<c>>[1] = c
        /\ Tail(backlog) \in Seq(Clients) /\ DOMAIN <<c>> = {1}
    BY <1>4
  <2> QED
    BY <2>1, Zenon DEF Range
<1>6. conn[c].state = "backlog"
  BY <1>3, <1>5, Zenon DEF Queues
<1>7. ~Open(c)
  BY <1>6, Zenon DEF Open
<1>8. \A d \in Clients : d # c => conn'[d] = conn[d]
  BY <1>1, <1>5, Zenon DEF Admit
<1> HIDE DEF c
<1>9. Queues'
  <2>1. ASSUME NEW i \in 1..Len(backlog') PROVE i + 1 \in 2..Len(backlog) /\ backlog'[i] = backlog[i + 1]
    BY <1>1, <1>4
  <2>2. ASSUME NEW i \in 1..Len(backlog') PROVE backlog'[i] \in Clients /\ conn'[backlog'[i]].state = "backlog"
    <3>1. i + 1 \in 1..Len(backlog) /\ i + 1 # 1 /\ backlog[i + 1] \in Clients
      BY <1>4, <2>1
    <3>2. backlog[i + 1] # c /\ conn[backlog[i + 1]].state = "backlog"
      BY <1>3, <1>5, <3>1, Zenon DEF Queues
    <3> QED
      BY <1>8, <2>1, <3>1, <3>2, Zenon
  <2>3. ASSUME NEW i \in 1..Len(backlog'), NEW j \in 1..Len(backlog'), backlog'[i] = backlog'[j]
        PROVE  i = j
    <3>1. i + 1 \in 1..Len(backlog) /\ j + 1 \in 1..Len(backlog) /\ backlog[i + 1] = backlog[j + 1]
      BY <2>1, <2>3
    <3>2. i + 1 = j + 1
      BY <1>3, <3>1, Zenon DEF Queues
    <3> QED
      BY <3>2
  <2>4. ASSUME NEW w \in Workers, NEW i \in 1..Len(pipe[w]) PROVE conn'[pipe[w][i]].state = "piped"
    <3>1. pipe[w][i] \in Clients /\ conn[pipe[w][i]].state = "piped"
      <4>1. pipe[w] \in Seq(Clients)
        BY <1>4, Zenon
      <4> QED
        BY <1>3, <4>1 DEF Queues
    <3>2. pipe[w][i] # c
      BY <1>6, <3>1, Zenon
    <3> QED
      BY <1>8, <3>1, <3>2, Zenon
  <2>5. \A w, v \in Workers : \A i \in 1..Len(pipe[w]), j \in 1..Len(pipe[v]) :
          pipe[w][i] = pipe[v][j] => w = v
    BY <1>3, Zenon DEF Queues
  <2>6. pipe' = pipe
    BY <1>1, Zenon
  <2> QED
    BY <2>2, <2>3, <2>4, <2>5, <2>6 DEF Queues
<1>10. (\A i \in 1..Len(<<c>>) : ~Open(<<c>>[i])) /\ Queued'
  <2>1. conn'[c].state \in {"open", "closed"}
    <3>1. conn'[c] = NoConn("open") \/ conn'[c] = NoConn("closed")
      BY <1>1, <1>5, Zenon DEF Admit, c
    <3> QED
      BY <3>1, NoConnTyped, Zenon
  <2>2. conn'[c].state # "backlog" /\ conn'[c].state # "piped"
    BY <2>1, Zenon
  <2>3. Queued
    BY Zenon DEF ServerInv
  <2>4. ASSUME NEW d \in Clients, conn'[d].state = "backlog"
        PROVE  \E i \in 1..Len(backlog') : backlog'[i] = d
    <3>1. d # c /\ conn[d].state = "backlog"
      BY <1>8, <2>2, <2>4, Zenon
    <3>2. PICK i \in 1..Len(backlog) : backlog[i] = d
      BY <2>3, <3>1, Zenon DEF Queued
    <3>3. i # 1
      BY <1>5, <3>1, <3>2, Zenon
    <3>4. i - 1 \in 1..Len(backlog') /\ backlog'[i - 1] = backlog[i]
      BY <1>1, <1>4, <3>3
    <3> QED
      BY <3>2, <3>4, Zenon
  <2>5. ASSUME NEW d \in Clients, conn'[d].state = "piped"
        PROVE  \E w \in Workers : \E i \in 1..Len(pipe'[w]) : pipe'[w][i] = d
    <3>1. conn[d].state = "piped"
      BY <1>8, <2>2, <2>5, Zenon
    <3> QED
      BY <1>1, <2>3, <3>1, Zenon DEF Queued
  <2>6. \A i \in 1..Len(<<c>>) : ~Open(<<c>>[i])
    BY <1>5, <1>7
  <2> QED
    BY <2>4, <2>5, <2>6, Zenon DEF Queued
<1>11. pc[Main] # "exited"
  BY <1>2, Zenon
<1>12. backlog' \in Seq(Clients) /\ pipe' \in [Workers -> Seq(Clients)] /\ Admit(Main, <<c>>)
  BY <1>1, <1>4, <1>5, Zenon DEF c
<1> QED
  BY <1>1, <1>2, <1>5, <1>9, <1>10, <1>11, <1>12, AdmitStep, Zenon

\* A worker takes the connections out of its pipe.
LEMMA NotifyStep ==
  ASSUME ServerInv, NEW l \in Threads, l # Main, NotifyConns(l)
  PROVE  ServerInv'
<1> DEFINE e == <<Listen, TRUE>>
           cs == pipe[l]
<1>1. /\ UNCHANGED <<readonly, slots, running, todo, backlog, rr_next, flush_in_flight, flush_io, unsaved, stopped>>
      /\ Take(l, e) /\ Admit(l, cs) /\ pipe' = [pipe EXCEPT ![l] = <<>>]
  BY Zenon DEF NotifyConns, config, dbVars
<1>2. Moved(l) /\ pc[l] = "handle" /\ \A d \in events'[l] : d[1] # Listen
  <2>1. e[1] = Listen /\ todo' = todo
    BY <1>1, Pairs, Zenon
  <2> HIDE DEF e, cs
  <2> QED
    BY <1>1, <2>1, TakeMoves, Zenon
<1>3. Typed /\ Queues /\ l \in Workers
  BY Zenon DEF ServerInv, Threads
<1>4. backlog \in Seq(Clients) /\ pipe \in [Workers -> Seq(Clients)] /\ cs \in Seq(Clients)
  BY <1>3, Zenon DEF Typed
<1>5. \A i \in 1..Len(cs) : conn[cs[i]].state = "piped"
  BY <1>3, Zenon DEF Queues
<1>6. \A i \in 1..Len(cs) : ~Open(cs[i])
  BY <1>5, Zenon DEF Open
<1>7. \A d \in Clients : (\A i \in 1..Len(cs) : d # cs[i]) => conn'[d] = conn[d]
  <2>1. DOMAIN cs = 1..Len(cs)
    BY <1>4
  <2> QED
    BY <1>1, <2>1, Zenon DEF Admit, Range
<1>8. /\ pipe' \in [Workers -> Seq(Clients)] /\ pipe'[l] = <<>> /\ Len(pipe'[l]) = 0
      /\ \A w \in Workers : w # l => pipe'[w] = pipe[w]
  BY <1>1, <1>3, <1>4
<1>9. Queues'
  <2>1. ASSUME NEW i \in 1..Len(backlog) PROVE conn'[backlog[i]].state = "backlog"
    <3>1. backlog[i] \in Clients /\ conn[backlog[i]].state = "backlog"
      BY <1>3, <1>4 DEF Queues
    <3>2. \A j \in 1..Len(cs) : backlog[i] # cs[j]
      BY <1>5, <3>1, Zenon
    <3> QED
      BY <1>7, <3>1, <3>2, Zenon
  <2>2. ASSUME NEW w \in Workers, NEW i \in 1..Len(pipe'[w])
        PROVE  w # l /\ i \in 1..Len(pipe[w]) /\ pipe'[w][i] = pipe[w][i]
    BY <1>8
  <2>3. ASSUME NEW w \in Workers, NEW i \in 1..Len(pipe'[w]) PROVE conn'[pipe'[w][i]].state = "piped"
    <3>1. w # l /\ i \in 1..Len(pipe[w]) /\ pipe'[w][i] = pipe[w][i]
      BY <2>2, Zenon
    <3>2. pipe[w] \in Seq(Clients)
      BY <1>4, Zenon
    <3>3. pipe[w][i] \in Clients
      BY <3>1, <3>2
    <3>4. conn[pipe[w][i]].state = "piped" /\ \A j \in 1..Len(cs) : pipe[w][i] # cs[j]
      BY <1>3, <3>1, Zenon DEF Queues
    <3> QED
      BY <1>7, <3>1, <3>3, <3>4, Zenon
  <2>4. ASSUME NEW w \in Workers, NEW v \in Workers,
               NEW i \in 1..Len(pipe'[w]), NEW j \in 1..Len(pipe'[v]), pipe'[w][i] = pipe'[v][j]
        PROVE  w = v
    <3>1. \A x \in 1..Len(pipe[w]), y \in 1..Len(pipe[v]) : pipe[w][x] = pipe[v][y] => w = v
      BY <1>3, Zenon DEF Queues
    <3>2. i \in 1..Len(pipe[w]) /\ j \in 1..Len(pipe[v]) /\ pipe[w][i] = pipe[v][j]
      BY <2>2, <2>4, Zenon
    <3> QED
      BY <3>1, <3>2, Zenon
  <2>5. \A i, j \in 1..Len(backlog) : backlog[i] = backlog[j] => i = j
    BY <1>3, Zenon DEF Queues
  <2>6. backlog' = backlog
    BY <1>1, Zenon
  <2> QED
    BY <2>1, <2>3, <2>4, <2>5, <2>6 DEF Queues
<1>10. Queued'
  <2>1. ASSUME NEW d \in Clients, conn'[d].state \in {"backlog", "piped"}
        PROVE  conn'[d] = conn[d] /\ \A i \in 1..Len(cs) : d # cs[i]
    <3>1. ASSUME NEW i \in 1..Len(cs), d = cs[i] PROVE FALSE
      <4>1. d \in Range(cs)
        <5>1. DOMAIN cs = 1..Len(cs)
          BY <1>4
        <5> QED
          BY <3>1, <5>1, Zenon DEF Range
      <4>2. conn'[d] = NoConn("open") \/ conn'[d] = NoConn("closed")
        BY <1>1, <4>1, Zenon DEF Admit
      <4>3. conn'[d].state = "open" \/ conn'[d].state = "closed"
        BY <4>2, NoConnTyped, Zenon
      <4> QED
        BY <2>1, <4>3, Zenon
    <3> QED
      BY <1>7, <3>1, Zenon
  <2>2. Queued
    BY Zenon DEF ServerInv
  <2>3. ASSUME NEW d \in Clients, conn'[d].state = "backlog"
        PROVE  \E i \in 1..Len(backlog') : backlog'[i] = d
    BY <1>1, <2>1, <2>2, <2>3, Zenon DEF Queued
  <2>4. ASSUME NEW d \in Clients, conn'[d].state = "piped"
        PROVE  \E w \in Workers : \E i \in 1..Len(pipe'[w]) : pipe'[w][i] = d
    <3>1. conn[d].state = "piped" /\ \A i \in 1..Len(cs) : d # cs[i]
      BY <2>1, <2>4, Zenon
    <3>2. PICK w \in Workers : \E i \in 1..Len(pipe[w]) : pipe[w][i] = d
      BY <2>2, <3>1, Zenon DEF Queued
    <3>3. w # l
      BY <3>1, <3>2, Zenon
    <3> QED
      BY <1>8, <3>2, <3>3, Zenon
  <2> QED
    BY <2>3, <2>4, Zenon DEF Queued
<1>11. pc[l] # "exited" /\ backlog' \in Seq(Clients)
  BY <1>1, <1>2, <1>4, Zenon
<1> HIDE DEF cs
<1> QED
  BY <1>1, <1>2, <1>4, <1>6, <1>8, <1>9, <1>10, <1>11, AdmitStep, Zenon
-----------------------------------------------------------------------------
(* Connections wait to be admitted. *)

\* A connection joins the queue of the listening socket, or moves from it to a
\* worker's pipe, or is closed; no thread's connections change.
LEMMA QueueStep ==
  ASSUME ServerInv, ~stopped, NEW c \in Clients, ~Open(c), NEW state \in {"backlog", "piped", "closed"},
         conn' = [conn EXCEPT ![c] = NoConn(state)],
         UNCHANGED <<readonly, slots, running, todo, events, client, flush_in_flight, flush_io,
                     unsaved, stopped>>,
         pc' \in [AllThreads -> {"top", "resume", "handle", "exited"}],
         \A l \in AllThreads : \/ pc'[l] = pc[l]
                               \/ l \notin Threads /\ pc[l] # "exited" /\ pc'[l] = "top",
         backlog' \in Seq(Clients), pipe' \in [Workers -> Seq(Clients)], rr_next' \in Workers,
         Queues', Queued', pc'[Main] = "handle" /\ backlog # <<>> => backlog' # <<>>
  PROVE  ServerInv'
<1>1. DOMAIN conn = Clients
  BY Zenon DEF ServerInv, Conns
<1>2. /\ DOMAIN conn' = Clients /\ \A d \in Clients : d # c => conn'[d] = conn[d]
      /\ conn'[c] = NoConn(state)
  BY <1>1, Zenon
<1>3. ConnTyped(conn'[c]) /\ ~Open(c)'
  <2>1. ConnTyped(conn'[c]) /\ conn'[c].state = state
    BY <1>2, NoConnTyped, Zenon
  <2> QED
    BY <2>1, Zenon DEF Open
<1>4. \A d \in Clients : (Open(d)' <=> Open(d)) /\ client'[d].thread = client[d].thread
  BY <1>2, <1>3, Zenon DEF Open
<1>5. \A l : OpenAt(l)' = OpenAt(l)
  BY <1>4, SameOpen, Zenon
<1>6. \A l : \A d \in OpenAt(l) : conn'[d] = conn[d]
  BY <1>2, Zenon DEF OpenAt
<1>7. ASSUME NEW l \in AllThreads PROVE Round(l)' /\ Seated(l)'
  <2>1. Round(l) /\ Seated(l)
    BY Zenon DEF ServerInv
  <2>2. CASE pc'[l] = pc[l]
    <3>1. Round(l)'
      BY <1>5, <1>6, <2>1, <2>2, RoundKept, Zenon
    <3> QED
      BY <1>5, <2>1, <2>2, <3>1, SeatedKept, Zenon
  <2>3. CASE l \notin Threads /\ pc[l] # "exited" /\ pc'[l] = "top"
    <3>1. "top" # "resume" /\ "top" # "handle" /\ "top" # "exited"
      OBVIOUS
    <3>2. todo[l] = {} /\ events[l] = {}
      <4>1. pc[l] # "resume"
        BY <2>1, <2>3, <3>1, Zenon DEF Round
      <4> QED
        BY <2>1, <2>3, <4>1, Zenon DEF Round
    <3>3. Round(l)'
      BY <2>3, <3>1, <3>2, Zenon DEF Round
    <3> QED
      BY <1>5, <2>1, <2>3, <3>1, <3>3, SeatedKept, Zenon
  <2> QED
    BY <2>2, <2>3, Zenon
<1>8. Typed'
  BY Zenon DEF ServerInv, Typed
<1>9. Conns'
  BY <1>2, <1>3, Zenon DEF ServerInv, Conns
<1>10. Ends'
  BY <1>4, Zenon DEF ServerInv, Ends
<1> QED
  BY <1>7, <1>8, <1>9, <1>10, Zenon DEF ServerInv

\* A client connects.
LEMMA ConnectStep ==
  ASSUME ServerInv, NEW c \in Clients, Connect(c)
  PROVE  ServerInv'
<1>1. /\ UNCHANGED <<readonly, slots, running, pc, todo, events, client, pipe, rr_next,
                     flush_in_flight, flush_io, unsaved, stopped>>
      /\ ~stopped /\ conn[c].state = "away" /\ conn' = [conn EXCEPT ![c] = NoConn("backlog")]
      /\ backlog' = Append(backlog, c)
  BY Zenon DEF Connect, config, loopVars, dbVars
<1>2. /\ Queues /\ backlog \in Seq(Clients) /\ pipe \in [Workers -> Seq(Clients)] /\ rr_next \in Workers
      /\ DOMAIN conn = Clients
  BY Zenon DEF ServerInv, Typed, Conns
<1>3. ~Open(c)
  BY <1>1, Zenon DEF Open
<1>4. /\ Len(backlog') = Len(backlog) + 1 /\ Len(backlog) \in Nat /\ backlog' \in Seq(Clients)
      /\ backlog'[Len(backlog) + 1] = c /\ backlog' # <<>>
      /\ \A i \in 1..Len(backlog) : backlog'[i] = backlog[i] /\ backlog[i] \in Clients
  BY <1>1, <1>2, SMTT(30)
<1>5. \A d \in Clients : d # c => conn'[d] = conn[d]
  BY <1>1, <1>2, Zenon
<1>6. conn'[c].state = "backlog"
  BY <1>1, <1>2, NoConnTyped, Zenon
<1>7. Queues'
  <2>1. \A i \in 1..Len(backlog) : backlog[i] # c /\ conn[backlog[i]].state = "backlog"
    BY <1>1, <1>2, Zenon DEF Queues
  <2>2. ASSUME NEW i \in 1..Len(backlog') PROVE conn'[backlog'[i]].state = "backlog"
    <3>1. CASE i = Len(backlog) + 1
      BY <1>4, <1>6, <3>1, Zenon
    <3>2. CASE i \in 1..Len(backlog)
      <4>1. backlog'[i] = backlog[i] /\ backlog[i] \in Clients /\ backlog[i] # c
        BY <1>4, <2>1, <3>2, Zenon
      <4>2. conn'[backlog[i]] = conn[backlog[i]]
        BY <1>5, <4>1, Zenon
      <4> QED
        BY <2>1, <3>2, <4>1, <4>2, Zenon
    <3> QED
      BY <1>4, <3>1, <3>2
  <2>3. ASSUME NEW i \in 1..Len(backlog'), NEW j \in 1..Len(backlog'), backlog'[i] = backlog'[j]
        PROVE  i = j
    <3>1. \A x, y \in 1..Len(backlog) : backlog[x] = backlog[y] => x = y
      BY <1>2, Zenon DEF Queues
    <3> QED
      BY <1>4, <2>1, <2>3, <3>1
  <2>4. ASSUME NEW w \in Workers, NEW i \in 1..Len(pipe[w]) PROVE conn'[pipe[w][i]].state = "piped"
    <3>1. pipe[w] \in Seq(Clients) /\ conn[pipe[w][i]].state = "piped"
      BY <1>2, Zenon DEF Queues
    <3>2. pipe[w][i] \in Clients /\ pipe[w][i] # c
      BY <1>1, <3>1
    <3> QED
      BY <1>5, <3>1, <3>2, Zenon
  <2>5. \A w, v \in Workers : \A i \in 1..Len(pipe[w]), j \in 1..Len(pipe[v]) :
          pipe[w][i] = pipe[v][j] => w = v
    BY <1>2, Zenon DEF Queues
  <2>6. pipe' = pipe
    BY <1>1, Zenon
  <2> QED
    BY <2>2, <2>3, <2>4, <2>5, <2>6 DEF Queues
<1>8. /\ pipe' \in [Workers -> Seq(Clients)] /\ rr_next' \in Workers
      /\ pc' \in [AllThreads -> {"top", "resume", "handle", "exited"}]
  BY <1>1, <1>2, Zenon DEF ServerInv, Typed
<1>9. Queued'
  <2>1. Queued
    BY Zenon DEF ServerInv
  <2>2. ASSUME NEW d \in Clients, conn'[d].state = "backlog"
        PROVE  \E i \in 1..Len(backlog') : backlog'[i] = d
    <3>1. CASE d = c
      <4>1. Len(backlog) + 1 \in 1..Len(backlog')
        BY <1>4
      <4> QED
        BY <1>4, <3>1, <4>1, Zenon
    <3>2. CASE d # c
      <4>1. PICK i \in 1..Len(backlog) : backlog[i] = d
        BY <1>5, <2>1, <2>2, <3>2, Zenon DEF Queued
      <4>2. i \in 1..Len(backlog')
        BY <1>4
      <4> QED
        BY <1>4, <4>1, <4>2, Zenon
    <3> QED
      BY <3>1, <3>2, Zenon
  <2>3. ASSUME NEW d \in Clients, conn'[d].state = "piped"
        PROVE  \E w \in Workers : \E i \in 1..Len(pipe'[w]) : pipe'[w][i] = d
    <3>1. d # c
      BY <1>6, <2>3, Zenon
    <3> QED
      BY <1>1, <1>5, <2>1, <2>3, <3>1, Zenon DEF Queued
  <2> QED
    BY <2>2, <2>3, Zenon DEF Queued
<1> QED
  BY <1>1, <1>3, <1>4, <1>7, <1>8, <1>9, QueueStep, Zenon

\* readonly_accept_loop has a connection to accept.
LEMMA AcceptReadyStep ==
  ASSUME ServerInv, readonly, AcceptReady
  PROVE  ServerInv'
<1>1. /\ UNCHANGED <<readonly, slots, running, todo, events, conn, client, backlog, pipe, rr_next,
                     flush_in_flight, flush_io, unsaved, stopped>>
      /\ pc[Main] = "top" /\ backlog # <<>> /\ pc' = [pc EXCEPT ![Main] = "handle"]
  BY Zenon DEF AcceptReady, config, dbVars
<1>2. Main \notin Threads /\ Main \in AllThreads /\ Typed
  BY ServerAssumption, Zenon DEF Threads, AllThreads, ServerInv
<1>3. /\ pc'[Main] = "handle" /\ pc' \in [AllThreads -> {"top", "resume", "handle", "exited"}]
      /\ \A l \in AllThreads : l # Main => pc'[l] = pc[l]
      /\ pc[Main] # "exited" /\ pc'[Main] # "exited" /\ pc[Main] # "resume" /\ pc'[Main] # "resume"
  BY <1>1, <1>2, Zenon DEF Typed
<1>4. ~stopped
  BY <1>2, <1>3, Zenon DEF ServerInv, Ends
<1>5. \A l : OpenAt(l)' = OpenAt(l)
  BY <1>1, SameOpen, Zenon DEF Open
<1>6. ASSUME NEW l \in AllThreads PROVE Round(l)' /\ Seated(l)'
  <2>1. Round(l) /\ Seated(l)
    BY Zenon DEF ServerInv
  <2>2. Round(l)'
    <3>1. CASE l = Main
      <4>1. todo[l] = {} /\ events[l] = {}
        BY <1>2, <1>3, <2>1, <3>1, Zenon DEF Round
      <4> QED
        BY <1>1, <1>3, <3>1, <4>1, Zenon DEF Round
    <3>2. CASE l # Main
      BY <1>1, <1>3, <1>5, <2>1, <3>2, RoundKept, Zenon
    <3> QED
      BY <3>1, <3>2, Zenon
  <2>3. Seated(l)'
    BY <1>1, <1>3, <1>5, <2>1, SeatedKept, Zenon
  <2> QED
    BY <2>2, <2>3, Zenon
<1>7. Typed'
  BY <1>1, <1>3, Zenon DEF ServerInv, Typed
<1>8. Conns'
  BY <1>1, Zenon DEF ServerInv, Conns
<1>9. Queues' /\ Queued'
  BY <1>1, QueuesKept, QueuedKept, Zenon DEF ServerInv
<1>10. Ends'
  BY <1>1, <1>4, Zenon DEF ServerInv, Ends, Open
<1> QED
  BY <1>6, <1>7, <1>8, <1>9, <1>10, Zenon DEF ServerInv

\* readonly_accept_loop hands the head of the backlog to the next worker, or
\* closes it if that worker has exited.
LEMMA DistributeStep ==
  ASSUME ServerInv, readonly, Distribute
  PROVE  ServerInv'
<1> DEFINE c == Head(backlog)
           n == Cardinality(Workers)
           gone == pc[rr_next] = "exited"
<1>1. /\ UNCHANGED <<readonly, slots, running, todo, events, client, flush_in_flight, flush_io,
                     unsaved, stopped>>
      /\ pc[Main] = "handle" /\ pc' = [pc EXCEPT ![Main] = "top"] /\ backlog' = Tail(backlog)
      /\ conn' = [conn EXCEPT ![c] = NoConn(IF gone THEN "closed" ELSE "piped")]
      /\ pipe' = IF gone THEN pipe ELSE [pipe EXCEPT ![rr_next] = Append(@, c)]
      /\ rr_next' = (rr_next + 1) % n
  BY Zenon DEF Distribute, config, dbVars
<1>2. /\ Queues /\ backlog \in Seq(Clients) /\ pipe \in [Workers -> Seq(Clients)] /\ rr_next \in Workers
      /\ DOMAIN conn = Clients /\ Queued /\ pc \in [AllThreads -> {"top", "resume", "handle", "exited"}]
  BY Zenon DEF ServerInv, Typed, Conns
<1> HIDE DEF gone
<1>3. /\ Main \notin Threads /\ Main \in AllThreads /\ backlog # <<>> /\ ~stopped
      /\ pc'[Main] = "top" /\ pc[Main] # "exited" /\ pc'[Main] # "handle"
      /\ pc' \in [AllThreads -> {"top", "resume", "handle", "exited"}]
      /\ \A l \in AllThreads : l # Main => pc'[l] = pc[l]
  <2>1. Main \notin Threads /\ Main \in AllThreads
    BY ServerAssumption, Zenon DEF Threads, AllThreads
  <2>2. Round(Main) /\ pc[Main] # "exited"
    BY <1>1, <2>1, Zenon DEF ServerInv
  <2>3. backlog # <<>> /\ ~stopped
    BY <1>1, <2>1, <2>2, Zenon DEF Round, ServerInv, Ends
  <2> QED
    BY <1>1, <1>2, <2>1, <2>2, <2>3, Zenon
<1>4. rr_next' \in Workers
  <2>1. /\ IsFiniteSet(Workers) /\ Workers = 0..(n - 1) /\ Workers # {}
    BY ServerAssumption, Zenon
  <2>2. n \in Nat
    BY <2>1, FS_CardinalityType, Zenon
  <2> HIDE DEF n
  <2>3. n # 0 /\ rr_next \in Nat
    BY <1>2, <2>1, <2>2
  <2> QED
    BY <1>1, <2>1, <2>2, <2>3
<1>5. /\ c \in Clients /\ c = backlog[1] /\ 1 \in 1..Len(backlog)
      /\ Tail(backlog) \in Seq(Clients)
      /\ \A i \in 1..Len(Tail(backlog)) : i + 1 \in 1..Len(backlog) /\ Tail(backlog)[i] = backlog[i + 1]
      /\ \A i \in 1..Len(backlog) : backlog[i] \in Clients
      /\ \A i \in 1..Len(backlog) : i # 1 =>
           i - 1 \in 1..Len(Tail(backlog)) /\ Tail(backlog)[i - 1] = backlog[i]
  BY <1>2, <1>3
<1>6. conn[c].state = "backlog"
  <2>1. conn[backlog[1]].state = "backlog"
    BY <1>2, <1>5, Zenon DEF Queues
  <2>2. c = backlog[1]
    BY <1>5, Zenon
  <2> HIDE DEF c
  <2> QED
    BY <2>1, <2>2, Zenon
<1>7. ~Open(c)
  BY <1>6, Zenon DEF Open
<1> HIDE DEF c
<1>8. /\ \A d \in Clients : d # c => conn'[d] = conn[d]
      /\ conn'[c].state = IF gone THEN "closed" ELSE "piped"
  <2>1. /\ \A d \in Clients : d # c => conn'[d] = conn[d]
        /\ conn'[c] = NoConn(IF gone THEN "closed" ELSE "piped")
    BY <1>1, <1>2, <1>5, Zenon DEF c
  <2>2. CASE gone
    BY <2>1, <2>2, NoConnTyped, Zenon
  <2>3. CASE ~gone
    BY <2>1, <2>3, NoConnTyped, Zenon
  <2> QED
    BY <2>2, <2>3, Zenon
<1>9. /\ pipe' \in [Workers -> Seq(Clients)] /\ \A w \in Workers : w # rr_next => pipe'[w] = pipe[w]
      /\ pipe'[rr_next] = IF gone THEN pipe[rr_next] ELSE Append(pipe[rr_next], c)
  <2>1. CASE gone
    BY <1>1, <1>2, <2>1, Zenon
  <2>2. CASE ~gone
    <3>1. pipe' = [pipe EXCEPT ![rr_next] = Append(@, c)]
      BY <1>1, <2>2, Zenon DEF c
    <3> QED
      BY <1>2, <1>5, <2>2, <3>1
  <2> QED
    BY <2>1, <2>2, Zenon
<1>10. ASSUME NEW w \in Workers, NEW i \in 1..Len(pipe[w])
       PROVE  pipe[w][i] \in Clients /\ pipe[w][i] # c /\ conn[pipe[w][i]].state = "piped"
  <2>1. pipe[w] \in Seq(Clients) /\ conn[pipe[w][i]].state = "piped"
    BY <1>2, Zenon DEF Queues
  <2> QED
    BY <1>6, <2>1
<1>11. ASSUME NEW w \in Workers, NEW i \in 1..Len(pipe'[w])
       PROVE  \/ i \in 1..Len(pipe[w]) /\ pipe'[w][i] = pipe[w][i]
              \/ w = rr_next /\ pipe'[w][i] = c /\ ~gone
  <2>1. pipe[w] \in Seq(Clients)
    BY <1>2, Zenon
  <2>2. CASE w # rr_next \/ gone
    BY <1>9, <2>2, Zenon
  <2>3. CASE w = rr_next /\ ~gone
    <3>1. pipe'[w] = Append(pipe[w], c)
      BY <1>9, <2>3, Zenon
    <3> QED
      BY <2>1, <2>3, <3>1
  <2> QED
    BY <2>2, <2>3, Zenon
<1>12. Queues'
  <2>1. ASSUME NEW i \in 1..Len(backlog') PROVE conn'[backlog'[i]].state = "backlog"
    <3>1. i + 1 \in 1..Len(backlog) /\ i + 1 # 1 /\ backlog'[i] = backlog[i + 1] /\ backlog[i + 1] \in Clients
      BY <1>1, <1>5
    <3>2. backlog[i + 1] # c /\ conn[backlog[i + 1]].state = "backlog"
      BY <1>2, <1>5, <3>1, Zenon DEF Queues
    <3> QED
      BY <1>8, <3>1, <3>2, Zenon
  <2>2. ASSUME NEW i \in 1..Len(backlog'), NEW j \in 1..Len(backlog'), backlog'[i] = backlog'[j]
        PROVE  i = j
    <3>1. i + 1 \in 1..Len(backlog) /\ j + 1 \in 1..Len(backlog) /\ backlog[i + 1] = backlog[j + 1]
      BY <1>1, <1>5, <2>2, Zenon
    <3>2. i + 1 = j + 1
      BY <1>2, <3>1, Zenon DEF Queues
    <3> QED
      BY <3>2
  <2>3. ASSUME NEW w \in Workers, NEW i \in 1..Len(pipe'[w]) PROVE conn'[pipe'[w][i]].state = "piped"
    <3>1. CASE i \in 1..Len(pipe[w]) /\ pipe'[w][i] = pipe[w][i]
      BY <1>8, <1>10, <3>1, ZenonT(60)
    <3>2. CASE w = rr_next /\ pipe'[w][i] = c /\ ~gone
      BY <1>8, <3>2, Zenon
    <3> QED
      BY <1>11, <3>1, <3>2, Zenon
  <2>4. ASSUME NEW w \in Workers, NEW v \in Workers,
               NEW i \in 1..Len(pipe'[w]), NEW j \in 1..Len(pipe'[v]), pipe'[w][i] = pipe'[v][j]
        PROVE  w = v
    <3>1. \A x \in 1..Len(pipe[w]), y \in 1..Len(pipe[v]) : pipe[w][x] = pipe[v][y] => w = v
      BY <1>2, Zenon DEF Queues
    <3>2. CASE w = rr_next /\ pipe'[w][i] = c
      BY <1>10, <1>11, <2>4, <3>2, Zenon
    <3>3. CASE v = rr_next /\ pipe'[v][j] = c
      BY <1>10, <1>11, <2>4, <3>3, Zenon
    <3> QED
      BY <1>11, <2>4, <3>1, <3>2, <3>3, Zenon
  <2> QED
    BY <2>1, <2>2, <2>3, <2>4, Zenon DEF Queues
<1>13. Queued'
  <2>1. ASSUME NEW d \in Clients, conn'[d].state = "backlog"
        PROVE  \E i \in 1..Len(backlog') : backlog'[i] = d
    <3>1. d # c
      <4>1. conn'[c].state # "backlog"
        BY <1>8, Zenon
      <4> QED
        BY <2>1, <4>1, Zenon
    <3>2. PICK i \in 1..Len(backlog) : backlog[i] = d
      BY <1>2, <1>8, <2>1, <3>1, Zenon DEF Queued
    <3>3. i # 1
      BY <1>5, <3>1, <3>2, Zenon
    <3> QED
      BY <1>1, <1>5, <3>2, <3>3, Zenon
  <2>2. ASSUME NEW d \in Clients, conn'[d].state = "piped"
        PROVE  \E w \in Workers : \E i \in 1..Len(pipe'[w]) : pipe'[w][i] = d
    <3>1. CASE d = c
      <4>1. ~gone
        BY <1>8, <2>2, <3>1, Zenon
      <4>2. pipe'[rr_next] = Append(pipe[rr_next], c) /\ pipe[rr_next] \in Seq(Clients)
        BY <1>2, <1>9, <4>1, Zenon
      <4>3. /\ Len(pipe[rr_next]) + 1 \in 1..Len(Append(pipe[rr_next], c))
            /\ Append(pipe[rr_next], c)[Len(pipe[rr_next]) + 1] = c
        BY <1>5, <4>2
      <4> QED
        BY <1>2, <3>1, <4>2, <4>3, Zenon
    <3>2. CASE d # c
      <4>0. PICK w \in Workers : \E i \in 1..Len(pipe[w]) : pipe[w][i] = d
        BY <1>2, <1>8, <2>2, <3>2, Zenon DEF Queued
      <4>1. PICK i \in 1..Len(pipe[w]) : pipe[w][i] = d
        BY <4>0, Zenon
      <4>2. i \in 1..Len(pipe'[w]) /\ pipe'[w][i] = pipe[w][i]
        <5>1. CASE w # rr_next \/ gone
          BY <1>9, <5>1, Zenon
        <5>2. CASE w = rr_next /\ ~gone
          <6>1. pipe'[w] = Append(pipe[w], c) /\ pipe[w] \in Seq(Clients)
            BY <1>2, <1>9, <5>2, Zenon
          <6> QED
            BY <1>5, <6>1
        <5> QED
          BY <5>1, <5>2, Zenon
      <4> QED
        BY <4>1, <4>2, Zenon
    <3> QED
      BY <3>1, <3>2, Zenon
  <2> QED
    BY <2>1, <2>2, Zenon DEF Queued
<1>14. backlog' \in Seq(Clients)
  BY <1>1, <1>5, Zenon DEF c
<1>15. PICK state \in {"backlog", "piped", "closed"} : conn' = [conn EXCEPT ![c] = NoConn(state)]
  <2>1. (IF gone THEN "closed" ELSE "piped") \in {"backlog", "piped", "closed"}
    OBVIOUS
  <2> QED
    BY <1>1, <2>1, Zenon DEF c
<1>16. \A l \in AllThreads : \/ pc'[l] = pc[l]
                             \/ l \notin Threads /\ pc[l] # "exited" /\ pc'[l] = "top"
  BY <1>3, Zenon
<1> QED
  BY <1>1, <1>3, <1>4, <1>5, <1>7, <1>9, <1>12, <1>13, <1>14, <1>15, <1>16, QueueStep, Zenon
-----------------------------------------------------------------------------
(* The end of the server. *)

\* A thread sees that the server is to stop; a worker closes its connections.
LEMMA ExitStep ==
  ASSUME ServerInv, NEW l \in Threads \cup {Main}, Exit(l)
  PROVE  ServerInv'
<1>1. /\ UNCHANGED <<readonly, slots, running, todo, events, client, backlog, pipe, rr_next,
                     flush_in_flight, flush_io, unsaved, stopped>>
      /\ pc[l] = "top" /\ ~running /\ pc' = [pc EXCEPT ![l] = "exited"]
      /\ conn' = [c \in Clients |-> IF l # Main /\ c \in OpenAt(l) THEN NoConn("closed") ELSE conn[c]]
  <2>1. conn' = [c \in Clients |-> IF c \in (IF l = Main THEN {} ELSE OpenAt(l)) THEN NoConn("closed") ELSE conn[c]]
    BY Zenon DEF Exit
  <2>2. \A c \in Clients : c \in (IF l = Main THEN {} ELSE OpenAt(l)) <=> l # Main /\ c \in OpenAt(l)
    BY Zenon
  <2> QED
    BY <2>1, <2>2, Zenon DEF Exit, config, dbVars
<1>2. l \in AllThreads /\ Round(l) /\ Seated(l) /\ Typed
  BY Zenon DEF ServerInv, Threads, AllThreads
<1>3. /\ pc' \in [AllThreads -> {"top", "resume", "handle", "exited"}] /\ pc'[l] = "exited"
      /\ \A m \in AllThreads : m # l => pc'[m] = pc[m]
      /\ pc[l] # "exited" /\ pc[l] # "resume" /\ pc[l] # "handle"
  BY <1>1, <1>2, Zenon DEF Typed
<1>4. ~stopped
  BY <1>3, Zenon DEF ServerInv, Ends
<1>5. ASSUME NEW c \in Clients
      PROVE  /\ ConnTyped(conn'[c]) /\ (Open(c)' <=> Open(c) /\ (l = Main \/ c \notin OpenAt(l)))
             /\ (c \notin OpenAt(l) => conn'[c] = conn[c])
  <2>1. CASE l # Main /\ c \in OpenAt(l)
    <3>1. ConnTyped(conn'[c]) /\ conn'[c].state = "closed"
      BY <1>1, <2>1, NoConnTyped, Zenon
    <3>2. "closed" # "open"
      OBVIOUS
    <3> QED
      BY <2>1, <3>1, <3>2, Zenon DEF Open
  <2>2. CASE ~(l # Main /\ c \in OpenAt(l))
    <3>1. conn'[c] = conn[c] /\ ConnTyped(conn[c])
      BY <1>1, <2>2, Zenon DEF ServerInv, Conns
    <3> QED
      BY <2>2, <3>1, Zenon DEF Open
  <2> QED
    BY <2>1, <2>2, Zenon
<1>6. ASSUME NEW m, m # l PROVE OpenAt(m)' = OpenAt(m) /\ \A c \in OpenAt(m) : conn'[c] = conn[c]
  BY <1>1, <1>5, <1>6, Zenon DEF OpenAt
<1>7. OpenAt(l)' = IF l = Main THEN OpenAt(l) ELSE {}
  BY <1>1, <1>5, Zenon DEF OpenAt
<1>8. Round(l)' /\ Seated(l)'
  <2>1. todo[l] = {} /\ events[l] = {} /\ (l \in Threads' \/ l = Main)
    BY <1>1, <1>2, <1>3, Zenon DEF Round, Threads
  <2>2. Round(l)'
    <3>1. "exited" # "resume" /\ "exited" # "handle"
      OBVIOUS
    <3> QED
      BY <1>1, <1>3, <2>1, <3>1, Zenon DEF Round
  <2>3. slots \in Nat /\ IsFiniteSet({}) /\ Cardinality({}) = 0 /\ 0 <= slots
    <3>1. slots \in Nat /\ IsFiniteSet({}) /\ Cardinality({}) = 0
      BY <1>2, ServerAssumption, FS_EmptySet, Zenon DEF Typed
    <3> QED
      BY <3>1
  <2>4. /\ IsFiniteSet(OpenAt(l)') /\ Cardinality(OpenAt(l)') <= slots
        /\ (l # Main => OpenAt(l)' = {}) /\ (l \notin Threads => OpenAt(l)' = {})
    BY <1>2, <1>7, <2>3, Zenon DEF Seated
  <2>5. Threads' = Threads
    BY <1>1, Zenon DEF Threads
  <2> QED
    BY <1>1, <2>2, <2>4, <2>5, Zenon DEF Seated
<1>9. ASSUME NEW m \in AllThreads, m # l PROVE Round(m)' /\ Seated(m)'
  <2>1. Round(m) /\ Seated(m)
    BY Zenon DEF ServerInv
  <2>2. \A c \in OpenAt(m) : c \in OpenAt(m)' /\ (conn[c].async # Idle => conn'[c].async # Idle)
    BY <1>6, <1>9, Zenon
  <2>3. Round(m)'
    BY <1>1, <1>3, <1>9, <2>1, <2>2, RoundKept, Zenon
  <2>4. Seated(m)'
    BY <1>1, <1>3, <1>6, <1>9, <2>1, SeatedKept, Zenon
  <2> QED
    BY <2>3, <2>4, Zenon
<1>10. Typed'
  BY <1>1, <1>2, <1>3, Zenon DEF Typed
<1>11. Conns'
  <2>1. DOMAIN conn' = Clients
    BY <1>1, Zenon
  <2> QED
    BY <1>1, <1>5, <2>1, Zenon DEF ServerInv, Conns
<1>12. Queues' /\ Queued'
  <2>1. ASSUME NEW c \in Clients, conn[c].state \in {"backlog", "piped"} PROVE conn'[c].state = conn[c].state
    <3>1. c \notin OpenAt(l)
      BY <2>1, Zenon DEF OpenAt, Open
    <3> QED
      BY <1>5, <3>1, Zenon
  <2>2. ASSUME NEW c \in Clients, conn'[c].state \in {"backlog", "piped"} PROVE conn[c].state = conn'[c].state
    <3>1. CASE l # Main /\ c \in OpenAt(l)
      <4>1. conn'[c].state = "closed"
        BY <1>1, <3>1, NoConnTyped, Zenon
      <4> QED
        BY <2>2, <4>1, Zenon
    <3>2. CASE ~(l # Main /\ c \in OpenAt(l))
      BY <1>1, <3>2, Zenon
    <3> QED
      BY <3>1, <3>2, Zenon
  <2> QED
    BY <1>1, <2>1, <2>2, QueuesKept, QueuedKept, Zenon DEF ServerInv
<1>13. Ends'
  BY <1>1, <1>4, <1>5, Zenon DEF ServerInv, Ends
<1> QED
  BY <1>8, <1>9, <1>10, <1>11, <1>12, <1>13, Zenon DEF ServerInv

\* All threads are joined: the workers have closed their connections, and the
\* connections of server_loop and of the queue of the socket are closed here.
LEMMA StoppedStep ==
  ASSUME ServerInv, Stopped
  PROVE  ServerInv'
<1>1. /\ UNCHANGED <<readonly, slots, running, pc, todo, events, client, pipe, rr_next,
                     flush_in_flight, flush_io>>
      /\ ~running /\ backlog' = <<>> /\ unsaved' = FALSE /\ stopped' = TRUE
      /\ \A l \in Threads \cup {Main} : pc[l] = "exited"
      /\ conn' = [c \in Clients |-> IF c \in OpenAt(Main) \cup Range(backlog)
                                    THEN NoConn("closed") ELSE conn[c]]
  BY Zenon DEF Stopped, config, loopVars
<1>2. Typed /\ Queues
  BY Zenon DEF ServerInv
<1>3. ASSUME NEW c \in Clients
      PROVE  /\ ConnTyped(conn'[c]) /\ ~Open(c)'
             /\ (conn[c].state = "piped" => conn'[c].state = "piped")
  <2>1. \A d \in Range(backlog) : conn[d].state = "backlog"
    <3>1. DOMAIN backlog = 1..Len(backlog)
      BY <1>2 DEF Typed
    <3> QED
      BY <1>2, <3>1, Zenon DEF Queues, Range
  <2>2. CASE c \in OpenAt(Main) \cup Range(backlog)
    <3>1. ConnTyped(conn'[c]) /\ conn'[c].state = "closed"
      BY <1>1, <2>2, NoConnTyped, Zenon
    <3>2. conn[c].state \in {"open", "backlog"}
      BY <2>1, <2>2, Zenon DEF OpenAt, Open
    <3> QED
      BY <3>1, <3>2, Zenon DEF Open
  <2>3. CASE c \notin OpenAt(Main) \cup Range(backlog)
    <3>1. conn'[c] = conn[c] /\ ConnTyped(conn[c])
      BY <1>1, <2>3, Zenon DEF ServerInv, Conns
    <3>2. ~Open(c)
      <4>1. SUFFICES ASSUME Open(c) PROVE FALSE
        OBVIOUS
      <4> DEFINE l == client[c].thread
      <4>2. l \in AllThreads /\ c \in OpenAt(l) /\ l # Main
        BY <2>3, <4>1, Zenon DEF ServerInv, Ends, OpenAt
      <4>3. Seated(l)
        BY <4>2, Zenon DEF ServerInv
      <4> QED
        BY <1>1, <4>2, <4>3, Zenon DEF Seated
    <3> QED
      BY <3>1, <3>2, Zenon DEF Open
  <2> QED
    BY <2>2, <2>3, Zenon
<1>4. \A l : OpenAt(l)' = {}
  BY <1>3, Zenon DEF OpenAt
<1>5. ASSUME NEW l \in AllThreads PROVE Round(l)' /\ Seated(l)'
  <2>1. Round(l) /\ Seated(l)
    BY Zenon DEF ServerInv
  <2>2. pc[l] # "resume" /\ pc[l] # "handle"
    <3>1. pc[l] = "top" \/ pc[l] = "exited"
      BY <1>1, <2>1, Zenon DEF Round
    <3> QED
      BY <3>1, Zenon
  <2>3. todo[l] = {} /\ events[l] = {}
    BY <2>1, <2>2, Zenon DEF Round
  <2>4. Round(l)'
    BY <1>1, <2>1, <2>2, <2>3, Zenon DEF Round, Threads
  <2>5. slots \in Nat /\ IsFiniteSet({}) /\ Cardinality({}) = 0 /\ 0 <= slots
    <3>1. slots \in Nat /\ IsFiniteSet({}) /\ Cardinality({}) = 0
      BY <1>2, ServerAssumption, FS_EmptySet, Zenon DEF Typed
    <3> QED
      BY <3>1
  <2> QED
    BY <1>1, <1>4, <2>4, <2>5, Zenon DEF Seated
<1>6. Typed'
  <2>1. <<>> \in Seq(Clients) /\ FALSE \in BOOLEAN /\ TRUE \in BOOLEAN
    OBVIOUS
  <2> QED
    BY <1>1, <1>2, <2>1, Zenon DEF Typed
<1>7. Conns'
  <2>1. DOMAIN conn' = Clients
    BY <1>1, Zenon
  <2> QED
    BY <1>1, <1>3, <2>1, Zenon DEF ServerInv, Conns
<1>8. Queues'
  <2>1. ASSUME NEW w \in Workers, NEW i \in 1..Len(pipe[w]) PROVE conn'[pipe[w][i]].state = "piped"
    <3>1. pipe[w] \in Seq(Clients) /\ conn[pipe[w][i]].state = "piped"
      BY <1>2, Zenon DEF Queues, Typed
    <3>2. pipe[w][i] \in Clients
      BY <3>1
    <3> QED
      BY <1>3, <3>1, <3>2, Zenon
  <2>2. \A w, v \in Workers : \A i \in 1..Len(pipe[w]), j \in 1..Len(pipe[v]) :
          pipe[w][i] = pipe[v][j] => w = v
    BY <1>2, Zenon DEF Queues
  <2>3. pipe' = pipe /\ Len(backlog') = 0
    BY <1>1, Zenon
  <2> QED
    BY <2>1, <2>2, <2>3 DEF Queues
<1>9. Ends'
  BY <1>1, <1>3, Zenon DEF Ends, Threads
<1>10. Queued'
  <2>1. Queued
    BY Zenon DEF ServerInv
  <2>2. ASSUME NEW c \in Clients, conn'[c].state \in {"backlog", "piped"}
        PROVE  conn'[c] = conn[c] /\ c \notin Range(backlog)
    <3>1. CASE c \in OpenAt(Main) \cup Range(backlog)
      <4>1. conn'[c].state = "closed"
        BY <1>1, <3>1, NoConnTyped, Zenon
      <4> QED
        BY <2>2, <4>1, Zenon
    <3>2. CASE c \notin OpenAt(Main) \cup Range(backlog)
      BY <1>1, <3>2, Zenon
    <3> QED
      BY <3>1, <3>2, Zenon
  <2>3. ASSUME NEW c \in Clients PROVE conn'[c].state # "backlog"
    <3>1. SUFFICES ASSUME conn'[c].state = "backlog" PROVE FALSE
      OBVIOUS
    <3>2. conn[c].state = "backlog" /\ c \notin Range(backlog)
      BY <2>2, <3>1, Zenon
    <3>3. DOMAIN backlog = 1..Len(backlog)
      BY <1>2 DEF Typed
    <3> QED
      BY <2>1, <3>2, <3>3, Zenon DEF Queued, Range
  <2>4. ASSUME NEW c \in Clients, conn'[c].state = "piped"
        PROVE  \E w \in Workers : \E i \in 1..Len(pipe'[w]) : pipe'[w][i] = c
    <3>1. conn[c].state = "piped"
      BY <2>2, <2>4, Zenon
    <3>2. pipe' = pipe
      BY <1>1, Zenon
    <3> QED
      BY <2>1, <3>1, <3>2, Zenon DEF Queued
  <2> QED
    BY <2>3, <2>4, Zenon DEF Queued
<1> QED
  BY <1>5, <1>6, <1>7, <1>8, <1>9, <1>10, Zenon DEF ServerInv
-----------------------------------------------------------------------------
(* The invariant and what follows from it. *)

\* A server that has been started has no connection.
LEMMA InitServer ==
  ASSUME Init
  PROVE  ServerInv
<1>1. PICK s \in Scripts :
        client = [c \in Clients |-> [script |-> s[c], sent |-> 0, net |-> <<>>, got |-> <<>>,
                                     here |-> TRUE, blocked |-> FALSE, thread |-> Main]]
  BY Zenon DEF Init
<1>2. ASSUME NEW c \in Clients PROVE ConnTyped(conn[c]) /\ ClientTyped(client[c]) /\ ~Open(c)
  <2>1. conn[c] = NoConn("away") /\ s[c] \in Seq(Kinds)
    BY ServerAssumption, Zenon DEF Init, Kinds
  <2>2. ConnTyped(conn[c]) /\ conn[c].state = "away"
    BY <2>1, NoConnTyped, Zenon
  <2>3. \A t, u : client[c] = [script |-> s[c], sent |-> 0, net |-> <<>>, got |-> <<>>,
                               here |-> t, blocked |-> u, thread |-> Main] => ClientTyped(client[c])
    BY <2>1 DEF ClientTyped
  <2>4. ClientTyped(client[c])
    BY <1>1, <2>3, Zenon
  <2> QED
    BY <2>2, <2>4, Zenon DEF Open
<1>3. \A l : OpenAt(l) = {}
  BY <1>2, Zenon DEF OpenAt
<1>4. Typed
  <2>1. Workers = 0..(Cardinality(Workers) - 1) /\ Workers # {} /\ Cardinality(Workers) \in Nat
    BY ServerAssumption, FS_CardinalityType, Zenon
  <2>2. 0 \in Workers
    BY <2>1
  <2>3. <<>> \in Seq(Clients) /\ FALSE \in BOOLEAN /\ TRUE \in BOOLEAN /\ 0 \in Nat
        /\ {} \in SUBSET Clients /\ "top" \in {"top", "resume", "handle", "exited"}
    OBVIOUS
  <2> QED
    BY <2>2, <2>3, Zenon DEF Init, Typed
<1>5. Conns
  BY <1>1, <1>2, Zenon DEF Init, Conns
<1>6. Queues /\ Queued
  <2>1. backlog = <<>> /\ \A w \in Workers : pipe[w] = <<>>
    BY Zenon DEF Init
  <2>2. Queues
    BY <2>1 DEF Queues
  <2>3. ASSUME NEW c \in Clients PROVE conn[c].state = "away"
    BY NoConnTyped, Zenon DEF Init
  <2>4. "away" # "backlog" /\ "away" # "piped"
    OBVIOUS
  <2> QED
    BY <2>2, <2>3, <2>4, Zenon DEF Queued
<1>7. ASSUME NEW l \in AllThreads PROVE Round(l) /\ Seated(l)
  <2>1. pc[l] = "top" /\ todo[l] = {} /\ events[l] = {}
    BY Zenon DEF Init
  <2>2. Round(l)
    <3>1. "top" # "resume" /\ "top" # "handle"
      OBVIOUS
    <3> QED
      BY <2>1, <3>1, Zenon DEF Round
  <2>3. slots \in Nat /\ IsFiniteSet({}) /\ Cardinality({}) = 0
    BY ServerAssumption, FS_EmptySet, Zenon DEF Init
  <2>4. 0 <= slots
    BY <2>3
  <2> QED
    BY <1>3, <2>1, <2>2, <2>3, <2>4, Zenon DEF Seated
<1>8. Ends
  BY <1>2, Zenon DEF Ends, Init
<1> QED
  BY <1>4, <1>5, <1>6, <1>7, <1>8, Zenon DEF ServerInv

\* Every step of a thread, a client, the disk or the end keeps the invariant.
LEMMA ServerStep ==
  ASSUME ServerInv, [Next]_vars
  PROVE  ServerInv'
<1>1. CASE \E l \in Threads : Thread(l)
  <2>1. PICK l \in Threads : Thread(l)
    BY <1>1, Zenon
  <2>2. CASE Top(l) \/ Wait(l)
    BY <2>2, LoopStep, Zenon
  <2>3. CASE ResumeConn(l) \/ ServeConn(l)
    BY <2>3, HandleStep, Zenon
  <2>4. CASE l = Main /\ AcceptConn
    BY <2>4, AcceptStep, Zenon
  <2>5. CASE l # Main /\ NotifyConns(l)
    BY <2>5, NotifyStep, Zenon
  <2>6. CASE Exit(l)
    BY <2>6, ExitStep, Zenon
  <2> QED
    BY <2>1, <2>2, <2>3, <2>4, <2>5, <2>6, Zenon DEF Thread
<1>2. CASE AcceptLoop
  <2>1. Main \in Threads \cup {Main}
    BY Zenon
  <2> QED
    BY <1>2, <2>1, AcceptReadyStep, DistributeStep, ExitStep, Zenon DEF AcceptLoop
<1>3. CASE Stopped
  BY <1>3, StoppedStep, Zenon
<1>4. CASE \E c \in Clients : Connect(c) \/ Send(c) \/ HangUp(c) \/ Drain(c) \/ ReadDone(c)
  BY <1>4, ConnectStep, ClientStep, ReadDoneStep, Zenon
<1>5. CASE Stop \/ FlushDone \/ UNCHANGED vars
  BY <1>5, QuietStep, Zenon
<1> QED
  BY <1>1, <1>2, <1>3, <1>4, <1>5, Zenon DEF Next

\* The invariant of the server holds in every state.
THEOREM ServerInvHolds == Spec => []ServerInv
<1>1. Init => ServerInv
  BY InitServer, Zenon
<1>2. ServerInv /\ [Next]_vars => ServerInv'
  BY ServerStep, Zenon
<1> QED
  BY <1>1, <1>2, PTL DEF Spec

\* No thread of the server has more connections than slots (find_free_slot), no
\* receive buffer holds more than it has room for, and only pulls wait.
THEOREM ServerTypeOK == Spec => []TypeOK
<1>1. ASSUME ServerInv PROVE TypeOK
  <2>1. Typed /\ Conns /\ slots \in Nat
    BY <1>1, ServerAssumption, Zenon DEF ServerInv, Typed
  <2>2. ASSUME NEW c \in Clients
        PROVE  /\ conn[c].state \in {"away", "backlog", "piped", "open", "closed"}
               /\ Len(conn[c].recv) <= RecvCap
               /\ conn[c].async # Idle => /\ conn[c].async.req.kind \in {"pull", "stream"}
                                          /\ conn[c].async.offset \in 0..(Chunks - 1)
    <3>1. ConnTyped(conn[c])
      BY <2>1, Zenon DEF Conns
    <3>2. conn[c].async # Idle => AsyncTyped(conn[c].async)
      BY <3>1, Zenon DEF ConnTyped
    <3>3. conn[c].async # Idle => conn[c].async.offset \in 0..(Chunks - 1)
      BY <3>2, Zenon DEF AsyncTyped
    <3> QED
      BY <3>1, <3>2, <3>3, Zenon DEF ConnTyped, AsyncTyped
  <2>3. ASSUME NEW l \in AllThreads
        PROVE  events[l] \subseteq (Clients \cup {Listen}) \X BOOLEAN /\ Cardinality(OpenAt(l)) <= slots
    BY <1>1, Zenon DEF ServerInv, Round, Seated
  <2> QED
    BY <2>1, <2>2, <2>3, Zenon DEF Typed, TypeOK
<1> QED
  BY <1>1, ServerInvHolds, PTL

\* When gravel_server_stop has returned, all that was pushed is saved, no pull is
\* in flight, and every connection is closed that is not left in a worker's pipe,
\* also one that was accepted during the stop (readonly_accept_loop,
\* read_worker_loop).
THEOREM StopCleanHolds == Spec => []StopClean
<1>1. ASSUME ServerInv, stopped, NEW c \in Clients
      PROVE  /\ ~unsaved /\ conn[c].async = Idle
             /\ \/ conn[c].state \in {"away", "closed"}
                \/ conn[c].state = "piped" /\ \E w \in Workers : c \in Range(pipe[w])
  <2>1. ConnTyped(conn[c]) /\ ~Open(c) /\ backlog = <<>> /\ ~unsaved /\ Queued /\ Typed
    BY <1>1, Zenon DEF ServerInv, Conns, Ends
  <2>2. conn[c].async = Idle
    BY <2>1, Zenon DEF ConnTyped, Open
  <2>3. conn[c].state # "backlog"
    <3>1. 1..Len(backlog) = {}
      BY <2>1
    <3> QED
      BY <2>1, <3>1, Zenon DEF Queued
  <2>4. ASSUME conn[c].state = "piped" PROVE \E w \in Workers : c \in Range(pipe[w])
    <3>1. PICK w \in Workers : \E i \in 1..Len(pipe[w]) : pipe[w][i] = c
      BY <2>1, <2>4, Zenon DEF Queued
    <3>2. pipe[w] \in Seq(Clients)
      BY <2>1, Zenon DEF Typed
    <3>3. DOMAIN pipe[w] = 1..Len(pipe[w])
      BY <3>2
    <3> QED
      BY <3>1, <3>3, Zenon DEF Range
  <2> QED
    BY <2>1, <2>2, <2>3, <2>4, Zenon DEF ConnTyped, Open
<1>2. ServerInv => StopClean
  BY <1>1, Zenon DEF StopClean, ServerInv, Ends
<1> QED
  BY <1>2, ServerInvHolds, PTL
=============================================================================
