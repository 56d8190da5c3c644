------------------------------- MODULE Server -------------------------------
(***************************************************************************)
(* The example server: connections, pipelined requests, pulls that wait    *)
(* for the disk, responses written to sockets that may be full, and the    *)
(* end of the server.  In read-write mode one thread runs server_loop; in  *)
(* read-only mode it runs readonly_accept_loop, which hands each           *)
(* connection to one of the worker threads; they run read_worker_loop, the *)
(* same loop without flush and checkpoint.                                 *)
(*                                                                         *)
(* A thread's step is the handling of one connection, one event or one     *)
(* wait; clients, the disk and the other threads act between any two.      *)
(* Requests and responses are read and written in whole messages and send  *)
(* chunks.  Allocations succeed and no pipe is full.                       *)
(***************************************************************************)
EXTENDS Integers, Sequences, FiniteSets, Functions

CONSTANTS
  Clients,    \* clients, each with one connection
  Workers,    \* read workers, numbered from 0
  Main,       \* the thread of server_loop or readonly_accept_loop
  Listen,     \* the event of the listening socket, and of a worker's pipe
  Idle,       \* CONN_IDLE
  Scripts,    \* the requests each client may send, in order
  Chunks,     \* chunks of PULL_CHUNK_SIZE features in a pull
  RecvCap,    \* requests that fit the receive buffer at max_request_size
  SlotCounts  \* the numbers of connections a thread may have (MAX_CLIENTS) to start with

ASSUME ServerAssumption ==
  /\ Chunks \in Nat /\ RecvCap \in Nat \ {0} /\ SlotCounts \subseteq Nat \ {0}
  /\ IsFiniteSet(Workers) /\ Workers = 0..(Cardinality(Workers) - 1) /\ Workers # {}
  /\ Main \notin Workers /\ Listen \notin Clients
  /\ Idle \notin [req : [no : Nat, kind : {"pull", "stream"}], offset : Nat, reading : BOOLEAN]
  /\ \A s \in Scripts, c \in Clients : s[c] \in Seq({"pull", "stream", "push", "save", "ping", "junk"})

VARIABLES
  readonly, running,
  slots,            \* connections of a thread
  pc,               \* where each thread is in its loop
  todo,             \* connections the thread has yet to resume in this round
  events,           \* events of the last wait it has yet to handle
  conn,             \* ClientConn by client
  client,           \* the client's side, and its socket
  backlog,          \* connections to accept
  pipe,             \* connections handed to a worker
  rr_next,          \* the worker the next connection goes to
  flush_in_flight,  \* an asynchronous flush was submitted
  flush_io,         \* its writes are not complete
  unsaved,          \* pushes since the last checkpoint
  stopped           \* gravel_server_stop has returned

loopVars == <<pc, todo, events>>
dbVars == <<flush_in_flight, flush_io, unsaved>>
config == <<readonly, slots>>
vars == <<config, running, loopVars, conn, client, backlog, pipe, rr_next, dbVars, stopped>>

\* The threads that serve connections.
Threads == IF readonly THEN Workers ELSE {Main}

AllThreads == Workers \cup {Main}

\* A connection as client_init leaves it.  History: how many requests were
\* answered, and whether its arena was reset during a pull.
NoConn(state) ==
  [state |-> state, recv |-> <<>>, send |-> <<>>, async |-> Idle, answered |-> 0, spoiled |-> FALSE]

Init ==
  /\ readonly \in BOOLEAN /\ running = TRUE /\ slots \in SlotCounts
  /\ pc = [l \in AllThreads |-> "top"]
  /\ todo = [l \in AllThreads |-> {}]
  /\ events = [l \in AllThreads |-> {}]
  /\ conn = [c \in Clients |-> NoConn("away")]
  /\ \E s \in Scripts :
       client = [c \in Clients |-> [script |-> s[c], sent |-> 0, net |-> <<>>, got |-> <<>>,
                                    here |-> TRUE, blocked |-> FALSE, thread |-> Main]]
  /\ backlog = <<>>
  /\ pipe = [w \in Workers |-> <<>>]
  /\ rr_next = 0
  /\ flush_in_flight = FALSE /\ flush_io = FALSE /\ unsaved = FALSE
  /\ stopped = FALSE

Open(c) == conn[c].state = "open"

OpenAt(l) == {c \in Clients : Open(c) /\ client[c].thread = l}
-----------------------------------------------------------------------------
(* Responses.  A response is one chunk of the send queue; a streamed one is *)
(* a header, a frame per chunk of features, and a terminator.               *)

Item(k, part, ok) == [req |-> k, part |-> part, ok |-> ok]

\* The frames of the chunks after from, up to to, of streaming pull k.
Frames(k, from, to) == [i \in 1..(to - from) |-> Item(k, from + i, TRUE)]

Writes(r) == r.kind \in {"push", "save"}

\* The whole response to a request.
Response(r) ==
  IF r.kind = "stream"
  THEN <<Item(r.no, 0, TRUE)>> \o Frames(r.no, 0, Chunks) \o <<Item(r.no, Chunks + 1, TRUE)>>
  ELSE <<Item(r.no, 0, ~(readonly /\ Writes(r)))>>

\* The first n of some sequences, one after the other.
Joined(parts) ==
  LET all[n \in 0..Len(parts)] == IF n = 0 THEN <<>> ELSE all[n - 1] \o parts[n]
  IN  all

\* The responses to some requests, one after the other.
Responses(reqs) == Joined([i \in 1..Len(reqs) |-> Response(reqs[i])])[Len(reqs)]

\* The requests of a client, and the first n of them.
Request(c, i) == [no |-> i, kind |-> client[c].script[i]]
Requests(c, n) == [i \in 1..n |-> Request(c, i)]
-----------------------------------------------------------------------------
(* What a thread does with one connection, as the set of its outcomes: the  *)
(* connection and the client's side afterwards, the requests executed, and  *)
(* whether the connection is to be closed.                                  *)

Start(c) == [conn |-> conn[c], client |-> client[c], done |-> <<>>, close |-> FALSE]

Closing(o) == [o EXCEPT !.close = TRUE]

\* client_flush_send and, without the reset of the arena, client_flush_send_raw:
\* the socket takes all chunks or some, nothing if it is full; the write fails
\* only if the client has gone.
FlushSend(o, reset) ==
  LET queue == o.conn.send
      Sent(n) == [o EXCEPT !.conn.send = SubSeq(queue, n + 1, Len(queue)),
                           !.conn.spoiled = @ \/ (reset /\ n = Len(queue) /\ o.conn.async # Idle),
                           !.client.got = @ \o SubSeq(queue, 1, n),
                           !.client.blocked = n < Len(queue)]
  IN  IF queue = <<>> THEN {o}
      ELSE (IF o.client.blocked THEN {o} ELSE {Sent(n) : n \in 1..Len(queue)})
           \cup (IF o.client.here THEN {} ELSE {Closing(o)})

\* What handle_pull_stream queues before the disk is waited for: the header and
\* the frames of the first j chunks.
StreamStart(r, j) == <<Item(r.no, 0, TRUE)>> \o Frames(r.no, 0, j)

\* handle_pull or handle_pull_stream of the request at the head, of which the
\* first j chunks come from memory and the next has to wait for the disk.
PullWaits(o, j) ==
  LET r == Head(o.conn.recv)
  IN  [o EXCEPT !.conn.recv = Tail(@),
                !.conn.async = [req |-> r, offset |-> j, reading |-> TRUE],
                !.conn.send = IF r.kind = "stream" THEN @ \o StreamStart(r, j) ELSE @]

\* The first m requests are answered at once.
Answered(o, m) ==
  [o EXCEPT !.conn.recv = SubSeq(@, m + 1, Len(@)),
            !.conn.send = @ \o Responses(SubSeq(o.conn.recv, 1, m)),
            !.conn.answered = @ + m,
            !.done = @ \o SubSeq(o.conn.recv, 1, m)]

\* Faulty variant: a request is processed while a pull waits.
ProcessMessagesBusy(o) ==
  LET recv == o.conn.recv
      Clean(m) == \A i \in 1..m : recv[i].kind # "junk"
  IN  {Answered(o, m) : m \in {n \in {Len(recv)} : Clean(n)}}
      \cup {Closing(Answered(o, m)) : m \in {n \in 0..(Len(recv) - 1) :
                                             Clean(n) /\ recv[n + 1].kind = "junk"}}
      \cup {PullWaits(Answered(o, m), j) :
              m \in {n \in 0..(Len(recv) - 1) : Clean(n) /\ recv[n + 1].kind \in {"pull", "stream"}},
              j \in 0..(Chunks - 1)}

\* process_message, called until nothing more can be processed: every request
\* received is answered, or one of them is no request, or a pull waits.
ProcessMessages(o) ==
  LET recv == o.conn.recv
      Clean(m) == \A i \in 1..m : recv[i].kind # "junk"
  IN  IF o.conn.async # Idle THEN {o}
      ELSE {Answered(o, m) : m \in {n \in {Len(recv)} : Clean(n)}}
           \cup {Closing(Answered(o, m)) : m \in {n \in 0..(Len(recv) - 1) :
                                                  Clean(n) /\ recv[n + 1].kind = "junk"}}
           \cup {PullWaits(Answered(o, m), j) :
                   m \in {n \in 0..(Len(recv) - 1) : Clean(n) /\ recv[n + 1].kind \in {"pull", "stream"}},
                   j \in 0..(Chunks - 1)}

\* The read of an event: a buffer at its limit, or the end of the stream,
\* closes the connection.
ReadSocket(o) ==
  LET room == RecvCap - Len(o.conn.recv)
  IN  IF room = 0 \/ o.client.net = <<>> THEN {Closing(o)}
      ELSE {[o EXCEPT !.conn.recv = @ \o SubSeq(o.client.net, 1, n),
                      !.client.net = SubSeq(@, n + 1, Len(@))] :
              n \in {i \in 1..Len(o.client.net) : i <= room}}

\* The handling of an event on a connection.
Serve(c, read) ==
  LET input == IF read THEN ReadSocket(Start(c)) ELSE {Start(c)}
      processed == UNION {IF o.close \/ ~read THEN {o} ELSE ProcessMessages(o) : o \in input}
  IN  UNION {IF o.close THEN {o} ELSE FlushSend(o, TRUE) : o \in processed}

\* What stream_resume queues once the chunks up to n are there: their frames
\* and, after the last, the terminator.
StreamMore(a, n) ==
  Frames(a.req.no, a.offset, n)
    \o (IF n = Chunks THEN <<Item(a.req.no, Chunks + 1, TRUE)>> ELSE <<>>)

\* pull_resume and stream_resume once the chunk has been read: the chunks up
\* to n are there, the last of them from memory.  The response to a pull that
\* is not streamed is queued when it is complete.
ChunksDone(o, n) ==
  LET a == o.conn.async
      last == n = Chunks
  IN  [o EXCEPT !.conn.send = IF a.req.kind = "stream" THEN @ \o StreamMore(a, n)
                              ELSE IF last THEN Append(@, Item(a.req.no, 0, TRUE)) ELSE @,
                !.conn.async = IF last THEN Idle ELSE [a EXCEPT !.offset = n, !.reading = TRUE],
                !.conn.answered = IF last THEN @ + 1 ELSE @]

\* Faulty variant: the requests received meanwhile are left in the buffer.
ResumeOnly(c) ==
  LET o == Start(c)
      a == o.conn.async
      polled == IF a.reading THEN {o} ELSE {ChunksDone(o, n) : n \in (a.offset + 1)..Chunks}
  IN  UNION {FlushSend(p, p.conn.async = Idle) : p \in polled}

\* client_async_resume and what the loop does after it.
Resume(c) ==
  LET o == Start(c)
      a == o.conn.async
      polled == IF a.reading THEN {o} ELSE {ChunksDone(o, n) : n \in (a.offset + 1)..Chunks}
      flushed == UNION {FlushSend(p, p.conn.async = Idle) : p \in polled}
  IN  UNION {IF p.close \/ p.conn.async # Idle THEN {p} ELSE ProcessMessages(p) : p \in flushed}
-----------------------------------------------------------------------------
(* The threads. *)

\* What the requests executed do to the database: a push may find the water
\* level reached and submit a flush; flush and checkpoint requests save.
Execute(reqs) ==
  LET writes == SelectSeq(reqs, Writes)
  IN  IF readonly \/ writes = <<>>
      THEN UNCHANGED dbVars
      ELSE /\ unsaved' = (writes[Len(writes)].kind = "push")
           /\ \/ UNCHANGED <<flush_in_flight, flush_io>>
              \/ /\ ~flush_in_flight /\ \E r \in Range(writes) : r.kind = "push"
                 /\ flush_in_flight' = TRUE /\ flush_io' = TRUE

\* No read is outstanding for the connections.
Drained(cs) == \A c \in cs : conn[c].async # Idle => ~conn[c].async.reading

\* A connection after an outcome; client_close drains a get in flight.
Settle(c, o) ==
  /\ conn' = [conn EXCEPT ![c] = IF o.close THEN NoConn("closed") ELSE o.conn]
  /\ client' = [client EXCEPT ![c] = o.client]
  /\ Execute(o.done)

\* The head of the loop: poll the flush, and start on the waiting pulls.
Top(l) ==
  /\ pc[l] = "top" /\ running
  /\ IF l = Main /\ flush_in_flight /\ ~flush_io
     THEN flush_in_flight' = FALSE /\ UNCHANGED <<flush_io, unsaved>>
     ELSE UNCHANGED dbVars
  /\ pc' = [pc EXCEPT ![l] = "resume"]
  /\ todo' = [todo EXCEPT ![l] = {c \in OpenAt(l) : conn[c].async # Idle}]
  /\ UNCHANGED <<config, running, events, conn, client, backlog, pipe, rr_next, stopped>>

ResumeConn(l) ==
  /\ pc[l] = "resume"
  /\ \E c \in todo[l] : \E o \in Resume(c) :
       /\ Settle(c, o)
       /\ todo' = [todo EXCEPT ![l] = @ \ {c}]
  /\ UNCHANGED <<config, running, pc, events, backlog, pipe, rr_next, stopped>>

\* What epoll reports: a connection that can be read, or written if a send is
\* pending; and a connection to accept, or handed over.
Ready(l) ==
  {<<c, client[c].net # <<>> \/ ~client[c].here>> :
     c \in {d \in OpenAt(l) : \/ client[d].net # <<>>
                              \/ ~client[d].here
                              \/ conn[d].send # <<>> /\ ~client[d].blocked}}
  \cup (IF (IF l = Main THEN backlog ELSE pipe[l]) # <<>>
        THEN {<<Listen, TRUE>>} ELSE {})

\* Faulty variant: the wait has no time limit.
WaitForEvent(l) ==
  /\ pc[l] = "resume" /\ todo[l] = {} /\ Ready(l) # {}
  /\ events' = [events EXCEPT ![l] = Ready(l)]
  /\ pc' = [pc EXCEPT ![l] = "handle"]
  /\ unsaved' \in IF readonly THEN {unsaved} ELSE {unsaved, FALSE}
  /\ UNCHANGED <<config, running, todo, conn, client, backlog, pipe, rr_next, flush_in_flight,
                 flush_io, stopped>>

\* io_poller_wait, with or without an event; then the periodic checkpoint, if its interval has passed.
Wait(l) ==
  /\ pc[l] = "resume" /\ todo[l] = {}
  /\ events' = [events EXCEPT ![l] = Ready(l)]
  /\ pc' = [pc EXCEPT ![l] = IF Ready(l) = {} THEN "top" ELSE "handle"]
  /\ unsaved' \in IF readonly THEN {unsaved} ELSE {unsaved, FALSE}
  /\ UNCHANGED <<config, running, todo, conn, client, backlog, pipe, rr_next, flush_in_flight,
                 flush_io, stopped>>

\* The loop takes up event e.
Take(l, e) ==
  /\ pc[l] = "handle" /\ e \in events[l]
  /\ events' = [events EXCEPT ![l] = @ \ {e}]
  /\ pc' = [pc EXCEPT ![l] = IF events[l] = {e} THEN "top" ELSE "handle"]

\* Faulty variant: the slots are not counted.
AdmitAll(l, cs) ==
  /\ conn' = [c \in Clients |-> IF c \in Range(cs) THEN NoConn("open") ELSE conn[c]]
  /\ client' = [c \in Clients |-> IF c \in Range(cs) THEN [client[c] EXCEPT !.thread = l]
                                  ELSE client[c]]

\* A connection gets a free slot, or is closed.
Admit(l, cs) ==
  LET free == slots - Cardinality(OpenAt(l))
      In(c) == \E i \in 1..Len(cs) : cs[i] = c /\ i <= free
  IN  /\ conn' = [c \in Clients |-> IF c \notin Range(cs) THEN conn[c]
                                    ELSE NoConn(IF In(c) THEN "open" ELSE "closed")]
      /\ client' = [c \in Clients |-> IF c \in Range(cs) THEN [client[c] EXCEPT !.thread = l]
                                      ELSE client[c]]

\* server_loop accepts one connection per event.
AcceptConn ==
  /\ Take(Main, <<Listen, TRUE>>)
  /\ Admit(Main, <<Head(backlog)>>)
  /\ backlog' = Tail(backlog)
  /\ UNCHANGED <<config, running, todo, pipe, rr_next, dbVars, stopped>>

\* A worker takes all connections out of its pipe.
NotifyConns(l) ==
  /\ Take(l, <<Listen, TRUE>>)
  /\ Admit(l, pipe[l])
  /\ pipe' = [pipe EXCEPT ![l] = <<>>]
  /\ UNCHANGED <<config, running, todo, backlog, rr_next, dbVars, stopped>>

ServeConn(l) ==
  /\ \E e \in events[l] :
       /\ e[1] # Listen
       /\ Take(l, e)
       /\ \E o \in Serve(e[1], e[2]) : Settle(e[1], o)
  /\ UNCHANGED <<config, running, todo, backlog, pipe, rr_next, stopped>>

\* A thread sees that the server is to stop.  client_close waits for the read
\* of a get in flight; a worker closes its connections so, and then its end of
\* the pipe.  What is still in the pipe is lost.
Exit(l) ==
  LET mine == IF l = Main THEN {} ELSE OpenAt(l)
  IN  /\ pc[l] = "top" /\ ~running /\ Drained(mine)
      /\ pc' = [pc EXCEPT ![l] = "exited"]
      /\ conn' = [c \in Clients |-> IF c \in mine THEN NoConn("closed") ELSE conn[c]]
      /\ UNCHANGED <<config, running, todo, events, client, backlog, pipe, rr_next, dbVars, stopped>>

Thread(l) ==
  \/ Top(l)
  \/ ResumeConn(l)
  \/ Wait(l)
  \/ l = Main /\ AcceptConn
  \/ l # Main /\ NotifyConns(l)
  \/ ServeConn(l)
  \/ Exit(l)
-----------------------------------------------------------------------------
(* readonly_accept_loop. *)

\* io_poller_wait reports a connection to accept.
AcceptReady ==
  /\ pc[Main] = "top" /\ running /\ backlog # <<>>
  /\ pc' = [pc EXCEPT ![Main] = "handle"]
  /\ UNCHANGED <<config, running, todo, events, conn, client, backlog, pipe, rr_next, dbVars, stopped>>

\* Faulty variant: after a failed write the connection is not closed.
DistributeUnchecked ==
  LET c == Head(backlog) IN
  /\ pc[Main] = "handle"
  /\ pc' = [pc EXCEPT ![Main] = "top"]
  /\ backlog' = Tail(backlog)
  /\ rr_next' = (rr_next + 1) % Cardinality(Workers)
  /\ conn' = [conn EXCEPT ![c] = NoConn("piped")]
  /\ pipe' = IF pc[rr_next] = "exited" THEN pipe ELSE [pipe EXCEPT ![rr_next] = Append(@, c)]
  /\ UNCHANGED <<config, running, todo, events, client, dbVars, stopped>>

\* The connection is accepted, even if the server is to stop meanwhile, and
\* written to the pipe of the next worker.  The write fails if the worker has
\* exited: the connection is closed.
Distribute ==
  LET c == Head(backlog) IN
  /\ pc[Main] = "handle"
  /\ pc' = [pc EXCEPT ![Main] = "top"]
  /\ backlog' = Tail(backlog)
  /\ rr_next' = (rr_next + 1) % Cardinality(Workers)
  /\ IF pc[rr_next] = "exited"
     THEN conn' = [conn EXCEPT ![c] = NoConn("closed")] /\ UNCHANGED pipe
     ELSE /\ conn' = [conn EXCEPT ![c] = NoConn("piped")]
          /\ pipe' = [pipe EXCEPT ![rr_next] = Append(@, c)]
  /\ UNCHANGED <<config, running, todo, events, client, dbVars, stopped>>

AcceptLoop == readonly /\ (AcceptReady \/ Distribute \/ Exit(Main))
-----------------------------------------------------------------------------
(* gravel_server_stop. *)

Stop ==
  /\ running
  /\ running' = FALSE
  /\ UNCHANGED <<config, loopVars, conn, client, backlog, pipe, rr_next, dbVars, stopped>>

\* All threads are joined: the connections of server_loop are closed, what
\* nobody has accepted is refused, and what was pushed is saved.
Stopped ==
  /\ ~running /\ ~stopped /\ \A l \in Threads \cup {Main} : pc[l] = "exited"
  /\ Drained(OpenAt(Main))
  /\ conn' = [c \in Clients |-> IF c \in OpenAt(Main) \cup Range(backlog)
                                THEN NoConn("closed") ELSE conn[c]]
  /\ backlog' = <<>>
  /\ unsaved' = FALSE
  /\ stopped' = TRUE
  /\ UNCHANGED <<config, running, loopVars, client, pipe, rr_next, flush_in_flight, flush_io>>
-----------------------------------------------------------------------------
(* Clients and the disk. *)

\* A client that has something to send connects.
Connect(c) ==
  /\ ~stopped /\ conn[c].state = "away" /\ client[c].script # <<>>
  /\ conn' = [conn EXCEPT ![c] = NoConn("backlog")]
  /\ backlog' = Append(backlog, c)
  /\ UNCHANGED <<config, running, loopVars, client, pipe, rr_next, dbVars, stopped>>

\* Requests may be pipelined, and sent before the connection is accepted.
Send(c) ==
  /\ conn[c].state \in {"backlog", "piped", "open"} /\ client[c].here
  /\ client[c].sent < Len(client[c].script)
  /\ client' = [client EXCEPT ![c].sent = @ + 1,
                              ![c].net = Append(@, Request(c, client[c].sent + 1))]
  /\ UNCHANGED <<config, running, loopVars, conn, backlog, pipe, rr_next, dbVars, stopped>>

HangUp(c) ==
  /\ conn[c].state \in {"backlog", "piped", "open"} /\ client[c].here
  /\ client' = [client EXCEPT ![c].here = FALSE]
  /\ UNCHANGED <<config, running, loopVars, conn, backlog, pipe, rr_next, dbVars, stopped>>

\* The client reads, and there is room in the socket again.
Drain(c) ==
  /\ client[c].blocked
  /\ client' = [client EXCEPT ![c].blocked = FALSE]
  /\ UNCHANGED <<config, running, loopVars, conn, backlog, pipe, rr_next, dbVars, stopped>>

\* The disk completes the reads of a chunk, or the writes of the flush.
ReadDone(c) ==
  /\ conn[c].async # Idle /\ conn[c].async.reading
  /\ conn' = [conn EXCEPT ![c].async.reading = FALSE]
  /\ UNCHANGED <<config, running, loopVars, client, backlog, pipe, rr_next, dbVars, stopped>>

FlushDone ==
  /\ flush_io
  /\ flush_io' = FALSE
  /\ UNCHANGED <<config, running, loopVars, conn, client, backlog, pipe, rr_next,
                 flush_in_flight, unsaved, stopped>>

Next ==
  \/ \E l \in Threads : Thread(l)
  \/ AcceptLoop
  \/ Stop
  \/ Stopped
  \/ \E c \in Clients : Connect(c) \/ Send(c) \/ HangUp(c) \/ Drain(c) \/ ReadDone(c)
  \/ FlushDone

Spec == Init /\ [][Next]_vars

\* The threads run, the disk completes what it is given, and clients read.
Fairness ==
  /\ WF_vars((~readonly /\ Thread(Main)) \/ AcceptLoop)
  /\ \A w \in Workers : WF_vars(readonly /\ Thread(w))
  /\ WF_vars(Stopped)
  /\ WF_vars(FlushDone \/ \E c \in Clients : ReadDone(c))
  /\ WF_vars(\E c \in Clients : Drain(c))

FairSpec == Spec /\ Fairness
-----------------------------------------------------------------------------
(* Properties. *)

\* The types of the variables; no thread serves more connections than it has
\* slots (find_free_slot).
TypeOK ==
  /\ readonly \in BOOLEAN /\ running \in BOOLEAN /\ stopped \in BOOLEAN
  /\ pc \in [AllThreads -> {"top", "resume", "handle", "exited"}]
  /\ todo \in [AllThreads -> SUBSET Clients]
  /\ \A l \in AllThreads : events[l] \subseteq (Clients \cup {Listen}) \X BOOLEAN
  /\ \A l \in AllThreads : Cardinality(OpenAt(l)) <= slots
  /\ slots \in SlotCounts
  /\ \A c \in Clients :
       /\ conn[c].state \in {"away", "backlog", "piped", "open", "closed"}
       /\ Len(conn[c].recv) <= RecvCap
       /\ conn[c].async # Idle => /\ conn[c].async.req.kind \in {"pull", "stream"}
                                  /\ conn[c].async.offset \in 0..(Chunks - 1)
  /\ rr_next \in Workers
  /\ flush_in_flight \in BOOLEAN /\ flush_io \in BOOLEAN /\ unsaved \in BOOLEAN

\* The numbers of requests that come before anything that is no request.
Answerable(c) ==
  {n \in 0..Len(client[c].script) : \A i \in 1..n : client[c].script[i] # "junk"}

IsPrefix(s, t) == Len(s) <= Len(t) /\ s = SubSeq(t, 1, Len(s))

\* What the client has received and what is queued for it are the responses to
\* its requests, in their order, complete up to the one in progress: pipelined
\* requests overtake neither a pull that waits for the disk nor each other
\* (process_message, client_async_resume).
ResponsesInOrder ==
  \A c \in Clients :
    LET out == client[c].got \o conn[c].send
    IN  /\ \E n \in Answerable(c) : IsPrefix(out, Responses(Requests(c, n)))
        /\ Open(c) /\ conn[c].async = Idle =>
             out = Responses(Requests(c, conn[c].answered))

\* Once gravel_server_stop has returned and the database may be closed, every
\* push is saved, also one executed during the stop; no get is in flight; and
\* every connection that came up, one accepted during the stop included, has
\* been closed: but for those that a worker left in its pipe when it exited,
\* whose descriptors nobody closes (readonly_accept_loop, read_worker_loop,
\* client_close).
StopClean ==
  stopped =>
    /\ ~unsaved
    /\ \A c \in Clients :
         /\ conn[c].async = Idle
         /\ \/ conn[c].state \in {"away", "closed"}
            \/ conn[c].state = "piped" /\ \E w \in Workers : c \in Range(pipe[w])

\* The memory of a request is reset after its response: no arena is reset while
\* a pull of its connection is in progress, whose feature ids, buffers and half
\* built response are in it (client_flush_send).
ArenaHeld == \A c \in Clients : ~conn[c].spoiled

\* Every request that a client sends is answered, unless the connection is
\* closed or the server stopped.
AllAnswered ==
  \A c \in Clients :
    conn[c].state \in {"backlog", "piped", "open"} /\ client[c].net # <<>>
      ~> \/ client[c].got = Responses(Requests(c, client[c].sent))
         \/ conn[c].state = "closed"
         \/ ~running

\* gravel_server_stop returns, whatever the threads are doing when it is called:
\* none waits for an event that does not come, and the gets in flight of the
\* connections to close are completed (gravel_server_stop, client_close).
StopReturns == ~running ~> stopped
=============================================================================
