------------------------------ MODULE MulPort -------------------------------
(***************************************************************************)
(* server_mulport_epoll.c: main accepts on edge-triggered listening        *)
(* sockets and hands every event of a client to a pool of workers, which   *)
(* receive, answer what begins with an 'a', and close.  Nothing keeps two  *)
(* workers from having jobs for one descriptor, or a job from outliving    *)
(* its connection.                                                         *)
(*                                                                         *)
(* The hundred listening sockets are one here, as they differ in nothing.  *)
(* A hand is main or a worker.  A worker takes a job under the mutex,      *)
(* which is one step.  curfds is changed by main and the workers without a *)
(* lock: each change is a read and a write.  Odd units begin with an 'a'.  *)
(* The workers are never told to end, and memory does not run out.         *)
(***************************************************************************)
EXTENDS TeachSocket, Integers

CONSTANTS MulWorkers

VARIABLES
    edges,  \* rdllist: clients, and the listening socket, epoll has news of
    happened,  \* events: what epoll_wait returned, not looked at yet
    jobs,   \* waiting_jobs, the newest first
    hand,   \* hand[h]: [pc, fd, of, took, ret, seen], main or a worker
    curfds, nRun,
    drops,  \* history: how often ENOTCONN was met for a client's connection
    cutby     \* history: the client whose job closed the connection of a client

ownMul == <<edges, happened, jobs, hand, curfds, nRun, drops, cutby>>
mulVars == <<sockVars, ownMul>>

IsMul == prog = "mulport"
MainHand == "main"
Hands == {MainHand} \cup MulWorkers
IdleHand == [pc |-> "idle", fd |-> 0, of |-> Listener, took |-> <<>>, ret |-> "ok", seen |-> 0]
Begun(e) == [IdleHand EXCEPT !.pc = "recv", !.fd = e.fd, !.of = e.of]

MulPortInit ==
    /\ SockInit
    /\ edges = <<>> /\ happened = <<>> /\ jobs = <<>>
    /\ hand = [h \in Hands |-> IdleHand]
    /\ curfds = 1 /\ nRun = FALSE
    /\ drops = [p \in Peers |-> 0] /\ cutby = [p \in Peers |-> Listener]

-----------------------------------------------------------------------------
\* The kernel tells an edge once: a connection, or units or the end of a client.
Told(x) == IF Contains(edges, x) THEN edges ELSE Append(edges, x)

\* What is closed is in no set of epoll any more.
Untold(x) ==
    IF Contains(edges, x) THEN RemoveAt(edges, CHOOSE i \in 1..Len(edges) : edges[i] = x) ELSE edges

MulClient(p) ==
    /\ \/ Connect(p) /\ edges' = Told(Listener)
       \/ /\ p \in setup.talk /\ SendOrQuit(p)
          /\ edges' = IF peer[p].st = "open" THEN Told(p) ELSE edges
    /\ UNCHANGED <<happened, jobs, hand, curfds, nRun, drops, cutby>>

MainIdle == down = "up" /\ hand[MainHand].pc = "idle"

\* epoll_wait with room for curfds events; with room for none it fails, and main
\* returns.
EpollWaits ==
    /\ MainIdle /\ happened = <<>>
    /\ \/ /\ curfds <= 0 /\ down' = "killed" /\ UNCHANGED <<edges, happened>>
       \/ /\ curfds > 0 /\ edges # <<>>
          /\ LET n == IF curfds < Len(edges) THEN curfds ELSE Len(edges) IN
             /\ edges' = SubSeq(edges, n + 1, Len(edges))
             /\ happened' = [i \in 1..n |->
                  [of |-> edges[i],
                   fd |-> IF edges[i] = Listener THEN 0 ELSE peer[edges[i]].fd]]
          /\ UNCHANGED down
    /\ UNCHANGED <<setup, peer, queue, jobs, hand, curfds, nRun, drops, cutby>>

listenfd(e) == e.of = Listener

\* main, an event of a listening socket: one accept, however many have come.
AcceptClient ==
    /\ MainIdle /\ happened # <<>> /\ listenfd(Head(happened))
    /\ queue # <<>>
    /\ peer' = [peer EXCEPT ![Head(queue)] = Accepted(Head(queue))]
    /\ queue' = Tail(queue)
    /\ happened' = Tail(happened)
    /\ hand' = [hand EXCEPT ![MainHand] =
                  [IdleHand EXCEPT !.pc = "add", !.of = Head(queue), !.seen = curfds]]
    /\ UNCHANGED <<setup, down, edges, jobs, curfds, nRun, drops, cutby>>

\* main: curfds ++ and, beyond a million, nRun; EPOLL_CTL_ADD tells what is ready,
\* and a new connection is ready for writing.
AddClient ==
    LET h == hand[MainHand] IN
    /\ down = "up" /\ h.pc = "add"
    /\ curfds' = h.seen + 1
    /\ nRun' = (nRun \/ h.seen > setup.many)
    /\ edges' = Told(h.of)
    /\ hand' = [hand EXCEPT ![MainHand] = IdleHand]
    /\ UNCHANGED <<sockVars, happened, jobs, drops, cutby>>

\* workqueue_add_job; a worker that waits for the condition takes it.
workqueue_add_job(e) == jobs' = <<e>> \o jobs

\* main, an event of a client: a job for the pool, or main does it itself.
DispatchEvent ==
    /\ MainIdle /\ happened # <<>> /\ ~listenfd(Head(happened))
    /\ happened' = Tail(happened)
    /\ IF nRun
       THEN hand' = [hand EXCEPT ![MainHand] = Begun(Head(happened))] /\ UNCHANGED jobs
       ELSE workqueue_add_job(Head(happened)) /\ UNCHANGED hand
    /\ UNCHANGED <<sockVars, edges, curfds, nRun, drops, cutby>>

-----------------------------------------------------------------------------
\* worker_function: the first of the list.
TakeJob(w) ==
    /\ down = "up" /\ hand[w].pc = "idle" /\ jobs # <<>>
    /\ hand' = [hand EXCEPT ![w] = Begun(Head(jobs))]
    /\ jobs' = Tail(jobs)
    /\ UNCHANGED <<sockVars, edges, happened, curfds, nRun, drops, cutby>>

\* nRecv on a descriptor that stands for a connection: units until the buffer is
\* full, ENOTCONN at the end or an error.  On one that is closed it tries for ever.
Receive(h) ==
    LET p == Owner(hand[h].fd)
        left == setup.buf - Len(hand[h].took)
        took == hand[h].took \o Taken(p, left) IN
    /\ down = "up" /\ hand[h].pc = "recv" /\ hand[h].fd \in UsedFds /\ Readable(p)
    /\ peer' = [peer EXCEPT ![p] = Received(p, left)]
    /\ IF Result(p, left) > 0
       THEN /\ hand' = [hand EXCEPT ![h].took = took,
                          ![h].pc = IF Len(took) = setup.buf THEN "done" ELSE "recv"]
            /\ UNCHANGED drops
       ELSE /\ hand' = [hand EXCEPT ![h].pc = "done", ![h].ret = "notconn"]
            /\ drops' = [drops EXCEPT ![p] = @ + 1]
    /\ UNCHANGED <<setup, queue, down, edges, happened, jobs, curfds, nRun, cutby>>

\* Mutant: nothing within five milliseconds is taken for a client that left.
TimesOut_Leaves(h) ==
    /\ down = "up" /\ hand[h].pc = "recv"
    /\ hand[h].fd \in UsedFds /\ ~Readable(Owner(hand[h].fd))
    /\ hand' = [hand EXCEPT ![h].pc = "done", ![h].ret = "notconn"]
    /\ UNCHANGED <<sockVars, edges, happened, jobs, curfds, nRun, drops, cutby>>

\* nRecv: nothing to read, and nothing within the five milliseconds of poll.
TimesOut(h) ==
    /\ down = "up" /\ hand[h].pc = "recv"
    /\ hand[h].fd \in UsedFds /\ ~Readable(Owner(hand[h].fd))
    /\ hand' = [hand EXCEPT ![h].pc = "done", ![h].ret = "timeout"]
    /\ UNCHANGED <<sockVars, edges, happened, jobs, curfds, nRun, drops, cutby>>

BeginsWithA(unit) == unit[2] % 2 = 1

\* nSend polls first, and gives up after a reset.
SentBack(fd, s) ==
    IF fd \in UsedFds /\ peer[Owner(fd)].end \in {"no", "fin"}
    THEN [peer EXCEPT ![Owner(fd)] = Answered(@, s)] ELSE peer

\* client_job and client_data_process: what was received is answered, even when
\* the client has left; only when nothing was received is the connection closed.
Respond(h) ==
    LET s == hand[h].took IN
    /\ down = "up" /\ hand[h].pc = "done"
    /\ s # <<>> \/ hand[h].ret # "notconn"
    /\ peer' = IF s # <<>> /\ (nRun \/ BeginsWithA(Head(s)))
               THEN SentBack(hand[h].fd, s) ELSE peer
    /\ hand' = [hand EXCEPT ![h] = IdleHand]
    /\ UNCHANGED <<setup, queue, down, edges, happened, jobs, curfds, nRun, drops, cutby>>

\* curfds -- ...
ReadCount(h) ==
    /\ down = "up" /\ hand[h].pc = "done"
    /\ hand[h].took = <<>> /\ hand[h].ret = "notconn"
    /\ hand' = [hand EXCEPT ![h].pc = "drop", ![h].seen = curfds]
    /\ UNCHANGED <<sockVars, edges, happened, jobs, curfds, nRun, drops, cutby>>

WriteCount(h) ==
    /\ down = "up" /\ hand[h].pc = "drop"
    /\ curfds' = hand[h].seen - 1
    /\ hand' = [hand EXCEPT ![h].pc = "close"]
    /\ UNCHANGED <<sockVars, edges, happened, jobs, nRun, drops, cutby>>

\* ... and close, of whatever the descriptor stands for now.
CloseClient(h) ==
    /\ down = "up" /\ hand[h].pc = "close"
    /\ IF hand[h].fd \in UsedFds
       THEN LET p == Owner(hand[h].fd) IN
            /\ peer' = [peer EXCEPT ![p] = Closed(@)]
            /\ edges' = Untold(p)
            /\ cutby' = [cutby EXCEPT ![p] = hand[h].of]
       ELSE UNCHANGED <<peer, edges, cutby>>
    /\ hand' = [hand EXCEPT ![h] = IdleHand]
    /\ UNCHANGED <<setup, queue, down, happened, jobs, curfds, nRun, drops>>

HandStep(h) ==
    \/ Receive(h) \/ TimesOut(h) \/ Respond(h)
    \/ ReadCount(h) \/ WriteCount(h) \/ CloseClient(h)
MulMain == EpollWaits \/ AcceptClient \/ AddClient \/ DispatchEvent \/ HandStep(MainHand)
MulWorker(w) == TakeJob(w) \/ HandStep(w)
MulPortNext == (\E p \in Peers : MulClient(p)) \/ MulMain \/ \E w \in MulWorkers : MulWorker(w)

-----------------------------------------------------------------------------
MulTypeOK ==
    /\ SockTypeOK /\ edges \in Seq(Peers \cup {Listener}) /\ nRun \in BOOLEAN
    /\ \A h \in Hands :
        /\ hand[h].pc \in {"idle", "add", "recv", "done", "drop", "close"}
        /\ hand[h].fd \in {0} \cup Fds /\ Len(hand[h].took) <= setup.buf

\* A connection whose client has not ended it is cutby only by a job that was made
\* for another client: one of two jobs closed its descriptor, main accepted on the
\* same number, and the other job closed that.
CutByStrangers == IsMul => \A p \in Peers :
    peer[p].st = "shut" /\ peer[p].end = "no" => cutby[p] \notin {p, Listener}

\* What a client is sent was its own, or that of a client whose connection was
\* closed while its units were being answered.
OthersAreGone == IsMul => \A p \in Peers : \A i \in DOMAIN peer[p].got :
    LET q == peer[p].got[i][1] IN q = p \/ peer[q].st = "shut"

\* main ends, for want of room for one event, only after two jobs have counted one
\* client down, or an update was lost between two clients.
EndsByTwo ==
    IsMul /\ down = "killed" =>
        \/ \E p \in Peers : drops[p] >= 2
        \/ Cardinality({ p \in Peers : peer[p].st \in {"open", "shut"} }) >= 2

\* However two jobs for one descriptor meet, it takes both to harm another client or
\* the server (server_mulport_epoll.c:384, 546).
MulPortSound == MulTypeOK /\ CutByStrangers /\ OthersAreGone /\ EndsByTwo

\* One client alone is read to the end of what it sent, or the server ended.
MulServed(p) ==
    Cardinality(setup.cast) = 1 => down # "up" \/ peer[p].st = "shut" \/ (peer[p].st = "open" /\ peer[p].box = <<>>)
=============================================================================
