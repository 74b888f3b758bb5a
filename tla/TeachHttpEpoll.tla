--------------------------- MODULE TeachHttpEpoll ---------------------------
(***************************************************************************)
(* The web server nty_http_epoll.c: a process per core, each with its own  *)
(* epoll, on one listening socket made before the fork.  A word in shared  *)
(* memory is tried, never waited for, before each accept.                  *)
(*                                                                         *)
(* What a client sends is not looked at: whatever one recv gives is        *)
(* answered with the page.  The branch for a hang-up is never taken, as    *)
(* epoll reports EPOLLIN or EPOLLOUT with it, and these are asked first.   *)
(***************************************************************************)
EXTENDS TeachSocket, Integers

CONSTANT CoreSet   \* the processes

NoCore == "none"
ASSUME CoreAssumption == NoCore \notin CoreSet

VARIABLES
    core,        \* core[q]: [st, batch, total], total being totalfds of q's slot
    accept_mtx,  \* the process in accept, NoCore if none
    server,      \* server[p]: the process that accepted client p
    arm          \* arm[p]: what epoll reports of p: "once", "out", "level", "" nothing

httpEpollVars == <<sockVars, core, accept_mtx, server, arm>>

IsHttpEpoll == prog = "httpepoll"
Page == <<<<Listener, 1>>>>

HttpEpollInit ==
    /\ core = [q \in CoreSet |-> [st |-> "up", batch |-> {}, total |-> 0]]
    /\ accept_mtx = NoCore
    /\ server = [p \in Peers |-> NoCore]
    /\ arm = [p \in Peers |-> ""]

OpenAt(q) == { p \in Open : server[p] = q }
Up(q) == IsHttpEpoll /\ core[q].st = "up"

\* A process that ends takes its connections with it.
Without(q) == [p \in Peers |-> IF p \in OpenAt(q) THEN Closed(peer[p]) ELSE peer[p]]

-----------------------------------------------------------------------------
\* epoll_wait, when nothing of the last batch is left: [who, out].  What is armed
\* for once is not reported again before it is armed again.
ListenEvent == [who |-> Listener, out |-> FALSE]
News(q) ==
    (IF queue # <<>> THEN {ListenEvent} ELSE {})
    \cup { [who |-> p, out |-> arm[p] = "out"] :
            p \in { x \in OpenAt(q) : arm[x] = "out" \/ (arm[x] # "" /\ Readable(x)) } }

EpollNews(q) ==
    /\ Up(q) /\ core[q].batch = {} /\ News(q) # {}
    /\ core' = [core EXCEPT ![q].batch = News(q)]
    /\ arm' = [p \in Peers |-> IF arm[p] # "level" /\ \E e \in News(q) : e.who = p THEN "" ELSE arm[p]]
    /\ UNCHANGED <<sockVars, accept_mtx, server>>

\* lock: if another process has it the event is left, and comes again.
TryLock(q) ==
    /\ Up(q) /\ ListenEvent \in core[q].batch /\ accept_mtx # q
    /\ IF accept_mtx = NoCore
       THEN accept_mtx' = q /\ UNCHANGED core
       ELSE UNCHANGED accept_mtx /\ core' = [core EXCEPT ![q].batch = @ \ {ListenEvent}]
    /\ UNCHANGED <<sockVars, server, arm>>

\* accept and unlock: a client, nothing because another process took it, or no
\* descriptor left, which accept finds first; then server() returns and the
\* process ends.
AcceptLocked(q) ==
    /\ Up(q) /\ accept_mtx = q /\ accept_mtx' = NoCore
    /\ \/ /\ Cardinality(OpenAt(q)) = setup.limit
          /\ core' = [core EXCEPT ![q].st = "ended"] /\ peer' = Without(q)
          /\ UNCHANGED <<queue, server, arm>>
       \/ /\ Cardinality(OpenAt(q)) < setup.limit /\ queue = <<>>
          /\ core' = [core EXCEPT ![q].batch = @ \ {ListenEvent}]
          /\ UNCHANGED <<peer, queue, server, arm>>
       \/ /\ Cardinality(OpenAt(q)) < setup.limit /\ queue # <<>>
          /\ LET p == Head(queue) IN
             /\ peer' = [peer EXCEPT ![p] = Accepted(p)] /\ queue' = Tail(queue)
             /\ server' = [server EXCEPT ![p] = q] /\ arm' = [arm EXCEPT ![p] = "once"]
          /\ core' = [core EXCEPT ![q].batch = @ \ {ListenEvent}, ![q].total = @ + 1]
    /\ UNCHANGED <<setup, down>>

\* A client's event has its turn, before or after the listener's.
Turns(q, p, out) ==
    Up(q) /\ accept_mtx # q /\ [who |-> p, out |-> out] \in core[q].batch
\* Mutant: nothing is counted off.
Handled_Uncounted(q, p, less) ==
    core' = [core EXCEPT ![q].batch = { e \in @ : e.who # p }]

\* The event is done with, and less is counted off.
Handled(q, p, less) ==
    core' = [core EXCEPT ![q].batch = { e \in @ : e.who # p }, ![q].total = @ - less]

\* EPOLLIN: accept_request, then armed for EPOLLOUT, which fails on a descriptor
\* that accept_request has closed.
ServeIn(q, p) ==
    /\ Turns(q, p, FALSE)
    /\ IF Result(p, setup.buf) > 0
       THEN /\ peer' = [peer EXCEPT ![p] = Received(p, setup.buf)]
            /\ arm' = [arm EXCEPT ![p] = "out"] /\ Handled(q, p, 0)
       ELSE /\ peer' = [peer EXCEPT ![p] = Closed(Received(p, setup.buf))]
            /\ UNCHANGED arm /\ Handled(q, p, 1)
    /\ UNCHANGED <<setup, queue, down, accept_mtx, server>>

\* Mutant: nothing is armed after the answer.
ServeOut_NotArmed(q, p) ==
    /\ Turns(q, p, TRUE)
    /\ peer' = [peer EXCEPT ![p] = Answered(@, Page)]
    /\ UNCHANGED arm /\ Handled(q, p, 1)
    /\ UNCHANGED <<setup, queue, down, accept_mtx, server>>

\* EPOLLOUT: serve_file, then armed for EPOLLIN for good; the count goes down
\* although the connection stays.
ServeOut(q, p) ==
    /\ Turns(q, p, TRUE)
    /\ IF SendKills(peer[p])
       THEN /\ core' = [core EXCEPT ![q].st = "killed"] /\ peer' = Without(q) /\ UNCHANGED arm
       ELSE /\ peer' = [peer EXCEPT ![p] = Answered(@, Page)]
            /\ arm' = [arm EXCEPT ![p] = "level"] /\ Handled(q, p, 1)
    /\ UNCHANGED <<setup, queue, down, accept_mtx, server>>

CoreStep(q) ==
    \/ EpollNews(q) \/ TryLock(q) \/ AcceptLocked(q)
    \/ \E p \in Peers : ServeIn(q, p) \/ ServeOut(q, p)

HttpEpollClient(p) ==
    (Connect(p) \/ SendOrQuit(p)) /\ UNCHANGED <<core, accept_mtx, server, arm>>

HttpEpollNext == (\E q \in CoreSet : CoreStep(q)) \/ \E p \in Peers : HttpEpollClient(p)

-----------------------------------------------------------------------------
HttpEpollTypeOK ==
    /\ SockTypeOK
    /\ accept_mtx \in CoreSet \cup {NoCore} /\ server \in [Peers -> CoreSet \cup {NoCore}]
    /\ arm \in [Peers -> {"", "once", "out", "level"}]
    /\ \A q \in CoreSet : /\ core[q].st \in {"up", "ended", "killed"} /\ core[q].total \in Int
                         /\ core[q].st # "up" => OpenAt(q) = {}
                         /\ core[q].batch \subseteq [who : Peers \cup {Listener}, out : BOOLEAN]

\* The word is held only by a process that is up and has the listener's event in
\* hand: none ends with it, whatever ends it, so the others can always accept
\* (nty_http_epoll.c:568-585).
LockSurvives ==
    accept_mtx # NoCore => core[accept_mtx].st = "up" /\ ListenEvent \in core[accept_mtx].batch

\* Every connection is armed, or its event is in the batch: none is forgotten between
\* EPOLLONESHOT and the next EPOLL_CTL_MOD; and no event is for a connection that
\* was closed (nty_http_epoll.c:593-619).
ArmedOrHandled ==
    IsHttpEpoll => \A q \in CoreSet : core[q].st = "up" =>
        /\ \A p \in OpenAt(q) : arm[p] # "" \/ \E e \in core[q].batch : e.who = p
        /\ \A e \in core[q].batch : e.who \in OpenAt(q) \cup {Listener}

\* No page that was not asked for: each one is paid for with at least one unit.
PagesPaid == \A p \in Peers : IsHttpEpoll => Len(peer[p].got) <= peer[p].sent

\* A process is killed only by a client that asked a second time and went away; one
\* that asks once and goes does no harm.  It ends of itself only with all its
\* descriptors in use.
WhatStopsCores ==
    IsHttpEpoll => \A q \in CoreSet :
        /\ core[q].st = "killed" =>
              \E p \in Peers : server[p] = q /\ peer[p].end \in {"finrst", "told"} /\ peer[p].sent >= 2
        /\ core[q].st = "ended" =>
              Cardinality({ p \in Peers : server[p] = q /\ peer[p].st = "shut" }) >= setup.limit

\* totalfds, meant to be the connections of a process, falls by one with each page
\* too: after the first answer it is too low for good (nty_http_epoll.c:389, 621).
CountTooLow ==
    IsHttpEpoll => \A q \in CoreSet : core[q].st = "up" =>
        /\ core[q].total <= Cardinality(OpenAt(q))
        /\ (\E p \in Peers : server[p] = q /\ peer[p].got # <<>>) => core[q].total < Cardinality(OpenAt(q))

\* The web server with a process per core: nobody ends with the lock, no connection is
\* forgotten between its one-shot events, and pages, counts and ends are accounted for
\* (nty_http_epoll.c:363-623).
HttpEpollSound ==
    /\ HttpEpollTypeOK /\ LockSurvives /\ ArmedOrHandled
    /\ PagesPaid /\ WhatStopsCores /\ CountTooLow

\* What becomes of a client that asked: it is read and answered, or its process
\* or, if nobody accepted it, all of them have stopped.
HttpEpollServed(p) ==
    \/ peer[p].st = "shut" \/ (peer[p].st = "open" /\ ~Readable(p))
    \/ \A q \in CoreSet : core[q].st # "up"
=============================================================================
