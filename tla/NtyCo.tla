------------------------------- MODULE NtyCo -------------------------------
(***************************************************************************)
(* The coroutine scheduler NtyCo and the servers that run on it.           *)
(*                                                                         *)
(* A process runs one scheduler (nty_schedule_run): it resumes what is in  *)
(* the ready queue, polls epoll when that queue is empty, and resumes the  *)
(* coroutine that waits for each event.  A call that may block (nty_accept *)
(* nty_recv, or the hooks accept and recv) adds its descriptor to epoll,   *)
(* puts the coroutine in the tree of waiting ones and yields.              *)
(*                                                                         *)
(* The programs: "kv" is kv_ntyco.c (nty_server_mulcore.c and              *)
(* hook_tcpserver.c are alike), which hands every new coroutine the        *)
(* address of the one cli_fd of its accept loop; "echo" is nty_server.c,   *)
(* which hands it memory of its own; "httpd" is ntyco_httpd.c, several     *)
(* processes that share a listening socket and a lock around accept.       *)
(*                                                                         *)
(* All coroutines run on one stack (_USE_UCONTEXT, nty_coroutine.h:53):    *)
(* what a coroutine had on it is saved when it yields and loaded over what *)
(* is there when it is resumed.  cli_fd is on that stack, so a coroutine   *)
(* that is resumed before the new one starts writes over it.               *)
(*                                                                         *)
(* A resumed coroutine runs until it yields, and that is one step, except  *)
(* between unlock and lock of httpd, where other processes may come in.    *)
(* Nothing in these programs sleeps for a time, so the tree of sleeping    *)
(* coroutines stays empty.  A send always finds room.                      *)
(***************************************************************************)
EXTENDS Integers, Sequences, SequencesExt, FiniteSets

CONSTANTS
    Clients,   \* each connects once
    Procs,     \* processes
    MaxFd,     \* descriptors of a process are 1..MaxFd
    Requests,  \* bound on the requests of a client
    Setups     \* [prog, procs, limit]: program, its processes, RLIMIT_NOFILE

ASSUME NtyAssumption ==
    /\ IsFiniteSet(Clients) /\ "none" \notin Clients
    /\ MaxFd \in Nat /\ Requests \in Nat
    /\ \A s \in Setups : /\ s.prog \in {"kv", "echo", "httpd"}
                         /\ s.procs \subseteq Procs /\ s.limit \in 0..MaxFd

VARIABLES
    setup,       \* one of Setups, never changes
    proc,        \* proc[p]: scheduler and coroutines of process p
    accept_mtx,  \* the lock of httpd in shared memory
    backlog,     \* connections nobody has accepted yet
    client       \* client[c]: the two ends of the connection of c

ntyVars == <<setup, proc, accept_mtx, backlog, client>>

Listen == 0             \* the listening socket
BadFd == -1             \* what accept returns when it fails
NtyFds == BadFd..MaxFd
Server == 0             \* the coroutine of server()
\* A process makes one reader for a client and at most two for BadFd; one whose
\* readers found the wrong descriptor may make more, and is not followed further.
MaxReaders == Cardinality(Clients) + 2
Coros == 0..MaxReaders
NoCo == -1
NoClient == "none"

Started ==
    [phase |-> "ready",                  \* where nty_schedule_run is
     running |-> NoCo,                   \* curr_thread
     ready |-> <<Server>>, last |-> Server,
     waiting |-> [f \in NtyFds |-> NoCo],
     interest |-> {},                    \* what poller_fd watches
     events |-> <<>>,                    \* eventlist, num_new_events
     pc |-> [k \in Coros |-> IF k = Server THEN "new" ELSE "none"],
     fd |-> [k \in Coros |-> BadFd],     \* the descriptor a coroutine uses
     arg |-> [k \in Coros |-> BadFd],    \* what its argument points at
     given |-> [k \in Coros |-> BadFd],  \* history: accepted for it
     cli_fd |-> BadFd,                   \* the local of server()
     spoilt |-> FALSE,                   \* another stack lies over cli_fd
     torn |-> FALSE,                     \* history: a reader read it then
     made |-> 0,
     owner |-> [f \in 1..MaxFd |-> NoClient]]

NtyInit ==
    /\ setup \in Setups
    /\ proc = [p \in Procs |-> IF p \in setup.procs THEN Started
                               ELSE [Started EXCEPT !.phase = "off"]]
    /\ accept_mtx = 0 /\ backlog = <<>>
    /\ client = [c \in Clients |->
         [st |-> "off", asked |-> 0, got |-> 0, fin |-> FALSE, rst |-> FALSE]]

-----------------------------------------------------------------------------
\* nty_poll_inner up to its yield: epoll_ctl ADD, which fails for what is not
\* open, and nty_schedule_sched_wait, whose assertion that nobody waits for the
\* descriptor may fail.
Open(s) == {Listen} \cup { f \in 1..MaxFd : s.owner[f] # NoClient }
PollInner(s, k, f) ==
    IF s.waiting[f] # NoCo THEN [s EXCEPT !.phase = "aborted", !.running = NoCo]
    ELSE [s EXCEPT !.interest = @ \cup ({f} \cap Open(s)),
                   !.waiting[f] = k, !.fd[k] = f, !.running = NoCo]

\* nty_poll_inner after its yield: epoll_ctl DEL, nty_schedule_desched_wait.
PollDone(s, f) ==
    [s EXCEPT !.interest = @ \ {f}, !.waiting[f] = NoCo]

\* nty_coroutine_create, from server(): v is the descriptor accepted.
Create(s, v) ==
    LET k == s.made + 1 IN
    [s EXCEPT !.made = k, !.ready = Append(@, k), !.pc[k] = "new",
              !.cli_fd = v, !.arg[k] = v, !.given[k] = v]

\* _exec and nty_coroutine_resume of a coroutine that returned: it is freed.
Exit(s, k) ==
    [s EXCEPT !.pc[k] = "none", !.fd[k] = BadFd, !.running = NoCo]

-----------------------------------------------------------------------------
\* nty_schedule_run: the last coroutine that is ready when a turn begins.
Turn(s) ==
    [s EXCEPT !.phase = "ready",
              !.last = IF s.ready = <<>> THEN NoCo ELSE Last(s.ready)]

\* nty_schedule_run, the ready queue up to that coroutine.
NextReady(p) ==
    LET s == proc[p] IN
    /\ s.phase = "ready" /\ s.running = NoCo
    /\ proc' = [proc EXCEPT ![p] =
          IF s.ready = <<>> THEN [s EXCEPT !.phase = "poll"]
          ELSE [s EXCEPT !.running = Head(s.ready), !.ready = Tail(@),
                  !.phase = IF Head(s.ready) = s.last THEN "poll" ELSE "ready"]]
    /\ UNCHANGED <<setup, accept_mtx, backlog, client>>

\* The kernel: readable descriptors among those that poller_fd watches.
Readable(p) ==
    { f \in proc[p].interest :
        IF f = Listen THEN backlog # <<>>
        ELSE LET c == client[proc[p].owner[f]]
             IN  c.asked > c.got \/ c.fin \/ c.rst }

Idle(s) == s.ready = <<>> /\ \A f \in NtyFds : s.waiting[f] = NoCo

\* nty_schedule_epoll: not polled while a coroutine is ready; the events
\* come in any order.
Epoll(p) ==
    LET s == proc[p] IN
    /\ s.phase = "poll" /\ s.running = NoCo
    /\ \/ /\ s.ready # <<>>
          /\ proc' = [proc EXCEPT ![p] = Turn(s)]
       \/ /\ s.ready = <<>> /\ Readable(p) # {}
          /\ \E order \in SetToSeqs(Readable(p)) :
                proc' = [proc EXCEPT ![p].events = order, ![p].phase = "events"]
       \/ /\ Idle(s)  \* nty_schedule_isdone
          /\ proc' = [proc EXCEPT ![p].phase = "ended"]
    /\ UNCHANGED <<setup, accept_mtx, backlog, client>>

\* nty_schedule_run, the events, last one first; nty_schedule_search_wait
\* writes through NULL when nobody waits.  The stack of the coroutine is loaded:
\* if a new one is ready by then, over what server() has left for it.
NextEvent(p) ==
    LET s == proc[p] IN
    /\ s.phase = "events" /\ s.running = NoCo
    /\ proc' = [proc EXCEPT ![p] =
          IF s.events = <<>> THEN Turn(s)
          ELSE IF s.waiting[Last(s.events)] = NoCo
               THEN [s EXCEPT !.phase = "crashed"]
               ELSE [s EXCEPT !.running = s.waiting[Last(s.events)],
                              !.events = Front(@), !.spoilt = s.ready # <<>>]]
    /\ UNCHANGED <<setup, accept_mtx, backlog, client>>

-----------------------------------------------------------------------------
\* server() of kv_ntyco.c and nty_server.c: socket, bind, listen, then accept.
ServerStarts(p) ==
    /\ proc[p].running = Server /\ proc[p].pc[Server] = "new"
    /\ proc' = [proc EXCEPT ![p] =
          IF setup.prog = "httpd" THEN [@ EXCEPT !.pc[Server] = "lock"]
          ELSE PollInner([@ EXCEPT !.pc[Server] = "accept"], Server, Listen)]
    /\ UNCHANGED <<setup, accept_mtx, backlog, client>>

\* server() of ntyco_httpd.c: lock() or nty_coroutine_sleep(0).
ServerLocks(p) ==
    LET s == proc[p] IN
    /\ s.running = Server /\ s.pc[Server] = "lock"
    /\ IF accept_mtx = 0
       THEN /\ accept_mtx' = 1
            /\ proc' = [proc EXCEPT ![p] =
                 PollInner([s EXCEPT !.pc[Server] = "accept"], Server, Listen)]
       ELSE /\ proc' = [proc EXCEPT ![p].ready = Append(@, Server),
                                    ![p].running = NoCo]
            /\ UNCHANGED accept_mtx
    /\ UNCHANGED <<setup, backlog, client>>

\* The descriptors a process has left; accept takes the smallest.
Free(s) == { f \in 1..setup.limit : s.owner[f] = NoClient }
Smallest(S) == CHOOSE f \in S : \A g \in S : f <= g

\* Mutant: as long as clients wait, accept does not poll.
Accepted_Greedy(p, s, v) ==
    IF setup.prog = "httpd"
    THEN /\ accept_mtx' = 0
         /\ proc' = [proc EXCEPT ![p] =
               IF v = BadFd THEN Exit(s, Server)
               ELSE [Create(s, v) EXCEPT !.pc[Server] = "lock"]]
    ELSE /\ proc' = [proc EXCEPT ![p] =
               IF Len(backlog) > 1 THEN Create(s, v)
               ELSE PollInner(Create(s, v), Server, Listen)]
         /\ UNCHANGED accept_mtx

\* The loop of server() around the descriptor v that accept returned; in
\* httpd the lock is given back first, and a failure ends the loop.
Accepted(p, s, v) ==
    IF setup.prog = "httpd"
    THEN /\ accept_mtx' = 0
         /\ proc' = [proc EXCEPT ![p] =
               IF v = BadFd THEN Exit(s, Server)
               ELSE [Create(s, v) EXCEPT !.pc[Server] = "lock"]]
    ELSE /\ proc' = [proc EXCEPT ![p] = PollInner(Create(s, v), Server, Listen)]
         /\ UNCHANGED accept_mtx

\* nty_accept and the hook accept: -1 when the process has no descriptor left.
\* Nobody else takes from the backlog between the event and accept, so the
\* loop around EAGAIN is not needed here.
ServerAccepts(p) ==
    LET s == PollDone(proc[p], Listen) IN
    /\ proc[p].running = Server /\ proc[p].pc[Server] = "accept"
    /\ backlog # <<>> /\ (s.torn => s.made < MaxReaders)
    /\ \/ /\ Free(s) = {}
          /\ Accepted(p, s, BadFd)
          /\ UNCHANGED <<backlog, client>>
       \/ /\ Free(s) # {}
          /\ LET f == Smallest(Free(s))
             IN  Accepted(p, [s EXCEPT !.owner[f] = Head(backlog)], f)
          /\ backlog' = Tail(backlog)
          /\ UNCHANGED client
    /\ UNCHANGED setup

\* What a new coroutine may read through its argument: memory of its own, or
\* cli_fd on the stack they all share, where any number may be by then.
Torn(s) == setup.prog = "kv" /\ s.spoilt
Argument(s, k) ==
    IF Torn(s) THEN NtyFds ELSE {IF setup.prog = "kv" THEN s.cli_fd ELSE s.arg[k]}

\* The readers begin: the argument, then recv.
ReaderStarts(p) ==
    LET s == proc[p]
        k == s.running IN
    /\ k > Server /\ s.pc[k] = "new"
    /\ \E f \in Argument(s, k) :
          proc' = [proc EXCEPT ![p] =
             PollInner([s EXCEPT !.pc[k] = "recv", !.torn = @ \/ Torn(s)], k, f)]
    /\ UNCHANGED <<setup, accept_mtx, backlog, client>>

\* One request is answered (server_reader, accept_request), then recv again.
Answer(p, k, s, f) ==
    /\ client' = [client EXCEPT ![s.owner[f]].got = @ + 1]
    /\ proc' = [proc EXCEPT ![p] = PollInner(s, k, f)]

\* The readers of kv_ntyco.c and nty_server.c have no branch for -1 and call
\* recv again; the kernel tells an error once and the end of file after it.
OnErrorAgain(p, k, s, f) ==
    /\ client' = [client EXCEPT ![s.owner[f]] = [@ EXCEPT !.rst = FALSE, !.fin = TRUE]]
    /\ proc' = [proc EXCEPT ![p] = PollInner(s, k, f)]

\* accept_request of ntyco_httpd.c keeps the -1 in a size_t, takes it for
\* data and answers: SIGPIPE ends the process, with the lock if it has it.
OnErrorAnswer(p, s) ==
    /\ proc' = [proc EXCEPT ![p] = [s EXCEPT !.phase = "killed", !.running = NoCo]]
    /\ client' = [c \in Clients |->
          IF \E f \in 1..MaxFd : s.owner[f] = c
          THEN [client[c] EXCEPT !.st = "gone"] ELSE client[c]]

\* recv returned 0: close, and the coroutine returns.
OnEnd(p, k, s, f) ==
    /\ client' = [client EXCEPT ![s.owner[f]].st = "gone"]
    /\ proc' = [proc EXCEPT ![p] = Exit([s EXCEPT !.owner[f] = NoClient, !.interest = @ \ {f}], k)]

ReaderReads(p) ==
    LET k == proc[p].running
        f == proc[p].fd[k]
        s == PollDone(proc[p], f)
        c == client[s.owner[f]] IN
    /\ k > Server /\ proc[p].pc[k] = "recv" /\ f \in 1..MaxFd
    /\ \/ /\ c.rst /\ setup.prog # "httpd" /\ OnErrorAgain(p, k, s, f)
       \/ /\ c.rst /\ setup.prog = "httpd" /\ OnErrorAnswer(p, s)
       \/ /\ ~c.rst /\ c.asked > c.got /\ Answer(p, k, s, f)
       \/ /\ ~c.rst /\ c.asked = c.got /\ c.fin /\ OnEnd(p, k, s, f)
    /\ UNCHANGED <<setup, accept_mtx, backlog>>

-----------------------------------------------------------------------------
\* The clients ask one thing after the other, and close or reset.
Connect(c) ==
    /\ client[c].st = "off"
    /\ client' = [client EXCEPT ![c].st = "open"]
    /\ backlog' = Append(backlog, c)
    /\ UNCHANGED <<setup, proc, accept_mtx>>

Ask(c) ==
    /\ client[c].st = "open" /\ ~client[c].fin /\ ~client[c].rst
    /\ client[c].asked = client[c].got /\ client[c].asked < Requests
    /\ client' = [client EXCEPT ![c].asked = @ + 1]
    /\ UNCHANGED <<setup, proc, accept_mtx, backlog>>

Close(c) ==
    /\ client[c].st = "open" /\ ~client[c].fin /\ ~client[c].rst
    /\ \/ client[c].asked = client[c].got
             /\ client' = [client EXCEPT ![c].fin = TRUE]
       \/ client' = [client EXCEPT ![c].rst = TRUE]
    /\ UNCHANGED <<setup, proc, accept_mtx, backlog>>

Run(p) ==
    \/ NextReady(p) \/ Epoll(p) \/ NextEvent(p)
    \/ ServerStarts(p) \/ ServerLocks(p) \/ ServerAccepts(p)
    \/ ReaderStarts(p) \/ ReaderReads(p)

NtyNext ==
    \/ \E p \in Procs : Run(p)
    \/ \E c \in Clients : Connect(c) \/ Ask(c) \/ Close(c)

NtySpec == NtyInit /\ [][NtyNext]_ntyVars

-----------------------------------------------------------------------------
Phases == {"off", "ready", "poll", "events", "ended", "killed", "crashed", "aborted"}
Alive(p) == proc[p].phase \in {"ready", "poll", "events"}
Places(s, k) ==
    Cardinality({ i \in DOMAIN s.ready : s.ready[i] = k })
    + (IF s.running = k THEN 1 ELSE Cardinality({ f \in NtyFds : s.waiting[f] = k }))

NtyTypeOK ==
    /\ setup \in Setups /\ accept_mtx \in {0, 1}
    /\ \A p \in Procs :
         /\ proc[p].phase \in Phases /\ proc[p].running \in Coros \cup {NoCo}
         /\ proc[p].interest \subseteq 0..MaxFd /\ proc[p].made \in 0..MaxReaders
    /\ \A c \in Clients : client[c].got <= client[c].asked

\* A coroutine that has not returned is in one place, ready, waiting or
\* running, and one that has returned, and was freed, is nowhere; epoll
\* watches nothing that is closed, nothing that nobody waits for, and all
\* that somebody waits for unless a reader found the wrong descriptor.
OnePlace ==
    \A p \in Procs : Alive(p) =>
        LET s == proc[p] IN
        /\ \A k \in Coros : Places(s, k) = IF s.pc[k] = "none" THEN 0 ELSE 1
        /\ \A f \in NtyFds : s.waiting[f] # NoCo =>
              s.fd[s.waiting[f]] = f /\ s.pc[s.waiting[f]] \in {"accept", "recv"}
        /\ s.interest \subseteq Open(s)
        /\ \A f \in s.interest : s.waiting[f] # NoCo
        /\ ~s.torn => \A f \in 0..MaxFd : s.waiting[f] # NoCo => f \in s.interest

\* No event of a batch finds nobody waiting, whatever the coroutines resumed
\* for the events before it did: nty_schedule_search_wait never writes
\* through NULL.
NobodyMissing ==
    \A p \in Procs :
        /\ proc[p].phase # "crashed"
        /\ \A i \in DOMAIN proc[p].events :
              proc[p].phase = "events" => proc[p].waiting[proc[p].events[i]] # NoCo

\* Each reader works on the descriptor that was accepted for it; in kv_ntyco.c only as
\* long as none has read its argument off a stack that another coroutine was resumed on
\* since accept.  That the loop goes on to its next accept by then does no harm.
OwnDescriptor ==
    \A p \in Procs :
        /\ proc[p].torn => setup.prog = "kv"
        /\ \A k \in Coros : Alive(p) /\ ~proc[p].torn /\ proc[p].pc[k] = "recv" =>
               proc[p].fd[k] = proc[p].given[k]

\* The lock is taken exactly while one process is inside accept, or was when
\* it was killed.
LockExact ==
    setup.prog = "httpd" =>
        LET inside == { p \in setup.procs : proc[p].pc[Server] = "accept" } IN
        /\ Cardinality(inside) <= 1
        /\ accept_mtx = Cardinality(inside)

\* The assertion of nty_schedule_sched_wait fails only when accept failed
\* twice for want of descriptors (two readers then wait for descriptor -1), or
\* when a reader has found the wrong descriptor.
AbortsOnlyAtLimit ==
    \A p \in Procs : proc[p].phase = "aborted" /\ ~proc[p].torn =>
        Cardinality({ k \in Coros : proc[p].given[k] = BadFd /\ proc[p].pc[k] = "recv" }) >= 2

\* The scheduler loses, doubles and misdirects no coroutine, in any of the programs: each
\* is in one place, no event finds nobody, and the shared lock is held by one.  Unless a
\* reader of kv has read cli_fd off an overwritten stack, each reader works on its own
\* descriptor and the assertion fails only at the limit (nty_schedule.c:105-160,
\* kv_ntyco.c:83).
NtySound ==
    /\ NtyTypeOK /\ OnePlace /\ NobodyMissing
    /\ OwnDescriptor /\ LockExact /\ AbortsOnlyAtLimit

\* Requests that are owed an answer: with one process and descriptors enough those
\* of every client, accepted or waiting, unless a reader has found the wrong
\* descriptor; in httpd those of the clients of the process that holds the lock.
\* (One that does not hold it spins with nty_coroutine_sleep(0), never polls, and
\* lets its own clients wait until the holder has accepted somebody.)
Pending(c, p) ==
    /\ client[c].asked > client[c].got /\ ~client[c].rst
    /\ \E f \in 1..MaxFd : proc[p].owner[f] = c
Holds(p) == Alive(p) /\ proc[p].pc[Server] = "accept"
NtyOwes(c) ==
    IF setup.prog = "httpd" THEN \E p \in Procs : Pending(c, p) /\ Holds(p)
    ELSE setup.limit >= Cardinality(Clients) /\ client[c].asked > client[c].got
NtyGives(c) ==
    IF setup.prog = "httpd" THEN \A p \in Procs : ~Pending(c, p) \/ ~Holds(p)
    ELSE \/ client[c].asked = client[c].got \/ client[c].rst \/ client[c].fin
         \/ \E p \in Procs : proc[p].torn
=============================================================================
