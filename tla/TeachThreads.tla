---------------------------- MODULE TeachThreads ----------------------------
(***************************************************************************)
(* The teaching servers with a thread for each client: "heap", multi_io.c, *)
(* which gives each thread its own copy of the descriptor, and "shared",   *)
(* tcp.c of 2.1.1, which gives all of them the address of main's clientfd. *)
(*                                                                         *)
(* pthread_create is taken to succeed.  What becomes of a connection that  *)
(* is closed while a thread still receives from it is not followed.        *)
(***************************************************************************)
EXTENDS TeachSocket

VARIABLES
    clientfd,  \* main's variable
    thread     \* thread[p]: [pc, arg, fd, on], the thread made for client p

threadVars == <<sockVars, clientfd, thread>>

IsThreads == prog \in {"heap", "shared"}
NoThread == [pc |-> "none", arg |-> 0, fd |-> 0, on |-> Listener]

ThreadsInit ==
    /\ SockInit
    /\ clientfd = 0 /\ thread = [p \in Peers |-> NoThread]

ThreadsClient(p) == (Connect(p) \/ SendOrQuit(p)) /\ UNCHANGED <<clientfd, thread>>

AcceptAndSpawn_NoThread ==
    /\ down = "up" /\ queue # <<>>
    /\ LET p == Head(queue) IN
       /\ peer' = [peer EXCEPT ![p] = Accepted(p)]
       /\ clientfd' = LowestFree
       /\ UNCHANGED thread
    /\ queue' = Tail(queue)
    /\ UNCHANGED <<setup, down>>

\* main: accept, and a thread that starts whenever it is scheduled.
AcceptAndSpawn ==
    /\ down = "up" /\ queue # <<>>
    /\ LET p == Head(queue) IN
       /\ peer' = [peer EXCEPT ![p] = Accepted(p)]
       /\ clientfd' = LowestFree
       /\ thread' = [thread EXCEPT ![p].pc = "start", ![p].arg = LowestFree]
    /\ queue' = Tail(queue)
    /\ UNCHANGED <<setup, down>>

Start_Shared(t) ==
    /\ down = "up" /\ thread[t].pc = "start"
    /\ thread' = [thread EXCEPT ![t].pc = "recv",
                                ![t].fd = clientfd]
    /\ UNCHANGED <<sockVars, clientfd>>

\* client_thread: int clientfd = *(int *)arg.
Start(t) ==
    /\ down = "up" /\ thread[t].pc = "start"
    /\ thread' = [thread EXCEPT ![t].pc = "recv",
                                ![t].fd = IF prog = "shared" THEN clientfd ELSE thread[t].arg]
    /\ UNCHANGED <<sockVars, clientfd>>

\* recv on a descriptor that is open holds its connection from now on.
Enter(t) ==
    /\ down = "up" /\ thread[t].pc = "recv" /\ thread[t].fd \in UsedFds
    /\ thread' = [thread EXCEPT ![t].pc = "wait", ![t].on = Owner(thread[t].fd)]
    /\ UNCHANGED <<sockVars, clientfd>>

\* The connection the descriptor stands for now is closed, whose ever it is.
CloseFd(fd, ps) ==
    [q \in Peers |-> IF ps[q].st = "open" /\ ps[q].fd = fd THEN Closed(ps[q]) ELSE ps[q]]

\* recv on a descriptor another thread has closed fails at once.
EnterClosed(t) ==
    /\ down = "up" /\ thread[t].pc = "recv" /\ thread[t].fd \notin UsedFds
    /\ thread' = [thread EXCEPT ![t].pc = "gone"]
    /\ UNCHANGED <<sockVars, clientfd>>

Return_Once(t) ==
    LET p == thread[t].on
        n == Result(p, setup.buf)
        r == Received(p, setup.buf)
        ends == n >= 0 \/ (n = -1 /\ prog = "shared")
    IN
    /\ down = "up" /\ thread[t].pc = "wait" /\ Readable(p)
    /\ peer[p].st = "open" \/ ends
    /\ IF ends
       THEN /\ peer' = CloseFd(thread[t].fd, [peer EXCEPT ![p] = r])
            /\ thread' = [thread EXCEPT ![t].pc = "gone"]
            /\ UNCHANGED down
       ELSE IF SendKills(r)
       THEN down' = "killed" /\ peer' = [peer EXCEPT ![p] = r] /\ UNCHANGED thread
       ELSE /\ peer' = [peer EXCEPT ![p] =
                 Answered(r, IF prog = "shared" THEN << <<Listener, 0>> >> ELSE Taken(p, setup.buf))]
            /\ thread' = [thread EXCEPT ![t].pc = "recv"]
            /\ UNCHANGED down
    /\ UNCHANGED <<setup, queue, clientfd>>

\* recv returns.  multi_io.c goes on to send after an error.
Return(t) ==
    LET p == thread[t].on
        n == Result(p, setup.buf)
        r == Received(p, setup.buf)
        ends == n = 0 \/ (n = -1 /\ prog = "shared")
    IN
    /\ down = "up" /\ thread[t].pc = "wait" /\ Readable(p)
    /\ peer[p].st = "open" \/ ends
    /\ IF ends
       THEN /\ peer' = CloseFd(thread[t].fd, [peer EXCEPT ![p] = r])
            /\ thread' = [thread EXCEPT ![t].pc = "gone"]
            /\ UNCHANGED down
       ELSE IF SendKills(r)
       THEN down' = "killed" /\ peer' = [peer EXCEPT ![p] = r] /\ UNCHANGED thread
       ELSE /\ peer' = [peer EXCEPT ![p] =
                 Answered(r, IF prog = "shared" THEN << <<Listener, 0>> >> ELSE Taken(p, setup.buf))]
            /\ thread' = [thread EXCEPT ![t].pc = "recv"]
            /\ UNCHANGED down
    /\ UNCHANGED <<setup, queue, clientfd>>

ThreadStep(t) == Start(t) \/ Enter(t) \/ EnterClosed(t) \/ Return(t)
ThreadsNext ==
    (\E p \in Peers : ThreadsClient(p)) \/ AcceptAndSpawn \/ \E t \in Peers : ThreadStep(t)
ThreadsFairness ==
    /\ WF_threadVars(AcceptAndSpawn)
    /\ \A t \in Peers : WF_threadVars(ThreadStep(t))

-----------------------------------------------------------------------------
ThreadsTypeOK ==
    /\ SockTypeOK /\ clientfd \in {0} \cup Fds
    /\ \A t \in Peers :
        /\ thread[t].pc \in {"none", "start", "recv", "wait", "gone"}
        /\ {thread[t].arg, thread[t].fd} \subseteq {0} \cup Fds
        /\ thread[t].on \in Peers \cup {Listener}
        /\ IsThreads => (thread[t].pc = "none" <=> peer[t].st \in {"off", "queued"})

\* A thread that has begun serves the client it was made for (multi_io.c:21); with
\* the address of clientfd it does only if no other client was accepted before it
\* began (tcp.c:12).
Strays(t) == thread[t].pc # "none" /\ thread[t].fd \notin {0, thread[t].arg}
OwnClient == prog = "heap" => \A t \in Peers :
    ~Strays(t) /\ (thread[t].pc = "wait" => thread[t].on = t) /\ Echoes(t)

\* An open connection with no thread on it, and one that is closed although its
\* client did not ask, are the work of a thread that strays (tcp.c:21).
Orphan(p) == peer[p].st = "open" /\ \A t \in Peers :
    thread[t].pc \notin {"start"} /\ (thread[t].pc \in {"recv", "wait"} => thread[t].fd # peer[p].fd)
OnlyStraysHarm == IsThreads => \A p \in Peers :
    (Orphan(p) \/ (peer[p].st = "shut" /\ peer[p].end = "no")) => \E t \in Peers : Strays(t)

\* A thread for each client: all goes well with memory of its own, and with the shared
\* variable only threads that stray do harm (multi_io.c:21, tcp.c:12-25).
ThreadsSound == ThreadsTypeOK /\ OwnClient /\ OnlyStraysHarm

\* A client that has a thread of its own is read to the end.
ThreadServed(p) ==
    down # "up" \/ peer[p].st = "shut" \/ (peer[p].st = "open" /\ ~Readable(p))
=============================================================================
