----------------------------- MODULE TeachUring -----------------------------
(***************************************************************************)
(* uring_tcp_server.c, the echo server on io_uring, as program "uring":    *)
(* each completion prepares the next operation of its connection, and all  *)
(* connections receive into and send from one buffer.  The kernel runs a   *)
(* submitted operation whenever it can; a send over io_uring raises no     *)
(* signal.                                                                 *)
(***************************************************************************)
EXTENDS TeachSocket

VARIABLES
    sq,       \* prepared operations: [op, fd, n]
    running,  \* submitted operations the kernel has not completed
    cq,       \* completions [op, fd, res] not seen yet
    cqes,     \* the batch being handled
    buffer    \* the shared buffer, one unit a place

uringVars == <<sockVars, sq, running, cq, cqes, buffer>>

Zero == <<Listener, 0>>  \* a place that was cleared
Accepting == [op |-> "accept", fd |-> 0, n |-> 0]
Receiving(fd) == [op |-> "recv", fd |-> fd, n |-> setup.buf]
Sending(fd, n) == [op |-> "send", fd |-> fd, n |-> n]

UringInit ==
    /\ SockInit
    /\ sq = <<Accepting>> /\ running = {} /\ cq = <<>> /\ cqes = <<>>
    /\ buffer = [i \in 1..setup.buf |-> Zero]

UringClient(p) == (Connect(p) \/ SendOrQuit(p)) /\ UNCHANGED <<sq, running, cq, cqes, buffer>>

-----------------------------------------------------------------------------
(* The kernel *)

Completes(o, res) ==
    /\ running' = running \ {o}
    /\ cq' = Append(cq, [op |-> o.op, fd |-> o.fd, res |-> res])
    /\ UNCHANGED <<setup, down, sq, cqes>>

RunAccept(o) ==
    /\ o.op = "accept" /\ queue # <<>>
    /\ peer' = [peer EXCEPT ![Head(queue)] = Accepted(Head(queue))]
    /\ queue' = Tail(queue)
    /\ Completes(o, LowestFree) /\ UNCHANGED buffer

RunRecv_Cut(o) ==
    LET p == Owner(o.fd) got == Taken(p, o.n) IN
    /\ o.op = "recv" /\ Readable(p)
    /\ buffer' = got
    /\ peer' = [peer EXCEPT ![p] = Received(p, o.n)]
    /\ Completes(o, Result(p, o.n)) /\ UNCHANGED queue

\* The buffer keeps what the receive does not overwrite.
RunRecv(o) ==
    LET p == Owner(o.fd) got == Taken(p, o.n) IN
    /\ o.op = "recv" /\ Readable(p)
    /\ buffer' = got \o SubSeq(buffer, Len(got) + 1, Len(buffer))
    /\ peer' = [peer EXCEPT ![p] = Received(p, o.n)]
    /\ Completes(o, Result(p, o.n)) /\ UNCHANGED queue

RunSend(o) ==
    LET p == Owner(o.fd) IN
    /\ o.op = "send"
    /\ peer' = [peer EXCEPT ![p] = Answered(@, SubSeq(buffer, 1, o.n))]
    /\ Completes(o, IF SendKills(peer[p]) THEN -1 ELSE o.n) /\ UNCHANGED <<queue, buffer>>

Kernel == \E o \in running : RunAccept(o) \/ RunRecv(o) \/ RunSend(o)

-----------------------------------------------------------------------------
(* The loop of main *)

Submit ==
    /\ cqes = <<>> /\ sq # <<>>
    /\ running' = running \cup ToSet(sq) /\ sq' = <<>>
    /\ UNCHANGED <<sockVars, cq, cqes, buffer>>

Peek ==
    /\ cqes = <<>> /\ sq = <<>> /\ cq # <<>>
    /\ cqes' = cq /\ cq' = <<>>
    /\ UNCHANGED <<sockVars, sq, running, buffer>>

EventAccept ==
    /\ cqes # <<>> /\ Head(cqes).op = "accept"
    /\ sq' = sq \o <<Accepting, Receiving(Head(cqes).res)>>
    /\ cqes' = Tail(cqes)
    /\ UNCHANGED <<sockVars, running, cq, buffer>>

EventRead_Full ==
    /\ cqes # <<>> /\ Head(cqes).op = "recv"
    /\ LET e == Head(cqes) IN
       /\ peer' = IF e.res = 0 THEN [peer EXCEPT ![Owner(e.fd)] = Closed(@)] ELSE peer
       /\ sq' = IF e.res > 0 THEN Append(sq, Sending(e.fd, setup.buf)) ELSE sq
       /\ buffer' = IF e.res = 0 THEN [buffer EXCEPT ![1] = Zero] ELSE buffer
    /\ cqes' = Tail(cqes)
    /\ UNCHANGED <<setup, queue, down, running, cq>>

EventRead_Plus ==
    /\ cqes # <<>> /\ Head(cqes).op = "recv"
    /\ LET e == Head(cqes) IN
       /\ peer' = IF e.res = 0 THEN [peer EXCEPT ![Owner(e.fd)] = Closed(@)] ELSE peer
       /\ sq' = IF e.res > 0 THEN Append(sq, Sending(e.fd, e.res + 1)) ELSE sq
       /\ buffer' = IF e.res = 0 THEN [buffer EXCEPT ![1] = Zero] ELSE buffer
    /\ cqes' = Tail(cqes)
    /\ UNCHANGED <<setup, queue, down, running, cq>>

\* A receive that failed prepares nothing and closes nothing.
EventRead ==
    /\ cqes # <<>> /\ Head(cqes).op = "recv"
    /\ LET e == Head(cqes) IN
       /\ peer' = IF e.res = 0 THEN [peer EXCEPT ![Owner(e.fd)] = Closed(@)] ELSE peer
       /\ sq' = IF e.res > 0 THEN Append(sq, Sending(e.fd, e.res)) ELSE sq
       /\ buffer' = IF e.res = 0 THEN [buffer EXCEPT ![1] = Zero] ELSE buffer
    /\ cqes' = Tail(cqes)
    /\ UNCHANGED <<setup, queue, down, running, cq>>

EventWrite_NoArm ==
    /\ cqes # <<>> /\ Head(cqes).op = "send"
    /\ sq' = sq
    /\ cqes' = Tail(cqes)
    /\ UNCHANGED <<sockVars, running, cq, buffer>>

EventWrite ==
    /\ cqes # <<>> /\ Head(cqes).op = "send"
    /\ sq' = Append(sq, Receiving(Head(cqes).fd))
    /\ cqes' = Tail(cqes)
    /\ UNCHANGED <<sockVars, running, cq, buffer>>

UringServer == Submit \/ Peek \/ EventAccept \/ EventRead \/ EventWrite
UringNext == (\E p \in Peers : UringClient(p)) \/ Kernel \/ UringServer

-----------------------------------------------------------------------------
OpsOf(fd) ==
    Cardinality({ o \in running : o.op # "accept" /\ o.fd = fd })
    + Cardinality({ i \in DOMAIN sq : sq[i].op # "accept" /\ sq[i].fd = fd })
    + Cardinality({ i \in DOMAIN (cqes \o cq) :
        LET e == (cqes \o cq)[i] IN (IF e.op = "accept" THEN e.res ELSE e.fd) = fd })

UringTypeOK ==
    /\ SockTypeOK
    /\ \A o \in running \cup ToSet(sq) : o.op \in {"accept", "recv", "send"} /\ o.fd \in {0} \cup Fds
    /\ \A e \in ToSet(cq \o cqes) : e.res \in {-1, 0} \cup Nat
    /\ buffer \in [1..setup.buf -> (Peers \cup {Listener}) \X Nat]

\* Every open connection has exactly one operation between the rings, so it is
\* never forgotten and never read twice; only one whose receive failed has none
\* and is neither served nor closed again (uring_tcp_server.c:143).
OneOpEach == prog = "uring" => \A p \in Open :
    OpsOf(peer[p].fd) = 1 \/ (OpsOf(peer[p].fd) = 0 /\ peer[p].end = "told")

\* The buffer is shared: a client that is alone gets its own units back in order
\* (uring_tcp_server.c:108).
EchoesAlone == prog = "uring" =>
    \A p \in Peers : (\A q \in Peers \ {p} : peer[q].sent = 0 /\ peer[q].end = "no") => Echoes(p)

\* With others about it may get theirs, but never more units than it sent.
NeverMoreThanSent == prog = "uring" =>
    \A p \in Peers : Len(peer[p].got) <= peer[p].sent

\* The echo server on io_uring: one operation for each connection, and echoes that
\* are right for a client alone and never too many (uring_tcp_server.c:105-145).
UringSound == UringTypeOK /\ OneOpEach /\ EchoesAlone /\ NeverMoreThanSent

\* What a client sends is read and its connection is accepted; after a reset it is
\* the receive that fails, and nothing is left to read.
UringServed(p) ==
    peer[p].st = "shut" \/ (peer[p].st = "open" /\ peer[p].box = <<>>
                            /\ peer[p].end \in {"no", "told"})
=============================================================================
