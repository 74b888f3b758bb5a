------------------------------ MODULE MCNetwork ------------------------------
(***************************************************************************)
(* The two network layers of the store side by side, kv_iouring.c and      *)
(* kv_reactor.c, each with its own clients and engines.                    *)
(*                                                                         *)
(* For liveness and the melting of requests: one connection with four      *)
(* requests on io_uring; on the reactor clients that send two requests at  *)
(* once and have one descriptor between them.  For safety: two connections *)
(* with two requests of different lengths on io_uring; on the reactor      *)
(* descriptors for both clients, which wait for every answer, and a        *)
(* request that lacks a word.                                              *)
(***************************************************************************)
EXTENDS KvsReactor, KvsIoUring

CONSTANTS c1, c2, k1, v1

VARIABLES
  layer,     \* which of the two layers
  present    \* the clients that come

MCClients == {c1, c2}
MCKeys == {k1}
MCVals == {v1}
ManyRequests == {Request("rbtree", "SET", <<k1, v1>>), Request("rbtree", "GET", <<k1>>),
                 Request("hash", "MOD", <<k1, v1>>), Request("rbtree", "DEL", <<k1>>)}
FewRequests == {Request("array", "SET", <<k1, v1>>), Request("array", "GET", <<k1>>)}
GoodRequests == {Request("array", "SET", <<k1, v1>>), Request("hash", "DEL", <<k1>>)}
AnyRequests == {Request("array", "SET", <<k1, v1>>), Request("array", "DEL", <<k1>>),
                Request("array", "GET", <<k1>>), Request("array", "SET", <<k1>>)}
MCRequests == ManyRequests \cup FewRequests \cup GoodRequests \cup AnyRequests

netVars == <<vars, rvars, layer, present>>

NetInit ==
  /\ layer \in {"io_uring", "reactor"}
  /\ present \in {{c1}, {c1, c2}}
  /\ Init /\ RInit
  /\ layer = "io_uring" => fdlimit = MaxFd
  /\ layer = "reactor" => present = Clients

Uring(A) == layer = "io_uring" /\ A /\ UNCHANGED <<rvars, layer, present>>
Reactor(A) == layer = "reactor" /\ A /\ UNCHANGED <<vars, layer, present>>

UringClient(c) ==
  \/ Connect(c) \/ Read(c) \/ \E how \in {"closed", "reset"} : Close(c, how)
  \/ \E r \in (IF present = {c} THEN ManyRequests ELSE FewRequests) : Send(c, r)

ReactorClient(c) ==
  /\ \/ RConnect(c) \/ RRead(c) \/ GiveUp(c) \/ RClose(c)
     \/ fdlimit = MaxFd /\ rasked[c] = <<>> /\ \E r \in AnyRequests : RSend(c, r)
     \/ fdlimit < MaxFd /\ \E r \in GoodRequests : RSend(c, r)
  /\ UNCHANGED fdlimit

UringPart == Uring(Loop \/ Kernel \/ \E c \in present : UringClient(c))
ReactorPart == Reactor(Server \/ \E c \in present : ReactorClient(c))
NetNext == UringPart \/ ReactorPart

\* The small instances for liveness and the larger ones for safety.
Small == IF layer = "io_uring" THEN present = {c1} ELSE fdlimit < MaxFd
SafeInit == NetInit /\ ~Small
LiveInit == NetInit /\ Small
SafeSpec == SafeInit /\ [][NetNext]_netVars

\* Fairness as in the two modules: the loops run while there is something to do, the
\* kernel completes what can be completed, and a waiting client reads.
FairNetSpec ==
  /\ LiveInit /\ [][NetNext]_netVars
  /\ WF_netVars(Uring(Loop) \/ Reactor(Server))
  /\ \A c \in Clients : WF_netVars(Uring(Read(c)) \/ Reactor(RRead(c) /\ UNCHANGED fdlimit))
  /\ WF_netVars(Uring(CompleteAccept))
  /\ \A fd \in Fds : /\ WF_netVars(Uring(CompleteRecv(fd)))
                     /\ WF_netVars(Uring(\E op \in armed : op.fd = fd /\ CompleteSend(op)))

-----------------------------------------------------------------------------
\* What a client does is noticed, by either layer, and an answer that exists reaches
\* the client that waits for it (kv_iouring.c:188, kv_reactor.c:195-240).
EveryoneAnswered == Answered /\ RAnswered
=============================================================================
