----------------------------- MODULE UEventPoll -----------------------------
(***************************************************************************)
(* The event poll of the user-space stack (ustack_backup_2.4.4.c), lock by  *)
(* lock: epoll_event_callback on the packet core against nepoll_wait and   *)
(* nepoll_ctl in the server's thread.  UStackTcp holds the same calls as   *)
(* single steps; here the condition variable's mutex is a variable, the    *)
(* test of rdy outside the spin lock is a step of its own, and a search in *)
(* the tree while the server changes it may miss.  What the spin lock      *)
(* covers is one step.                                                     *)
(*                                                                         *)
(* A connection is known by its descriptor.  It brings a handshake, some   *)
(* fragments and an empty fragment for its end.                            *)
(***************************************************************************)
EXTENDS Integers, Sequences, FiniteSets, SequencesExt

CONSTANTS
  Conns,       \* descriptors of connections
  LISTENFD,
  Fragments,   \* fragments of each connection, its end included
  MaxEvents    \* what one nepoll_wait may take

ASSUME PollAssumption ==
  /\ IsFiniteSet(Conns) /\ LISTENFD \notin Conns
  /\ Fragments \in [Conns -> Nat \ {0}] /\ MaxEvents \in Nat \ {0}

VARIABLES
  rbr,         \* descriptors in the tree
  rdlist,      \* ready list, head first
  rdnum,       \* its length as the code counts it
  rdy,         \* descriptors whose epitem is marked ready
  cdmtx,       \* holder of the mutex
  core,        \* the packet core: what it is doing, for which descriptor
  srv,         \* the server's thread
  accepts,     \* connections whose handshake is done, not yet accepted
  rcvbuf,      \* fragments in the receive ring
  come         \* fragments that have come so far, -1 before the handshake

pollVars == <<rbr, rdlist, rdnum, rdy, cdmtx, core, srv, accepts, rcvbuf, come>>

PollFds == Conns \cup {LISTENFD}

\* timeout is 5 ms in the server, negative for a caller who waits for ever.
PollInit ==
  /\ rbr = {LISTENFD} /\ rdlist = <<>> /\ rdnum = 0 /\ rdy = {} /\ cdmtx = "free"
  /\ core = [pc |-> "idle", fd |-> LISTENFD]
  /\ \E forever \in BOOLEAN :
       srv = [pc |-> "wait", forever |-> forever, events |-> <<>>, fd |-> LISTENFD]
  /\ accepts = {}
  /\ rcvbuf = [c \in Conns |-> 0] /\ come = [c \in Conns |-> -1]

-----------------------------------------------------------------------------
(* The packet core *)

Core(pc) == core.pc = pc

\* ng_tcp_handle_syn_rcvd: the connection may be accepted from here on.
Handshake(c) ==
  /\ Core("idle") /\ come[c] = -1
  /\ come' = [come EXCEPT ![c] = 0]
  /\ accepts' = accepts \cup {c}
  /\ core' = [pc |-> "find", fd |-> LISTENFD]
  /\ UNCHANGED <<rbr, rdlist, rdnum, rdy, cdmtx, srv, rcvbuf>>

\* ng_tcp_handle_established: the fragment is in the ring before the callback.
\* A connection that is not accepted has descriptor -1, which no search finds.
Fragment(c) ==
  /\ Core("idle") /\ come[c] \in 0..(Fragments[c] - 1)
  /\ come' = [come EXCEPT ![c] = @ + 1]
  /\ rcvbuf' = [rcvbuf EXCEPT ![c] = @ + 1]
  /\ core' = [pc |-> "find", fd |-> c]
  /\ UNCHANGED <<rbr, rdlist, rdnum, rdy, cdmtx, srv, accepts>>

\* RB_FIND and the test of rdy, without a lock.
Find ==
  /\ Core("find")
  /\ \/ core' = [core EXCEPT !.pc = IF core.fd \in rbr \ rdy THEN "insert" ELSE "idle"]
     \/ srv.pc \in {"adding", "deleting"} /\ core' = [core EXCEPT !.pc = "idle"]
  /\ UNCHANGED <<rbr, rdlist, rdnum, rdy, cdmtx, srv, accepts, rcvbuf, come>>

Insert ==
  /\ Core("insert")
  /\ rdy' = rdy \cup {core.fd}
  /\ rdlist' = <<core.fd>> \o rdlist
  /\ rdnum' = rdnum + 1
  /\ core' = [core EXCEPT !.pc = "signal"]
  /\ UNCHANGED <<rbr, cdmtx, srv, accepts, rcvbuf, come>>

Woken == IF srv.pc = "asleep" THEN [srv EXCEPT !.pc = "wake"] ELSE srv

\* Mutant: the signal is sent without the mutex.
Signal_Bare ==
  /\ Core("signal")
  /\ srv' = Woken
  /\ core' = [core EXCEPT !.pc = "idle"]
  /\ UNCHANGED <<rbr, rdlist, rdnum, rdy, cdmtx, accepts, rcvbuf, come>>

Signal ==
  /\ Core("signal") /\ cdmtx = "free"
  /\ srv' = Woken
  /\ core' = [core EXCEPT !.pc = "idle"]
  /\ UNCHANGED <<rbr, rdlist, rdnum, rdy, cdmtx, accepts, rcvbuf, come>>

epoll_event_callback == Find \/ Insert \/ Signal

-----------------------------------------------------------------------------
(* The server *)

Srv(pc)  == srv.pc = pc
Goto(pc) == srv' = [srv EXCEPT !.pc = pc]

Lock ==
  /\ Srv("wait") /\ cdmtx = "free"
  /\ cdmtx' = "srv" /\ Goto("look")
  /\ UNCHANGED <<rbr, rdlist, rdnum, rdy, core, accepts, rcvbuf, come>>

Look ==
  /\ Srv("look")
  /\ IF rdnum = 0 THEN Goto("doze") /\ UNCHANGED cdmtx ELSE Goto("take") /\ cdmtx' = "free"
  /\ UNCHANGED <<rbr, rdlist, rdnum, rdy, core, accepts, rcvbuf, come>>

Sleep ==
  /\ Srv("doze")
  /\ cdmtx' = "free" /\ Goto("asleep")
  /\ UNCHANGED <<rbr, rdlist, rdnum, rdy, core, accepts, rcvbuf, come>>

Timeout ==
  /\ Srv("asleep") /\ ~srv.forever
  /\ Goto("wake")
  /\ UNCHANGED <<rbr, rdlist, rdnum, rdy, cdmtx, core, accepts, rcvbuf, come>>

\* After a timed wait the loop ends, whatever ended the wait.
Wake ==
  /\ Srv("wake") /\ cdmtx = "free"
  /\ IF srv.forever THEN Goto("look") /\ cdmtx' = "srv" ELSE Goto("take") /\ UNCHANGED cdmtx
  /\ UNCHANGED <<rbr, rdlist, rdnum, rdy, core, accepts, rcvbuf, come>>

Taken(n, keep) ==
  /\ Srv("take")
  /\ srv' = [srv EXCEPT !.events = SubSeq(rdlist, 1, n), !.pc = IF n = 0 THEN "wait" ELSE "event"]
  /\ rdlist' = IF keep THEN rdlist ELSE SubSeq(rdlist, n + 1, Len(rdlist))
  /\ rdy' = rdy \ {rdlist[i] : i \in 1..n}
  /\ rdnum' = IF keep THEN rdnum ELSE rdnum - n
  /\ UNCHANGED <<rbr, cdmtx, core, accepts, rcvbuf, come>>

Take == Taken(IF rdnum < MaxEvents THEN rdnum ELSE MaxEvents, FALSE)

nepoll_wait == Lock \/ Look \/ Sleep \/ Timeout \/ Wake \/ Take

Rest == [srv EXCEPT !.events = Tail(@), !.pc = IF Len(srv.events) = 1 THEN "wait" ELSE "event"]

\* naccept takes any connection that has none yet; it waits if there is none.
naccept ==
  /\ Srv("event") /\ Head(srv.events) = LISTENFD
  /\ \E c \in accepts :
       /\ accepts' = accepts \ {c}
       /\ srv' = [srv EXCEPT !.pc = "add", !.fd = c]
  /\ UNCHANGED <<rbr, rdlist, rdnum, rdy, cdmtx, core, rcvbuf, come>>

\* nepoll_ctl with ADD, while the tree is being changed and after.
CtlAdd ==
  \/ Srv("add") /\ Goto("adding") /\ UNCHANGED rbr
       /\ UNCHANGED <<rdlist, rdnum, rdy, cdmtx, core, accepts, rcvbuf, come>>
  \/ Srv("adding") /\ srv' = Rest /\ rbr' = rbr \cup {srv.fd}
       /\ UNCHANGED <<rdlist, rdnum, rdy, cdmtx, core, accepts, rcvbuf, come>>

\* One fragment for one event; the last that comes is the end.
nrecv(c) ==
  /\ Srv("event") /\ Head(srv.events) = c /\ rcvbuf[c] > 0
  /\ rcvbuf' = [rcvbuf EXCEPT ![c] = @ - 1]
  /\ srv' = IF come[c] = Fragments[c] /\ rcvbuf[c] = 1
            THEN [srv EXCEPT !.pc = "deleting", !.fd = c] ELSE Rest
  /\ UNCHANGED <<rbr, rdlist, rdnum, rdy, cdmtx, core, accepts, come>>

\* nepoll_ctl with DEL frees the epitem and looks neither at rdy nor at the
\* list; nclose follows.
CtlDel ==
  /\ Srv("deleting")
  /\ rbr' = rbr \ {srv.fd}
  /\ srv' = Rest
  /\ UNCHANGED <<rdlist, rdnum, rdy, cdmtx, core, accepts, rcvbuf, come>>

PollServer == nepoll_wait \/ naccept \/ CtlAdd \/ CtlDel \/ \E c \in Conns : nrecv(c)

PollNext ==
  \/ \E c \in Conns : Handshake(c) \/ Fragment(c)
  \/ epoll_event_callback
  \/ PollServer

PollSpec == PollInit /\ [][PollNext]_pollVars

-----------------------------------------------------------------------------
(* Properties *)

\* Every variable keeps its shape, and the caller's array its size.
PollTypeOK ==
  /\ rbr \subseteq PollFds /\ rdlist \in Seq(PollFds) /\ rdnum \in Nat /\ rdy \subseteq PollFds
  /\ cdmtx \in {"free", "srv"} /\ accepts \subseteq Conns
  /\ core \in [pc : {"idle", "find", "insert", "signal"}, fd : PollFds]
  /\ srv.fd \in PollFds /\ srv.events \in Seq(PollFds) /\ Len(srv.events) <= MaxEvents
  /\ \A c \in Conns : rcvbuf[c] \in 0..Fragments[c] /\ come[c] \in -1..Fragments[c]

\* The ready list holds each epitem that is marked and no other, once, and
\* rdnum is its length: the test of rdy outside the lock (2293) is enough.
ReadyExact ==
  /\ rdnum = Len(rdlist)
  /\ \A i \in 1..Len(rdlist) : rdlist[i] \in rdy
  /\ \A i, j \in 1..Len(rdlist) : rdlist[i] = rdlist[j] => i = j

\* A server that sleeps while something is ready is about to be woken: the
\* insertion comes before the mutex is taken for the signal (2300-2309).
NoLostWakeup == Srv("asleep") /\ rdnum > 0 => Core("signal")

\* nepoll_ctl frees no epitem that is in the list, that the callback has found
\* and will insert, or that the server has still to look at (2429).
NoFreedItem ==
  /\ ToSet(rdlist) \subseteq rbr
  /\ Core("insert") => core.fd \in rbr
  /\ ToSet(srv.events) \subseteq rbr

\* The single loop never blocks in the call an event leads to: there is a
\* connection to accept, a fragment to read, though a callback is lost when
\* it comes before the ADD and two may be told as one (2588).
NeverBlocks ==
  Srv("event") =>
    IF Head(srv.events) = LISTENFD THEN accepts # {} ELSE rcvbuf[Head(srv.events)] > 0
\* The event poll never loses a wake-up, keeps its list and its marks together, and
\* hands out no event that would block the server or lead to a freed item
\* (ustack_backup_2.4.4.c:2280-2310, 2395-2480).
PollSound == PollTypeOK /\ ReadyExact /\ NoLostWakeup /\ NoFreedItem /\ NeverBlocks
=============================================================================
