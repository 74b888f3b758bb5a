------------------------------ MODULE UStackTcp ------------------------------
(***************************************************************************)
(* The TCP half of the user-space stack on DPDK (tcp.c): the table of       *)
(* control blocks, the handlers that pkt_process runs on one core, and the *)
(* socket calls of the echo server that runs on another, with the mutex    *)
(* and condition variable of each control block between them.              *)
(*                                                                         *)
(* The server is built with one of two bodies: mode "once" accepts a       *)
(* connection and serves it to its end (ENABLE_ONCE_MODE), mode "epoll"     *)
(* serves what nepoll_wait reports (ustack_backup_2.4.4.c).  The plan says  *)
(* how clients behave: a polite one waits for its echo before it goes on,  *)
(* and clients come together or one after another.                         *)
(*                                                                         *)
(* A segment carries at most one unit of data and sequence numbers count   *)
(* units.  The network keeps the order of each connection and loses        *)
(* nothing: the code has no timer that could repeat a segment.  Memory and *)
(* ring slots suffice.                                                     *)
(*                                                                         *)
(* Two operations lie open to the other thread: the packet core wakes the  *)
(* server before it brings the numbers of the control block up to date     *)
(* (tcp.c 1808, 1921), and nclose sends its FIN before it notes that the   *)
(* last acknowledgement is due (1547).  The variable hurried remembers the *)
(* clients whose connection was met half-way.                              *)
(***************************************************************************)
EXTENDS Integers, Sequences, FiniteSets, SequencesExt

CONSTANTS
  Clients,      \* one connection each: an address and a port
  MaxData,      \* units a polite client sends that comes alone
  MaxBusy,      \* units any other client sends
  PoliteModes,  \* the bodies of the server that polite clients meet one by one
  TogetherModes,\* those that they meet together
  HastyModes,   \* those that clients who do not wait meet
  NONE

ASSUME UStackAssumption ==
  /\ PoliteModes \cup TogetherModes \cup HastyModes \subseteq {"once", "epoll"}
  /\ MaxData \in Nat /\ MaxBusy \in Nat /\ IsFiniteSet(Clients)
  /\ NONE \notin Clients /\ NONE \notin 0..Cardinality(Clients)

\* The server's body and how clients behave: the hasty come one after another.
Plans ==
  [mode : PoliteModes, polite : {TRUE}, together : {FALSE}] \cup
  [mode : TogetherModes, polite : {TRUE}, together : {TRUE}] \cup
  [mode : HastyModes, polite : {FALSE}, together : {FALSE}]

VARIABLES
  tcb_set,      \* the list table->tcb_set, head first
  tcb,          \* what each of them holds
  fd_table,     \* the bitmap of descriptors in use
  rdlist,       \* ready list of the event poll, head first
  items,        \* descriptors registered with it
  app,          \* the server thread
  core,         \* the packet core: whose segment it has in work, and what that acknowledges
  hurried,      \* history: the clients one of the threads did not wait for
  toServer, toClient,   \* segments under way, by connection
  peer,         \* the clients
  plan          \* one of Plans, chosen at the start

server  == <<tcb_set, tcb, fd_table, rdlist, items, app, core, hurried>>
clients == <<peer, plan>>
vars    == <<server, toServer, toClient, clients>>

LISTENER == 0
Streams  == 0..Cardinality(Clients)
LISTENFD == 3
EPFD     == 4
Fds      == 3..(5 + Cardinality(Clients))

Segment(flags, seq, ack, data) == [flags |-> flags, seq |-> seq, ack |-> ack, data |-> data]
Blank == [peer |-> NONE, fd |-> -1, status |-> "CLOSED", snd_nxt |-> 0, rcv_nxt |-> 0,
          sndbuf |-> <<>>, rcvbuf |-> <<>>]
Idle == [of |-> NONE, ack |-> 0]

\* nsocket, nbind and nlisten for the listener, nepoll_create and the first
\* nepoll_ctl in epoll mode; the clients are yet to come.
Init ==
  /\ plan \in Plans
  /\ tcb_set = <<LISTENER>>
  /\ tcb = [s \in Streams |-> IF s = LISTENER
              THEN [Blank EXCEPT !.fd = LISTENFD, !.status = "LISTEN"] ELSE Blank]
  /\ fd_table = IF plan.mode = "epoll" THEN {LISTENFD, EPFD} ELSE {LISTENFD}
  /\ rdlist = <<>>
  /\ items = IF plan.mode = "epoll" THEN {LISTENFD} ELSE {}
  /\ app = [pc |-> IF plan.mode = "epoll" THEN "wait" ELSE "accept",
            fd |-> -1, on |-> NONE, data |-> 0, ready |-> <<>>]
  /\ core = Idle /\ hurried = {}
  /\ toServer = [c \in Clients |-> <<>>]
  /\ toClient = [c \in Clients |-> <<>>]
  /\ peer = [c \in Clients |-> [st |-> "closed", snd |-> 0, rcv |-> 0, sent |-> 0, got |-> <<>>]]

-----------------------------------------------------------------------------
(* Look-up *)

\* The first of some control blocks in the list.
First(some) ==
  IF \E i \in DOMAIN tcb_set : tcb_set[i] \in some
  THEN tcb_set[CHOOSE i \in DOMAIN tcb_set :
                 tcb_set[i] \in some /\ \A j \in 1..(i - 1) : tcb_set[j] \notin some]
  ELSE NONE

ng_tcp_stream_search(c) ==
  LET mine == First({s \in Streams : tcb[s].peer = c})
  IN  IF mine # NONE THEN mine ELSE First({s \in Streams : tcb[s].status = "LISTEN"})

\* Any control block without a descriptor will do, established or not.
get_accept_tcb == First({s \in Streams : tcb[s].fd = -1})

get_hostinfo_fromfd(fd) == First({s \in Streams : tcb[s].fd = fd})

get_fd_frombitmap == CHOOSE fd \in Fds \ fd_table : \A f \in Fds \ fd_table : fd <= f

FreshTcb == CHOOSE s \in Streams : ~Contains(tcb_set, s)

-----------------------------------------------------------------------------
(* pkt_process: one segment at a time *)

Arriving(c, status) ==
  /\ core = Idle /\ toServer[c] # <<>>
  /\ tcb[ng_tcp_stream_search(c)].status = status
  /\ toServer' = [toServer EXCEPT ![c] = Tail(@)]

\* pthread_cond_signal for the thread that waits on s.
Signalled(s, pcs) ==
  IF app.on = s /\ app.pc \in DOMAIN pcs THEN [app EXCEPT !.pc = pcs[@], !.on = NONE] ELSE app

\* The backup adds a call to each place where the server has something to do.
epoll_event_callback(fd) ==
  rdlist' = IF plan.mode = "epoll" /\ fd \in items /\ ~Contains(rdlist, fd)
            THEN <<fd>> \o rdlist ELSE rdlist

ng_tcp_handle_listen(c) ==
  LET seg == Head(toServer[c])
      s   == FreshTcb
  IN  /\ Arriving(c, "LISTEN")
      /\ IF "SYN" \in seg.flags
         THEN /\ tcb_set' = <<s>> \o tcb_set
              /\ tcb' = [tcb EXCEPT ![s] =
                   [Blank EXCEPT !.peer = c, !.status = "SYN_RCVD", !.rcv_nxt = seg.seq + 1,
                      !.sndbuf = <<Segment({"SYN", "ACK"}, 0, seg.seq + 1, 0)>>]]
         ELSE UNCHANGED <<tcb_set, tcb>>
      /\ UNCHANGED <<fd_table, rdlist, items, app, core, hurried, toClient, clients>>

\* The number that is acknowledged is looked at and not used.
ng_tcp_handle_syn_rcvd(c) ==
  LET s == ng_tcp_stream_search(c)
  IN  /\ Arriving(c, "SYN_RCVD")
      /\ "ACK" \in Head(toServer[c]).flags
      /\ tcb' = [tcb EXCEPT ![s].status = "ESTABLISHED"]
      /\ app' = Signalled(LISTENER, [accept_wait |-> "accept"])
      /\ epoll_event_callback(LISTENFD)
      /\ UNCHANGED <<tcb_set, fd_table, items, core, hurried, toClient, clients>>

\* ng_tcp_enqueue_recvbuffer: data is taken as it comes, without a look at its
\* sequence number; a FIN is an empty fragment.
Enqueued(t, seg) ==
  [t EXCEPT !.rcvbuf = Append(@, IF "PSH" \in seg.flags THEN seg.data ELSE 0),
            !.status = IF "FIN" \in seg.flags THEN "CLOSE_WAIT" ELSE @]

\* The server is woken with the numbers of the control block still as they were.
ng_tcp_handle_established(c) ==
  LET seg == Head(toServer[c])
      s   == ng_tcp_stream_search(c)
  IN  /\ Arriving(c, "ESTABLISHED")
      /\ IF "PSH" \in seg.flags \/ "FIN" \in seg.flags
         THEN /\ tcb' = [tcb EXCEPT ![s] = Enqueued(@, seg)]
              /\ app' = Signalled(s, [recv_wait |-> "recv"])
              /\ epoll_event_callback(tcb[s].fd)
              /\ core' = [of |-> c, ack |-> seg.ack]
         ELSE UNCHANGED <<tcb, app, rdlist, core>>
      /\ UNCHANGED <<tcb_set, fd_table, items, hurried, toClient, clients>>

\* The numbers follow, and ng_tcp_send_ackpkt.
Numbered(t, snd) ==
  [t EXCEPT !.snd_nxt = snd, !.rcv_nxt = @ + 1,
            !.sndbuf = Append(@, Segment({"ACK"}, snd, t.rcv_nxt + 1, 0))]

\* Mutant: snd_nxt is left at the number of the segment before.
established_numbers_StaleSnd ==
  LET s == ng_tcp_stream_search(core.of)
  IN  /\ core # Idle
      /\ tcb' = [tcb EXCEPT ![s] = Numbered(@, @.snd_nxt)]
      /\ core' = Idle
      /\ UNCHANGED <<tcb_set, fd_table, rdlist, items, app, hurried, toServer, toClient, clients>>

established_numbers ==
  LET s == ng_tcp_stream_search(core.of)
  IN  /\ core # Idle
      /\ tcb' = [tcb EXCEPT ![s] = Numbered(@, core.ack)]
      /\ core' = Idle
      /\ UNCHANGED <<tcb_set, fd_table, rdlist, items, app, hurried, toServer, toClient, clients>>

\* What comes while nclose is half-way is lost on it.
ng_tcp_handle_close_wait(c) ==
  /\ Arriving(c, "CLOSE_WAIT")
  /\ hurried' = IF app.pc = "closing" /\ get_hostinfo_fromfd(app.fd) = ng_tcp_stream_search(c)
                THEN hurried \cup {c} ELSE hurried
  /\ UNCHANGED <<tcb_set, tcb, fd_table, rdlist, items, app, core, toClient, clients>>

\* Any acknowledgement ends the connection, whatever it acknowledges.
ng_tcp_handle_last_ack(c) ==
  LET s == ng_tcp_stream_search(c)
  IN  /\ Arriving(c, "LAST_ACK")
      /\ "ACK" \in Head(toServer[c]).flags
      /\ tcb_set' = RemoveAt(tcb_set, CHOOSE i \in DOMAIN tcb_set : tcb_set[i] = s)
      /\ tcb' = [tcb EXCEPT ![s] = Blank]
      /\ UNCHANGED <<fd_table, rdlist, items, app, core, hurried, toClient, clients>>

ng_tcp_process(c) ==
  \/ ng_tcp_handle_listen(c) \/ ng_tcp_handle_syn_rcvd(c) \/ ng_tcp_handle_established(c)
  \/ ng_tcp_handle_close_wait(c) \/ ng_tcp_handle_last_ack(c)

\* One segment of every connection leaves.
ng_tcp_out ==
  LET busy == {s \in Streams : Contains(tcb_set, s) /\ tcb[s].sndbuf # <<>>}
  IN  /\ core = Idle /\ busy # {}
      /\ toClient' = [c \in Clients |->
           LET mine == {s \in busy : tcb[s].peer = c}
           IN  IF mine = {} THEN toClient[c]
               ELSE Append(toClient[c], Head(tcb[CHOOSE s \in mine : TRUE].sndbuf))]
      /\ tcb' = [s \in Streams |-> IF s \in busy THEN [tcb[s] EXCEPT !.sndbuf = Tail(@)]
                                   ELSE tcb[s]]
      /\ UNCHANGED <<tcb_set, fd_table, rdlist, items, app, core, hurried, toServer, clients>>

pkt_process == ng_tcp_out \/ established_numbers \/ \E c \in Clients : ng_tcp_process(c)

-----------------------------------------------------------------------------
(* The socket calls and the server's loop *)

At(pc) == app.pc = pc
Loop   == IF plan.mode = "once" THEN "recv" ELSE "next"

\* The listener's mutex covers the look and the wait.
naccept ==
  /\ At("accept")
  /\ IF get_accept_tcb = NONE
     THEN /\ app' = [app EXCEPT !.pc = "accept_wait", !.on = LISTENER]
          /\ UNCHANGED <<tcb, fd_table>>
     ELSE /\ tcb' = [tcb EXCEPT ![get_accept_tcb].fd = get_fd_frombitmap]
          /\ fd_table' = fd_table \cup {get_fd_frombitmap}
          /\ app' = [app EXCEPT !.fd = get_fd_frombitmap,
                                !.pc = IF plan.mode = "once" THEN "recv" ELSE "add"]
  /\ UNCHANGED <<tcb_set, rdlist, items, core, hurried, toServer, toClient, clients>>

\* Mutant: the fragment is copied and left in the ring.
nrecv_Peek ==
  LET s == get_hostinfo_fromfd(app.fd)
  IN  /\ At("recv") /\ s # NONE
      /\ app' = IF tcb[s].rcvbuf = <<>> THEN [app EXCEPT !.pc = "recv_wait", !.on = s]
                ELSE [app EXCEPT !.data = Head(tcb[s].rcvbuf),
                                 !.pc = IF Head(tcb[s].rcvbuf) = 0 THEN "close" ELSE "send"]
      /\ UNCHANGED <<tcb, tcb_set, fd_table, rdlist, items, core, hurried,
                     toServer, toClient, clients>>

\* Mutant: what was read is taken for the end.
nrecv_End ==
  LET s == get_hostinfo_fromfd(app.fd)
  IN  /\ At("recv") /\ s # NONE
      /\ IF tcb[s].rcvbuf = <<>>
         THEN app' = [app EXCEPT !.pc = "recv_wait", !.on = s] /\ UNCHANGED tcb
         ELSE /\ app' = [app EXCEPT !.pc = "close"]
              /\ tcb' = [tcb EXCEPT ![s].rcvbuf = Tail(@)]
      /\ UNCHANGED <<tcb_set, fd_table, rdlist, items, core, hurried, toServer, toClient, clients>>

\* An empty fragment is the end of the connection.
nrecv ==
  LET s == get_hostinfo_fromfd(app.fd)
  IN  /\ At("recv") /\ s # NONE
      /\ IF tcb[s].rcvbuf = <<>>
         THEN app' = [app EXCEPT !.pc = "recv_wait", !.on = s] /\ UNCHANGED tcb
         ELSE /\ app' = [app EXCEPT !.data = Head(tcb[s].rcvbuf),
                                    !.pc = IF Head(tcb[s].rcvbuf) = 0 THEN "close" ELSE "send"]
              /\ tcb' = [tcb EXCEPT ![s].rcvbuf = Tail(@)]
      /\ UNCHANGED <<tcb_set, fd_table, rdlist, items, core, hurried, toServer, toClient, clients>>

\* The numbers of s are taken while the packet core is about to change them.
Hurry(s) == hurried' = IF tcb[s].peer = core.of THEN hurried \cup {core.of} ELSE hurried

\* The number of a segment is what the peer acknowledged last.
nsend ==
  LET s == get_hostinfo_fromfd(app.fd)
  IN  /\ At("send")
      /\ tcb' = [tcb EXCEPT ![s].sndbuf =
           Append(@, Segment({"PSH", "ACK"}, tcb[s].snd_nxt, tcb[s].rcv_nxt, app.data))]
      /\ app' = [app EXCEPT !.pc = Loop]
      /\ Hurry(s)
      /\ UNCHANGED <<tcb_set, fd_table, rdlist, items, core, toServer, toClient, clients>>

\* nclose sends its FIN; in epoll mode the descriptor has been taken out of the
\* event poll just before.
nclose_fin ==
  LET s == get_hostinfo_fromfd(app.fd)
  IN  /\ At("close")
      /\ tcb' = [tcb EXCEPT ![s].sndbuf =
           Append(@, Segment({"FIN", "ACK"}, tcb[s].snd_nxt, tcb[s].rcv_nxt, 0))]
      /\ items' = items \ {app.fd}
      /\ app' = [app EXCEPT !.pc = "closing"]
      /\ Hurry(s)
      /\ UNCHANGED <<tcb_set, fd_table, rdlist, core, toServer, toClient, clients>>

\* Then it changes the state.  The control block keeps its descriptor, the
\* bitmap does not.
Closing(freed) ==
  /\ At("closing")
  /\ tcb' = [tcb EXCEPT ![get_hostinfo_fromfd(app.fd)].status = "LAST_ACK"]
  /\ fd_table' = fd_table \ freed
  /\ app' = [app EXCEPT !.pc = IF plan.mode = "once" THEN "accept" ELSE "next", !.fd = -1]
  /\ UNCHANGED <<tcb_set, rdlist, items, core, hurried, toServer, toClient, clients>>

\* Mutant: set_fd_frombitmap is forgotten.
nclose_end_KeepsBit == Closing({})
nclose_end == Closing({app.fd})

nepoll_ctl_add ==
  /\ At("add")
  /\ items' = items \cup {app.fd}
  /\ app' = [app EXCEPT !.pc = "next"]
  /\ UNCHANGED <<tcb_set, tcb, fd_table, rdlist, core, hurried, toServer, toClient, clients>>

\* It also returns after 5 ms with nothing, which changes nothing.
nepoll_wait ==
  /\ At("wait") /\ rdlist # <<>>
  /\ app' = [app EXCEPT !.ready = rdlist, !.pc = "event"]
  /\ rdlist' = <<>>
  /\ UNCHANGED <<tcb_set, tcb, fd_table, items, core, hurried, toServer, toClient, clients>>

Event ==
  /\ At("event")
  /\ app' = [app EXCEPT !.fd = Head(app.ready),
                        !.pc = IF Head(app.ready) = LISTENFD THEN "accept" ELSE "recv"]
  /\ UNCHANGED <<tcb_set, tcb, fd_table, rdlist, items, core, hurried, toServer, toClient, clients>>

NextEvent ==
  /\ At("next")
  /\ app' = [app EXCEPT !.ready = Tail(@), !.fd = -1,
                        !.pc = IF Len(app.ready) = 1 THEN "wait" ELSE "event"]
  /\ UNCHANGED <<tcb_set, tcb, fd_table, rdlist, items, core, hurried, toServer, toClient, clients>>

tcp_server_entry ==
  \/ naccept \/ nrecv \/ nsend \/ nclose_fin \/ nclose_end
  \/ nepoll_ctl_add \/ nepoll_wait \/ Event \/ NextEvent

-----------------------------------------------------------------------------
(* The clients: a TCP that follows its standard, without a timer *)

Sends(c, flags, data) ==
  toServer' = [toServer EXCEPT ![c] =
    Append(@, Segment(flags, peer[c].snd, peer'[c].rcv, data))]

Connect(c) ==
  /\ peer[c].st = "closed"
  /\ plan.together \/ \A d \in Clients : peer[d].st \in {"closed", "done"}
  /\ peer' = [peer EXCEPT ![c].st = "syn_sent", ![c].snd = 1]
  /\ Sends(c, {"SYN"}, 0)
  /\ UNCHANGED <<server, toClient, plan>>

Ready(c) == peer[c].st = "established" /\ (plan.polite => Len(peer[c].got) = peer[c].sent)

SendData(c) ==
  /\ Ready(c) /\ peer[c].sent < (IF plan.polite /\ ~plan.together THEN MaxData ELSE MaxBusy)
  /\ peer' = [peer EXCEPT ![c].sent = @ + 1, ![c].snd = @ + 1]
  /\ Sends(c, {"PSH", "ACK"}, peer[c].sent + 1)
  /\ UNCHANGED <<server, toClient, plan>>

Finish(c) ==
  /\ Ready(c)
  /\ peer' = [peer EXCEPT ![c].st = "fin_wait", ![c].snd = @ + 1]
  /\ Sends(c, {"FIN", "ACK"}, 0)
  /\ UNCHANGED <<server, toClient, plan>>

\* What is not the next in line is answered and dropped; but data from before
\* may be longer than what stood there, and its end is then taken for the next.
Receive(c) ==
  LET seg  == Head(toClient[c])
      p    == peer[c]
      next == seg.seq = p.rcv
  IN  /\ toClient[c] # <<>>
      /\ toClient' = [toClient EXCEPT ![c] = Tail(@)]
      /\ \E torn \in BOOLEAN :
           /\ torn => "PSH" \in seg.flags /\ seg.seq < p.rcv /\ p.st \in {"established", "fin_wait"}
           /\ peer' = [peer EXCEPT ![c] =
                CASE "SYN" \in seg.flags -> [p EXCEPT !.st = "established", !.rcv = seg.seq + 1]
                  [] "PSH" \in seg.flags /\ (next \/ torn) ->
                       [p EXCEPT !.got = Append(@, IF torn THEN 0 ELSE seg.data), !.rcv = @ + 1]
                  [] "FIN" \in seg.flags /\ next ->
                       [p EXCEPT !.st = IF @ = "fin_wait" THEN "done" ELSE "half_closed", !.rcv = @ + 1]
                  [] OTHER -> p]
      /\ IF seg.flags = {"ACK"} THEN UNCHANGED toServer ELSE Sends(c, {"ACK"}, 0)
      /\ UNCHANGED <<server, plan>>

Client(c) == Connect(c) \/ SendData(c) \/ Finish(c) \/ Receive(c)

Next == pkt_process \/ tcp_server_entry \/ \E c \in Clients : Client(c)

Spec == Init /\ [][Next]_vars

\* The loop of the packet core takes segments from a ring in turn and never
\* blocks; the server is a thread; a client goes on with what it began.
FairSpec ==
  /\ Spec
  /\ WF_vars(ng_tcp_out) /\ WF_vars(established_numbers) /\ WF_vars(tcp_server_entry)
  /\ \A c \in Clients : WF_vars(ng_tcp_process(c)) /\ WF_vars(Finish(c)) /\ WF_vars(Receive(c))

-----------------------------------------------------------------------------
(* Properties *)

\* Every variable keeps its shape; a control block is in the list while it
\* is allocated.
TypeOK ==
  /\ tcb_set \in Seq(Streams) /\ fd_table \subseteq Fds /\ items \subseteq Fds
  /\ rdlist \in Seq(Fds) /\ plan \in Plans
  /\ \A s \in Streams : tcb[s].fd \in Fds \cup {-1} /\ (Contains(tcb_set, s) <=> tcb[s] # Blank)
  /\ app.on \in Streams \cup {NONE} /\ core.of \in Clients \cup {NONE} /\ hurried \subseteq Clients

\* The bitmap holds the descriptors of the connections the server has open,
\* each of them once: none leaks and none is given to two open connections,
\* although get_accept_tcb hands out half-open ones and nclose leaves the
\* number in the control block (tcp.c 902, 1549).
BitmapExact ==
  LET open == {s \in ToSet(tcb_set) : tcb[s].fd # -1 /\ tcb[s].status # "LAST_ACK"}
  IN  /\ {tcb[s].fd : s \in open} = fd_table \ (IF plan.mode = "epoll" THEN {EPFD} ELSE {})
      /\ \A s, t \in open : tcb[s].fd = tcb[t].fd => s = t

\* A polite client reads back what it sent, in its order and nothing twice, unless
\* the server answered while the packet core was still at the numbers: those nsend
\* takes from the last acknowledgement fit (tcp.c 1329, 1921), and only the half-way
\* numbers do not.
EchoesInOrder ==
  plan.polite => \A c \in Clients \ hurried :
    /\ Len(peer[c].got) <= peer[c].sent
    /\ \A i \in 1..Len(peer[c].got) : peer[c].got[i] = i

\* The control block of a polite client goes only when the client has ended
\* the connection and seen the end of the other side, though last_ack takes
\* any acknowledgement for the one it waits for (tcp.c 2016); again unless the
\* server took numbers half-way, when the client answers a FIN it cannot use.
FreedAfterBothFins ==
  [][plan.polite => \A s \in ToSet(tcb_set) \ ToSet(tcb_set') :
       tcb[s].peer # NONE => peer[tcb[s].peer].st = "done" \/ tcb[s].peer \in hurried]_vars

\* Events in the ready list or in the server's hands for a connection are no
\* more than the fragments it has in its ring: nrecv does not block the loop,
\* and no epitem is freed while it is in the list (backup 2293, 2429).
Pending ==
  IF At("wait") THEN <<>>
  ELSE IF app.pc \in {"send", "next", "close", "closing", "add"} THEN Tail(app.ready)
  ELSE app.ready
Times(fd, q) == Cardinality({i \in DOMAIN q : q[i] = fd})
Waiting(fd) == Times(fd, rdlist) + Times(fd, Pending)

EventMeansData ==
  plan.mode = "epoll" /\ ~plan.together =>
    \A fd \in items \ {LISTENFD} :
      get_hostinfo_fromfd(fd) # NONE /\ Waiting(fd) <= Len(tcb[get_hostinfo_fromfd(fd)].rcvbuf)

\* A polite client that comes alone to the server without event poll is
\* served to the end: all it sent comes back and its connection is gone.  Only
\* one whose connection a thread met half-way may wait in vain.
Served ==
  plan.mode = "once" /\ plan.polite /\ ~plan.together =>
    \A c \in Clients : peer[c].st = "syn_sent" ~>
       \/ c \in hurried
       \/ peer[c].st = "done" /\ Len(peer[c].got) = peer[c].sent
            /\ \A s \in Streams : tcb[s].peer # c
\* Descriptors, control blocks and events agree over every interleaving of the stack
\* and the server: no descriptor leaks or has two owners, and no event is told
\* without data behind it (tcp.c:902, 1549; ustack_backup_2.4.4.c:2293).
StackSound == TypeOK /\ BitmapExact /\ EventMeansData
=============================================================================
