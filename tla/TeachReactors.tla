--------------------------- MODULE TeachReactors ---------------------------
(***************************************************************************)
(* The teaching reactors: epoll, level triggered, an entry of buffers and  *)
(* callbacks per descriptor, and either EPOLLIN or EPOLLOUT asked for.     *)
(* Reactor lists the programs and where they differ.                       *)
(***************************************************************************)
EXTENDS TeachSocket

VARIABLES
    want,   \* want[fd]: "no", "in" or "out", as last told to epoll
    ready,  \* events of the last epoll_wait not handled yet
    conn    \* conn[fd]: [r, w, status], the entry of connlist

reactorVars == <<sockVars, want, ready, conn>>

-----------------------------------------------------------------------------
(* The programs:                                                           *)
(*   keeps   the buffer is sent from its start and never emptied           *)
(*   frames  a client's first unit is its WebSocket handshake, the others  *)
(*           are frames                                                    *)
(*   error   after a failed recv it goes on to send, copies -1 bytes, or   *)
(*           closes                                                        *)

Reactor1 == [keeps |-> TRUE, frames |-> FALSE, error |-> "send"]
Reactor2 == Reactor1
Reactor3 == Reactor1
Reactor4 == Reactor1
EchoReactor == [Reactor4 EXCEPT !.keeps = FALSE]
PortsReactor == EchoReactor
EpollEcho == [EchoReactor EXCEPT !.error = "copy"]
WsReactor == [EchoReactor EXCEPT !.frames = TRUE, !.error = "close"]

Reactors == {"reactor1", "reactor2", "reactor3", "reactor4", "echo", "ports", "uecho", "ws"}
Reactor == [reactor1 |-> Reactor1, reactor2 |-> Reactor2, reactor3 |-> Reactor3,
            reactor4 |-> Reactor4, echo |-> EchoReactor, ports |-> PortsReactor,
            uecho |-> EpollEcho, ws |-> WsReactor]
IsReactor == prog \in Reactors
its == Reactor[prog]

FreshConn == [r |-> <<>>, w |-> <<>>, status |-> 0]

ReactorInit ==
    /\ SockInit
    /\ want = [fd \in Fds |-> "no"] /\ ready = {}
    /\ conn = [fd \in Fds |-> FreshConn]

ReactorClient(p) == (Connect(p) \/ SendOrQuit(p)) /\ UNCHANGED <<want, ready, conn>>

\* The kernel has room for what is sent, so EPOLLOUT is always reported.
Events ==
    (IF queue # <<>> THEN {Listener} ELSE {})
    \cup { fd \in Fds : want[fd] = "out" \/ (want[fd] = "in" /\ Readable(Owner(fd))) }

MainLoop ==
    /\ down = "up" /\ ready = {} /\ Events # {}
    /\ ready' = Events
    /\ UNCHANGED <<sockVars, want, conn>>

\* The entry starts anew; event_register of reactor.c leaves its status alone.
accept_cb ==
    /\ down = "up" /\ Listener \in ready /\ queue # <<>>
    /\ LET p == Head(queue) fd == LowestFree IN
       /\ peer' = [peer EXCEPT ![p] = Accepted(p)]
       /\ conn' = [conn EXCEPT ![fd] = [FreshConn EXCEPT !.status = conn[fd].status]]
       /\ want' = [want EXCEPT ![fd] = "in"]
    /\ queue' = Tail(queue) /\ ready' = ready \ {Listener}
    /\ UNCHANGED <<setup, down>>

RoomIn_Left(fd) == IF its.keeps THEN setup.buf - Len(conn[fd].r) ELSE setup.buf - Len(conn[fd].w)

RoomIn(fd) == IF its.keeps THEN setup.buf - Len(conn[fd].r) ELSE setup.buf

ws_request_Swapped(c, got) ==
    CASE c.status = 1 ->
           [c EXCEPT !.status = 0, !.w = IF Head(got)[2] = 1 THEN << <<Head(got)[1], 0>> >> ELSE @]
      [] c.status = 0 -> [c EXCEPT !.status = 2, !.w = <<Head(got)>>]
      [] OTHER        -> c

ws_request_Adds(c, got) ==
    CASE c.status = 0 ->
           [c EXCEPT !.status = 1, !.w = IF Head(got)[2] = 1 THEN << <<Head(got)[1], 0>> >> ELSE @]
      [] c.status = 1 -> [c EXCEPT !.status = 2, !.w = Append(@, Head(got))]
      [] OTHER        -> c

\* Handshake: the request is answered with <<p, 0>>.
ws_request(c, got) ==
    CASE c.status = 0 ->
           [c EXCEPT !.status = 1, !.w = IF Head(got)[2] = 1 THEN << <<Head(got)[1], 0>> >> ELSE @]
      [] c.status = 1 -> [c EXCEPT !.status = 2, !.w = <<Head(got)>>]
      [] OTHER        -> c

Request_Keeps(c, got) ==
    CASE its.frames -> ws_request(c, got)
      [] its.keeps  -> [c EXCEPT !.r = @ \o got, !.w = c.r \o got]
      [] OTHER      -> [c EXCEPT !.w = @ \o got]

Request_InFront(c, got) ==
    CASE its.frames -> ws_request(c, got)
      [] its.keeps  -> [c EXCEPT !.r = @ \o got, !.w = got \o c.r]
      [] OTHER      -> [c EXCEPT !.w = got]

Request(c, got) ==
    CASE its.frames -> ws_request(c, got)
      [] its.keeps  -> [c EXCEPT !.r = @ \o got, !.w = c.r \o got]
      [] OTHER      -> [c EXCEPT !.w = got]

Disconnect(fd) ==
    LET n == Result(Owner(fd), RoomIn(fd)) IN
    /\ down = "up" /\ fd \in ready /\ want[fd] = "in"
    /\ n = 0 \/ (n = -1 /\ its.error = "close")
    /\ peer' = [peer EXCEPT ![Owner(fd)] = Closed(Received(Owner(fd), RoomIn(fd)))]
    /\ want' = [want EXCEPT ![fd] = "no"]
    /\ ready' = ready \ {fd}
    /\ UNCHANGED <<setup, queue, down, conn>>

recv_cb_GoesOn(fd) ==
    LET p == Owner(fd)
        n == Result(p, RoomIn(fd))
    IN
    /\ down = "up" /\ fd \in ready /\ want[fd] = "in"
    /\ n > 0 \/ n = -1
    /\ peer' = [peer EXCEPT ![p] = Received(p, RoomIn(fd))]
    /\ IF n = -1 /\ its.error = "copy"
       THEN down' = "crashed" /\ UNCHANGED <<want, conn>>
       ELSE /\ want' = [want EXCEPT ![fd] = "out"]
            /\ conn' = IF n > 0 THEN [conn EXCEPT ![fd] = Request(@, Taken(p, RoomIn(fd)))] ELSE conn
            /\ UNCHANGED down
    /\ ready' = ready \ {fd}
    /\ UNCHANGED <<setup, queue>>

\* recv_cb.  After an error there is nothing new, yet EPOLLOUT is asked for;
\* epoll_tcp_server.c copies -1 bytes.
recv_cb(fd) ==
    LET p == Owner(fd)
        n == Result(p, RoomIn(fd))
    IN
    /\ down = "up" /\ fd \in ready /\ want[fd] = "in"
    /\ n > 0 \/ (n = -1 /\ its.error # "close")
    /\ peer' = [peer EXCEPT ![p] = Received(p, RoomIn(fd))]
    /\ IF n = -1 /\ its.error = "copy"
       THEN down' = "crashed" /\ UNCHANGED <<want, conn>>
       ELSE /\ want' = [want EXCEPT ![fd] = "out"]
            /\ conn' = IF n > 0 THEN [conn EXCEPT ![fd] = Request(@, Taken(p, RoomIn(fd)))] ELSE conn
            /\ UNCHANGED down
    /\ ready' = ready \ {fd}
    /\ UNCHANGED <<setup, queue>>

send_cb_NoReset(fd) ==
    LET p == Owner(fd)
        quiet == its.frames /\ conn[fd].w = <<>>
    IN
    /\ down = "up" /\ fd \in ready /\ want[fd] = "out"
    /\ IF ~quiet /\ SendKills(peer[p])
       THEN down' = "killed" /\ UNCHANGED peer
       ELSE /\ UNCHANGED down
            /\ peer' = IF quiet THEN peer ELSE [peer EXCEPT ![p] = Answered(@, conn[fd].w)]
    /\ conn' = [conn EXCEPT ![fd].status = @]
    /\ want' = [want EXCEPT ![fd] = "in"]
    /\ ready' = ready \ {fd}
    /\ UNCHANGED <<setup, queue>>

send_cb_NoRearm(fd) ==
    LET p == Owner(fd)
        quiet == its.frames /\ conn[fd].w = <<>>
    IN
    /\ down = "up" /\ fd \in ready /\ want[fd] = "out"
    /\ IF ~quiet /\ SendKills(peer[p])
       THEN down' = "killed" /\ UNCHANGED peer
       ELSE /\ UNCHANGED down
            /\ peer' = IF quiet THEN peer ELSE [peer EXCEPT ![p] = Answered(@, conn[fd].w)]
    /\ conn' = [conn EXCEPT ![fd].status = IF @ = 2 THEN 1 ELSE @]
    /\ want' = [want EXCEPT ![fd] = "none"]
    /\ ready' = ready \ {fd}
    /\ UNCHANGED <<setup, queue>>

send_cb(fd) ==
    LET p == Owner(fd)
        quiet == its.frames /\ conn[fd].w = <<>>
    IN
    /\ down = "up" /\ fd \in ready /\ want[fd] = "out"
    /\ IF ~quiet /\ SendKills(peer[p])
       THEN down' = "killed" /\ UNCHANGED peer
       ELSE /\ UNCHANGED down
            /\ peer' = IF quiet THEN peer ELSE [peer EXCEPT ![p] = Answered(@, conn[fd].w)]
    /\ conn' = [conn EXCEPT ![fd].status = IF @ = 2 THEN 1 ELSE @]
    /\ want' = [want EXCEPT ![fd] = "in"]
    /\ ready' = ready \ {fd}
    /\ UNCHANGED <<setup, queue>>

ReactorServer ==
    MainLoop \/ accept_cb \/ \E fd \in Fds : Disconnect(fd) \/ recv_cb(fd) \/ send_cb(fd)
ReactorNext == (\E p \in Peers : ReactorClient(p)) \/ ReactorServer

-----------------------------------------------------------------------------
\* A frame waits for its answer (status 2) only while EPOLLOUT is asked for.
ReactorTypeOK ==
    /\ SockTypeOK
    /\ want \in [Fds -> {"no", "in", "out"}] /\ ready \subseteq Fds \cup {Listener}
    /\ \A fd \in Fds :
        /\ conn[fd].r \in Seq(Peers \X Nat) /\ conn[fd].w \in Seq(Peers \X Nat)
        /\ conn[fd].status = 2 => want[fd] = "out"
        /\ IsReactor => (want[fd] # "no" <=> fd \in UsedFds)

\* The echo servers send each client its own units back, in order, through every
\* reuse of a descriptor and its buffers (http_with_reactor.c:190).
ReactorEchoes == IsReactor /\ ~its.keeps /\ ~its.frames => \A p \in Peers : Echoes(p)

\* The growing reactors answer with all they ever received of this connection:
\* each answer starts with its first unit again and ends one or more later than
\* the last (reactor4_remove_buffer.c:145).
GrowRepeats == IsReactor /\ its.keeps => \A p \in Peers :
    LET g == peer[p].got IN
    \A i \in DOMAIN g :
        \/ g[i] = <<p, 1>>
        \/ i > 1 /\ g[i] = <<p, g[i - 1][2] + 1>>

\* The first thing a WebSocket client hears is the handshake, unless its
\* descriptor had an owner before, whose status it inherits (reactor.c:67).
HandshakeFirst == IsReactor /\ its.frames => \A p \in Peers :
    (peer[p].got # <<>> /\ peer[p].got[1] # <<p, 0>>) => \E q \in Peers : peer[q].st = "shut"

\* Frames are answered at most once and in order; those that arrive together
\* with an earlier one are not answered (websocket.c:265).
FramesInOrder == IsReactor /\ its.frames => \A p \in Peers :
    \A i, j \in DOMAIN peer[p].got : i < j => peer[p].got[i][2] < peer[p].got[j][2]

\* What kills a reactor: an error it goes on to answer, or (all of them) a client
\* that had sent twice and was answered twice after it left: SIGPIPE (reactor.c:197).
WhatKills == (IsReactor /\ down # "up") => \E p \in Open :
    \/ peer[p].end = "told" /\ its.error # "close"
    \/ peer[p].end \in {"told", "finrst"} /\ peer[p].sent >= 2 /\ down = "killed"

\* The server hangs up on the client's word, and otherwise only when the growing
\* buffer is full: recv of 0 bytes is taken for the end (reactor4_remove_buffer.c:131).
HangsUpOnFull == IsReactor => \A p \in Peers :
    peer[p].st = "shut" /\ peer[p].end = "no" => its.keeps /\ peer[p].sent >= setup.buf

\* The reactors: buffers and status follow a connection through every reuse of its
\* descriptor, except where the code forgets to reset them, and what ends a server
\* or a connection is what is said here (reactor.c:67, 197; websocket.c:265).
WebReactorSound ==
    /\ ReactorTypeOK /\ ReactorEchoes /\ GrowRepeats /\ HandshakeFirst
    /\ FramesInOrder /\ WhatKills /\ HangsUpOnFull

\* Level triggered: whatever arrives is read, every connection is accepted, for
\* as long as the process lives.
ReactorServed(p) ==
    down # "up" \/ peer[p].st = "shut" \/ (peer[p].st = "open" /\ ~Readable(p))
=============================================================================
