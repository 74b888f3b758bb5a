----------------------------- MODULE TeachLoops -----------------------------
(***************************************************************************)
(* The teaching servers that are one loop around select, poll or epoll.    *)
(* They have one shape and differ in how they wait, in what they send back *)
(* and in what they do with an error; Loop lists what each does.           *)
(***************************************************************************)
EXTENDS TeachSocket

VARIABLES
    watch,      \* descriptors the server asked for
    maxfd,      \* maxfd of select and poll
    batch,      \* what the last wait reported and is not handled yet
    first,      \* events[0] of that wait
    edge,       \* descriptors with news epoll has not reported yet
    items,      \* connlist[fd].buffer up to idx, of "io5"
    listening   \* the listener is open

loopVars == <<sockVars, watch, maxfd, batch, first, edge, items, listening>>

-----------------------------------------------------------------------------
(* The programs:                                                           *)
(*   edged    epoll reports an arrival once                                *)
(*   ranged   only descriptors up to maxfd are looked at                   *)
(*   leaves   the rest of a batch is left after a hang-up                  *)
(*   strict   it hangs up on an error; the others send its -1 bytes        *)
(*   answer   what is sent back: what came, the start of the connection's  *)
(*            buffer (which is never emptied), or nothing                  *)
(*   first    whether an event is the listener's is asked of events[0]     *)

SelectLoop == [edged |-> FALSE, ranged |-> TRUE, leaves |-> TRUE, strict |-> FALSE,
               answer |-> "came", first |-> FALSE]
PollLoop == [SelectLoop EXCEPT !.leaves = FALSE]
LevelLoop == [PollLoop EXCEPT !.ranged = FALSE]
NetworkIo == LevelLoop
EdgeLoop == [LevelLoop EXCEPT !.edged = TRUE]
BufferLoop == [EdgeLoop EXCEPT !.answer = "start"]
FirstLoop == [LevelLoop EXCEPT !.leaves = TRUE, !.strict = TRUE, !.first = TRUE]
SinkLoop == [EdgeLoop EXCEPT !.strict = TRUE, !.answer = "none"]

Loops == {"select", "poll", "level", "netio", "et", "io5", "first", "sink"}
Loop == [select |-> SelectLoop, poll |-> PollLoop, level |-> LevelLoop, netio |-> NetworkIo,
         et |-> EdgeLoop, io5 |-> BufferLoop, first |-> FirstLoop, sink |-> SinkLoop]
IsLoop == prog \in Loops
how == Loop[prog]

LoopInit ==
    /\ SockInit
    /\ watch = {} /\ maxfd = 0 /\ batch = {} /\ first = Listener /\ edge = {}
    /\ items = [fd \in Fds |-> <<>>] /\ listening = TRUE

LoopClient_NotOpen(p) ==
    /\ \/ Connect(p) /\ UNCHANGED edge
       \/ /\ SendOrQuit(p)
          /\ edge' = edge \cup {peer[p].fd}
    /\ UNCHANGED <<watch, maxfd, batch, first, items, listening>>

\* A client's step, and the edge it makes.
LoopClient(p) ==
    /\ \/ Connect(p) /\ UNCHANGED edge
       \/ /\ SendOrQuit(p)
          /\ edge' = IF p \in Open THEN edge \cup {peer[p].fd} ELSE edge
    /\ UNCHANGED <<watch, maxfd, batch, first, items, listening>>

Reported ==
    (IF listening /\ queue # <<>> THEN {Listener} ELSE {})
    \cup { fd \in watch : /\ Readable(Owner(fd))
                          /\ how.edged => fd \in edge
                          /\ how.ranged => fd <= maxfd }

\* select, poll or epoll_wait returns.
Wait ==
    /\ down = "up" /\ batch = {} /\ Reported # {}
    /\ batch' = Reported
    /\ first' \in Reported
    /\ edge' = edge \ Reported
    /\ UNCHANGED <<sockVars, watch, maxfd, items, listening>>

AcceptOne_NoMax(rest) ==
    /\ queue # <<>>
    /\ LET p == Head(queue) fd == LowestFree IN
       /\ peer' = [peer EXCEPT ![p] = Accepted(p)]
       /\ watch' = watch \cup {fd}
       /\ maxfd' = maxfd
       /\ edge' = IF Readable(p) THEN edge \cup {fd} ELSE edge \ {fd}
       /\ items' = [items EXCEPT ![fd] = <<>>]
       /\ batch' = { x \in rest : how.ranged => x <= fd }
    /\ queue' = Tail(queue)
    /\ UNCHANGED <<setup, down, first, listening>>

AcceptOne_NoEdge(rest) ==
    /\ queue # <<>>
    /\ LET p == Head(queue) fd == LowestFree IN
       /\ peer' = [peer EXCEPT ![p] = Accepted(p)]
       /\ watch' = watch \cup {fd}
       /\ maxfd' = IF how.ranged THEN fd ELSE maxfd
       /\ edge' = edge \ {fd}
       /\ items' = [items EXCEPT ![fd] = <<>>]
       /\ batch' = { x \in rest : how.ranged => x <= fd }
    /\ queue' = Tail(queue)
    /\ UNCHANGED <<setup, down, first, listening>>

\* accept of the oldest connection; with none it blocks, and the loop with it.
\* Select and poll set maxfd to the new descriptor, be it smaller or not.
AcceptOne(rest) ==
    /\ queue # <<>>
    /\ LET p == Head(queue) fd == LowestFree IN
       /\ peer' = [peer EXCEPT ![p] = Accepted(p)]
       /\ watch' = watch \cup {fd}
       /\ maxfd' = IF how.ranged THEN fd ELSE maxfd
       /\ edge' = IF Readable(p) THEN edge \cup {fd} ELSE edge \ {fd}
       /\ items' = [items EXCEPT ![fd] = <<>>]
       /\ batch' = { x \in rest : how.ranged => x <= fd }
    /\ queue' = Tail(queue)
    /\ UNCHANGED <<setup, down, first, listening>>

Accept ==
    /\ down = "up" /\ Listener \in batch
    /\ how.first => first = Listener
    /\ AcceptOne(batch \ {Listener})

\* tcp_server.c: the first event is the listener, so this one, a client's, is
\* taken for it as well.
AcceptForClient ==
    /\ down = "up" /\ how.first /\ first = Listener
    /\ \E x \in batch \ {Listener} : AcceptOne(batch \ {x})

\* tcp_server.c: the first event is a client, so the listener is read from and,
\* as that fails, closed; break leaves the rest of the batch.
CloseListener ==
    /\ down = "up" /\ how.first /\ first # Listener /\ Listener \in batch
    /\ listening' = FALSE /\ batch' = {}
    /\ UNCHANGED <<sockVars, watch, maxfd, first, edge, items>>

\* The descriptor whose turn it is: select and poll go upwards, after accept.
Turn(x) ==
    /\ x \in batch \ {Listener}
    /\ how.ranged => Listener \notin batch /\ \A y \in batch : x <= y
    /\ how.first => first # Listener

Room_Short(fd) == IF how.answer = "start" THEN setup.buf - Len(items[fd]) ELSE setup.buf - 1

Room(fd) == IF how.answer = "start" THEN setup.buf - Len(items[fd]) ELSE setup.buf

Reply_All(fd, p) ==
    LET got == Taken(p, Room(fd)) IN
    CASE how.answer = "none"  -> <<>>
      [] how.answer = "start" -> SubSeq(items[fd] \o got, 1, Len(got))
      [] OTHER                -> peer[p].box

\* recv has given n > 0 units: what is sent back.
Reply(fd, p) ==
    LET got == Taken(p, Room(fd)) IN
    CASE how.answer = "none"  -> <<>>
      [] how.answer = "start" -> SubSeq(items[fd] \o got, 1, Len(got))
      [] OTHER                -> got

Leaves == IF how.leaves THEN {} ELSE batch

\* The client has gone, or (io5) the buffer is full, and the server hangs up.
\* tcp_server.c, of one connection or a million, hangs up on an error too.
Hangup(fd) ==
    LET p == Owner(fd) IN
    /\ down = "up" /\ Turn(fd)
    /\ \/ Result(p, Room(fd)) = 0
       \/ Result(p, Room(fd)) = -1 /\ how.strict
    /\ peer' = [peer EXCEPT ![p] = Closed(Received(p, Room(fd)))]
    /\ watch' = watch \ {fd} /\ edge' = edge \ {fd}
    /\ batch' = Leaves \ {fd}
    /\ UNCHANGED <<setup, queue, down, maxfd, first, items, listening>>

\* The others send what they read, an error included: send of -1 bytes.
Serve(fd) ==
    LET p == Owner(fd)
        n == Result(p, Room(fd))
        r == Received(p, Room(fd))
    IN
    /\ down = "up" /\ Turn(fd)
    /\ n > 0 \/ (n = -1 /\ ~how.strict)
    /\ IF how.answer # "none" /\ SendKills(r)
       THEN down' = "killed" /\ peer' = [peer EXCEPT ![p] = r]
       ELSE /\ UNCHANGED down
            /\ peer' = [peer EXCEPT ![p] = IF how.answer = "none" THEN r ELSE Answered(r, Reply(fd, p))]
    /\ items' = IF how.answer = "start"
                THEN [items EXCEPT ![fd] = @ \o Taken(p, Room(fd))] ELSE items
    /\ batch' = batch \ {fd}
    /\ UNCHANGED <<setup, queue, watch, maxfd, first, edge, listening>>

LoopServer == Wait \/ Accept \/ AcceptForClient \/ CloseListener
              \/ \E fd \in Fds : Hangup(fd) \/ Serve(fd)

LoopNext == (\E p \in Peers : LoopClient(p)) \/ LoopServer

-----------------------------------------------------------------------------
LoopTypeOK ==
    /\ SockTypeOK
    /\ watch \subseteq Fds /\ maxfd \in {0} \cup Fds /\ batch \subseteq Fds \cup {Listener}
    /\ first \in Fds \cup {Listener} /\ edge \subseteq Fds
    /\ items \in [Fds -> Seq(Peers \X Nat)] /\ listening \in BOOLEAN

\* The loops that echo send each client its own units back, in order, however
\* descriptors are closed and used again.  Io5 does not: it sends from the start
\* of the buffer (multi_io5_epoll_reactor.c:129).
LoopEchoes ==
    IsLoop /\ how.answer = "came" => \A p \in Peers : Echoes(p)

\* Select and poll stop looking at a client only after another one has left
\* and its descriptor was given out again (multi_io2_select.c:144).
LookedAt == IsLoop => \A p \in Open :
    how.ranged /\ peer[p].fd > maxfd => \E q \in Peers : peer[q].st = "shut"

\* Edge triggered, a client is left with something unread, and nothing to say so,
\* only if there was more than one recv takes: more than a buffer, or units and
\* then the end (multi_io4_epoll.c:245).
Stalled(p) == how.edged /\ down = "up" /\ Readable(p) /\ peer[p].fd \notin edge \cup batch
StallsOnMore == IsLoop => \A p \in Open : Stalled(p) =>
    peer[p].sent > (IF peer[p].end = "no" THEN setup.buf ELSE 0)

\* A connection is closed on the client's word only; io5 also when the buffer,
\* which is never emptied, is full: recv of 0 bytes is taken for the end (115).
ClosedOnRequest == IsLoop => \A p \in Peers :
    peer[p].st = "shut" /\ peer[p].end = "no" => how.answer = "start" /\ peer[p].sent >= setup.buf

\* The loops on select, poll and epoll: echoes are the client's own and in order, and
\* a client is overlooked, left with something unread or hung up on only for the
\* reason its program has (multi_io2_select.c:144, multi_io4_epoll.c:245).
LoopSound == LoopTypeOK /\ LoopEchoes /\ LookedAt /\ StallsOnMore /\ ClosedOnRequest

\* Every client is read and every connection accepted, unless the process died,
\* or for the reason each program has: select and poll no longer look, an edge
\* is not repeated, tcp_server.c sits in accept or has closed its listener.
Stuck == how.first /\ first = Listener /\ batch # {} /\ queue = <<>>
NotLooking(p) ==
    \/ how.ranged /\ peer[p].fd > maxfd
    \/ Stalled(p)
    \/ Stuck
LoopServed(p) ==
    \/ down # "up" \/ ~listening \/ peer[p].st = "shut"
    \/ peer[p].st = "open" /\ (~Readable(p) \/ NotLooking(p))
=============================================================================
