------------------------------ MODULE NtyBench ------------------------------
(***************************************************************************)
(* nty_bench.c, the web benchmark on NtyCo, with the client side of the    *)
(* coroutine socket layer (nty_socket.c) it calls.                         *)
(*                                                                         *)
(* The parent forks its children one by one and reads one report of each   *)
(* from a pipe.  A child runs coroutines, each of which asks the server    *)
(* for a page a number of times and counts what it got as succeeded or     *)
(* failed.                                                                 *)
(*                                                                         *)
(* A step is what a coroutine does between two places where it yields or   *)
(* the network may come in.  Which waiting coroutine is resumed first is   *)
(* left open; the scheduler itself is module NtyCo.  The two polls of a    *)
(* call through the hook (one in nty_connect or nty_recv, one in the hook) *)
(* ask for the same level, so they are one.  A request fits the send       *)
(* buffer of a new socket and a page the buffer of httprequest_commit.     *)
(* SIGALRM sets timerexpired, which the coroutine version never reads.     *)
(***************************************************************************)
EXTENDS Integers, Sequences, FiniteSets, FiniteSetsExt

CONSTANTS
    Kids,     \* the children are 1..Kids
    Cos,      \* coroutines of a child
    TurnBound, \* bound on the requests of a coroutine (nreqs / sockets)
    Plans     \* [kids, cos, turns, limit, forks]: what main was told,
              \* RLIMIT_NOFILE, and how many forks the kernel grants

ASSUME BenchAssumption ==
    /\ Kids \in Nat \ {0} /\ TurnBound \in Nat
    /\ \A p \in Plans : /\ p.kids \in 1..Kids /\ p.cos \subseteq Cos
                        /\ p.turns \in 0..TurnBound /\ p.limit \in Nat /\ p.forks \in 0..p.kids

VARIABLES
    plan,     \* one of Plans, never changes
    parent,   \* [st, forked, left, speed, failed, status]
    mypipe,   \* reports not yet read
    kid,      \* kid[k]: a child
    link      \* link[k][c]: the newest connection of coroutine c of child k

benchVars == <<plan, parent, mypipe, kid, link>>

PagePieces == 2     \* a page arrives in at most so many pieces
Pages == {"ok", "other", "raw"}  \* 200 OK, another status, no end of line

Cold == [st |-> "none", page |-> "none", data |-> 0, sent |-> 0, asked |-> FALSE, fin |-> FALSE, rst |-> FALSE]

Task == [pc |-> "new", left |-> plan.turns, got |-> 0]

\* A child before it is forked; lost and cut are history: descriptors nobody will
\* close, and pages that a reset cut short and that count as succeeded.
Unborn == [st |-> "unborn", co |-> [c \in plan.cos |-> Task],
           fds |-> 0, speed |-> 0, failed |-> 0, lost |-> 0, cut |-> 0]

BenchInit ==
    /\ plan \in Plans
    /\ parent = [st |-> "forking", forked |-> 0, left |-> plan.kids, speed |-> 0, failed |-> 0, status |-> 0]
    /\ mypipe = <<>>
    /\ kid = [k \in 1..plan.kids |-> Unborn]
    /\ link = [k \in 1..plan.kids |-> [c \in plan.cos |-> Cold]]

-----------------------------------------------------------------------------
\* main: from the options c, n and s to children, coroutines of each, and turns.
PlanOf(c, n, s) ==
    LET clients == CASE c = 0 -> 1 [] c > 10 -> 10 [] OTHER -> c
        nreqs == Max({n, 1000})
        sockets == (s \div clients) * clients
    IN [clients |-> clients, nreqs |-> nreqs, sockets |-> sockets, each |-> sockets \div clients,
        turns |-> IF sockets = 0 THEN 0 ELSE nreqs \div sockets]

Methods == {"GET", "HEAD", "OPTIONS", "TRACE"}
\* build_request: the version of HTTP (http10) a request is raised to, and its fields.
build_request(method, http10, reload, proxy) ==
    LET least == CASE method = "HEAD" -> 1 [] method \in {"OPTIONS", "TRACE"} -> 2 [] OTHER -> 0
        version == Max({http10, least, IF reload /\ proxy THEN 1 ELSE 0})
    IN [method |-> method, version |-> version,
        fields |-> { f \in {"user-agent", "host", "no-cache", "close", "empty line"} :
                       CASE f = "host" -> ~proxy /\ version > 0
                         [] f = "no-cache" -> reload /\ proxy
                         [] f = "close" -> version > 1
                         [] OTHER -> version > 0 }]

-----------------------------------------------------------------------------
\* nty_socket, of a child with these descriptors.
nty_socket(s) == s.fds < plan.limit

\* Socket: gethostbyname finds no address for n turns in a row; each of them failed,
\* with no descriptor taken.
NotFound(s, c, n) == [s EXCEPT !.failed = @ + n, !.co[c].left = @ - n]

\* httprequest_commit once the host is found, up to connect: nty_socket gives a
\* socket, or nothing; without a yield in between no turn that follows fares better.
Found(s, c) ==
    IF s.co[c].left > 0 /\ nty_socket(s)
    THEN [s EXCEPT !.fds = @ + 1, !.co[c] = [pc |-> "connect", left |-> @.left - 1, got |-> 0]]
    ELSE [s EXCEPT !.failed = @ + s.co[c].left, !.co[c].pc = "done", !.co[c].left = 0]

\* httprequest_commit from the head of its loop to connect: what may become of s.
NextTurn(s, c) == { Found(NotFound(s, c, n), c) : n \in 0..s.co[c].left }

CountFailed(s, c) == NextTurn([s EXCEPT !.failed = @ + 1], c)

ConnectFailed_Uncounted(s, c) == NextTurn([s EXCEPT !.lost = @ + 1], c)
\* Socket returns -1 without closing what it opened.
ConnectFailed(s, c) == CountFailed([s EXCEPT !.lost = @ + 1], c)

Dies(s) == {[s EXCEPT !.st = "dead"]}

\* The end of a turn whose receive did not fail: testok writes through what strchr
\* found, which is NULL when the answer has no end of line.
Judge(s, c, page) ==
    IF s.co[c].got = 0 \/ page = "raw" THEN Dies(s)
    ELSE IF page = "ok" THEN NextTurn([s EXCEPT !.speed = @ + 1], c)
    ELSE CountFailed(s, c)

\* recv_buffer at a recv that returns 0: it closes the socket.
Ended(s, c, page) == Judge([s EXCEPT !.fds = @ - 1], c, page)

\* recv_buffer at a recv that returns -1: it does not, and what came before the
\* error turns it into an answer.
Broken(s, c, page) ==
    LET t == [s EXCEPT !.lost = @ + 1] IN
    IF s.co[c].got = 0 THEN CountFailed(t, c)
    ELSE Judge([t EXCEPT !.cut = @ + 1], c, page)

-----------------------------------------------------------------------------
Runs(k, c) == kid[k].st = "running" /\ c \in plan.cos
At(k, c, at) == Runs(k, c) /\ kid[k].co[c].pc = at
Becomes(k, S) == \E s \in S : kid' = [kid EXCEPT ![k] = s]
Keeps == UNCHANGED <<plan, parent, mypipe>>

\* nty_coroutine_create and the first resume.
Starts(k, c) ==
    /\ At(k, c, "new") /\ Becomes(k, NextTurn(kid[k], c))
    /\ UNCHANGED link /\ Keeps

\* nty_connect and the hook connect, up to EINPROGRESS: a socket that was never
\* connected polls ready at once.
ConnectStarts(k, c) ==
    /\ At(k, c, "connect")
    /\ kid' = [kid EXCEPT ![k].co[c].pc = "connecting"]
    /\ link' = [link EXCEPT ![k][c] = [Cold EXCEPT !.st = "syn"]]
    /\ Keeps

\* The hook connect, its loop: connect once more when the socket polls ready.
ConnectEnds(k, c) ==
    LET l == link[k][c] IN
    /\ At(k, c, "connecting") /\ l.st # "syn"
    /\ IF l.st = "refused" \/ l.rst
       THEN Becomes(k, ConnectFailed(kid[k], c))
       ELSE kid' = [kid EXCEPT ![k].co[c].pc = "send"]
    /\ UNCHANGED link /\ Keeps

\* The hook send: the first send is not polled for; one that failed is tried again,
\* and a second send on a connection that was reset (or the first after a FIN)
\* raises SIGPIPE.
SendOutcome(l, tried) ==
    IF ~l.rst THEN "sent" ELSE IF l.fin \/ tried THEN "sigpipe" ELSE "again"

\* nty_send, which gets all or nothing from it.
Sends(k, c) ==
    LET l == link[k][c] IN
    /\ At(k, c, "send") \/ At(k, c, "again")
    /\ LET out == SendOutcome(l, kid[k].co[c].pc = "again") IN
       /\ link' = [link EXCEPT ![k][c].asked = out = "sent"]
       /\ IF out = "sigpipe" THEN Becomes(k, Dies(kid[k]))
          ELSE kid' = [kid EXCEPT ![k].co[c].pc = IF out = "sent" THEN "recv" ELSE "again"]
    /\ Keeps

\* nty_recv and the hook recv: what they wait for.
RecvReady(l) == l.data > 0 \/ l.fin \/ l.rst

\* recv_buffer, one recv through nty_recv and the hook: first the data, then what
\* ended the connection.
Receives(k, c) ==
    LET l == link[k][c]  s == kid[k] IN
    /\ At(k, c, "recv") /\ RecvReady(l)
    /\ IF l.data > 0
       THEN /\ kid' = [kid EXCEPT ![k].co[c].got = @ + l.data]
            /\ link' = [link EXCEPT ![k][c].data = 0]
       ELSE /\ Becomes(k, IF l.fin THEN Ended(s, c, l.page) ELSE Broken(s, c, l.page))
            /\ UNCHANGED link
    /\ Keeps

\* bench in a child, once nty_schedule_run is back: one line into the pipe.  The
\* child holds the reading end too, so a parent that is gone does not matter.
Reports(k) ==
    /\ kid[k].st = "running" /\ \A c \in plan.cos : kid[k].co[c].pc = "done"
    /\ kid' = [kid EXCEPT ![k].st = "ended"]
    /\ mypipe' = Append(mypipe, [speed |-> kid[k].speed, failed |-> kid[k].failed])
    /\ UNCHANGED <<plan, parent, link>>

KidStep(k) ==
    \/ Reports(k)
    \/ \E c \in plan.cos : Starts(k, c) \/ ConnectStarts(k, c) \/ ConnectEnds(k, c) \/ Sends(k, c) \/ Receives(k, c)

\* bench in the parent: the loop of forks; a fork that fails ends the parent and
\* leaves the children.
Forks ==
    LET n == parent.forked + 1 IN
    /\ parent.st = "forking"
    /\ IF n > plan.forks THEN parent' = [parent EXCEPT !.st = "gone", !.status = 3] /\ UNCHANGED kid
       ELSE /\ kid' = [kid EXCEPT ![n].st = "running"]
            /\ parent' = [parent EXCEPT !.forked = n, !.st = IF n = plan.kids THEN "reading" ELSE @]
    /\ UNCHANGED <<plan, mypipe, link>>

\* The loop of fscanf.  The parent keeps the writing end, so the end of file that
\* tells of children that died never comes.  Its status is the last child's speed.
ReadsReport ==
    /\ parent.st = "reading" /\ mypipe # <<>>
    /\ LET r == Head(mypipe) IN
       parent' = [parent EXCEPT !.speed = @ + r.speed, !.failed = @ + r.failed, !.left = @ - 1,
                                !.status = r.speed, !.st = IF parent.left = 1 THEN "printed" ELSE @]
    /\ mypipe' = Tail(mypipe) /\ UNCHANGED <<plan, kid, link>>

-----------------------------------------------------------------------------
\* The server and the network.
Accepts(k, c) ==
    LET l == link[k][c] IN
    /\ l.st = "syn" /\ \E r \in {"up", "refused"} : link' = [link EXCEPT ![k][c].st = r]
    /\ UNCHANGED kid /\ Keeps

\* A piece of the page.
Serves(k, c) ==
    LET l == link[k][c] IN
    /\ l.st = "up" /\ l.asked /\ ~l.fin /\ ~l.rst /\ l.sent < PagePieces
    /\ \E p \in Pages : /\ l.sent > 0 => p = l.page
                        /\ link' = [link EXCEPT ![k][c] = [l EXCEPT !.page = p, !.data = @ + 1, !.sent = @ + 1]]
    /\ UNCHANGED kid /\ Keeps

Closes(k, c) ==
    LET l == link[k][c] IN
    /\ l.st = "up" /\ ~l.rst
    /\ \/ ~l.fin /\ link' = [link EXCEPT ![k][c].fin = TRUE]
       \/ link' = [link EXCEPT ![k][c].rst = TRUE]
    /\ UNCHANGED kid /\ Keeps

\* Connections nobody holds any more are left alone.
Network ==
    \E k \in 1..plan.kids : \E c \in plan.cos :
        /\ kid[k].st = "running" /\ kid[k].co[c].pc \in {"connecting", "send", "again", "recv"}
        /\ Accepts(k, c) \/ Serves(k, c) \/ Closes(k, c)

BenchNext == Forks \/ ReadsReport \/ (\E k \in 1..plan.kids : KidStep(k)) \/ Network

-----------------------------------------------------------------------------
BenchTypeOK ==
    /\ plan \in Plans /\ Cardinality({k \in DOMAIN kid : kid[k].st # "unborn"}) = parent.forked
    /\ parent.st \in {"forking", "reading", "printed", "gone"}
    /\ \A k \in DOMAIN kid :
         /\ kid[k].st \in {"unborn", "running", "ended", "dead"} /\ kid[k].fds \in 0..plan.limit
         /\ \A c \in plan.cos :
              /\ kid[k].co[c].pc \in {"new", "connect", "connecting", "send", "again", "recv", "done"}
              /\ kid[k].co[c].left \in 0..TurnBound /\ kid[k].co[c].got \in 0..PagePieces

InTurn(k, c) == kid[k].co[c].pc \notin {"new", "done"}
Busy(k) == Cardinality({c \in plan.cos : InTurn(k, c)})
TurnsLeft(k) == MapThenSumSet(LAMBDA c : kid[k].co[c].left, plan.cos)

\* Every turn that is over is counted once, as succeeded or as failed, whatever
\* became of its connection; also while the child still runs (nty_bench.c:598-642).
TurnsAreCounted ==
    \A k \in DOMAIN kid : kid[k].st # "dead" =>
        kid[k].speed + kid[k].failed + TurnsLeft(k) + Busy(k) = plan.turns * Cardinality(plan.cos)

\* A child holds a descriptor for each turn under way and one for each turn that
\* lost its own: a failed turn, or a page a reset cut short that counts as a success
\* (nty_bench.c:115-118, 572-595).
LostDescriptors ==
    \A k \in DOMAIN kid : kid[k].st # "dead" =>
        /\ kid[k].fds = Busy(k) + kid[k].lost
        /\ kid[k].lost <= kid[k].failed + kid[k].cut

\* What ends a child before its report: an answer that is empty, or has no end of
\* line, or a connection reset before the request was out (nty_bench.c:538-550,
\* nty_socket.c:500-532).
WhatKillsAChild ==
    \A k \in DOMAIN kid : kid[k].st = "dead" =>
        \E c \in plan.cos :
            LET t == kid[k].co[c]  l == link[k][c] IN
            \/ t.pc = "recv" /\ (l.fin \/ l.rst) /\ (t.got = 0 \/ l.page = "raw")
            \/ t.pc \in {"send", "again"} /\ l.rst

\* The parent's sums and the reports still in the pipe are the children's counts, and
\* the totals are printed only when no child died (nty_bench.c:483-529).
ParentAddsUp ==
    LET over == {k \in DOMAIN kid : kid[k].st = "ended"}
        Waiting(f(_)) == MapThenSumSet(LAMBDA i : f(mypipe[i]), DOMAIN mypipe)
    IN /\ parent.speed + Waiting(LAMBDA r : r.speed) = MapThenSumSet(LAMBDA k : kid[k].speed, over)
       /\ parent.failed + Waiting(LAMBDA r : r.failed) = MapThenSumSet(LAMBDA k : kid[k].failed, over)
       /\ parent.st = "printed" => over = 1..plan.kids /\ mypipe = <<>>

\* What main makes of its options: at most the requests asked for, and less by fewer
\* than there are sockets; and no request leaves it to the server whether to close,
\* as recv_buffer reads to the end (nty_bench.c:222-423).  Asked before the first fork.
OptionsKept ==
    parent.forked = 0 =>
        /\ \A c \in 0..12, n \in {0, 1000, 1001, 1999}, s \in 0..25 :
             LET p == PlanOf(c, n, s)  made == p.clients * p.each * p.turns IN
             made <= p.nreqs /\ (p.sockets > 0 => made > p.nreqs - p.sockets)
        /\ \A m \in Methods, v \in 0..2, reload \in BOOLEAN, proxy \in BOOLEAN :
             LET r == build_request(m, v, reload, proxy) IN
             /\ r.version < 2 \/ "close" \in r.fields
             /\ r.fields # {} => r.version > 0 /\ "empty line" \in r.fields

\* The five together: the benchmark's numbers are the turns its children took.
BenchSound == OptionsKept /\ BenchTypeOK /\ TurnsAreCounted /\ LostDescriptors /\ WhatKillsAChild /\ ParentAddsUp

BenchSpec == BenchInit /\ [][BenchNext]_benchVars
=============================================================================
