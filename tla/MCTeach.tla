------------------------------ MODULE MCTeach ------------------------------
(***************************************************************************)
(* The teaching servers, one program at a time, each with the clients that *)
(* bring out what it is listed for; and the clients of the repository, the *)
(* web benchmark and those that look up names and get a page.              *)
(***************************************************************************)
EXTENDS TeachLoops, TeachReactors, TeachUring, TeachThreads, TeachHook, TeachHttpEpoll, MulPort,
        NtyBench, WebClients

CONSTANTS a, b, c, q1, q2

P(n, k, u, q, z) == [prog |-> n, cast |-> k, units |-> u, quits |-> q, buf |-> z]
\* With a limit on the descriptors of a process.
L(n, k, u, q, z, l) ==
    [prog |-> n, cast |-> k, units |-> u, quits |-> q, buf |-> z, limit |-> l]
\* With the clients that do more than connect, and so many clients before main works itself.
M(n, k, u, q, z, t, m) ==
    [prog |-> n, cast |-> k, units |-> u, quits |-> q, buf |-> z, talk |-> t, many |-> m]
MCPrograms ==
    { P("select", {a, b, c}, 0, {"fin"}, 1), P("select", {a, b}, 1, {"fin"}, 1),
      P("poll", {a, b}, 1, {"fin"}, 1), P("level", {a, b}, 1, {"fin"}, 1),
      P("netio", {a}, 3, {"fin", "rst"}, 2), P("et", {a}, 3, {"fin", "rst"}, 2),
      P("io5", {a}, 3, {"fin"}, 2), P("first", {a, b}, 1, {"fin", "rst"}, 1),
      P("sink", {a}, 2, {"fin", "rst"}, 1) }
    \cup
    { P("reactor1", {a}, 2, {"fin", "rst"}, 2), P("reactor2", {a}, 1, {"fin", "rst"}, 1),
      P("reactor3", {a}, 1, {"fin", "rst"}, 1), P("reactor4", {a}, 3, {"fin", "rst"}, 3), P("echo", {a, b}, 1, {"fin"}, 1),
      P("ports", {a}, 2, {"fin", "rst"}, 1), P("uecho", {a}, 2, {"fin", "rst"}, 1),
      P("ws", {a, b}, 2, {"fin"}, 2), P("ws", {a}, 3, {"fin", "rst"}, 3) }
    \cup
    { P("uring", {a, b}, 1, {"fin"}, 1), P("uring", {a}, 3, {"fin", "rst"}, 2) }
    \cup
    { P("heap", {a, b}, 1, {"fin", "rst"}, 1), P("heap", {a}, 3, {"fin", "rst"}, 2),
      P("shared", {a, b, c}, 0, {"fin"}, 1), P("shared", {a, b}, 1, {"fin"}, 1) }
    \cup
    { L("hook", {a}, 3, {"fin", "rst"}, 2, 2), L("hook", {a, b}, 1, {"fin"}, 1, 1),
      L("hook", {a, b}, 1, {"fin"}, 1, 3),
      L("httpepoll", {a}, 2, {"fin", "rst"}, 1, 1), L("httpepoll", {a, b}, 1, {"fin"}, 1, 2),
      L("httpepoll", {a, b}, 1, {"fin", "rst"}, 1, 1) }
    \cup
    { M("mulport", {a}, 2, {"fin", "rst"}, 3, {a}, 1), M("mulport", {a, b}, 1, {"fin"}, 2, {a}, 2),
      M("mulport", {a, b}, 0, {"fin"}, 2, {b}, 1) }
    \cup
    { P("bench", {}, 0, {}, 1), P("clients", {}, 0, {}, 1) }

\* Children, coroutines and turns, descriptors, and forks that are granted.
Bench(n, k, t, l, f) == [kids |-> n, cos |-> k, turns |-> t, limit |-> l, forks |-> f]
NoBench == Bench(1, {a}, 0, 0, 0)
MCPlans == { NoBench, Bench(2, {a}, 1, 1, 2), Bench(2, {a}, 1, 1, 1),
             Bench(1, {a}, 3, 2, 1), Bench(1, {a, b}, 1, 2, 1) }
Trip(n, l) == [client |-> n, limit |-> l]
MCTrips == { Trip("async", 2), Trip("async", 3), Trip("lookup", 1), Trip("lookup", 0), Trip("get", 1) }
MCDnsAnswers == { <<"address", "address">>, <<"alias", "address">>, <<"address", "odd", "address">> }

ownLoop == <<watch, maxfd, batch, first, edge, items, listening>>
ownReactor == <<want, ready, conn>>
ownUring == <<sq, running, cq, cqes, buffer>>
ownThreads == <<clientfd, thread>>
ownHook == <<readyq, waits, current, pc, armed, data, room, cut>>
ownHttp == <<core, accept_mtx, server, arm>>
ownSmall == <<ownLoop, ownReactor, ownUring, ownThreads>>
ownClients == <<benchVars, clientVars>>
serverVars == <<sockVars, ownSmall, ownHook, ownHttp, ownMul>>
teachVars == <<serverVars, ownClients>>

IsBench == prog = "bench"
IsClients == prog = "clients"

Init ==
    /\ LoopInit /\ ReactorInit /\ UringInit /\ ThreadsInit /\ HookInit /\ HttpEpollInit /\ MulPortInit
    /\ BenchInit /\ (~IsBench => plan = NoBench)
    /\ ClientsInit /\ (~IsClients => trip = Trip("get", 1))

\* One program is there; the others' variables stay as they are.
LoopPart == IsLoop /\ LoopNext /\ UNCHANGED <<ownReactor, ownUring, ownThreads, ownHook, ownHttp, ownMul>>
ReactorPart == IsReactor /\ ReactorNext /\ UNCHANGED <<ownLoop, ownUring, ownThreads, ownHook, ownHttp, ownMul>>
UringPart == prog = "uring" /\ UringNext /\ UNCHANGED <<ownLoop, ownReactor, ownThreads, ownHook, ownHttp, ownMul>>
ThreadsPart ==
    IsThreads /\ ThreadsNext /\ UNCHANGED <<ownLoop, ownReactor, ownUring, ownHook, ownHttp, ownMul>>
HookPart == IsHook /\ HookNext /\ UNCHANGED <<ownSmall, ownHttp, ownMul>>
HttpEpollPart == IsHttpEpoll /\ HttpEpollNext /\ UNCHANGED <<ownSmall, ownHook, ownMul>>
MulPart == IsMul /\ MulPortNext /\ UNCHANGED <<ownSmall, ownHook, ownHttp>>

ServerPart ==
    /\ LoopPart \/ ReactorPart \/ UringPart \/ ThreadsPart \/ HookPart \/ HttpEpollPart \/ MulPart
    /\ UNCHANGED ownClients
BenchPart == IsBench /\ BenchNext /\ UNCHANGED <<serverVars, clientVars>>
ClientsPart == IsClients /\ ClientsNext /\ UNCHANGED <<serverVars, benchVars>>

Next == ServerPart \/ BenchPart \/ ClientsPart

\* A process that can run does, and so do the kernel and each thread; clients owe
\* nothing.
Main ==
    \/ IsLoop /\ LoopServer /\ UNCHANGED <<ownReactor, ownUring, ownThreads, ownHook, ownHttp, ownMul>>
    \/ IsReactor /\ ReactorServer /\ UNCHANGED <<ownLoop, ownUring, ownThreads, ownHook, ownHttp, ownMul>>
    \/ prog = "uring" /\ UringServer /\ UNCHANGED <<ownLoop, ownReactor, ownThreads, ownHook, ownHttp, ownMul>>
    \/ IsThreads /\ AcceptAndSpawn /\ UNCHANGED <<ownLoop, ownReactor, ownUring, ownHook, ownHttp, ownMul>>
    \/ IsMul /\ MulMain /\ UNCHANGED <<ownSmall, ownHook, ownHttp>>
    \/ IsHook /\ HookServer /\ UNCHANGED <<ownSmall, ownHttp, ownMul>>
OwnCore(q) == IsHttpEpoll /\ CoreStep(q) /\ UNCHANGED <<ownSmall, ownHook, ownMul>>
OwnWorker(w) == IsMul /\ MulWorker(w) /\ UNCHANGED <<ownSmall, ownHook, ownHttp>>
OwnThread(t) ==
    IsThreads /\ ThreadStep(t) /\ UNCHANGED <<ownLoop, ownReactor, ownUring, ownHook, ownHttp, ownMul>>
KernelPart == prog = "uring" /\ Kernel /\ UNCHANGED <<ownLoop, ownReactor, ownThreads, ownHook, ownHttp, ownMul>>

OwnAsker == IsClients /\ ClientProcess /\ UNCHANGED <<serverVars, benchVars>>

\* Main or the client that was started; one of them is there.
Started == (Main /\ UNCHANGED ownClients) \/ OwnAsker

ServerFairness ==
    /\ WF_teachVars(Started)
    /\ WF_teachVars(KernelPart /\ UNCHANGED ownClients)
    /\ \A t \in Peers : WF_teachVars(OwnThread(t) /\ UNCHANGED ownClients)
    /\ \A q \in CoreSet : WF_teachVars((OwnCore(q) \/ OwnWorker(q)) /\ UNCHANGED ownClients)

\* A name that is looked up asks as well; a, b and c stand for the names 1, 2 and 3.
Name(p) == CASE p = a -> 1 [] p = b -> 2 [] OTHER -> 3
Asks(p) ==
    \/ peer[p].st \in {"queued", "open"} /\ Readable(p)
    \/ IsClients /\ ClientOwes(Name(p))
Served(p) ==
    CASE IsLoop    -> LoopServed(p)
      [] IsReactor -> ReactorServed(p)
      [] prog = "uring"    -> UringServed(p)
      [] prog = "heap"     -> ThreadServed(p)
      [] IsHook            -> HookServed(p)
      [] IsHttpEpoll       -> HttpEpollServed(p)
      [] IsMul             -> MulServed(p)
      [] IsClients         -> ClientPays(Name(p))
      [] OTHER             -> TRUE

\* Whoever has something to be read, or waits to be accepted, is served in the sense
\* of its program, and who asked for a name or a page gets an answer or gives up; the
\* threads that share clientfd promise nothing.
EveryoneServed == \A p \in Peers : Asks(p) ~> Served(p)

\* The numbers of the benchmark add up, and the clients get the answers they asked
\* for, or end for a reason that is named (nty_bench.c:426-674, async_dns_client_noblock.c:198-480, dns.c:74-298,
\* httprequest.c:71-129).
AskersSound == (IsBench => BenchSound) /\ (IsClients => ClientsSound)

Spec == Init /\ [][Next]_teachVars /\ ServerFairness
=============================================================================
