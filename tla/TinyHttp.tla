------------------------------ MODULE TinyHttp ------------------------------
(***************************************************************************)
(* The small web servers on NtyCo: nty_http_server.c, one process, and     *)
(* nty_http_server_mulcore.c, a process per core that each bind the port.  *)
(*                                                                         *)
(* A coroutine serves one connection: it reads once, looks at the method   *)
(* and the path, answers and closes.  A request is what the client asks    *)
(* for: a page, a path that is missing, a directory without index.html, a  *)
(* method that is not implemented; "none" is a client that says nothing.   *)
(* What recv left of the buffer when it returned nothing is what an        *)
(* earlier coroutine had on its stack there, so such a connection is       *)
(* taken for any request.  The branch that runs scripts is cut off by      *)
(* cgi = 0.  An answer fits in the send buffer of the kernel, so no send    *)
(* waits with a file open.                                                 *)
(***************************************************************************)
EXTENDS Integers, Sequences, FiniteSets

CONSTANTS
    Visitors,   \* clients, each connects once
    Cores,      \* processes
    Sites       \* the servers to look at, and how many descriptors they have

VARIABLES
    site,       \* the server, one of Sites, never changes
    worker,     \* worker[p]: where process p is
    queued,     \* connections of the port nobody has accepted
    visit       \* visit[v]: the two ends of the connection of v

httpVars == <<site, worker, queued, visit>>

Asks == {"page", "missing", "dir", "other", "none"}

\* nty_http_server.c reads the file it is asked for, nty_http_server_mulcore.c
\* always sends the page it has built in.  A process has n descriptors beside its
\* own.
Single(n)  == [procs |-> 1, opens |-> TRUE, fds |-> n]
Mulcore(n) == [procs |-> Cardinality(Cores), opens |-> FALSE, fds |-> n]

ASSUME HttpAssumption ==
    /\ IsFiniteSet(Visitors) /\ IsFiniteSet(Cores) /\ Cores # {} /\ "none" \notin Cores
    /\ \A s \in Sites : s.fds \in Nat /\ s \in {Single(s.fds), Mulcore(s.fds)}

FdLimit == site.fds

HttpInit ==
    /\ site \in Sites
    /\ \E on \in SUBSET Cores :
         /\ Cardinality(on) = site.procs
         /\ worker = [p \in Cores |-> IF p \in on THEN "new" ELSE "off"]
    /\ queued = <<>>
    /\ visit = [v \in Visitors |-> [st |-> "off", by |-> "none", asks |-> "none", lines |-> "none",
                                    end |-> "no", heard |-> <<>>]]

HasFd(p)  == {v \in Visitors : visit[v].by = p /\ visit[v].st \in {"open", "lines", "left"}}
Gone(v)   == visit[v].end # "no"
Listening == {p \in Cores : worker[p] = "listening"}

-----------------------------------------------------------------------------
(* Visitors: they connect to the port, ask, send a blank line, go away. *)

Arrive(v) ==
    /\ visit[v].st = "off" /\ Listening # {}
    /\ \E what \in Asks : visit' = [visit EXCEPT ![v].st = "queued", ![v].asks = what]
    /\ queued' = Append(queued, v)
    /\ UNCHANGED <<site, worker>>

\* The lines after the request line come later, the last one is blank.
SendLine(v) ==
    /\ visit[v].st \in {"open", "lines"} /\ ~Gone(v) /\ visit[v].lines = "none"
    /\ visit[v].asks = "missing"
    /\ visit' = [visit EXCEPT ![v].lines = "blank"]
    /\ UNCHANGED <<site, worker, queued>>

GoAway(v) ==
    /\ visit[v].st \in {"queued", "open", "lines", "left"} /\ ~Gone(v)
    /\ \E e \in {"fin", "rst"} : visit' = [visit EXCEPT ![v].end = e]
    /\ UNCHANGED <<site, worker, queued>>

-----------------------------------------------------------------------------
(* The processes *)

\* bind, whose answer mulcore does not look at: with SO_REUSEADDR it fails only
\* when somebody listens on the port already.
Bind(p) ==
    /\ worker[p] = "new"
    /\ worker' = [worker EXCEPT ![p] = IF Listening = {} THEN "bound" ELSE "unbound"]
    /\ UNCHANGED <<site, queued, visit>>

\* listen: without a port it takes a free one that nobody knows; with the port it
\* fails when somebody was faster, and accept will not work.
ListenPort(p) ==
    /\ worker[p] \in {"bound", "unbound"}
    /\ worker' = [worker EXCEPT ![p] =
           CASE worker[p] = "unbound" -> "elsewhere"
             [] worker[p] = "bound" /\ Listening = {} -> "listening"
             [] OTHER -> "deaf"]
    /\ UNCHANGED <<site, queued, visit>>

\* The process ends and with it all its connections, those of the queue too if
\* it was the one that listened.
Ends(p, how) ==
    /\ worker' = [worker EXCEPT ![p] = how]
    /\ visit' = [v \in Visitors |->
           IF v \in HasFd(p) \/ visit[v].st = "queued" THEN [visit[v] EXCEPT !.st = "cut"] ELSE visit[v]]
    /\ queued' = <<>>

\* accept answers -1: error_die.
AcceptFails(p) ==
    /\ \/ worker[p] = "deaf" /\ worker' = [worker EXCEPT ![p] = "ended"] /\ UNCHANGED <<queued, visit>>
       \/ /\ worker[p] = "listening" /\ queued # <<>>
          /\ Cardinality(HasFd(p)) >= FdLimit
          /\ Ends(p, "full")
    /\ UNCHANGED site

AcceptVisitor(p) ==
    /\ worker[p] = "listening" /\ queued # <<>>
    /\ Cardinality(HasFd(p)) < FdLimit
    /\ queued' = Tail(queued)
    /\ visit' = [visit EXCEPT ![Head(queued)].st = "open", ![Head(queued)].by = p]
    /\ UNCHANGED <<site, worker>>

\* A client that reset the connection lets the first send raise SIGPIPE, one that
\* closed it the second, if its answer is fast; mulcore sends 404 and 501 in one.
Respond(v, what, then) ==
    LET p == visit[v].by
        heard == [visit EXCEPT ![v].st = then, ![v].heard = IF Gone(v) THEN @ ELSE Append(@, what)]
    IN  \/ /\ visit[v].end # "rst"
           /\ visit' = heard /\ UNCHANGED <<worker, queued>>
        \/ /\ Gone(v) /\ (visit[v].end = "rst" \/ site.opens \/ what = "200")
           /\ Ends(p, "killed")

\* fopen of serve_file: no index.html in a directory, and no descriptor for any file
\* when the connections have them all.
CannotOpen(v, asks) ==
    site.opens /\ (asks = "dir" \/ Cardinality(HasFd(visit[v].by)) >= FdLimit)

\* serve_file of nty_http_server.c: the file that cannot be opened is closed all
\* the same, after not_found, which a client that is gone may answer with SIGPIPE.
serve_file(v, asks) ==
    IF CannotOpen(v, asks)
    THEN Ends(visit[v].by, "crashed") \/ (Gone(v) /\ Ends(visit[v].by, "killed"))
    ELSE Respond(v, "200", "closed")

\* unimplemented, and accept_request returns without closing.
unimplemented(v) == Respond(v, "501", "left")

\* The method, then the path; for one that is missing the rest of the request is
\* read first, although recv took it with the request line.
Branch(v, asks) ==
    CASE asks = "other"   -> unimplemented(v)
      [] asks = "missing" -> visit' = [visit EXCEPT ![v].st = "lines"] /\ UNCHANGED <<worker, queued>>
      [] OTHER            -> serve_file(v, asks)

\* accept_request, its recv; nothing received is not looked at.
accept_request(v) ==
    /\ visit[v].st = "open"
    /\ \/ visit[v].asks # "none" /\ visit[v].end # "rst" /\ Branch(v, visit[v].asks)
       \/ /\ visit[v].asks = "none" /\ visit[v].end = "fin"
          /\ \E stale \in {"page", "other"} : Branch(v, stale)
       \/ visit[v].end = "rst" /\ \E stale \in Asks \ {"none"} : Branch(v, stale)
    /\ UNCHANGED site

\* Mutant: not_found returns like unimplemented.
get_line_Leaves(v) ==
    /\ visit[v].st = "lines"
    /\ visit[v].lines = "blank" \/ Gone(v)
    /\ Respond(v, "404", "left")
    /\ UNCHANGED site

\* get_line until the blank line or the end, then not_found.
get_line(v) ==
    /\ visit[v].st = "lines"
    /\ visit[v].lines = "blank" \/ Gone(v)
    /\ Respond(v, "404", "closed")
    /\ UNCHANGED site

Process(p) == Bind(p) \/ ListenPort(p) \/ AcceptFails(p) \/ AcceptVisitor(p)
Serves(v)  == accept_request(v) \/ get_line(v)

HttpNext ==
    \/ \E p \in Cores : Process(p)
    \/ \E v \in Visitors : Arrive(v) \/ SendLine(v) \/ GoAway(v) \/ Serves(v)

HttpSpec == HttpInit /\ [][HttpNext]_httpVars

-----------------------------------------------------------------------------
HttpTypeOK ==
    /\ worker \in [Cores -> {"off", "new", "bound", "unbound", "elsewhere", "deaf", "listening",
                             "ended", "full", "killed", "crashed"}]
    /\ \A v \in Visitors :
         /\ visit[v].st \in {"off", "queued", "open", "lines", "left", "closed", "cut"}
         /\ visit[v].by \in Cores \cup {"none"}
         /\ visit[v].heard \in Seq({"200", "404", "501"}) /\ Len(visit[v].heard) <= 1
    /\ \A i \in DOMAIN queued : visit[queued[i]].st = "queued"
    /\ \A p \in Cores : Cardinality(HasFd(p)) <= FdLimit

\* However the processes start, at most one listens on the port, and once all have
\* started and none of those that listened ended, exactly one does: the other cores
\* serve nobody (nty_http_server_mulcore.c:722).
OneListens ==
    /\ Cardinality(Listening) <= 1
    /\ (\A p \in Cores : worker[p] \in {"off", "elsewhere", "deaf", "listening", "ended"})
         => Cardinality(Listening) = 1

\* A client that hears 404 has sent another blank line after its request: what
\* recv had taken already is read for a second time (nty_http_server.c:186).
NotFoundWaits ==
    \A v \in Visitors : visit[v].heard = <<"404">> => visit[v].lines = "blank"

\* A process that listens ends only for a directory without index.html or what a
\* reset connection was taken for, for a client that went away before its answer, or
\* with as many visitors as it has descriptors not answered or left open after 501:
\* then accept fails, and so does fopen for the page of any of them, which the server
\* closes all the same (nty_http_server.c:146, 493, 505, 588).  Who was answered
\* otherwise costs it nothing.
WhatEndsHttp ==
    \A p \in Cores :
        LET mine == {v \in Visitors : visit[v].by = p}
            held == {v \in mine : visit[v].st = "cut" /\ visit[v].heard \in {<<>>, <<"501">>}}
        IN  /\ worker[p] = "crashed" => \/ \E v \in mine : visit[v].asks = "dir" \/ visit[v].end = "rst"
                                        \/ site.opens /\ Cardinality(held) >= FdLimit
            /\ worker[p] = "killed"  => \E v \in mine : Gone(v)
            /\ worker[p] = "full"    => Cardinality(held) >= FdLimit

\* The web servers: at most one process listens, a 404 waits for a second blank line,
\* and only what is named here ends a process (nty_http_server_mulcore.c:722).
HttpSound == HttpTypeOK /\ OneListens /\ NotFoundWaits /\ WhatEndsHttp

\* What is owed to who asks for a page and stays: the page, unless the server ends;
\* neither the clients that say nothing nor those left open keep the others from it.
HttpOwes(v) == visit[v].st = "queued" /\ visit[v].asks \in {"page", "dir"}
HttpGives(v) == visit[v].heard = <<"200">> \/ visit[v].st = "cut" \/ Gone(v)
=============================================================================
