---------------------------- MODULE TeachSocket -----------------------------
(***************************************************************************)
(* What the teaching servers share: the kernel's side of a listening       *)
(* socket and its connections, and the clients.  The kernel is not in the  *)
(* repository; it is modelled as far as the servers can tell.              *)
(*                                                                         *)
(* A client sends units 1, 2, 3, ..., and may then close or reset the      *)
(* connection.  After a reset the first call that meets it gets the error, *)
(* the next recv gets the end and the next send kills the process with     *)
(* SIGPIPE; a send to a client that has closed brings a reset, and the     *)
(* send after it kills the process as well.                                *)
(***************************************************************************)
EXTENDS Naturals, Sequences, FiniteSets, SequencesExt

CONSTANTS
    Peers,     \* the clients
    Programs,  \* [prog, cast, units, quits, buf]: a server program, the clients
               \* it meets, how much each sends, how they end, its buffer
    Listener   \* the listening descriptor

ASSUME TeachAssumption ==
    /\ IsFiniteSet(Peers) /\ Listener \notin Peers /\ Listener \notin Nat
    /\ \A s \in Programs : s.units \in Nat /\ s.buf \in Nat \ {0} /\ s.quits \subseteq {"fin", "rst"}

VARIABLES
    setup,  \* one of Programs
    peer,   \* peer[p]: [st, fd, sent, box, end, got] of client p
    queue,  \* connections not accepted yet
    down    \* what became of the server: "up", "killed" or "crashed"

sockVars == <<setup, peer, queue, down>>

prog == setup.prog
Fds == 1..Cardinality(Peers)
NoBody == [st |-> "off", fd |-> 0, sent |-> 0, box |-> <<>>, end |-> "no", got |-> <<>>]

SockInit ==
    /\ setup \in Programs
    /\ peer = [p \in Peers |-> NoBody]
    /\ queue = <<>> /\ down = "up"

Open == { p \in Peers : peer[p].st = "open" }
UsedFds == { peer[p].fd : p \in Open }
Owner(fd) == CHOOSE p \in Open : peer[p].fd = fd
LowestFree == CHOOSE fd \in Fds \ UsedFds : \A g \in Fds \ UsedFds : fd <= g

Readable(p) == peer[p].box # <<>> \/ peer[p].end # "no"

-----------------------------------------------------------------------------
(* The calls of a server; each returns the new record of the client. *)

Accepted(p) == [peer[p] EXCEPT !.st = "open", !.fd = LowestFree]

\* recv with room for n units: the units, or 0 or -1 as the code sees it.
Taken(p, n) == SubSeq(peer[p].box, 1, IF n < Len(peer[p].box) THEN n ELSE Len(peer[p].box))
Result(p, n) ==
    IF n = 0 THEN 0
    ELSE IF peer[p].box # <<>> THEN Len(Taken(p, n))
    ELSE IF peer[p].end = "rst" THEN -1 ELSE 0
Received(p, n) ==
    [peer[p] EXCEPT !.box = SubSeq(@, Len(Taken(p, n)) + 1, Len(@)),
                    !.end = IF Result(p, n) = -1 THEN "told" ELSE @]

\* send of s to a client whose record is r: the client reads what it is sent.
SendKills(r) == r.end \in {"finrst", "told"}
Answered(r, s) ==
    CASE r.end = "no"  -> [r EXCEPT !.got = @ \o s]
      [] r.end = "fin" -> [r EXCEPT !.end = IF s = <<>> THEN "fin" ELSE "finrst"]
      [] r.end = "rst" -> [r EXCEPT !.end = "told"]
      [] OTHER -> r

Closed(r) == [r EXCEPT !.st = "shut", !.fd = 0]

-----------------------------------------------------------------------------
(* The clients *)

Connect(p) ==
    /\ p \in setup.cast /\ peer[p].st = "off"
    /\ peer' = [peer EXCEPT ![p].st = "queued"]
    /\ queue' = Append(queue, p)
    /\ UNCHANGED <<setup, down>>

SendUnit(p) ==
    /\ peer[p].st \in {"queued", "open"} /\ peer[p].end = "no"
    /\ peer[p].sent < setup.units
    /\ peer' = [peer EXCEPT ![p].sent = @ + 1,
                            ![p].box = Append(@, <<p, peer[p].sent + 1>>)]
    /\ UNCHANGED <<setup, queue, down>>

Quit(p) ==
    /\ peer[p].st \in {"queued", "open"} /\ peer[p].end = "no"
    /\ \E how \in setup.quits : peer' = [peer EXCEPT ![p].end = how]
    /\ UNCHANGED <<setup, queue, down>>

SendOrQuit(p) == SendUnit(p) \/ Quit(p)

-----------------------------------------------------------------------------
\* All that client p was sent back so far is what it sent, in order.
Echoes(p) == \A i \in DOMAIN peer[p].got : peer[p].got[i] = <<p, i>>

SockTypeOK ==
    /\ setup \in Programs /\ down \in {"up", "killed", "crashed"}
    /\ \A p \in Peers :
        /\ peer[p].st \in {"off", "queued", "open", "shut"}
        /\ peer[p].fd \in {0} \cup Fds /\ peer[p].sent \in 0..setup.units
        /\ peer[p].end \in {"no", "fin", "finrst", "rst", "told"}
        /\ peer[p].box \in Seq(Peers \X Nat)
        /\ peer[p].got \in Seq((Peers \cup {Listener}) \X Nat)
    /\ queue \in Seq(Peers)
=============================================================================
