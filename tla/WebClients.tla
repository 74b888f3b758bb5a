----------------------------- MODULE WebClients -----------------------------
(***************************************************************************)
(* Three clients that ask the network and wait.                            *)
(*                                                                         *)
(* "async" is async_dns_client_noblock.c: main sends one query per name,   *)
(* each on a socket of its own that it then hands to epoll, and a thread   *)
(* takes the answers and calls back.  "lookup" is dns.c: one query and a   *)
(* receive that blocks.  "get" is httprequest.c: one page, read with       *)
(* select and five seconds in all.                                         *)
(*                                                                         *)
(* A record of an answer is an address, an alias (CNAME) or odd: of        *)
(* another type, or with a name that is spelled out, has 128 bytes or      *)
(* more, or lies beyond byte 255.  The parsers know the first two only; at *)
(* an odd one they write past aname, call themselves without end, or lose  *)
(* their place, after which what they read is left open.  Building the     *)
(* request, names and addresses are left out, and there is memory for the  *)
(* list of records.                                                        *)
(***************************************************************************)
EXTENDS Integers, Sequences, SequencesExt, FiniteSets

CONSTANTS
    Names,      \* the names asked for are 1..Names
    DnsAnswers, \* what a name server may answer: sequences of records
    Batch,      \* ASYNC_CLIENT_NUM
    Seconds,    \* what select may wait in all
    Trips       \* [client, limit]: the program and its RLIMIT_NOFILE

ASSUME ClientsAssumption ==
    /\ Names \in Nat \ {0} /\ Batch \in Nat \ {0} /\ Seconds \in Nat
    /\ DnsAnswers \subseteq Seq({"address", "alias", "odd"})
    /\ \A t \in Trips : t.client \in {"async", "lookup", "get"} /\ t.limit \in Nat

VARIABLES
    trip,       \* one of Trips, never changes
    main,       \* [pc, next]: the thread of main
    inhand,     \* the events the other thread has still to handle
    query,      \* query[q]: one name's query
    page        \* the page that "get" reads

clientVars == <<trip, main, inhand, query, page>>

NoAnswer == <<"none">>
Unreachable == <<"error">>      \* an ICMP error instead of an answer
NotCalled == -1

Unasked == [st |-> "none", asked |-> "none", answer |-> NoAnswer, count |-> NotCalled]
NoPage == [st |-> "none", queue |-> <<>>, end |-> "open", result |-> <<>>, sent |-> 0, time |-> Seconds]

ClientsInit ==
    /\ trip \in Trips
    /\ main = [pc |-> "commit", next |-> 1]
    /\ inhand = <<>>
    /\ query = [q \in 1..Names |-> Unasked]
    /\ page = NoPage

-----------------------------------------------------------------------------
IsAsync == trip.client = "async"
IsLookup == trip.client = "lookup"
IsGet == trip.client = "get"
Over == main.pc = "over"

\* The process ends, whatever its other thread does.
Exit == main' = [main EXCEPT !.pc = "over"]

\* Descriptors: the sockets that nobody closed.
Held == {q \in 1..Names : query[q].st \in {"sent", "watched", "stray"}}

\* dns_parse_response, if it comes back: the addresses up to the first odd record,
\* and of what comes after it anything at all.
Plain(rs) == \A i \in DOMAIN rs : rs[i] # "odd"
Addresses(rs) == Len(SelectSeq(rs, LAMBDA r : r = "address"))
UpToOdd(rs) == IF Plain(rs) THEN rs ELSE SubSeq(rs, 1, SelectInSeq(rs, LAMBDA r : r = "odd") - 1)
dns_parse_response(rs) ==
    LET sure == Addresses(UpToOdd(rs)) IN
    sure..(sure + Len(rs) - Len(UpToOdd(rs)))

\* It comes back from what it knows, and may crash at an odd record.
MayCrash(rs) == ~Plain(rs)

\* dns_create_question and the request made of it: the byte that ends the name comes
\* with the last label in "async"; in "lookup" it is what malloc left there.
Question == IF IsAsync THEN {"ended"} ELSE {"ended", "stale"}

\* dns_async_client_commit up to sendto, whose answer it ignores; dns.c goes home when
\* it is -1.  Without a descriptor the process ends.
Commit ==
    /\ ~IsGet /\ main.pc = "commit" /\ main.next <= (IF IsAsync THEN Names ELSE 1)
    /\ \/ /\ Cardinality(Held) >= trip.limit /\ Exit /\ UNCHANGED query
       \/ /\ Cardinality(Held) < trip.limit
          /\ \E z \in Question :
               query' = [query EXCEPT ![main.next].st = "sent", ![main.next].asked = z]
          /\ \/ main' = [main EXCEPT !.pc = IF IsAsync THEN "add" ELSE "recv"]
             \/ IsLookup /\ Exit
    /\ UNCHANGED <<trip, inhand, page>>

\* The rest of it: an answer may be there already.  Without memory for ep_arg the
\* socket stays open and unwatched, and main goes on.
Add ==
    /\ main.pc = "add"
    /\ \E to \in {"watched", "stray"} : query' = [query EXCEPT ![main.next].st = to]
    /\ main' = [pc |-> IF main.next = Names THEN "getchar" ELSE "commit", next |-> main.next + 1]
    /\ UNCHANGED <<trip, inhand, page>>

\* main, at getchar: a key ends the process.
Key ==
    /\ main.pc = "getchar" /\ Exit
    /\ UNCHANGED <<trip, inhand, query, page>>

\* dns_async_client_proc, epoll_wait: at most Batch of the descriptors that are
\* ready, in any order.
Ready == {q \in 1..Names : query[q].st = "watched" /\ query[q].answer # NoAnswer}
WaitsForAnswers ==
    /\ IsAsync /\ ~Over /\ inhand = <<>> /\ Ready # {}
    /\ \E s \in SetToSeqs(Ready) : inhand' = SubSeq(s, 1, IF Len(s) < Batch THEN Len(s) ELSE Batch)
    /\ UNCHANGED <<trip, main, query, page>>

\* Its loop: receive, parse, call back, DEL, close and free.  A receive that fails
\* leaves a buffer of zeroes, which parses as no records.
Handle ==
    /\ ~Over /\ inhand # <<>>
    /\ LET q == Head(inhand)
           rs == IF query[q].answer = Unreachable THEN <<>> ELSE query[q].answer
       IN \/ /\ MayCrash(rs) /\ Exit /\ UNCHANGED <<inhand, query>>
          \/ /\ \E n \in dns_parse_response(rs) :
                   query' = [query EXCEPT ![q].st = "closed", ![q].count = n]
             /\ inhand' = Tail(inhand) /\ UNCHANGED main
    /\ UNCHANGED <<trip, page>>

DnsThread == WaitsForAnswers \/ Handle

\* dns.c, dns_client_commit from recvfrom on: no timeout, and an error ends it, as
\* does a crash in the parser.
Lookup ==
    /\ main.pc = "recv" /\ query[1].answer # NoAnswer /\ Exit
    /\ LET rs == query[1].answer IN
       \/ (rs = Unreachable \/ MayCrash(rs)) /\ UNCHANGED query
       \/ /\ rs # Unreachable
          /\ \E n \in dns_parse_response(rs) : query' = [query EXCEPT ![1].count = n]
    /\ UNCHANGED <<trip, inhand, page>>

-----------------------------------------------------------------------------
\* http_send_request up to its loop: a host that is not found is a NULL that
\* inet_addr reads; connect blocks until it is answered, and no connection is a NULL
\* that is returned.
Get ==
    /\ IsGet /\ main.pc = "commit"
    /\ \/ \E e \in {"crashed", "null"} : Exit /\ page' = [page EXCEPT !.st = e]
       \/ main' = [main EXCEPT !.pc = "select"] /\ page' = [page EXCEPT !.st = "asked"]
    /\ UNCHANGED <<trip, inhand, query>>

\* Time goes by while nothing can be read; select leaves in tv what is left of it.
Tick ==
    /\ main.pc = "select" /\ page.queue = <<>> /\ page.end = "open" /\ page.time > 0
    /\ page' = [page EXCEPT !.time = @ - 1]
    /\ UNCHANGED <<trip, main, inhand, query>>

SelectTimesOut ==
    /\ main.pc = "select" /\ page.queue = <<>> /\ page.end = "open" /\ page.time = 0
    /\ Exit /\ page' = [page EXCEPT !.st = "timeout"]
    /\ UNCHANGED <<trip, inhand, query>>

\* strncat: a piece up to its first NUL, and strlen of pieces all of which begin with
\* one is 0.
Nuls == {"none", "first", "later"}
Text(p) == [p EXCEPT !.cut = p.nul # "none"]
NoText(result) == \A i \in DOMAIN result : result[i].nul = "first"

\* The loop, a descriptor that can be read: a piece is appended; 0 ends the loop.  An
\* error is taken for a piece of length -1: realloc takes one byte away, or with no
\* text yet gives the block back and strncat writes through NULL; else nothing is
\* appended and the loop reads on, to find the end.
ReadsPage ==
    /\ main.pc = "select"
    /\ \/ /\ page.queue # <<>> /\ UNCHANGED main
          /\ page' = [page EXCEPT !.result = Append(@, Text(Head(page.queue))), !.queue = Tail(@)]
       \/ /\ page.queue = <<>> /\ page.end = "rst"
          /\ page' = [page EXCEPT !.end = "told", !.st = IF NoText(page.result) THEN "crashed" ELSE @]
          /\ IF NoText(page.result) THEN Exit ELSE UNCHANGED main
       \/ /\ page.queue = <<>> /\ page.end \in {"fin", "told"} /\ Exit
          /\ page' = [page EXCEPT !.st = "returned"]
    /\ UNCHANGED <<trip, inhand, query>>

-----------------------------------------------------------------------------
\* The name server answers, or an error comes back, or nothing does; a question it
\* cannot read it answers without records.
NameServer ==
    /\ ~Over
    /\ \E q \in Held : /\ query[q].answer = NoAnswer
                       /\ \E rs \in (IF query[q].asked = "ended" THEN DnsAnswers ELSE {<<>>}) \cup {Unreachable} :
                             query' = [query EXCEPT ![q].answer = rs]
    /\ UNCHANGED <<trip, main, inhand, page>>

\* The web server sends at most two pieces, with or without a NUL, and ends.
WebServer ==
    /\ main.pc = "select" /\ page.end = "open"
    /\ \/ /\ page.sent < 2
          /\ \E z \in Nuls :
                page' = [page EXCEPT !.sent = @ + 1, !.queue = Append(@, [n |-> page.sent + 1, nul |-> z, cut |-> FALSE])]
       \/ \E e \in {"fin", "rst"} : page' = [page EXCEPT !.end = e]
    /\ UNCHANGED <<trip, main, inhand, query>>

ClientProcess == Commit \/ Add \/ DnsThread \/ Lookup \/ Get \/ Tick \/ SelectTimesOut \/ ReadsPage
ClientsNext == ClientProcess \/ Key \/ NameServer \/ WebServer

ClientsSpec == ClientsInit /\ [][ClientsNext]_clientVars /\ WF_clientVars(ClientProcess)

-----------------------------------------------------------------------------
ClientsTypeOK ==
    /\ main.pc \in {"commit", "add", "getchar", "recv", "select", "over"} /\ main.next \in 1..(Names + 1)
    /\ Len(inhand) <= Batch /\ Range(inhand) \subseteq 1..Names
    /\ \A q \in 1..Names : /\ query[q].st \in {"none", "sent", "watched", "stray", "closed"}
                           /\ query[q].count \in Int
    /\ page.time \in 0..Seconds

\* A name is called back for at most once, with an answer of its own: never while
\* an event for a closed descriptor is still to be handled, or two for one
\* (async_dns_client_noblock.c:349-398).
OneCallEach ==
    /\ IsInjective(inhand)
    /\ \A q \in Range(inhand) : query[q].st = "watched" /\ query[q].answer # NoAnswer /\ query[q].count = NotCalled
    /\ \A q \in 1..Names : query[q].st = "closed" => query[q].count # NotCalled

\* The callback is told of every address, unless a record of another type or with a
\* name spelled out comes before one, or the lookup asked with a byte that was not
\* its own (async_dns_client_noblock.c:225-280, dns.c:74-107).
EveryAddress ==
  /\ \A q \in 1..Names : query[q].asked = "stale" => query[q].count \in {NotCalled, 0}
  /\ \A q \in 1..Names : query[q].count # NotCalled /\ Plain(query[q].answer) =>
       query[q].count = IF query[q].answer = Unreachable THEN 0 ELSE Addresses(query[q].answer)

\* The descriptors held are those of names without an answer, those whose answer is
\* still to be handled, and those without an ep_arg; an answer that never comes holds
\* its own for ever.  Before the last name is sent the process ends only for want of
\* another descriptor or at an odd record of an answer in hand, and after it at such a
\* record or a key (async_dns_client_noblock.c:433-480, 540-567).
WhatHoldsDescriptors ==
    IsAsync =>
        /\ \A q \in 1..Names : query[q].st = "closed" => query[q].answer # NoAnswer
        /\ Over /\ main.next <= Names =>
             \/ Cardinality(Held) = trip.limit
             \/ inhand # <<>> /\ ~Plain(query[Head(inhand)].answer)
        /\ Cardinality(Held) + Cardinality({q \in 1..Names : query[q].st = "closed"})
             = main.next - (IF \E q \in 1..Names : query[q].st = "sent" THEN 0 ELSE 1)

\* What "get" returns is the pieces in their order, each up to its first NUL; a page
\* that a reset cut short looks like a whole one, and so does one that took too long.
\* A reset is fatal only before any text has come (httprequest.c:105-129).
PageInOrder ==
    /\ \A i \in DOMAIN page.result :
         page.result[i].n = i /\ (page.result[i].cut <=> page.result[i].nul # "none")
    /\ page.st = "returned" => page.queue = <<>> /\ Len(page.result) = page.sent
    /\ page.st = "crashed" => \A i \in DOMAIN page.result : page.result[i].nul = "first"
    /\ page.st = "timeout" => page.time = 0 /\ page.end = "open"

\* The five together.
ClientsSound == ClientsTypeOK /\ OneCallEach /\ EveryAddress /\ WhatHoldsDescriptors /\ PageInOrder

\* An answer to a query that is watched, also one that came before epoll knew the
\* socket, leads to the callback, unless the process ends; and "get" returns after
\* its five seconds at the latest (async_dns_client_noblock.c:470, httprequest.c:98).
ClientOwes(q) == (IsAsync /\ q \in Ready) \/ (IsGet /\ main.pc = "select")
ClientPays(q) == (IsAsync /\ query[q].st = "closed") \/ Over
=============================================================================
