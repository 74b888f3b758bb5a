----------------------------- MODULE KvsReactor -----------------------------
(***************************************************************************)
(* The epoll network layer of zzx_kvstore (kv_reactor.c), the one kvstore.h *)
(* selects, between its clients and kvs_protocol: one thread, one entry of *)
(* conn_list per descriptor, interest in EPOLLIN or EPOLLOUT and never in   *)
(* both.  epoll is level triggered.                                        *)
(*                                                                         *)
(* Sockets carry whole requests; a recv takes all that has arrived.  The   *)
(* buffers of the kernel always have room for an answer.                   *)
(***************************************************************************)
EXTENDS KvsProtocol, FiniteSets

CONSTANT MaxPending   \* requests a client sends before it waits for an answer

\* There are descriptors and requests, and what stands for nothing is no client and
\* no answer.
ASSUME ReactorAssumption ==
  /\ MaxFd \in Nat \ {0} /\ MaxPending \in Nat \ {0}
  /\ NONE \notin Clients /\ Requests # {}
  /\ Absent \notin Texts
  /\ \A r \in Requests : RequestTyped(r)

\* What KvsIoUring has as well begins with r here.
VARIABLES
  fdlimit,   \* descriptors the process may have open for clients; never changes
  rdict,      \* the engines behind kvs_handler
  rconn,      \* conn_list: fd -> [owner, interest, wlength, wbuffer]
  batch,     \* events of the current epoll_wait that are still to be handled
  rbacklog,   \* queue of the listening socket
  rsock,      \* client -> "none", "open", "closed" (FIN or RST)
  rinbox,     \* client -> requests on their way to the server
  routbox,    \* client -> answers on their way to the client
  rasked,     \* client -> requests it has sent and has no answer to
  rresult,    \* client -> history: the answer to its request, once it is known
  rseen       \* client -> the answer it read, until it sends the next request

rvars   == <<fdlimit, rdict, rconn, batch, rbacklog, rsock, rinbox, routbox, rasked, rresult, rseen>>

Closed == [owner |-> NONE, interest |-> "none", wlength |-> 0, wbuffer |-> Absent]

RInit ==
  /\ fdlimit \in Fds
  /\ rdict = EmptyStore
  /\ rconn = [fd \in Fds |-> Closed]
  /\ batch = {}
  /\ rbacklog = <<>>
  /\ rsock = [c \in Clients |-> "none"]
  /\ rinbox = [c \in Clients |-> <<>>]
  /\ routbox = [c \in Clients |-> <<>>]
  /\ rasked = [c \in Clients |-> <<>>]
  /\ rresult = [c \in Clients |-> Absent]
  /\ rseen = [c \in Clients |-> Absent]

FreeFds  == {fd \in 1..fdlimit : rconn[fd].owner = NONE}
Queued   == {rbacklog[i] : i \in DOMAIN rbacklog}
HasFd(c) == \E fd \in Fds : rconn[fd].owner = c

-----------------------------------------------------------------------------
(* Clients (external): the programs under kvs-client and test_kvstore.c *)

RConnect(c) ==
  /\ rsock[c] = "none"
  /\ rsock' = [rsock EXCEPT ![c] = "open"]
  /\ rbacklog' = Append(rbacklog, c)
  /\ UNCHANGED <<rdict, rconn, batch, rinbox, routbox, rasked, rresult, rseen>>

\* A client that has a malformed request on its way sends nothing behind it, nor
\* one behind others: only well-formed requests melt here.
RSend(c, r) ==
  /\ rsock[c] = "open" /\ Len(rasked[c]) < MaxPending
  /\ rasked[c] # <<>> => WellFormed(rasked[c][1]) /\ WellFormed(r)
  /\ rinbox' = [rinbox EXCEPT ![c] = Append(@, r)]
  /\ rasked' = [rasked EXCEPT ![c] = Append(@, r)]
  /\ rseen' = [rseen EXCEPT ![c] = Absent]
  /\ UNCHANGED <<rdict, rconn, batch, rbacklog, rsock, routbox, rresult>>

RRead(c) ==
  /\ rsock[c] = "open" /\ routbox[c] # <<>>
  /\ rseen' = [rseen EXCEPT ![c] = Head(routbox[c])]
  /\ routbox' = [routbox EXCEPT ![c] = Tail(@)]
  /\ rasked' = [rasked EXCEPT ![c] = IF @ = <<>> THEN @ ELSE Tail(@)]
  /\ rresult' = [rresult EXCEPT ![c] = Absent]
  /\ UNCHANGED <<rdict, rconn, batch, rbacklog, rsock, rinbox>>

\* The client waits for an answer to a malformed request until the server is
\* back at reading, and then goes on to its next request.
GiveUp(c) ==
  /\ rsock[c] = "open" /\ rasked[c] # <<>> /\ ~WellFormed(rasked[c][1])
  /\ rinbox[c] = <<>> /\ routbox[c] = <<>>
  /\ \E fd \in Fds : rconn[fd].owner = c /\ rconn[fd].interest = "IN"
  /\ rasked' = [rasked EXCEPT ![c] = Tail(@)]
  /\ UNCHANGED <<rdict, rconn, batch, rbacklog, rsock, rinbox, routbox, rresult, rseen>>

\* A FIN lets what was sent arrive; a RST discards it, and the recv that finds
\* it fails.  The server treats a recv of 0 and one of -1 alike.
RClose(c) ==
  /\ rsock[c] = "open"
  /\ rsock' = [rsock EXCEPT ![c] = "closed"]
  /\ rinbox' \in {rinbox, [rinbox EXCEPT ![c] = <<>>]}
  /\ rasked' = [rasked EXCEPT ![c] = <<>>]
  /\ routbox' = [routbox EXCEPT ![c] = <<>>]
  /\ rresult' = [rresult EXCEPT ![c] = Absent]
  /\ rseen' = [rseen EXCEPT ![c] = Absent]
  /\ UNCHANGED <<rdict, rconn, batch, rbacklog>>

-----------------------------------------------------------------------------
(* The event loop *)

Readable(c) == rinbox[c] # <<>> \/ rsock[c] = "closed"

Ready ==
  (IF rbacklog = <<>> THEN {} ELSE {<<LISTEN, "IN">>})
    \cup {<<fd, rconn[fd].interest>> : fd \in
            {f \in Fds : \/ rconn[f].interest = "OUT"
                         \/ rconn[f].interest = "IN" /\ Readable(rconn[f].owner)}}

epoll_wait ==
  /\ batch = {} /\ Ready # {}
  /\ batch' = Ready
  /\ UNCHANGED <<rdict, rconn, rbacklog, rsock, rinbox, routbox, rasked, rresult, rseen>>

\* accept gives the lowest free descriptor; without one it fails and the
\* client stays in the queue.
accept_cb ==
  /\ <<LISTEN, "IN">> \in batch
  /\ batch' = batch \ {<<LISTEN, "IN">>}
  /\ \/ /\ FreeFds = {}
        /\ UNCHANGED <<rconn, rbacklog>>
     \/ \E fd \in FreeFds :
          /\ \A f \in FreeFds : fd <= f
          /\ rbacklog' = Tail(rbacklog)
          /\ rconn' = [rconn EXCEPT ![fd] =                    \* event_register
               [owner |-> Head(rbacklog), interest |-> "IN", wlength |-> 0, wbuffer |-> Absent]]
  /\ UNCHANGED <<rdict, rsock, rinbox, routbox, rasked, rresult, rseen>>

\* Mutant: a connection the client has closed is left as it is.
recv_cb_LeavesOpen(fd) ==
  LET c   == rconn[fd].owner
      out == kvs_protocol(rdict, rinbox[c])
  IN  /\ <<fd, "IN">> \in batch
      /\ batch' = batch \ {<<fd, "IN">>}
      /\ \/ /\ rinbox[c] = <<>>
            /\ rsock' = [rsock EXCEPT ![c] = "none"]
            /\ UNCHANGED <<rdict, rconn, rinbox, rresult>>
         \/ /\ rinbox[c] # <<>>
            /\ rinbox' = [rinbox EXCEPT ![c] = <<>>]
            /\ rdict' = out.dict
            /\ rconn' = [rconn EXCEPT ![fd].interest = "OUT", ![fd].wlength = out.length]
            /\ UNCHANGED <<rsock, rresult>>
      /\ UNCHANGED <<rbacklog, routbox, rasked, rseen>>

\* kvs_request leaves the result of the handler in wlength, and the answer in
\* wbuffer when there is one.
recv_cb(fd) ==
  LET c   == rconn[fd].owner
      out == kvs_protocol(rdict, rinbox[c])
  IN  /\ <<fd, "IN">> \in batch
      /\ batch' = batch \ {<<fd, "IN">>}
      /\ \/ /\ rinbox[c] = <<>>                               \* recv returns 0 or -1
            /\ rconn' = [rconn EXCEPT ![fd] = Closed]
            /\ rsock' = [rsock EXCEPT ![c] = "none"]
            /\ UNCHANGED <<rdict, rinbox, rresult>>
         \/ /\ rinbox[c] # <<>>
            /\ rinbox' = [rinbox EXCEPT ![c] = <<>>]
            /\ rdict' = out.dict
            /\ rconn' = [rconn EXCEPT ![fd].interest = "OUT", ![fd].wlength = out.length,
                          ![fd].wbuffer = IF out.length > 0 THEN out.text ELSE @]
            /\ rresult' = [rresult EXCEPT ![c] =
                 IF out.length > 0 /\ rsock[c] = "open" THEN out.text ELSE @]
            /\ UNCHANGED rsock
      /\ UNCHANGED <<rbacklog, routbox, rasked, rseen>>

\* Mutant: the answer is sent whatever wlength says.
send_cb_Unchecked(fd) ==
  LET c == rconn[fd].owner
  IN  /\ <<fd, "OUT">> \in batch
      /\ batch' = batch \ {<<fd, "OUT">>}
      /\ routbox' = [routbox EXCEPT ![c] = IF rsock[c] = "open"
                      THEN Append(@, rconn[fd].wbuffer) ELSE @]
      /\ rconn' = [rconn EXCEPT ![fd].interest = "IN"]
      /\ UNCHANGED <<rdict, rbacklog, rsock, rinbox, rasked, rresult, rseen>>

\* Mutant: interest goes back to EPOLLIN only after an answer was sent.
send_cb_NoRearm(fd) ==
  LET c == rconn[fd].owner
  IN  /\ <<fd, "OUT">> \in batch
      /\ batch' = batch \ {<<fd, "OUT">>}
      /\ routbox' = [routbox EXCEPT ![c] = IF rconn[fd].wlength > 0 /\ rsock[c] = "open"
                      THEN Append(@, rconn[fd].wbuffer) ELSE @]
      /\ rconn' = [rconn EXCEPT ![fd].interest = IF rconn[fd].wlength > 0 THEN "IN" ELSE "OUT"]
      /\ UNCHANGED <<rdict, rbacklog, rsock, rinbox, rasked, rresult, rseen>>

send_cb(fd) ==
  LET c == rconn[fd].owner
  IN  /\ <<fd, "OUT">> \in batch
      /\ batch' = batch \ {<<fd, "OUT">>}
      /\ routbox' = [routbox EXCEPT ![c] = IF rconn[fd].wlength > 0 /\ rsock[c] = "open"
                      THEN Append(@, rconn[fd].wbuffer) ELSE @]
      /\ rconn' = [rconn EXCEPT ![fd].interest = "IN"]
      /\ UNCHANGED <<rdict, rbacklog, rsock, rinbox, rasked, rresult, rseen>>

Server == /\ epoll_wait \/ accept_cb \/ \E fd \in Fds : recv_cb(fd) \/ send_cb(fd)
          /\ UNCHANGED fdlimit

Client(c) == /\ \/ RConnect(c) \/ RRead(c) \/ GiveUp(c) \/ RClose(c)
                \/ \E r \in Requests : RSend(c, r)
             /\ UNCHANGED fdlimit

RNext == Server \/ \E c \in Clients : Client(c)

\* The loop never sleeps while an event is ready, and a client that waits
\* reads what arrives.
RFairness ==
  WF_rvars(Server) /\ \A c \in Clients : WF_rvars(RRead(c) /\ UNCHANGED fdlimit)

RSpec     == RInit /\ [][RNext]_rvars
RFairSpec == RSpec /\ RFairness

-----------------------------------------------------------------------------
\* Descriptors, queues and answers keep their types.
ReactorTypeOK ==
  /\ rconn \in [Fds -> [owner : Clients \cup {NONE}, interest : {"none", "IN", "OUT"},
                       wlength : {-3, 0, 1},
                       wbuffer : Texts \cup {Absent}]]
  /\ batch \subseteq ({LISTEN} \cup Fds) \X {"IN", "OUT"}
  /\ Queued \subseteq Clients
  /\ rsock \in [Clients -> {"none", "open", "closed"}]
  /\ \A c \in Clients : Len(rinbox[c]) <= MaxPending /\ Len(routbox[c]) <= MaxPending

\* A descriptor serves one client and a client has one descriptor; a client
\* without one is new, or still in the queue of the listening socket.
FdsAgree ==
  /\ \A f, g \in Fds : rconn[f].owner = rconn[g].owner /\ rconn[f].owner # NONE => f = g
  /\ \A c \in Clients : rsock[c] # "none" <=> c \in Queued \/ HasFd(c)
  /\ \A c \in Queued : ~HasFd(c)

\* A descriptor of the reactor serves one client, and a client has one descriptor or
\* waits for it (kv_reactor.c:100-140).
FdsSound == ReactorTypeOK /\ FdsAgree

\* The view of a client as one of KVService.
RCallOf(c) ==
  IF rsock[c] = "closed" THEN
    IF rinbox[c] = <<>> THEN <<"idle">> ELSE <<"orphan", rinbox[c][1]>>
  ELSE IF rasked[c] = <<>> THEN <<"idle">>
  ELSE IF rresult[c] # Absent THEN <<"done", rresult[c]>>
  ELSE <<"sent", rasked[c][1]>>

RService == INSTANCE KVService WITH
  dict <- rdict, call <- [c \in Clients |-> RCallOf(c)], seen <- rseen

\* With clients that wait for their answers the server is the atomic service:
\* no answer reaches another client, none is sent twice, stale or invented,
\* over reused descriptors too (kv_reactor.c:147-240).
ReactorImplementsService == RService!Spec

\* Well-formed requests that one recv takes (the client's own reset, which changes its
\* socket, is none) melt into a line with a word too many: the count of tokens keeps it
\* away from the engines, and none of them is answered.
MeltedDoNothing ==
  [][\A c \in Clients :
       Len(rinbox[c]) > 1 /\ rinbox'[c] = <<>> /\ rsock'[c] = rsock[c] =>
         rdict' = rdict /\ rresult'[c] = rresult[c]]_rvars

\* Whatever a client with a descriptor does, sending or leaving, is noticed,
\* also after a request that got no answer; and an answer, once it exists,
\* reaches the client that waits for it.
RAnswered ==
  \A c \in Clients :
    /\ (HasFd(c) /\ Readable(c)) ~> ~Readable(c)
    /\ (rresult[c] # Absent) ~> (rresult[c] = Absent)
=============================================================================
