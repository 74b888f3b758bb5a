----------------------------- MODULE KvsIoUring -----------------------------
(***************************************************************************)
(* The io_uring network layer of zzx_kvstore (kv_iouring.c): one thread     *)
(* that fills the submission queue and handles completions in batches, a   *)
(* kernel that works on what was submitted at any time, and one receive    *)
(* buffer and one response buffer for all connections.                     *)
(***************************************************************************)
EXTENDS KvsProtocol, FiniteSets

CONSTANT JUNK   \* bytes that are no answer: cleared ones, or what lies behind a buffer

\* There are descriptors enough for every client, and what is answered is never the
\* sign that there is no value.  The words of a request that follow the command are a
\* key and a value, also where one of them is missing: the loop cuts requests short.
ASSUME IoUringAssumption ==
  /\ MaxFd \in Nat /\ Cardinality(Clients) <= MaxFd
  /\ NONE \notin Clients /\ Requests # {}
  /\ Absent \notin Texts
  /\ \A r \in Requests :
       /\ r \in [engine : Engines \cup {"none"}, op : DOMAIN Arity \cup {"BOGUS"},
                args : Seq(Keys \cup Vals)]
       /\ r.op # "BOGUS" => r.engine \in Engines
       /\ Len(r.args) >= 1 => r.args[1] \in Keys
       /\ Len(r.args) >= 2 => r.args[2] \in Vals

VARIABLES
  dict,       \* the engines behind kvs_handler
  conn,       \* descriptor -> the client it is connected to
  buffer,     \* the receive buffer: a request, or <<>> after a memset
  response,   \* the response buffer
  sq,         \* operations prepared and not yet submitted
  armed,      \* operations the kernel works on
  cq,         \* completions the loop has not handled
  todo,       \* how many of them are in the current batch
  backlog, sock, inbox, outbox, asked, result, seen    \* as in KvsReactor

ring    == <<sq, armed, cq, todo>>
peers   == <<backlog, sock, inbox, outbox, asked, seen>>
vars    == <<dict, conn, buffer, response, ring, peers, result>>

Op(event, fd, len)  == [event |-> event, fd |-> fd, len |-> len]
Cqe(event, fd, res) == [event |-> event, fd |-> fd, res |-> res]
Zero == <<>>

set_event_accept == Op("ACCEPT", LISTEN, 0)
set_event_recv(fd) == Op("READ", fd, 0)
set_event_send(fd, len) == Op("WRITE", fd, len)

Init ==
  /\ dict = EmptyStore
  /\ conn = [fd \in Fds |-> NONE]
  /\ buffer = Zero /\ response = JUNK
  /\ sq = <<set_event_accept>> /\ armed = {} /\ cq = <<>> /\ todo = 0
  /\ backlog = <<>>
  /\ sock = [c \in Clients |-> "none"]
  /\ inbox = [c \in Clients |-> <<>>]
  /\ outbox = [c \in Clients |-> <<>>]
  /\ asked = [c \in Clients |-> <<>>]
  /\ result = [c \in Clients |-> Absent]
  /\ seen = [c \in Clients |-> Absent]

-----------------------------------------------------------------------------
(* Clients (external): each waits for its answer before it asks again *)

Connect(c) ==
  /\ sock[c] = "none"
  /\ sock' = [sock EXCEPT ![c] = "open"]
  /\ backlog' = Append(backlog, c)
  /\ UNCHANGED <<dict, conn, buffer, response, ring, inbox, outbox, asked, result, seen>>

Send(c, r) ==
  /\ sock[c] = "open" /\ asked[c] = <<>>
  /\ inbox' = [inbox EXCEPT ![c] = Append(@, r)]
  /\ asked' = [asked EXCEPT ![c] = <<r>>]
  /\ seen' = [seen EXCEPT ![c] = Absent]
  /\ UNCHANGED <<dict, conn, buffer, response, ring, backlog, sock, outbox, result>>

Read(c) ==
  /\ sock[c] = "open" /\ outbox[c] # <<>>
  /\ seen' = [seen EXCEPT ![c] = Head(outbox[c])]
  /\ outbox' = [outbox EXCEPT ![c] = Tail(@)]
  /\ asked' = [asked EXCEPT ![c] = <<>>]
  /\ result' = [result EXCEPT ![c] = Absent]
  /\ UNCHANGED <<dict, conn, buffer, response, ring, backlog, sock, inbox>>

\* how = "closed" sends a FIN, how = "reset" a RST that discards what is on
\* its way.
Close(c, how) ==
  /\ sock[c] = "open"
  /\ sock' = [sock EXCEPT ![c] = how]
  /\ inbox' = [inbox EXCEPT ![c] = IF how = "reset" THEN <<>> ELSE @]
  /\ asked' = [asked EXCEPT ![c] = <<>>]
  /\ outbox' = [outbox EXCEPT ![c] = <<>>]
  /\ result' = [result EXCEPT ![c] = Absent]
  /\ seen' = [seen EXCEPT ![c] = Absent]
  /\ UNCHANGED <<dict, conn, buffer, response, ring, backlog>>

-----------------------------------------------------------------------------
(* The kernel (external), on the operations that have been submitted *)

Complete(op, res) ==
  /\ armed' = armed \ {op}
  /\ cq' = Append(cq, Cqe(op.event, op.fd, res))
  /\ UNCHANGED <<sq, todo>>

CompleteAccept ==
  /\ set_event_accept \in armed /\ backlog # <<>>
  /\ \E fd \in Fds :
       /\ conn[fd] = NONE
       /\ \A f \in Fds : conn[f] = NONE => fd <= f
       /\ conn' = [conn EXCEPT ![fd] = Head(backlog)]
       /\ Complete(set_event_accept, fd)
  /\ backlog' = Tail(backlog)
  /\ UNCHANGED <<dict, buffer, response, sock, inbox, outbox, asked, result, seen>>

\* The data goes to the buffer when it arrives, whatever the buffer holds.
\* The length of a request is counted in tokens.
CompleteRecv(fd) ==
  LET c == conn[fd]
  IN  /\ set_event_recv(fd) \in armed
      /\ \/ /\ inbox[c] # <<>>
            /\ buffer' = <<inbox[c][1]>>
            /\ inbox' = [inbox EXCEPT ![c] = <<>>]
            /\ Complete(set_event_recv(fd), Tokens(inbox[c][1]))
         \/ /\ inbox[c] = <<>> /\ sock[c] = "closed"
            /\ Complete(set_event_recv(fd), 0)
            /\ UNCHANGED <<buffer, inbox>>
         \/ /\ sock[c] = "reset"
            /\ Complete(set_event_recv(fd), -1)
            /\ UNCHANGED <<buffer, inbox>>
      /\ UNCHANGED <<dict, conn, response, backlog, sock, outbox, asked, result, seen>>

\* The bytes sent are those the response buffer holds now.  A length below
\* zero is a huge one: the send faults or delivers what lies behind it.
CompleteSend(op) ==
  LET c == conn[op.fd]
      Deliver(text) == outbox' = [outbox EXCEPT ![c] =
                         IF sock[c] = "open" THEN Append(@, text) ELSE @]
  IN  /\ op \in armed /\ op.event = "WRITE"
      /\ \/ op.len > 0 /\ Deliver(response)
         \/ op.len < 0 /\ Deliver(JUNK)
         \/ op.len <= 0 /\ UNCHANGED outbox
      /\ Complete(op, op.len)
      /\ UNCHANGED <<dict, conn, buffer, response, backlog, sock, inbox, asked, result, seen>>

-----------------------------------------------------------------------------
(* The loop of iouring_start *)

io_uring_submit ==
  /\ todo = 0 /\ sq # <<>>
  /\ armed' = armed \cup {sq[i] : i \in DOMAIN sq}
  /\ sq' = <<>>
  /\ UNCHANGED <<dict, conn, buffer, response, cq, todo, peers, result>>

io_uring_peek_batch_cqe ==
  /\ todo = 0 /\ sq = <<>> /\ cq # <<>>
  /\ todo' = Len(cq)
  /\ UNCHANGED <<dict, conn, buffer, response, sq, armed, cq, peers, result>>

\* Handles the next completion of the batch; ops are what it prepares.
Handle(event, ops) ==
  /\ todo > 0 /\ Head(cq).event = event
  /\ todo' = todo - 1
  /\ cq' = Tail(cq)
  /\ sq' = sq \o ops
  /\ UNCHANGED <<armed, backlog, inbox, outbox, asked, seen>>

HandleAccept ==
  /\ todo > 0
  /\ Handle("ACCEPT", <<set_event_accept, set_event_recv(Head(cq).res)>>)
  /\ buffer' = Zero
  /\ UNCHANGED <<dict, conn, response, sock, result>>

HandleEof ==
  /\ todo > 0 /\ Head(cq).res = 0
  /\ Handle("READ", <<>>)
  /\ conn' = [conn EXCEPT ![Head(cq).fd] = NONE]
  /\ sock' = [sock EXCEPT ![conn[Head(cq).fd]] = "none"]
  /\ UNCHANGED <<dict, buffer, response, result>>

\* A receive that failed: neither closed nor armed again.
HandleError ==
  /\ todo > 0 /\ Head(cq).res < 0
  /\ Handle("READ", <<>>)
  /\ UNCHANGED <<dict, conn, buffer, response, sock, result>>

\* What kvs_handler gets: the buffer, cut at the length of this completion.
Received(res) ==
  IF buffer = Zero \/ Tokens(buffer[1]) <= res THEN buffer
  ELSE <<[buffer[1] EXCEPT !.args = SubSeq(@, 1, res - 1)]>>

\* Mutant: the next receive is armed beside the send.
HandleRequest_Eager ==
  /\ todo > 0 /\ Head(cq).res > 0
  /\ LET fd  == Head(cq).fd
         out == kvs_protocol(dict, Received(Head(cq).res))
     IN  /\ Handle("READ", <<set_event_send(fd, out.length), set_event_recv(fd)>>)
         /\ dict' = out.dict
         /\ response' = IF out.length > 0 THEN out.text ELSE response
         /\ result' = [result EXCEPT ![conn[fd]] =
              IF out.length > 0 /\ sock[conn[fd]] = "open" THEN out.text ELSE @]
  /\ UNCHANGED <<conn, buffer, sock>>

\* Mutant: the response is written only when the send is prepared, so the
\* send carries the answer before.
HandleRequest_Late ==
  /\ todo > 0 /\ Head(cq).res > 0
  /\ LET fd  == Head(cq).fd
         out == kvs_protocol(dict, Received(Head(cq).res))
     IN  /\ Handle("READ", <<set_event_send(fd, out.length)>>)
         /\ dict' = out.dict
         /\ result' = [result EXCEPT ![conn[fd]] =
              IF out.length > 0 /\ sock[conn[fd]] = "open" THEN out.text ELSE @]
  /\ UNCHANGED <<conn, buffer, response, sock>>

HandleRequest ==
  /\ todo > 0 /\ Head(cq).res > 0
  /\ LET fd  == Head(cq).fd
         out == kvs_protocol(dict, Received(Head(cq).res))
     IN  /\ Handle("READ", <<set_event_send(fd, out.length)>>)
         /\ dict' = out.dict
         /\ response' = IF out.length > 0 THEN out.text ELSE response
         /\ result' = [result EXCEPT ![conn[fd]] =
              IF out.length > 0 /\ sock[conn[fd]] = "open" THEN out.text ELSE @]
  /\ UNCHANGED <<conn, buffer, sock>>

HandleSent ==
  /\ todo > 0
  /\ Handle("WRITE", <<set_event_recv(Head(cq).fd)>>)
  /\ buffer' = Zero
  /\ UNCHANGED <<dict, conn, response, sock, result>>

Loop ==
  \/ io_uring_submit \/ io_uring_peek_batch_cqe
  \/ HandleAccept \/ HandleEof \/ HandleError \/ HandleRequest \/ HandleSent

Kernel == CompleteAccept \/ (\E fd \in Fds : CompleteRecv(fd)) \/ \E op \in armed : CompleteSend(op)

Next ==
  \/ Loop \/ Kernel
  \/ \E c \in Clients : \/ Connect(c) \/ Read(c)
                        \/ \E how \in {"closed", "reset"} : Close(c, how)
                        \/ \E r \in Requests : Send(c, r)

Spec == Init /\ [][Next]_vars

\* The loop runs while there is a completion, the kernel completes what can
\* be completed on each connection, a waiting client reads.
Fairness ==
  /\ WF_vars(Loop) /\ WF_vars(CompleteAccept)
  /\ \A fd \in Fds : WF_vars(CompleteRecv(fd))
  /\ \A fd \in Fds : WF_vars(\E op \in armed : op.fd = fd /\ CompleteSend(op))
  /\ \A c \in Clients : WF_vars(Read(c))
FairSpec == Spec /\ Fairness

-----------------------------------------------------------------------------
\* Rings and buffers keep their types, and the batch is a prefix of the queue.
TypeOK ==
  /\ conn \in [Fds -> Clients \cup {NONE}]
  /\ response \in Texts \cup {JUNK}
  /\ todo \in 0..Len(cq)
  /\ \A i \in DOMAIN cq : cq[i].event \in {"ACCEPT", "READ", "WRITE"}
  /\ \A c \in Clients : outbox[c] \in Seq(Texts \cup {JUNK})

\* The operations and completions that concern a descriptor; an accepted
\* descriptor is in the completion of its accept first.
Pending(fd) ==
  Cardinality({i \in DOMAIN sq : sq[i].fd = fd})
  + Cardinality({op \in armed : op.fd = fd})
  + Cardinality({i \in DOMAIN cq : (IF cq[i].event = "ACCEPT" THEN cq[i].res ELSE cq[i].fd) = fd})

\* Every connection has exactly one operation under way, so it is never read
\* twice at once and never forgotten; only a connection its client has reset
\* may be left with none.  One accept is always under way.
OneOperation ==
  /\ \A fd \in Fds :
       IF conn[fd] = NONE THEN Pending(fd) = 0
       ELSE Pending(fd) = 1 \/ (Pending(fd) = 0 /\ sock[conn[fd]] = "reset")
  /\ Cardinality({i \in DOMAIN sq : sq[i].event = "ACCEPT"})
     + Cardinality({op \in armed : op.event = "ACCEPT"})
     + Cardinality({i \in DOMAIN cq : cq[i].event = "ACCEPT"}) = 1

\* Every connection of the io_uring loop has one operation under way, on rings that
\* keep their shape (kv_iouring.c:134-194).
UringSound == TypeOK /\ OneOperation

\* kv_iouring.c:156, 171 - the buffer is cleared before every receive, so no
\* residue is handled: a request reaches the handler as its client sent it.
NoResidue ==
  todo > 0 /\ Head(cq).event = "READ" /\ Head(cq).res > 0 =>
    LET c == conn[Head(cq).fd]
    IN  asked[c] # <<>> => Received(Head(cq).res) = asked[c]

CallOf(c) ==
  IF sock[c] \in {"closed", "reset"} THEN
    IF inbox[c] # <<>> THEN <<"orphan", inbox[c][1]>>
    ELSE IF buffer # Zero /\ \E i \in DOMAIN cq : cq[i].event = "READ" /\ cq[i].res > 0
         THEN <<"orphan", buffer[1]>> ELSE <<"idle">>
  ELSE IF asked[c] = <<>> THEN <<"idle">>
  ELSE IF result[c] # Absent THEN <<"done", result[c]>>
  ELSE <<"sent", asked[c][1]>>

Service == INSTANCE KVService WITH call <- [c \in Clients |-> CallOf(c)]

\* With one connection at a time the server is the atomic service.
ImplementsService == Service!Spec

\* The client of a server with one connection gets its answer.
Answered == \A c \in Clients : (asked[c] # <<>>) ~> (asked[c] = <<>>)
=============================================================================
