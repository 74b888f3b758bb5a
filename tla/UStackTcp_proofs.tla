-------------------------- MODULE UStackTcp_proofs --------------------------
(***************************************************************************)
(* The TCP stack on DPDK, for any clients, any number of units and both    *)
(* bodies of the server: the bitmap of descriptors is exact, no event is   *)
(* told without data, a polite client reads back what it sent, and its     *)
(* control block goes only after both ends of the connection.              *)
(*                                                                         *)
(* The parts of the invariant are predicates of the values they speak of,  *)
(* so that a lemma can apply them to the state after a step.  What a client *)
(* and its control block say to each other is a conversation of its own:   *)
(* Wire, Unit and Step see the client p, what is under way to the server   *)
(* (net), the control block b and all that is to go to the client (pipe).  *)
(***************************************************************************)
EXTENDS UStackTcp, FiniteSetTheorems, SequenceTheorems, WellFoundedInduction, TLAPS

-----------------------------------------------------------------------------
(* The inductive invariant *)

Statuses == {"CLOSED", "LISTEN", "SYN_RCVD", "ESTABLISHED", "CLOSE_WAIT", "LAST_ACK"}
Kinds == {{"SYN"}, {"SYN", "ACK"}, {"ACK"}, {"PSH", "ACK"}, {"FIN", "ACK"}}
Segments == [flags : Kinds, seq : Int, ack : Int, data : Nat]
ControlBlocks ==
  [peer : Clients \cup {NONE}, fd : Fds \cup {-1}, status : Statuses,
   snd_nxt : Int, rcv_nxt : Int, sndbuf : Seq(Segments), rcvbuf : Seq(Nat)]
OnceStages  == {"accept", "accept_wait", "recv", "recv_wait", "send", "close", "closing"}
EpollStages == OnceStages \cup {"wait", "event", "next", "add"}
Servers ==
  [pc : EpollStages, fd : Fds \cup {-1}, on : Streams \cup {NONE}, data : Nat, ready : Seq(Fds)]
PeerStates == {"closed", "syn_sent", "established", "half_closed", "fin_wait", "done"}
Peers == [st : PeerStates, snd : Int, rcv : Int, sent : Nat, got : Seq(Nat)]
Cores == [of : Clients \cup {NONE}, ack : Int]

Typed ==
  /\ plan \in Plans
  /\ tcb_set \in Seq(Streams) /\ tcb \in [Streams -> ControlBlocks]
  /\ fd_table \subseteq Fds /\ items \subseteq Fds /\ rdlist \in Seq(Fds)
  /\ app \in Servers /\ core \in Cores /\ hurried \subseteq Clients
  /\ toServer \in [Clients -> Seq(Segments)] /\ toClient \in [Clients -> Seq(Segments)]
  /\ peer \in [Clients -> Peers]

\* The list holds the listener and, once each, the control blocks of different clients.
Serving == {"ESTABLISHED", "CLOSE_WAIT"}
Connected == Serving \cup {"SYN_RCVD", "LAST_ACK"}
ListOk(q, t) ==
  /\ \A i, j \in DOMAIN q : q[i] = q[j] => i = j
  /\ LISTENER \in ToSet(q)
  /\ t[LISTENER] = [Blank EXCEPT !.fd = LISTENFD, !.status = "LISTEN"]
  /\ \A s \in Streams \ {LISTENER} :
       IF s \in ToSet(q) THEN t[s].peer \in Clients /\ t[s].status \in Connected
       ELSE t[s] = Blank
  /\ \A s, u \in Streams : t[s].peer = t[u].peer /\ t[s].peer # NONE => s = u

\* The bitmap holds what is open, once; a closed connection keeps its number.
Open(r) == r.fd # -1 /\ r.status # "LAST_ACK"
BitmapOk(t, bits, epoll) ==
  /\ \A s \in Streams : Open(t[s]) => t[s].fd \in bits /\ (epoll => t[s].fd # EPFD)
  /\ \A f \in bits : (epoll /\ f = EPFD) \/ \E s \in Streams : Open(t[s]) /\ t[s].fd = f
  /\ \A s, u \in Streams : Open(t[s]) /\ Open(t[u]) /\ t[s].fd = t[u].fd => s = u
  /\ epoll => EPFD \in bits
  /\ \A s \in Streams : t[s].status = "LAST_ACK" => t[s].fd # -1

\* The end of a connection is the last fragment of its ring.
RingOk(r) ==
  /\ r.rcvbuf # <<>> => r.status \in Serving
  /\ \A i \in DOMAIN r.rcvbuf :
       r.rcvbuf[i] = 0 => i = Len(r.rcvbuf) /\ r.status = "CLOSE_WAIT"

\* The first of some control blocks, and the one a descriptor stands for.
FirstOf(q, some) ==
  IF \E i \in DOMAIN q : q[i] \in some
  THEN q[CHOOSE i \in DOMAIN q : q[i] \in some /\ \A j \in 1..(i - 1) : q[j] \notin some]
  ELSE NONE
Host(q, t, fd) == FirstOf(q, {s \in Streams : t[s].fd = fd})

\* Between nrecv and nsend or nclose the descriptor stands for the same connection.
ServerOk(q, t, a) ==
  /\ a.pc \in {"recv", "recv_wait", "send", "close", "closing", "add"} => a.fd # -1
  /\ a.pc \in {"send", "close", "closing"} =>
       Host(q, t, a.fd) \in Streams \ {LISTENER} /\ t[Host(q, t, a.fd)].status \in Serving
  /\ a.pc \in {"close", "closing"} =>
       t[Host(q, t, a.fd)].status = "CLOSE_WAIT" /\ t[Host(q, t, a.fd)].rcvbuf = <<>>
LoopOk(epoll, a, r, it) ==
  IF epoll THEN a.pc = "wait" <=> a.ready = <<>>
  ELSE a.pc \in OnceStages /\ a.ready = <<>> /\ r = <<>> /\ it = {}

\* The control block of client c, if it has one.
Block(t, c) ==
  IF \E s \in Streams : t[s].peer = c THEN t[CHOOSE s \in Streams : t[s].peer = c] ELSE Blank

\* The client asks for a connection once, and the server ends it once.
Wire(p, net, pipe, b) ==
  /\ p.st = "closed" =>
       net = <<>> /\ pipe = <<>> /\ b.status = "CLOSED" /\ p.sent = 0 /\ p.got = <<>>
  /\ \A i \in DOMAIN net :
       /\ "SYN" \in net[i].flags =>
            i = 1 /\ b.status = "CLOSED" /\ pipe = <<>> /\ p.st = "syn_sent"
       /\ "PSH" \in net[i].flags => net[i].data # 0
  /\ \A i \in DOMAIN pipe : "SYN" \in pipe[i].flags => i = 1 /\ p.st = "syn_sent"
  /\ \A i \in DOMAIN pipe : "FIN" \in pipe[i].flags =>
       /\ b.status \in {"LAST_ACK", "CLOSED"} /\ p.st # "done"
       /\ \A j \in DOMAIN pipe : "FIN" \in pipe[j].flags => i = j
  /\ p.st = "done" => b.status \in {"LAST_ACK", "CLOSED"}

\* What the two threads have begun on a control block is done: the numbers are those the
\* packet core is about to write, and the state is the one nclose is about to write.
CoreOk(t, k) == k # Idle => k.of # NONE /\ \E s \in Streams : t[s].peer = k.of
Half(b, a)   == a.pc = "closing" /\ b.fd = a.fd /\ b.status = "CLOSE_WAIT"
Now(b, k, a) ==
  [b EXCEPT !.snd_nxt = IF k.of # NONE /\ b.peer = k.of THEN k.ack ELSE @,
            !.status  = IF Half(b, a) THEN "LAST_ACK" ELSE @]

\* The unit of data that a polite client waits for is in one place, if it is anywhere,
\* and the number it will come back with is the one the client waits for.
Places == {"nowhere", "net", "ring", "hand", "pipe"}
UnitAt(p, net, pipe, b, hand, data, at, k) ==
  /\ at # "nowhere" => p.st = "established" /\ Len(p.got) + 1 = p.sent
  /\ \A i \in DOMAIN net :
       "PSH" \in net[i].flags =>
         at = "net" /\ i = k /\ net[i].data = p.sent /\ net[i].ack = p.rcv
  /\ \A i \in DOMAIN b.rcvbuf :
       b.rcvbuf[i] # 0 => at = "ring" /\ i = k /\ b.rcvbuf[i] = p.sent /\ b.snd_nxt = p.rcv
  /\ hand => at = "hand" /\ data = p.sent /\ b.snd_nxt = p.rcv
  /\ \A i \in DOMAIN pipe :
       "PSH" \in pipe[i].flags =>
         at = "pipe" /\ i = k /\ pipe[i].data = p.sent /\ pipe[i].seq = p.rcv
Unit(p, net, pipe, b, hand, data) ==
  /\ Len(p.got) <= p.sent
  /\ \A i \in 1..Len(p.got) : p.got[i] = i
  /\ \E at \in Places, k \in Int : UnitAt(p, net, pipe, b, hand, data, at, k)

\* The connection of a polite client opens and ends in step on both sides.
Step(p, net, pipe, b) ==
  /\ p.st # "half_closed"
  /\ \A i \in DOMAIN net : "FIN" \in net[i].flags =>
       /\ p.st = "fin_wait" /\ i = Len(net) /\ net[i].ack = p.rcv
       /\ b.status \notin {"CLOSE_WAIT", "LAST_ACK"}
  /\ b.status = "CLOSE_WAIT" => p.st = "fin_wait" /\ net = <<>> /\ b.snd_nxt = p.rcv
  /\ b.status = "LAST_ACK" => p.st = "done" \/ (p.st = "fin_wait" /\ net = <<>>)
  /\ \A i \in DOMAIN pipe : "FIN" \in pipe[i].flags =>
       /\ p.st = "fin_wait" /\ pipe[i].seq = p.rcv
       /\ \A j \in DOMAIN net : "FIN" \notin net[j].flags

\* nrecv has taken something from the ring of c that nsend has not answered.
InHand(q, t, a, c) == a.pc = "send" /\ t[Host(q, t, a.fd)].peer = c

Talk(polite, p, net, pipe, b, hand, data) ==
  /\ Wire(p, net, pipe, b)
  /\ polite => Unit(p, net, pipe, b, hand, data) /\ Step(p, net, pipe, b)

Pipe(c) == toClient[c] \o Block(tcb, c).sndbuf

\* A polite client whose connection no thread has met half-way.
Tame(c) == plan.polite /\ c \notin hurried

Talks(c) ==
  Talk(Tame(c), peer[c], toServer[c], Pipe(c), Now(Block(tcb, c), core, app),
       InHand(tcb_set, tcb, app, c), app.data)

StackInv ==
  /\ Typed
  /\ ListOk(tcb_set, tcb)
  /\ BitmapOk(tcb, fd_table, plan.mode = "epoll")
  /\ \A s \in Streams : RingOk(tcb[s])
  /\ ServerOk(tcb_set, tcb, app)
  /\ LoopOk(plan.mode = "epoll", app, rdlist, items)
  /\ CoreOk(tcb, core)
  /\ \A c \in Clients : Talks(c)

\* Clients that come one after another: all connections but the first of the list
\* have been closed, or are just being closed.
Busy(p) == p.st \notin {"closed", "done"}
OneByOne(q, t, ps, a) ==
  /\ \A c, d \in Clients : Busy(ps[c]) /\ Busy(ps[d]) => c = d
  /\ \A i \in DOMAIN q : i > 1 /\ q[i] # LISTENER => t[q[i]].status = "LAST_ACK" \/ Half(t[q[i]], a)

\* Then the event poll knows the listener and at most the first of the list, and each
\* event stands for a fragment of its ring.
Serves(r, fd) == r.fd = fd /\ r.status \notin {"LAST_ACK", "LISTEN"}
PendingOf(a) ==
  IF a.pc = "wait" THEN <<>>
  ELSE IF a.pc \in {"send", "next", "close", "closing", "add"} THEN Tail(a.ready) ELSE a.ready
Distinct(q) == \A i, j \in DOMAIN q : q[i] = q[j] => i = j
Once(fd, q) == IF fd \in ToSet(q) THEN 1 ELSE 0
EventsOk(b, a, r, it) ==
  /\ Distinct(r) /\ Distinct(a.ready) /\ LISTENFD \in it
  /\ ToSet(r) \cup ToSet(PendingOf(a)) \subseteq it
  /\ a.pc \in {"accept", "accept_wait", "add"} => a.ready[1] = LISTENFD
  /\ a.pc \in {"recv", "recv_wait", "send", "close"} =>
       a.fd = a.ready[1] /\ a.fd # LISTENFD /\ a.fd \in it
  /\ a.pc = "add" => it = {LISTENFD} /\ Serves(b, a.fd)
  /\ a.pc = "closing" => it = {LISTENFD}
  /\ \A fd \in it \ {LISTENFD} :
       Serves(b, fd) /\ Once(fd, r) + Once(fd, PendingOf(a)) <= Len(b.rcvbuf)

SequentialInv ==
  ~plan.together =>
    /\ OneByOne(tcb_set, tcb, peer, app)
    /\ plan.mode = "epoll" => EventsOk(tcb[tcb_set[1]], app, rdlist, items)

-----------------------------------------------------------------------------
(* Sequences and flags *)

\* Every set of natural numbers has a least member.
LEMMA Least ==
  ASSUME NEW T, T \subseteq Nat, T # {}
  PROVE  \E n \in T : \A m \in T : n <= m
<1>1. PICK n \in T : \A m \in T : <<m, n>> \notin OpToRel(<, Nat)
  BY NatLessThanWellFounded, WFMin
<1>2. \A m \in T : ~(m < n)
  BY <1>1 DEF OpToRel
<1> QED
  BY <1>2

\* What Tail leaves of a sequence.
LEMMA TailFacts ==
  ASSUME NEW S, NEW q \in Seq(S), q # <<>>
  PROVE  /\ Head(q) = q[1] /\ Head(q) \in S /\ Tail(q) \in Seq(S)
         /\ 1 \in DOMAIN q /\ Len(q) \in Nat /\ Len(q) > 0
         /\ Len(Tail(q)) = Len(q) - 1
         /\ \A i \in DOMAIN Tail(q) : i \in Nat /\ i + 1 \in DOMAIN q /\ Tail(q)[i] = q[i + 1]
<1>1. /\ Head(q) \in S /\ Tail(q) \in Seq(S) /\ Len(Tail(q)) = Len(q) - 1
      /\ \A i \in 1..Len(Tail(q)) : Tail(q)[i] = q[i + 1]
  BY HeadTailProperties
<1>2. Head(q) = q[1] /\ Len(q) \in Nat /\ Len(q) # 0 /\ DOMAIN q = 1..Len(q)
  OBVIOUS
<1>3. DOMAIN Tail(q) = 1..Len(Tail(q))
  BY <1>1
<1> QED
  BY <1>1, <1>2, <1>3

\* What Append adds to a sequence.
LEMMA AppendFacts ==
  ASSUME NEW S, NEW q \in Seq(S), NEW x \in S
  PROVE  /\ Append(q, x) \in Seq(S) /\ Append(q, x) # <<>>
         /\ Len(q) \in Nat /\ Len(Append(q, x)) = Len(q) + 1
         /\ \A i \in DOMAIN q : Append(q, x)[i] = q[i] /\ i \in 1..Len(q)
         /\ Append(q, x)[Len(q) + 1] = x
         /\ DOMAIN Append(q, x) = DOMAIN q \cup {Len(q) + 1}
<1>1. /\ Append(q, x) \in Seq(S) /\ Append(q, x) # <<>>
      /\ Len(Append(q, x)) = Len(q) + 1
      /\ \A i \in 1..Len(q) : Append(q, x)[i] = q[i]
      /\ Append(q, x)[Len(q) + 1] = x
  BY AppendProperties
<1>2. Len(q) \in Nat /\ DOMAIN q = 1..Len(q)
  OBVIOUS
<1>3. DOMAIN Append(q, x) = 1..(Len(q) + 1)
  BY <1>1
<1>4. 1..(Len(q) + 1) = (1..Len(q)) \cup {Len(q) + 1}
  BY <1>2
<1> QED
  BY <1>1, <1>2, <1>3, <1>4

\* A segment of the model has one purpose only.
LEMMA Flags ==
  ASSUME NEW f \in Kinds
  PROVE  /\ "SYN" \in f => "PSH" \notin f /\ "FIN" \notin f /\ f # {"ACK"}
         /\ "PSH" \in f => "SYN" \notin f /\ "FIN" \notin f /\ f # {"ACK"}
         /\ "FIN" \in f => "SYN" \notin f /\ "PSH" \notin f /\ f # {"ACK"}
         /\ "SYN" \in f \/ "PSH" \in f \/ "FIN" \in f \/ f = {"ACK"}
BY DEF Kinds

\* A segment with flags, numbers and data.
LEMMA SegmentFacts ==
  ASSUME NEW f \in Kinds, NEW n \in Int, NEW a \in Int, NEW d \in Nat
  PROVE  /\ Segment(f, n, a, d) \in Segments
         /\ Segment(f, n, a, d).flags = f /\ Segment(f, n, a, d).seq = n
         /\ Segment(f, n, a, d).ack = a /\ Segment(f, n, a, d).data = d
BY DEF Segment, Segments

\* The kinds of segments that the two sides send.
LEMMA KindFacts ==
  /\ {"SYN"} \in Kinds /\ {"SYN", "ACK"} \in Kinds /\ {"ACK"} \in Kinds
  /\ {"PSH", "ACK"} \in Kinds /\ {"FIN", "ACK"} \in Kinds
  /\ "SYN" \in {"SYN"} /\ "SYN" \in {"SYN", "ACK"}
  /\ "PSH" \in {"PSH", "ACK"} /\ "FIN" \in {"FIN", "ACK"}
  /\ "SYN" \notin {"ACK"} /\ "PSH" \notin {"ACK"} /\ "FIN" \notin {"ACK"}
BY DEF Kinds

-----------------------------------------------------------------------------
(* The conversation of a client and its control block *)

\* It is about less when less is promised.
LEMMA TalkLess ==
  ASSUME NEW polite, NEW polite2, NEW p, NEW net, NEW pipe, NEW b, NEW hand, NEW data,
         Talk(polite, p, net, pipe, b, hand, data), polite2 => polite
  PROVE  Talk(polite2, p, net, pipe, b, hand, data)
BY DEF Talk

\* It depends on three fields of the control block.
LEMMA TalkSame ==
  ASSUME NEW polite, NEW p, NEW net, NEW pipe, NEW b, NEW b2, NEW hand, NEW data,
         Talk(polite, p, net, pipe, b, hand, data),
         b2.status = b.status, b2.rcvbuf = b.rcvbuf, b2.snd_nxt = b.snd_nxt
  PROVE  Talk(polite, p, net, pipe, b2, hand, data)
<1>1. Wire(p, net, pipe, b2)
  BY DEF Talk, Wire
<1>2. ASSUME polite PROVE Unit(p, net, pipe, b2, hand, data)
  BY <1>2 DEF Talk, Unit, UnitAt
<1>3. ASSUME polite PROVE Step(p, net, pipe, b2)
  BY <1>3 DEF Talk, Step
<1> QED
  BY <1>1, <1>2, <1>3 DEF Talk

\* A segment is taken and ignored.
LEMMA TalkDrop ==
  ASSUME NEW polite, NEW p, NEW net \in Seq(Segments), NEW pipe, NEW b, NEW hand, NEW data,
         Talk(polite, p, net, pipe, b, hand, data), net # <<>>
  PROVE  Talk(polite, p, Tail(net), pipe, b, hand, data)
<1>1. /\ Tail(net) \in Seq(Segments) /\ Len(Tail(net)) = Len(net) - 1
      /\ 1 \in DOMAIN net
      /\ \A i \in DOMAIN Tail(net) : i \in Nat /\ i + 1 \in DOMAIN net /\ Tail(net)[i] = net[i + 1]
  BY TailFacts
<1>2. Len(net) \in Nat /\ \A i \in DOMAIN Tail(net) : i > 0
  BY <1>1
<1>3. Wire(p, Tail(net), pipe, b)
  BY <1>1, <1>2 DEF Talk, Wire
<1>4. ASSUME polite PROVE Unit(p, Tail(net), pipe, b, hand, data)
  <2>1. /\ Len(p.got) <= p.sent
        /\ \A i \in 1..Len(p.got) : p.got[i] = i
    BY <1>4 DEF Talk, Unit
  <2>2. PICK at \in Places, k \in Int : UnitAt(p, net, pipe, b, hand, data, at, k)
    BY <1>4 DEF Talk, Unit
  <2>3. CASE at = "net"
    <3>1. UnitAt(p, Tail(net), pipe, b, hand, data, at, k - 1)
      BY <1>1, <2>2, <2>3 DEF UnitAt
    <3> QED
      BY <2>1, <3>1 DEF Unit
  <2>4. CASE at # "net"
    <3>1. UnitAt(p, Tail(net), pipe, b, hand, data, at, k)
      BY <1>1, <2>2, <2>4 DEF UnitAt
    <3> QED
      BY <2>1, <3>1 DEF Unit
  <2> QED
    BY <2>3, <2>4
<1>5. ASSUME polite PROVE Step(p, Tail(net), pipe, b)
  BY <1>1, <1>2, <1>5 DEF Talk, Step
<1> QED
  BY <1>3, <1>4, <1>5 DEF Talk

\* ng_tcp_handle_syn_rcvd: the connection is established.
LEMMA TalkOpen ==
  ASSUME NEW polite, NEW p, NEW net \in Seq(Segments), NEW pipe, NEW b, NEW b2, NEW hand, NEW data,
         Talk(polite, p, net, pipe, b, hand, data), net # <<>>,
         b.status = "SYN_RCVD", b2.status = "ESTABLISHED", b2.rcvbuf = b.rcvbuf,
         b2.snd_nxt = b.snd_nxt
  PROVE  Talk(polite, p, Tail(net), pipe, b2, hand, data)
<1>1. Talk(polite, p, Tail(net), pipe, b, hand, data)
  BY TalkDrop
<1>2. Wire(p, Tail(net), pipe, b2)
  BY <1>1 DEF Talk, Wire
<1>3. ASSUME polite PROVE Unit(p, Tail(net), pipe, b2, hand, data)
  BY <1>1, <1>3 DEF Talk, Unit, UnitAt
<1>4. ASSUME polite PROVE Step(p, Tail(net), pipe, b2)
  BY <1>1, <1>4 DEF Talk, Step
<1> QED
  BY <1>2, <1>3, <1>4 DEF Talk

\* ng_tcp_handle_listen: a control block for the client.
LEMMA TalkSyn ==
  ASSUME NEW polite, NEW p, NEW net \in Seq(Segments), NEW pipe, NEW b, NEW b2, NEW hand, NEW data,
         Talk(polite, p, net, pipe, b, hand, data), net # <<>>,
         "SYN" \in Head(net).flags,
         b2.status = "SYN_RCVD", b2.rcvbuf = <<>>,
         NEW x \in Segments, x.flags = {"SYN", "ACK"}, NEW out, out = <<x>>
  PROVE  /\ b.status = "CLOSED" /\ pipe = <<>> /\ p.st = "syn_sent"
         /\ Talk(polite, p, Tail(net), out, b2, hand, data)
<1>1. /\ Head(net) = net[1] /\ 1 \in DOMAIN net /\ Tail(net) \in Seq(Segments)
      /\ \A i \in DOMAIN Tail(net) : i \in Nat /\ i + 1 \in DOMAIN net /\ Tail(net)[i] = net[i + 1]
  BY TailFacts
<1>2. b.status = "CLOSED" /\ pipe = <<>> /\ p.st = "syn_sent"
  BY <1>1 DEF Talk, Wire
<1>3. \A i \in DOMAIN Tail(net) : i + 1 # 1
  BY <1>1
<1>4. \A i \in DOMAIN Tail(net) : /\ "SYN" \notin Tail(net)[i].flags
                                  /\ "PSH" \in Tail(net)[i].flags => Tail(net)[i].data # 0
  BY <1>1, <1>3 DEF Talk, Wire
<1>5. DOMAIN out = {1} /\ out[1] = x
  OBVIOUS
<1>6. "FIN" \notin x.flags /\ "PSH" \notin x.flags
  OBVIOUS
<1>7. Wire(p, Tail(net), out, b2)
  BY <1>2, <1>4, <1>5, <1>6 DEF Wire
<1>8. ASSUME polite PROVE Unit(p, Tail(net), out, b2, hand, data)
  <2>1. PICK at \in Places, k \in Int : UnitAt(p, net, pipe, b, hand, data, at, k)
    BY <1>8 DEF Talk, Unit
  <2>2. at = "nowhere"
    BY <1>2, <2>1 DEF UnitAt
  <2>3. UnitAt(p, Tail(net), out, b2, hand, data, at, k)
    BY <1>1, <1>5, <1>6, <2>1, <2>2 DEF UnitAt
  <2> QED
    BY <1>8, <2>3 DEF Talk, Unit
<1>9. ASSUME polite PROVE Step(p, Tail(net), out, b2)
  <2>1. Step(p, net, pipe, b)
    BY <1>9 DEF Talk
  <2>2. \A i \in DOMAIN net : "FIN" \notin net[i].flags
    BY <1>2, <2>1 DEF Step
  <2>3. \A i \in DOMAIN Tail(net) : "FIN" \notin Tail(net)[i].flags
    BY <1>1, <2>2
  <2> QED
    BY <1>2, <1>5, <1>6, <2>1, <2>3 DEF Step
<1> QED
  BY <1>2, <1>7, <1>8, <1>9 DEF Talk

\* ng_tcp_handle_established, a segment with data.
LEMMA TalkData ==
  ASSUME NEW polite, NEW p, NEW net \in Seq(Segments), NEW pipe,
         NEW b, NEW b2, NEW hand, NEW data,
         Talk(polite, p, net, pipe, b, hand, data), net # <<>>,
         "PSH" \in Head(net).flags, b.rcvbuf \in Seq(Nat),
         b.status = "ESTABLISHED", b2.status = "ESTABLISHED",
         b2.rcvbuf = Append(b.rcvbuf, Head(net).data), b2.snd_nxt = Head(net).ack
  PROVE  Talk(polite, p, Tail(net), pipe, b2, hand, data)
<1> DEFINE u == Head(net).data
<1>1. /\ Head(net) = net[1] /\ 1 \in DOMAIN net /\ Tail(net) \in Seq(Segments)
      /\ Head(net) \in Segments
      /\ \A i \in DOMAIN Tail(net) : i \in Nat /\ i + 1 \in DOMAIN net /\ Tail(net)[i] = net[i + 1]
  BY TailFacts
<1>2. u \in Nat
  BY <1>1 DEF Segments
<1>3. /\ Len(b.rcvbuf) \in Nat
      /\ \A i \in DOMAIN b.rcvbuf : b2.rcvbuf[i] = b.rcvbuf[i] /\ i \in 1..Len(b.rcvbuf)
      /\ b2.rcvbuf[Len(b.rcvbuf) + 1] = u
      /\ DOMAIN b2.rcvbuf = DOMAIN b.rcvbuf \cup {Len(b.rcvbuf) + 1}
  BY <1>2, AppendFacts
<1>4. Talk(polite, p, Tail(net), pipe, b, hand, data)
  BY TalkDrop
<1>5. Wire(p, Tail(net), pipe, b2)
  BY <1>4 DEF Talk, Wire
<1>6. ASSUME polite PROVE Unit(p, Tail(net), pipe, b2, hand, data)
  <2>1. PICK at \in Places, k \in Int : UnitAt(p, net, pipe, b, hand, data, at, k)
    BY <1>6 DEF Talk, Unit
  <2>2. at = "net" /\ k = 1 /\ u = p.sent /\ b2.snd_nxt = p.rcv
    BY <1>1, <2>1 DEF UnitAt
  <2>3. \A i \in DOMAIN Tail(net) : "PSH" \notin Tail(net)[i].flags
    <3> SUFFICES ASSUME NEW i \in DOMAIN Tail(net), "PSH" \in Tail(net)[i].flags PROVE FALSE
      OBVIOUS
    <3>1. i + 1 = 1 /\ i \in 1..Len(Tail(net))
      BY <1>1, <2>1, <2>2 DEF UnitAt
    <3> QED
      BY <3>1
  <2>4. \A i \in DOMAIN b.rcvbuf : b.rcvbuf[i] = 0
    BY <2>1, <2>2 DEF UnitAt
  <2>5. \A i \in DOMAIN b2.rcvbuf :
          b2.rcvbuf[i] # 0 => i = Len(b.rcvbuf) + 1 /\ b2.rcvbuf[i] = p.sent
    BY <1>3, <2>2, <2>4
  <2>6. UnitAt(p, Tail(net), pipe, b2, hand, data, "ring", Len(b.rcvbuf) + 1)
    BY <2>1, <2>2, <2>3, <2>5 DEF UnitAt
  <2> QED
    BY <1>3, <1>6, <2>6 DEF Talk, Unit, Places
<1>7. ASSUME polite PROVE Step(p, Tail(net), pipe, b2)
  BY <1>4, <1>7 DEF Talk, Step
<1> QED
  BY <1>5, <1>6, <1>7 DEF Talk

\* ng_tcp_handle_established, the end of the client's side.
LEMMA TalkFin ==
  ASSUME NEW polite, NEW p, NEW net \in Seq(Segments), NEW pipe,
         NEW b, NEW b2, NEW hand, NEW data,
         Talk(polite, p, net, pipe, b, hand, data), net # <<>>,
         "FIN" \in Head(net).flags, b.rcvbuf \in Seq(Nat),
         b.status = "ESTABLISHED", b2.status = "CLOSE_WAIT",
         b2.rcvbuf = Append(b.rcvbuf, 0), b2.snd_nxt = Head(net).ack
  PROVE  Talk(polite, p, Tail(net), pipe, b2, hand, data)
<1>1. /\ Head(net) = net[1] /\ 1 \in DOMAIN net /\ Tail(net) \in Seq(Segments)
      /\ Head(net) \in Segments /\ Len(net) \in Nat /\ Len(Tail(net)) = Len(net) - 1
  BY TailFacts
<1>2. /\ Len(b.rcvbuf) \in Nat
      /\ \A i \in DOMAIN b.rcvbuf : b2.rcvbuf[i] = b.rcvbuf[i] /\ i \in 1..Len(b.rcvbuf)
      /\ b2.rcvbuf[Len(b.rcvbuf) + 1] = 0
      /\ DOMAIN b2.rcvbuf = DOMAIN b.rcvbuf \cup {Len(b.rcvbuf) + 1}
  BY AppendFacts
<1>3. Talk(polite, p, Tail(net), pipe, b, hand, data)
  BY TalkDrop
<1>4. Wire(p, Tail(net), pipe, b2)
  BY <1>3 DEF Talk, Wire
<1>5. ASSUME polite PROVE p.st = "fin_wait" /\ 1 = Len(net) /\ net[1].ack = p.rcv
  BY <1>1, <1>5 DEF Talk, Step
<1>6. ASSUME polite PROVE Unit(p, Tail(net), pipe, b2, hand, data)
  <2>1. PICK at \in Places, k \in Int : UnitAt(p, Tail(net), pipe, b, hand, data, at, k)
    BY <1>3, <1>6 DEF Talk, Unit
  <2>2. at = "nowhere"
    BY <1>5, <1>6, <2>1 DEF UnitAt
  <2>3. \A i \in DOMAIN b2.rcvbuf :
          b2.rcvbuf[i] # 0 => i \in DOMAIN b.rcvbuf /\ b2.rcvbuf[i] = b.rcvbuf[i]
    BY <1>2
  <2>4. UnitAt(p, Tail(net), pipe, b2, hand, data, at, k)
    BY <2>1, <2>2, <2>3 DEF UnitAt
  <2> QED
    BY <1>6, <2>4 DEF Talk, Unit
<1>7. ASSUME polite PROVE Step(p, Tail(net), pipe, b2)
  <2>1. Tail(net) = <<>>
    <3>0. Len(net) = 1
      BY <1>5, <1>7
    <3>1. Len(Tail(net)) = 0
      BY <1>1, <3>0
    <3> QED
      BY <1>1, <3>1, EmptySeq
  <2> QED
    BY <1>1, <1>3, <1>5, <1>7, <2>1 DEF Talk, Step
<1> QED
  BY <1>4, <1>6, <1>7 DEF Talk

\* ng_tcp_send_ackpkt: a segment without data follows.
LEMMA TalkAcked ==
  ASSUME NEW polite, NEW p, NEW net, NEW pipe \in Seq(Segments), NEW b, NEW b2,
         NEW hand, NEW data,
         Talk(polite, p, net, pipe, b, hand, data), b.status # "CLOSED",
         b2.status = b.status, b2.rcvbuf = b.rcvbuf, b2.snd_nxt = b.snd_nxt,
         NEW x \in Segments, x.flags = {"ACK"}
  PROVE  Talk(polite, p, net, Append(pipe, x), b2, hand, data)
<1>1. /\ \A i \in DOMAIN pipe : Append(pipe, x)[i] = pipe[i]
      /\ Append(pipe, x)[Len(pipe) + 1] = x
      /\ DOMAIN Append(pipe, x) = DOMAIN pipe \cup {Len(pipe) + 1}
  BY AppendFacts
<1>2. "FIN" \notin x.flags /\ "PSH" \notin x.flags /\ "SYN" \notin x.flags
  OBVIOUS
<1>3. \A i \in DOMAIN Append(pipe, x) :
        /\ \/ "SYN" \in Append(pipe, x)[i].flags
           \/ "FIN" \in Append(pipe, x)[i].flags
           \/ "PSH" \in Append(pipe, x)[i].flags
           => i \in DOMAIN pipe
        /\ i \in DOMAIN pipe => Append(pipe, x)[i] = pipe[i]
  BY <1>1, <1>2
<1>4. Talk(polite, p, net, pipe, b2, hand, data)
  BY TalkSame
<1>5. Wire(p, net, Append(pipe, x), b2)
  <2>1. p.st # "closed" /\ \A i \in DOMAIN net : "SYN" \notin net[i].flags
    BY <1>4 DEF Talk, Wire
  <2> QED
    BY <1>3, <1>4, <2>1 DEF Talk, Wire
<1>6. ASSUME polite PROVE Unit(p, net, Append(pipe, x), b2, hand, data)
  <2>1. PICK at \in Places, k \in Int : UnitAt(p, net, pipe, b2, hand, data, at, k)
    BY <1>4, <1>6 DEF Talk, Unit
  <2>2. UnitAt(p, net, Append(pipe, x), b2, hand, data, at, k)
    BY <1>3, <2>1 DEF UnitAt
  <2> QED
    BY <1>4, <1>6, <2>2 DEF Talk, Unit
<1>7. ASSUME polite PROVE Step(p, net, Append(pipe, x), b2)
  BY <1>3, <1>4, <1>7 DEF Talk, Step
<1> QED
  BY <1>5, <1>6, <1>7 DEF Talk

\* ng_tcp_handle_last_ack: the control block is gone, and what it had not sent.
LEMMA TalkFreed ==
  ASSUME NEW polite, NEW p, NEW net \in Seq(Segments), NEW pipe, NEW pipe2, NEW b, NEW b2,
         NEW hand, NEW data,
         Talk(polite, p, net, pipe, b, hand, data), net # <<>>,
         b.status = "LAST_ACK", b2.status = "CLOSED", b2.rcvbuf = <<>>,
         \A i \in DOMAIN pipe2 : i \in DOMAIN pipe /\ pipe2[i] = pipe[i]
  PROVE  /\ Talk(polite, p, Tail(net), pipe2, b2, hand, data)
         /\ polite => p.st = "done"
<1>1. Talk(polite, p, Tail(net), pipe, b, hand, data)
  BY TalkDrop
<1>2. Wire(p, Tail(net), pipe2, b2)
  <2>1. p.st # "closed" /\ \A i \in DOMAIN Tail(net) : "SYN" \notin Tail(net)[i].flags
    BY <1>1 DEF Talk, Wire
  <2> QED
    BY <1>1, <2>1 DEF Talk, Wire
<1>3. ASSUME polite PROVE Unit(p, Tail(net), pipe2, b2, hand, data)
  <2>1. PICK at \in Places, k \in Int : UnitAt(p, Tail(net), pipe, b, hand, data, at, k)
    BY <1>1, <1>3 DEF Talk, Unit
  <2>3. at = "nowhere"
    BY <1>1, <1>3, <2>1 DEF Talk, Step, UnitAt
  <2>2. UnitAt(p, Tail(net), pipe2, b2, hand, data, at, k)
    BY <2>1, <2>3 DEF UnitAt
  <2> QED
    BY <1>1, <1>3, <2>2 DEF Talk, Unit
<1>4. ASSUME polite PROVE Step(p, Tail(net), pipe2, b2) /\ p.st = "done"
  <2>1. Step(p, net, pipe, b) /\ Step(p, Tail(net), pipe, b)
    BY <1>1, <1>4 DEF Talk
  <2>2. p.st = "done"
    BY <2>1 DEF Step
  <2> QED
    BY <2>1, <2>2 DEF Step
<1> QED
  BY <1>2, <1>3, <1>4 DEF Talk

\* nrecv: a unit goes from the ring to the hands of the server, or the end does.
LEMMA TalkRead ==
  ASSUME NEW polite, NEW p, NEW net, NEW pipe, NEW b, NEW b2, NEW data, NEW hand2 \in BOOLEAN, NEW data2,
         Talk(polite, p, net, pipe, b, FALSE, data),
         b.rcvbuf \in Seq(Nat), b.rcvbuf # <<>>,
         b2.status = b.status, b2.snd_nxt = b.snd_nxt, b2.rcvbuf = Tail(b.rcvbuf),
         data2 = Head(b.rcvbuf), hand2 => data2 # 0
  PROVE  Talk(polite, p, net, pipe, b2, hand2, data2)
<1>1. Wire(p, net, pipe, b2)
  BY DEF Talk, Wire
<1>2. ASSUME polite PROVE Step(p, net, pipe, b2)
  BY <1>2 DEF Talk, Step
<1>3. ASSUME polite PROVE Unit(p, net, pipe, b2, hand2, data2)
  <2>1. /\ Head(b.rcvbuf) = b.rcvbuf[1] /\ 1 \in DOMAIN b.rcvbuf
        /\ Tail(b.rcvbuf) \in Seq(Nat)
        /\ \A i \in DOMAIN Tail(b.rcvbuf) :
             i \in Nat /\ i + 1 \in DOMAIN b.rcvbuf /\ Tail(b.rcvbuf)[i] = b.rcvbuf[i + 1]
    BY TailFacts
  <2>2. PICK at \in Places, k \in Int : UnitAt(p, net, pipe, b, FALSE, data, at, k)
    BY <1>3 DEF Talk, Unit
  <2>3. \A i \in DOMAIN Tail(b.rcvbuf) : i + 1 # 1
    BY <2>1
  <2>4. CASE hand2
    <3>1. at = "ring" /\ k = 1 /\ data2 = p.sent
      BY <2>1, <2>2, <2>4 DEF UnitAt
    <3>2. \A i \in DOMAIN b2.rcvbuf : b2.rcvbuf[i] = 0
      BY <2>1, <2>2, <2>3, <3>1 DEF UnitAt
    <3>3. UnitAt(p, net, pipe, b2, hand2, data2, "hand", 1)
      BY <2>2, <3>1, <3>2 DEF UnitAt
    <3> QED
      BY <1>3, <3>3 DEF Talk, Unit, Places
  <2>5. CASE ~hand2
    <3>1. CASE at = "ring"
      <4>1. \A i \in DOMAIN b2.rcvbuf :
              b2.rcvbuf[i] # 0 => i = k - 1 /\ b2.rcvbuf[i] = p.sent
        <5> SUFFICES ASSUME NEW i \in DOMAIN Tail(b.rcvbuf), Tail(b.rcvbuf)[i] # 0
                     PROVE  i = k - 1 /\ Tail(b.rcvbuf)[i] = p.sent
          OBVIOUS
        <5>1. i \in Nat /\ i + 1 = k /\ b.rcvbuf[i + 1] = p.sent /\ Tail(b.rcvbuf)[i] = b.rcvbuf[i + 1]
          BY <2>1, <2>2 DEF UnitAt
        <5> QED
          BY <5>1
      <4>2. UnitAt(p, net, pipe, b2, hand2, data2, at, k - 1)
        BY <2>2, <2>5, <3>1, <4>1 DEF UnitAt
      <4> QED
        BY <1>3, <4>2 DEF Talk, Unit
    <3>2. CASE at # "ring"
      <4>1. UnitAt(p, net, pipe, b2, hand2, data2, at, k)
        BY <2>1, <2>2, <2>5, <3>2 DEF UnitAt
      <4> QED
        BY <1>3, <4>1 DEF Talk, Unit
    <3> QED
      BY <3>1, <3>2
  <2> QED
    BY <2>4, <2>5
<1> QED
  BY <1>1, <1>2, <1>3 DEF Talk

\* nsend: the unit in the hands of the server goes back.
LEMMA TalkAnswer ==
  ASSUME NEW polite, NEW p, NEW net, NEW pipe \in Seq(Segments), NEW b, NEW b2, NEW data, NEW data2,
         Talk(polite, p, net, pipe, b, TRUE, data), b.status \in Serving,
         b2.status = b.status, b2.snd_nxt = b.snd_nxt, b2.rcvbuf = b.rcvbuf,
         NEW x \in Segments, x.flags = {"PSH", "ACK"}, x.data = data, polite => x.seq = b.snd_nxt
  PROVE  Talk(polite, p, net, Append(pipe, x), b2, FALSE, data2)
<1>1. /\ \A i \in DOMAIN pipe : Append(pipe, x)[i] = pipe[i]
      /\ Append(pipe, x)[Len(pipe) + 1] = x /\ Len(pipe) \in Nat
      /\ DOMAIN Append(pipe, x) = DOMAIN pipe \cup {Len(pipe) + 1}
  BY AppendFacts
<1>2. "FIN" \notin x.flags /\ "SYN" \notin x.flags
  OBVIOUS
<1>3. \A i \in DOMAIN Append(pipe, x) :
        /\ "SYN" \in Append(pipe, x)[i].flags \/ "FIN" \in Append(pipe, x)[i].flags => i \in DOMAIN pipe
        /\ i \in DOMAIN pipe => Append(pipe, x)[i] = pipe[i]
  BY <1>1, <1>2
<1>4. Wire(p, net, Append(pipe, x), b2)
  <2>1. \A i \in DOMAIN net : "SYN" \notin net[i].flags
    BY DEF Talk, Wire, Serving
  <2> QED
    BY <1>3, <2>1 DEF Talk, Wire, Serving
<1>5. ASSUME polite PROVE Unit(p, net, Append(pipe, x), b2, FALSE, data2)
  <2>1. PICK at \in Places, k \in Int : UnitAt(p, net, pipe, b, TRUE, data, at, k)
    BY <1>5 DEF Talk, Unit
  <2>2. at = "hand" /\ data = p.sent /\ x.seq = p.rcv
    BY <1>5, <2>1 DEF UnitAt
  <2>3. \A i \in DOMAIN Append(pipe, x) : "PSH" \in Append(pipe, x)[i].flags =>
          i = Len(pipe) + 1 /\ Append(pipe, x)[i].data = p.sent /\ Append(pipe, x)[i].seq = p.rcv
    BY <1>1, <2>1, <2>2 DEF UnitAt
  <2>4. UnitAt(p, net, Append(pipe, x), b2, FALSE, data2, "pipe", Len(pipe) + 1)
    BY <2>1, <2>2, <2>3 DEF UnitAt
  <2>5. "pipe" \in Places /\ Len(pipe) + 1 \in Int
    BY <1>1 DEF Places
  <2> QED
    BY <1>5, <2>4, <2>5 DEF Talk, Unit
<1>6. ASSUME polite PROVE Step(p, net, Append(pipe, x), b2)
  BY <1>3, <1>6 DEF Talk, Step
<1> QED
  BY <1>4, <1>5, <1>6 DEF Talk

\* nclose: the end of the server's side.
LEMMA TalkClose ==
  ASSUME NEW polite, NEW p, NEW net, NEW pipe \in Seq(Segments), NEW b, NEW b2, NEW hand, NEW data,
         Talk(polite, p, net, pipe, b, hand, data),
         b.status = "CLOSE_WAIT", b2.status = "LAST_ACK", b2.rcvbuf = b.rcvbuf,
         b2.snd_nxt = b.snd_nxt,
         NEW x \in Segments, x.flags = {"FIN", "ACK"}, polite => x.seq = b.snd_nxt
  PROVE  Talk(polite, p, net, Append(pipe, x), b2, hand, data)
<1>1. /\ \A i \in DOMAIN pipe : Append(pipe, x)[i] = pipe[i]
      /\ Append(pipe, x)[Len(pipe) + 1] = x /\ Len(pipe) \in Nat
      /\ DOMAIN Append(pipe, x) = DOMAIN pipe \cup {Len(pipe) + 1}
  BY AppendFacts
<1>2. "PSH" \notin x.flags /\ "SYN" \notin x.flags
  OBVIOUS
<1>3. \A i \in DOMAIN pipe : "FIN" \notin pipe[i].flags
  BY DEF Talk, Wire
<1>4. \A i \in DOMAIN Append(pipe, x) :
        /\ "SYN" \in Append(pipe, x)[i].flags \/ "PSH" \in Append(pipe, x)[i].flags => i \in DOMAIN pipe
        /\ i \in DOMAIN pipe => Append(pipe, x)[i] = pipe[i]
        /\ "FIN" \in Append(pipe, x)[i].flags => i = Len(pipe) + 1 /\ Append(pipe, x)[i] = x
  BY <1>1, <1>2, <1>3
<1>5. Wire(p, net, Append(pipe, x), b2)
  <2>1. p.st # "closed" /\ \A i \in DOMAIN net : "SYN" \notin net[i].flags
    BY DEF Talk, Wire
  <2> QED
    BY <2>1 DEF Talk, Wire
<1>6. ASSUME polite PROVE Unit(p, net, Append(pipe, x), b2, hand, data)
  <2>1. PICK at \in Places, k \in Int : UnitAt(p, net, pipe, b, hand, data, at, k)
    BY <1>6 DEF Talk, Unit
  <2>2. UnitAt(p, net, Append(pipe, x), b2, hand, data, at, k)
    BY <1>4, <2>1 DEF UnitAt
  <2> QED
    BY <1>6, <2>2 DEF Talk, Unit
<1>7. ASSUME polite PROVE Step(p, net, Append(pipe, x), b2)
  <2>1. Step(p, net, pipe, b)
    BY <1>7 DEF Talk
  <2>2. p.st = "fin_wait" /\ net = <<>> /\ x.seq = p.rcv
    BY <1>7, <2>1 DEF Step
  <2> QED
    BY <1>4, <2>1, <2>2 DEF Step
<1> QED
  BY <1>5, <1>6, <1>7 DEF Talk

\* Connect, of a TCP peer.
LEMMA TalkConnect ==
  ASSUME NEW polite, NEW p \in Peers, NEW p2, NEW net, NEW pipe, NEW b, NEW hand, NEW data,
         Talk(polite, p, net, pipe, b, hand, data),
         p.st = "closed", p2.st = "syn_sent", p2.sent = p.sent, p2.got = p.got,
         NEW x \in Segments, x.flags = {"SYN"}
  PROVE  Talk(polite, p2, Append(net, x), pipe, b, hand, data)
<1>1. net = <<>> /\ pipe = <<>> /\ b.status = "CLOSED" /\ p.sent = 0 /\ p.got = <<>>
  BY DEF Talk, Wire
<1>2. Append(net, x) = <<x>>
  BY <1>1
<1>3. DOMAIN <<x>> = {1} /\ <<x>>[1] = x
  OBVIOUS
<1>4. "FIN" \notin x.flags /\ "PSH" \notin x.flags
  OBVIOUS
<1>5. Wire(p2, <<x>>, pipe, b)
  BY <1>1, <1>3, <1>4 DEF Talk, Wire
<1>6. ASSUME polite PROVE Unit(p2, <<x>>, pipe, b, hand, data)
  <2>1. PICK at \in Places, k \in Int : UnitAt(p, net, pipe, b, hand, data, at, k)
    BY <1>6 DEF Talk, Unit
  <2>2. at = "nowhere"
    BY <2>1 DEF UnitAt
  <2>3. UnitAt(p2, <<x>>, pipe, b, hand, data, at, k)
    BY <1>3, <1>4, <2>1, <2>2 DEF UnitAt
  <2> QED
    BY <1>6, <2>3 DEF Talk, Unit
<1>7. ASSUME polite PROVE Step(p2, <<x>>, pipe, b)
  BY <1>1, <1>3, <1>4, <1>7 DEF Talk, Step
<1> QED
  BY <1>2, <1>5, <1>6, <1>7 DEF Talk

\* SendData: a polite client has got back all it sent.
LEMMA TalkSend ==
  ASSUME NEW polite, NEW p \in Peers, NEW p2, NEW net \in Seq(Segments), NEW pipe, NEW b,
         NEW hand, NEW data,
         Talk(polite, p, net, pipe, b, hand, data),
         p.st = "established", polite => Len(p.got) = p.sent,
         p2.st = p.st, p2.rcv = p.rcv, p2.sent = p.sent + 1, p2.got = p.got,
         NEW x \in Segments, x.flags = {"PSH", "ACK"}, x.data = p.sent + 1, x.ack = p.rcv
  PROVE  Talk(polite, p2, Append(net, x), pipe, b, hand, data)
<1>1. /\ \A i \in DOMAIN net : Append(net, x)[i] = net[i]
      /\ Append(net, x)[Len(net) + 1] = x /\ Len(net) \in Nat
      /\ DOMAIN Append(net, x) = DOMAIN net \cup {Len(net) + 1}
      /\ Len(Append(net, x)) = Len(net) + 1
  BY AppendFacts
<1>2. "FIN" \notin x.flags /\ "SYN" \notin x.flags
  OBVIOUS
<1>3. p.sent \in Nat /\ p.got \in Seq(Nat) /\ p.sent + 1 # 0
  BY DEF Peers
<1>4. \A i \in DOMAIN Append(net, x) :
        /\ "SYN" \in Append(net, x)[i].flags \/ "FIN" \in Append(net, x)[i].flags => i \in DOMAIN net
        /\ i \in DOMAIN net => Append(net, x)[i] = net[i]
        /\ i \notin DOMAIN net => i = Len(net) + 1 /\ Append(net, x)[i] = x
  BY <1>1, <1>2
<1>5. Wire(p2, Append(net, x), pipe, b)
  <2>1. \A i \in DOMAIN net : "SYN" \notin net[i].flags
    BY DEF Talk, Wire
  <2>2. \A i \in DOMAIN Append(net, x) :
          /\ "SYN" \notin Append(net, x)[i].flags
          /\ "PSH" \in Append(net, x)[i].flags => Append(net, x)[i].data # 0
    BY <1>3, <1>4, <2>1 DEF Talk, Wire
  <2> QED
    BY <2>2 DEF Talk, Wire
<1>6. ASSUME polite PROVE Unit(p2, Append(net, x), pipe, b, hand, data)
  <2>1. PICK at \in Places, k \in Int : UnitAt(p, net, pipe, b, hand, data, at, k)
    BY <1>6 DEF Talk, Unit
  <2>2. at = "nowhere"
    BY <1>3, <1>6, <2>1 DEF UnitAt
  <2>3. \A i \in DOMAIN Append(net, x) : "PSH" \in Append(net, x)[i].flags =>
          i = Len(net) + 1 /\ Append(net, x)[i].data = p2.sent /\ Append(net, x)[i].ack = p2.rcv
    BY <1>4, <2>1, <2>2 DEF UnitAt
  <2>4. UnitAt(p2, Append(net, x), pipe, b, hand, data, "net", Len(net) + 1)
    BY <1>6, <2>1, <2>2, <2>3 DEF UnitAt
  <2>5. "net" \in Places /\ Len(net) + 1 \in Int
    BY <1>1 DEF Places
  <2>6. /\ Len(p2.got) <= p2.sent
        /\ \A i \in 1..Len(p2.got) : p2.got[i] = i
    BY <1>3, <1>6 DEF Talk, Unit
  <2> QED
    BY <2>4, <2>5, <2>6 DEF Unit
<1>7. ASSUME polite PROVE Step(p2, Append(net, x), pipe, b)
  <2>1. Step(p, net, pipe, b)
    BY <1>7 DEF Talk
  <2>2. \A i \in DOMAIN net : "FIN" \notin net[i].flags
    BY <2>1 DEF Step
  <2> QED
    BY <1>4, <2>1, <2>2 DEF Step
<1> QED
  BY <1>5, <1>6, <1>7 DEF Talk

\* Finish: the client ends its side.
LEMMA TalkFinish ==
  ASSUME NEW polite, NEW p \in Peers, NEW p2, NEW net \in Seq(Segments), NEW pipe, NEW b,
         NEW hand, NEW data,
         Talk(polite, p, net, pipe, b, hand, data),
         p.st = "established", polite => Len(p.got) = p.sent,
         p2.st = "fin_wait", p2.rcv = p.rcv, p2.sent = p.sent, p2.got = p.got,
         NEW x \in Segments, x.flags = {"FIN", "ACK"}, x.ack = p.rcv
  PROVE  Talk(polite, p2, Append(net, x), pipe, b, hand, data)
<1>1. /\ \A i \in DOMAIN net : Append(net, x)[i] = net[i]
      /\ Append(net, x)[Len(net) + 1] = x /\ Len(net) \in Nat
      /\ DOMAIN Append(net, x) = DOMAIN net \cup {Len(net) + 1}
      /\ Len(Append(net, x)) = Len(net) + 1
  BY AppendFacts
<1>2. "PSH" \notin x.flags /\ "SYN" \notin x.flags
  OBVIOUS
<1>3. p.sent \in Nat /\ p.got \in Seq(Nat)
  BY DEF Peers
<1>4. \A i \in DOMAIN Append(net, x) :
        /\ "SYN" \in Append(net, x)[i].flags \/ "PSH" \in Append(net, x)[i].flags => i \in DOMAIN net
        /\ i \in DOMAIN net => Append(net, x)[i] = net[i]
        /\ i \notin DOMAIN net => i = Len(net) + 1 /\ Append(net, x)[i] = x
  BY <1>1, <1>2
<1>5. Wire(p2, Append(net, x), pipe, b)
  BY <1>4 DEF Talk, Wire
<1>6. ASSUME polite PROVE Unit(p2, Append(net, x), pipe, b, hand, data)
  <2>1. PICK at \in Places, k \in Int : UnitAt(p, net, pipe, b, hand, data, at, k)
    BY <1>6 DEF Talk, Unit
  <2>2. at = "nowhere"
    BY <1>3, <1>6, <2>1 DEF UnitAt
  <2>3. UnitAt(p2, Append(net, x), pipe, b, hand, data, at, k)
    BY <1>4, <2>1, <2>2 DEF UnitAt
  <2> QED
    BY <1>6, <2>3 DEF Talk, Unit
<1>7. ASSUME polite PROVE Step(p2, Append(net, x), pipe, b)
  <2>1. Step(p, net, pipe, b)
    BY <1>7 DEF Talk
  <2>2. /\ \A i \in DOMAIN net : "FIN" \notin net[i].flags
        /\ \A i \in DOMAIN pipe : "FIN" \notin pipe[i].flags /\ "SYN" \notin pipe[i].flags
        /\ b.status \notin {"CLOSE_WAIT", "LAST_ACK"}
    BY <2>1 DEF Step, Talk, Wire
  <2>3. \A i \in DOMAIN Append(net, x) : "FIN" \in Append(net, x)[i].flags =>
          i = Len(Append(net, x)) /\ Append(net, x)[i].ack = p2.rcv
    BY <1>1, <1>4, <2>2
  <2> QED
    BY <2>2, <2>3 DEF Step
<1> QED
  BY <1>5, <1>6, <1>7 DEF Talk

\* The client after a segment, and what it has sent then.
After(p, seg, torn) ==
  CASE "SYN" \in seg.flags -> [p EXCEPT !.st = "established", !.rcv = seg.seq + 1]
    [] "PSH" \in seg.flags /\ (seg.seq = p.rcv \/ torn) ->
         [p EXCEPT !.got = Append(p.got, IF torn THEN 0 ELSE seg.data), !.rcv = p.rcv + 1]
    [] "FIN" \in seg.flags /\ seg.seq = p.rcv ->
         [p EXCEPT !.st = IF p.st = "fin_wait" THEN "done" ELSE "half_closed", !.rcv = p.rcv + 1]
    [] OTHER -> p
Answered(net, seg, x) == IF seg.flags = {"ACK"} THEN net ELSE Append(net, x)

\* Receive: what the client makes of the next segment, and its answer.
LEMMA TalkReceive ==
  ASSUME NEW polite, NEW p \in Peers, NEW net \in Seq(Segments),
         NEW pipe \in Seq(Segments), NEW b, NEW hand, NEW data,
         Talk(polite, p, net, pipe, b, hand, data), pipe # <<>>,
         NEW x \in Segments, x.flags = {"ACK"},
         NEW torn \in BOOLEAN, torn => "PSH" \in Head(pipe).flags /\ Head(pipe).seq < p.rcv
  PROVE  /\ Talk(polite, After(p, Head(pipe), torn), Answered(net, Head(pipe), x), Tail(pipe), b, hand, data)
         /\ After(p, Head(pipe), torn) \in Peers
<1> DEFINE seg == Head(pipe)
           p2 == After(p, seg, torn)
           net2 == Answered(net, seg, x)
<1> SUFFICES Talk(polite, p2, net2, Tail(pipe), b, hand, data) /\ p2 \in Peers
  OBVIOUS
<1>0. p2 = After(p, seg, torn) /\ net2 = IF seg.flags = {"ACK"} THEN net ELSE Append(net, x)
  BY DEF Answered
<1> HIDE DEF p2, net2
<1>1. /\ seg = pipe[1] /\ 1 \in DOMAIN pipe /\ Tail(pipe) \in Seq(Segments)
      /\ seg \in Segments /\ Len(pipe) \in Nat /\ Len(Tail(pipe)) = Len(pipe) - 1
      /\ \A i \in DOMAIN Tail(pipe) : i \in Nat /\ i + 1 \in DOMAIN pipe /\ Tail(pipe)[i] = pipe[i + 1]
  BY TailFacts
<1>2. \A i \in DOMAIN Tail(pipe) : i + 1 # 1
  BY <1>1
<1>3. seg.flags \in Kinds /\ seg.seq \in Int /\ seg.data \in Nat
  BY <1>1 DEF Segments
<1>4. /\ \A i \in DOMAIN net : Append(net, x)[i] = net[i]
      /\ Append(net, x)[Len(net) + 1] = x /\ Len(net) \in Nat
      /\ DOMAIN Append(net, x) = DOMAIN net \cup {Len(net) + 1}
      /\ Len(Append(net, x)) = Len(net) + 1
  BY AppendFacts
<1>5. "FIN" \notin x.flags /\ "SYN" \notin x.flags /\ "PSH" \notin x.flags
  OBVIOUS
<1>6. \A i \in DOMAIN net2 :
        /\ "SYN" \in net2[i].flags \/ "PSH" \in net2[i].flags \/ "FIN" \in net2[i].flags => i \in DOMAIN net
        /\ i \in DOMAIN net => net2[i] = net[i]
  BY <1>0, <1>4, <1>5
<1>7. /\ p.st # "closed"
      /\ \A i \in DOMAIN net : "SYN" \notin net[i].flags
  BY DEF Talk, Wire
<1>8. /\ p.st \in PeerStates /\ p.snd \in Int /\ p.rcv \in Int /\ p.sent \in Nat /\ p.got \in Seq(Nat)
      /\ p = [st |-> p.st, snd |-> p.snd, rcv |-> p.rcv, sent |-> p.sent, got |-> p.got]
  BY DEF Peers
<1> DEFINE u == IF torn THEN 0 ELSE seg.data
<1>9. Append(p.got, u) \in Seq(Nat)
  BY <1>3, <1>8, AppendFacts
<1>15. torn => "PSH" \in seg.flags /\ seg.seq # p.rcv
  BY <1>3, <1>8
<1> HIDE DEF seg
<1>10. /\ p2.sent = p.sent
       /\ "SYN" \in seg.flags => p2.st = "established" /\ p2.got = p.got
       /\ "PSH" \in seg.flags => p2.st = p.st
       /\ "PSH" \in seg.flags /\ seg.seq = p.rcv => p2.got = Append(p.got, seg.data)
       /\ "FIN" \in seg.flags /\ seg.seq = p.rcv =>
            p2.st = (IF p.st = "fin_wait" THEN "done" ELSE "half_closed") /\ p2.got = p.got
       /\ ("SYN" \notin seg.flags /\ seg.seq # p.rcv /\ ~torn) \/ seg.flags = {"ACK"} => p2 = p
       /\ p2 \in Peers
  <2>1. CASE "SYN" \in seg.flags
    <3>1. p2 = [p EXCEPT !.st = "established", !.rcv = seg.seq + 1]
      BY <1>0, <1>3, <2>1, Flags DEF After
    <3>2. p2.st = "established" /\ p2.got = p.got /\ p2.sent = p.sent
      BY <1>8, <3>1
    <3>3. p2 \in Peers
      <4>1. p2 = [st |-> "established", snd |-> p.snd, rcv |-> seg.seq + 1, sent |-> p.sent, got |-> p.got]
        BY <1>8, <3>1
      <4> QED
        BY <1>3, <1>8, <4>1 DEF Peers, PeerStates
    <3> QED
      BY <1>3, <2>1, <3>2, <3>3, Flags
  <2>2. CASE "PSH" \in seg.flags /\ (seg.seq = p.rcv \/ torn)
    <3>1. p2 = [p EXCEPT !.got = Append(p.got, u), !.rcv = p.rcv + 1]
      BY <1>0, <1>3, <2>2, Flags DEF After
    <3>2. p2.st = p.st /\ p2.got = Append(p.got, u) /\ p2.sent = p.sent
      BY <1>8, <3>1
    <3>4. seg.seq = p.rcv => u = seg.data
      BY <1>15
    <3>3. p2 \in Peers
      <4> DEFINE g == Append(p.got, u)
                 n == p.rcv + 1
      <4>1. p2 = [st |-> p.st, snd |-> p.snd, rcv |-> n, sent |-> p.sent, got |-> g]
        BY <1>8, <3>1
      <4>2. g \in Seq(Nat) /\ n \in Int
        BY <1>8, <1>9
      <4> HIDE DEF g, n
      <4> QED
        BY <1>8, <4>1, <4>2 DEF Peers
    <3> QED
      BY <1>3, <1>15, <2>2, <3>2, <3>3, <3>4, Flags
  <2>3. CASE "FIN" \in seg.flags /\ seg.seq = p.rcv
    <3> DEFINE st2 == IF p.st = "fin_wait" THEN "done" ELSE "half_closed"
    <3>1. p2 = [p EXCEPT !.st = st2, !.rcv = p.rcv + 1]
      BY <1>0, <1>3, <2>3, Flags DEF After
    <3>2. st2 \in PeerStates
      BY DEF PeerStates
    <3>3. p2.st = st2 /\ p2.got = p.got /\ p2.sent = p.sent
      BY <1>8, <3>1
    <3>5. ~torn
      BY <1>3, <1>15, <2>3, Flags
    <3>4. p2 \in Peers
      <4>1. p2 = [st |-> st2, snd |-> p.snd, rcv |-> p.rcv + 1, sent |-> p.sent, got |-> p.got]
        BY <1>8, <3>1
      <4> QED
        BY <1>8, <3>2, <4>1 DEF Peers
    <3> QED
      BY <1>3, <2>3, <3>3, <3>4, <3>5, Flags
  <2>4. CASE ("SYN" \notin seg.flags /\ seg.seq # p.rcv /\ ~torn) \/ seg.flags = {"ACK"}
    <3>2. ~torn
      BY <1>15, <2>4, Flags
    <3>1. p2 = p
      BY <1>0, <1>3, <2>4, <3>2, Flags DEF After
    <3> QED
      BY <1>3, <2>4, <3>1, <3>2, Flags
  <2> QED
    BY <1>3, <1>15, <2>1, <2>2, <2>3, <2>4, Flags
<1>11. Wire(p2, net2, Tail(pipe), b)
  <2>1. \A i \in DOMAIN net2 : /\ "SYN" \notin net2[i].flags
                               /\ "PSH" \in net2[i].flags => net2[i].data # 0
    BY <1>6, <1>7 DEF Talk, Wire
  <2>2. \A i \in DOMAIN Tail(pipe) : "SYN" \notin Tail(pipe)[i].flags
    BY <1>1, <1>2 DEF Talk, Wire
  <2>3. p2.st # "closed"
    BY <1>3, <1>7, <1>10, <1>15, Flags
  <2>4. ASSUME p2.st = "done" PROVE b.status \in {"LAST_ACK", "CLOSED"}
    <3>1. p.st = "done" \/ "FIN" \in seg.flags
      BY <1>3, <1>10, <2>4, Flags
    <3> QED
      BY <1>1, <3>1 DEF Talk, Wire, seg
  <2>5. ASSUME NEW i \in DOMAIN Tail(pipe), "FIN" \in Tail(pipe)[i].flags
        PROVE  /\ b.status \in {"LAST_ACK", "CLOSED"} /\ p2.st # "done"
               /\ \A j \in DOMAIN Tail(pipe) : "FIN" \in Tail(pipe)[j].flags => i = j
    <3>1. /\ i + 1 \in DOMAIN pipe /\ "FIN" \in pipe[i + 1].flags /\ i + 1 # 1 /\ i \in Nat
      BY <1>1, <1>2, <2>5
    <3>2. /\ b.status \in {"LAST_ACK", "CLOSED"} /\ p.st # "done"
          /\ \A j \in DOMAIN pipe : "FIN" \in pipe[j].flags => i + 1 = j
      BY <3>1 DEF Talk, Wire
    <3>3. "FIN" \notin seg.flags
      BY <1>1, <3>1, <3>2
    <3>4. p2.st # "done"
      BY <1>3, <1>10, <3>2, <3>3, Flags
    <3>5. \A j \in DOMAIN Tail(pipe) : "FIN" \in Tail(pipe)[j].flags => i = j
      BY <1>1, <3>1, <3>2
    <3> QED
      BY <3>2, <3>4, <3>5
  <2> QED
    BY <2>1, <2>2, <2>3, <2>4, <2>5 DEF Wire
<1>12. ASSUME polite
       PROVE  /\ "SYN" \in seg.flags => p.st = "syn_sent"
              /\ "PSH" \in seg.flags => p.st = "established"
              /\ "FIN" \in seg.flags => p.st = "fin_wait" /\ seg.seq = p.rcv
  <2>1. PICK at \in Places, k \in Int : UnitAt(p, net, pipe, b, hand, data, at, k)
    BY <1>12 DEF Talk, Unit
  <2> QED
    BY <1>1, <1>12, <2>1 DEF Talk, Wire, Step, UnitAt, seg
<1>13. ASSUME polite PROVE Unit(p2, net2, Tail(pipe), b, hand, data)
  <2>1. PICK at \in Places, k \in Int : UnitAt(p, net, pipe, b, hand, data, at, k)
    BY <1>13 DEF Talk, Unit
  <2>2. /\ Len(p.got) <= p.sent
        /\ \A i \in 1..Len(p.got) : p.got[i] = i
    BY <1>13 DEF Talk, Unit
  <2>3. \A i \in DOMAIN net2 :
          "PSH" \in net2[i].flags =>
            at = "net" /\ i = k /\ net2[i].data = p.sent /\ net2[i].ack = p.rcv
    BY <1>6, <2>1 DEF UnitAt
  <2>4. CASE "PSH" \in seg.flags
    <3>1. at = "pipe" /\ k = 1 /\ seg.data = p.sent /\ seg.seq = p.rcv /\ Len(p.got) + 1 = p.sent
      BY <1>1, <2>1, <2>4 DEF UnitAt, seg
    <3>2. \A i \in DOMAIN Tail(pipe) : "PSH" \notin Tail(pipe)[i].flags
      BY <1>1, <1>2, <2>1, <3>1 DEF UnitAt
    <3>3. p2.got = Append(p.got, seg.data) /\ p2.sent = p.sent
      BY <1>10, <2>4, <3>1
    <3>4. /\ Len(p2.got) = Len(p.got) + 1 /\ Len(p.got) \in Nat
          /\ \A i \in 1..Len(p.got) : p2.got[i] = p.got[i]
          /\ p2.got[Len(p.got) + 1] = p.sent
      BY <1>3, <1>8, <3>1, <3>3, AppendProperties
    <3>5. \A i \in 1..Len(p2.got) : p2.got[i] = i
      BY <2>2, <3>1, <3>4
    <3>6. UnitAt(p2, net2, Tail(pipe), b, hand, data, "nowhere", k)
      BY <2>1, <2>3, <3>1, <3>2 DEF UnitAt
    <3>7. Len(p2.got) <= p2.sent
      BY <1>8, <3>1, <3>3, <3>4
    <3> QED
      BY <3>5, <3>6, <3>7 DEF Unit, Places
  <2>5. CASE "PSH" \notin seg.flags
    <3>1. p2.got = p.got /\ p2.sent = p.sent
      BY <1>3, <1>10, <1>12, <1>13, <2>5, Flags
    <3>2. at # "nowhere" => p2.st = "established" /\ p2.rcv = p.rcv
      BY <1>3, <1>10, <1>12, <1>13, <1>15, <2>1, <2>5, Flags DEF UnitAt
    <3>3. CASE at = "pipe"
      <4>1. \A i \in DOMAIN Tail(pipe) :
              "PSH" \in Tail(pipe)[i].flags =>
                i = k - 1 /\ Tail(pipe)[i].data = p.sent /\ Tail(pipe)[i].seq = p.rcv
        <5> SUFFICES ASSUME NEW i \in DOMAIN Tail(pipe), "PSH" \in Tail(pipe)[i].flags
                     PROVE  i = k - 1 /\ Tail(pipe)[i].data = p.sent /\ Tail(pipe)[i].seq = p.rcv
          OBVIOUS
        <5>1. /\ i \in Nat /\ i + 1 = k /\ pipe[i + 1].data = p.sent /\ pipe[i + 1].seq = p.rcv
              /\ Tail(pipe)[i] = pipe[i + 1]
          BY <1>1, <2>1 DEF UnitAt
        <5> QED
          BY <5>1
      <4>2. UnitAt(p2, net2, Tail(pipe), b, hand, data, at, k - 1)
        BY <2>1, <2>3, <3>1, <3>2, <3>3, <4>1 DEF UnitAt
      <4>3. k - 1 \in Int
        OBVIOUS
      <4>4. \E at2 \in Places, k2 \in Int : UnitAt(p2, net2, Tail(pipe), b, hand, data, at2, k2)
        BY <4>2, <4>3
      <4> QED
        BY <2>2, <3>1, <4>4 DEF Unit
    <3>4. CASE at # "pipe"
      <4>1. \A i \in DOMAIN Tail(pipe) : "PSH" \notin Tail(pipe)[i].flags
        BY <1>1, <2>1, <3>4 DEF UnitAt
      <4>2. UnitAt(p2, net2, Tail(pipe), b, hand, data, at, k)
        BY <2>1, <2>3, <3>1, <3>2, <3>4, <4>1 DEF UnitAt
      <4> QED
        BY <2>2, <3>1, <4>2 DEF Unit
    <3> QED
      BY <3>3, <3>4
  <2> QED
    BY <2>4, <2>5
<1>14. ASSUME polite PROVE Step(p2, net2, Tail(pipe), b)
  <2>1. Step(p, net, pipe, b)
    BY <1>14 DEF Talk
  <2>2. CASE seg.flags = {"ACK"}
    <3>1. p2 = p /\ net2 = net
      BY <1>0, <1>10, <2>2
    <3> QED
      BY <1>1, <2>1, <3>1 DEF Step
  <2>3. CASE "SYN" \in seg.flags
    <3>1. p.st = "syn_sent" /\ p2.st = "established"
      BY <1>10, <1>12, <1>14, <2>3
    <3>2. \A i \in DOMAIN Tail(pipe) : "SYN" \notin Tail(pipe)[i].flags
      BY <1>11, <3>1 DEF Wire
    <3>3. \A i \in DOMAIN Tail(pipe) : "FIN" \notin Tail(pipe)[i].flags
      BY <1>1, <2>1, <3>1 DEF Step
    <3>4. \A i \in DOMAIN net2 : "FIN" \notin net2[i].flags
      BY <1>6, <2>1, <3>1 DEF Step
    <3>5. b.status \notin {"CLOSE_WAIT", "LAST_ACK"}
      BY <2>1, <3>1 DEF Step
    <3> QED
      BY <3>1, <3>2, <3>3, <3>4, <3>5 DEF Step
  <2>4. CASE "PSH" \in seg.flags
    <3>1. p.st = "established" /\ p2.st = "established"
      BY <1>3, <1>10, <1>12, <1>14, <2>4, Flags
    <3>2. \A i \in DOMAIN Tail(pipe) :
            "SYN" \notin Tail(pipe)[i].flags /\ "FIN" \notin Tail(pipe)[i].flags
      BY <1>1, <2>1, <3>1 DEF Step, Talk, Wire
    <3>3. \A i \in DOMAIN net2 : "FIN" \notin net2[i].flags
      BY <1>6, <2>1, <3>1 DEF Step
    <3>4. b.status \notin {"CLOSE_WAIT", "LAST_ACK"}
      BY <2>1, <3>1 DEF Step
    <3> QED
      BY <3>1, <3>2, <3>3, <3>4 DEF Step
  <2>5. CASE "FIN" \in seg.flags
    <3>1. p.st = "fin_wait" /\ p2.st = "done"
      BY <1>10, <1>12, <1>14, <2>5
    <3>2. \A i \in DOMAIN Tail(pipe) : "FIN" \notin Tail(pipe)[i].flags
      BY <1>11, <3>1 DEF Wire
    <3>3. \A i \in DOMAIN Tail(pipe) : "SYN" \notin Tail(pipe)[i].flags
      BY <1>11, <3>1 DEF Wire
    <3>4. \A i \in DOMAIN net2 : "FIN" \notin net2[i].flags
      BY <1>1, <1>6, <2>1, <2>5 DEF Step, seg
    <3>5. b.status # "CLOSE_WAIT"
      BY <1>1, <2>5 DEF Talk, Wire, seg
    <3> QED
      BY <3>1, <3>2, <3>3, <3>4, <3>5 DEF Step
  <2> QED
    BY <1>3, <2>2, <2>3, <2>4, <2>5, Flags
<1> QED
  BY <1>10, <1>11, <1>13, <1>14 DEF Talk

-----------------------------------------------------------------------------
(* The list of control blocks *)

\* The first of some control blocks is the one before which there is none of them.
LEMMA FirstFound ==
  ASSUME NEW q \in Seq(Streams), NEW some, NEW i \in DOMAIN q,
         q[i] \in some, \A j \in 1..(i - 1) : q[j] \notin some
  PROVE  FirstOf(q, some) = q[i]
<1> DEFINE P(k) == k \in DOMAIN q /\ q[k] \in some /\ \A j \in 1..(k - 1) : q[j] \notin some
<1>1. DOMAIN q = 1..Len(q) /\ Len(q) \in Nat
  OBVIOUS
<1>2. P(i)
  OBVIOUS
<1>3. \A k : P(k) => k = i
  BY <1>1
<1>4. (CHOOSE k : P(k)) = i
  BY <1>2, <1>3
<1>5. (CHOOSE k \in DOMAIN q : q[k] \in some /\ \A j \in 1..(k - 1) : q[j] \notin some) = i
  BY <1>4
<1> QED
  BY <1>5 DEF FirstOf

\* It is there unless none of them is in the list.
LEMMA FirstCases ==
  ASSUME NEW q \in Seq(Streams), NEW some
  PROVE  \/ FirstOf(q, some) = NONE /\ \A i \in DOMAIN q : q[i] \notin some
         \/ \E i \in DOMAIN q : /\ FirstOf(q, some) = q[i] /\ q[i] \in some
                                /\ \A j \in 1..(i - 1) : q[j] \notin some
<1>1. DOMAIN q = 1..Len(q) /\ Len(q) \in Nat
  OBVIOUS
<1>2. CASE \A i \in DOMAIN q : q[i] \notin some
  BY <1>2 DEF FirstOf
<1>3. CASE \E i \in DOMAIN q : q[i] \in some
  <2> DEFINE T == {i \in DOMAIN q : q[i] \in some}
  <2>1. PICK i \in T : \A m \in T : i <= m
    <3>1. T \subseteq Nat /\ T # {}
      BY <1>1, <1>3
    <3> QED
      BY <3>1, Least
  <2>2. \A j \in 1..(i - 1) : q[j] \notin some
    BY <1>1, <2>1
  <2>3. FirstOf(q, some) = q[i]
    BY <2>1, <2>2, FirstFound
  <2> QED
    BY <2>1, <2>2, <2>3
<1> QED
  BY <1>2, <1>3

\* The look-ups of the code are first ones.
LEMMA LookUps ==
  /\ \A fd : get_hostinfo_fromfd(fd) = Host(tcb_set, tcb, fd)
  /\ get_accept_tcb = Host(tcb_set, tcb, -1)
  /\ \A c : ng_tcp_stream_search(c) =
       LET mine == FirstOf(tcb_set, {s \in Streams : tcb[s].peer = c})
       IN  IF mine # NONE THEN mine ELSE FirstOf(tcb_set, {s \in Streams : tcb[s].status = "LISTEN"})
BY DEF get_hostinfo_fromfd, get_accept_tcb, ng_tcp_stream_search, First, Host, FirstOf

\* The descriptor of a control block before which none has it stands for it.
LEMMA HostFound ==
  ASSUME NEW q \in Seq(Streams), NEW t, NEW fd, NEW i \in DOMAIN q,
         t[q[i]].fd = fd, \A j \in 1..(i - 1) : t[q[j]].fd # fd
  PROVE  Host(q, t, fd) = q[i]
<1> DEFINE some == {s \in Streams : t[s].fd = fd}
<1>1. q[i] \in some
  OBVIOUS
<1>2. \A j \in 1..(i - 1) : q[j] \notin some
  OBVIOUS
<1> HIDE DEF some
<1>3. FirstOf(q, some) = q[i]
  BY <1>1, <1>2, FirstFound
<1> QED
  BY <1>3 DEF Host, some

\* A descriptor stands for nothing that has another one.
LEMMA HostCases ==
  ASSUME NEW q \in Seq(Streams), NEW t, NEW fd
  PROVE  \/ Host(q, t, fd) = NONE /\ \A i \in DOMAIN q : t[q[i]].fd # fd
         \/ \E i \in DOMAIN q : /\ Host(q, t, fd) = q[i] /\ t[q[i]].fd = fd /\ q[i] \in Streams
                                /\ \A j \in 1..(i - 1) : t[q[j]].fd # fd /\ j \in DOMAIN q
<1> DEFINE some == {s \in Streams : t[s].fd = fd}
<1>1. \/ FirstOf(q, some) = NONE /\ \A i \in DOMAIN q : q[i] \notin some
      \/ \E i \in DOMAIN q : /\ FirstOf(q, some) = q[i] /\ q[i] \in some
                             /\ \A j \in 1..(i - 1) : q[j] \notin some
  BY FirstCases
<1>2. DOMAIN q = 1..Len(q) /\ Len(q) \in Nat /\ \A i \in DOMAIN q : q[i] \in Streams
  BY ElementOfSeq
<1>3. Host(q, t, fd) = FirstOf(q, some)
  BY DEF Host
<1>4. \A s \in Streams : s \in some <=> t[s].fd = fd
  OBVIOUS
<1>5. some \subseteq Streams
  OBVIOUS
<1> HIDE DEF some
<1>6. CASE FirstOf(q, some) = NONE /\ \A i \in DOMAIN q : q[i] \notin some
  BY <1>2, <1>3, <1>4, <1>6
<1>7. ASSUME NEW i \in DOMAIN q, FirstOf(q, some) = q[i], q[i] \in some,
             \A j \in 1..(i - 1) : q[j] \notin some
      PROVE  \E n \in DOMAIN q : /\ Host(q, t, fd) = q[n] /\ t[q[n]].fd = fd /\ q[n] \in Streams
                                 /\ \A j \in 1..(n - 1) : t[q[j]].fd # fd /\ j \in DOMAIN q
  <2>1. \A j \in 1..(i - 1) : j \in DOMAIN q
    BY <1>2
  <2>2. \A j \in 1..(i - 1) : t[q[j]].fd # fd
    BY <1>2, <1>4, <1>7, <2>1
  <2>3. Host(q, t, fd) = q[i] /\ t[q[i]].fd = fd /\ q[i] \in Streams
    BY <1>3, <1>4, <1>5, <1>7
  <2> QED
    BY <2>1, <2>2, <2>3
<1> QED
  BY <1>1, <1>6, <1>7

\* What a descriptor stands for is the first that has it.
LEMMA Hosted ==
  ASSUME NEW q \in Seq(Streams), NEW t, NEW fd, Host(q, t, fd) # NONE
  PROVE  \E i \in DOMAIN q : /\ Host(q, t, fd) = q[i] /\ t[q[i]].fd = fd
                             /\ \A j \in 1..(i - 1) : t[q[j]].fd # fd /\ j \in DOMAIN q
<1>1. \/ Host(q, t, fd) = NONE /\ \A i \in DOMAIN q : t[q[i]].fd # fd
      \/ \E i \in DOMAIN q : /\ Host(q, t, fd) = q[i] /\ t[q[i]].fd = fd /\ q[i] \in Streams
                             /\ \A j \in 1..(i - 1) : t[q[j]].fd # fd /\ j \in DOMAIN q
  BY HostCases
<1> QED
  BY <1>1

\* ng_tcp_stream_search finds the control block of the client, or the listener.
LEMMA SearchIs ==
  ASSUME Typed, ListOk(tcb_set, tcb), NEW c \in Clients
  PROVE  LET s == ng_tcp_stream_search(c) IN
         /\ s \in Streams /\ s \in ToSet(tcb_set)
         /\ \/ s # LISTENER /\ tcb[s].peer = c
            \/ s = LISTENER /\ \A u \in Streams : tcb[u].peer # c
<1> DEFINE mine == {s \in Streams : tcb[s].peer = c}
           open == {s \in Streams : tcb[s].status = "LISTEN"}
<1>1. DOMAIN tcb_set = 1..Len(tcb_set) /\ \A i \in DOMAIN tcb_set : tcb_set[i] \in Streams
  BY ElementOfSeq DEF Typed
<1>2. ng_tcp_stream_search(c) =
        IF FirstOf(tcb_set, mine) # NONE THEN FirstOf(tcb_set, mine) ELSE FirstOf(tcb_set, open)
  BY LookUps
<1>3. NONE \notin Streams /\ NONE # c
  BY UStackAssumption DEF Streams
<1>4. tcb[LISTENER].peer = NONE /\ tcb[LISTENER].status = "LISTEN"
  BY DEF ListOk, Blank
<1>5. \A s \in Streams \ {LISTENER} : tcb[s].peer = c => s \in ToSet(tcb_set)
  BY <1>3 DEF ListOk, Blank
<1>6. \A s \in Streams \ {LISTENER} : tcb[s].status # "LISTEN"
  BY DEF ListOk, Blank, Connected, Serving
<1>7. CASE \A i \in DOMAIN tcb_set : tcb_set[i] \notin mine
  <2>1. FirstOf(tcb_set, mine) = NONE
    BY <1>7 DEF FirstOf
  <2>2. PICK n \in DOMAIN tcb_set : tcb_set[n] = LISTENER
    BY DEF ListOk, ToSet
  <2>3. LISTENER \in Streams
    BY <1>1, <2>2
  <2>4. tcb_set[n] \in open
    BY <1>4, <2>2, <2>3
  <2>5. \E i \in DOMAIN tcb_set : FirstOf(tcb_set, open) = tcb_set[i] /\ tcb_set[i] \in open
    BY <2>4, FirstCases DEF Typed
  <2>6. FirstOf(tcb_set, open) = LISTENER
    BY <1>6, <2>5
  <2>7. \A u \in Streams : tcb[u].peer # c
    BY <1>3, <1>4, <1>5, <1>7 DEF ToSet
  <2> QED
    BY <1>2, <2>1, <2>3, <2>6, <2>7 DEF ListOk
<1>8. CASE \E i \in DOMAIN tcb_set : tcb_set[i] \in mine
  <2>1. PICK i \in DOMAIN tcb_set : FirstOf(tcb_set, mine) = tcb_set[i] /\ tcb_set[i] \in mine
    BY <1>8, FirstCases DEF Typed
  <2>2. ng_tcp_stream_search(c) = tcb_set[i]
    BY <1>1, <1>2, <1>3, <2>1
  <2> QED
    BY <1>1, <1>3, <1>4, <2>1, <2>2 DEF ToSet
<1> QED
  BY <1>7, <1>8

\* The control block of a client is the one that has its address.
LEMMA BlockIs ==
  ASSUME NEW q, NEW t, ListOk(q, t), NEW c \in Clients, NEW s \in Streams, t[s].peer = c
  PROVE  Block(t, c) = t[s]
<1>1. c # NONE
  BY UStackAssumption
<1>2. \A u \in Streams : t[u].peer = c => u = s
  BY <1>1 DEF ListOk
<1> QED
  BY <1>2 DEF Block

\* A client without one has nothing but the listener to talk to.
LEMMA BlockNone ==
  ASSUME NEW t, NEW c, \A s \in Streams : t[s].peer # c
  PROVE  Block(t, c) = Blank
BY DEF Block

\* One control block changes and stays its client's.
LEMMA OneBlock ==
  ASSUME Typed, ListOk(tcb_set, tcb),
         NEW s \in Streams \ {LISTENER}, s \in ToSet(tcb_set),
         NEW r \in ControlBlocks, r.peer = tcb[s].peer, r.status \in Connected,
         tcb' = [tcb EXCEPT ![s] = r]
  PROVE  /\ tcb' \in [Streams -> ControlBlocks] /\ ListOk(tcb_set, tcb')
         /\ tcb'[s] = r /\ \A u \in Streams \ {s} : tcb'[u] = tcb[u]
         /\ tcb[s].peer \in Clients /\ Block(tcb, tcb[s].peer) = tcb[s]
         /\ Block(tcb', tcb[s].peer) = r
         /\ \A c \in Clients : c # tcb[s].peer => Block(tcb', c) = Block(tcb, c)
<1> DEFINE t == tcb
           t2 == tcb'
           q == tcb_set
<1>0. t \in [Streams -> ControlBlocks] /\ t2 = [t EXCEPT ![s] = r] /\ ListOk(q, t) /\ r.peer = t[s].peer
      /\ s \in ToSet(q)
  BY DEF Typed
<1> SUFFICES /\ t2 \in [Streams -> ControlBlocks] /\ ListOk(q, t2)
             /\ t2[s] = r /\ \A u \in Streams \ {s} : t2[u] = t[u]
             /\ t[s].peer \in Clients /\ Block(t, t[s].peer) = t[s] /\ Block(t2, t[s].peer) = r
             /\ \A c \in Clients : c # t[s].peer => Block(t2, c) = Block(t, c)
  OBVIOUS
<1> HIDE DEF t, t2, q
<1>1. t2 \in [Streams -> ControlBlocks]
  BY <1>0
<1>2. t2[s] = r /\ \A u \in Streams \ {s} : t2[u] = t[u]
  BY <1>0
<1>3. \A u \in Streams : t2[u].peer = t[u].peer
  BY <1>0, <1>2
<1>4. t[s].peer \in Clients
  BY <1>0 DEF ListOk
<1>5. ListOk(q, t2)
  <2>1. \A u \in Streams \ {LISTENER} :
          IF u \in ToSet(q) THEN t2[u].peer \in Clients /\ t2[u].status \in Connected ELSE t2[u] = Blank
    BY <1>0, <1>2 DEF ListOk
  <2>2. t2[LISTENER] = t[LISTENER]
    BY <1>0
  <2> QED
    BY <1>0, <1>3, <2>1, <2>2 DEF ListOk
<1>6. Block(t, t[s].peer) = t[s] /\ Block(t2, t[s].peer) = r
  <2>1. Block(t, t[s].peer) = t[s]
    BY <1>0, <1>4, BlockIs
  <2>2. t2[s].peer = t[s].peer
    BY <1>3
  <2>3. Block(t2, t[s].peer) = t2[s]
    BY <1>4, <1>5, <2>2, BlockIs
  <2> QED
    BY <1>2, <2>1, <2>3
<1>7. ASSUME NEW c \in Clients, c # t[s].peer PROVE Block(t2, c) = Block(t, c)
  <2>1. CASE \A u \in Streams : t[u].peer # c
    <3>1. \A u \in Streams : t2[u].peer # c
      BY <1>3, <2>1
    <3>2. Block(t, c) = Blank
      BY <2>1, BlockNone
    <3>3. Block(t2, c) = Blank
      BY <3>1, BlockNone
    <3> QED
      BY <3>2, <3>3
  <2>2. CASE \E u \in Streams : t[u].peer = c
    <3>1. PICK u \in Streams : t[u].peer = c
      BY <2>2
    <3>2. Block(t, c) = t[u]
      BY <1>0, <3>1, BlockIs
    <3>3. t2[u].peer = c
      BY <1>3, <3>1
    <3>4. Block(t2, c) = t2[u]
      BY <1>5, <3>3, BlockIs
    <3> QED
      BY <1>2, <1>7, <3>1, <3>2, <3>4
  <2> QED
    BY <2>1, <2>2
<1> QED
  BY <1>1, <1>2, <1>4, <1>5, <1>6, <1>7

\* The look-up of a descriptor does not see the rest of a control block.
LEMMA SameHost ==
  ASSUME NEW q, NEW t, NEW t2, \A s \in Streams : t2[s].fd = t[s].fd
  PROVE  \A fd : Host(q, t2, fd) = Host(q, t, fd)
<1> SUFFICES ASSUME NEW fd PROVE Host(q, t2, fd) = Host(q, t, fd)
  OBVIOUS
<1>1. {s \in Streams : t2[s].fd = fd} = {s \in Streams : t[s].fd = fd}
  OBVIOUS
<1> QED
  BY <1>1 DEF Host

\* Nor does the bitmap, except that a connection is closed.
LEMMA SameBits ==
  ASSUME NEW t, NEW t2, NEW bits, NEW epoll, BitmapOk(t, bits, epoll),
         \A s \in Streams : /\ t2[s].fd = t[s].fd
                            /\ t2[s].status = "LAST_ACK" <=> t[s].status = "LAST_ACK"
  PROVE  BitmapOk(t2, bits, epoll)
<1>1. \A s \in Streams : Open(t2[s]) <=> Open(t[s])
  BY DEF Open
<1> QED
  BY <1>1 DEF BitmapOk

\* What the server holds stays its own while others work on the control blocks.
LEMMA SameServer ==
  ASSUME ServerOk(tcb_set, tcb, app), app'.fd = app.fd,
         \/ app'.pc = app.pc
         \/ app.pc = "accept_wait" /\ app'.pc = "accept"
         \/ app.pc = "recv_wait" /\ app'.pc = "recv",
         \A s \in Streams : /\ tcb'[s].fd = tcb[s].fd /\ tcb'[s].peer = tcb[s].peer
                            /\ tcb[s].status \in Serving => tcb'[s].status \in Serving
                            /\ tcb[s].status = "CLOSE_WAIT" =>
                                 tcb'[s].status = "CLOSE_WAIT" /\ tcb'[s].rcvbuf = tcb[s].rcvbuf
  PROVE  /\ ServerOk(tcb_set, tcb', app')
         /\ \A c : InHand(tcb_set, tcb', app', c) = InHand(tcb_set, tcb, app, c)
<1>1. \A fd : Host(tcb_set, tcb', fd) = Host(tcb_set, tcb, fd)
  BY SameHost
<1>2. CASE app.pc \in {"send", "close", "closing"}
  <2>1. app'.pc = app.pc
    BY <1>2
  <2>2. Host(tcb_set, tcb, app.fd) \in Streams \ {LISTENER} /\ tcb[Host(tcb_set, tcb, app.fd)].status \in Serving
    BY <1>2 DEF ServerOk
  <2>3. ServerOk(tcb_set, tcb', app')
    BY <1>1, <1>2, <2>1, <2>2 DEF ServerOk
  <2>4. \A c : InHand(tcb_set, tcb', app', c) = InHand(tcb_set, tcb, app, c)
    BY <1>1, <2>1, <2>2 DEF InHand
  <2> QED
    BY <2>3, <2>4
<1>3. CASE app.pc \notin {"send", "close", "closing"}
  <2>1. app'.pc \notin {"send", "close", "closing"}
    BY <1>3
  <2>2. ServerOk(tcb_set, tcb', app')
    BY <1>3, <2>1 DEF ServerOk
  <2>3. \A c : InHand(tcb_set, tcb', app', c) = InHand(tcb_set, tcb, app, c)
    BY <1>3, <2>1 DEF InHand
  <2> QED
    BY <2>2, <2>3
<1> QED
  BY <1>2, <1>3

\* What is added to the send buffer is added to all that is to go to the client.
LEMMA AppendPipe ==
  ASSUME NEW u \in Seq(Segments), NEW v \in Seq(Segments), NEW x \in Segments
  PROVE  u \o Append(v, x) = Append(u \o v, x) /\ u \o v \in Seq(Segments)
<1>1. Append(v, x) = v \o <<x>> /\ <<x>> \in Seq(Segments)
  BY AppendIsConcat
<1>2. u \o v \in Seq(Segments)
  BY ConcatProperties
<1>3. Append(u \o v, x) = (u \o v) \o <<x>>
  BY <1>2, AppendIsConcat
<1>4. (u \o v) \o <<x>> = u \o (v \o <<x>>)
  BY <1>1, ConcatAssociative
<1> QED
  BY <1>1, <1>2, <1>3, <1>4

\* The control block as it will be.
LEMMA NowFacts ==
  ASSUME NEW b \in ControlBlocks, NEW k \in Cores, NEW a
  PROVE  /\ Now(b, k, a) \in ControlBlocks
         /\ Now(b, k, a).rcvbuf = b.rcvbuf
         /\ Now(b, k, a).status = (IF Half(b, a) THEN "LAST_ACK" ELSE b.status)
         /\ Now(b, k, a).snd_nxt = (IF k.of # NONE /\ b.peer = k.of THEN k.ack ELSE b.snd_nxt)
<1> DEFINE st == IF Half(b, a) THEN "LAST_ACK" ELSE b.status
           n  == IF k.of # NONE /\ b.peer = k.of THEN k.ack ELSE b.snd_nxt
<1>1. st \in Statuses /\ n \in Int
  BY DEF ControlBlocks, Cores, Statuses
<1>2. Now(b, k, a) = [b EXCEPT !.snd_nxt = n, !.status = st]
  BY DEF Now
<1> HIDE DEF st, n
<1>3. /\ Now(b, k, a) \in ControlBlocks /\ Now(b, k, a).rcvbuf = b.rcvbuf
      /\ Now(b, k, a).status = st /\ Now(b, k, a).snd_nxt = n
  BY <1>1, <1>2 DEF ControlBlocks
<1> QED
  BY <1>3 DEF st, n

\* It is no other while the threads work elsewhere.
LEMMA NowSame ==
  ASSUME NEW b, NEW k, NEW k2, NEW a, NEW a2,
         Half(b, a2) <=> Half(b, a),
         k2 = k \/ (b.peer = NONE \/ b.peer \notin {k.of, k2.of})
  PROVE  Now(b, k2, a2) = Now(b, k, a)
<1>1. (k2.of # NONE /\ b.peer = k2.of) <=> (k.of # NONE /\ b.peer = k.of)
  OBVIOUS
<1>2. CASE k2 = k
  BY <1>2 DEF Now
<1>3. CASE b.peer = NONE \/ b.peer \notin {k.of, k2.of}
  BY <1>3 DEF Now
<1> QED
  BY <1>2, <1>3

\* It changes as the control block changes.
LEMMA NowLike ==
  ASSUME NEW b \in ControlBlocks, NEW b2 \in ControlBlocks, NEW k \in Cores, NEW a, NEW a2,
         b2.peer = b.peer, b2.status = b.status, b2.snd_nxt = b.snd_nxt,
         Half(b2, a2) <=> Half(b, a)
  PROVE  /\ Now(b2, k, a2).status = Now(b, k, a).status
         /\ Now(b2, k, a2).snd_nxt = Now(b, k, a).snd_nxt
         /\ Now(b2, k, a2).rcvbuf = b2.rcvbuf /\ Now(b, k, a).rcvbuf = b.rcvbuf
<1>1. /\ Now(b2, k, a2).rcvbuf = b2.rcvbuf
      /\ Now(b2, k, a2).status = (IF Half(b2, a2) THEN "LAST_ACK" ELSE b2.status)
      /\ Now(b2, k, a2).snd_nxt = (IF k.of # NONE /\ b2.peer = k.of THEN k.ack ELSE b2.snd_nxt)
  BY NowFacts
<1>2. /\ Now(b, k, a).rcvbuf = b.rcvbuf
      /\ Now(b, k, a).status = (IF Half(b, a) THEN "LAST_ACK" ELSE b.status)
      /\ Now(b, k, a).snd_nxt = (IF k.of # NONE /\ b.peer = k.of THEN k.ack ELSE b.snd_nxt)
  BY NowFacts
<1> QED
  BY <1>1, <1>2

\* Nor is it another than what is there when they work on nothing of it.
LEMMA NowQuiet ==
  ASSUME NEW b \in ControlBlocks, NEW k \in Cores, NEW a,
         k = Idle \/ b.peer # k.of, ~Half(b, a)
  PROVE  /\ Now(b, k, a).rcvbuf = b.rcvbuf /\ Now(b, k, a).status = b.status
         /\ Now(b, k, a).snd_nxt = b.snd_nxt
BY NowFacts DEF Idle

\* Whose control block it is.
LEMMA BlockOf ==
  ASSUME NEW t \in [Streams -> ControlBlocks], NEW c \in Clients
  PROVE  Block(t, c) \in ControlBlocks /\ Block(t, c).peer \in {c, NONE}
<1>1. CASE \E s \in Streams : t[s].peer = c
  BY <1>1 DEF Block
<1>2. CASE ~\E s \in Streams : t[s].peer = c
  <2>1. Block(t, c) = Blank
    BY <1>2 DEF Block
  <2>2. Blank \in ControlBlocks
    BY DEF Blank, ControlBlocks, Statuses
  <2> QED
    BY <2>1, <2>2 DEF Blank
<1> QED
  BY <1>1, <1>2

-----------------------------------------------------------------------------
(* The handlers of the packet core *)

\* A segment to nobody in particular is dropped.
LEMMA DropStep ==
  ASSUME StackInv, NEW c \in Clients, toServer[c] # <<>>,
         toServer' = [toServer EXCEPT ![c] = Tail(@)],
         hurried \subseteq hurried', hurried' \subseteq Clients,
         UNCHANGED <<tcb_set, tcb, fd_table, rdlist, items, app, core, toClient, peer, plan>>
  PROVE  StackInv'
<1>1. Tail(toServer[c]) \in Seq(Segments)
  BY TailFacts DEF StackInv, Typed
<1>2. Typed'
  BY <1>1 DEF StackInv, Typed
<1>3. ASSUME NEW d \in Clients PROVE Talks(d)'
  <2> DEFINE b == Now(Block(tcb, d), core, app)
             hand == InHand(tcb_set, tcb, app, d)
             polite == Tame(d)
             polite2 == Tame(d)'
             net == toServer[d]
             net2 == toServer'[d]
             p == peer[d]
             pipe == Pipe(d)
             data == app.data
  <2>1. Talk(polite, p, net, pipe, b, hand, data)
    BY DEF StackInv, Talks
  <2>2. polite2 => polite
    BY DEF Tame
  <2>3. /\ d = c => net2 = Tail(net) /\ net \in Seq(Segments) /\ net # <<>>
        /\ d # c => net2 = net
    BY DEF StackInv, Typed
  <2>4. Talks(d)' = Talk(polite2, p, net2, pipe, b, hand, data)
    BY DEF Talks, Pipe
  <2> HIDE DEF b, hand, polite, polite2, net, net2, p, pipe, data
  <2>5. Talk(polite, p, net2, pipe, b, hand, data)
    BY <2>1, <2>3, TalkDrop
  <2>6. Talk(polite2, p, net2, pipe, b, hand, data)
    BY <2>2, <2>5, TalkLess
  <2> QED
    BY <2>4, <2>6
<1> QED
  BY <1>2, <1>3 DEF StackInv

\* The packet core works on the control block of a client, which keeps its descriptor.
LEMMA CoreStep ==
  ASSUME StackInv, NEW s \in Streams \ {LISTENER}, s \in ToSet(tcb_set),
         NEW c, c = tcb[s].peer, NEW r \in ControlBlocks,
         r.peer = c, r.fd = tcb[s].fd, r.status \in Connected, RingOk(r),
         r.status = "LAST_ACK" <=> tcb[s].status = "LAST_ACK",
         tcb[s].status \in Serving => r.status \in Serving,
         tcb[s].status = "CLOSE_WAIT" => r.status = "CLOSE_WAIT" /\ r.rcvbuf = tcb[s].rcvbuf,
         tcb' = [tcb EXCEPT ![s] = r],
         NEW n \in Seq(Segments), toServer' = [toServer EXCEPT ![c] = n],
         core' \in Cores, core.of \in {c, NONE}, core' # Idle => core'.of = c, core'.of \in {c, NONE},
         Talk(Tame(c), peer[c], n, toClient[c] \o r.sndbuf, Now(r, core', app'),
              InHand(tcb_set, tcb, app, c), app.data),
         app' \in Servers, app'.fd = app.fd, app'.ready = app.ready, app'.data = app.data,
         \/ app'.pc = app.pc
         \/ app.pc = "accept_wait" /\ app'.pc = "accept"
         \/ app.pc = "recv_wait" /\ app'.pc = "recv",
         rdlist' \in Seq(Fds), plan.mode # "epoll" => rdlist' = rdlist,
         UNCHANGED <<tcb_set, fd_table, items, hurried, toClient, peer, plan>>
  PROVE  StackInv'
<1>1. /\ tcb_set \in Seq(Streams) /\ tcb \in [Streams -> ControlBlocks]
      /\ ListOk(tcb_set, tcb)
  BY DEF StackInv, Typed
<1> DEFINE t2 == tcb'
           epoll == plan.mode = "epoll"
<1>2. /\ t2 \in [Streams -> ControlBlocks] /\ ListOk(tcb_set, t2)
      /\ t2[s] = r /\ \A u \in Streams \ {s} : t2[u] = tcb[u]
      /\ c \in Clients /\ Block(tcb, c) = tcb[s] /\ Block(t2, c) = r
      /\ \A d \in Clients : d # c => Block(t2, d) = Block(tcb, d)
  <2>1. Typed /\ ListOk(tcb_set, tcb) /\ r.peer = tcb[s].peer
    BY <1>1 DEF StackInv
  <2>2. /\ t2 \in [Streams -> ControlBlocks] /\ ListOk(tcb_set, t2)
        /\ t2[s] = r /\ \A u \in Streams \ {s} : t2[u] = tcb[u]
        /\ tcb[s].peer \in Clients /\ Block(tcb, tcb[s].peer) = tcb[s]
        /\ Block(t2, tcb[s].peer) = r
        /\ \A d \in Clients : d # tcb[s].peer => Block(t2, d) = Block(tcb, d)
    BY <2>1, OneBlock
  <2> HIDE DEF t2
  <2> QED
    BY <2>2, Zenon
<1>4. Typed'
  BY <1>2 DEF StackInv, Typed
<1>5. \A u \in Streams : /\ tcb'[u].fd = tcb[u].fd /\ tcb'[u].peer = tcb[u].peer
                         /\ tcb'[u].status = "LAST_ACK" <=> tcb[u].status = "LAST_ACK"
                         /\ tcb[u].status \in Serving => tcb'[u].status \in Serving
                         /\ tcb[u].status = "CLOSE_WAIT" =>
                              tcb'[u].status = "CLOSE_WAIT" /\ tcb'[u].rcvbuf = tcb[u].rcvbuf
  BY <1>2
<1>6. BitmapOk(tcb', fd_table, plan.mode = "epoll")
  <2>1. BitmapOk(tcb, fd_table, epoll)
    BY DEF StackInv
  <2>2. \A u \in Streams : /\ t2[u].fd = tcb[u].fd
                           /\ t2[u].status = "LAST_ACK" <=> tcb[u].status = "LAST_ACK"
    BY <1>5
  <2> HIDE DEF t2, epoll
  <2>3. BitmapOk(t2, fd_table, epoll)
    BY <2>1, <2>2, SameBits
  <2> QED
    BY <2>3 DEF t2, epoll
<1>7. \A u \in Streams : RingOk(tcb'[u])
  BY <1>2 DEF StackInv
<1>8. ServerOk(tcb_set, tcb', app') /\ \A d : InHand(tcb_set, tcb', app', d) = InHand(tcb_set, tcb, app, d)
  <2>1. ServerOk(tcb_set, tcb, app)
    BY DEF StackInv
  <2> QED
    BY <1>5, <2>1, SameServer
<1>9. LoopOk(plan.mode = "epoll", app', rdlist', items)
  BY DEF StackInv, LoopOk, OnceStages
<1>10. ASSUME NEW d \in Clients PROVE Talks(d)'
  <2>0. Tame(d)' = Tame(d)
    BY DEF Tame
  <2>1. CASE d = c
    <3>1. toServer'[d] = n
      BY <1>2, <2>1 DEF StackInv, Typed
    <3> QED
      BY <1>2, <1>8, <2>0, <2>1, <3>1 DEF Talks, Pipe
  <2>2. CASE d # c
    <3>1. toServer'[d] = toServer[d]
      BY <2>2 DEF StackInv, Typed
    <3>2. Talks(d)
      BY DEF StackInv
    <3> DEFINE b == Block(tcb, d)
    <3>3. b.peer \in {d, NONE}
      BY <1>1, BlockOf
    <3>4. Half(b, app') <=> Half(b, app)
      BY DEF Half
    <3> HIDE DEF b
    <3>5. Now(b, core', app') = Now(b, core, app)
      BY <2>2, <3>3, <3>4, NowSame
    <3>6. Block(tcb', d) = b
      BY <1>2, <2>2 DEF b
    <3> QED
      BY <1>8, <2>0, <3>1, <3>2, <3>5, <3>6 DEF Talks, Pipe, b
  <2> QED
    BY <2>1, <2>2
<1>11. CoreOk(tcb', core')
  BY <1>2, UStackAssumption DEF CoreOk
<1> QED
  BY <1>2, <1>4, <1>6, <1>7, <1>8, <1>9, <1>10, <1>11 DEF StackInv

\* A signal wakes the server from the wait it is in, or does nothing.
LEMMA SignalledFacts ==
  ASSUME Typed, NEW s, NEW pcs,
         pcs = [accept_wait |-> "accept"] \/ pcs = [recv_wait |-> "recv"]
  PROVE  LET a == Signalled(s, pcs) IN
         /\ a \in Servers /\ a.fd = app.fd /\ a.ready = app.ready /\ a.data = app.data
         /\ \/ a.pc = app.pc
            \/ app.pc = "accept_wait" /\ a.pc = "accept"
            \/ app.pc = "recv_wait" /\ a.pc = "recv"
<1>1. /\ app \in Servers
      /\ app = [pc |-> app.pc, fd |-> app.fd, on |-> app.on, data |-> app.data, ready |-> app.ready]
      /\ app.fd \in Fds \cup {-1} /\ app.data \in Nat /\ app.ready \in Seq(Fds)
  BY DEF Typed, Servers
<1>2. CASE app.on = s /\ app.pc \in DOMAIN pcs
  <2>1. \/ app.pc = "accept_wait" /\ pcs[app.pc] = "accept"
        \/ app.pc = "recv_wait" /\ pcs[app.pc] = "recv"
    BY <1>2
  <2>2. Signalled(s, pcs) = [app EXCEPT !.pc = pcs[app.pc], !.on = NONE]
    BY <1>2 DEF Signalled
  <2>3. Signalled(s, pcs) = [pc |-> pcs[app.pc], fd |-> app.fd, on |-> NONE, data |-> app.data,
                             ready |-> app.ready]
    BY <1>1, <2>2
  <2>4. pcs[app.pc] \in EpollStages
    BY <2>1 DEF EpollStages, OnceStages
  <2>5. Signalled(s, pcs) \in Servers
    BY <1>1, <2>3, <2>4 DEF Servers
  <2> QED
    BY <2>1, <2>3, <2>5
<1>3. CASE ~(app.on = s /\ app.pc \in DOMAIN pcs)
  BY <1>1, <1>3 DEF Signalled
<1> QED
  BY <1>2, <1>3

\* An event is added to the ready list, in one of the two bodies of the server.
LEMMA CallbackFacts ==
  ASSUME Typed, NEW fd, epoll_event_callback(fd)
  PROVE  rdlist' \in Seq(Fds) /\ (plan.mode # "epoll" => rdlist' = rdlist)
<1>1. CASE plan.mode = "epoll" /\ fd \in items /\ ~Contains(rdlist, fd)
  <2>1. rdlist' = <<fd>> \o rdlist /\ <<fd>> \in Seq(Fds) /\ rdlist \in Seq(Fds)
    BY <1>1 DEF epoll_event_callback, Typed
  <2>2. <<fd>> \o rdlist \in Seq(Fds)
    BY <2>1, ConcatProperties
  <2> QED
    BY <1>1, <2>1, <2>2
<1>2. CASE ~(plan.mode = "epoll" /\ fd \in items /\ ~Contains(rdlist, fd))
  BY <1>2 DEF epoll_event_callback, Typed
<1> QED
  BY <1>1, <1>2

\* What ng_tcp_process finds for a segment that is not for the listener.
LEMMA Arrives ==
  ASSUME StackInv, NEW c \in Clients, NEW status, Arriving(c, status)
  PROVE  LET s == ng_tcp_stream_search(c) IN
         /\ s \in Streams /\ s \in ToSet(tcb_set) /\ tcb[s] \in ControlBlocks
         /\ tcb[s].status = status /\ RingOk(tcb[s])
         /\ toServer[c] # <<>> /\ toServer' = [toServer EXCEPT ![c] = Tail(@)]
         /\ toServer[c] \in Seq(Segments) /\ Head(toServer[c]) \in Segments
         /\ toClient[c] \in Seq(Segments) /\ core = Idle
         /\ status # "LISTEN" => s # LISTENER /\ tcb[s].peer = c /\ Block(tcb, c) = tcb[s]
         /\ status = "LISTEN" => s = LISTENER /\ \A u \in Streams : tcb[u].peer # c
<1> DEFINE s == ng_tcp_stream_search(c)
<1>1. Typed /\ ListOk(tcb_set, tcb)
  BY DEF StackInv
<1>2. /\ s \in Streams /\ s \in ToSet(tcb_set)
      /\ \/ s # LISTENER /\ tcb[s].peer = c
         \/ s = LISTENER /\ \A u \in Streams : tcb[u].peer # c
  BY <1>1, SearchIs
<1>3. /\ toServer[c] # <<>> /\ tcb[s].status = status
      /\ toServer' = [toServer EXCEPT ![c] = Tail(@)] /\ core = Idle
  BY DEF Arriving
<1>4. toServer[c] \in Seq(Segments) /\ toClient[c] \in Seq(Segments)
  BY <1>1 DEF Typed
<1>5. Head(toServer[c]) \in Segments
  BY <1>3, <1>4, TailFacts
<1> HIDE DEF s
<1>6. tcb[s] \in ControlBlocks /\ RingOk(tcb[s])
  BY <1>1, <1>2 DEF Typed, StackInv
<1>7. s = LISTENER <=> tcb[s].status = "LISTEN"
  BY <1>1, <1>2 DEF ListOk, Blank, Connected, Serving
<1>8. s # LISTENER => Block(tcb, c) = tcb[s]
  BY <1>1, <1>2, BlockIs
<1> QED
  BY <1>2, <1>3, <1>4, <1>5, <1>6, <1>7, <1>8 DEF s

\* While the packet core has nothing in work and nclose has not begun, the control
\* block is as the conversation sees it.
LEMMA TalkNow ==
  ASSUME StackInv, core = Idle, NEW c \in Clients, NEW b, b = Block(tcb, c), b.status # "CLOSE_WAIT"
  PROVE  /\ b \in ControlBlocks
         /\ Talk(Tame(c), peer[c], toServer[c], toClient[c] \o b.sndbuf, b,
                 InHand(tcb_set, tcb, app, c), app.data)
<1> DEFINE n == Now(b, core, app)
           polite == Tame(c)
           p == peer[c]
           net == toServer[c]
           pipe == toClient[c] \o b.sndbuf
           hand == InHand(tcb_set, tcb, app, c)
           data == app.data
<1>1. Typed
  BY DEF StackInv
<1>2. b \in ControlBlocks
  BY <1>1, BlockOf DEF Typed
<1>3. Talk(polite, p, net, pipe, n, hand, data)
  BY DEF StackInv, Talks, Pipe
<1>4. ~Half(b, app) /\ core \in Cores
  BY <1>1 DEF Half, Typed
<1>5. b.rcvbuf = n.rcvbuf /\ b.status = n.status /\ b.snd_nxt = n.snd_nxt
  BY <1>2, <1>4, NowQuiet
<1> HIDE DEF n, polite, p, net, pipe, hand, data
<1>6. Talk(polite, p, net, pipe, b, hand, data)
  BY <1>3, <1>5, TalkSame
<1> QED
  BY <1>2, <1>6 DEF polite, p, net, pipe, hand, data

\* What the server has in its hands while it answers or closes: the only connection
\* that has the descriptor and is not closed.
LEMMA Held ==
  ASSUME StackInv, app.pc \in {"send", "close", "closing"}, NEW s, s = Host(tcb_set, tcb, app.fd)
  PROVE  /\ s \in Streams \ {LISTENER} /\ s \in ToSet(tcb_set) /\ tcb[s] \in ControlBlocks
         /\ tcb[s].fd = app.fd /\ app.fd # -1 /\ tcb[s].status \in Serving
         /\ tcb[s].peer \in Clients /\ Block(tcb, tcb[s].peer) = tcb[s] /\ RingOk(tcb[s])
         /\ app.pc \in {"close", "closing"} => tcb[s].status = "CLOSE_WAIT" /\ tcb[s].rcvbuf = <<>>
         /\ \A u \in Streams : tcb[u].fd = app.fd /\ tcb[u].status # "LAST_ACK" => u = s
<1>1. Typed /\ ListOk(tcb_set, tcb) /\ BitmapOk(tcb, fd_table, plan.mode = "epoll")
  BY DEF StackInv
<1>2. /\ s \in Streams \ {LISTENER} /\ tcb[s].status \in Serving /\ app.fd # -1
      /\ app.pc \in {"close", "closing"} => tcb[s].status = "CLOSE_WAIT" /\ tcb[s].rcvbuf = <<>>
  BY DEF StackInv, ServerOk
<1>3. s # NONE
  BY <1>2, UStackAssumption DEF Streams
<1>4. tcb[s].fd = app.fd /\ s \in ToSet(tcb_set)
  <2> DEFINE fd == app.fd
  <2>1. tcb_set \in Seq(Streams) /\ Host(tcb_set, tcb, fd) # NONE
    BY <1>1, <1>3 DEF Typed
  <2> HIDE DEF fd
  <2>2. \E i \in DOMAIN tcb_set : Host(tcb_set, tcb, fd) = tcb_set[i] /\ tcb[tcb_set[i]].fd = fd
    BY <2>1, Hosted
  <2> QED
    BY <2>2 DEF ToSet, fd
<1>5. tcb[s] \in ControlBlocks /\ RingOk(tcb[s])
  BY <1>1, <1>2 DEF Typed, StackInv
<1>6. tcb[s].peer \in Clients
  BY <1>1, <1>2, <1>4 DEF ListOk
<1>7. Block(tcb, tcb[s].peer) = tcb[s]
  BY <1>1, <1>2, <1>6, BlockIs
<1>8. ASSUME NEW u \in Streams, tcb[u].fd = app.fd, tcb[u].status # "LAST_ACK" PROVE u = s
  <2>1. Open(tcb[u]) /\ Open(tcb[s])
    BY <1>2, <1>4, <1>8 DEF Open, Serving
  <2> QED
    BY <1>1, <1>2, <1>4, <1>8, <2>1 DEF BitmapOk
<1> QED
  BY <1>2, <1>4, <1>5, <1>6, <1>7, <1>8

-----------------------------------------------------------------------------
(* Room in the list and in the bitmap *)

\* The number of clients.
LEMMA ClientCount ==
  Cardinality(Clients) \in Nat /\ IsFiniteSet(Clients)
BY UStackAssumption, FS_CardinalityType

\* While a client has no control block there is one to allocate.
LEMMA FreeStream ==
  ASSUME Typed, ListOk(tcb_set, tcb), NEW c \in Clients, \A u \in Streams : tcb[u].peer # c
  PROVE  /\ FreshTcb \in Streams \ {LISTENER} /\ FreshTcb \notin ToSet(tcb_set)
         /\ tcb[FreshTcb] = Blank
<1> DEFINE n == Cardinality(Clients)
           S == Streams \ {LISTENER}
           T == Clients \ {c}
<1>1. n \in Nat /\ IsFiniteSet(Clients)
  BY ClientCount
<1>2. IsFiniteSet(S) /\ Cardinality(S) = n
  <2>1. S = 1..n
    BY <1>1 DEF Streams, LISTENER
  <2>2. IsFiniteSet(1..n) /\ Cardinality(1..n) = IF 1 > n THEN 0 ELSE n - 1 + 1
    BY <1>1, FS_Interval
  <2>3. Cardinality(1..n) = n
    BY <1>1, <2>2
  <2> QED
    BY <2>1, <2>2, <2>3
<1>3. IsFiniteSet(T) /\ Cardinality(T) = n - 1
  BY <1>1, FS_RemoveElement
<1>4. \E s \in S : s \notin ToSet(tcb_set)
  <2> SUFFICES ASSUME \A s \in S : s \in ToSet(tcb_set) PROVE FALSE
    OBVIOUS
  <2> DEFINE f == [s \in S |-> tcb[s].peer]
  <2>1. \A s \in S : tcb[s].peer \in T
    BY DEF ListOk
  <2>2. f \in [S -> T]
    BY <2>1
  <2>3. Cardinality(T) < Cardinality(S)
    BY <1>1, <1>2, <1>3
  <2> HIDE DEF f, S, T
  <2>4. \E x, y \in S : x # y /\ f[x] = f[y]
    BY <1>2, <1>3, <2>2, <2>3, FS_PigeonHole
  <2>5. PICK x \in S, y \in S : x # y /\ tcb[x].peer = tcb[y].peer
    BY <2>4 DEF f
  <2>6. x \in Streams /\ y \in Streams /\ tcb[x].peer \in Clients
    BY <2>1, <2>5 DEF S, T
  <2>7. tcb[x].peer # NONE
    BY <2>6, UStackAssumption
  <2> QED
    BY <2>5, <2>6, <2>7 DEF ListOk
<1>5. \A s : Contains(tcb_set, s) <=> s \in ToSet(tcb_set)
  BY DEF Typed, Contains, ToSet
<1>6. FreshTcb \in Streams /\ ~Contains(tcb_set, FreshTcb)
  BY <1>4, <1>5 DEF FreshTcb
<1>7. FreshTcb # LISTENER
  BY <1>5, <1>6 DEF ListOk
<1> QED
  BY <1>5, <1>6, <1>7 DEF ListOk

\* While a control block has no descriptor the bitmap has one to give.
LEMMA FreeFd ==
  ASSUME Typed, BitmapOk(tcb, fd_table, plan.mode = "epoll"),
         NEW s \in Streams, tcb[s].fd = -1
  PROVE  get_fd_frombitmap \in Fds \ fd_table
<1> DEFINE n == Cardinality(Clients)
           S == Fds \ {EPFD}
           T == Streams \ {s}
<1>1. n \in Nat /\ IsFiniteSet(Clients)
  BY ClientCount
<1>2. IsFiniteSet(S) /\ Cardinality(S) = n + 2
  <2>1. IsFiniteSet(Fds) /\ Cardinality(Fds) = n + 3
    <3> DEFINE m == 5 + n
    <3>1. m \in Int /\ 3 \in Int /\ m = 5 + n
      BY <1>1
    <3> HIDE DEF m
    <3>2. IsFiniteSet(3..m) /\ Cardinality(3..m) = IF 3 > m THEN 0 ELSE m - 3 + 1
      BY ONLY <3>1, FS_Interval
    <3>3. Cardinality(3..m) = n + 3
      BY <1>1, <3>1, <3>2
    <3> QED
      BY <3>1, <3>2, <3>3 DEF Fds
  <2>2. EPFD \in Fds
    BY <1>1 DEF EPFD, Fds
  <2> QED
    BY <1>1, <2>1, <2>2, FS_RemoveElement
<1>3. IsFiniteSet(T) /\ Cardinality(T) = n
  <2>1. IsFiniteSet(Streams) /\ Cardinality(Streams) = n + 1
    <3>1. IsFiniteSet(0..n) /\ Cardinality(0..n) = IF 0 > n THEN 0 ELSE n - 0 + 1
      BY <1>1, FS_Interval
    <3> QED
      BY <1>1, <3>1 DEF Streams
  <2>2. IsFiniteSet(T) /\ Cardinality(T) = IF s \in Streams THEN Cardinality(Streams) - 1 ELSE Cardinality(Streams)
    BY <2>1, FS_RemoveElement
  <2> HIDE DEF T
  <2>3. Cardinality(T) = Cardinality(Streams) - 1
    BY <2>2
  <2> QED
    BY <1>1, <2>1, <2>2, <2>3
<1>4. \E f \in Fds : f \notin fd_table
  <2> SUFFICES ASSUME \A f \in Fds : f \in fd_table PROVE FALSE
    OBVIOUS
  <2> DEFINE Has(f, u) == Open(tcb[u]) /\ tcb[u].fd = f
             g == [f \in S |-> CHOOSE u \in Streams : Has(f, u)]
  <2>1. \A f \in S : \E u \in Streams : Has(f, u)
    BY DEF BitmapOk
  <2>2. \A f \in S : g[f] \in Streams /\ Has(f, g[f])
    BY <2>1
  <2>3. \A f \in S : g[f] # s
    BY <2>2 DEF Open
  <2>4. g \in [S -> T]
    BY <2>2, <2>3
  <2>5. Cardinality(T) < Cardinality(S)
    BY <1>1, <1>2, <1>3
  <2> HIDE DEF g, S, T
  <2>6. \E x, y \in S : x # y /\ g[x] = g[y]
    BY <1>2, <1>3, <2>4, <2>5, FS_PigeonHole
  <2> QED
    BY <2>2, <2>6
<1>5. Fds \ fd_table \subseteq Nat /\ Fds \ fd_table # {}
  BY <1>1, <1>4 DEF Fds
<1>6. \E f \in Fds \ fd_table : \A h \in Fds \ fd_table : f <= h
  BY <1>5, Least
<1> QED
  BY <1>6 DEF get_fd_frombitmap

\* The control blocks of the other clients are what they were.
LEMMA OtherBlock ==
  ASSUME NEW q, NEW q2, NEW t, NEW t2, ListOk(q, t), ListOk(q2, t2), NEW s \in Streams,
         \A u \in Streams \ {s} : t2[u] = t[u],
         NEW d \in Clients, t[s].peer # d, t2[s].peer # d
  PROVE  Block(t2, d) = Block(t, d)
<1>1. CASE \A u \in Streams : t[u].peer # d
  <2>1. \A u \in Streams : t2[u].peer # d
    BY <1>1
  <2>2. Block(t, d) = Blank
    BY <1>1, BlockNone
  <2>3. Block(t2, d) = Blank
    BY <2>1, BlockNone
  <2> QED
    BY <2>2, <2>3
<1>2. CASE \E u \in Streams : t[u].peer = d
  <2>1. PICK u \in Streams : t[u].peer = d
    BY <1>2
  <2>2. t2[u] = t[u]
    BY <2>1
  <2>3. Block(t, d) = t[u]
    BY <2>1, BlockIs
  <2>4. t2[u].peer = d
    BY <2>1, <2>2
  <2>5. Block(t2, d) = t2[u]
    BY <2>4, BlockIs
  <2> QED
    BY <2>2, <2>3, <2>5
<1> QED
  BY <1>1, <1>2

-----------------------------------------------------------------------------
(* One lemma for each handler *)

\* A control block that is not in use.
LEMMA BlankIs ==
  /\ Blank \in ControlBlocks
  /\ Blank.peer = NONE /\ Blank.fd = -1 /\ Blank.status = "CLOSED"
  /\ Blank.sndbuf = <<>> /\ Blank.rcvbuf = <<>>
BY DEF Blank, ControlBlocks, Statuses

\* ng_tcp_handle_listen: a control block is put before the others.
LEMMA ListenStep ==
  ASSUME StackInv, NEW c \in Clients, ng_tcp_handle_listen(c)
  PROVE  StackInv'
<1> DEFINE seg == Head(toServer[c])
           s   == FreshTcb
           x   == Segment({"SYN", "ACK"}, 0, seg.seq + 1, 0)
           r   == [Blank EXCEPT !.peer = c, !.status = "SYN_RCVD", !.rcv_nxt = seg.seq + 1,
                                !.sndbuf = <<x>>]
           q2  == <<s>> \o tcb_set
           t2  == [tcb EXCEPT ![s] = r]
<1>1. Arriving(c, "LISTEN")
  BY DEF ng_tcp_handle_listen
<1>2. /\ toServer[c] # <<>> /\ toServer' = [toServer EXCEPT ![c] = Tail(@)]
      /\ toServer[c] \in Seq(Segments) /\ seg \in Segments /\ toClient[c] \in Seq(Segments)
      /\ \A u \in Streams : tcb[u].peer # c
      /\ core = Idle
  BY <1>1, Arrives
<1>3. UNCHANGED <<fd_table, rdlist, items, app, core, hurried, toClient, peer, plan>>
  BY DEF ng_tcp_handle_listen, clients
<1>4. Typed /\ ListOk(tcb_set, tcb)
  BY DEF StackInv
<1>5. CASE "SYN" \notin seg.flags
  <2>1. UNCHANGED <<tcb_set, tcb>>
    BY <1>5 DEF ng_tcp_handle_listen
  <2>2. hurried \subseteq hurried' /\ hurried' \subseteq Clients
    BY <1>3, <1>4 DEF Typed
  <2> QED
    BY <1>2, <1>3, <2>1, <2>2, DropStep
<1>6. CASE "SYN" \in seg.flags
  <2>1. tcb_set' = q2 /\ tcb' = t2
    BY <1>6 DEF ng_tcp_handle_listen
  <2>2. s \in Streams \ {LISTENER} /\ s \notin ToSet(tcb_set) /\ tcb[s] = Blank
    BY <1>2, <1>4, FreeStream
  <2>3. /\ x \in Segments /\ x.flags = {"SYN", "ACK"}
    <3> DEFINE k == {"SYN", "ACK"}
               n == seg.seq + 1
    <3>1. k \in Kinds /\ n \in Int
      <4> HIDE DEF seg
      <4>1. seg.seq \in Int
        BY <1>2 DEF Segments
      <4> QED
        BY <4>1, KindFacts
    <3> HIDE DEF k, n
    <3>2. Segment(k, 0, n, 0) \in Segments /\ Segment(k, 0, n, 0).flags = k
      BY <3>1, SegmentFacts
    <3> QED
      BY <3>2 DEF k, n
  <2>4. /\ r \in ControlBlocks /\ r.peer = c /\ r.status = "SYN_RCVD" /\ r.fd = -1
        /\ r.sndbuf = <<x>> /\ r.rcvbuf = <<>>
    <3> HIDE DEF x, seg
    <3>1. seg.seq + 1 \in Int
      <4>1. seg.seq \in Int
        BY <1>2 DEF Segments
      <4> QED
        BY <4>1
    <3>2. <<x>> \in Seq(Segments)
      BY <2>3
    <3>3. "SYN_RCVD" \in Statuses
      BY DEF Statuses
    <3> QED
      BY <3>1, <3>2, <3>3, BlankIs DEF ControlBlocks
  <2> HIDE DEF s, r, x, seg
  <2>5. /\ t2 \in [Streams -> ControlBlocks] /\ t2[s] = r
        /\ \A u \in Streams \ {s} : t2[u] = tcb[u]
    BY <1>4, <2>2, <2>4 DEF Typed
  <2>6. /\ q2 \in Seq(Streams) /\ Len(q2) = Len(tcb_set) + 1 /\ Len(tcb_set) \in Nat
        /\ q2[1] = s /\ \A i \in DOMAIN tcb_set : q2[i + 1] = tcb_set[i]
    <3>1. <<s>> \in Seq(Streams) /\ tcb_set \in Seq(Streams) /\ Len(<<s>>) = 1 /\ <<s>>[1] = s
      BY <1>4, <2>2 DEF Typed
    <3>2. /\ q2 \in Seq(Streams) /\ Len(q2) = 1 + Len(tcb_set)
          /\ \A i \in 1..(1 + Len(tcb_set)) : q2[i] = IF i <= 1 THEN <<s>>[i] ELSE tcb_set[i - 1]
      BY <3>1, ConcatProperties
    <3>3. Len(tcb_set) \in Nat /\ DOMAIN tcb_set = 1..Len(tcb_set)
      BY <3>1
    <3> HIDE DEF q2
    <3>4. \A i \in DOMAIN tcb_set : i + 1 \in 1..(1 + Len(tcb_set)) /\ ~(i + 1 <= 1) /\ i + 1 - 1 = i
      BY <3>3
    <3>5. \A i \in DOMAIN tcb_set : q2[i + 1] = tcb_set[i]
      BY <3>2, <3>4
    <3> QED
      BY <3>1, <3>2, <3>3, <3>5
  <2> HIDE DEF q2, t2
  <2>7. /\ DOMAIN tcb_set = 1..Len(tcb_set)
        /\ \A i \in DOMAIN q2 : i = 1 \/ (i - 1 \in DOMAIN tcb_set /\ q2[i] = tcb_set[i - 1])
        /\ 1 \in DOMAIN q2 /\ \A i \in DOMAIN tcb_set : i + 1 \in DOMAIN q2
    <3>1. DOMAIN tcb_set = 1..Len(tcb_set) /\ DOMAIN q2 = 1..(Len(tcb_set) + 1)
      BY <1>4, <2>6 DEF Typed
    <3>2. \A i \in DOMAIN q2 : i = 1 \/ (i - 1 \in DOMAIN tcb_set /\ i - 1 + 1 = i)
      BY <2>6, <3>1
    <3> QED
      BY <2>6, <3>1, <3>2
  <2>8. ToSet(q2) = ToSet(tcb_set) \cup {s}
    BY <2>6, <2>7 DEF ToSet
  <2>9. ListOk(q2, t2)
    <3>1. \A i, j \in DOMAIN q2 : q2[i] = q2[j] => i = j
      <4> SUFFICES ASSUME NEW i \in DOMAIN q2, NEW j \in DOMAIN q2, q2[i] = q2[j] PROVE i = j
        OBVIOUS
      <4>1. i \in Int /\ j \in Int
        BY <2>6
      <4>2. \A k \in DOMAIN tcb_set : tcb_set[k] # s
        BY <2>2 DEF ToSet
      <4> QED
        BY <1>4, <2>6, <2>7, <4>1, <4>2 DEF ListOk
    <3>2. t2[LISTENER] = tcb[LISTENER] /\ LISTENER \in ToSet(q2)
      <4>1. LISTENER \in Streams
        BY ClientCount DEF Streams, LISTENER
      <4> QED
        BY <1>4, <2>2, <2>5, <2>8, <4>1 DEF ListOk
    <3>3. \A u \in Streams \ {LISTENER} :
            IF u \in ToSet(q2) THEN t2[u].peer \in Clients /\ t2[u].status \in Connected ELSE t2[u] = Blank
      BY <1>4, <2>2, <2>4, <2>5, <2>8 DEF ListOk, Connected
    <3>4. \A u, v \in Streams : t2[u].peer = t2[v].peer /\ t2[u].peer # NONE => u = v
      BY <1>2, <1>4, <2>4, <2>5 DEF ListOk
    <3> QED
      BY <1>4, <3>1, <3>2, <3>3, <3>4 DEF ListOk
  <2>10. Tail(toServer[c]) \in Seq(Segments)
    BY <1>2, TailFacts
  <2>11. Typed'
    BY <1>2, <1>3, <1>4, <2>1, <2>5, <2>6, <2>10 DEF Typed
  <2>12. BitmapOk(t2, fd_table, plan.mode = "epoll")
    <3> DEFINE epoll == plan.mode = "epoll"
    <3>1. BitmapOk(tcb, fd_table, epoll)
      BY DEF StackInv
    <3>2. \A u \in Streams : t2[u].fd = tcb[u].fd /\ (t2[u].status = "LAST_ACK" <=> tcb[u].status = "LAST_ACK")
      BY <2>2, <2>4, <2>5 DEF Blank
    <3> HIDE DEF epoll
    <3>3. BitmapOk(t2, fd_table, epoll)
      BY <3>1, <3>2, SameBits
    <3> QED
      BY <3>3 DEF epoll
  <2>13. \A u \in Streams : RingOk(t2[u])
    <3>1. RingOk(r)
      BY <2>4 DEF RingOk
    <3> QED
      BY <2>5, <3>1 DEF StackInv
  <2>14. app.pc \in {"send", "close", "closing"} =>
           /\ Host(q2, t2, app.fd) = Host(tcb_set, tcb, app.fd)
           /\ Host(tcb_set, tcb, app.fd) \in Streams \ {s}
    <3> SUFFICES ASSUME app.pc \in {"send", "close", "closing"}
                 PROVE  /\ Host(q2, t2, app.fd) = Host(tcb_set, tcb, app.fd)
                        /\ Host(tcb_set, tcb, app.fd) \in Streams \ {s}
      OBVIOUS
    <3>1. app.fd # -1 /\ Host(tcb_set, tcb, app.fd) \in Streams
      BY DEF StackInv, ServerOk
    <3>2. NONE \notin Streams
      BY UStackAssumption DEF Streams
    <3> DEFINE fd == app.fd
    <3>3. PICK i \in DOMAIN tcb_set :
            /\ Host(tcb_set, tcb, fd) = tcb_set[i] /\ tcb[tcb_set[i]].fd = fd
            /\ \A j \in 1..(i - 1) : tcb[tcb_set[j]].fd # fd /\ j \in DOMAIN tcb_set
      <4>1. tcb_set \in Seq(Streams) /\ Host(tcb_set, tcb, fd) # NONE
        BY <1>4, <3>1, <3>2 DEF Typed
      <4> HIDE DEF fd
      <4> QED
        BY <4>1, Hosted
    <3>4. \A k \in DOMAIN tcb_set : tcb_set[k] \in Streams \ {s}
      BY <1>4, <2>2 DEF ToSet, Typed
    <3>5. t2[q2[i + 1]].fd = app.fd /\ i + 1 \in DOMAIN q2 /\ q2[i + 1] = tcb_set[i]
      BY <2>5, <2>6, <2>7, <3>3, <3>4
    <3>6. \A j \in 1..i : t2[q2[j]].fd # app.fd
      <4> SUFFICES ASSUME NEW j \in 1..i PROVE t2[q2[j]].fd # app.fd
        OBVIOUS
      <4>1. CASE j = 1
        BY <2>4, <2>5, <2>6, <2>2, <3>1, <4>1
      <4>2. CASE j # 1
        <5>1. j - 1 \in 1..(i - 1) /\ j - 1 + 1 = j
          BY <2>6, <2>7, <4>2
        <5>2. q2[j] = tcb_set[j - 1] /\ j - 1 \in DOMAIN tcb_set
          BY <2>6, <3>3, <5>1
        <5> QED
          BY <2>5, <3>3, <3>4, <5>1, <5>2
      <4> QED
        BY <4>1, <4>2
    <3>7. Host(q2, t2, fd) = q2[i + 1]
      <4> DEFINE k == i + 1
      <4>1. k \in DOMAIN q2 /\ t2[q2[k]].fd = fd /\ \A j \in 1..(k - 1) : t2[q2[j]].fd # fd
        <5>1. k - 1 = i
          BY <2>7
        <5> QED
          BY <3>5, <3>6, <5>1
      <4> HIDE DEF k, fd
      <4>2. Host(q2, t2, fd) = q2[k]
        BY <2>6, <4>1, HostFound
      <4> QED
        BY <4>2 DEF k
    <3> QED
      BY <3>3, <3>4, <3>5, <3>7
  <2>15. ServerOk(q2, t2, app)
    BY <2>5, <2>14 DEF StackInv, ServerOk
  <2>16. \A d : InHand(q2, t2, app, d) = InHand(tcb_set, tcb, app, d)
    BY <2>5, <2>14 DEF InHand
  <2>17. ASSUME NEW d \in Clients
         PROVE  Talk(Tame(d), peer[d], toServer'[d], toClient[d] \o Block(t2, d).sndbuf,
                     Now(Block(t2, d), core, app), InHand(q2, t2, app, d), app.data)
    <3>1. Talk(Tame(d), peer[d], toServer[d], toClient[d] \o Block(tcb, d).sndbuf,
               Now(Block(tcb, d), core, app), InHand(tcb_set, tcb, app, d), app.data)
      BY DEF StackInv, Talks, Pipe
    <3>2. CASE d = c
      <4>1. Block(tcb, c) = Blank /\ Block(t2, c) = r
        BY <1>2, <2>2, <2>4, <2>5, <2>9, BlockNone, BlockIs
      <4>2. toServer'[c] = Tail(toServer[c])
        BY <1>2, <1>4 DEF Typed
      <4>3. toClient[c] \o <<>> = toClient[c] /\ Blank.sndbuf = <<>>
        BY <1>2 DEF Blank
      <4>4. /\ toClient[c] \o <<>> = <<>>
            /\ Talk(Tame(c), peer[c], Tail(toServer[c]), <<x>>, Now(r, core, app),
                    InHand(tcb_set, tcb, app, c), app.data)
        <5> DEFINE hand == InHand(tcb_set, tcb, app, c)
                   pipe == toClient[c] \o <<>>
                   net  == toServer[c]
                   p    == peer[c]
                   data == app.data
                   polite == Tame(c)
                   r2 == Now(r, core, app)
        <5>1. Talk(Tame(c), peer[c], toServer[c], toClient[c] \o Blank.sndbuf, Blank, hand, app.data)
          BY <1>2, <4>1, BlankIs, TalkNow
        <5>8. ~Half(r, app)
          BY <2>4 DEF Half
        <5>7. r2.status = "SYN_RCVD" /\ r2.rcvbuf = <<>>
          BY <1>2, <1>4, <2>4, <5>8, NowQuiet DEF Typed
        <5>2. "SYN" \in Head(toServer[c]).flags
          BY <1>6 DEF seg
        <5>3. net \in Seq(Segments) /\ net # <<>> /\ "SYN" \in Head(net).flags
          BY <1>2, <5>2
        <5>4. Talk(polite, p, net, pipe, Blank, hand, data)
          BY <4>3, <5>1
        <5> DEFINE out == <<x>>
        <5>5. out = <<x>>
          OBVIOUS
        <5> HIDE DEF hand, pipe, net, p, data, polite, out, r2
        <5>6. pipe = <<>> /\ Talk(polite, p, Tail(net), out, r2, hand, data)
          BY <2>3, <5>3, <5>4, <5>5, <5>7, TalkSyn
        <5> QED
          BY <5>6 DEF out, hand, pipe, net, p, data, polite, r2
      <4>5. toClient[c] \o <<x>> = <<x>>
        <5>1. toClient[c] = <<>>
          BY <4>3, <4>4
        <5>2. <<x>> \in Seq(Segments)
          BY <2>3
        <5>3. <<>> \o <<x>> = <<x>>
          BY <5>2, ConcatEmptySeq
        <5> QED
          BY <5>1, <5>3
      <4> QED
        BY <2>4, <2>16, <3>2, <4>1, <4>2, <4>4, <4>5
    <3>3. CASE d # c
      <4>1. tcb[s].peer # d
        BY <2>2, UStackAssumption DEF Blank
      <4>2. Block(t2, d) = Block(tcb, d)
        BY <1>4, <2>2, <2>4, <2>5, <2>9, <3>3, <4>1, OtherBlock
      <4>3. toServer'[d] = toServer[d]
        BY <1>2, <1>4, <3>3 DEF Typed
      <4> QED
        BY <2>16, <3>1, <4>2, <4>3
    <3> QED
      BY <3>2, <3>3
  <2>18. \A d \in Clients : Talks(d)'
    BY <1>3, <2>1, <2>17 DEF Talks, Pipe, Tame
  <2>19. CoreOk(tcb', core')
    BY <1>2, <1>3 DEF CoreOk
  <2> QED
    BY <1>3, <2>1, <2>9, <2>11, <2>12, <2>13, <2>15, <2>18, <2>19 DEF StackInv
<1> QED
  BY <1>5, <1>6

\* ng_tcp_handle_syn_rcvd: the server is told of the connection.
LEMMA RcvdStep ==
  ASSUME StackInv, NEW c \in Clients, ng_tcp_handle_syn_rcvd(c)
  PROVE  StackInv'
<1> DEFINE s == ng_tcp_stream_search(c)
           t == tcb[s]
           r == [t EXCEPT !.status = "ESTABLISHED"]
<1>1. Arriving(c, "SYN_RCVD")
  BY DEF ng_tcp_handle_syn_rcvd
<1>2. /\ s \in Streams \ {LISTENER} /\ s \in ToSet(tcb_set) /\ t \in ControlBlocks
      /\ t.status = "SYN_RCVD" /\ RingOk(t) /\ t.peer = c /\ Block(tcb, c) = t
      /\ toServer[c] # <<>> /\ toServer' = [toServer EXCEPT ![c] = Tail(@)]
      /\ toServer[c] \in Seq(Segments) /\ toClient[c] \in Seq(Segments) /\ core = Idle
  BY <1>1, Arrives
<1>3. tcb' = [tcb EXCEPT ![s] = r]
  BY DEF ng_tcp_handle_syn_rcvd
<1>4. Typed
  BY DEF StackInv
<1>5. /\ app' \in Servers /\ app'.fd = app.fd /\ app'.ready = app.ready /\ app'.data = app.data
      /\ \/ app'.pc = app.pc
         \/ app.pc = "accept_wait" /\ app'.pc = "accept"
         \/ app.pc = "recv_wait" /\ app'.pc = "recv"
  <2>1. app' = Signalled(LISTENER, [accept_wait |-> "accept"])
    BY DEF ng_tcp_handle_syn_rcvd
  <2> QED
    BY <1>4, <2>1, SignalledFacts
<1>6. rdlist' \in Seq(Fds) /\ (plan.mode # "epoll" => rdlist' = rdlist)
  <2>1. epoll_event_callback(LISTENFD)
    BY DEF ng_tcp_handle_syn_rcvd
  <2> QED
    BY <1>4, <2>1, CallbackFacts
<1>7. UNCHANGED <<tcb_set, fd_table, items, core, hurried, toClient, peer, plan>>
  BY DEF ng_tcp_handle_syn_rcvd, clients
<1>8. Talk(Tame(c), peer[c], toServer[c], toClient[c] \o t.sndbuf, t,
           InHand(tcb_set, tcb, app, c), app.data)
  BY <1>2, TalkNow
<1> HIDE DEF s, t
<1>9. /\ r \in ControlBlocks /\ r.peer = t.peer /\ r.fd = t.fd /\ r.status = "ESTABLISHED"
      /\ r.rcvbuf = t.rcvbuf /\ r.sndbuf = t.sndbuf /\ r.snd_nxt = t.snd_nxt
  <2>1. "ESTABLISHED" \in Statuses
    BY DEF Statuses
  <2> QED
    BY <1>2, <2>1 DEF ControlBlocks
<1> HIDE DEF r
<1>10. RingOk(r)
  BY <1>2, <1>9 DEF RingOk, Serving
<1>11. Talk(Tame(c), peer[c], Tail(toServer[c]), toClient[c] \o r.sndbuf, Now(r, core', app'),
            InHand(tcb_set, tcb, app, c), app.data)
  <2> DEFINE p == peer[c]
             net == toServer[c]
             pipe == toClient[c] \o t.sndbuf
             hand == InHand(tcb_set, tcb, app, c)
             polite == Tame(c)
             data == app.data
             n == Now(r, core', app')
  <2>1. Talk(polite, p, net, pipe, t, hand, data) /\ net \in Seq(Segments) /\ net # <<>>
    BY <1>2, <1>8
  <2>3. ~Half(r, app') /\ core' \in Cores /\ core' = Idle
    BY <1>2, <1>4, <1>7, <1>9 DEF Half, Typed
  <2>4. n.status = "ESTABLISHED" /\ n.rcvbuf = t.rcvbuf /\ n.snd_nxt = t.snd_nxt
    BY <1>9, <2>3, NowQuiet
  <2> HIDE DEF p, net, pipe, hand, polite, data, n
  <2>2. Talk(polite, p, Tail(net), pipe, n, hand, data)
    BY <1>2, <2>1, <2>4, TalkOpen
  <2> QED
    BY <1>9, <2>2 DEF p, net, pipe, hand, polite, data, n
<1>12. r.status \in Connected /\ r.status \in Serving /\ r.status # "LAST_ACK"
  BY <1>9 DEF Connected, Serving
<1>13. tcb[s] = t
  BY DEF t
<1> DEFINE n == Tail(toServer[c])
<1>14. /\ n \in Seq(Segments) /\ core' \in Cores /\ core.of \in {c, NONE}
       /\ (core' # Idle => core'.of = c) /\ core'.of \in {c, NONE}
  BY <1>2, <1>4, <1>7, TailFacts DEF Typed, Idle
<1>15. toServer' = [toServer EXCEPT ![c] = n]
  BY <1>2
<1>16. Talk(Tame(c), peer[c], n, toClient[c] \o r.sndbuf, Now(r, core', app'),
            InHand(tcb_set, tcb, app, c), app.data)
  BY <1>11
<1> HIDE DEF n
<1>17. /\ c = tcb[s].peer /\ r.peer = c /\ r.fd = tcb[s].fd /\ r.status \in Connected
       /\ (r.status = "LAST_ACK" <=> tcb[s].status = "LAST_ACK")
       /\ (tcb[s].status \in Serving => r.status \in Serving)
       /\ (tcb[s].status = "CLOSE_WAIT" => r.status = "CLOSE_WAIT" /\ r.rcvbuf = tcb[s].rcvbuf)
  BY <1>2, <1>9, <1>12, <1>13
<1>18. /\ StackInv /\ s \in Streams \ {LISTENER} /\ s \in ToSet(tcb_set)
       /\ c = tcb[s].peer /\ r \in ControlBlocks
       /\ r.peer = c /\ r.fd = tcb[s].fd /\ r.status \in Connected /\ RingOk(r)
       /\ (r.status = "LAST_ACK" <=> tcb[s].status = "LAST_ACK")
       /\ (tcb[s].status \in Serving => r.status \in Serving)
       /\ (tcb[s].status = "CLOSE_WAIT" => r.status = "CLOSE_WAIT" /\ r.rcvbuf = tcb[s].rcvbuf)
       /\ tcb' = [tcb EXCEPT ![s] = r]
  BY <1>2, <1>3, <1>9, <1>10, <1>17
<1>19. /\ n \in Seq(Segments) /\ toServer' = [toServer EXCEPT ![c] = n]
       /\ core' \in Cores /\ core.of \in {c, NONE} /\ (core' # Idle => core'.of = c)
       /\ core'.of \in {c, NONE}
       /\ Talk(Tame(c), peer[c], n, toClient[c] \o r.sndbuf, Now(r, core', app'),
              InHand(tcb_set, tcb, app, c), app.data)
  BY <1>14, <1>15, <1>16
<1>20. /\ app' \in Servers /\ app'.fd = app.fd /\ app'.ready = app.ready /\ app'.data = app.data
       /\ (\/ app'.pc = app.pc
           \/ app.pc = "accept_wait" /\ app'.pc = "accept"
           \/ app.pc = "recv_wait" /\ app'.pc = "recv")
       /\ rdlist' \in Seq(Fds) /\ (plan.mode # "epoll" => rdlist' = rdlist)
       /\ UNCHANGED <<tcb_set, fd_table, items, hurried, toClient, peer, plan>>
  BY <1>5, <1>6, <1>7
<1> QED
  BY ONLY <1>18, <1>19, <1>20, CoreStep

\* ng_tcp_handle_established: data and the end of the client's side go into the ring.
LEMMA EstablishedStep ==
  ASSUME StackInv, NEW c \in Clients, ng_tcp_handle_established(c)
  PROVE  StackInv'
<1> DEFINE s   == ng_tcp_stream_search(c)
           t   == tcb[s]
           seg == Head(toServer[c])
           psh == "PSH" \in seg.flags
           fin == "FIN" \in seg.flags
           r   == Enqueued(t, seg)
<1>1. Arriving(c, "ESTABLISHED")
  BY DEF ng_tcp_handle_established
<1>2. /\ s \in Streams \ {LISTENER} /\ s \in ToSet(tcb_set) /\ t \in ControlBlocks
      /\ t.status = "ESTABLISHED" /\ RingOk(t) /\ t.peer = c /\ Block(tcb, c) = t
      /\ toServer[c] # <<>> /\ toServer' = [toServer EXCEPT ![c] = Tail(@)]
      /\ toServer[c] \in Seq(Segments) /\ toClient[c] \in Seq(Segments) /\ seg \in Segments
      /\ core = Idle
  BY <1>1, Arrives
<1>3. UNCHANGED <<tcb_set, fd_table, items, hurried, toClient, peer, plan>>
  BY DEF ng_tcp_handle_established, clients
<1>4. Typed
  BY DEF StackInv
<1>5. CASE ~(psh \/ fin)
  <2>1. UNCHANGED <<tcb, app, rdlist, core>>
    BY <1>5 DEF ng_tcp_handle_established
  <2>2. hurried \subseteq hurried' /\ hurried' \subseteq Clients
    BY <1>3, <1>4 DEF Typed
  <2> QED
    BY <1>2, <1>3, <2>1, <2>2, DropStep
<1>6. CASE psh \/ fin
  <2>1. /\ tcb' = [tcb EXCEPT ![s] = r]
        /\ app' = Signalled(s, [recv_wait |-> "recv"]) /\ epoll_event_callback(t.fd)
        /\ core' = [of |-> c, ack |-> seg.ack]
    BY <1>6 DEF ng_tcp_handle_established
  <2>2. /\ app' \in Servers /\ app'.fd = app.fd /\ app'.ready = app.ready /\ app'.data = app.data
        /\ \/ app'.pc = app.pc
           \/ app.pc = "accept_wait" /\ app'.pc = "accept"
           \/ app.pc = "recv_wait" /\ app'.pc = "recv"
    BY <1>4, <2>1, SignalledFacts
  <2>3. rdlist' \in Seq(Fds) /\ (plan.mode # "epoll" => rdlist' = rdlist)
    BY <1>4, <2>1, CallbackFacts
  <2>4. Talk(Tame(c), peer[c], toServer[c], toClient[c] \o t.sndbuf, t,
             InHand(tcb_set, tcb, app, c), app.data)
    BY <1>2, TalkNow
  <2> DEFINE u == IF psh THEN seg.data ELSE 0
             st == IF fin THEN "CLOSE_WAIT" ELSE "ESTABLISHED"
  <2>5. seg.data \in Nat /\ seg.ack \in Int /\ seg.flags \in Kinds
    BY <1>2 DEF Segments
  <2>6. \/ "PSH" \in seg.flags /\ u = seg.data /\ u \in Nat /\ u # 0 /\ st = "ESTABLISHED"
        \/ "FIN" \in seg.flags /\ u = 0 /\ st = "CLOSE_WAIT"
    <3>1. CASE psh
      <4>1. ~fin
        BY <2>5, <3>1, Flags
      <4>2. seg = toServer[c][1] /\ 1 \in DOMAIN toServer[c]
        BY <1>2, TailFacts
      <4>3. seg.data # 0
        BY <2>4, <3>1, <4>2 DEF Talk, Wire
      <4>4. u = seg.data
        BY <3>1
      <4>5. st = "ESTABLISHED"
        BY <4>1
      <4> QED
        BY <2>5, <3>1, <4>3, <4>4, <4>5
    <3>2. CASE ~psh
      <4>1. fin
        BY <1>6, <3>2
      <4>2. u = 0
        BY <3>2
      <4>3. st = "CLOSE_WAIT"
        BY <4>1
      <4> QED
        BY <4>1, <4>2, <4>3
    <3> QED
      BY <3>1, <3>2
  <2>15. r = [t EXCEPT !.rcvbuf = Append(@, u), !.status = st]
    BY <1>2 DEF Enqueued
  <2>16. app.pc = "closing" => t.fd # app.fd
    <3> DEFINE h == Host(tcb_set, tcb, app.fd)
    <3>1. SUFFICES ASSUME app.pc = "closing", tcb[s].fd = app.fd PROVE FALSE
      OBVIOUS
    <3>2. /\ \A v \in Streams : tcb[v].fd = app.fd /\ tcb[v].status # "LAST_ACK" => v = h
          /\ tcb[h].status = "CLOSE_WAIT"
      BY <3>1, Held
    <3> QED
      BY <1>2, <3>1, <3>2
  <2> HIDE DEF s, t, u, st, seg
  <2>9. /\ r \in ControlBlocks /\ r.peer = c /\ r.fd = t.fd /\ r.status = st
        /\ r.rcvbuf = Append(t.rcvbuf, u) /\ r.sndbuf = t.sndbuf
    <3>1. u \in Nat /\ st \in Statuses
      BY <2>6 DEF Statuses
    <3>2. Append(t.rcvbuf, u) \in Seq(Nat)
      BY <1>2, <3>1 DEF ControlBlocks
    <3> HIDE DEF r
    <3> QED
      BY <1>2, <2>15, <3>1, <3>2 DEF ControlBlocks
  <2> HIDE DEF r
  <2>10. RingOk(r)
    <3>1. \A i \in DOMAIN t.rcvbuf : t.rcvbuf[i] # 0
      BY <1>2 DEF RingOk
    <3>2. /\ Len(t.rcvbuf) \in Nat
          /\ \A i \in DOMAIN t.rcvbuf : r.rcvbuf[i] = t.rcvbuf[i]
          /\ r.rcvbuf[Len(t.rcvbuf) + 1] = u /\ Len(r.rcvbuf) = Len(t.rcvbuf) + 1
          /\ DOMAIN r.rcvbuf = DOMAIN t.rcvbuf \cup {Len(t.rcvbuf) + 1}
      <4>1. t.rcvbuf \in Seq(Nat) /\ u \in Nat
        BY <1>2, <2>6 DEF ControlBlocks
      <4> QED
        BY <2>9, <4>1, AppendFacts
    <3>3. u = 0 => st = "CLOSE_WAIT"
      BY <2>6
    <3>4. st \in Serving
      BY <2>6 DEF Serving
    <3> QED
      BY <2>9, <3>1, <3>2, <3>3, <3>4 DEF RingOk
  <2>11. core' \in Cores /\ core'.of = c /\ c # NONE /\ core'.ack = seg.ack
    BY <2>1, <2>5, UStackAssumption DEF Cores
  <2> DEFINE n2 == Now(r, core', app')
  <2>17. n2.status = st /\ n2.rcvbuf = Append(t.rcvbuf, u) /\ n2.snd_nxt = seg.ack
    <3>1. ~Half(r, app')
      BY <2>2, <2>9, <2>16 DEF Half
    <3> QED
      BY <2>9, <2>11, <3>1, NowFacts
  <2> DEFINE n == Tail(toServer[c])
  <2>12. Talk(Tame(c), peer[c], n, toClient[c] \o r.sndbuf, n2,
              InHand(tcb_set, tcb, app, c), app.data)
    <3> DEFINE p == peer[c]
               net == toServer[c]
               pipe == toClient[c] \o t.sndbuf
               hand == InHand(tcb_set, tcb, app, c)
               polite == Tame(c)
               data == app.data
    <3>1. /\ Talk(polite, p, net, pipe, t, hand, data) /\ net \in Seq(Segments) /\ net # <<>>
          /\ seg = Head(net) /\ t.rcvbuf \in Seq(Nat)
      BY <1>2, <2>4 DEF ControlBlocks, seg
    <3>2. CASE "PSH" \in seg.flags /\ u = seg.data /\ st = "ESTABLISHED"
      <4> HIDE DEF p, net, pipe, hand, polite, data, n2
      <4>2. /\ "PSH" \in Head(net).flags /\ n2.rcvbuf = Append(t.rcvbuf, Head(net).data)
            /\ n2.status = "ESTABLISHED" /\ n2.snd_nxt = Head(net).ack
        BY <2>17, <3>1, <3>2
      <4>3. Talk(polite, p, Tail(net), pipe, n2, hand, data)
        BY <1>2, <3>1, <4>2, TalkData
      <4> QED
        BY <2>9, <4>3 DEF p, net, pipe, hand, polite, data
    <3>3. CASE "FIN" \in seg.flags /\ u = 0 /\ st = "CLOSE_WAIT"
      <4> HIDE DEF p, net, pipe, hand, polite, data, n2
      <4>2. /\ "FIN" \in Head(net).flags /\ n2.rcvbuf = Append(t.rcvbuf, 0)
            /\ n2.status = "CLOSE_WAIT" /\ n2.snd_nxt = Head(net).ack
        BY <2>17, <3>1, <3>3
      <4>3. Talk(polite, p, Tail(net), pipe, n2, hand, data)
        BY <1>2, <3>1, <4>2, TalkFin
      <4> QED
        BY <2>9, <4>3 DEF p, net, pipe, hand, polite, data
    <3> QED
      BY <2>6, <3>2, <3>3
  <2>13. r.status \in Connected /\ r.status \in Serving /\ r.status # "LAST_ACK"
    BY <2>6, <2>9 DEF Connected, Serving
  <2>14. tcb[s] = t
    BY DEF t
  <2>18. /\ StackInv /\ s \in Streams \ {LISTENER} /\ s \in ToSet(tcb_set)
         /\ c = tcb[s].peer /\ r \in ControlBlocks
         /\ r.peer = c /\ r.fd = tcb[s].fd /\ r.status \in Connected /\ RingOk(r)
         /\ (r.status = "LAST_ACK" <=> tcb[s].status = "LAST_ACK")
         /\ (tcb[s].status \in Serving => r.status \in Serving)
         /\ (tcb[s].status = "CLOSE_WAIT" => r.status = "CLOSE_WAIT" /\ r.rcvbuf = tcb[s].rcvbuf)
         /\ tcb' = [tcb EXCEPT ![s] = r]
    BY <1>2, <2>1, <2>9, <2>10, <2>13, <2>14
  <2>19. /\ n \in Seq(Segments) /\ toServer' = [toServer EXCEPT ![c] = n]
         /\ core' \in Cores /\ core.of \in {c, NONE} /\ (core' # Idle => core'.of = c)
         /\ core'.of \in {c, NONE}
         /\ Talk(Tame(c), peer[c], n, toClient[c] \o r.sndbuf, Now(r, core', app'),
                InHand(tcb_set, tcb, app, c), app.data)
    BY <1>2, <2>11, <2>12, TailFacts DEF Idle
  <2> HIDE DEF n
  <2>20. /\ app' \in Servers /\ app'.fd = app.fd /\ app'.ready = app.ready /\ app'.data = app.data
         /\ (\/ app'.pc = app.pc
             \/ app.pc = "accept_wait" /\ app'.pc = "accept"
             \/ app.pc = "recv_wait" /\ app'.pc = "recv")
         /\ rdlist' \in Seq(Fds) /\ (plan.mode # "epoll" => rdlist' = rdlist)
         /\ UNCHANGED <<tcb_set, fd_table, items, hurried, toClient, peer, plan>>
    BY <1>3, <2>2, <2>3
  <2> QED
    BY ONLY <2>18, <2>19, <2>20, CoreStep
<1> QED
  BY <1>5, <1>6

\* The packet core looks its client up again, and finds it.
LEMMA Numbering ==
  ASSUME StackInv, core # Idle, NEW s, s = ng_tcp_stream_search(core.of)
  PROVE  /\ s \in Streams \ {LISTENER} /\ s \in ToSet(tcb_set) /\ tcb[s] \in ControlBlocks
         /\ core.of \in Clients /\ tcb[s].peer = core.of /\ Block(tcb, core.of) = tcb[s]
         /\ RingOk(tcb[s]) /\ core \in Cores
<1>1. Typed /\ ListOk(tcb_set, tcb) /\ core \in Cores /\ core.of \in Clients
  BY DEF StackInv, CoreOk, Typed, Cores
<1>2. \E u \in Streams : tcb[u].peer = core.of
  BY DEF StackInv, CoreOk
<1>3. s \in Streams \ {LISTENER} /\ s \in ToSet(tcb_set) /\ tcb[s].peer = core.of
  BY <1>1, <1>2, SearchIs
<1>4. tcb[s] \in ControlBlocks /\ RingOk(tcb[s])
  BY <1>1, <1>3 DEF Typed, StackInv
<1>5. Block(tcb, core.of) = tcb[s]
  BY <1>1, <1>3, BlockIs
<1> QED
  BY <1>1, <1>3, <1>4, <1>5

\* established_numbers: what the conversation already counts on comes true.
LEMMA NumbersStep ==
  ASSUME StackInv, established_numbers
  PROVE  StackInv'
<1> DEFINE s == ng_tcp_stream_search(core.of)
           c == core.of
           t == tcb[s]
           x == Segment({"ACK"}, core.ack, t.rcv_nxt + 1, 0)
           r == Numbered(t, core.ack)
<1>1. /\ core # Idle /\ tcb' = [tcb EXCEPT ![s] = r] /\ core' = Idle
      /\ UNCHANGED <<tcb_set, fd_table, rdlist, items, app, hurried, toServer, toClient, peer, plan>>
  BY DEF established_numbers, clients
<1>2. /\ s \in Streams \ {LISTENER} /\ s \in ToSet(tcb_set) /\ t \in ControlBlocks
      /\ c \in Clients /\ t.peer = c /\ Block(tcb, c) = t /\ RingOk(t) /\ core \in Cores
  BY <1>1, Numbering
<1>3. Typed
  BY DEF StackInv
<1>4. /\ toServer[c] \in Seq(Segments) /\ toClient[c] \in Seq(Segments) /\ c # NONE
      /\ t.status \in Connected /\ core.ack \in Int
  BY <1>2, <1>3, UStackAssumption DEF Typed, Cores, StackInv, ListOk
<1> DEFINE m == Now(t, core, app)
<1>5. Talk(Tame(c), peer[c], toServer[c], toClient[c] \o t.sndbuf, m,
           InHand(tcb_set, tcb, app, c), app.data)
  BY <1>2 DEF StackInv, Talks, Pipe
<1> HIDE DEF s, c, t
<1>6. x \in Segments /\ x.flags = {"ACK"}
  <2>1. t.rcv_nxt + 1 \in Int
    BY <1>2 DEF ControlBlocks
  <2> QED
    BY <1>4, <2>1, KindFacts, SegmentFacts
<1>7. /\ r \in ControlBlocks /\ r.peer = c /\ r.fd = t.fd /\ r.status = t.status
      /\ r.rcvbuf = t.rcvbuf /\ r.sndbuf = Append(t.sndbuf, x) /\ r.snd_nxt = core.ack
  <2>1. r = [t EXCEPT !.snd_nxt = core.ack, !.rcv_nxt = @ + 1, !.sndbuf = Append(@, x)]
    BY DEF Numbered
  <2> HIDE DEF x, r
  <2>2. Append(t.sndbuf, x) \in Seq(Segments) /\ t.rcv_nxt + 1 \in Int
    BY <1>2, <1>6 DEF ControlBlocks
  <2> QED
    BY <1>2, <1>4, <2>1, <2>2 DEF ControlBlocks
<1> HIDE DEF x, r
<1>8. RingOk(r)
  BY <1>2, <1>7 DEF RingOk
<1> DEFINE n == toServer[c]
           r2 == Now(r, core', app')
<1>9. r2.status = m.status /\ r2.rcvbuf = m.rcvbuf /\ r2.snd_nxt = m.snd_nxt
  <2>1. Half(r, app') <=> Half(t, app)
    BY <1>1, <1>7 DEF Half
  <2>2. core' \in Cores /\ core'.of = NONE
    BY <1>1 DEF Idle, Cores
  <2>3. /\ r2.status = (IF Half(r, app') THEN "LAST_ACK" ELSE r.status)
        /\ r2.rcvbuf = r.rcvbuf /\ r2.snd_nxt = r.snd_nxt
    BY <1>7, <2>2, NowFacts
  <2>4. /\ m.status = (IF Half(t, app) THEN "LAST_ACK" ELSE t.status)
        /\ m.rcvbuf = t.rcvbuf /\ m.snd_nxt = core.ack
    BY <1>2, <1>4, NowFacts DEF c
  <2> QED
    BY <1>7, <2>1, <2>3, <2>4
<1>10. Talk(Tame(c), peer[c], n, toClient[c] \o r.sndbuf, r2,
            InHand(tcb_set, tcb, app, c), app.data)
  <2> DEFINE p == peer[c]
             u0 == toClient[c]
             v0 == t.sndbuf
             pipe == u0 \o v0
             hand == InHand(tcb_set, tcb, app, c)
             polite == Tame(c)
             data == app.data
  <2>1. Talk(polite, p, n, pipe, m, hand, data)
    BY <1>5
  <2>2. u0 \in Seq(Segments) /\ v0 \in Seq(Segments)
    BY <1>2, <1>4 DEF ControlBlocks
  <2>3. m.status # "CLOSED"
    BY <1>2, <1>4, NowFacts DEF Connected, Serving
  <2> HIDE DEF p, n, u0, v0, pipe, hand, polite, data, m, r2
  <2>4. pipe \in Seq(Segments) /\ u0 \o Append(v0, x) = Append(pipe, x)
    BY <1>6, <2>2, AppendPipe DEF pipe
  <2>5. Talk(polite, p, n, Append(pipe, x), r2, hand, data)
    BY <1>6, <1>9, <2>1, <2>3, <2>4, TalkAcked
  <2> QED
    BY <1>7, <2>4, <2>5 DEF p, n, u0, v0, hand, polite, data
<1>11. tcb[s] = t
  BY DEF t
<1>18. /\ StackInv /\ s \in Streams \ {LISTENER} /\ s \in ToSet(tcb_set)
       /\ c = tcb[s].peer /\ r \in ControlBlocks
       /\ r.peer = c /\ r.fd = tcb[s].fd /\ r.status \in Connected /\ RingOk(r)
       /\ (r.status = "LAST_ACK" <=> tcb[s].status = "LAST_ACK")
       /\ (tcb[s].status \in Serving => r.status \in Serving)
       /\ (tcb[s].status = "CLOSE_WAIT" => r.status = "CLOSE_WAIT" /\ r.rcvbuf = tcb[s].rcvbuf)
       /\ tcb' = [tcb EXCEPT ![s] = r]
  BY <1>1, <1>2, <1>4, <1>7, <1>8, <1>11
<1>19. /\ n \in Seq(Segments) /\ toServer' = [toServer EXCEPT ![c] = n]
       /\ core' \in Cores /\ core.of \in {c, NONE} /\ (core' # Idle => core'.of = c)
       /\ core'.of \in {c, NONE}
       /\ Talk(Tame(c), peer[c], n, toClient[c] \o r.sndbuf, Now(r, core', app'),
              InHand(tcb_set, tcb, app, c), app.data)
  <2>1. core' \in Cores /\ core'.of = NONE /\ core.of = c
    BY <1>1 DEF Idle, Cores, c
  <2>2. toServer' = [toServer EXCEPT ![c] = n]
    BY <1>1, <1>2, <1>3 DEF Typed
  <2> QED
    BY <1>1, <1>4, <1>10, <2>1, <2>2
<1> HIDE DEF n
<1>20. /\ app' \in Servers /\ app'.fd = app.fd /\ app'.ready = app.ready /\ app'.data = app.data
       /\ (\/ app'.pc = app.pc
           \/ app.pc = "accept_wait" /\ app'.pc = "accept"
           \/ app.pc = "recv_wait" /\ app'.pc = "recv")
       /\ rdlist' \in Seq(Fds) /\ (plan.mode # "epoll" => rdlist' = rdlist)
       /\ UNCHANGED <<tcb_set, fd_table, items, hurried, toClient, peer, plan>>
  BY <1>1, <1>3 DEF Typed
<1> QED
  BY ONLY <1>18, <1>19, <1>20, CoreStep

\* ng_tcp_handle_close_wait: nothing more is expected from the client, and what comes
\* while nclose is half-way makes the client hurried.
LEMMA CloseWaitStep ==
  ASSUME StackInv, NEW c \in Clients, ng_tcp_handle_close_wait(c)
  PROVE  StackInv'
<1>1. /\ Arriving(c, "CLOSE_WAIT") /\ hurried' \in {hurried, hurried \cup {c}}
      /\ UNCHANGED <<tcb_set, tcb, fd_table, rdlist, items, app, core, toClient, peer, plan>>
  BY DEF ng_tcp_handle_close_wait, clients
<1>2. toServer[c] # <<>> /\ toServer' = [toServer EXCEPT ![c] = Tail(@)]
  BY <1>1 DEF Arriving
<1>3. hurried \subseteq hurried' /\ hurried' \subseteq Clients
  BY <1>1 DEF StackInv, Typed
<1> QED
  BY <1>1, <1>2, <1>3, DropStep

\* Taking the i-th control block out of the list moves those behind it one place forward.
LEMMA RemoveAtProperties ==
  ASSUME NEW S, NEW s \in Seq(S), NEW i \in 1..Len(s)
  PROVE  /\ RemoveAt(s, i) \in Seq(S)
         /\ Len(RemoveAt(s, i)) = Len(s) - 1
         /\ \A j \in 1..(Len(s) - 1) :
              RemoveAt(s, i)[j] = IF j < i THEN s[j] ELSE s[j + 1]
<1> DEFINE before == SubSeq(s, 1, i - 1)
           after  == SubSeq(s, i + 1, Len(s))
<1>1. Len(s) \in Nat /\ \A j \in 1..Len(s) : s[j] \in S
  BY ElementOfSeq
<1>2. /\ before \in Seq(S) /\ Len(before) = i - 1
      /\ \A j \in 1..(i - 1) : before[j] = s[j]
  <2>1. /\ before \in Seq(S)
        /\ Len(before) = IF 1 <= i - 1 THEN (i - 1) - 1 + 1 ELSE 0
        /\ \A j \in 1..((i - 1) - 1 + 1) : before[j] = s[1 + j - 1]
    BY <1>1, SubSeqProperties
  <2> QED
    BY <1>1, <2>1
<1>3. /\ after \in Seq(S) /\ Len(after) = Len(s) - i
      /\ \A j \in 1..(Len(s) - i) : after[j] = s[i + j]
  <2>1. /\ after \in Seq(S)
        /\ Len(after) = IF i + 1 <= Len(s) THEN Len(s) - (i + 1) + 1 ELSE 0
        /\ \A j \in 1..(Len(s) - (i + 1) + 1) : after[j] = s[i + 1 + j - 1]
    BY <1>1, SubSeqProperties
  <2> QED
    BY <1>1, <2>1
<1>4. RemoveAt(s, i) = before \o after
  BY DEF RemoveAt
<1> HIDE DEF before, after
<1>5. /\ before \o after \in Seq(S)
      /\ Len(before \o after) = Len(before) + Len(after)
      /\ \A j \in 1..(Len(before) + Len(after)) :
           (before \o after)[j] =
             IF j <= Len(before) THEN before[j] ELSE after[j - Len(before)]
  BY <1>2, <1>3, ConcatProperties
<1>6. Len(before) + Len(after) = Len(s) - 1
  BY <1>1, <1>2, <1>3
<1>7. ASSUME NEW j \in 1..(Len(s) - 1)
      PROVE  (before \o after)[j] = IF j < i THEN s[j] ELSE s[j + 1]
  <2>1. CASE j < i
    BY <1>1, <1>2, <1>5, <1>6, <2>1
  <2>2. CASE ~(j < i)
    <3>1. j - (i - 1) \in 1..(Len(s) - i) /\ i + (j - (i - 1)) = j + 1
      BY <1>1, <2>2
    <3>2. after[j - (i - 1)] = s[j + 1]
      BY <1>3, <3>1
    <3> DEFINE both == before \o after
               m == Len(before)
    <3>3. /\ \A k \in 1..(m + Len(after)) : both[k] = IF k <= m THEN before[k] ELSE after[k - m]
          /\ m = i - 1 /\ j \in 1..(m + Len(after)) /\ ~(j <= m)
      BY <1>1, <1>2, <1>5, <1>6, <2>2
    <3> HIDE DEF before, after, both, m
    <3>4. both[j] = after[j - m]
      BY <3>3
    <3> QED
      BY <2>2, <3>2, <3>3, <3>4 DEF both
  <2> QED
    BY <2>1, <2>2
<1> QED
  BY <1>4, <1>5, <1>6, <1>7

\* The control blocks that stay keep their order.
LEMMA WithoutOne ==
  ASSUME NEW q \in Seq(Streams), \A i, j \in DOMAIN q : q[i] = q[j] => i = j,
         NEW n \in DOMAIN q, NEW q2, q2 = RemoveAt(q, n)
  PROVE  /\ q2 \in Seq(Streams)
         /\ \A i, j \in DOMAIN q2 : q2[i] = q2[j] => i = j
         /\ ToSet(q2) = ToSet(q) \ {q[n]}
         /\ DOMAIN q2 = 1..(Len(q) - 1) /\ DOMAIN q = 1..Len(q) /\ Len(q) \in Nat
         /\ \A i \in DOMAIN q2 : q2[i] = IF i < n THEN q[i] ELSE q[i + 1]
<1>0. q \in Seq(Streams) /\ n \in DOMAIN q
  OBVIOUS
<1>1. Len(q) \in Nat /\ DOMAIN q = 1..Len(q) /\ n \in 1..Len(q)
  BY ONLY <1>0, LenProperties
<1>2. /\ q2 \in Seq(Streams) /\ Len(q2) = Len(q) - 1
      /\ \A j \in 1..(Len(q) - 1) : q2[j] = IF j < n THEN q[j] ELSE q[j + 1]
  BY <1>1, RemoveAtProperties
<1>3. DOMAIN q2 = 1..(Len(q) - 1)
  BY <1>2
<1>4. \A i \in DOMAIN q2 : q2[i] = IF i < n THEN q[i] ELSE q[i + 1]
  BY <1>2, <1>3
<1>5. ASSUME NEW i \in DOMAIN q2, NEW j \in DOMAIN q2, q2[i] = q2[j] PROVE i = j
  <2> DEFINE At0(k) == IF k < n THEN k ELSE k + 1
  <2>1. /\ q2[i] = q[At0(i)] /\ q2[j] = q[At0(j)]
        /\ At0(i) \in DOMAIN q /\ At0(j) \in DOMAIN q
    BY <1>1, <1>3, <1>4
  <2>2. At0(i) = At0(j)
    BY <1>5, <2>1
  <2> QED
    BY <1>1, <1>3, <2>2
<1>6. ToSet(q2) = ToSet(q) \ {q[n]}
  <2>1. ASSUME NEW x \in ToSet(q2) PROVE x \in ToSet(q) \ {q[n]}
    <3>1. PICK i \in DOMAIN q2 : x = q2[i]
      BY DEF ToSet
    <3>2. CASE i < n
      <4>1. x = q[i] /\ i \in DOMAIN q /\ i # n
        BY <1>1, <1>3, <1>4, <3>1, <3>2
      <4> QED
        BY <4>1 DEF ToSet
    <3>3. CASE ~(i < n)
      <4>1. x = q[i + 1] /\ i + 1 \in DOMAIN q /\ i + 1 # n
        BY <1>1, <1>3, <1>4, <3>1, <3>3
      <4> QED
        BY <4>1 DEF ToSet
    <3> QED
      BY <3>2, <3>3
  <2>2. ASSUME NEW x \in ToSet(q) \ {q[n]} PROVE x \in ToSet(q2)
    <3>1. PICK i \in DOMAIN q : x = q[i] /\ i # n
      BY DEF ToSet
    <3>2. CASE i < n
      <4>1. i \in DOMAIN q2 /\ q2[i] = x
        BY <1>1, <1>3, <1>4, <3>1, <3>2
      <4> QED
        BY <4>1 DEF ToSet
    <3>3. CASE ~(i < n)
      <4>1. i - 1 \in DOMAIN q2 /\ ~(i - 1 < n) /\ (i - 1) + 1 = i
        BY <1>1, <1>3, <3>1, <3>3
      <4>2. q2[i - 1] = x
        BY <1>4, <3>1, <4>1
      <4> QED
        BY <4>1, <4>2 DEF ToSet
    <3> QED
      BY <3>2, <3>3
  <2> QED
    BY <2>1, <2>2
<1> QED
  BY <1>1, <1>2, <1>3, <1>4, <1>5, <1>6

\* A look-up that does not stop at the one that is taken out finds what it found.
LEMMA HostWithout ==
  ASSUME NEW q \in Seq(Streams), \A i, j \in DOMAIN q : q[i] = q[j] => i = j,
         NEW n \in DOMAIN q, NEW q2, q2 = RemoveAt(q, n),
         NEW t, NEW t2, \A u \in Streams \ {q[n]} : t2[u] = t[u],
         NEW fd, Host(q, t, fd) # NONE, Host(q, t, fd) # q[n]
  PROVE  Host(q2, t2, fd) = Host(q, t, fd)
<1>1. /\ q2 \in Seq(Streams)
      /\ DOMAIN q2 = 1..(Len(q) - 1) /\ DOMAIN q = 1..Len(q) /\ Len(q) \in Nat
      /\ \A i \in DOMAIN q2 : q2[i] = IF i < n THEN q[i] ELSE q[i + 1]
  BY WithoutOne
<1>2. PICK i \in DOMAIN q : /\ Host(q, t, fd) = q[i] /\ t[q[i]].fd = fd
                            /\ \A j \in 1..(i - 1) : t[q[j]].fd # fd /\ j \in DOMAIN q
  BY Hosted
<1>3. \A j \in DOMAIN q : q[j] \in Streams
  BY ElementOfSeq
<1>4. i # n
  BY <1>2
<1>5. \A j \in DOMAIN q : j # n => t2[q[j]] = t[q[j]]
  BY <1>3
<1> DEFINE k == IF i < n THEN i ELSE i - 1
<1>6. k \in DOMAIN q2 /\ q2[k] = q[i]
  BY <1>1, <1>4
<1>7. \A j \in 1..(k - 1) : t2[q2[j]].fd # fd
  <2> SUFFICES ASSUME NEW j \in 1..(k - 1) PROVE t2[q2[j]].fd # fd
    OBVIOUS
  <2>1. j \in DOMAIN q2
    BY <1>1, <1>6
  <2>2. CASE j < n
    <3>1. q2[j] = q[j] /\ j \in 1..(i - 1) /\ j # n
      BY <1>1, <1>4, <2>1, <2>2
    <3> QED
      BY <1>2, <1>5, <3>1
  <2>3. CASE ~(j < n)
    <3>1. q2[j] = q[j + 1] /\ j + 1 \in 1..(i - 1) /\ j + 1 # n
      BY <1>1, <1>4, <2>1, <2>3
    <3> QED
      BY <1>2, <1>5, <3>1
  <2> QED
    BY <2>2, <2>3
<1>8. t2[q2[k]].fd = fd
  BY <1>2, <1>4, <1>5, <1>6
<1> HIDE DEF k
<1>9. Host(q2, t2, fd) = q2[k]
  <2>1. q2 \in Seq(Streams) /\ k \in DOMAIN q2
    BY <1>1, <1>6
  <2> QED
    BY <1>7, <1>8, <2>1, HostFound
<1> QED
  BY <1>2, <1>6, <1>9

\* ng_tcp_handle_last_ack: the control block leaves the list and is freed.
LEMMA LastAckStep ==
  ASSUME StackInv, NEW c \in Clients, ng_tcp_handle_last_ack(c)
  PROVE  /\ StackInv'
         /\ ToSet(tcb_set) \ ToSet(tcb_set') = {ng_tcp_stream_search(c)}
         /\ tcb[ng_tcp_stream_search(c)].peer = c
         /\ Tame(c) => peer[c].st = "done"
<1> DEFINE s == ng_tcp_stream_search(c)
           n == CHOOSE i \in DOMAIN tcb_set : tcb_set[i] = s
           q2 == RemoveAt(tcb_set, n)
           t2 == [tcb EXCEPT ![s] = Blank]
<1>1. Arriving(c, "LAST_ACK")
  BY DEF ng_tcp_handle_last_ack
<1>2. /\ s \in Streams \ {LISTENER} /\ s \in ToSet(tcb_set) /\ tcb[s] \in ControlBlocks
      /\ tcb[s].status = "LAST_ACK" /\ tcb[s].peer = c /\ Block(tcb, c) = tcb[s] /\ RingOk(tcb[s])
      /\ toServer[c] # <<>> /\ toServer' = [toServer EXCEPT ![c] = Tail(@)]
      /\ toServer[c] \in Seq(Segments) /\ toClient[c] \in Seq(Segments) /\ core = Idle
  BY <1>1, Arrives
<1>3. tcb_set' = q2 /\ tcb' = t2
  BY DEF ng_tcp_handle_last_ack
<1>4. UNCHANGED <<fd_table, rdlist, items, app, core, hurried, toClient, peer, plan>>
  BY DEF ng_tcp_handle_last_ack, clients
<1>5. Typed /\ ListOk(tcb_set, tcb) /\ tcb_set \in Seq(Streams)
      /\ \A i, j \in DOMAIN tcb_set : tcb_set[i] = tcb_set[j] => i = j
  BY DEF StackInv, Typed, ListOk
<1>6. n \in DOMAIN tcb_set /\ tcb_set[n] = s
  BY <1>2 DEF ToSet
<1> HIDE DEF s, n
<1>7. /\ q2 \in Seq(Streams) /\ \A i, j \in DOMAIN q2 : q2[i] = q2[j] => i = j
      /\ ToSet(q2) = ToSet(tcb_set) \ {s}
  BY <1>5, <1>6, WithoutOne
<1>8. /\ t2 \in [Streams -> ControlBlocks] /\ t2[s] = Blank
      /\ \A u \in Streams \ {s} : t2[u] = tcb[u]
  BY <1>2, <1>5, BlankIs DEF Typed
<1>9. app.pc \in {"send", "close", "closing"} =>
        /\ Host(tcb_set, tcb, app.fd) \in Streams \ {s}
        /\ Host(q2, t2, app.fd) = Host(tcb_set, tcb, app.fd)
  <2> SUFFICES ASSUME app.pc \in {"send", "close", "closing"}
               PROVE  /\ Host(tcb_set, tcb, app.fd) \in Streams \ {s}
                      /\ Host(q2, t2, app.fd) = Host(tcb_set, tcb, app.fd)
    OBVIOUS
  <2> DEFINE fd == app.fd
             h  == Host(tcb_set, tcb, fd)
  <2>1. h \in Streams /\ tcb[h].status \in Serving
    BY DEF StackInv, ServerOk
  <2>2. h # s /\ h # NONE
    BY <1>2, <2>1, UStackAssumption DEF Streams, Serving
  <2>3. \A u \in Streams \ {tcb_set[n]} : t2[u] = tcb[u]
    BY <1>6, <1>8
  <2>4. Host(tcb_set, tcb, fd) # NONE /\ Host(tcb_set, tcb, fd) # tcb_set[n]
    BY <1>6, <2>2
  <2>5. q2 = RemoveAt(tcb_set, n)
    OBVIOUS
  <2> HIDE DEF fd, q2, t2
  <2>6. Host(q2, t2, fd) = Host(tcb_set, tcb, fd)
    BY <1>5, <1>6, <2>3, <2>4, <2>5, HostWithout
  <2> QED
    BY <2>1, <2>2, <2>6 DEF fd
<1> HIDE DEF q2, t2
<1>10. ListOk(q2, t2)
  <2>1. tcb[s].peer # NONE /\ LISTENER \in Streams
    BY <1>2, ClientCount, UStackAssumption DEF Streams, LISTENER
  <2>2. LISTENER \in ToSet(q2) /\ t2[LISTENER] = tcb[LISTENER]
    BY <1>2, <1>5, <1>7, <1>8, <2>1 DEF ListOk
  <2>3. \A u \in Streams \ {LISTENER} :
          IF u \in ToSet(q2) THEN t2[u].peer \in Clients /\ t2[u].status \in Connected ELSE t2[u] = Blank
    BY <1>5, <1>7, <1>8 DEF ListOk
  <2>4. \A u, v \in Streams : t2[u].peer = t2[v].peer /\ t2[u].peer # NONE => u = v
    BY <1>5, <1>8, BlankIs DEF ListOk
  <2> QED
    BY <1>5, <1>7, <2>2, <2>3, <2>4 DEF ListOk
<1>11. Typed'
  <2>1. Tail(toServer[c]) \in Seq(Segments)
    BY <1>2, TailFacts
  <2> QED
    BY <1>2, <1>3, <1>4, <1>5, <1>7, <1>8, <2>1 DEF Typed
<1>12. BitmapOk(t2, fd_table, plan.mode = "epoll")
  <2>1. BitmapOk(tcb, fd_table, plan.mode = "epoll")
    BY DEF StackInv
  <2>2. ~Open(tcb[s]) /\ ~Open(t2[s]) /\ t2[s].status # "LAST_ACK"
    BY <1>2, <1>8, BlankIs DEF Open
  <2>3. \A u \in Streams : Open(t2[u]) <=> Open(tcb[u])
    BY <1>8, <2>2
  <2>4. \A u \in Streams : Open(tcb[u]) => t2[u].fd = tcb[u].fd
    BY <1>8, <2>2
  <2>5. \A u \in Streams : t2[u].status = "LAST_ACK" => t2[u].fd # -1
    BY <1>8, <2>1, <2>2 DEF BitmapOk
  <2> DEFINE epoll == plan.mode = "epoll"
  <2>6. BitmapOk(tcb, fd_table, epoll)
    BY <2>1
  <2> HIDE DEF epoll
  <2>7. BitmapOk(t2, fd_table, epoll)
    BY <2>3, <2>4, <2>5, <2>6 DEF BitmapOk
  <2> QED
    BY <2>7 DEF epoll
<1>13. \A u \in Streams : RingOk(t2[u])
  <2>1. RingOk(Blank)
    BY BlankIs DEF RingOk
  <2> QED
    BY <1>8, <2>1 DEF StackInv
<1>14. ServerOk(q2, t2, app)
  BY <1>8, <1>9 DEF StackInv, ServerOk
<1>15. \A d : InHand(q2, t2, app, d) = InHand(tcb_set, tcb, app, d)
  BY <1>8, <1>9 DEF InHand
<1>16. Talk(Tame(c), peer[c], toServer[c], toClient[c] \o tcb[s].sndbuf, tcb[s],
            InHand(tcb_set, tcb, app, c), app.data)
  BY <1>2, TalkNow
<1>17. Block(t2, c) = Blank
  <2>1. c # NONE
    BY UStackAssumption
  <2>2. \A u \in Streams : u # s => tcb[u].peer # c
    BY <1>2, <1>5, <2>1 DEF ListOk
  <2>3. \A u \in Streams : t2[u].peer # c
    BY <1>8, <2>1, <2>2, BlankIs
  <2> QED
    BY <2>3, BlockNone
<1>18. /\ Talk(Tame(c), peer[c], Tail(toServer[c]), toClient[c] \o <<>>, Now(Blank, core, app),
               InHand(tcb_set, tcb, app, c), app.data)
       /\ Tame(c) => peer[c].st = "done"
  <2> DEFINE p == peer[c]
             net == toServer[c]
             out == tcb[s].sndbuf
             pipe == toClient[c] \o out
             pipe2 == toClient[c] \o <<>>
             hand == InHand(tcb_set, tcb, app, c)
             polite == Tame(c)
             data == app.data
             b == tcb[s]
  <2>1. \A i \in DOMAIN pipe2 : i \in DOMAIN pipe /\ pipe2[i] = pipe[i]
    <3>1. out \in Seq(Segments)
      BY <1>2 DEF ControlBlocks
    <3> HIDE DEF out
    <3>2. /\ pipe2 = toClient[c]
          /\ Len(pipe) = Len(toClient[c]) + Len(out) /\ pipe \in Seq(Segments)
          /\ \A i \in 1..(Len(toClient[c]) + Len(out)) :
               pipe[i] = IF i <= Len(toClient[c]) THEN toClient[c][i] ELSE out[i - Len(toClient[c])]
      BY <1>2, <3>1, ConcatProperties, ConcatEmptySeq
    <3>3. Len(toClient[c]) \in Nat /\ Len(out) \in Nat /\ DOMAIN toClient[c] = 1..Len(toClient[c])
      BY <1>2, <3>1
    <3> HIDE DEF pipe2, pipe
    <3>4. DOMAIN pipe = 1..(Len(toClient[c]) + Len(out))
      BY <3>2
    <3> QED
      BY <3>2, <3>3, <3>4
  <2>2. Talk(polite, p, net, pipe, b, hand, data) /\ net \in Seq(Segments) /\ net # <<>>
        /\ b.status = "LAST_ACK"
    BY <1>2, <1>16
  <2> DEFINE b2 == Now(Blank, core, app)
  <2>3. b2.status = "CLOSED" /\ b2.rcvbuf = <<>>
    <3>1. ~Half(Blank, app) /\ core \in Cores
      BY <1>5, BlankIs DEF Half, Typed
    <3> QED
      BY <1>2, <3>1, BlankIs, NowQuiet
  <2> HIDE DEF p, net, out, pipe, pipe2, hand, polite, data, b, b2
  <2>4. Talk(polite, p, Tail(net), pipe2, b2, hand, data) /\ (polite => p.st = "done")
    BY <2>1, <2>2, <2>3, TalkFreed
  <2> QED
    BY <2>4 DEF p, net, pipe2, hand, polite, data, b2
<1>19. ASSUME NEW d \in Clients
       PROVE  Talk(Tame(d), peer[d], toServer'[d], toClient[d] \o Block(t2, d).sndbuf,
                   Now(Block(t2, d), core, app), InHand(q2, t2, app, d), app.data)
  <2>1. CASE d = c
    <3>1. toServer'[c] = Tail(toServer[c])
      BY <1>2, <1>5 DEF Typed
    <3>2. Blank.sndbuf = <<>>
      BY BlankIs
    <3> QED
      BY <1>15, <1>17, <1>18, <2>1, <3>1, <3>2
  <2>2. CASE d # c
    <3>1. tcb[s].peer # d /\ t2[s].peer # d
      BY <1>2, <1>8, <2>2, BlankIs, UStackAssumption
    <3>2. Block(t2, d) = Block(tcb, d)
      BY <1>2, <1>5, <1>8, <1>10, <3>1, OtherBlock
    <3>3. toServer'[d] = toServer[d]
      BY <1>2, <1>5, <2>2 DEF Typed
    <3>4. Talk(Tame(d), peer[d], toServer[d], toClient[d] \o Block(tcb, d).sndbuf,
               Now(Block(tcb, d), core, app), InHand(tcb_set, tcb, app, d), app.data)
      BY DEF StackInv, Talks, Pipe
    <3> QED
      BY <1>15, <3>2, <3>3, <3>4
  <2> QED
    BY <2>1, <2>2
<1>20. \A d \in Clients : Talks(d)'
  BY <1>3, <1>4, <1>19 DEF Talks, Pipe, Tame
<1>23. CoreOk(tcb', core')
  BY <1>2, <1>4 DEF CoreOk
<1>21. StackInv'
  BY <1>3, <1>4, <1>10, <1>11, <1>12, <1>13, <1>14, <1>20, <1>23 DEF StackInv
<1>22. ToSet(tcb_set) \ ToSet(tcb_set') = {s}
  BY <1>2, <1>3, <1>7
<1> QED
  BY <1>2, <1>18, <1>21, <1>22 DEF s

\* A segment that leaves is still on its way to the client.
LEMMA Moved ==
  ASSUME NEW q \in Seq(Segments), NEW r \in Seq(Segments), r # <<>>
  PROVE  Append(q, Head(r)) \o Tail(r) = q \o r /\ Append(q, Head(r)) \in Seq(Segments)
<1>1. Head(r) \in Segments /\ Tail(r) \in Seq(Segments) /\ r = <<Head(r)>> \o Tail(r)
  BY HeadTailProperties, ConcatProperties
<1> DEFINE h == Head(r)
           t == Tail(r)
<1>2. h \in Segments /\ t \in Seq(Segments) /\ r = <<h>> \o t
  BY <1>1
<1> HIDE DEF h, t
<1>3. Append(q, h) = q \o <<h>> /\ <<h>> \in Seq(Segments) /\ Append(q, h) \in Seq(Segments)
  BY <1>2, AppendIsConcat, AppendProperties
<1>4. (q \o <<h>>) \o t = q \o (<<h>> \o t)
  BY <1>2, <1>3, ConcatAssociative
<1>5. Append(q, h) \o t = q \o r
  BY <1>2, <1>3, <1>4
<1> QED
  BY <1>3, <1>5 DEF h, t

\* ng_tcp_out: one segment of every connection leaves.
LEMMA OutStep ==
  ASSUME StackInv, ng_tcp_out
  PROVE  StackInv'
<1> DEFINE busy == {s \in Streams : Contains(tcb_set, s) /\ tcb[s].sndbuf # <<>>}
           mine(c) == {s \in busy : tcb[s].peer = c}
<1>1. /\ tcb' = [s \in Streams |-> IF s \in busy THEN [tcb[s] EXCEPT !.sndbuf = Tail(@)] ELSE tcb[s]]
      /\ toClient' = [c \in Clients |->
           IF mine(c) = {} THEN toClient[c]
           ELSE Append(toClient[c], Head(tcb[CHOOSE s \in mine(c) : TRUE].sndbuf))]
      /\ UNCHANGED <<tcb_set, fd_table, rdlist, items, app, core, hurried, toServer, peer, plan>>
      /\ core = Idle
  BY DEF ng_tcp_out, clients
<1>2. Typed /\ ListOk(tcb_set, tcb) /\ tcb \in [Streams -> ControlBlocks] /\ tcb_set \in Seq(Streams)
  BY DEF StackInv, Typed
<1>3. \A s \in busy : s \in Streams /\ s \in ToSet(tcb_set) /\ tcb[s].sndbuf # <<>>
  BY <1>2 DEF Contains, ToSet
<1>4. \A s \in Streams \ busy : s \notin ToSet(tcb_set) \/ tcb[s].sndbuf = <<>>
  BY <1>2 DEF Contains, ToSet
<1> HIDE DEF busy
<1>5. \A s \in Streams : /\ tcb'[s].peer = tcb[s].peer /\ tcb'[s].fd = tcb[s].fd
                         /\ tcb'[s].status = tcb[s].status /\ tcb'[s].rcvbuf = tcb[s].rcvbuf
                         /\ tcb'[s].snd_nxt = tcb[s].snd_nxt
                         /\ tcb'[s].sndbuf = IF s \in busy THEN Tail(tcb[s].sndbuf) ELSE tcb[s].sndbuf
  BY <1>1, <1>2 DEF ControlBlocks
<1>6. \A s \in Streams : s \notin busy => tcb'[s] = tcb[s]
  BY <1>1
<1>7. tcb' \in [Streams -> ControlBlocks]
  <2>1. ASSUME NEW s \in Streams
        PROVE  (IF s \in busy THEN [tcb[s] EXCEPT !.sndbuf = Tail(@)] ELSE tcb[s]) \in ControlBlocks
    <3>1. tcb[s] \in ControlBlocks
      BY <1>2
    <3>2. s \in busy => Tail(tcb[s].sndbuf) \in Seq(Segments)
      BY <1>3, <3>1, TailFacts DEF ControlBlocks
    <3> QED
      BY <3>1, <3>2 DEF ControlBlocks
  <2> QED
    BY <1>1, <2>1
<1>8. ListOk(tcb_set, tcb')
  <2>1. LISTENER \notin busy /\ LISTENER \in Streams
    BY <1>2, <1>3, ClientCount DEF ListOk, Blank, Streams, LISTENER
  <2>2. tcb'[LISTENER] = tcb[LISTENER]
    BY <1>6, <2>1
  <2>3. \A s \in Streams : s \notin ToSet(tcb_set) => tcb'[s] = tcb[s]
    BY <1>3, <1>6
  <2>4. \A s \in Streams \ {LISTENER} :
          IF s \in ToSet(tcb_set) THEN tcb'[s].peer \in Clients /\ tcb'[s].status \in Connected
          ELSE tcb'[s] = Blank
    BY <1>2, <1>5, <2>3 DEF ListOk
  <2>5. \A s, u \in Streams : tcb'[s].peer = tcb'[u].peer /\ tcb'[s].peer # NONE => s = u
    BY <1>2, <1>5 DEF ListOk
  <2> QED
    BY <1>2, <2>2, <2>4, <2>5 DEF ListOk
<1>9. ASSUME NEW c \in Clients
      PROVE  /\ toClient'[c] \in Seq(Segments)
             /\ toClient'[c] \o Block(tcb', c).sndbuf = Pipe(c)
             /\ Block(tcb', c).status = Block(tcb, c).status
             /\ Block(tcb', c).rcvbuf = Block(tcb, c).rcvbuf
             /\ Block(tcb', c).snd_nxt = Block(tcb, c).snd_nxt
             /\ Block(tcb', c).fd = Block(tcb, c).fd
  <2>1. toClient[c] \in Seq(Segments)
    BY <1>2 DEF Typed
  <2>2. CASE mine(c) = {}
    <3>1. toClient'[c] = toClient[c]
      BY <1>1, <2>2
    <3>2. \A s \in Streams : tcb[s].peer = c => tcb'[s] = tcb[s]
      BY <1>6, <2>2
    <3>3. Block(tcb', c) = Block(tcb, c)
      <4>1. CASE \A u \in Streams : tcb[u].peer # c
        <5>1. \A u \in Streams : tcb'[u].peer # c
          BY <1>5, <4>1
        <5> QED
          BY <4>1, <5>1, BlockNone
      <4>2. CASE \E u \in Streams : tcb[u].peer = c
        <5>1. PICK u \in Streams : tcb[u].peer = c
          BY <4>2
        <5>2. Block(tcb, c) = tcb[u]
          BY <1>2, <5>1, BlockIs
        <5>3. tcb'[u] = tcb[u]
          BY <3>2, <5>1
        <5>4. Block(tcb', c) = tcb'[u]
          BY <1>8, <5>1, <5>3, BlockIs
        <5> QED
          BY <5>2, <5>3, <5>4
      <4> QED
        BY <4>1, <4>2
    <3> QED
      BY <2>1, <3>1, <3>3 DEF Pipe
  <2>3. CASE mine(c) # {}
    <3>1. PICK s \in busy : tcb[s].peer = c
      BY <2>3
    <3>2. s \in Streams /\ tcb[s].sndbuf # <<>> /\ tcb[s] \in ControlBlocks
      BY <1>2, <1>3, <3>1
    <3>3. c # NONE
      BY UStackAssumption
    <3>4. \A u \in mine(c) : u = s
      BY <1>2, <1>3, <3>1, <3>2, <3>3 DEF ListOk
    <3>5. (CHOOSE u \in mine(c) : TRUE) = s
      BY <2>3, <3>4
    <3>6. toClient'[c] = Append(toClient[c], Head(tcb[s].sndbuf))
      BY <1>1, <2>3, <3>5
    <3>7. Block(tcb, c) = tcb[s]
      BY <1>2, <3>1, <3>2, BlockIs
    <3>8. tcb'[s].peer = c
      BY <1>5, <3>1, <3>2
    <3>9. Block(tcb', c) = tcb'[s]
      BY <1>8, <3>2, <3>8, BlockIs
    <3>10. tcb'[s].sndbuf = Tail(tcb[s].sndbuf)
      BY <1>5, <3>1, <3>2
    <3>11. /\ Append(toClient[c], Head(tcb[s].sndbuf)) \o Tail(tcb[s].sndbuf) = toClient[c] \o tcb[s].sndbuf
           /\ Append(toClient[c], Head(tcb[s].sndbuf)) \in Seq(Segments)
      <4> DEFINE q == toClient[c]
                 r == tcb[s].sndbuf
      <4>1. q \in Seq(Segments) /\ r \in Seq(Segments) /\ r # <<>>
        BY <2>1, <3>2 DEF ControlBlocks
      <4> HIDE DEF q, r
      <4>2. Append(q, Head(r)) \o Tail(r) = q \o r /\ Append(q, Head(r)) \in Seq(Segments)
        BY <4>1, Moved
      <4> QED
        BY <4>2 DEF q, r
    <3>12. /\ tcb'[s].status = tcb[s].status /\ tcb'[s].rcvbuf = tcb[s].rcvbuf
           /\ tcb'[s].snd_nxt = tcb[s].snd_nxt /\ tcb'[s].fd = tcb[s].fd
      BY <1>5, <3>2
    <3>13. Pipe(c) = toClient[c] \o tcb[s].sndbuf
      BY <3>7 DEF Pipe
    <3>14. toClient'[c] \o Block(tcb', c).sndbuf
             = Append(toClient[c], Head(tcb[s].sndbuf)) \o Tail(tcb[s].sndbuf)
      BY <3>6, <3>9, <3>10
    <3> QED
      BY <3>6, <3>7, <3>9, <3>11, <3>12, <3>13, <3>14
  <2> QED
    BY <2>2, <2>3
<1>10. Typed'
  <2>1. toClient' \in [Clients -> Seq(Segments)]
    BY <1>1, <1>9
  <2> QED
    BY <1>1, <1>2, <1>7, <2>1 DEF Typed
<1>11. BitmapOk(tcb', fd_table, plan.mode = "epoll")
  <2> DEFINE epoll == plan.mode = "epoll"
  <2>1. BitmapOk(tcb, fd_table, epoll)
    BY DEF StackInv
  <2>2. \A u \in Streams : /\ tcb'[u].fd = tcb[u].fd
                           /\ tcb'[u].status = "LAST_ACK" <=> tcb[u].status = "LAST_ACK"
    BY <1>5
  <2> HIDE DEF epoll
  <2>3. BitmapOk(tcb', fd_table, epoll)
    BY <2>1, <2>2, SameBits
  <2> QED
    BY <2>3 DEF epoll
<1>12. \A u \in Streams : RingOk(tcb'[u])
  BY <1>5 DEF StackInv, RingOk
<1>13. /\ ServerOk(tcb_set, tcb', app')
       /\ \A d : InHand(tcb_set, tcb', app', d) = InHand(tcb_set, tcb, app, d)
  <2>1. ServerOk(tcb_set, tcb, app) /\ app' = app
    BY <1>1 DEF StackInv
  <2> QED
    BY <1>5, <2>1, SameServer
<1>14. ASSUME NEW c \in Clients PROVE Talks(c)'
  <2> DEFINE p == peer[c]
             net == toServer[c]
             pipe == Pipe(c)
             hand == InHand(tcb_set, tcb, app, c)
             polite == Tame(c)
             data == app.data
             b == Block(tcb, c)
             b2 == Block(tcb', c)
             m == Now(b, core, app)
             m2 == Now(b2, core, app)
  <2>1. Talk(polite, p, net, pipe, m, hand, data)
    BY DEF StackInv, Talks
  <2>2. b2.status = b.status /\ b2.rcvbuf = b.rcvbuf /\ b2.snd_nxt = b.snd_nxt /\ b2.fd = b.fd
    BY <1>9
  <2>3. toClient'[c] \o b2.sndbuf = pipe
    BY <1>9
  <2>5. b \in ControlBlocks /\ b2 \in ControlBlocks /\ core \in Cores /\ core.of = NONE
    BY <1>1, <1>2, <1>7, BlockOf DEF Typed, Idle
  <2> HIDE DEF p, net, pipe, hand, polite, data, b, b2
  <2>6. m2.status = m.status /\ m2.rcvbuf = m.rcvbuf /\ m2.snd_nxt = m.snd_nxt
    <3>1. Half(b2, app) <=> Half(b, app)
      BY <2>2 DEF Half
    <3> QED
      BY <2>2, <2>5, <3>1, NowFacts
  <2> HIDE DEF m, m2
  <2>4. Talk(polite, p, net, pipe, m2, hand, data)
    BY <2>1, <2>6, TalkSame
  <2> QED
    BY <1>1, <1>13, <2>3, <2>4 DEF Talks, Pipe, Tame, p, net, hand, polite, data, b2, m2
<1>15. CoreOk(tcb', core')
  BY <1>1 DEF CoreOk
<1> QED
  BY <1>1, <1>8, <1>10, <1>11, <1>12, <1>13, <1>14, <1>15 DEF StackInv

-----------------------------------------------------------------------------
(* The socket calls and the server's loop *)

\* Only what the server has in hand is looked at.
LEMMA TalkHand ==
  ASSUME NEW polite, NEW p, NEW net, NEW pipe, NEW b, NEW hand, NEW data, NEW hand2, NEW data2,
         Talk(polite, p, net, pipe, b, hand, data), hand2 => hand /\ data2 = data
  PROVE  Talk(polite, p, net, pipe, b, hand2, data2)
<1>1. ASSUME polite PROVE Unit(p, net, pipe, b, hand2, data2)
  BY <1>1 DEF Talk, Unit, UnitAt
<1> QED
  BY <1>1 DEF Talk

\* A call that changes no control block and ends before anything is in hand.
LEMMA QuietStep ==
  ASSUME StackInv, UNCHANGED <<tcb_set, tcb, fd_table, core, hurried, toServer, toClient, peer, plan>>,
         items' \subseteq Fds, rdlist' \in Seq(Fds), app' \in Servers,
         app.pc # "closing", app'.pc \notin {"send", "close", "closing"},
         app'.pc \in {"recv", "recv_wait", "add"} => app'.fd # -1,
         LoopOk(plan.mode = "epoll", app', rdlist', items')
  PROVE  StackInv'
<1>1. Typed'
  BY DEF StackInv, Typed
<1>2. ServerOk(tcb_set, tcb, app')
  BY DEF ServerOk
<1>3. ASSUME NEW c \in Clients PROVE Talks(c)'
  <2> DEFINE p == peer[c]
             net == toServer[c]
             pipe == Pipe(c)
             hand == InHand(tcb_set, tcb, app, c)
             hand2 == InHand(tcb_set, tcb, app', c)
             polite == Tame(c)
             data == app.data
             data2 == app'.data
             b == Now(Block(tcb, c), core, app)
  <2>1. Talk(polite, p, net, pipe, b, hand, data)
    BY DEF StackInv, Talks
  <2>2. ~hand2
    BY DEF InHand
  <2>4. b = Now(Block(tcb, c), core, app')
    <3> DEFINE d == Block(tcb, c)
    <3>1. Half(d, app') <=> Half(d, app)
      BY DEF Half
    <3> HIDE DEF d
    <3>2. Now(d, core, app') = Now(d, core, app)
      BY <3>1, NowSame
    <3> QED
      BY <3>2 DEF d
  <2> HIDE DEF p, net, pipe, hand, hand2, polite, data, data2, b
  <2>3. Talk(polite, p, net, pipe, b, hand2, data2)
    BY <2>1, <2>2, TalkHand
  <2> QED
    BY <2>3, <2>4 DEF Talks, Pipe, Tame, p, net, pipe, hand2, polite, data2
<1> QED
  BY <1>1, <1>2, <1>3 DEF StackInv

\* A call that works on the control block of one connection.
LEMMA CallStep ==
  ASSUME StackInv, NEW s \in Streams \ {LISTENER}, s \in ToSet(tcb_set),
         NEW c, c = tcb[s].peer, NEW r \in ControlBlocks,
         r.peer = c, r.status \in Connected, RingOk(r), tcb' = [tcb EXCEPT ![s] = r],
         fd_table' \subseteq Fds, items' \subseteq Fds, app' \in Servers,
         BitmapOk(tcb', fd_table', plan.mode = "epoll"),
         ServerOk(tcb_set, tcb', app'),
         LoopOk(plan.mode = "epoll", app', rdlist, items'),
         hurried' \in {hurried, hurried \cup {c}},
         Talk(plan.polite /\ c \notin hurried', peer[c], toServer[c], toClient[c] \o r.sndbuf,
              Now(r, core, app'), InHand(tcb_set, tcb', app', c), app'.data),
         \A d \in Clients : d # c => ~InHand(tcb_set, tcb', app', d),
         \A u \in Streams \ {s} : Half(tcb[u], app') <=> Half(tcb[u], app),
         UNCHANGED <<tcb_set, rdlist, core, toServer, toClient, peer, plan>>
  PROVE  StackInv'
<1>1. Typed /\ ListOk(tcb_set, tcb)
  BY DEF StackInv
<1>2. /\ tcb' \in [Streams -> ControlBlocks] /\ ListOk(tcb_set, tcb')
      /\ tcb'[s] = r /\ \A u \in Streams \ {s} : tcb'[u] = tcb[u]
      /\ c \in Clients /\ Block(tcb, c) = tcb[s] /\ Block(tcb', c) = r
      /\ \A d \in Clients : d # c => Block(tcb', d) = Block(tcb, d)
  <2>1. r.peer = tcb[s].peer
    OBVIOUS
  <2>2. /\ tcb' \in [Streams -> ControlBlocks] /\ ListOk(tcb_set, tcb')
        /\ tcb'[s] = r /\ \A u \in Streams \ {s} : tcb'[u] = tcb[u]
        /\ tcb[s].peer \in Clients /\ Block(tcb, tcb[s].peer) = tcb[s]
        /\ Block(tcb', tcb[s].peer) = r
        /\ \A d \in Clients : d # tcb[s].peer => Block(tcb', d) = Block(tcb, d)
    BY <1>1, <2>1, OneBlock
  <2> QED
    BY <2>2, Zenon
<1>3. Typed'
  BY <1>1, <1>2 DEF Typed
<1>4. \A u \in Streams : RingOk(tcb'[u])
  BY <1>2 DEF StackInv
<1>5. ASSUME NEW d \in Clients PROVE Talks(d)'
  <2>1. CASE d = c
    BY <1>2, <2>1 DEF Talks, Pipe, Tame
  <2>2. CASE d # c
    <3> DEFINE p == peer[d]
               net == toServer[d]
               pipe == Pipe(d)
               hand == InHand(tcb_set, tcb, app, d)
               hand2 == InHand(tcb_set, tcb', app', d)
               polite == Tame(d)
               data == app.data
               data2 == app'.data
               o == Block(tcb, d)
               b == Now(o, core, app)
    <3>1. Talk(polite, p, net, pipe, b, hand, data)
      BY DEF StackInv, Talks
    <3>2. ~hand2
      BY <2>2
    <3>4. Half(o, app') <=> Half(o, app)
      <4>1. CASE \E u \in Streams : tcb[u].peer = d
        <5>1. PICK u \in Streams : tcb[u].peer = d
          BY <4>1
        <5>2. u \in Streams \ {s} /\ o = tcb[u]
          BY <1>1, <2>2, <5>1, BlockIs
        <5> QED
          BY <5>2
      <4>2. CASE ~\E u \in Streams : tcb[u].peer = d
        <5>1. o = Blank
          BY <4>2, BlockNone
        <5> QED
          BY <5>1, BlankIs DEF Half
      <4> QED
        BY <4>1, <4>2
    <3>5. Block(tcb', d) = o /\ (d \notin hurried' <=> d \notin hurried)
      BY <1>2, <2>2
    <3> HIDE DEF p, net, pipe, hand, hand2, polite, data, data2, b, o
    <3>6. Now(o, core, app') = b
      BY <3>4, NowSame DEF b
    <3>3. Talk(polite, p, net, pipe, b, hand2, data2)
      BY <3>1, <3>2, TalkHand
    <3> QED
      BY <3>3, <3>5, <3>6 DEF Talks, Pipe, Tame, p, net, pipe, hand2, polite, data2, o
  <2> QED
    BY <2>1, <2>2
<1>6. CoreOk(tcb', core')
  <2>1. \A u \in Streams : tcb'[u].peer = tcb[u].peer
    BY <1>2
  <2> QED
    BY <2>1 DEF StackInv, CoreOk
<1> QED
  BY <1>2, <1>3, <1>4, <1>5, <1>6 DEF StackInv

\* naccept: the server waits, or takes a connection that has no descriptor yet.
LEMMA AcceptStep ==
  ASSUME StackInv, naccept
  PROVE  StackInv'
<1>1. /\ app.pc = "accept"
      /\ UNCHANGED <<tcb_set, rdlist, items, core, hurried, toServer, toClient, peer, plan>>
  BY DEF naccept, At, clients
<1>2. Typed /\ ListOk(tcb_set, tcb) /\ app \in Servers /\ tcb \in [Streams -> ControlBlocks]
      /\ items \subseteq Fds /\ rdlist \in Seq(Fds) /\ fd_table \subseteq Fds
      /\ BitmapOk(tcb, fd_table, plan.mode = "epoll")
      /\ LoopOk(plan.mode = "epoll", app, rdlist, items)
  BY DEF StackInv, Typed
<1>3. CASE get_accept_tcb = NONE
  <2>1. app' = [app EXCEPT !.pc = "accept_wait", !.on = LISTENER] /\ UNCHANGED <<tcb, fd_table>>
    BY <1>3 DEF naccept
  <2>2. LISTENER \in Streams
    BY ClientCount DEF Streams, LISTENER
  <2>3. app' \in Servers /\ app'.pc = "accept_wait" /\ app'.ready = app.ready
    BY <1>2, <2>1, <2>2 DEF Servers, EpollStages, OnceStages
  <2>4. LoopOk(plan.mode = "epoll", app', rdlist', items')
    BY <1>1, <1>2, <2>3 DEF LoopOk, OnceStages
  <2> QED
    BY <1>1, <1>2, <2>1, <2>3, <2>4, QuietStep
<1>4. CASE get_accept_tcb # NONE
  <2> DEFINE s == get_accept_tcb
             n == get_fd_frombitmap
             t == tcb[s]
             r == [t EXCEPT !.fd = n]
  <2>1. /\ tcb' = [tcb EXCEPT ![s] = r] /\ fd_table' = fd_table \cup {n}
        /\ app' = [app EXCEPT !.fd = n, !.pc = IF plan.mode = "once" THEN "recv" ELSE "add"]
    BY <1>4 DEF naccept
  <2>2. PICK i \in DOMAIN tcb_set : s = tcb_set[i] /\ tcb[s].fd = -1
    <3>1. s = Host(tcb_set, tcb, -1) /\ s # NONE /\ tcb_set \in Seq(Streams)
      BY <1>2, <1>4, LookUps DEF Typed
    <3> HIDE DEF s
    <3> QED
      BY <3>1, Hosted
  <2>3. s \in Streams /\ s \in ToSet(tcb_set) /\ t \in ControlBlocks
    BY <1>2, <2>2 DEF Typed, ToSet
  <2>4. n \in Fds \ fd_table
    BY <1>2, <2>2, <2>3, FreeFd
  <2> HIDE DEF s, n
  <2>5. s # LISTENER
    <3>1. tcb[LISTENER].fd = 3
      BY <1>2 DEF ListOk, Blank, LISTENFD
    <3>2. 3 # -1
      OBVIOUS
    <3> QED
      BY <2>2, <3>1, <3>2
  <2>6. n # -1
    BY <2>4 DEF Fds
  <2>7. t.status \in Connected /\ t.status # "LAST_ACK"
    BY <1>2, <2>2, <2>3, <2>5 DEF ListOk, BitmapOk
  <2>8. RingOk(t)
    BY <2>3 DEF StackInv
  <2>9. /\ r \in ControlBlocks /\ r.peer = t.peer /\ r.status = t.status /\ r.fd = n
        /\ r.rcvbuf = t.rcvbuf /\ r.sndbuf = t.sndbuf /\ r.snd_nxt = t.snd_nxt
    BY <2>3, <2>4 DEF ControlBlocks
  <2> HIDE DEF r
  <2>10. tcb'[s] = r /\ \A u \in Streams \ {s} : tcb'[u] = tcb[u]
    BY <1>2, <2>1, <2>3
  <2>11. RingOk(r)
    BY <2>8, <2>9 DEF RingOk
  <2>12. BitmapOk(tcb', fd_table', plan.mode = "epoll")
    <3> DEFINE epoll == plan.mode = "epoll"
    <3>1. BitmapOk(tcb, fd_table, epoll)
      BY <1>2
    <3> HIDE DEF epoll
    <3>2. Open(tcb'[s]) /\ tcb'[s].fd = n /\ tcb'[s].status # "LAST_ACK"
      BY <2>6, <2>7, <2>9, <2>10 DEF Open
    <3>3. \A u \in Streams \ {s} : Open(tcb[u]) => tcb[u].fd \in fd_table /\ tcb[u].fd # n
      BY <2>4, <3>1 DEF BitmapOk
    <3>4. \A u \in Streams : Open(tcb'[u]) =>
            tcb'[u].fd \in fd_table' /\ (epoll => tcb'[u].fd # EPFD)
      BY <2>1, <2>4, <2>10, <3>1, <3>2 DEF BitmapOk
    <3>5. \A f \in fd_table' : (epoll /\ f = EPFD) \/ \E u \in Streams : Open(tcb'[u]) /\ tcb'[u].fd = f
      <4> SUFFICES ASSUME NEW f \in fd_table', ~(epoll /\ f = EPFD)
                   PROVE  \E u \in Streams : Open(tcb'[u]) /\ tcb'[u].fd = f
        OBVIOUS
      <4>1. CASE f = n
        BY <2>3, <3>2, <4>1
      <4>2. CASE f # n
        <5>1. PICK u \in Streams : Open(tcb[u]) /\ tcb[u].fd = f
          BY <2>1, <3>1, <4>2 DEF BitmapOk
        <5>2. u # s
          BY <2>2, <5>1 DEF Open
        <5> QED
          BY <2>10, <5>1, <5>2
      <4> QED
        BY <4>1, <4>2
    <3>6. \A u, v \in Streams : Open(tcb'[u]) /\ Open(tcb'[v]) /\ tcb'[u].fd = tcb'[v].fd => u = v
      <4> SUFFICES ASSUME NEW u \in Streams, NEW v \in Streams,
                          Open(tcb'[u]), Open(tcb'[v]), tcb'[u].fd = tcb'[v].fd
                   PROVE  u = v
        OBVIOUS
      <4>1. CASE u # s /\ v # s
        BY <2>10, <3>1, <4>1 DEF BitmapOk
      <4>2. CASE u = s \/ v = s
        BY <2>10, <3>2, <3>3, <4>2
      <4> QED
        BY <4>1, <4>2
    <3>7. (epoll => EPFD \in fd_table') /\ \A u \in Streams : tcb'[u].status = "LAST_ACK" => tcb'[u].fd # -1
      BY <2>1, <2>10, <3>1, <3>2 DEF BitmapOk
    <3>8. BitmapOk(tcb', fd_table', epoll)
      BY <3>4, <3>5, <3>6, <3>7 DEF BitmapOk
    <3> QED
      BY <3>8 DEF epoll
  <2>13. /\ app' \in Servers /\ app'.pc \in {"recv", "add"} /\ app'.fd # -1 /\ app'.ready = app.ready
         /\ plan.mode # "epoll" => app'.pc = "recv"
    <3>1. plan.mode \in {"once", "epoll"}
      BY <1>2, UStackAssumption DEF Typed, Plans
    <3> QED
      BY <1>2, <2>1, <2>4, <2>6, <3>1 DEF Servers, EpollStages, OnceStages
  <2>14. ServerOk(tcb_set, tcb', app')
    BY <2>13 DEF ServerOk
  <2>15. LoopOk(plan.mode = "epoll", app', rdlist, items')
    BY <1>1, <1>2, <2>13 DEF LoopOk, OnceStages
  <2>16. \A d : ~InHand(tcb_set, tcb', app', d) /\ ~InHand(tcb_set, tcb, app, d)
    BY <1>1, <2>13 DEF InHand
  <2> DEFINE c == t.peer
  <2>17. c \in Clients /\ Block(tcb, c) = t
    <3>1. t.peer \in Clients
      BY <1>2, <2>3, <2>5 DEF ListOk
    <3> QED
      BY <1>2, <2>3, <3>1, BlockIs
  <2>18. Talk(plan.polite /\ c \notin hurried', peer[c], toServer[c], toClient[c] \o r.sndbuf,
              Now(r, core, app'), InHand(tcb_set, tcb', app', c), app'.data)
    <3> DEFINE p == peer[c]
               net == toServer[c]
               pipe == toClient[c] \o t.sndbuf
               hand == InHand(tcb_set, tcb, app, c)
               hand2 == InHand(tcb_set, tcb', app', c)
               polite == Tame(c)
               polite2 == plan.polite /\ c \notin hurried'
               data == app.data
               data2 == app'.data
               m == Now(t, core, app)
               m2 == Now(r, core, app')
    <3>1. Talk(polite, p, net, pipe, m, hand, data)
      BY <2>17 DEF StackInv, Talks, Pipe
    <3>2. ~hand2
      BY <2>16
    <3>5. m2.status = m.status /\ m2.snd_nxt = m.snd_nxt /\ m2.rcvbuf = m.rcvbuf
      <4>1. (Half(r, app') <=> Half(t, app)) /\ core \in Cores
        BY <1>1, <1>2, <2>13 DEF Half, Typed
      <4> HIDE DEF t
      <4> QED
        BY <2>3, <2>9, <4>1, NowLike
    <3>6. polite2 = polite
      BY <1>1 DEF Tame
    <3> HIDE DEF p, net, pipe, hand, hand2, polite, polite2, data, data2, t, m, m2
    <3>3. Talk(polite, p, net, pipe, m, hand2, data2)
      BY <3>1, <3>2, TalkHand
    <3>4. Talk(polite, p, net, pipe, m2, hand2, data2)
      BY <3>3, <3>5, TalkSame
    <3> QED
      BY <2>9, <3>4, <3>6 DEF p, net, pipe, hand2, polite2, data2, m2
  <2>19. fd_table' \subseteq Fds /\ r.peer = tcb[s].peer /\ r.status \in Connected /\ items' \subseteq Fds
    BY <1>1, <1>2, <2>1, <2>4, <2>7, <2>9
  <2> HIDE DEF c
  <2>20. c = tcb[s].peer
    BY DEF c
  <2>21. /\ StackInv /\ s \in Streams \ {LISTENER} /\ s \in ToSet(tcb_set)
         /\ c = tcb[s].peer /\ r \in ControlBlocks
         /\ r.peer = c /\ r.status \in Connected /\ RingOk(r) /\ tcb' = [tcb EXCEPT ![s] = r]
         /\ fd_table' \subseteq Fds /\ items' \subseteq Fds /\ app' \in Servers
         /\ BitmapOk(tcb', fd_table', plan.mode = "epoll")
         /\ ServerOk(tcb_set, tcb', app')
         /\ LoopOk(plan.mode = "epoll", app', rdlist, items')
    BY <1>1, <2>1, <2>3, <2>5, <2>9, <2>11, <2>12, <2>13, <2>14, <2>15, <2>19, <2>20
  <2>22. /\ hurried' \in {hurried, hurried \cup {c}}
         /\ \A d \in Clients : d # c => ~InHand(tcb_set, tcb', app', d)
         /\ \A u \in Streams \ {s} : Half(tcb[u], app') <=> Half(tcb[u], app)
         /\ UNCHANGED <<tcb_set, rdlist, core, toServer, toClient, peer, plan>>
    BY <1>1, <2>13, <2>16 DEF Half
  <2> QED
    BY ONLY <2>18, <2>21, <2>22, CallStep
<1> QED
  BY <1>3, <1>4

\* nrecv: the server waits, or takes the first fragment of the ring.
LEMMA RecvStep ==
  ASSUME StackInv, nrecv
  PROVE  StackInv'
<1> DEFINE s == get_hostinfo_fromfd(app.fd)
           t == tcb[s]
           u == Head(t.rcvbuf)
           r == [t EXCEPT !.rcvbuf = Tail(@)]
<1>1. /\ app.pc = "recv" /\ s # NONE
      /\ UNCHANGED <<tcb_set, fd_table, rdlist, items, core, hurried, toServer, toClient, peer, plan>>
  BY DEF nrecv, At, clients
<1>2. Typed /\ ListOk(tcb_set, tcb) /\ app \in Servers /\ tcb \in [Streams -> ControlBlocks]
      /\ tcb_set \in Seq(Streams)
      /\ items \subseteq Fds /\ rdlist \in Seq(Fds) /\ fd_table \subseteq Fds
      /\ BitmapOk(tcb, fd_table, plan.mode = "epoll")
      /\ LoopOk(plan.mode = "epoll", app, rdlist, items)
      /\ app.fd # -1
  BY <1>1 DEF StackInv, Typed, ServerOk
<1>3. PICK i \in DOMAIN tcb_set : s = tcb_set[i]
  <2>1. s = Host(tcb_set, tcb, app.fd)
    BY LookUps
  <2> HIDE DEF s
  <2> DEFINE fd == app.fd
  <2>2. s = Host(tcb_set, tcb, fd)
    BY <2>1
  <2> HIDE DEF fd
  <2> QED
    BY <1>1, <1>2, <2>2, Hosted
<1>4. s \in Streams /\ s \in ToSet(tcb_set) /\ t \in ControlBlocks /\ RingOk(t)
      /\ s = Host(tcb_set, tcb, app.fd)
  BY <1>2, <1>3, LookUps DEF Typed, ToSet, StackInv
<1>5. CASE t.rcvbuf = <<>>
  <2>1. app' = [app EXCEPT !.pc = "recv_wait", !.on = s] /\ UNCHANGED tcb
    BY <1>5 DEF nrecv
  <2> HIDE DEF s
  <2>2. app' \in Servers /\ app'.pc = "recv_wait" /\ app'.ready = app.ready /\ app'.fd = app.fd
    BY <1>2, <1>4, <2>1 DEF Servers, EpollStages, OnceStages
  <2>3. LoopOk(plan.mode = "epoll", app', rdlist', items')
    BY <1>1, <1>2, <2>2 DEF LoopOk, OnceStages
  <2> QED
    BY <1>1, <1>2, <2>1, <2>2, <2>3, QuietStep
<1>6. CASE t.rcvbuf # <<>>
  <2>1. /\ tcb' = [tcb EXCEPT ![s] = r]
        /\ app' = [app EXCEPT !.data = u, !.pc = IF u = 0 THEN "close" ELSE "send"]
    BY <1>6 DEF nrecv
  <2> HIDE DEF s
  <2>2. t.rcvbuf \in Seq(Nat)
    BY <1>4 DEF ControlBlocks
  <2>3. /\ u = t.rcvbuf[1] /\ u \in Nat /\ Tail(t.rcvbuf) \in Seq(Nat) /\ 1 \in DOMAIN t.rcvbuf
        /\ Len(t.rcvbuf) \in Nat /\ Len(Tail(t.rcvbuf)) = Len(t.rcvbuf) - 1
        /\ \A k \in DOMAIN Tail(t.rcvbuf) :
             k \in Nat /\ k + 1 \in DOMAIN t.rcvbuf /\ Tail(t.rcvbuf)[k] = t.rcvbuf[k + 1]
    <3> DEFINE q == t.rcvbuf
    <3>1. q \in Seq(Nat) /\ q # <<>>
      BY <1>6, <2>2
    <3> HIDE DEF q, t
    <3>2. /\ Head(q) = q[1] /\ Head(q) \in Nat /\ Tail(q) \in Seq(Nat)
          /\ 1 \in DOMAIN q /\ Len(q) \in Nat /\ Len(q) > 0
          /\ Len(Tail(q)) = Len(q) - 1
          /\ \A k \in DOMAIN Tail(q) : k \in Nat /\ k + 1 \in DOMAIN q /\ Tail(q)[k] = q[k + 1]
      BY <3>1, TailFacts
    <3> QED
      BY <3>2 DEF q
  <2>4. t.status \in Serving
    BY <1>4, <1>6 DEF RingOk
  <2>5. s # LISTENER
    BY <1>2, <2>4 DEF ListOk, Blank, Serving
  <2>6. u = 0 => t.status = "CLOSE_WAIT" /\ Tail(t.rcvbuf) = <<>>
    <3> SUFFICES ASSUME u = 0 PROVE t.status = "CLOSE_WAIT" /\ Tail(t.rcvbuf) = <<>>
      OBVIOUS
    <3>1. 1 = Len(t.rcvbuf) /\ t.status = "CLOSE_WAIT"
      BY <1>4, <2>3 DEF RingOk
    <3>2. Len(Tail(t.rcvbuf)) = 0
      BY <2>3, <3>1
    <3> QED
      BY <2>3, <3>1, <3>2, EmptySeq
  <2>7. /\ r \in ControlBlocks /\ r.peer = t.peer /\ r.status = t.status /\ r.fd = t.fd
        /\ r.rcvbuf = Tail(t.rcvbuf) /\ r.sndbuf = t.sndbuf /\ r.snd_nxt = t.snd_nxt
    BY <1>4, <2>3 DEF ControlBlocks
  <2> HIDE DEF r, u
  <2>8. tcb'[s] = r /\ \A v \in Streams \ {s} : tcb'[v] = tcb[v]
    BY <1>2, <1>4, <2>1
  <2>9. RingOk(r)
    <3>1. r.status \in Serving
      BY <2>4, <2>7
    <3>2. ASSUME NEW k \in DOMAIN r.rcvbuf, r.rcvbuf[k] = 0
          PROVE  k = Len(r.rcvbuf) /\ r.status = "CLOSE_WAIT"
      <4>1. k + 1 \in DOMAIN t.rcvbuf /\ t.rcvbuf[k + 1] = 0 /\ k \in Nat
        BY <2>3, <2>7, <3>2
      <4>2. k + 1 = Len(t.rcvbuf) /\ t.status = "CLOSE_WAIT"
        BY <1>4, <4>1 DEF RingOk
      <4>3. Len(r.rcvbuf) = Len(t.rcvbuf) - 1
        BY <2>3, <2>7
      <4> QED
        BY <2>3, <2>7, <4>1, <4>2, <4>3
    <3> QED
      BY <3>1, <3>2 DEF RingOk
  <2>10. \A v \in Streams : tcb'[v].fd = tcb[v].fd /\ tcb'[v].status = tcb[v].status
    BY <2>7, <2>8
  <2>11. BitmapOk(tcb', fd_table', plan.mode = "epoll")
    <3> DEFINE epoll == plan.mode = "epoll"
    <3>1. BitmapOk(tcb, fd_table, epoll)
      BY <1>2
    <3>2. \A v \in Streams : /\ tcb'[v].fd = tcb[v].fd
                             /\ tcb'[v].status = "LAST_ACK" <=> tcb[v].status = "LAST_ACK"
      BY <2>10
    <3> HIDE DEF epoll
    <3>3. BitmapOk(tcb', fd_table, epoll)
      BY <3>1, <3>2, SameBits
    <3> QED
      BY <1>1, <3>3 DEF epoll
  <2>12. /\ app' \in Servers /\ app'.pc = IF u = 0 THEN "close" ELSE "send"
         /\ app'.fd = app.fd /\ app'.ready = app.ready /\ app'.data = u
    BY <1>2, <2>1, <2>3 DEF Servers, EpollStages, OnceStages, u
  <2>13. Host(tcb_set, tcb', app.fd) = s
    <3>1. \A fd : Host(tcb_set, tcb', fd) = Host(tcb_set, tcb, fd)
      BY <2>10, SameHost
    <3> QED
      BY <1>4, <3>1
  <2>14. ServerOk(tcb_set, tcb', app')
    <3>1. tcb'[s].status = t.status /\ tcb'[s].rcvbuf = Tail(t.rcvbuf)
      BY <2>7, <2>8
    <3>2. u = 0 => tcb'[s].status = "CLOSE_WAIT" /\ tcb'[s].rcvbuf = <<>>
      BY <2>6, <3>1
    <3>3. tcb'[s].status \in Serving
      BY <2>4, <3>1
    <3> HIDE DEF t
    <3>4. app'.pc \in {"send", "close"} /\ (app'.pc = "close" => u = 0)
      BY <2>12
    <3> QED
      BY <1>2, <1>4, <2>5, <2>12, <2>13, <3>2, <3>3, <3>4 DEF ServerOk
  <2>15. LoopOk(plan.mode = "epoll", app', rdlist, items')
    <3>1. app'.pc \in OnceStages /\ app'.pc # "wait"
      BY <2>12 DEF OnceStages
    <3> QED
      BY <1>1, <1>2, <2>12, <3>1 DEF LoopOk
  <2> DEFINE c == t.peer
  <2>16. c \in Clients /\ Block(tcb, c) = t
    <3>1. t.peer \in Clients
      BY <1>2, <1>4, <2>5 DEF ListOk
    <3> QED
      BY <1>2, <1>4, <3>1, BlockIs
  <2>17. \A d : InHand(tcb_set, tcb', app', d) = (app'.pc = "send" /\ d = c)
    BY <2>7, <2>8, <2>12, <2>13 DEF InHand
  <2>18. Talk(plan.polite /\ c \notin hurried', peer[c], toServer[c], toClient[c] \o r.sndbuf,
              Now(r, core, app'), InHand(tcb_set, tcb', app', c), app'.data)
    <3> DEFINE p == peer[c]
               net == toServer[c]
               pipe == toClient[c] \o t.sndbuf
               hand == InHand(tcb_set, tcb, app, c)
               hand2 == InHand(tcb_set, tcb', app', c)
               polite == Tame(c)
               polite2 == plan.polite /\ c \notin hurried'
               data == app.data
               m == Now(t, core, app)
               m2 == Now(r, core, app')
    <3>1. Talk(polite, p, net, pipe, m, hand, data)
      BY <2>16 DEF StackInv, Talks, Pipe
    <3>2. hand2 \in BOOLEAN /\ (hand2 => u # 0)
      BY <2>12, <2>17
    <3>3. u = Head(t.rcvbuf)
      BY DEF u
    <3>4. t.rcvbuf # <<>>
      BY <1>6
    <3>7. app'.pc \in {"send", "close"}
      BY <2>12
    <3>8. /\ m2.status = m.status /\ m2.snd_nxt = m.snd_nxt
          /\ m2.rcvbuf = Tail(t.rcvbuf) /\ m.rcvbuf = t.rcvbuf
      <4>1. (Half(r, app') <=> Half(t, app)) /\ core \in Cores
        BY <1>1, <1>2, <3>7 DEF Half, Typed
      <4> HIDE DEF t
      <4> QED
        BY <1>4, <2>7, <4>1, NowLike
    <3>9. polite2 = polite
      BY <1>1 DEF Tame
    <3> HIDE DEF p, net, pipe, hand, hand2, polite, polite2, data, t, m, m2
    <3>5. Talk(polite, p, net, pipe, m, FALSE, data)
      BY <3>1, TalkHand
    <3>6. Talk(polite, p, net, pipe, m2, hand2, u)
      BY <2>2, <3>2, <3>3, <3>4, <3>5, <3>8, TalkRead
    <3> QED
      BY <2>7, <2>12, <3>6, <3>9 DEF p, net, pipe, hand2, polite2, m2
  <2>19. r.peer = tcb[s].peer /\ r.status \in Connected /\ items' \subseteq Fds /\ fd_table' \subseteq Fds
    BY <1>1, <1>2, <2>4, <2>7 DEF Connected
  <2>20. \A d \in Clients : d # c => ~InHand(tcb_set, tcb', app', d)
    BY <2>17
  <2> HIDE DEF c
  <2>21. c = tcb[s].peer
    BY DEF c
  <2>22. /\ StackInv /\ s \in Streams \ {LISTENER} /\ s \in ToSet(tcb_set)
         /\ c = tcb[s].peer /\ r \in ControlBlocks
         /\ r.peer = c /\ r.status \in Connected /\ RingOk(r) /\ tcb' = [tcb EXCEPT ![s] = r]
         /\ fd_table' \subseteq Fds /\ items' \subseteq Fds /\ app' \in Servers
         /\ BitmapOk(tcb', fd_table', plan.mode = "epoll")
         /\ ServerOk(tcb_set, tcb', app')
         /\ LoopOk(plan.mode = "epoll", app', rdlist, items')
    BY <1>1, <1>4, <2>1, <2>5, <2>7, <2>9, <2>11, <2>12, <2>14, <2>15, <2>19, <2>21
  <2>23. /\ hurried' \in {hurried, hurried \cup {c}}
         /\ \A d \in Clients : d # c => ~InHand(tcb_set, tcb', app', d)
         /\ \A v \in Streams \ {s} : Half(tcb[v], app') <=> Half(tcb[v], app)
         /\ UNCHANGED <<tcb_set, rdlist, core, toServer, toClient, peer, plan>>
    BY <1>1, <2>12, <2>20 DEF Half
  <2> QED
    BY ONLY <2>18, <2>22, <2>23, CallStep
<1> QED
  BY <1>5, <1>6

\* nsend: the fragment goes back to its client.
LEMMA SendStep ==
  ASSUME StackInv, nsend
  PROVE  StackInv'
<1> DEFINE s == get_hostinfo_fromfd(app.fd)
           t == tcb[s]
           x == Segment({"PSH", "ACK"}, t.snd_nxt, t.rcv_nxt, app.data)
           r == [t EXCEPT !.sndbuf = Append(@, x)]
<1>1. /\ app.pc = "send"
      /\ tcb' = [tcb EXCEPT ![s] = r] /\ app' = [app EXCEPT !.pc = Loop]
      /\ hurried' = IF t.peer = core.of THEN hurried \cup {core.of} ELSE hurried
      /\ UNCHANGED <<tcb_set, fd_table, rdlist, items, core, toServer, toClient, peer, plan>>
  BY DEF nsend, At, Hurry, clients
<1>2. Typed /\ ListOk(tcb_set, tcb) /\ app \in Servers /\ tcb \in [Streams -> ControlBlocks]
      /\ items \subseteq Fds /\ rdlist \in Seq(Fds) /\ fd_table \subseteq Fds
      /\ BitmapOk(tcb, fd_table, plan.mode = "epoll")
      /\ LoopOk(plan.mode = "epoll", app, rdlist, items)
  BY DEF StackInv, Typed
<1>3. s = Host(tcb_set, tcb, app.fd)
  BY LookUps
<1>4. /\ s \in Streams \ {LISTENER} /\ t.status \in Serving /\ t \in ControlBlocks /\ RingOk(t)
      /\ app.fd # -1
  <2> HIDE DEF s
  <2> QED
    BY <1>1, <1>2, <1>3 DEF StackInv, ServerOk
<1> HIDE DEF s
<1>5. s \in ToSet(tcb_set)
  BY <1>2, <1>4 DEF ListOk, Blank, Serving
<1>6. x \in Segments /\ x.flags = {"PSH", "ACK"} /\ x.data = app.data /\ x.seq = t.snd_nxt
  BY <1>2, <1>4, KindFacts, SegmentFacts DEF ControlBlocks, Servers
<1> HIDE DEF x
<1>7. /\ r \in ControlBlocks /\ r.peer = t.peer /\ r.status = t.status /\ r.fd = t.fd
      /\ r.rcvbuf = t.rcvbuf /\ r.sndbuf = Append(t.sndbuf, x) /\ r.snd_nxt = t.snd_nxt
  <2>1. Append(t.sndbuf, x) \in Seq(Segments)
    BY <1>4, <1>6 DEF ControlBlocks
  <2> QED
    BY <1>4, <2>1 DEF ControlBlocks
<1> HIDE DEF r
<1>8. tcb'[s] = r /\ \A v \in Streams \ {s} : tcb'[v] = tcb[v]
  BY <1>1, <1>2, <1>4
<1>9. RingOk(r)
  BY <1>4, <1>7 DEF RingOk
<1>10. BitmapOk(tcb', fd_table', plan.mode = "epoll")
  <2> DEFINE epoll == plan.mode = "epoll"
  <2>1. BitmapOk(tcb, fd_table, epoll)
    BY <1>2
  <2>2. \A v \in Streams : /\ tcb'[v].fd = tcb[v].fd
                           /\ tcb'[v].status = "LAST_ACK" <=> tcb[v].status = "LAST_ACK"
    BY <1>7, <1>8
  <2> HIDE DEF epoll
  <2>3. BitmapOk(tcb', fd_table, epoll)
    BY <2>1, <2>2, SameBits
  <2> QED
    BY <1>1, <2>3 DEF epoll
<1>11. /\ app' \in Servers /\ app'.pc \in {"recv", "next"} /\ app'.fd = app.fd
       /\ app'.ready = app.ready /\ app'.data = app.data
       /\ plan.mode # "epoll" => app'.pc = "recv"
  <2>1. plan.mode \in {"once", "epoll"}
    BY <1>2, UStackAssumption DEF Typed, Plans
  <2> QED
    BY <1>1, <1>2, <2>1 DEF Servers, EpollStages, OnceStages, Loop
<1>12. ServerOk(tcb_set, tcb', app')
  BY <1>4, <1>11 DEF ServerOk
<1>13. LoopOk(plan.mode = "epoll", app', rdlist, items')
  BY <1>1, <1>2, <1>11 DEF LoopOk, OnceStages
<1> DEFINE c == t.peer
<1>14. c \in Clients /\ Block(tcb, c) = t
  <2>1. t.peer \in Clients
    BY <1>2, <1>4, <1>5 DEF ListOk
  <2> QED
    BY <1>2, <1>4, <2>1, BlockIs
<1>15. (\A d : ~InHand(tcb_set, tcb', app', d)) /\ InHand(tcb_set, tcb, app, c)
  BY <1>1, <1>3, <1>11 DEF InHand
<1>16. Talk(plan.polite /\ c \notin hurried', peer[c], toServer[c], toClient[c] \o r.sndbuf,
            Now(r, core, app'), InHand(tcb_set, tcb', app', c), app'.data)
  <2> DEFINE p == peer[c]
             net == toServer[c]
             u0 == toClient[c]
             v0 == t.sndbuf
             pipe == u0 \o v0
             hand == InHand(tcb_set, tcb, app, c)
             hand2 == InHand(tcb_set, tcb', app', c)
             polite == Tame(c)
             polite2 == plan.polite /\ c \notin hurried'
             data == app.data
             data2 == app'.data
             m == Now(t, core, app)
             m2 == Now(r, core, app')
  <2>1. Talk(polite, p, net, pipe, m, hand, data)
    BY <1>14 DEF StackInv, Talks, Pipe
  <2>2. hand /\ ~hand2
    BY <1>15
  <2>3. u0 \in Seq(Segments) /\ v0 \in Seq(Segments) /\ r.sndbuf = Append(v0, x)
    BY <1>2, <1>4, <1>7, <1>14 DEF Typed, ControlBlocks
  <2>4. x.data = data
    BY <1>6
  <2>10. polite2 => polite
    BY <1>1 DEF Tame
  <2>11. (Half(r, app') <=> Half(t, app)) /\ ~Half(t, app) /\ core \in Cores
    BY <1>1, <1>2, <1>11 DEF Half, Typed
  <2>12. polite2 => core.of # t.peer
    BY <1>1
  <2> HIDE DEF p, net, u0, v0, hand, hand2, polite, polite2, data, data2, t
  <2>13. m2.status = m.status /\ m2.snd_nxt = m.snd_nxt /\ m2.rcvbuf = m.rcvbuf
    BY <1>4, <1>7, <2>11, NowLike
  <2>14. m.status \in Serving /\ (polite2 => x.seq = m.snd_nxt)
    BY <1>4, <1>6, <2>11, <2>12, NowFacts
  <2>5. u0 \o Append(v0, x) = Append(pipe, x) /\ pipe \in Seq(Segments)
    BY <1>6, <2>3, AppendPipe
  <2> HIDE DEF pipe, m, m2
  <2>15. Talk(polite2, p, net, pipe, m, hand, data)
    BY <2>1, <2>10, TalkLess
  <2>6. Talk(polite2, p, net, pipe, m, TRUE, data)
    BY <2>2, <2>15, TalkHand
  <2>7. Talk(polite2, p, net, Append(pipe, x), m2, FALSE, data2)
    BY <1>6, <2>4, <2>5, <2>6, <2>13, <2>14, TalkAnswer
  <2>8. Talk(polite2, p, net, Append(pipe, x), m2, hand2, data2)
    BY <2>2, <2>7, TalkHand
  <2>9. Talk(polite2, p, net, u0 \o r.sndbuf, m2, hand2, data2)
    BY <2>3, <2>5, <2>8
  <2> QED
    BY <2>9 DEF p, net, u0, hand2, polite2, data2, m2
<1>17. /\ r.peer = tcb[s].peer /\ r.status \in Connected /\ items' \subseteq Fds /\ fd_table' \subseteq Fds
       /\ \A d \in Clients : d # c => ~InHand(tcb_set, tcb', app', d)
  BY <1>1, <1>2, <1>4, <1>7, <1>15 DEF Connected
<1> HIDE DEF c
<1>18. c = tcb[s].peer
  BY DEF c
<1>19. /\ StackInv /\ s \in Streams \ {LISTENER} /\ s \in ToSet(tcb_set)
       /\ c = tcb[s].peer /\ r \in ControlBlocks
       /\ r.peer = c /\ r.status \in Connected /\ RingOk(r) /\ tcb' = [tcb EXCEPT ![s] = r]
       /\ fd_table' \subseteq Fds /\ items' \subseteq Fds /\ app' \in Servers
       /\ BitmapOk(tcb', fd_table', plan.mode = "epoll")
       /\ ServerOk(tcb_set, tcb', app')
       /\ LoopOk(plan.mode = "epoll", app', rdlist, items')
  BY <1>1, <1>4, <1>5, <1>7, <1>9, <1>10, <1>11, <1>12, <1>13, <1>17, <1>18
<1>20. /\ hurried' \in {hurried, hurried \cup {c}}
       /\ \A d \in Clients : d # c => ~InHand(tcb_set, tcb', app', d)
       /\ \A v \in Streams \ {s} : Half(tcb[v], app') <=> Half(tcb[v], app)
       /\ UNCHANGED <<tcb_set, rdlist, core, toServer, toClient, peer, plan>>
  BY <1>1, <1>11, <1>17, <1>18 DEF Half
<1> QED
  BY ONLY <1>16, <1>19, <1>20, CallStep

\* nclose, first half: the FIN of the server is on its way.
LEMMA FinStep ==
  ASSUME StackInv, nclose_fin
  PROVE  StackInv'
<1> DEFINE s == get_hostinfo_fromfd(app.fd)
           t == tcb[s]
           x == Segment({"FIN", "ACK"}, t.snd_nxt, t.rcv_nxt, 0)
           r == [t EXCEPT !.sndbuf = Append(@, x)]
<1>1. /\ app.pc = "close" /\ items' = items \ {app.fd}
      /\ tcb' = [tcb EXCEPT ![s] = r] /\ app' = [app EXCEPT !.pc = "closing"]
      /\ hurried' = IF t.peer = core.of THEN hurried \cup {core.of} ELSE hurried
      /\ UNCHANGED <<tcb_set, fd_table, rdlist, core, toServer, toClient, peer, plan>>
  BY DEF nclose_fin, At, Hurry, clients
<1>2. Typed /\ ListOk(tcb_set, tcb) /\ app \in Servers /\ tcb \in [Streams -> ControlBlocks]
      /\ items \subseteq Fds /\ rdlist \in Seq(Fds) /\ fd_table \subseteq Fds
      /\ BitmapOk(tcb, fd_table, plan.mode = "epoll")
      /\ LoopOk(plan.mode = "epoll", app, rdlist, items)
  BY DEF StackInv, Typed
<1>3. s = Host(tcb_set, tcb, app.fd)
  BY LookUps
<1>4. /\ s \in Streams \ {LISTENER} /\ s \in ToSet(tcb_set) /\ t \in ControlBlocks
      /\ t.fd = app.fd /\ app.fd # -1 /\ t.status = "CLOSE_WAIT" /\ t.rcvbuf = <<>>
      /\ t.peer \in Clients /\ Block(tcb, t.peer) = t
      /\ \A u \in Streams : tcb[u].fd = app.fd /\ tcb[u].status # "LAST_ACK" => u = s
  <2> HIDE DEF s
  <2> QED
    BY <1>1, <1>3, Held
<1> HIDE DEF s
<1>5. x \in Segments /\ x.flags = {"FIN", "ACK"} /\ x.seq = t.snd_nxt
  BY <1>4, KindFacts, SegmentFacts DEF ControlBlocks
<1> HIDE DEF x
<1>6. /\ r \in ControlBlocks /\ r.peer = t.peer /\ r.status = t.status /\ r.fd = t.fd
      /\ r.rcvbuf = t.rcvbuf /\ r.sndbuf = Append(t.sndbuf, x) /\ r.snd_nxt = t.snd_nxt
  <2>1. Append(t.sndbuf, x) \in Seq(Segments)
    BY <1>4, <1>5 DEF ControlBlocks
  <2> QED
    BY <1>4, <2>1 DEF ControlBlocks
<1> HIDE DEF r
<1>7. tcb'[s] = r /\ \A v \in Streams \ {s} : tcb'[v] = tcb[v]
  BY <1>1, <1>2, <1>4
<1>8. RingOk(r)
  BY <1>4, <1>6 DEF RingOk
<1>9. \A v \in Streams : tcb'[v].fd = tcb[v].fd /\ tcb'[v].status = tcb[v].status
  BY <1>6, <1>7
<1>10. BitmapOk(tcb', fd_table', plan.mode = "epoll")
  <2> DEFINE epoll == plan.mode = "epoll"
  <2>1. BitmapOk(tcb, fd_table, epoll)
    BY <1>2
  <2>2. \A v \in Streams : /\ tcb'[v].fd = tcb[v].fd
                           /\ tcb'[v].status = "LAST_ACK" <=> tcb[v].status = "LAST_ACK"
    BY <1>9
  <2> HIDE DEF epoll
  <2>3. BitmapOk(tcb', fd_table, epoll)
    BY <2>1, <2>2, SameBits
  <2> QED
    BY <1>1, <2>3 DEF epoll
<1>11. /\ app' \in Servers /\ app'.pc = "closing" /\ app'.fd = app.fd
       /\ app'.ready = app.ready /\ app'.data = app.data
  BY <1>1, <1>2 DEF Servers, EpollStages, OnceStages
<1>12. ServerOk(tcb_set, tcb', app')
  <2>1. Host(tcb_set, tcb', app.fd) = s
    <3>1. \A fd : Host(tcb_set, tcb', fd) = Host(tcb_set, tcb, fd)
      BY <1>9, SameHost
    <3> QED
      BY <1>3, <3>1
  <2>2. tcb'[s].status = "CLOSE_WAIT" /\ tcb'[s].rcvbuf = <<>>
    BY <1>4, <1>6, <1>7
  <2> QED
    BY <1>4, <1>11, <2>1, <2>2 DEF ServerOk, Serving
<1>13. LoopOk(plan.mode = "epoll", app', rdlist, items')
  BY <1>1, <1>2, <1>11 DEF LoopOk, OnceStages
<1> DEFINE c == t.peer
<1>14. \A d : ~InHand(tcb_set, tcb', app', d)
  BY <1>11 DEF InHand
<1>15. Talk(plan.polite /\ c \notin hurried', peer[c], toServer[c], toClient[c] \o r.sndbuf,
            Now(r, core, app'), InHand(tcb_set, tcb', app', c), app'.data)
  <2> DEFINE p == peer[c]
             net == toServer[c]
             u0 == toClient[c]
             v0 == t.sndbuf
             pipe == u0 \o v0
             hand == InHand(tcb_set, tcb, app, c)
             hand2 == InHand(tcb_set, tcb', app', c)
             polite == Tame(c)
             polite2 == plan.polite /\ c \notin hurried'
             data == app.data
             data2 == app'.data
             m == Now(t, core, app)
             m2 == Now(r, core, app')
  <2>1. Talk(polite, p, net, pipe, m, hand, data)
    BY <1>4 DEF StackInv, Talks, Pipe
  <2>2. ~hand2
    BY <1>14
  <2>3. u0 \in Seq(Segments) /\ v0 \in Seq(Segments) /\ r.sndbuf = Append(v0, x)
    BY <1>2, <1>4, <1>6 DEF Typed, ControlBlocks
  <2>4. polite2 => polite
    BY <1>1 DEF Tame
  <2>5. Half(r, app') /\ ~Half(t, app) /\ core \in Cores
    BY <1>1, <1>2, <1>4, <1>6, <1>11 DEF Half, Typed
  <2>6. polite2 => core.of # t.peer
    BY <1>1
  <2> HIDE DEF p, net, u0, v0, hand, hand2, polite, polite2, data, data2, t
  <2>7. /\ m.status = "CLOSE_WAIT" /\ m.rcvbuf = t.rcvbuf
        /\ (polite2 => x.seq = m.snd_nxt)
        /\ m.snd_nxt = (IF core.of # NONE /\ t.peer = core.of THEN core.ack ELSE t.snd_nxt)
    BY <1>4, <1>5, <2>5, <2>6, NowFacts
  <2>8. /\ m2.status = "LAST_ACK" /\ m2.rcvbuf = r.rcvbuf
        /\ m2.snd_nxt = (IF core.of # NONE /\ r.peer = core.of THEN core.ack ELSE r.snd_nxt)
    BY <1>6, <2>5, NowFacts
  <2>9. m2.rcvbuf = m.rcvbuf /\ m2.snd_nxt = m.snd_nxt
    BY <1>6, <2>7, <2>8
  <2>10. u0 \o Append(v0, x) = Append(pipe, x) /\ pipe \in Seq(Segments)
    BY <1>5, <2>3, AppendPipe
  <2> HIDE DEF pipe, m, m2
  <2>11. Talk(polite2, p, net, pipe, m, hand, data)
    BY <2>1, <2>4, TalkLess
  <2>12. Talk(polite2, p, net, Append(pipe, x), m2, hand, data)
    BY <1>5, <2>7, <2>8, <2>9, <2>10, <2>11, TalkClose
  <2>13. Talk(polite2, p, net, Append(pipe, x), m2, hand2, data2)
    BY <2>2, <2>12, TalkHand
  <2>14. Talk(polite2, p, net, u0 \o r.sndbuf, m2, hand2, data2)
    BY <2>3, <2>10, <2>13
  <2> QED
    BY <2>14 DEF p, net, u0, hand2, polite2, data2, m2
<1>16. \A v \in Streams \ {s} : Half(tcb[v], app') <=> Half(tcb[v], app)
  BY <1>1, <1>4, <1>11 DEF Half
<1>17. /\ r.peer = tcb[s].peer /\ r.status \in Connected /\ items' \subseteq Fds /\ fd_table' \subseteq Fds
       /\ \A d \in Clients : d # c => ~InHand(tcb_set, tcb', app', d)
  BY <1>1, <1>2, <1>4, <1>6, <1>14 DEF Connected, Serving
<1>18. hurried' \in {hurried, hurried \cup {c}}
  BY <1>1
<1> HIDE DEF c
<1>19. c = tcb[s].peer
  BY DEF c
<1>20. /\ StackInv /\ s \in Streams \ {LISTENER} /\ s \in ToSet(tcb_set)
       /\ c = tcb[s].peer /\ r \in ControlBlocks
       /\ r.peer = c /\ r.status \in Connected /\ RingOk(r) /\ tcb' = [tcb EXCEPT ![s] = r]
       /\ fd_table' \subseteq Fds /\ items' \subseteq Fds /\ app' \in Servers
       /\ BitmapOk(tcb', fd_table', plan.mode = "epoll")
       /\ ServerOk(tcb_set, tcb', app')
       /\ LoopOk(plan.mode = "epoll", app', rdlist, items')
  BY <1>1, <1>4, <1>6, <1>8, <1>10, <1>11, <1>12, <1>13, <1>17, <1>19
<1>21. /\ hurried' \in {hurried, hurried \cup {c}}
       /\ \A d \in Clients : d # c => ~InHand(tcb_set, tcb', app', d)
       /\ \A v \in Streams \ {s} : Half(tcb[v], app') <=> Half(tcb[v], app)
       /\ UNCHANGED <<tcb_set, rdlist, core, toServer, toClient, peer, plan>>
  BY <1>1, <1>16, <1>17, <1>18
<1> QED
  BY ONLY <1>15, <1>20, <1>21, CallStep

\* nclose, second half: the state is noted, and the descriptor is given back.
LEMMA CloseStep ==
  ASSUME StackInv, nclose_end
  PROVE  StackInv'
<1> DEFINE s == get_hostinfo_fromfd(app.fd)
           t == tcb[s]
           r == [t EXCEPT !.status = "LAST_ACK"]
<1>1. /\ app.pc = "closing" /\ fd_table' = fd_table \ {app.fd}
      /\ app' = [app EXCEPT !.pc = IF plan.mode = "once" THEN "accept" ELSE "next", !.fd = -1]
      /\ UNCHANGED <<tcb_set, rdlist, items, core, hurried, toServer, toClient, peer, plan>>
  BY DEF nclose_end, Closing, At, clients
<1>2. Typed /\ ListOk(tcb_set, tcb) /\ app \in Servers /\ tcb \in [Streams -> ControlBlocks]
      /\ items \subseteq Fds /\ rdlist \in Seq(Fds) /\ fd_table \subseteq Fds
      /\ BitmapOk(tcb, fd_table, plan.mode = "epoll")
      /\ LoopOk(plan.mode = "epoll", app, rdlist, items)
  BY DEF StackInv, Typed
<1>3. s = Host(tcb_set, tcb, app.fd)
  BY LookUps
<1>5. tcb' = [tcb EXCEPT ![s] = r]
  BY DEF nclose_end, Closing
<1>4. /\ s \in Streams \ {LISTENER} /\ s \in ToSet(tcb_set) /\ t \in ControlBlocks
      /\ t.fd = app.fd /\ app.fd # -1 /\ t.status = "CLOSE_WAIT" /\ t.rcvbuf = <<>>
      /\ t.peer \in Clients /\ Block(tcb, t.peer) = t
      /\ \A u \in Streams : tcb[u].fd = app.fd /\ tcb[u].status # "LAST_ACK" => u = s
  <2> HIDE DEF s
  <2> QED
    BY <1>1, <1>3, Held
<1>6. t.fd = app.fd /\ s \in ToSet(tcb_set)
  BY <1>4
<1> HIDE DEF s
<1>8. /\ r \in ControlBlocks /\ r.peer = t.peer /\ r.status = "LAST_ACK" /\ r.fd = t.fd
      /\ r.rcvbuf = t.rcvbuf /\ r.sndbuf = t.sndbuf /\ r.snd_nxt = t.snd_nxt
  <2>1. "LAST_ACK" \in Statuses
    BY DEF Statuses
  <2> QED
    BY <1>4, <2>1 DEF ControlBlocks
<1> HIDE DEF r
<1>9. tcb'[s] = r /\ \A v \in Streams \ {s} : tcb'[v] = tcb[v]
  BY <1>2, <1>4, <1>5
<1>10. RingOk(r)
  BY <1>4, <1>8 DEF RingOk
<1>11. BitmapOk(tcb', fd_table', plan.mode = "epoll")
  <2> DEFINE epoll == plan.mode = "epoll"
             n == app.fd
  <2>1. BitmapOk(tcb, fd_table, epoll) /\ fd_table' = fd_table \ {n} /\ n # -1
    BY <1>1, <1>2, <1>4
  <2>2. Open(tcb[s]) /\ tcb[s].fd = n
    BY <1>4, <1>6 DEF Open
  <2>3. ~Open(tcb'[s]) /\ tcb'[s].fd = n
    BY <1>6, <1>8, <1>9 DEF Open
  <2> HIDE DEF epoll, n
  <2>4. epoll => n # EPFD
    BY <1>4, <2>1, <2>2 DEF BitmapOk
  <2>5. \A u \in Streams : Open(tcb'[u]) => u # s /\ Open(tcb[u]) /\ tcb'[u].fd = tcb[u].fd
    BY <1>9, <2>3
  <2>6. \A u \in Streams : Open(tcb'[u]) => tcb'[u].fd \in fd_table' /\ (epoll => tcb'[u].fd # EPFD)
    BY <1>4, <2>1, <2>2, <2>5 DEF BitmapOk
  <2>7. \A f \in fd_table' : (epoll /\ f = EPFD) \/ \E u \in Streams : Open(tcb'[u]) /\ tcb'[u].fd = f
    <3> SUFFICES ASSUME NEW f \in fd_table', ~(epoll /\ f = EPFD)
                 PROVE  \E u \in Streams : Open(tcb'[u]) /\ tcb'[u].fd = f
      OBVIOUS
    <3>1. PICK u \in Streams : Open(tcb[u]) /\ tcb[u].fd = f
      BY <2>1 DEF BitmapOk
    <3>2. u # s
      BY <2>1, <2>2, <3>1
    <3> QED
      BY <1>9, <3>1, <3>2
  <2>8. \A u, v \in Streams : Open(tcb'[u]) /\ Open(tcb'[v]) /\ tcb'[u].fd = tcb'[v].fd => u = v
    BY <2>1, <2>5 DEF BitmapOk
  <2>9. (epoll => EPFD \in fd_table') /\ \A u \in Streams : tcb'[u].status = "LAST_ACK" => tcb'[u].fd # -1
    BY <1>9, <2>1, <2>3, <2>4 DEF BitmapOk
  <2>10. BitmapOk(tcb', fd_table', epoll)
    BY <2>6, <2>7, <2>8, <2>9 DEF BitmapOk
  <2> QED
    BY <2>10 DEF epoll
<1>12. /\ app' \in Servers /\ app'.pc \in {"accept", "next"}
       /\ app'.ready = app.ready /\ app'.data = app.data
       /\ plan.mode # "epoll" => app'.pc = "accept"
  <2>1. plan.mode \in {"once", "epoll"}
    BY <1>2, UStackAssumption DEF Typed, Plans
  <2> QED
    BY <1>1, <1>2, <2>1 DEF Servers, EpollStages, OnceStages
<1>13. ServerOk(tcb_set, tcb', app')
  BY <1>12 DEF ServerOk
<1>14. LoopOk(plan.mode = "epoll", app', rdlist, items')
  BY <1>1, <1>2, <1>12 DEF LoopOk, OnceStages
<1> DEFINE c == t.peer
<1>16. \A d : ~InHand(tcb_set, tcb', app', d)
  BY <1>12 DEF InHand
<1>17. Talk(plan.polite /\ c \notin hurried', peer[c], toServer[c], toClient[c] \o r.sndbuf,
            Now(r, core, app'), InHand(tcb_set, tcb', app', c), app'.data)
  <2> DEFINE p == peer[c]
             net == toServer[c]
             pipe == toClient[c] \o t.sndbuf
             hand == InHand(tcb_set, tcb, app, c)
             hand2 == InHand(tcb_set, tcb', app', c)
             polite == Tame(c)
             polite2 == plan.polite /\ c \notin hurried'
             data == app.data
             data2 == app'.data
             m == Now(t, core, app)
             m2 == Now(r, core, app')
  <2>1. Talk(polite, p, net, pipe, m, hand, data)
    BY <1>4 DEF StackInv, Talks, Pipe
  <2>2. ~hand2
    BY <1>16
  <2>3. polite2 = polite
    BY <1>1 DEF Tame
  <2>4. Half(t, app) /\ ~Half(r, app') /\ core \in Cores
    BY <1>1, <1>2, <1>4, <1>12 DEF Half, Typed
  <2> HIDE DEF p, net, pipe, hand, hand2, polite, polite2, data, data2, t
  <2>5. /\ m.status = "LAST_ACK" /\ m.rcvbuf = t.rcvbuf
        /\ m.snd_nxt = (IF core.of # NONE /\ t.peer = core.of THEN core.ack ELSE t.snd_nxt)
    BY <1>4, <2>4, NowFacts
  <2>6. /\ m2.status = "LAST_ACK" /\ m2.rcvbuf = r.rcvbuf
        /\ m2.snd_nxt = (IF core.of # NONE /\ r.peer = core.of THEN core.ack ELSE r.snd_nxt)
    BY <1>8, <2>4, NowFacts
  <2>7. m2.status = m.status /\ m2.rcvbuf = m.rcvbuf /\ m2.snd_nxt = m.snd_nxt
    BY <1>8, <2>5, <2>6
  <2> HIDE DEF m, m2
  <2>8. Talk(polite, p, net, pipe, m2, hand, data)
    BY <2>1, <2>7, TalkSame
  <2>9. Talk(polite, p, net, pipe, m2, hand2, data2)
    BY <2>2, <2>8, TalkHand
  <2> QED
    BY <1>8, <2>3, <2>9 DEF p, net, pipe, hand2, polite2, data2, m2
<1>18. /\ r.peer = tcb[s].peer /\ r.status \in Connected /\ items' \subseteq Fds /\ fd_table' \subseteq Fds
       /\ \A d \in Clients : d # c => ~InHand(tcb_set, tcb', app', d)
  BY <1>1, <1>2, <1>8, <1>16 DEF Connected
<1>15. \A v \in Streams \ {s} : Half(tcb[v], app') <=> Half(tcb[v], app)
  BY <1>1, <1>4, <1>12 DEF Half
<1> HIDE DEF c
<1>19. c = tcb[s].peer
  BY DEF c
<1>20. /\ StackInv /\ s \in Streams \ {LISTENER} /\ s \in ToSet(tcb_set)
       /\ c = tcb[s].peer /\ r \in ControlBlocks
       /\ r.peer = c /\ r.status \in Connected /\ RingOk(r) /\ tcb' = [tcb EXCEPT ![s] = r]
       /\ fd_table' \subseteq Fds /\ items' \subseteq Fds /\ app' \in Servers
       /\ BitmapOk(tcb', fd_table', plan.mode = "epoll")
       /\ ServerOk(tcb_set, tcb', app')
       /\ LoopOk(plan.mode = "epoll", app', rdlist, items')
  BY <1>4, <1>5, <1>8, <1>10, <1>11, <1>12, <1>13, <1>14, <1>18, <1>19
<1>21. /\ hurried' \in {hurried, hurried \cup {c}}
       /\ \A d \in Clients : d # c => ~InHand(tcb_set, tcb', app', d)
       /\ \A v \in Streams \ {s} : Half(tcb[v], app') <=> Half(tcb[v], app)
       /\ UNCHANGED <<tcb_set, rdlist, core, toServer, toClient, peer, plan>>
  BY <1>1, <1>15, <1>18
<1> QED
  BY ONLY <1>17, <1>20, <1>21, CallStep

\* nepoll_ctl_add, nepoll_wait and the loop over what it reports.
LEMMA LoopStep ==
  ASSUME StackInv, nepoll_ctl_add \/ nepoll_wait \/ Event \/ NextEvent
  PROVE  StackInv'
<1>1. UNCHANGED <<tcb_set, tcb, fd_table, core, hurried, toServer, toClient, peer, plan>>
  BY DEF nepoll_ctl_add, nepoll_wait, Event, NextEvent, clients
<1>2. /\ items \subseteq Fds /\ rdlist \in Seq(Fds) /\ app \in Servers
      /\ LoopOk(plan.mode = "epoll", app, rdlist, items)
      /\ app.pc = "add" => app.fd # -1
  BY DEF StackInv, Typed, ServerOk
<1>3. app.pc \in {"add", "wait", "event", "next"}
  BY DEF nepoll_ctl_add, nepoll_wait, Event, NextEvent, At
<1>4. plan.mode = "epoll" /\ (app.pc = "wait" <=> app.ready = <<>>)
  BY <1>2, <1>3 DEF LoopOk, OnceStages
<1>5. CASE nepoll_ctl_add
  <2>1. app.pc = "add" /\ items' = items \cup {app.fd} /\ app' = [app EXCEPT !.pc = "next"] /\ rdlist' = rdlist
    BY <1>5 DEF nepoll_ctl_add, At
  <2>2. items' \subseteq Fds
    BY <1>2, <2>1 DEF Servers
  <2>3. app' \in Servers /\ app'.pc = "next" /\ app'.ready = app.ready
    BY <1>2, <2>1 DEF Servers, EpollStages
  <2>4. LoopOk(plan.mode = "epoll", app', rdlist', items')
    BY <1>4, <2>1, <2>3 DEF LoopOk
  <2> QED
    BY <1>1, <1>2, <2>1, <2>2, <2>3, <2>4, QuietStep
<1>6. CASE nepoll_wait
  <2>1. /\ app.pc = "wait" /\ rdlist # <<>> /\ app' = [app EXCEPT !.ready = rdlist, !.pc = "event"]
        /\ rdlist' = <<>> /\ items' = items
    BY <1>6 DEF nepoll_wait, At
  <2>2. app' \in Servers /\ app'.pc = "event" /\ app'.ready = rdlist
    BY <1>2, <2>1 DEF Servers, EpollStages
  <2>3. LoopOk(plan.mode = "epoll", app', rdlist', items') /\ rdlist' \in Seq(Fds)
    BY <1>4, <2>1, <2>2 DEF LoopOk
  <2> QED
    BY <1>1, <1>2, <2>1, <2>2, <2>3, QuietStep
<1>7. CASE Event
  <2>1. /\ app.pc = "event" /\ rdlist' = rdlist /\ items' = items
        /\ app' = [app EXCEPT !.fd = Head(app.ready),
                              !.pc = IF Head(app.ready) = LISTENFD THEN "accept" ELSE "recv"]
    BY <1>7 DEF Event, At
  <2>2. app.ready # <<>> /\ app.ready \in Seq(Fds)
    BY <1>2, <1>4, <2>1 DEF Servers
  <2>3. Head(app.ready) \in Fds /\ Head(app.ready) # -1
    BY <2>2, TailFacts, ClientCount DEF Fds
  <2>4. app' \in Servers /\ app'.pc \in {"accept", "recv"} /\ app'.fd # -1 /\ app'.ready = app.ready
    BY <1>2, <2>1, <2>3 DEF Servers, EpollStages, OnceStages
  <2>5. LoopOk(plan.mode = "epoll", app', rdlist', items')
    BY <1>4, <2>2, <2>4 DEF LoopOk
  <2> QED
    BY <1>1, <1>2, <2>1, <2>4, <2>5, QuietStep
<1>8. CASE NextEvent
  <2>1. /\ app.pc = "next" /\ rdlist' = rdlist /\ items' = items
        /\ app' = [app EXCEPT !.ready = Tail(@), !.fd = -1,
                              !.pc = IF Len(app.ready) = 1 THEN "wait" ELSE "event"]
    BY <1>8 DEF NextEvent, At
  <2>2. app.ready # <<>> /\ app.ready \in Seq(Fds)
    BY <1>2, <1>4, <2>1 DEF Servers
  <2>3. Tail(app.ready) \in Seq(Fds) /\ Len(Tail(app.ready)) = Len(app.ready) - 1 /\ Len(app.ready) \in Nat
    BY <2>2, TailFacts
  <2>4. Len(app.ready) = 1 <=> Tail(app.ready) = <<>>
    <3> DEFINE q == Tail(app.ready)
    <3>1. q \in Seq(Fds) /\ (Len(q) = 0 <=> Len(app.ready) = 1)
      BY <2>3
    <3> HIDE DEF q
    <3>2. Len(q) = 0 <=> q = <<>>
      BY <3>1, EmptySeq
    <3> QED
      BY <3>1, <3>2 DEF q
  <2>5. app' \in Servers /\ app'.pc \in {"wait", "event"} /\ (app'.pc = "wait" <=> app'.ready = <<>>)
    BY <1>2, <2>1, <2>3, <2>4 DEF Servers, EpollStages, OnceStages
  <2>6. LoopOk(plan.mode = "epoll", app', rdlist', items')
    BY <1>4, <2>5 DEF LoopOk
  <2> QED
    BY <1>1, <1>2, <2>1, <2>5, <2>6, QuietStep
<1> QED
  BY <1>5, <1>6, <1>7, <1>8

-----------------------------------------------------------------------------
(* The clients and the beginning *)

\* A client acts on its own connection, which its control block does not see yet.
LEMMA ClientStep ==
  ASSUME StackInv, NEW c \in Clients, UNCHANGED <<server, plan>>,
         peer' \in [Clients -> Peers], toServer' \in [Clients -> Seq(Segments)],
         toClient' \in [Clients -> Seq(Segments)],
         \A d \in Clients \ {c} :
           peer'[d] = peer[d] /\ toServer'[d] = toServer[d] /\ toClient'[d] = toClient[d],
         Talk(Tame(c), peer'[c], toServer'[c], toClient'[c] \o Block(tcb, c).sndbuf,
              Now(Block(tcb, c), core, app), InHand(tcb_set, tcb, app, c), app.data)
  PROVE  StackInv'
<1>1. UNCHANGED <<tcb_set, tcb, fd_table, rdlist, items, app, core, hurried, plan>>
  BY DEF server
<1>2. Typed'
  BY <1>1 DEF StackInv, Typed
<1>3. ASSUME NEW d \in Clients PROVE Talks(d)'
  <2>1. CASE d = c
    BY <1>1, <2>1 DEF Talks, Pipe, Tame
  <2>2. CASE d # c
    <3>1. Talks(d)
      BY DEF StackInv
    <3> QED
      BY <1>1, <2>2, <3>1 DEF Talks, Pipe, Tame
  <2> QED
    BY <2>1, <2>2
<1> QED
  BY <1>1, <1>2, <1>3 DEF StackInv, CoreOk

\* What the client takes is the head of all that is to go to it.
LEMMA PipeTail ==
  ASSUME NEW u \in Seq(Segments), NEW v \in Seq(Segments), u # <<>>
  PROVE  /\ u \o v \in Seq(Segments) /\ u \o v # <<>>
         /\ Head(u \o v) = Head(u) /\ Tail(u \o v) = Tail(u) \o v
<1> DEFINE h == Head(u)
           r == Tail(u)
           q == u \o v
<1>1. h \in Segments /\ r \in Seq(Segments) /\ u = <<h>> \o r
  BY HeadTailProperties, ConcatProperties
<1>2. q \in Seq(Segments) /\ r \o v \in Seq(Segments)
  BY <1>1, ConcatProperties
<1> HIDE DEF h, r
<1>3. <<h>> \in Seq(Segments)
  BY <1>1
<1>4. (<<h>> \o r) \o v = <<h>> \o (r \o v)
  BY <1>1, <1>3, ConcatAssociative
<1>5. q = <<h>> \o (r \o v)
  BY <1>1, <1>4
<1> DEFINE w == r \o v
<1>6. w \in Seq(Segments) /\ q = <<h>> \o w
  BY <1>2, <1>5
<1> HIDE DEF q, w
<1>7. Head(<<h>> \o w) = h /\ Tail(<<h>> \o w) = w /\ <<h>> \o w # <<>>
  BY <1>1, <1>6
<1> QED
  BY <1>2, <1>6, <1>7 DEF h, r, q, w

\* Connect: the client asks for a connection.
LEMMA ConnectStep ==
  ASSUME StackInv, NEW c \in Clients, Connect(c)
  PROVE  StackInv'
<1> DEFINE p2 == [peer[c] EXCEPT !.st = "syn_sent", !.snd = 1]
           x == Segment({"SYN"}, peer[c].snd, p2.rcv, 0)
<1>1. Typed /\ peer[c] \in Peers /\ toServer[c] \in Seq(Segments)
  BY DEF StackInv, Typed
<1>2. /\ peer[c].st = "closed" /\ peer' = [peer EXCEPT ![c] = p2]
      /\ UNCHANGED <<server, toClient, plan>>
  BY <1>1 DEF Connect, Typed
<1>3. /\ p2 \in Peers /\ p2.st = "syn_sent" /\ p2.sent = peer[c].sent /\ p2.got = peer[c].got
  <2> DEFINE p == peer[c]
  <2>1. p \in Peers /\ p2 = [p EXCEPT !.st = "syn_sent", !.snd = 1]
    BY <1>1
  <2> HIDE DEF p, p2
  <2>2. p2 \in Peers /\ p2.st = "syn_sent" /\ p2.sent = p.sent /\ p2.got = p.got
    <3>0. /\ p.st \in PeerStates /\ p.snd \in Int /\ p.rcv \in Int /\ p.sent \in Nat /\ p.got \in Seq(Nat)
          /\ p = [st |-> p.st, snd |-> p.snd, rcv |-> p.rcv, sent |-> p.sent, got |-> p.got]
      BY <2>1 DEF Peers
    <3>1. p2 = [st |-> "syn_sent", snd |-> 1, rcv |-> p.rcv, sent |-> p.sent, got |-> p.got]
      BY <2>1, <3>0
    <3> DEFINE st == "syn_sent"
               snd == 1
               sent == p.sent
    <3>2. /\ st \in PeerStates /\ snd \in Int /\ sent \in Nat
          /\ p2 = [st |-> st, snd |-> snd, rcv |-> p.rcv, sent |-> sent, got |-> p.got]
      BY <3>0, <3>1 DEF PeerStates
    <3> HIDE DEF st, snd, sent
    <3>3. p2 \in Peers /\ p2.st = st /\ p2.rcv = p.rcv /\ p2.sent = sent /\ p2.got = p.got
      BY <3>0, <3>2 DEF Peers
    <3> QED
      BY <3>3 DEF st, sent
  <2> QED
    BY <2>2 DEF p
<1>4. x \in Segments /\ x.flags = {"SYN"}
  <2>1. peer[c].snd \in Int /\ p2.rcv \in Int
    BY <1>1, <1>3 DEF Peers
  <2> QED
    BY <2>1, KindFacts, SegmentFacts
<1>5. toServer' = [toServer EXCEPT ![c] = Append(toServer[c], x)]
  <2>1. peer'[c] = p2
    BY <1>1, <1>2 DEF Typed
  <2> QED
    BY <2>1 DEF Connect, Sends
<1> HIDE DEF p2, x
<1>6. Append(toServer[c], x) \in Seq(Segments)
  BY <1>1, <1>4
<1>7. Talk(Tame(c), p2, Append(toServer[c], x), Pipe(c), Now(Block(tcb, c), core, app),
           InHand(tcb_set, tcb, app, c), app.data)
  <2> DEFINE p == peer[c]
             net == toServer[c]
             pipe == Pipe(c)
             hand == InHand(tcb_set, tcb, app, c)
             polite == Tame(c)
             data == app.data
             b == Now(Block(tcb, c), core, app)
  <2>1. Talk(polite, p, net, pipe, b, hand, data)
    BY DEF StackInv, Talks
  <2>2. p \in Peers /\ p.st = "closed" /\ p2.sent = p.sent /\ p2.got = p.got
    BY <1>1, <1>2, <1>3
  <2> HIDE DEF p, net, pipe, hand, polite, data, b
  <2>3. Talk(polite, p2, Append(net, x), pipe, b, hand, data)
    BY <1>3, <1>4, <2>1, <2>2, TalkConnect
  <2> QED
    BY <2>3 DEF net, pipe, hand, polite, data, b
<1> QED
  BY <1>1, <1>2, <1>3, <1>5, <1>6, <1>7, ClientStep DEF Typed, Pipe

\* SendData: the client sends the next unit.
LEMMA SendDataStep ==
  ASSUME StackInv, NEW c \in Clients, SendData(c)
  PROVE  StackInv'
<1> DEFINE p2 == [peer[c] EXCEPT !.sent = peer[c].sent + 1, !.snd = peer[c].snd + 1]
           x == Segment({"PSH", "ACK"}, peer[c].snd, p2.rcv, peer[c].sent + 1)
<1>1. Typed /\ peer[c] \in Peers /\ toServer[c] \in Seq(Segments)
  BY DEF StackInv, Typed
<1>2. /\ peer[c].st = "established" /\ (plan.polite => Len(peer[c].got) = peer[c].sent)
      /\ peer' = [peer EXCEPT ![c] = p2] /\ UNCHANGED <<server, toClient, plan>>
  BY <1>1 DEF SendData, Ready, Typed
<1>3. /\ p2 \in Peers /\ p2.st = peer[c].st /\ p2.rcv = peer[c].rcv
      /\ p2.sent = peer[c].sent + 1 /\ p2.got = peer[c].got
  <2> DEFINE p == peer[c]
  <2>1. p \in Peers /\ p2 = [p EXCEPT !.sent = p.sent + 1, !.snd = p.snd + 1]
    BY <1>1
  <2> HIDE DEF p, p2
  <2>2. p2 \in Peers /\ p2.st = p.st /\ p2.rcv = p.rcv /\ p2.sent = p.sent + 1 /\ p2.got = p.got
    <3>0. /\ p.st \in PeerStates /\ p.snd \in Int /\ p.rcv \in Int /\ p.sent \in Nat /\ p.got \in Seq(Nat)
          /\ p = [st |-> p.st, snd |-> p.snd, rcv |-> p.rcv, sent |-> p.sent, got |-> p.got]
      BY <2>1 DEF Peers
    <3>1. p2 = [st |-> p.st, snd |-> p.snd + 1, rcv |-> p.rcv, sent |-> p.sent + 1, got |-> p.got]
      BY <2>1, <3>0
    <3> DEFINE st == p.st
               snd == p.snd + 1
               sent == p.sent + 1
    <3>2. /\ st \in PeerStates /\ snd \in Int /\ sent \in Nat
          /\ p2 = [st |-> st, snd |-> snd, rcv |-> p.rcv, sent |-> sent, got |-> p.got]
      BY <3>0, <3>1 DEF PeerStates
    <3> HIDE DEF st, snd, sent
    <3>3. p2 \in Peers /\ p2.st = st /\ p2.rcv = p.rcv /\ p2.sent = sent /\ p2.got = p.got
      BY <3>0, <3>2 DEF Peers
    <3> QED
      BY <3>3 DEF st, sent
  <2> QED
    BY <2>2 DEF p
<1>4. x \in Segments /\ x.flags = {"PSH", "ACK"} /\ x.data = peer[c].sent + 1 /\ x.ack = peer[c].rcv
  <2>1. peer[c].snd \in Int /\ p2.rcv \in Int /\ peer[c].sent + 1 \in Nat
    BY <1>1, <1>3 DEF Peers
  <2> QED
    BY <1>3, <2>1, KindFacts, SegmentFacts
<1>5. toServer' = [toServer EXCEPT ![c] = Append(toServer[c], x)]
  <2>1. peer'[c] = p2
    BY <1>1, <1>2 DEF Typed
  <2> QED
    BY <2>1 DEF SendData, Sends
<1> HIDE DEF p2, x
<1>6. Append(toServer[c], x) \in Seq(Segments)
  BY <1>1, <1>4
<1>7. Talk(Tame(c), p2, Append(toServer[c], x), Pipe(c), Now(Block(tcb, c), core, app),
           InHand(tcb_set, tcb, app, c), app.data)
  <2> DEFINE p == peer[c]
             net == toServer[c]
             pipe == Pipe(c)
             hand == InHand(tcb_set, tcb, app, c)
             polite == Tame(c)
             data == app.data
             b == Now(Block(tcb, c), core, app)
  <2>1. Talk(polite, p, net, pipe, b, hand, data)
    BY DEF StackInv, Talks
  <2>2. /\ p \in Peers /\ net \in Seq(Segments) /\ p.st = "established"
        /\ (polite => Len(p.got) = p.sent)
        /\ p2.st = p.st /\ p2.rcv = p.rcv /\ p2.sent = p.sent + 1 /\ p2.got = p.got
        /\ x.data = p.sent + 1 /\ x.ack = p.rcv
    BY <1>1, <1>2, <1>3, <1>4 DEF Tame
  <2> HIDE DEF p, net, pipe, hand, polite, data, b
  <2>3. Talk(polite, p2, Append(net, x), pipe, b, hand, data)
    BY <1>4, <2>1, <2>2, TalkSend
  <2> QED
    BY <2>3 DEF net, pipe, hand, polite, data, b
<1> QED
  BY <1>1, <1>2, <1>3, <1>5, <1>6, <1>7, ClientStep DEF Typed, Pipe

\* Finish: the client ends its side.
LEMMA FinishStep ==
  ASSUME StackInv, NEW c \in Clients, Finish(c)
  PROVE  StackInv'
<1> DEFINE p2 == [peer[c] EXCEPT !.st = "fin_wait", !.snd = peer[c].snd + 1]
           x == Segment({"FIN", "ACK"}, peer[c].snd, p2.rcv, 0)
<1>1. Typed /\ peer[c] \in Peers /\ toServer[c] \in Seq(Segments)
  BY DEF StackInv, Typed
<1>2. /\ peer[c].st = "established" /\ (plan.polite => Len(peer[c].got) = peer[c].sent)
      /\ peer' = [peer EXCEPT ![c] = p2] /\ UNCHANGED <<server, toClient, plan>>
  BY <1>1 DEF Finish, Ready, Typed
<1>3. /\ p2 \in Peers /\ p2.st = "fin_wait" /\ p2.rcv = peer[c].rcv
      /\ p2.sent = peer[c].sent /\ p2.got = peer[c].got
  <2> DEFINE p == peer[c]
  <2>1. p \in Peers /\ p2 = [p EXCEPT !.st = "fin_wait", !.snd = p.snd + 1]
    BY <1>1
  <2> HIDE DEF p, p2
  <2>2. p2 \in Peers /\ p2.st = "fin_wait" /\ p2.rcv = p.rcv /\ p2.sent = p.sent /\ p2.got = p.got
    <3>0. /\ p.st \in PeerStates /\ p.snd \in Int /\ p.rcv \in Int /\ p.sent \in Nat /\ p.got \in Seq(Nat)
          /\ p = [st |-> p.st, snd |-> p.snd, rcv |-> p.rcv, sent |-> p.sent, got |-> p.got]
      BY <2>1 DEF Peers
    <3>1. p2 = [st |-> "fin_wait", snd |-> p.snd + 1, rcv |-> p.rcv, sent |-> p.sent, got |-> p.got]
      BY <2>1, <3>0
    <3> DEFINE st == "fin_wait"
               snd == p.snd + 1
               sent == p.sent
    <3>2. /\ st \in PeerStates /\ snd \in Int /\ sent \in Nat
          /\ p2 = [st |-> st, snd |-> snd, rcv |-> p.rcv, sent |-> sent, got |-> p.got]
      BY <3>0, <3>1 DEF PeerStates
    <3> HIDE DEF st, snd, sent
    <3>3. p2 \in Peers /\ p2.st = st /\ p2.rcv = p.rcv /\ p2.sent = sent /\ p2.got = p.got
      BY <3>0, <3>2 DEF Peers
    <3> QED
      BY <3>3 DEF st, sent
  <2> QED
    BY <2>2 DEF p
<1>4. x \in Segments /\ x.flags = {"FIN", "ACK"} /\ x.ack = peer[c].rcv
  <2>1. peer[c].snd \in Int /\ p2.rcv \in Int
    BY <1>1, <1>3 DEF Peers
  <2> QED
    BY <1>3, <2>1, KindFacts, SegmentFacts
<1>5. toServer' = [toServer EXCEPT ![c] = Append(toServer[c], x)]
  <2>1. peer'[c] = p2
    BY <1>1, <1>2 DEF Typed
  <2> QED
    BY <2>1 DEF Finish, Sends
<1> HIDE DEF p2, x
<1>6. Append(toServer[c], x) \in Seq(Segments)
  BY <1>1, <1>4
<1>7. Talk(Tame(c), p2, Append(toServer[c], x), Pipe(c), Now(Block(tcb, c), core, app),
           InHand(tcb_set, tcb, app, c), app.data)
  <2> DEFINE p == peer[c]
             net == toServer[c]
             pipe == Pipe(c)
             hand == InHand(tcb_set, tcb, app, c)
             polite == Tame(c)
             data == app.data
             b == Now(Block(tcb, c), core, app)
  <2>1. Talk(polite, p, net, pipe, b, hand, data)
    BY DEF StackInv, Talks
  <2>2. /\ p \in Peers /\ net \in Seq(Segments) /\ p.st = "established"
        /\ (polite => Len(p.got) = p.sent)
        /\ p2.rcv = p.rcv /\ p2.sent = p.sent /\ p2.got = p.got /\ x.ack = p.rcv
    BY <1>1, <1>2, <1>3, <1>4 DEF Tame
  <2> HIDE DEF p, net, pipe, hand, polite, data, b
  <2>3. Talk(polite, p2, Append(net, x), pipe, b, hand, data)
    BY <1>3, <1>4, <2>1, <2>2, TalkFinish
  <2> QED
    BY <2>3 DEF net, pipe, hand, polite, data, b
<1> QED
  BY <1>1, <1>2, <1>3, <1>5, <1>6, <1>7, ClientStep DEF Typed, Pipe

\* Receive: the client takes the next segment and answers what is not an acknowledgement.
LEMMA ReceiveStep ==
  ASSUME StackInv, NEW c \in Clients, Receive(c)
  PROVE  StackInv'
<1>0. PICK torn \in BOOLEAN :
        /\ torn => "PSH" \in Head(toClient[c]).flags /\ Head(toClient[c]).seq < peer[c].rcv
        /\ peer' = [peer EXCEPT ![c] = After(peer[c], Head(toClient[c]), torn)]
  BY DEF Receive, After
<1> DEFINE seg == Head(toClient[c])
           p == peer[c]
           net == toServer[c]
           u0 == toClient[c]
           v0 == Block(tcb, c).sndbuf
           pipe == Pipe(c)
           p2 == After(p, seg, torn)
           x == Segment({"ACK"}, p.snd, p2.rcv, 0)
           net2 == Answered(net, seg, x)
<1>1. Typed /\ ListOk(tcb_set, tcb) /\ p \in Peers /\ net \in Seq(Segments) /\ u0 \in Seq(Segments)
  BY DEF StackInv, Typed
<1>2. v0 \in Seq(Segments)
  <2>1. CASE \E s \in Streams : tcb[s].peer = c
    <3>1. PICK s \in Streams : tcb[s].peer = c
      BY <2>1
    <3>2. Block(tcb, c) = tcb[s] /\ tcb[s] \in ControlBlocks
      BY <1>1, <3>1, BlockIs DEF Typed
    <3> QED
      BY <3>2 DEF ControlBlocks
  <2>2. CASE \A s \in Streams : tcb[s].peer # c
    <3>1. Block(tcb, c) = Blank
      BY <2>2, BlockNone
    <3> QED
      BY <3>1 DEF Blank
  <2> QED
    BY <2>1, <2>2
<1>3. u0 # <<>> /\ toClient' = [toClient EXCEPT ![c] = Tail(u0)] /\ UNCHANGED <<server, plan>>
  BY DEF Receive
<1>4. peer' = [peer EXCEPT ![c] = p2]
  BY <1>0
<1>5. toServer' = [toServer EXCEPT ![c] = net2]
  <2>1. peer'[c] = p2
    BY <1>1, <1>4 DEF Typed
  <2>2. CASE seg.flags = {"ACK"}
    <3>1. toServer' = toServer
      BY <2>2 DEF Receive
    <3> QED
      BY <1>1, <2>2, <3>1 DEF Typed, Answered
  <2>3. CASE seg.flags # {"ACK"}
    <3>1. toServer' = [toServer EXCEPT ![c] = Append(@, Segment({"ACK"}, peer[c].snd, peer'[c].rcv, 0))]
      BY <2>3 DEF Receive, Sends
    <3> QED
      BY <2>1, <2>3, <3>1 DEF Answered
  <2> QED
    BY <2>2, <2>3
<1>6. /\ pipe \in Seq(Segments) /\ pipe # <<>> /\ Head(pipe) = seg /\ Tail(pipe) = Tail(u0) \o v0
  <2>1. u0 \o v0 = pipe
    BY DEF Pipe
  <2>2. seg = Head(u0)
    OBVIOUS
  <2> HIDE DEF u0, v0, pipe, seg
  <2>3. /\ u0 \o v0 \in Seq(Segments) /\ u0 \o v0 # <<>>
        /\ Head(u0 \o v0) = Head(u0) /\ Tail(u0 \o v0) = Tail(u0) \o v0
    BY <1>1, <1>2, <1>3, PipeTail
  <2> QED
    BY <2>1, <2>2, <2>3
<1>7. seg \in Segments /\ Tail(u0) \in Seq(Segments)
  BY <1>1, <1>3, TailFacts
<1>8. p2.rcv \in Int
  <2> HIDE DEF seg, p
  <2>1. seg.seq \in Int /\ p.rcv \in Int
    BY <1>1, <1>7 DEF Segments, Peers
  <2> QED
    BY <1>1, <2>1 DEF Peers, After
<1>9. x \in Segments /\ x.flags = {"ACK"}
  <2> HIDE DEF p2
  <2>1. p.snd \in Int
    BY <1>1 DEF Peers
  <2> QED
    BY <1>8, <2>1, KindFacts, SegmentFacts
<1> DEFINE hand == InHand(tcb_set, tcb, app, c)
           polite == Tame(c)
           data == app.data
           b == Now(Block(tcb, c), core, app)
<1>10. Talk(polite, p, net, pipe, b, hand, data)
  BY DEF StackInv, Talks
<1> HIDE DEF hand, polite, data, b, p, net, pipe, x, seg, u0, v0
<1>11. Talk(polite, p2, net2, Tail(pipe), b, hand, data) /\ p2 \in Peers
  <2>1. p2 = After(p, Head(pipe), torn)
    BY <1>6
  <2>2. net2 = Answered(net, Head(pipe), x)
    BY <1>6
  <2>3. /\ Talk(polite, After(p, Head(pipe), torn), Answered(net, Head(pipe), x), Tail(pipe), b, hand, data)
        /\ After(p, Head(pipe), torn) \in Peers
    <3>1. torn => "PSH" \in Head(pipe).flags /\ Head(pipe).seq < p.rcv
      BY <1>0, <1>6 DEF seg, p
    <3> HIDE DEF p2, net2
    <3> QED
      BY <1>1, <1>6, <1>9, <1>10, <3>1, TalkReceive
  <2> HIDE DEF p2, net2
  <2> QED
    BY <2>1, <2>2, <2>3
<1>12. net2 \in Seq(Segments)
  BY <1>1, <1>9 DEF Answered
<1> HIDE DEF p2, net2
<1>13. Talk(polite, p2, net2, Tail(u0) \o v0, b, hand, data)
  BY <1>6, <1>11
<1>14. /\ peer' \in [Clients -> Peers] /\ peer'[c] = p2
       /\ toServer' \in [Clients -> Seq(Segments)] /\ toServer'[c] = net2
       /\ toClient' \in [Clients -> Seq(Segments)] /\ toClient'[c] = Tail(u0)
       /\ \A d \in Clients \ {c} :
            peer'[d] = peer[d] /\ toServer'[d] = toServer[d] /\ toClient'[d] = toClient[d]
  BY <1>1, <1>3, <1>4, <1>5, <1>7, <1>11, <1>12 DEF Typed
<1>15. Talk(Tame(c), peer'[c], toServer'[c], toClient'[c] \o Block(tcb, c).sndbuf,
            Now(Block(tcb, c), core, app), InHand(tcb_set, tcb, app, c), app.data)
  BY <1>13, <1>14 DEF polite, b, hand, data, v0
<1> QED
  BY <1>3, <1>14, <1>15, ClientStep

\* The listener and no clients yet.
LEMMA Init_Inv == Init => StackInv
<1> SUFFICES ASSUME Init PROVE StackInv
  OBVIOUS
<1> DEFINE epoll == plan.mode = "epoll"
           L == [Blank EXCEPT !.fd = LISTENFD, !.status = "LISTEN"]
           P == [st |-> "closed", snd |-> 0, rcv |-> 0, sent |-> 0, got |-> <<>>]
<1>1. /\ plan \in Plans /\ tcb_set = <<LISTENER>>
      /\ tcb = [s \in Streams |-> IF s = LISTENER THEN L ELSE Blank]
      /\ fd_table = (IF epoll THEN {LISTENFD, EPFD} ELSE {LISTENFD})
      /\ rdlist = <<>> /\ items = (IF epoll THEN {LISTENFD} ELSE {})
      /\ app = [pc |-> IF epoll THEN "wait" ELSE "accept", fd |-> -1, on |-> NONE, data |-> 0,
                ready |-> <<>>]
      /\ core = Idle /\ hurried = {}
      /\ toServer = [c \in Clients |-> <<>>] /\ toClient = [c \in Clients |-> <<>>]
      /\ peer = [c \in Clients |-> P]
  BY DEF Init
<1>2. /\ LISTENER \in Streams /\ LISTENFD \in Fds /\ EPFD \in Fds /\ LISTENFD # EPFD
      /\ LISTENFD # -1
  BY ClientCount DEF Streams, LISTENER, Fds, LISTENFD, EPFD
<1>3. /\ L \in ControlBlocks /\ L.peer = NONE /\ L.fd = LISTENFD /\ L.status = "LISTEN"
      /\ L.rcvbuf = <<>> /\ L.sndbuf = <<>>
  <2>1. "LISTEN" \in Statuses
    BY DEF Statuses
  <2> QED
    BY <1>2, <2>1, BlankIs DEF ControlBlocks
<1>4. P \in Peers /\ P.st = "closed" /\ P.sent = 0 /\ P.got = <<>>
  BY DEF Peers, PeerStates
<1> HIDE DEF epoll, L, P
<1>5. /\ tcb \in [Streams -> ControlBlocks] /\ tcb[LISTENER] = L
      /\ \A s \in Streams \ {LISTENER} : tcb[s] = Blank
      /\ \A s \in Streams : tcb[s].peer = NONE /\ tcb[s].rcvbuf = <<>>
  BY <1>1, <1>2, <1>3, BlankIs
<1>6. app \in Servers
  BY <1>1 DEF Servers, EpollStages, OnceStages
<1>13. core \in Cores /\ CoreOk(tcb, core)
  BY <1>1 DEF Cores, Idle, CoreOk
<1>7. Typed
  <2>1. <<LISTENER>> \in Seq(Streams)
    BY <1>2
  <2> QED
    BY <1>1, <1>2, <1>4, <1>5, <1>6, <1>13, <2>1 DEF Typed
<1>8. ListOk(tcb_set, tcb)
  <2>1. DOMAIN tcb_set = {1} /\ tcb_set[1] = LISTENER /\ ToSet(tcb_set) = {LISTENER}
    BY <1>1 DEF ToSet
  <2> QED
    BY <1>2, <1>5, <2>1 DEF ListOk, L
<1>9. BitmapOk(tcb, fd_table, epoll)
  <2>1. \A s \in Streams : Open(tcb[s]) <=> s = LISTENER
    BY <1>2, <1>3, <1>5, BlankIs DEF Open
  <2>2. \A s \in Streams : tcb[s].status # "LAST_ACK"
    BY <1>3, <1>5, BlankIs
  <2> QED
    BY <1>1, <1>2, <1>3, <1>5, <2>1, <2>2 DEF BitmapOk
<1>10. \A s \in Streams : RingOk(tcb[s])
  BY <1>5 DEF RingOk
<1>11. ServerOk(tcb_set, tcb, app) /\ LoopOk(epoll, app, rdlist, items)
  BY <1>1 DEF ServerOk, LoopOk, OnceStages
<1>12. ASSUME NEW c \in Clients PROVE Talks(c)
  <2>1. c # NONE
    BY UStackAssumption
  <2>2. Block(tcb, c) = Blank
    BY <1>5, <2>1, BlockNone
  <2>3. Pipe(c) = <<>>
    BY <1>1, <2>2, BlankIs DEF Pipe
  <2>4. ~InHand(tcb_set, tcb, app, c)
    BY <1>1 DEF InHand
  <2> DEFINE p == peer[c]
             net == toServer[c]
             pipe == Pipe(c)
             hand == InHand(tcb_set, tcb, app, c)
             b == Now(Block(tcb, c), core, app)
             data == app.data
  <2>9. b.status = "CLOSED" /\ b.rcvbuf = <<>>
    <3>1. ~Half(Block(tcb, c), app) /\ Block(tcb, c) \in ControlBlocks
      BY <2>2, <1>5, BlankIs, BlockOf DEF Half
    <3>2. b.status = Block(tcb, c).status /\ b.rcvbuf = Block(tcb, c).rcvbuf
      BY <1>1, <1>13, <3>1, NowQuiet
    <3> QED
      BY <2>2, <3>2, BlankIs
  <2>5. /\ p.st = "closed" /\ p.sent = 0 /\ p.got = <<>> /\ net = <<>> /\ pipe = <<>> /\ ~hand
        /\ b.status = "CLOSED" /\ b.rcvbuf = <<>>
    BY <1>1, <1>4, <2>3, <2>4, <2>9
  <2> HIDE DEF p, net, pipe, hand, b, data
  <2>6. Wire(p, net, pipe, b)
    BY <2>5 DEF Wire
  <2>7. Unit(p, net, pipe, b, hand, data)
    <3>1. UnitAt(p, net, pipe, b, hand, data, "nowhere", 0)
      BY <2>5 DEF UnitAt
    <3>2. Len(p.got) = 0 /\ 1..Len(p.got) = {}
      BY <2>5
    <3> QED
      BY <2>5, <3>1, <3>2 DEF Unit, Places
  <2>8. Step(p, net, pipe, b)
    BY <2>5 DEF Step
  <2> QED
    BY <2>6, <2>7, <2>8 DEF Talks, Talk, p, net, pipe, hand, b, data
<1> QED
  BY <1>7, <1>8, <1>9, <1>10, <1>11, <1>12, <1>13 DEF StackInv, epoll

\* A polite client's control block leaves the list when the client has seen both ends.
FreedDone ==
  plan.polite => \A s \in ToSet(tcb_set) \ ToSet(tcb_set') :
    tcb[s].peer # NONE => peer[tcb[s].peer].st = "done" \/ tcb[s].peer \in hurried

\* Every step keeps the invariant, and takes no polite client's control block before that.
LEMMA Next_Inv ==
  ASSUME StackInv, [Next]_vars
  PROVE  StackInv' /\ FreedDone
<1>1. CASE ng_tcp_out
  BY <1>1, OutStep DEF FreedDone, ng_tcp_out
<1>2. ASSUME NEW c \in Clients, ng_tcp_process(c) PROVE StackInv' /\ FreedDone
  <2>1. CASE ng_tcp_handle_listen(c)
    <3>1. ToSet(tcb_set) \subseteq ToSet(tcb_set')
      <4> DEFINE q == tcb_set
                 u == FreshTcb
      <4>1. q \in Seq(Streams) /\ ListOk(q, tcb)
        BY DEF StackInv, Typed
      <4>2. CASE tcb_set' = q
        BY <4>2
      <4>3. CASE tcb_set' # q
        <5>1. tcb_set' = <<u>> \o q /\ Arriving(c, "LISTEN")
          BY <2>1, <4>3 DEF ng_tcp_handle_listen
        <5>2. u \in Streams
          BY <5>1, Arrives, FreeStream DEF StackInv
        <5> HIDE DEF q, u
        <5>3. Len(<<u>>) = 1 /\ <<u>> \in Seq(Streams)
          BY <5>2
        <5>4. Len(<<u>> \o q) = 1 + Len(q) /\ \A i \in 1..Len(q) : (<<u>> \o q)[i + 1] = q[i]
          BY <4>1, <5>2, <5>3
        <5> DEFINE r == <<u>> \o q
        <5>5. \A i \in DOMAIN q : i + 1 \in DOMAIN r /\ r[i + 1] = q[i]
          <6>1. r \in Seq(Streams) /\ DOMAIN q = 1..Len(q) /\ Len(q) \in Nat
            BY <4>1, <5>3, ConcatProperties
          <6>2. DOMAIN r = 1..Len(r)
            BY <6>1
          <6> QED
            BY <5>4, <6>1, <6>2
        <5> HIDE DEF r
        <5>6. ToSet(q) \subseteq ToSet(r)
          BY <5>5 DEF ToSet
        <5> QED
          BY <5>1, <5>6 DEF q, r
      <4> QED
        BY <4>2, <4>3
    <3> QED
      BY <2>1, <3>1, ListenStep DEF FreedDone
  <2>2. CASE ng_tcp_handle_syn_rcvd(c)
    BY <2>2, RcvdStep DEF FreedDone, ng_tcp_handle_syn_rcvd
  <2>3. CASE ng_tcp_handle_established(c)
    BY <2>3, EstablishedStep DEF FreedDone, ng_tcp_handle_established
  <2>4. CASE ng_tcp_handle_close_wait(c)
    BY <2>4, CloseWaitStep DEF FreedDone, ng_tcp_handle_close_wait
  <2>5. CASE ng_tcp_handle_last_ack(c)
    <3>1. /\ StackInv' /\ ToSet(tcb_set) \ ToSet(tcb_set') = {ng_tcp_stream_search(c)}
          /\ tcb[ng_tcp_stream_search(c)].peer = c /\ (Tame(c) => peer[c].st = "done")
      BY <2>5, LastAckStep
    <3> QED
      BY <3>1 DEF FreedDone, Tame
  <2> QED
    BY <1>2, <2>1, <2>2, <2>3, <2>4, <2>5 DEF ng_tcp_process
<1>6. CASE established_numbers
  BY <1>6, NumbersStep DEF FreedDone, established_numbers
<1>3. CASE tcp_server_entry
  <2>1. tcb_set' = tcb_set
    BY <1>3 DEF tcp_server_entry, naccept, nrecv, nsend, nclose_fin, nclose_end, Closing, nepoll_ctl_add, nepoll_wait,
                Event, NextEvent
  <2>2. StackInv'
    BY <1>3, AcceptStep, RecvStep, SendStep, FinStep, CloseStep, LoopStep DEF tcp_server_entry
  <2> QED
    BY <2>1, <2>2 DEF FreedDone
<1>4. ASSUME NEW c \in Clients, Client(c) PROVE StackInv' /\ FreedDone
  <2>1. tcb_set' = tcb_set
    BY <1>4 DEF Client, Connect, SendData, Finish, Receive, server
  <2>2. StackInv'
    BY <1>4, ConnectStep, SendDataStep, FinishStep, ReceiveStep DEF Client
  <2> QED
    BY <2>1, <2>2 DEF FreedDone
<1>5. CASE UNCHANGED vars
  <2>1. UNCHANGED <<tcb_set, tcb, fd_table, rdlist, items, app, core, hurried, toServer, toClient, peer, plan>>
    BY <1>5 DEF vars, server, clients
  <2>2. Typed' /\ \A c \in Clients : Talks(c)'
    BY <2>1 DEF StackInv, Typed, Talks, Pipe, Tame
  <2>3. StackInv'
    BY <2>1, <2>2 DEF StackInv, CoreOk
  <2> QED
    BY <2>1, <2>3 DEF FreedDone
<1> QED
  BY <1>1, <1>2, <1>3, <1>4, <1>5, <1>6 DEF Next, pkt_process

-----------------------------------------------------------------------------
(* Clients that come one after another *)

\* What is put before a sequence, and what Tail leaves of it.
LEMMA ConsFacts ==
  ASSUME NEW S, NEW q \in Seq(S), NEW x \in S
  PROVE  /\ <<x>> \o q \in Seq(S) /\ Len(<<x>> \o q) = Len(q) + 1 /\ Len(q) \in Nat
         /\ DOMAIN q = 1..Len(q) /\ DOMAIN (<<x>> \o q) = 1..(Len(q) + 1)
         /\ (<<x>> \o q)[1] = x
         /\ \A i \in 1..(Len(q) + 1) : i # 1 =>
              i - 1 \in DOMAIN q /\ (<<x>> \o q)[i] = q[i - 1]
         /\ \A i \in DOMAIN q : i + 1 \in 1..(Len(q) + 1) /\ (<<x>> \o q)[i + 1] = q[i]
         /\ ToSet(<<x>> \o q) = {x} \cup ToSet(q)
         /\ Distinct(q) /\ x \notin ToSet(q) => Distinct(<<x>> \o q)
<1> DEFINE r == <<x>> \o q
           n == Len(q)
<1>1. n \in Nat /\ DOMAIN q = 1..n
  OBVIOUS
<1>2. <<x>> \in Seq(S) /\ Len(<<x>>) = 1 /\ <<x>>[1] = x
  OBVIOUS
<1>3. /\ r \in Seq(S) /\ Len(r) = 1 + n
      /\ \A i \in 1..(1 + n) : r[i] = IF i <= 1 THEN <<x>>[i] ELSE q[i - 1]
  BY <1>2, ConcatProperties
<1>4. DOMAIN r = 1..(n + 1)
  BY <1>1, <1>3
<1>5. r[1] = x
  BY <1>1, <1>2, <1>3
<1> HIDE DEF r, n
<1>6. \A i \in 1..(n + 1) : i # 1 => i - 1 \in DOMAIN q /\ r[i] = q[i - 1]
  BY <1>1, <1>3
<1>7. \A i \in DOMAIN q : i + 1 \in 1..(n + 1) /\ r[i + 1] = q[i]
  <2> SUFFICES ASSUME NEW i \in DOMAIN q PROVE i + 1 \in 1..(n + 1) /\ r[i + 1] = q[i]
    OBVIOUS
  <2>1. i \in Nat /\ i + 1 \in 1..(n + 1) /\ i + 1 # 1 /\ (i + 1) - 1 = i
    BY <1>1
  <2> QED
    BY <1>6, <2>1
<1>8. ToSet(r) = {x} \cup ToSet(q)
  <2>1. 1 \in DOMAIN r
    BY <1>1, <1>4
  <2>2. \A v \in ToSet(r) : v = x \/ v \in ToSet(q)
    BY <1>4, <1>5, <1>6 DEF ToSet
  <2>3. x \in ToSet(r)
    BY <1>5, <2>1 DEF ToSet
  <2>4. \A v \in ToSet(q) : v \in ToSet(r)
    BY <1>4, <1>7 DEF ToSet
  <2> QED
    BY <2>2, <2>3, <2>4
<1>9. ASSUME Distinct(q), x \notin ToSet(q) PROVE Distinct(r)
  <2> SUFFICES ASSUME NEW i \in 1..(n + 1), NEW j \in 1..(n + 1), r[i] = r[j] PROVE i = j
    BY <1>4 DEF Distinct
  <2>1. CASE i # 1 /\ j # 1
    <3>1. i - 1 = j - 1
      BY <1>6, <1>9, <2>1 DEF Distinct
    <3> QED
      BY <1>1, <3>1
  <2>2. CASE i = 1 /\ j # 1
    BY <1>5, <1>6, <1>9, <2>2 DEF ToSet
  <2>3. CASE i # 1 /\ j = 1
    BY <1>5, <1>6, <1>9, <2>3 DEF ToSet
  <2> QED
    BY <2>1, <2>2, <2>3
<1> QED
  BY <1>1, <1>3, <1>4, <1>5, <1>6, <1>7, <1>8, <1>9 DEF r, n

\* What Tail leaves of a sequence, as a set.
LEMMA TailSet ==
  ASSUME NEW S, NEW q \in Seq(S), q # <<>>
  PROVE  /\ Tail(q) \in Seq(S) /\ q[1] \in S /\ Head(q) = q[1]
         /\ ToSet(q) = {q[1]} \cup ToSet(Tail(q))
         /\ Distinct(q) => Distinct(Tail(q)) /\ q[1] \notin ToSet(Tail(q))
<1> DEFINE r == Tail(q)
<1>1. /\ Head(q) = q[1] /\ Head(q) \in S /\ r \in Seq(S) /\ 1 \in DOMAIN q
      /\ Len(q) \in Nat /\ Len(q) > 0 /\ Len(r) = Len(q) - 1
      /\ \A i \in DOMAIN r : i \in Nat /\ i + 1 \in DOMAIN q /\ r[i] = q[i + 1]
  BY TailFacts
<1>2. DOMAIN r = 1..(Len(q) - 1) /\ DOMAIN q = 1..Len(q)
  BY <1>1
<1> HIDE DEF r
<1>3. \A i \in DOMAIN q : i # 1 => i - 1 \in DOMAIN r /\ r[i - 1] = q[i]
  <2> SUFFICES ASSUME NEW i \in DOMAIN q, i # 1 PROVE i - 1 \in DOMAIN r /\ r[i - 1] = q[i]
    OBVIOUS
  <2>1. i - 1 \in DOMAIN r /\ (i - 1) + 1 = i
    BY <1>1, <1>2
  <2> QED
    BY <1>1, <2>1
<1>4. ToSet(q) = {q[1]} \cup ToSet(r)
  <2>1. \A v \in ToSet(q) : v = q[1] \/ v \in ToSet(r)
    BY <1>3 DEF ToSet
  <2>2. q[1] \in ToSet(q) /\ \A v \in ToSet(r) : v \in ToSet(q)
    BY <1>1 DEF ToSet
  <2> QED
    BY <2>1, <2>2
<1>5. ASSUME Distinct(q) PROVE Distinct(r) /\ q[1] \notin ToSet(r)
  <2>1. \A i, j \in DOMAIN r : r[i] = r[j] => i + 1 = j + 1
    BY <1>1, <1>5 DEF Distinct
  <2>2. \A i, j \in DOMAIN r : r[i] = r[j] => i = j
    BY <1>1, <2>1
  <2>3. \A i \in DOMAIN r : r[i] # q[1]
    <3> SUFFICES ASSUME NEW i \in DOMAIN r, r[i] = q[1] PROVE FALSE
      OBVIOUS
    <3>1. i + 1 = 1 /\ i \in 1..(Len(q) - 1)
      BY <1>1, <1>2, <1>5 DEF Distinct
    <3> QED
      BY <1>1, <3>1
  <2> QED
    BY <2>2, <2>3 DEF Distinct, ToSet
<1> QED
  BY <1>1, <1>4, <1>5 DEF r

\* The first of the list, and the rest.
LEMMA FirstBlock ==
  ASSUME Typed, ListOk(tcb_set, tcb)
  PROVE  /\ tcb_set[1] \in Streams /\ 1 \in DOMAIN tcb_set /\ tcb_set # <<>>
         /\ DOMAIN tcb_set = 1..Len(tcb_set) /\ Len(tcb_set) \in Nat
         /\ tcb[tcb_set[1]] \in ControlBlocks
         /\ Len(tcb[tcb_set[1]].rcvbuf) \in Nat
<1>1. tcb_set \in Seq(Streams) /\ tcb \in [Streams -> ControlBlocks]
  BY DEF Typed
<1>2. DOMAIN tcb_set = 1..Len(tcb_set) /\ Len(tcb_set) \in Nat /\ \A i \in DOMAIN tcb_set : tcb_set[i] \in Streams
  BY <1>1, ElementOfSeq
<1>3. \E i \in DOMAIN tcb_set : TRUE
  BY DEF ListOk, ToSet
<1>4. 1 \in DOMAIN tcb_set
  BY <1>2, <1>3
<1>5. tcb[tcb_set[1]] \in ControlBlocks
  BY <1>1, <1>2, <1>4
<1>6. tcb[tcb_set[1]].rcvbuf \in Seq(Nat)
  BY <1>5 DEF ControlBlocks
<1> QED
  BY <1>2, <1>4, <1>5, <1>6

\* Of clients that come one after another only the last is not closed.
LEMMA AtHead ==
  ASSUME OneByOne(tcb_set, tcb, peer, app), tcb_set \in Seq(Streams), NEW s \in ToSet(tcb_set),
         s # LISTENER, tcb[s].status # "LAST_ACK", ~Half(tcb[s], app)
  PROVE  s = tcb_set[1]
<1>1. PICK i \in DOMAIN tcb_set : tcb_set[i] = s
  BY DEF ToSet
<1>2. ~(i > 1)
  BY <1>1 DEF OneByOne
<1>3. i \in 1..Len(tcb_set) /\ Len(tcb_set) \in Nat
  OBVIOUS
<1> QED
  BY <1>1, <1>2, <1>3

\* The stages at which the server has the same events before it.
Alike(pc, pc2) ==
  \/ pc2 = pc
  \/ {pc, pc2} \subseteq {"accept", "accept_wait"}
  \/ {pc, pc2} \subseteq {"recv", "recv_wait"}
  \/ pc = "send" /\ pc2 = "next"

\* The events stay right while the first of the list keeps its number and what it has.
LEMMA EventsKept ==
  ASSUME NEW b, NEW b2, NEW a, NEW a2, NEW r, NEW it, EventsOk(b, a, r, it),
         b2.fd = b.fd,
         b.status \notin {"LAST_ACK", "LISTEN"} => b2.status \notin {"LAST_ACK", "LISTEN"},
         Len(b.rcvbuf) \in Nat, Len(b2.rcvbuf) \in Nat, Len(b.rcvbuf) <= Len(b2.rcvbuf),
         a2.ready = a.ready, a2.fd = a.fd, Alike(a.pc, a2.pc)
  PROVE  EventsOk(b2, a2, r, it)
<1>1. PendingOf(a2) = PendingOf(a)
  BY DEF PendingOf, Alike
<1>2. \A fd : Serves(b, fd) => Serves(b2, fd)
  BY DEF Serves
<1>3. /\ a2.pc \in {"accept", "accept_wait"} => a.pc \in {"accept", "accept_wait"}
      /\ a2.pc \in {"recv", "recv_wait", "send", "close"} => a.pc \in {"recv", "recv_wait", "send", "close"}
      /\ a2.pc = "add" => a.pc = "add"
      /\ a2.pc = "closing" => a.pc = "closing"
  BY DEF Alike
<1>4. /\ a2.pc \in {"accept", "accept_wait", "add"} => a2.ready[1] = LISTENFD
      /\ a2.pc \in {"recv", "recv_wait", "send", "close"} =>
           a2.fd = a2.ready[1] /\ a2.fd # LISTENFD /\ a2.fd \in it
      /\ a2.pc = "add" => it = {LISTENFD} /\ Serves(b2, a2.fd)
      /\ a2.pc = "closing" => it = {LISTENFD}
  BY <1>2, <1>3 DEF EventsOk
<1>5. ASSUME NEW fd \in it \ {LISTENFD}
      PROVE  Serves(b2, fd) /\ Once(fd, r) + Once(fd, PendingOf(a2)) <= Len(b2.rcvbuf)
  <2>1. Serves(b, fd) /\ Once(fd, r) + Once(fd, PendingOf(a)) <= Len(b.rcvbuf)
    BY DEF EventsOk
  <2>2. Once(fd, r) \in Nat /\ Once(fd, PendingOf(a)) \in Nat
    BY DEF Once
  <2> DEFINE m == Once(fd, r)
             n == Once(fd, PendingOf(a))
             k == Len(b.rcvbuf)
             k2 == Len(b2.rcvbuf)
  <2>3. m \in Nat /\ n \in Nat /\ k \in Nat /\ k2 \in Nat /\ k <= k2 /\ m + n <= k
    BY <2>1, <2>2
  <2> HIDE DEF m, n, k, k2
  <2>4. m + n <= k2
    BY <2>3
  <2> QED
    BY <1>1, <1>2, <2>1, <2>4 DEF m, n, k2
<1>6. /\ Distinct(r) /\ Distinct(a2.ready) /\ LISTENFD \in it
      /\ ToSet(r) \cup ToSet(PendingOf(a2)) \subseteq it
  BY <1>1 DEF EventsOk
<1> QED
  BY <1>4, <1>5, <1>6 DEF EventsOk

\* The packet core adds an event for a fragment it has put in the ring, or for the listener.
LEMMA EventAdded ==
  ASSUME NEW b, NEW b2, NEW a, NEW r \in Seq(Fds), NEW it, it \subseteq Fds,
         NEW x \in it, x \notin ToSet(r), EventsOk(b, a, r, it),
         b2.fd = b.fd, b2.status \notin {"LAST_ACK", "LISTEN"} \/ b2.status = b.status,
         Len(b.rcvbuf) \in Nat, Len(b2.rcvbuf) \in Nat,
         IF x = LISTENFD THEN Len(b.rcvbuf) <= Len(b2.rcvbuf) ELSE Len(b.rcvbuf) + 1 <= Len(b2.rcvbuf)
  PROVE  EventsOk(b2, a, <<x>> \o r, it)
<1> DEFINE r2 == <<x>> \o r
<1>1. ToSet(r2) = {x} \cup ToSet(r) /\ (Distinct(r) => Distinct(r2))
  BY ConsFacts
<1> HIDE DEF r2
<1>2. /\ Distinct(r2) /\ Distinct(a.ready) /\ LISTENFD \in it
      /\ ToSet(r2) \cup ToSet(PendingOf(a)) \subseteq it
  BY <1>1 DEF EventsOk
<1>3. \A fd : Serves(b, fd) => Serves(b2, fd)
  BY DEF Serves
<1>4. /\ a.pc \in {"accept", "accept_wait", "add"} => a.ready[1] = LISTENFD
      /\ a.pc \in {"recv", "recv_wait", "send", "close"} =>
           a.fd = a.ready[1] /\ a.fd # LISTENFD /\ a.fd \in it
      /\ a.pc = "add" => it = {LISTENFD} /\ Serves(b2, a.fd)
      /\ a.pc = "closing" => it = {LISTENFD}
  BY <1>3 DEF EventsOk
<1>5. ASSUME NEW fd \in it \ {LISTENFD}
      PROVE  Serves(b2, fd) /\ Once(fd, r2) + Once(fd, PendingOf(a)) <= Len(b2.rcvbuf)
  <2> DEFINE m == Once(fd, r)
             m2 == Once(fd, r2)
             n == Once(fd, PendingOf(a))
             k == Len(b.rcvbuf)
             k2 == Len(b2.rcvbuf)
  <2>1. Serves(b, fd) /\ m + n <= k
    BY DEF EventsOk
  <2>2. m \in Nat /\ n \in Nat /\ m2 \in Nat /\ (fd # x => m2 = m) /\ m2 <= m + 1
    BY <1>1 DEF Once
  <2>3. k \in Nat /\ k2 \in Nat /\ k <= k2 /\ (x # LISTENFD => k + 1 <= k2)
    OBVIOUS
  <2> HIDE DEF m, m2, n, k, k2
  <2>4. m2 + n <= k2
    BY <2>1, <2>2, <2>3
  <2> QED
    BY <1>3, <2>1, <2>4 DEF m2, n, k2
<1> QED
  BY <1>2, <1>4, <1>5 DEF EventsOk, r2

\* Nothing is registered but the listener when the first of the list is closed or free.
LEMMA EventsIdle ==
  ASSUME NEW b, NEW b2, NEW a, NEW r, NEW it, EventsOk(b, a, r, it),
         b.status \in {"LAST_ACK", "LISTEN"} \/ a.pc = "closing"
  PROVE  EventsOk(b2, a, r, it)
<1>1. it = {LISTENFD} /\ a.pc # "add"
  BY DEF EventsOk, Serves
<1> QED
  BY <1>1 DEF EventsOk

\* A step that changes no more of the list than what the first has got.
SameList ==
  /\ tcb_set' = tcb_set
  /\ \A c \in Clients : Busy(peer'[c]) => Busy(peer[c])
  /\ \A s \in Streams :
       /\ tcb'[s].fd = tcb[s].fd
       /\ tcb'[s].status \notin {"LAST_ACK", "LISTEN"} \/ tcb'[s].status = tcb[s].status
       /\ tcb[s].status = "LAST_ACK" => tcb'[s].status = "LAST_ACK"
       /\ Half(tcb[s], app) => Half(tcb'[s], app')
       /\ Len(tcb[s].rcvbuf) <= Len(tcb'[s].rcvbuf)

\* What is left of OneByOne then.
LEMMA SameOne ==
  ASSUME Typed, OneByOne(tcb_set, tcb, peer, app), SameList
  PROVE  OneByOne(tcb_set', tcb', peer', app')
<1>1. \A i \in DOMAIN tcb_set : tcb_set[i] \in Streams
  BY ElementOfSeq DEF Typed
<1>2. \A c, d \in Clients : Busy(peer'[c]) /\ Busy(peer'[d]) => c = d
  BY DEF OneByOne, SameList
<1>3. \A i \in DOMAIN tcb_set : i > 1 /\ tcb_set[i] # LISTENER =>
        tcb'[tcb_set[i]].status = "LAST_ACK" \/ Half(tcb'[tcb_set[i]], app')
  BY <1>1 DEF OneByOne, SameList
<1> QED
  BY <1>2, <1>3 DEF OneByOne, SameList

\* A step that adds no event.
LEMMA SeqKept ==
  ASSUME StackInv, StackInv', SequentialInv, ~plan.together, plan' = plan, SameList,
         plan.mode = "epoll" =>
           /\ rdlist' = rdlist /\ items' = items
           /\ app'.ready = app.ready /\ app'.fd = app.fd /\ Alike(app.pc, app'.pc)
  PROVE  SequentialInv'
<1>1. OneByOne(tcb_set', tcb', peer', app')
  BY SameOne DEF StackInv, SequentialInv
<1>2. ASSUME plan.mode = "epoll"
      PROVE  EventsOk(tcb'[tcb_set'[1]], app', rdlist', items')
  <2> DEFINE s == tcb_set[1]
  <2>1. s \in Streams /\ Len(tcb[s].rcvbuf) \in Nat
    BY FirstBlock DEF StackInv
  <2>2. Len(tcb'[s].rcvbuf) \in Nat
    <3>1. tcb'[s] \in ControlBlocks
      BY <2>1 DEF StackInv, Typed
    <3> QED
      BY <3>1 DEF ControlBlocks
  <2>3. /\ tcb_set'[1] = s /\ tcb'[s].fd = tcb[s].fd
        /\ tcb'[s].status \notin {"LAST_ACK", "LISTEN"} \/ tcb'[s].status = tcb[s].status
        /\ Len(tcb[s].rcvbuf) <= Len(tcb'[s].rcvbuf)
    BY <2>1 DEF SameList
  <2>4. EventsOk(tcb[s], app, rdlist, items)
    BY <1>2 DEF SequentialInv
  <2>5. /\ rdlist' = rdlist /\ items' = items
        /\ app'.ready = app.ready /\ app'.fd = app.fd /\ Alike(app.pc, app'.pc)
    BY <1>2
  <2> DEFINE b == tcb[s]
             b2 == tcb'[s]
             a == app
             a2 == app'
             r == rdlist
             it == items
  <2>6. /\ EventsOk(b, a, r, it) /\ b2.fd = b.fd
        /\ b2.status \notin {"LAST_ACK", "LISTEN"} \/ b2.status = b.status
        /\ Len(b.rcvbuf) \in Nat /\ Len(b2.rcvbuf) \in Nat /\ Len(b.rcvbuf) <= Len(b2.rcvbuf)
        /\ a2.ready = a.ready /\ a2.fd = a.fd /\ Alike(a.pc, a2.pc)
    BY <2>1, <2>2, <2>3, <2>4, <2>5
  <2> HIDE DEF b, b2, a, a2, r, it
  <2>7. EventsOk(b2, a2, r, it)
    BY <2>6, EventsKept
  <2> QED
    BY <2>3, <2>5, <2>7 DEF b2, a2, r, it
<1> QED
  BY <1>1, <1>2 DEF SequentialInv

\* A step of the packet core that may add one.
LEMMA SeqTold ==
  ASSUME StackInv, StackInv', SequentialInv, ~plan.together, plan' = plan, SameList,
         NEW x, epoll_event_callback(x), items' = items,
         x \in items \ {LISTENFD} =>
           Len(tcb[tcb_set[1]].rcvbuf) + 1 <= Len(tcb'[tcb_set[1]].rcvbuf),
         app'.ready = app.ready, app'.fd = app.fd, Alike(app.pc, app'.pc)
  PROVE  SequentialInv'
<1>1. CASE ~(plan.mode = "epoll" /\ x \in items /\ ~Contains(rdlist, x))
  <2>1. rdlist' = rdlist
    BY <1>1 DEF epoll_event_callback
  <2> QED
    BY <2>1, SeqKept
<1>2. CASE plan.mode = "epoll" /\ x \in items /\ ~Contains(rdlist, x)
  <2>1. OneByOne(tcb_set', tcb', peer', app')
    BY SameOne DEF StackInv, SequentialInv
  <2> DEFINE s == tcb_set[1]
  <2>2. s \in Streams /\ Len(tcb[s].rcvbuf) \in Nat
    BY FirstBlock DEF StackInv
  <2>3. Len(tcb'[s].rcvbuf) \in Nat
    <3>1. tcb'[s] \in ControlBlocks
      BY <2>2 DEF StackInv, Typed
    <3> QED
      BY <3>1 DEF ControlBlocks
  <2>4. /\ tcb_set'[1] = s /\ tcb'[s].fd = tcb[s].fd
        /\ tcb'[s].status \notin {"LAST_ACK", "LISTEN"} \/ tcb'[s].status = tcb[s].status
        /\ Len(tcb[s].rcvbuf) <= Len(tcb'[s].rcvbuf)
    BY <2>2 DEF SameList
  <2>5. /\ EventsOk(tcb[s], app, rdlist, items) /\ rdlist \in Seq(Fds) /\ items \subseteq Fds
    BY <1>2 DEF SequentialInv, StackInv, Typed
  <2>6. x \notin ToSet(rdlist) /\ rdlist' = <<x>> \o rdlist
    <3>1. rdlist' = <<x>> \o rdlist /\ \A i \in 1..Len(rdlist) : rdlist[i] # x
      BY <1>2 DEF epoll_event_callback, Contains
    <3>2. DOMAIN rdlist = 1..Len(rdlist)
      BY <2>5
    <3> QED
      BY <3>1, <3>2 DEF ToSet
  <2> DEFINE b == tcb[s]
             b2 == tcb'[s]
             a == app
             a2 == app'
             r == rdlist
             it == items
  <2>7. /\ EventsOk(b, a, r, it) /\ b2.fd = b.fd
        /\ b2.status \notin {"LAST_ACK", "LISTEN"} \/ b2.status = b.status
        /\ Len(b.rcvbuf) \in Nat /\ Len(b2.rcvbuf) \in Nat /\ Len(b.rcvbuf) <= Len(b2.rcvbuf)
        /\ x = LISTENFD \/ Len(b.rcvbuf) + 1 <= Len(b2.rcvbuf)
        /\ r \in Seq(Fds) /\ it \subseteq Fds /\ x \in it /\ x \notin ToSet(r)
        /\ a2.ready = a.ready /\ a2.fd = a.fd /\ Alike(a.pc, a2.pc)
    BY <1>2, <2>2, <2>3, <2>4, <2>5, <2>6
  <2> HIDE DEF b, b2, a, a2, r, it
  <2>8. EventsOk(b2, a, <<x>> \o r, it)
    BY <2>7, EventAdded
  <2> DEFINE r2 == <<x>> \o r
  <2>9. EventsOk(b2, a, r2, it)
    BY <2>8
  <2> HIDE DEF r2
  <2>10. EventsOk(b2, a2, r2, it)
    BY <2>7, <2>9, EventsKept
  <2> QED
    BY <2>1, <2>4, <2>6, <2>10 DEF SequentialInv, b2, a2, r, it, r2
<1> QED
  BY <1>1, <1>2

\* One control block has changed, and one client may be on its way out.
LEMMA ListKept ==
  ASSUME Typed, tcb_set' = tcb_set, \A c \in Clients : Busy(peer'[c]) => Busy(peer[c]),
         NEW s \in Streams, \A u \in Streams \ {s} : tcb'[u] = tcb[u],
         tcb'[s].fd = tcb[s].fd,
         tcb'[s].status \notin {"LAST_ACK", "LISTEN"} \/ tcb'[s].status = tcb[s].status,
         tcb[s].status = "LAST_ACK" => tcb'[s].status = "LAST_ACK",
         tcb[s].status = "CLOSE_WAIT" => tcb'[s].status = "CLOSE_WAIT",
         tcb'[s].rcvbuf = tcb[s].rcvbuf \/ Len(tcb[s].rcvbuf) + 1 <= Len(tcb'[s].rcvbuf),
         Len(tcb'[s].rcvbuf) \in Nat,
         app.pc = "closing" => app'.pc = "closing" /\ app'.fd = app.fd
  PROVE  SameList
<1>1. \A u \in Streams : Len(tcb[u].rcvbuf) \in Nat
  <2> SUFFICES ASSUME NEW u \in Streams PROVE Len(tcb[u].rcvbuf) \in Nat
    OBVIOUS
  <2>1. tcb[u] \in ControlBlocks
    BY DEF Typed
  <2>2. tcb[u].rcvbuf \in Seq(Nat)
    BY <2>1 DEF ControlBlocks
  <2> QED
    BY <2>2
<1>2. ASSUME NEW u \in Streams
      PROVE  /\ tcb'[u].fd = tcb[u].fd
             /\ tcb'[u].status \notin {"LAST_ACK", "LISTEN"} \/ tcb'[u].status = tcb[u].status
             /\ tcb[u].status = "LAST_ACK" => tcb'[u].status = "LAST_ACK"
             /\ Half(tcb[u], app) => Half(tcb'[u], app')
             /\ Len(tcb[u].rcvbuf) <= Len(tcb'[u].rcvbuf)
  <2>1. CASE u # s
    <3>1. tcb'[u] = tcb[u] /\ Len(tcb[u].rcvbuf) <= Len(tcb[u].rcvbuf)
      BY <1>1, <2>1
    <3> QED
      BY <3>1 DEF Half
  <2>2. CASE u = s
    <3>1. Len(tcb[s].rcvbuf) \in Nat
      BY <1>1
    <3>2. Len(tcb[s].rcvbuf) <= Len(tcb'[s].rcvbuf)
      <4>1. CASE tcb'[s].rcvbuf = tcb[s].rcvbuf
        BY <3>1, <4>1
      <4>2. CASE Len(tcb[s].rcvbuf) + 1 <= Len(tcb'[s].rcvbuf)
        <5> DEFINE m == Len(tcb[s].rcvbuf)
                   n == Len(tcb'[s].rcvbuf)
        <5>1. m \in Nat /\ n \in Nat /\ m + 1 <= n
          BY <3>1, <4>2
        <5> HIDE DEF m, n
        <5>2. m <= n
          BY <5>1
        <5> QED
          BY <5>2 DEF m, n
      <4> QED
        BY <4>1, <4>2
    <3> QED
      BY <2>2, <3>2 DEF Half
  <2> QED
    BY <2>1, <2>2
<1> QED
  BY <1>2 DEF SameList

\* No control block has.
LEMMA ListSame ==
  ASSUME Typed, tcb_set' = tcb_set, tcb' = tcb, \A c \in Clients : Busy(peer'[c]) => Busy(peer[c]),
         app.pc = "closing" => app'.pc = "closing" /\ app'.fd = app.fd
  PROVE  SameList
<1>1. LISTENER \in Streams
  BY ClientCount DEF Streams, LISTENER
<1>2. tcb[LISTENER] \in ControlBlocks
  BY <1>1 DEF Typed
<1>3. tcb[LISTENER].rcvbuf \in Seq(Nat)
  BY <1>2 DEF ControlBlocks
<1>4. Len(tcb'[LISTENER].rcvbuf) \in Nat
  BY <1>3
<1> QED
  BY <1>1, <1>4, ListKept

\* A signal changes no more than the wait.
LEMMA SignalledAlike ==
  ASSUME Typed, NEW s, NEW pcs,
         pcs = [accept_wait |-> "accept"] \/ pcs = [recv_wait |-> "recv"],
         app' = Signalled(s, pcs)
  PROVE  /\ app'.ready = app.ready /\ app'.fd = app.fd /\ Alike(app.pc, app'.pc)
         /\ app.pc = "closing" => app'.pc = "closing"
<1>1. /\ app'.fd = app.fd /\ app'.ready = app.ready
      /\ \/ app'.pc = app.pc
         \/ app.pc = "accept_wait" /\ app'.pc = "accept"
         \/ app.pc = "recv_wait" /\ app'.pc = "recv"
  BY SignalledFacts
<1> QED
  BY <1>1 DEF Alike

\* A segment leaves.
LEMMA OutSeq ==
  ASSUME StackInv, StackInv', SequentialInv, ~plan.together, ng_tcp_out
  PROVE  SequentialInv'
<1> DEFINE busy == {s \in Streams : Contains(tcb_set, s) /\ tcb[s].sndbuf # <<>>}
<1>1. /\ tcb' = [s \in Streams |-> IF s \in busy THEN [tcb[s] EXCEPT !.sndbuf = Tail(@)] ELSE tcb[s]]
      /\ UNCHANGED <<tcb_set, rdlist, items, app, peer, plan>>
  BY DEF ng_tcp_out, clients
<1> HIDE DEF busy
<1>2. ASSUME NEW s \in Streams
      PROVE  /\ tcb'[s].fd = tcb[s].fd /\ tcb'[s].status = tcb[s].status
             /\ tcb'[s].rcvbuf = tcb[s].rcvbuf /\ Len(tcb[s].rcvbuf) \in Nat
  <2>1. tcb[s] \in ControlBlocks
    BY DEF StackInv, Typed
  <2>2. tcb[s].rcvbuf \in Seq(Nat)
    BY <2>1 DEF ControlBlocks
  <2> QED
    BY <1>1, <2>1, <2>2 DEF ControlBlocks
<1>3. \A s \in Streams : Len(tcb[s].rcvbuf) <= Len(tcb'[s].rcvbuf)
  <2> SUFFICES ASSUME NEW s \in Streams PROVE Len(tcb[s].rcvbuf) <= Len(tcb'[s].rcvbuf)
    OBVIOUS
  <2> QED
    BY <1>2
<1>4. SameList
  BY <1>1, <1>2, <1>3 DEF SameList, Half
<1> QED
  BY <1>1, <1>4, SeqKept DEF Alike

\* A client asks for a connection: those before it have been closed.
LEMMA ListenSeq ==
  ASSUME StackInv, StackInv', SequentialInv, ~plan.together,
         NEW c \in Clients, ng_tcp_handle_listen(c)
  PROVE  SequentialInv'
<1> DEFINE seg == Head(toServer[c])
           s   == FreshTcb
           r   == [Blank EXCEPT !.peer = c, !.status = "SYN_RCVD", !.rcv_nxt = seg.seq + 1,
                                !.sndbuf = <<Segment({"SYN", "ACK"}, 0, seg.seq + 1, 0)>>]
<1>1. Arriving(c, "LISTEN") /\ UNCHANGED <<rdlist, items, app, peer, plan>>
  BY DEF ng_tcp_handle_listen, clients
<1>2. /\ toServer[c] # <<>> /\ toServer[c] \in Seq(Segments) /\ \A u \in Streams : tcb[u].peer # c
  BY <1>1, Arrives
<1>3. Typed /\ ListOk(tcb_set, tcb) /\ tcb_set \in Seq(Streams) /\ tcb \in [Streams -> ControlBlocks]
      /\ OneByOne(tcb_set, tcb, peer, app)
  BY DEF StackInv, Typed, SequentialInv
<1>4. CASE "SYN" \notin seg.flags
  <2>1. UNCHANGED <<tcb_set, tcb>>
    BY <1>4 DEF ng_tcp_handle_listen
  <2>2. SameList
    BY <1>1, <1>3, <2>1, ListSame
  <2> QED
    BY <1>1, <2>2, SeqKept DEF Alike
<1>5. CASE "SYN" \in seg.flags
  <2>1. tcb_set' = <<s>> \o tcb_set /\ tcb' = [tcb EXCEPT ![s] = r]
    BY <1>5 DEF ng_tcp_handle_listen
  <2>2. s \in Streams \ {LISTENER} /\ s \notin ToSet(tcb_set)
    BY <1>2, <1>3, FreeStream
  <2> HIDE DEF s, r
  <2>3. peer[c].st = "syn_sent"
    <3>1. 1 \in DOMAIN toServer[c] /\ seg = toServer[c][1]
      BY <1>2, TailFacts
    <3> QED
      BY <1>5, <3>1 DEF StackInv, Talks, Talk, Wire
  <2>4. ASSUME NEW u \in Streams \ {LISTENER}, u \in ToSet(tcb_set)
        PROVE  tcb[u].status = "LAST_ACK" \/ Half(tcb[u], app)
    <3>1. tcb[u].peer \in Clients /\ tcb[u].status \in Connected
      BY <1>3, <2>4 DEF ListOk
    <3> DEFINE d == tcb[u].peer
    <3>2. ~Busy(peer[d])
      BY <1>2, <1>3, <2>3, <3>1 DEF OneByOne, Busy
    <3>3. Block(tcb, d) = tcb[u]
      BY <1>3, <3>1, BlockIs
    <3>4. Wire(peer[d], toServer[d], Pipe(d), Now(Block(tcb, d), core, app))
      BY <3>1 DEF StackInv, Talks, Talk
    <3>5. Now(tcb[u], core, app).status \in {"LAST_ACK", "CLOSED"}
      BY <3>2, <3>3, <3>4 DEF Wire, Busy
    <3>6. Now(tcb[u], core, app).status = (IF Half(tcb[u], app) THEN "LAST_ACK" ELSE tcb[u].status)
      <4>1. tcb[u] \in ControlBlocks /\ core \in Cores
        BY <1>3 DEF Typed
      <4> QED
        BY <4>1, NowFacts
    <3> QED
      BY <3>1, <3>5, <3>6 DEF Connected, Serving
  <2> DEFINE q == tcb_set
             q2 == <<s>> \o q
  <2>5. /\ q2[1] = s /\ DOMAIN q2 = 1..(Len(q) + 1)
        /\ \A i \in 1..(Len(q) + 1) : i # 1 => i - 1 \in DOMAIN q /\ q2[i] = q[i - 1]
    BY <1>3, <2>2, ConsFacts
  <2>6. tcb_set' = q2
    BY <2>1
  <2> HIDE DEF q2
  <2>7. OneByOne(tcb_set', tcb', peer', app')
    <3>1. ASSUME NEW i \in DOMAIN q2, i > 1, q2[i] # LISTENER
          PROVE  tcb'[q2[i]].status = "LAST_ACK" \/ Half(tcb'[q2[i]], app)
      <4>1. q2[i] = q[i - 1] /\ i - 1 \in DOMAIN q
        BY <2>5, <3>1
      <4>2. q2[i] \in Streams /\ q2[i] \in ToSet(tcb_set)
        BY <1>3, <4>1, ElementOfSeq DEF ToSet
      <4>3. tcb'[q2[i]] = tcb[q2[i]]
        BY <1>3, <2>1, <2>2, <4>2
      <4> QED
        BY <2>4, <3>1, <4>2, <4>3
    <3>2. peer' = peer /\ app' = app
      BY <1>1
    <3> QED
      BY <1>3, <2>6, <3>1, <3>2 DEF OneByOne
  <2>8. ASSUME plan.mode = "epoll" PROVE EventsOk(tcb'[tcb_set'[1]], app', rdlist', items')
    <3>1. tcb[tcb_set[1]].status \in {"LAST_ACK", "LISTEN"} \/ app.pc = "closing"
      <4>1. tcb_set[1] \in Streams /\ tcb_set[1] \in ToSet(tcb_set)
        BY <1>3, FirstBlock DEF ToSet
      <4>2. tcb[LISTENER].status = "LISTEN"
        BY <1>3 DEF ListOk, Blank
      <4>3. tcb_set[1] # LISTENER => tcb[tcb_set[1]].status = "LAST_ACK" \/ app.pc = "closing"
        BY <2>4, <4>1 DEF Half
      <4> QED
        BY <4>2, <4>3
    <3> DEFINE b == tcb[tcb_set[1]]
               b2 == tcb'[tcb_set'[1]]
               a == app
               e == rdlist
               it == items
    <3>2. EventsOk(b, a, e, it) /\ (b.status \in {"LAST_ACK", "LISTEN"} \/ a.pc = "closing")
      BY <2>8, <3>1 DEF SequentialInv
    <3> HIDE DEF b, b2, a, e, it
    <3>3. EventsOk(b2, a, e, it)
      BY <3>2, EventsIdle
    <3> QED
      BY <1>1, <3>3 DEF b2, a, e, it
  <2> QED
    BY <1>1, <2>7, <2>8 DEF SequentialInv
<1> QED
  BY <1>4, <1>5

\* A connection is established: an event for the listener.
LEMMA RcvdSeq ==
  ASSUME StackInv, StackInv', SequentialInv, ~plan.together,
         NEW c \in Clients, ng_tcp_handle_syn_rcvd(c)
  PROVE  SequentialInv'
<1> DEFINE s == ng_tcp_stream_search(c)
           t == tcb[s]
           r == [t EXCEPT !.status = "ESTABLISHED"]
<1>1. /\ Arriving(c, "SYN_RCVD") /\ tcb' = [tcb EXCEPT ![s] = r]
      /\ app' = Signalled(LISTENER, [accept_wait |-> "accept"])
      /\ epoll_event_callback(LISTENFD) /\ UNCHANGED <<tcb_set, items, peer, plan>>
  BY DEF ng_tcp_handle_syn_rcvd, clients
<1>2. s \in Streams /\ t \in ControlBlocks /\ t.status = "SYN_RCVD" /\ Typed
  BY <1>1, Arrives DEF StackInv
<1> HIDE DEF s
<1>3. /\ r.fd = t.fd /\ r.rcvbuf = t.rcvbuf /\ r.status = "ESTABLISHED" /\ Len(r.rcvbuf) \in Nat
  <2>1. t.rcvbuf \in Seq(Nat)
    BY <1>2 DEF ControlBlocks
  <2> QED
    BY <1>2, <2>1 DEF ControlBlocks
<1> HIDE DEF r
<1>4. tcb'[s] = r /\ \A u \in Streams \ {s} : tcb'[u] = tcb[u]
  BY <1>1, <1>2 DEF Typed
<1>6. /\ app'.ready = app.ready /\ app'.fd = app.fd /\ Alike(app.pc, app'.pc)
      /\ app.pc = "closing" => app'.pc = "closing"
  BY <1>1, <1>2, SignalledAlike
<1>5. SameList
  BY <1>1, <1>2, <1>3, <1>4, <1>6, ListKept
<1> QED
  BY <1>1, <1>5, <1>6, SeqTold

\* A fragment is put in the ring: an event for its descriptor.
LEMMA EstablishedSeq ==
  ASSUME StackInv, StackInv', SequentialInv, ~plan.together,
         NEW c \in Clients, ng_tcp_handle_established(c)
  PROVE  SequentialInv'
<1> DEFINE s   == ng_tcp_stream_search(c)
           t   == tcb[s]
           seg == Head(toServer[c])
           psh == "PSH" \in seg.flags
           fin == "FIN" \in seg.flags
           r   == Enqueued(t, seg)
<1>1. Arriving(c, "ESTABLISHED") /\ UNCHANGED <<tcb_set, items, peer, plan>>
  BY DEF ng_tcp_handle_established, clients
<1>2. /\ s \in Streams \ {LISTENER} /\ s \in ToSet(tcb_set) /\ t \in ControlBlocks
      /\ t.status = "ESTABLISHED" /\ seg \in Segments /\ Typed /\ ListOk(tcb_set, tcb)
      /\ OneByOne(tcb_set, tcb, peer, app) /\ tcb_set \in Seq(Streams)
  BY <1>1, Arrives DEF StackInv, SequentialInv, Typed
<1>3. s = tcb_set[1]
  <2> HIDE DEF s
  <2>1. ~Half(tcb[s], app)
    BY <1>2 DEF Half
  <2> QED
    BY <1>2, <2>1, AtHead
<1>4. CASE ~(psh \/ fin)
  <2>1. UNCHANGED <<tcb, app, rdlist>>
    BY <1>4 DEF ng_tcp_handle_established
  <2>2. SameList
    BY <1>1, <1>2, <2>1, ListSame
  <2> QED
    BY <1>1, <2>1, <2>2, SeqKept DEF Alike
<1>5. CASE psh \/ fin
  <2>1. /\ tcb' = [tcb EXCEPT ![s] = r]
        /\ app' = Signalled(s, [recv_wait |-> "recv"]) /\ epoll_event_callback(t.fd)
    BY <1>5 DEF ng_tcp_handle_established
  <2> HIDE DEF s
  <2> DEFINE u == IF psh THEN seg.data ELSE 0
  <2>2. u \in Nat
    BY <1>2 DEF Segments
  <2> HIDE DEF u
  <2>3. /\ Append(t.rcvbuf, u) \in Seq(Nat) /\ Len(t.rcvbuf) \in Nat
        /\ Len(Append(t.rcvbuf, u)) = Len(t.rcvbuf) + 1
    <3>1. t.rcvbuf \in Seq(Nat)
      BY <1>2 DEF ControlBlocks
    <3> QED
      BY <2>2, <3>1, AppendFacts
  <2>4. r.fd = t.fd /\ r.rcvbuf = Append(t.rcvbuf, u) /\ r.status \in {"ESTABLISHED", "CLOSE_WAIT"}
    BY <1>2 DEF ControlBlocks, Enqueued, u
  <2> HIDE DEF r
  <2>5. tcb'[s] = r /\ \A v \in Streams \ {s} : tcb'[v] = tcb[v]
    BY <1>2, <2>1 DEF Typed
  <2>6. Len(tcb[s].rcvbuf) + 1 <= Len(tcb'[s].rcvbuf) /\ Len(tcb'[s].rcvbuf) \in Nat
    BY <2>3, <2>4, <2>5
  <2>8. /\ app'.ready = app.ready /\ app'.fd = app.fd /\ Alike(app.pc, app'.pc)
        /\ app.pc = "closing" => app'.pc = "closing"
    BY <1>2, <2>1, SignalledAlike
  <2>7. SameList
    BY <1>1, <1>2, <2>4, <2>5, <2>6, <2>8, ListKept
  <2> QED
    BY <1>1, <1>3, <2>1, <2>6, <2>7, <2>8, SeqTold
<1> QED
  BY <1>4, <1>5

\* The numbers follow: nothing that the order or the events depend on.
LEMMA NumbersSeq ==
  ASSUME StackInv, StackInv', SequentialInv, ~plan.together, established_numbers
  PROVE  SequentialInv'
<1> DEFINE s == ng_tcp_stream_search(core.of)
           t == tcb[s]
           r == Numbered(t, core.ack)
<1>1. /\ core # Idle /\ tcb' = [tcb EXCEPT ![s] = r]
      /\ UNCHANGED <<tcb_set, rdlist, items, app, peer, plan>>
  BY DEF established_numbers, clients
<1>2. s \in Streams /\ t \in ControlBlocks /\ Typed /\ tcb \in [Streams -> ControlBlocks]
  BY <1>1, Numbering DEF StackInv, Typed
<1> HIDE DEF s
<1>3. r.fd = t.fd /\ r.status = t.status /\ r.rcvbuf = t.rcvbuf
  BY <1>2 DEF ControlBlocks, Numbered
<1>4. Len(r.rcvbuf) \in Nat
  <2>1. t.rcvbuf \in Seq(Nat)
    BY <1>2 DEF ControlBlocks
  <2> QED
    BY <1>3, <2>1
<1> HIDE DEF r
<1>5. tcb'[s] = r /\ \A u \in Streams \ {s} : tcb'[u] = tcb[u]
  BY <1>1, <1>2
<1>6. SameList
  BY <1>1, <1>2, <1>3, <1>4, <1>5, ListKept
<1> QED
  BY <1>1, <1>6, SeqKept DEF Alike

\* What comes after the end is dropped.
LEMMA CloseWaitSeq ==
  ASSUME StackInv, StackInv', SequentialInv, ~plan.together,
         NEW c \in Clients, ng_tcp_handle_close_wait(c)
  PROVE  SequentialInv'
<1>1. UNCHANGED <<tcb_set, tcb, rdlist, items, app, peer, plan>> /\ Typed
  BY DEF ng_tcp_handle_close_wait, clients, StackInv
<1>2. SameList
  BY <1>1, ListSame
<1> QED
  BY <1>1, <1>2, SeqKept DEF Alike

\* A closed connection leaves the list.
LEMMA LastAckSeq ==
  ASSUME StackInv, StackInv', SequentialInv, ~plan.together,
         NEW c \in Clients, ng_tcp_handle_last_ack(c)
  PROVE  SequentialInv'
<1> DEFINE s == ng_tcp_stream_search(c)
           n == CHOOSE i \in DOMAIN tcb_set : tcb_set[i] = s
           q == tcb_set
           q2 == RemoveAt(q, n)
<1>1. /\ Arriving(c, "LAST_ACK") /\ tcb_set' = q2 /\ tcb' = [tcb EXCEPT ![s] = Blank]
      /\ UNCHANGED <<rdlist, items, app, peer, plan>>
  BY DEF ng_tcp_handle_last_ack, clients
<1>2. /\ s \in Streams \ {LISTENER} /\ s \in ToSet(q) /\ tcb[s].status = "LAST_ACK"
      /\ Typed /\ ListOk(q, tcb) /\ q \in Seq(Streams) /\ tcb \in [Streams -> ControlBlocks]
      /\ OneByOne(q, tcb, peer, app) /\ \A i, j \in DOMAIN q : q[i] = q[j] => i = j
  BY <1>1, Arrives DEF StackInv, SequentialInv, Typed, ListOk
<1>3. n \in DOMAIN q /\ q[n] = s
  BY <1>2 DEF ToSet
<1> HIDE DEF s, n
<1>4. /\ q2 \in Seq(Streams) /\ ToSet(q2) = ToSet(q) \ {s}
      /\ DOMAIN q2 = 1..(Len(q) - 1) /\ DOMAIN q = 1..Len(q) /\ Len(q) \in Nat
      /\ \A i \in DOMAIN q2 : q2[i] = IF i < n THEN q[i] ELSE q[i + 1]
  <2> HIDE DEF q
  <2> DEFINE q3 == RemoveAt(q, n)
  <2>1. q3 = RemoveAt(q, n)
    OBVIOUS
  <2> HIDE DEF q3
  <2>2. /\ q3 \in Seq(Streams) /\ ToSet(q3) = ToSet(q) \ {q[n]}
        /\ DOMAIN q3 = 1..(Len(q) - 1) /\ DOMAIN q = 1..Len(q) /\ Len(q) \in Nat
        /\ \A i \in DOMAIN q3 : q3[i] = IF i < n THEN q[i] ELSE q[i + 1]
    BY <1>2, <1>3, <2>1, WithoutOne
  <2> QED
    BY <1>3, <2>1, <2>2
<1> HIDE DEF q2
<1>5. \A u \in Streams \ {s} : tcb'[u] = tcb[u]
  BY <1>1, <1>2
<1>6. \A i \in DOMAIN q2 : q2[i] \in Streams \ {s}
  <2>1. \A i \in DOMAIN q2 : q2[i] \in Streams
    BY <1>4, ElementOfSeq
  <2>2. \A i \in DOMAIN q2 : q2[i] \in ToSet(q2)
    BY DEF ToSet
  <2> QED
    BY <1>4, <2>1, <2>2
<1>7. OneByOne(tcb_set', tcb', peer', app')
  <2>1. ASSUME NEW i \in DOMAIN q2, i > 1, q2[i] # LISTENER
        PROVE  tcb'[q2[i]].status = "LAST_ACK" \/ Half(tcb'[q2[i]], app)
    <3>1. i \in DOMAIN q /\ i + 1 \in DOMAIN q /\ i + 1 > 1
      BY <1>4, <2>1
    <3>2. tcb[q2[i]].status = "LAST_ACK" \/ Half(tcb[q2[i]], app)
      BY <1>2, <1>4, <2>1, <3>1 DEF OneByOne
    <3> QED
      BY <1>5, <1>6, <3>2
  <2> QED
    BY <1>1, <1>2, <2>1 DEF OneByOne
<1>8. ASSUME plan.mode = "epoll" PROVE EventsOk(tcb'[tcb_set'[1]], app', rdlist', items')
  <2>1. EventsOk(tcb[q[1]], app, rdlist, items)
    BY <1>8 DEF SequentialInv
  <2>2. CASE n = 1
    <3> DEFINE b == tcb[q[1]]
               b2 == tcb'[tcb_set'[1]]
               a == app
               e == rdlist
               it == items
    <3>1. EventsOk(b, a, e, it) /\ b.status \in {"LAST_ACK", "LISTEN"}
      BY <1>2, <1>3, <2>1, <2>2
    <3> HIDE DEF b, b2, a, e, it
    <3>2. EventsOk(b2, a, e, it)
      BY <3>1, EventsIdle
    <3> QED
      BY <1>1, <3>2 DEF b2, a, e, it
  <2>3. CASE n # 1
    <3>1. 1 \in DOMAIN q2 /\ 1 < n
      BY <1>3, <1>4, <2>3
    <3>2. q2[1] = q[1]
      BY <1>4, <3>1
    <3>3. tcb'[q2[1]] = tcb[q[1]]
      BY <1>5, <1>6, <3>1, <3>2
    <3> QED
      BY <1>1, <2>1, <3>3
  <2> QED
    BY <2>2, <2>3
<1> QED
  BY <1>1, <1>7, <1>8 DEF SequentialInv

\* What an event is worth: nothing where it is not.
LEMMA OnceFacts ==
  ASSUME NEW fd, NEW q
  PROVE  /\ Once(fd, q) \in Nat /\ Once(fd, q) <= 1
         /\ fd \notin ToSet(q) <=> Once(fd, q) = 0
         /\ fd \in ToSet(q) <=> Once(fd, q) = 1
BY DEF Once

\* naccept: the listener's event is used, and the new number is not registered yet.
LEMMA EventTaken ==
  ASSUME NEW b, NEW b2, NEW a, NEW a2, NEW r, NEW it, it \subseteq Fds, EventsOk(b, a, r, it),
         b.fd = -1, a.pc = "accept", a2.pc = "add", a2.ready = a.ready,
         a.ready \in Seq(Fds), a.ready # <<>>, Serves(b2, a2.fd)
  PROVE  EventsOk(b2, a2, r, it)
<1>1. ToSet(a.ready) = {a.ready[1]} \cup ToSet(Tail(a.ready))
  <2> DEFINE q == a.ready
  <2>1. q \in Seq(Fds) /\ q # <<>>
    OBVIOUS
  <2> HIDE DEF q
  <2>2. ToSet(q) = {q[1]} \cup ToSet(Tail(q))
    BY <2>1, TailSet
  <2> QED
    BY <2>2 DEF q
<1>2. PendingOf(a) = a.ready /\ PendingOf(a2) = Tail(a.ready)
  BY DEF PendingOf
<1>3. -1 \notin Fds
  BY ClientCount DEF Fds
<1>4. it = {LISTENFD}
  BY <1>3 DEF EventsOk, Serves
<1> QED
  BY <1>1, <1>2, <1>4 DEF EventsOk

\* nrecv: the event is used and the fragment taken.
LEMMA EventRead ==
  ASSUME NEW b, NEW b2, NEW a, NEW a2, NEW r, NEW it, EventsOk(b, a, r, it),
         b2.fd = b.fd, b2.status = b.status,
         Len(b.rcvbuf) \in Nat, Len(b2.rcvbuf) = Len(b.rcvbuf) - 1,
         a.pc = "recv", a2.pc \in {"send", "close"}, a2.ready = a.ready, a2.fd = a.fd,
         a.ready \in Seq(Fds), a.ready # <<>>
  PROVE  EventsOk(b2, a2, r, it)
<1>1. /\ ToSet(a.ready) = {a.ready[1]} \cup ToSet(Tail(a.ready))
      /\ Distinct(a.ready) => a.ready[1] \notin ToSet(Tail(a.ready))
  <2> DEFINE q == a.ready
  <2>1. q \in Seq(Fds) /\ q # <<>>
    OBVIOUS
  <2> HIDE DEF q
  <2>2. ToSet(q) = {q[1]} \cup ToSet(Tail(q)) /\ (Distinct(q) => q[1] \notin ToSet(Tail(q)))
    BY <2>1, TailSet
  <2> QED
    BY <2>2 DEF q
<1>2. PendingOf(a) = a.ready /\ PendingOf(a2) = Tail(a.ready)
  BY DEF PendingOf
<1>3. Distinct(a.ready) /\ a.fd = a.ready[1] /\ a.fd # LISTENFD /\ a.fd \in it
  BY DEF EventsOk
<1>4. ASSUME NEW fd \in it \ {LISTENFD}
      PROVE  Serves(b2, fd) /\ Once(fd, r) + Once(fd, PendingOf(a2)) <= Len(b2.rcvbuf)
  <2>1. Serves(b, fd) /\ Serves(b, a.fd) /\ Once(fd, r) + Once(fd, PendingOf(a)) <= Len(b.rcvbuf)
    BY <1>3 DEF EventsOk
  <2>2. fd = a.ready[1]
    BY <1>3, <2>1 DEF Serves
  <2>3. Once(fd, PendingOf(a)) = 1 /\ Once(fd, PendingOf(a2)) = 0
    BY <1>1, <1>2, <1>3, <2>2 DEF Once
  <2> DEFINE m == Once(fd, r)
             k == Len(b.rcvbuf)
             k2 == Len(b2.rcvbuf)
  <2>4. m \in Nat /\ k \in Nat /\ k2 = k - 1 /\ m + 1 <= k
    BY <2>1, <2>3, OnceFacts
  <2> HIDE DEF m, k, k2
  <2>5. m + 0 <= k2
    BY <2>4
  <2> QED
    BY <2>1, <2>3, <2>5 DEF m, k2, Serves
<1> QED
  BY <1>1, <1>2, <1>3, <1>4 DEF EventsOk

\* nclose_fin: a connection whose ring is empty has no event, and its number is taken out.
LEMMA EventClosed ==
  ASSUME NEW b, NEW b2, NEW a, NEW a2, NEW r, NEW it, EventsOk(b, a, r, it),
         b.rcvbuf = <<>>, a.pc = "close", a2.pc = "closing", a2.ready = a.ready
  PROVE  EventsOk(b2, a2, r, it \ {a.fd})
<1>1. PendingOf(a) = Tail(a.ready) /\ PendingOf(a2) = Tail(a.ready)
  BY DEF PendingOf
<1>2. a.fd # LISTENFD /\ a.fd \in it
  BY DEF EventsOk
<1>3. \A fd \in it \ {LISTENFD} : fd = a.fd
  BY <1>2 DEF EventsOk, Serves
<1>4. a.fd \notin ToSet(r) /\ a.fd \notin ToSet(PendingOf(a))
  <2> DEFINE m == Once(a.fd, r)
             n == Once(a.fd, PendingOf(a))
  <2>1. m + n <= 0
    <3>1. Once(a.fd, r) + Once(a.fd, PendingOf(a)) <= Len(b.rcvbuf)
      BY <1>2 DEF EventsOk
    <3>2. Len(b.rcvbuf) = 0
      OBVIOUS
    <3> QED
      BY <3>1, <3>2
  <2>2. m \in Nat /\ n \in Nat
    BY OnceFacts
  <2> HIDE DEF m, n
  <2>3. m = 0 /\ n = 0
    BY <2>1, <2>2
  <2> QED
    BY <2>3, OnceFacts DEF m, n
<1>5. it \ {a.fd} = {LISTENFD}
  BY <1>2, <1>3 DEF EventsOk
<1>6. ToSet(r) \cup ToSet(PendingOf(a)) \subseteq it \ {a.fd}
  BY <1>4 DEF EventsOk
<1> QED
  BY <1>1, <1>5, <1>6 DEF EventsOk

\* nclose_end: nothing but the listener is registered.
LEMMA EventEnded ==
  ASSUME NEW b, NEW b2, NEW a, NEW a2, NEW r, NEW it, EventsOk(b, a, r, it),
         a.pc = "closing", a2.pc = "next", a2.ready = a.ready
  PROVE  EventsOk(b2, a2, r, it)
<1>1. PendingOf(a) = Tail(a.ready) /\ PendingOf(a2) = Tail(a.ready)
  BY DEF PendingOf
<1>2. it = {LISTENFD}
  BY DEF EventsOk
<1> QED
  BY <1>1, <1>2 DEF EventsOk

\* nepoll_ctl_add: a number that no event names yet.
LEMMA EventRegistered ==
  ASSUME NEW b, NEW a, NEW a2, NEW r, NEW it, EventsOk(b, a, r, it),
         Len(b.rcvbuf) \in Nat, a.pc = "add", a2.pc = "next", a2.ready = a.ready
  PROVE  EventsOk(b, a2, r, it \cup {a.fd})
<1>1. PendingOf(a2) = PendingOf(a)
  BY DEF PendingOf
<1>2. it = {LISTENFD} /\ Serves(b, a.fd) /\ ToSet(r) \cup ToSet(PendingOf(a)) \subseteq it
  BY DEF EventsOk
<1>3. ASSUME NEW fd \in (it \cup {a.fd}) \ {LISTENFD}
      PROVE  Serves(b, fd) /\ Once(fd, r) + Once(fd, PendingOf(a2)) <= Len(b.rcvbuf)
  <2>1. fd = a.fd /\ fd \notin ToSet(r) /\ fd \notin ToSet(PendingOf(a2))
    BY <1>1, <1>2
  <2>2. Once(fd, r) = 0 /\ Once(fd, PendingOf(a2)) = 0
    BY <2>1, OnceFacts
  <2>3. Once(fd, r) + Once(fd, PendingOf(a2)) <= Len(b.rcvbuf)
    BY <2>2
  <2> QED
    BY <1>2, <2>1, <2>3
<1> QED
  BY <1>1, <1>2, <1>3 DEF EventsOk

\* nepoll_wait: the ready list goes into the server's hands.
LEMMA EventsReported ==
  ASSUME NEW b, NEW a, NEW a2, NEW r, NEW it, EventsOk(b, a, r, it),
         a.pc = "wait", a2.pc = "event", a2.ready = r
  PROVE  EventsOk(b, a2, <<>>, it)
<1>1. PendingOf(a) = <<>> /\ PendingOf(a2) = r
  BY DEF PendingOf
<1>2. ToSet(<<>>) = {} /\ Distinct(<<>>)
  BY DEF ToSet, Distinct
<1>3. ASSUME NEW fd \in it \ {LISTENFD}
      PROVE  Serves(b, fd) /\ Once(fd, <<>>) + Once(fd, PendingOf(a2)) <= Len(b.rcvbuf)
  <2>1. Serves(b, fd) /\ Once(fd, r) + Once(fd, <<>>) <= Len(b.rcvbuf)
    BY <1>1 DEF EventsOk
  <2>2. Once(fd, <<>>) = 0 /\ Once(fd, r) \in Nat
    BY <1>2, OnceFacts
  <2>3. Once(fd, <<>>) + Once(fd, r) = Once(fd, r) + Once(fd, <<>>)
    BY <2>2
  <2> QED
    BY <1>1, <2>1, <2>3
<1> QED
  BY <1>1, <1>2, <1>3 DEF EventsOk

\* The loop looks at the next event.
LEMMA EventLooked ==
  ASSUME NEW b, NEW a, NEW a2, NEW r, NEW it, EventsOk(b, a, r, it),
         a.pc = "event", a2.ready = a.ready, a.ready \in Seq(Fds), a.ready # <<>>,
         a2.fd = Head(a.ready), a2.pc = IF Head(a.ready) = LISTENFD THEN "accept" ELSE "recv"
  PROVE  EventsOk(b, a2, r, it)
<1>1. PendingOf(a2) = a.ready /\ PendingOf(a) = a.ready
  BY DEF PendingOf
<1>2. Head(a.ready) = a.ready[1] /\ a.ready[1] \in ToSet(a.ready)
  <2> DEFINE q == a.ready
  <2>1. q \in Seq(Fds) /\ q # <<>>
    OBVIOUS
  <2> HIDE DEF q
  <2>2. Head(q) = q[1] /\ q[1] \in ToSet(q)
    BY <2>1, TailSet
  <2> QED
    BY <2>2 DEF q
<1>3. a.ready[1] \in it
  BY <1>1, <1>2 DEF EventsOk
<1> QED
  BY <1>1, <1>2, <1>3 DEF EventsOk

\* The loop goes on to the one after it.
LEMMA EventDone ==
  ASSUME NEW b, NEW a, NEW a2, NEW r, NEW it, EventsOk(b, a, r, it),
         a.pc = "next", a.ready \in Seq(Fds), a.ready # <<>>, a2.ready = Tail(a.ready),
         a2.pc \in {"wait", "event"}, a2.pc = "wait" <=> a2.ready = <<>>
  PROVE  EventsOk(b, a2, r, it)
<1>1. PendingOf(a2) = Tail(a.ready) /\ PendingOf(a) = Tail(a.ready)
  BY DEF PendingOf
<1>2. Distinct(a.ready) => Distinct(Tail(a.ready))
  <2> DEFINE q == a.ready
  <2>1. q \in Seq(Fds) /\ q # <<>>
    OBVIOUS
  <2> HIDE DEF q
  <2>2. Distinct(q) => Distinct(Tail(q))
    BY <2>1, TailSet
  <2> QED
    BY <2>2 DEF q
<1> QED
  BY <1>1, <1>2 DEF EventsOk

\* What a call of the server leaves of the rest.
LEMMA ServerSeq ==
  ASSUME StackInv, SequentialInv, ~plan.together, UNCHANGED <<tcb_set, peer, plan>>,
         \A u \in Streams : tcb[u].status = "LAST_ACK" \/ Half(tcb[u], app) =>
           tcb'[u].status = "LAST_ACK" \/ Half(tcb'[u], app'),
         plan.mode = "epoll" => EventsOk(tcb'[tcb_set[1]], app', rdlist', items')
  PROVE  SequentialInv'
<1>1. \A i \in DOMAIN tcb_set : tcb_set[i] \in Streams
  BY ElementOfSeq DEF StackInv, Typed
<1>2. OneByOne(tcb_set, tcb, peer, app)
  BY DEF SequentialInv
<1>3. OneByOne(tcb_set', tcb', peer', app')
  BY <1>1, <1>2 DEF OneByOne
<1> QED
  BY <1>3 DEF SequentialInv

\* In epoll mode the server has events in hand while it does not wait for them.
LEMMA InHands ==
  ASSUME StackInv, plan.mode = "epoll", app.pc # "wait"
  PROVE  app.ready \in Seq(Fds) /\ app.ready # <<>>
BY DEF StackInv, Typed, Servers, LoopOk

\* The number the server works on is the first's.
LEMMA FirstHost ==
  ASSUME StackInv, SequentialInv, ~plan.together, plan.mode = "epoll",
         NEW fd \in items \ {LISTENFD}
  PROVE  Host(tcb_set, tcb, fd) = tcb_set[1] /\ tcb[tcb_set[1]].fd = fd
<1>1. Serves(tcb[tcb_set[1]], fd)
  BY DEF SequentialInv, EventsOk
<1>2. 1 \in DOMAIN tcb_set /\ tcb_set \in Seq(Streams)
  BY FirstBlock DEF StackInv, Typed
<1>3. tcb[tcb_set[1]].fd = fd
  BY <1>1 DEF Serves
<1>4. \A j \in 1..(1 - 1) : tcb[tcb_set[j]].fd # fd
  OBVIOUS
<1>5. Host(tcb_set, tcb, fd) = tcb_set[1]
  BY <1>2, <1>3, <1>4, HostFound
<1> QED
  BY <1>3, <1>5

\* naccept
LEMMA AcceptSeq ==
  ASSUME StackInv, StackInv', SequentialInv, ~plan.together, naccept
  PROVE  SequentialInv'
<1>1. app.pc = "accept" /\ UNCHANGED <<tcb_set, rdlist, items, peer, plan>>
  BY DEF naccept, At, clients
<1>2. /\ Typed /\ ListOk(tcb_set, tcb) /\ app \in Servers /\ tcb \in [Streams -> ControlBlocks]
      /\ items \subseteq Fds /\ tcb_set \in Seq(Streams) /\ BitmapOk(tcb, fd_table, plan.mode = "epoll")
      /\ OneByOne(tcb_set, tcb, peer, app)
  BY DEF StackInv, Typed, SequentialInv
<1>3. CASE get_accept_tcb = NONE
  <2>1. app' = [app EXCEPT !.pc = "accept_wait", !.on = LISTENER] /\ tcb' = tcb
    BY <1>3 DEF naccept
  <2>2. app'.ready = app.ready /\ app'.fd = app.fd /\ app'.pc = "accept_wait"
    BY <1>2, <2>1 DEF Servers
  <2>3. SameList
    BY <1>1, <1>2, <2>1, ListSame
  <2> QED
    BY <1>1, <2>2, <2>3, SeqKept DEF Alike
<1>4. CASE get_accept_tcb # NONE
  <2> DEFINE s == get_accept_tcb
             n == get_fd_frombitmap
             t == tcb[s]
             r == [t EXCEPT !.fd = n]
  <2>1. /\ tcb' = [tcb EXCEPT ![s] = r]
        /\ app' = [app EXCEPT !.fd = n, !.pc = IF plan.mode = "once" THEN "recv" ELSE "add"]
    BY <1>4 DEF naccept
  <2>2. PICK i \in DOMAIN tcb_set : s = tcb_set[i] /\ tcb[s].fd = -1
    <3>1. s = Host(tcb_set, tcb, -1) /\ s # NONE /\ tcb_set \in Seq(Streams)
      BY <1>2, <1>4, LookUps DEF Typed
    <3> HIDE DEF s
    <3> QED
      BY <3>1, Hosted
  <2>3. s \in Streams /\ s \in ToSet(tcb_set) /\ t \in ControlBlocks
    BY <1>2, <2>2 DEF Typed, ToSet
  <2> HIDE DEF s, n
  <2>4. s # LISTENER
    <3>1. tcb[LISTENER].fd = 3
      BY <1>2 DEF ListOk, Blank, LISTENFD
    <3>2. 3 # -1
      OBVIOUS
    <3> QED
      BY <2>2, <3>1, <3>2
  <2>5. t.status \in Connected /\ t.status # "LAST_ACK"
    BY <1>2, <2>2, <2>3, <2>4 DEF ListOk, BitmapOk
  <2>6. s = tcb_set[1]
    <3>1. ~Half(tcb[s], app)
      BY <1>1 DEF Half
    <3> QED
      BY <1>2, <2>3, <2>4, <2>5, <3>1, AtHead
  <2>7. r.status = t.status /\ r.fd = n
    BY <2>3 DEF ControlBlocks
  <2> HIDE DEF r
  <2>8. tcb'[s] = r /\ \A u \in Streams \ {s} : tcb'[u] = tcb[u]
    BY <1>2, <2>1, <2>3
  <2>9. ASSUME plan.mode = "epoll" PROVE EventsOk(tcb'[tcb_set[1]], app', rdlist', items')
    <3>1. app'.fd = n /\ app'.pc = "add" /\ app'.ready = app.ready
      BY <1>2, <2>1, <2>9 DEF Servers
    <3>2. app.ready \in Seq(Fds) /\ app.ready # <<>>
      BY <1>1, <2>9, InHands
    <3>3. Serves(r, n)
      BY <2>5, <2>7 DEF Serves, Connected, Serving
    <3>4. EventsOk(t, app, rdlist, items)
      BY <2>6, <2>9 DEF SequentialInv
    <3> DEFINE a == app
               a2 == app'
               e == rdlist
               it == items
    <3>5. /\ EventsOk(t, a, e, it) /\ it \subseteq Fds /\ t.fd = -1 /\ a.pc = "accept" /\ a2.pc = "add"
          /\ a2.ready = a.ready /\ a.ready \in Seq(Fds) /\ a.ready # <<>> /\ Serves(r, a2.fd)
      BY <1>1, <1>2, <2>2, <3>1, <3>2, <3>3, <3>4
    <3> HIDE DEF a, a2, e, it, t
    <3>6. EventsOk(r, a2, e, it)
      BY <3>5, EventTaken
    <3> QED
      BY <1>1, <2>6, <2>8, <3>6 DEF a2, e, it
  <2>10. \A u \in Streams : tcb[u].status = "LAST_ACK" \/ Half(tcb[u], app) =>
           tcb'[u].status = "LAST_ACK" \/ Half(tcb'[u], app')
    BY <1>1, <2>7, <2>8 DEF Half
  <2> QED
    BY <1>1, <2>9, <2>10, ServerSeq
<1> QED
  BY <1>3, <1>4

\* nrecv
LEMMA RecvSeq ==
  ASSUME StackInv, StackInv', SequentialInv, ~plan.together, nrecv
  PROVE  SequentialInv'
<1> DEFINE s == get_hostinfo_fromfd(app.fd)
           t == tcb[s]
           u == Head(t.rcvbuf)
           r == [t EXCEPT !.rcvbuf = Tail(@)]
<1>1. app.pc = "recv" /\ s # NONE /\ UNCHANGED <<tcb_set, rdlist, items, peer, plan>>
  BY DEF nrecv, At, clients
<1>2. /\ Typed /\ ListOk(tcb_set, tcb) /\ app \in Servers /\ tcb \in [Streams -> ControlBlocks]
      /\ tcb_set \in Seq(Streams) /\ s = Host(tcb_set, tcb, app.fd)
  BY LookUps DEF StackInv, Typed
<1>3. s \in Streams
  <2> DEFINE fd == app.fd
  <2>1. s = Host(tcb_set, tcb, fd) /\ s # NONE
    BY <1>1, <1>2
  <2> HIDE DEF s, fd
  <2>2. \E i \in DOMAIN tcb_set : s = tcb_set[i]
    BY <1>2, <2>1, Hosted
  <2> QED
    BY <1>2, <2>2, ElementOfSeq
<1>4. t \in ControlBlocks /\ t.rcvbuf \in Seq(Nat)
  <2> HIDE DEF s
  <2>1. t \in ControlBlocks
    BY <1>2, <1>3
  <2> QED
    BY <2>1 DEF ControlBlocks
<1>5. CASE t.rcvbuf = <<>>
  <2>1. app' = [app EXCEPT !.pc = "recv_wait", !.on = s] /\ tcb' = tcb
    BY <1>5 DEF nrecv
  <2> HIDE DEF s
  <2>2. app'.ready = app.ready /\ app'.fd = app.fd /\ app'.pc = "recv_wait"
    BY <1>2, <2>1 DEF Servers
  <2>3. SameList
    BY <1>1, <1>2, <2>1, ListSame
  <2> QED
    BY <1>1, <2>2, <2>3, SeqKept DEF Alike
<1>6. CASE t.rcvbuf # <<>>
  <2>1. /\ tcb' = [tcb EXCEPT ![s] = r]
        /\ app' = [app EXCEPT !.data = u, !.pc = IF u = 0 THEN "close" ELSE "send"]
    BY <1>6 DEF nrecv
  <2>2. r.status = t.status /\ r.fd = t.fd /\ r.rcvbuf = Tail(t.rcvbuf)
    BY <1>4 DEF ControlBlocks
  <2>3. Len(t.rcvbuf) \in Nat /\ Len(Tail(t.rcvbuf)) = Len(t.rcvbuf) - 1
    <3> DEFINE q == t.rcvbuf
    <3>1. q \in Seq(Nat) /\ q # <<>>
      BY <1>4, <1>6
    <3> HIDE DEF q, t
    <3>2. Len(q) \in Nat /\ Len(Tail(q)) = Len(q) - 1
      BY <3>1, TailFacts
    <3> QED
      BY <3>2 DEF q
  <2>4. app'.ready = app.ready /\ app'.fd = app.fd /\ app'.pc \in {"close", "send"}
    <3> HIDE DEF u
    <3> QED
      BY <1>2, <2>1 DEF Servers
  <2> HIDE DEF s, r
  <2>5. tcb'[s] = r /\ \A v \in Streams \ {s} : tcb'[v] = tcb[v]
    BY <1>2, <1>3, <2>1
  <2>6. ASSUME plan.mode = "epoll" PROVE EventsOk(tcb'[tcb_set[1]], app', rdlist', items')
    <3>1. app.fd \in items \ {LISTENFD} /\ EventsOk(tcb[tcb_set[1]], app, rdlist, items)
      BY <1>1, <2>6 DEF SequentialInv, EventsOk
    <3>2. s = tcb_set[1]
      BY <1>2, <2>6, <3>1, FirstHost
    <3>3. app.ready \in Seq(Fds) /\ app.ready # <<>>
      BY <1>1, <2>6, InHands
    <3> DEFINE a == app
               a2 == app'
               e == rdlist
               it == items
    <3>4. /\ EventsOk(t, a, e, it) /\ r.fd = t.fd /\ r.status = t.status
          /\ Len(t.rcvbuf) \in Nat /\ Len(r.rcvbuf) = Len(t.rcvbuf) - 1
          /\ a.pc = "recv" /\ a2.pc \in {"send", "close"} /\ a2.ready = a.ready /\ a2.fd = a.fd
          /\ a.ready \in Seq(Fds) /\ a.ready # <<>>
      BY <1>1, <2>2, <2>3, <2>4, <3>1, <3>2, <3>3
    <3> HIDE DEF a, a2, e, it, t
    <3>5. EventsOk(r, a2, e, it)
      BY <3>4, EventRead
    <3> QED
      BY <1>1, <2>5, <3>2, <3>5 DEF a2, e, it
  <2>7. \A v \in Streams : tcb[v].status = "LAST_ACK" \/ Half(tcb[v], app) =>
          tcb'[v].status = "LAST_ACK" \/ Half(tcb'[v], app')
    BY <1>1, <2>2, <2>5 DEF Half
  <2> QED
    BY <1>1, <2>6, <2>7, ServerSeq
<1> QED
  BY <1>5, <1>6

\* nsend
LEMMA SendSeq ==
  ASSUME StackInv, StackInv', SequentialInv, ~plan.together, nsend
  PROVE  SequentialInv'
<1> DEFINE s == get_hostinfo_fromfd(app.fd)
           t == tcb[s]
           x == Segment({"PSH", "ACK"}, t.snd_nxt, t.rcv_nxt, app.data)
           r == [t EXCEPT !.sndbuf = Append(@, x)]
<1>1. /\ app.pc = "send" /\ tcb' = [tcb EXCEPT ![s] = r] /\ app' = [app EXCEPT !.pc = Loop]
      /\ UNCHANGED <<tcb_set, rdlist, items, peer, plan>>
  BY DEF nsend, At, clients
<1>2. /\ Typed /\ app \in Servers /\ tcb \in [Streams -> ControlBlocks]
      /\ s = Host(tcb_set, tcb, app.fd)
  BY LookUps DEF StackInv, Typed
<1>3. s \in Streams /\ t \in ControlBlocks
  <2> HIDE DEF s
  <2> QED
    BY <1>1, <1>2 DEF StackInv, ServerOk
<1> HIDE DEF s, x
<1>4. r.fd = t.fd /\ r.status = t.status /\ r.rcvbuf = t.rcvbuf
  BY <1>3 DEF ControlBlocks
<1>5. Len(r.rcvbuf) \in Nat
  <2>1. t.rcvbuf \in Seq(Nat)
    BY <1>3 DEF ControlBlocks
  <2> QED
    BY <1>4, <2>1
<1> HIDE DEF r
<1>6. tcb'[s] = r /\ \A v \in Streams \ {s} : tcb'[v] = tcb[v]
  BY <1>1, <1>2, <1>3
<1>7. SameList
  BY <1>1, <1>2, <1>3, <1>4, <1>5, <1>6, ListKept
<1>8. plan.mode = "epoll" => app'.ready = app.ready /\ app'.fd = app.fd /\ Alike(app.pc, app'.pc)
  BY <1>1, <1>2 DEF Loop, Alike, Servers
<1> QED
  BY <1>1, <1>7, <1>8, SeqKept

\* nclose, first half
LEMMA FinSeq ==
  ASSUME StackInv, StackInv', SequentialInv, ~plan.together, nclose_fin
  PROVE  SequentialInv'
<1> DEFINE s == get_hostinfo_fromfd(app.fd)
           t == tcb[s]
           x == Segment({"FIN", "ACK"}, t.snd_nxt, t.rcv_nxt, 0)
           r == [t EXCEPT !.sndbuf = Append(@, x)]
<1>1. /\ app.pc = "close" /\ items' = items \ {app.fd} /\ app' = [app EXCEPT !.pc = "closing"]
      /\ UNCHANGED <<tcb_set, rdlist, peer, plan>>
  BY DEF nclose_fin, At, clients
<1>2. /\ Typed /\ app \in Servers /\ tcb \in [Streams -> ControlBlocks]
      /\ s = Host(tcb_set, tcb, app.fd)
  BY LookUps DEF StackInv, Typed
<1>3. s \in Streams /\ t \in ControlBlocks /\ t.rcvbuf = <<>>
  <2> HIDE DEF s
  <2> QED
    BY <1>1, <1>2 DEF StackInv, ServerOk
<1>4. tcb' = [tcb EXCEPT ![s] = r]
  BY DEF nclose_fin
<1> HIDE DEF s, x
<1>5. r.status = t.status
  BY <1>3 DEF ControlBlocks
<1> HIDE DEF r
<1>6. tcb'[s] = r /\ \A v \in Streams \ {s} : tcb'[v] = tcb[v]
  BY <1>2, <1>3, <1>4
<1>7. ASSUME plan.mode = "epoll" PROVE EventsOk(tcb'[tcb_set[1]], app', rdlist', items')
  <2>1. app.fd \in items \ {LISTENFD} /\ EventsOk(tcb[tcb_set[1]], app, rdlist, items)
    BY <1>1, <1>7 DEF SequentialInv, EventsOk
  <2>2. s = tcb_set[1]
    BY <1>2, <1>7, <2>1, FirstHost
  <2>3. app'.pc = "closing" /\ app'.ready = app.ready
    BY <1>1, <1>2 DEF Servers
  <2> DEFINE a == app
             a2 == app'
             e == rdlist
             it == items
  <2>4. EventsOk(t, a, e, it) /\ t.rcvbuf = <<>> /\ a.pc = "close" /\ a2.pc = "closing" /\ a2.ready = a.ready
    BY <1>1, <1>3, <2>1, <2>2, <2>3
  <2> HIDE DEF a, a2, e, it, t
  <2>5. EventsOk(r, a2, e, it \ {a.fd})
    BY <2>4, EventClosed
  <2> QED
    BY <1>1, <1>6, <2>2, <2>5 DEF a, a2, e, it
<1>8. \A v \in Streams : tcb[v].status = "LAST_ACK" \/ Half(tcb[v], app) =>
        tcb'[v].status = "LAST_ACK" \/ Half(tcb'[v], app')
  BY <1>1, <1>5, <1>6 DEF Half
<1> QED
  BY <1>1, <1>7, <1>8, ServerSeq

\* nclose, second half
LEMMA CloseSeq ==
  ASSUME StackInv, StackInv', SequentialInv, ~plan.together, nclose_end
  PROVE  SequentialInv'
<1> DEFINE s == get_hostinfo_fromfd(app.fd)
           t == tcb[s]
           r == [t EXCEPT !.status = "LAST_ACK"]
<1>1. /\ app.pc = "closing"
      /\ app' = [app EXCEPT !.pc = IF plan.mode = "once" THEN "accept" ELSE "next", !.fd = -1]
      /\ UNCHANGED <<tcb_set, rdlist, items, peer, plan>>
  BY DEF nclose_end, Closing, At, clients
<1>2. /\ Typed /\ app \in Servers /\ tcb \in [Streams -> ControlBlocks]
      /\ s = Host(tcb_set, tcb, app.fd)
  BY LookUps DEF StackInv, Typed
<1>3. /\ s \in Streams /\ t \in ControlBlocks
      /\ \A u \in Streams : tcb[u].fd = app.fd /\ tcb[u].status # "LAST_ACK" => u = s
  <2> HIDE DEF s
  <2> QED
    BY <1>1, <1>2, Held
<1>4. tcb' = [tcb EXCEPT ![s] = r]
  BY DEF nclose_end, Closing
<1> HIDE DEF s
<1>5. r.status = "LAST_ACK"
  BY <1>3 DEF ControlBlocks
<1> HIDE DEF r
<1>6. tcb'[s] = r /\ \A v \in Streams \ {s} : tcb'[v] = tcb[v]
  BY <1>2, <1>3, <1>4
<1>7. ASSUME plan.mode = "epoll" PROVE EventsOk(tcb'[tcb_set[1]], app', rdlist', items')
  <2> DEFINE b == tcb[tcb_set[1]]
             b2 == tcb'[tcb_set[1]]
             a == app
             a2 == app'
             e == rdlist
             it == items
  <2>1. EventsOk(b, a, e, it) /\ a.pc = "closing" /\ a2.pc = "next" /\ a2.ready = a.ready
    BY <1>1, <1>2, <1>7 DEF SequentialInv, Servers
  <2> HIDE DEF b, b2, a, a2, e, it
  <2>2. EventsOk(b2, a2, e, it)
    BY <2>1, EventEnded
  <2> QED
    BY <1>1, <2>2 DEF b2, a2, e, it
<1>8. \A v \in Streams : tcb[v].status = "LAST_ACK" \/ Half(tcb[v], app) =>
        tcb'[v].status = "LAST_ACK" \/ Half(tcb'[v], app')
  BY <1>3, <1>5, <1>6 DEF Half
<1> QED
  BY <1>1, <1>7, <1>8, ServerSeq

\* nepoll_ctl_add, nepoll_wait and the loop over what it reports.
LEMMA LoopSeq ==
  ASSUME StackInv, SequentialInv, ~plan.together,
         nepoll_ctl_add \/ nepoll_wait \/ Event \/ NextEvent
  PROVE  SequentialInv'
<1> DEFINE b == tcb[tcb_set[1]]
           a == app
           a2 == app'
           r == rdlist
           it == items
<1>1. UNCHANGED <<tcb_set, tcb, peer, plan>>
  BY DEF nepoll_ctl_add, nepoll_wait, Event, NextEvent, clients
<1>2. app \in Servers /\ LoopOk(plan.mode = "epoll", app, rdlist, items)
  BY DEF StackInv, Typed
<1>3. app.pc \in {"add", "wait", "event", "next"}
  BY DEF nepoll_ctl_add, nepoll_wait, Event, NextEvent, At
<1>4. plan.mode = "epoll" /\ (app.pc = "wait" <=> app.ready = <<>>)
  BY <1>2, <1>3 DEF LoopOk, OnceStages
<1>5. EventsOk(b, a, r, it) /\ Len(b.rcvbuf) \in Nat
  BY <1>4, FirstBlock DEF SequentialInv, StackInv
<1>6. a.pc # "wait" => a.ready \in Seq(Fds) /\ a.ready # <<>>
  BY <1>4, InHands
<1>7. EventsOk(tcb[tcb_set[1]], app', rdlist', items')
  <2>1. CASE nepoll_ctl_add
    <3>1. items' = it \cup {a.fd} /\ rdlist' = r /\ a.pc = "add" /\ a2.pc = "next" /\ a2.ready = a.ready
      BY <1>2, <2>1 DEF nepoll_ctl_add, At, Servers
    <3> HIDE DEF b, a, a2, r, it
    <3>2. EventsOk(b, a2, r, it \cup {a.fd})
      BY <1>5, <3>1, EventRegistered
    <3> QED
      BY <3>1, <3>2 DEF b, a2, r
  <2>2. CASE nepoll_wait
    <3>1. items' = it /\ rdlist' = <<>> /\ a.pc = "wait" /\ a2.pc = "event" /\ a2.ready = r
      BY <1>2, <2>2 DEF nepoll_wait, At, Servers
    <3> HIDE DEF b, a, a2, r, it
    <3>2. EventsOk(b, a2, <<>>, it)
      BY <1>5, <3>1, EventsReported
    <3> QED
      BY <3>1, <3>2 DEF b, a2, it
  <2>3. CASE Event
    <3>1. /\ items' = it /\ rdlist' = r /\ a.pc = "event" /\ a2.ready = a.ready /\ a2.fd = Head(a.ready)
          /\ a2.pc = IF Head(a.ready) = LISTENFD THEN "accept" ELSE "recv"
      BY <1>2, <2>3 DEF Event, At, Servers
    <3> HIDE DEF b, a, a2, r, it
    <3>2. EventsOk(b, a2, r, it)
      BY <1>5, <1>6, <3>1, EventLooked
    <3> QED
      BY <3>1, <3>2 DEF b, a2, r, it
  <2>4. CASE NextEvent
    <3>1. /\ items' = it /\ rdlist' = r /\ a.pc = "next" /\ a2.ready = Tail(a.ready)
          /\ a2.pc = IF Len(a.ready) = 1 THEN "wait" ELSE "event"
      BY <1>2, <2>4 DEF NextEvent, At, Servers
    <3> HIDE DEF b, a, a2, r, it
    <3>2. Len(a.ready) = 1 <=> Tail(a.ready) = <<>>
      <4> DEFINE q == a.ready
                 q2 == Tail(q)
      <4>1. q \in Seq(Fds) /\ q # <<>>
        BY <1>6, <3>1
      <4> HIDE DEF q
      <4>2. q2 \in Seq(Fds) /\ Len(q2) = Len(q) - 1 /\ Len(q) \in Nat
        BY <4>1, TailFacts
      <4> HIDE DEF q2
      <4>3. Len(q2) = 0 <=> q2 = <<>>
        BY <4>2, EmptySeq
      <4> QED
        BY <4>2, <4>3 DEF q, q2
    <3>3. a2.pc \in {"wait", "event"} /\ (a2.pc = "wait" <=> a2.ready = <<>>)
      BY <3>1, <3>2
    <3>4. EventsOk(b, a2, r, it)
      BY <1>5, <1>6, <3>1, <3>3, EventDone
    <3> QED
      BY <3>1, <3>4 DEF b, a2, r, it
  <2> QED
    BY <2>1, <2>2, <2>3, <2>4
<1>8. \A u \in Streams : tcb[u].status = "LAST_ACK" \/ Half(tcb[u], app) => tcb[u].status = "LAST_ACK"
  BY <1>3 DEF Half
<1> QED
  BY <1>1, <1>7, <1>8, ServerSeq

\* A client that comes waits for all others to be done.
LEMMA ConnectSeq ==
  ASSUME StackInv, SequentialInv, ~plan.together, NEW c \in Clients, Connect(c)
  PROVE  SequentialInv'
<1>1. /\ \A d \in Clients : peer[d].st \in {"closed", "done"}
      /\ peer' = [peer EXCEPT ![c].st = "syn_sent", ![c].snd = 1]
      /\ UNCHANGED <<tcb_set, tcb, rdlist, items, app, plan>>
  BY DEF Connect, server
<1>2. peer \in [Clients -> Peers]
  BY DEF StackInv, Typed
<1>3. \A d \in Clients \ {c} : peer'[d] = peer[d]
  BY <1>1, <1>2
<1>4. \A d \in Clients : Busy(peer'[d]) => d = c
  BY <1>1, <1>3 DEF Busy
<1>5. OneByOne(tcb_set', tcb', peer', app')
  BY <1>1, <1>4 DEF SequentialInv, OneByOne
<1> QED
  BY <1>1, <1>5 DEF SequentialInv

\* A client that goes on stays the only one.
LEMMA PeerSeq ==
  ASSUME StackInv, StackInv', SequentialInv, ~plan.together, NEW c \in Clients,
         UNCHANGED <<server, plan>>, \A d \in Clients \ {c} : peer'[d] = peer[d],
         Busy(peer'[c]) => Busy(peer[c])
  PROVE  SequentialInv'
<1>1. UNCHANGED <<tcb_set, tcb, rdlist, items, app, plan>>
  BY DEF server
<1>2. \A d \in Clients : Busy(peer'[d]) => Busy(peer[d])
  OBVIOUS
<1>3. SameList
  BY <1>1, <1>2, ListSame DEF StackInv
<1> QED
  BY <1>1, <1>3, SeqKept DEF Alike

\* A client that is done does not begin again.
LEMMA ReceiveSeq ==
  ASSUME StackInv, StackInv', SequentialInv, ~plan.together, NEW c \in Clients, Receive(c)
  PROVE  SequentialInv'
<1> DEFINE seg == Head(toClient[c])
           p == peer[c]
           u == toClient[c]
           v == Block(tcb, c).sndbuf
           pipe == Pipe(c)
<1>1. /\ u # <<>> /\ u \in Seq(Segments) /\ p \in Peers /\ peer \in [Clients -> Peers]
      /\ UNCHANGED <<server, plan>>
  BY DEF Receive, StackInv, Typed
<1>2. PICK torn \in BOOLEAN : peer' = [peer EXCEPT ![c] = After(p, seg, torn)]
  BY DEF Receive, After
<1>3. Wire(p, toServer[c], pipe, Now(Block(tcb, c), core, app))
  BY DEF StackInv, Talks, Talk
<1>4. pipe # <<>> /\ 1 \in DOMAIN pipe /\ pipe[1] = seg
  <2>1. v \in Seq(Segments)
    <3>1. CASE \E s \in Streams : tcb[s].peer = c
      <4>1. PICK s \in Streams : tcb[s].peer = c
        BY <3>1
      <4>2. Block(tcb, c) = tcb[s] /\ tcb[s] \in ControlBlocks
        BY <4>1, BlockIs DEF StackInv, Typed
      <4> QED
        BY <4>2 DEF ControlBlocks
    <3>2. CASE \A s \in Streams : tcb[s].peer # c
      <4>1. Block(tcb, c) = Blank
        BY <3>2, BlockNone
      <4> QED
        BY <4>1 DEF Blank
    <3> QED
      BY <3>1, <3>2
  <2>2. pipe = u \o v /\ seg = Head(u)
    BY DEF Pipe
  <2> HIDE DEF u, v, pipe, seg
  <2>3. u \o v \in Seq(Segments) /\ u \o v # <<>> /\ Head(u \o v) = Head(u)
    BY <1>1, <2>1, PipeTail
  <2>4. pipe \in Seq(Segments) /\ pipe # <<>> /\ Head(pipe) = seg
    BY <2>2, <2>3
  <2> QED
    BY <2>4, TailFacts
<1> HIDE DEF pipe, seg, u, v
<1>5. ASSUME ~Busy(p) PROVE ~Busy(After(p, seg, torn))
  <2>1. p.st = "done"
    BY <1>3, <1>4, <1>5 DEF Wire, Busy
  <2>2. "SYN" \notin seg.flags /\ "FIN" \notin seg.flags
    BY <1>3, <1>4, <2>1 DEF Wire
  <2>3. After(p, seg, torn).st = p.st
    BY <1>1, <2>2 DEF After, Peers
  <2> QED
    BY <2>1, <2>3 DEF Busy
<1>6. peer'[c] = After(p, seg, torn) /\ \A d \in Clients \ {c} : peer'[d] = peer[d]
  BY <1>1, <1>2
<1>7. Busy(peer'[c]) => Busy(peer[c])
  BY <1>5, <1>6
<1> QED
  BY <1>1, <1>6, <1>7, PeerSeq

\* A client that sends or ends its side.
LEMMA GoOnSeq ==
  ASSUME StackInv, StackInv', SequentialInv, ~plan.together,
         NEW c \in Clients, SendData(c) \/ Finish(c)
  PROVE  SequentialInv'
<1>1. peer[c].st = "established" /\ peer \in [Clients -> Peers] /\ UNCHANGED <<server, plan>>
  BY DEF SendData, Finish, Ready, StackInv, Typed
<1>2. \A d \in Clients \ {c} : peer'[d] = peer[d]
  BY <1>1 DEF SendData, Finish
<1>3. Busy(peer[c])
  BY <1>1 DEF Busy
<1> QED
  BY <1>1, <1>2, <1>3, PeerSeq

\* One listener and no client.
LEMMA Init_Seq == Init => SequentialInv
<1> SUFFICES ASSUME Init, ~plan.together PROVE SequentialInv
  BY DEF SequentialInv
<1>1. /\ tcb_set = <<LISTENER>> /\ rdlist = <<>>
      /\ plan.mode = "epoll" => items = {LISTENFD} /\ app.pc = "wait" /\ app.ready = <<>>
      /\ \A c \in Clients : peer[c].st = "closed"
  BY DEF Init
<1>2. DOMAIN tcb_set = {1}
  BY <1>1
<1>3. OneByOne(tcb_set, tcb, peer, app)
  BY <1>1, <1>2 DEF OneByOne, Busy
<1>4. ASSUME plan.mode = "epoll" PROVE EventsOk(tcb[tcb_set[1]], app, rdlist, items)
  <2>1. ToSet(<<>>) = {} /\ Distinct(<<>>)
    BY DEF ToSet, Distinct
  <2>2. PendingOf(app) = <<>>
    BY <1>1, <1>4 DEF PendingOf
  <2> QED
    BY <1>1, <1>4, <2>1, <2>2 DEF EventsOk
<1> QED
  BY <1>3, <1>4 DEF SequentialInv

\* Every step keeps the order of clients that come one after another, and their events.
LEMMA Next_Seq ==
  ASSUME StackInv, StackInv', SequentialInv, [Next]_vars
  PROVE  SequentialInv'
<1>1. plan' = plan
  BY DEF Next, vars, clients, server, pkt_process, ng_tcp_out, ng_tcp_process, ng_tcp_handle_listen,
         ng_tcp_handle_syn_rcvd, ng_tcp_handle_established, ng_tcp_handle_close_wait,
         ng_tcp_handle_last_ack, tcp_server_entry, naccept, nrecv, nsend, nclose_fin, nclose_end,
         Closing, established_numbers, nepoll_ctl_add, nepoll_wait, Event, NextEvent, Client, Connect, SendData, Finish, Receive
<1>2. SUFFICES ASSUME ~plan.together PROVE SequentialInv'
  BY <1>1 DEF SequentialInv
<1>3. SequentialInv'
  <2>1. CASE ng_tcp_out
    BY <1>2, <2>1, OutSeq
  <2>2. ASSUME NEW c \in Clients, ng_tcp_process(c) PROVE SequentialInv'
    BY <1>2, <2>2, ListenSeq, RcvdSeq, EstablishedSeq, CloseWaitSeq, LastAckSeq DEF ng_tcp_process
  <2>6. CASE established_numbers
    BY <1>2, <2>6, NumbersSeq
  <2>3. CASE tcp_server_entry
    BY <1>2, <2>3, AcceptSeq, RecvSeq, SendSeq, FinSeq, CloseSeq, LoopSeq DEF tcp_server_entry
  <2>4. ASSUME NEW c \in Clients, Client(c) PROVE SequentialInv'
    BY <1>2, <2>4, ConnectSeq, GoOnSeq, ReceiveSeq DEF Client
  <2>5. CASE UNCHANGED vars
    <3>1. UNCHANGED <<tcb_set, tcb, rdlist, items, app, peer, plan>>
      BY <2>5 DEF vars, server, clients
    <3> QED
      BY <3>1 DEF SequentialInv
  <2> QED
    BY <2>1, <2>2, <2>3, <2>4, <2>5, <2>6 DEF Next, pkt_process
<1> QED
  BY <1>3, Zenon

\* How often a number is in a list that holds nothing twice.
LEMMA TimesOnce ==
  ASSUME NEW q \in Seq(Fds), Distinct(q), NEW fd
  PROVE  Times(fd, q) = Once(fd, q)
<1> DEFINE I == {i \in DOMAIN q : q[i] = fd}
<1>1. CASE fd \notin ToSet(q)
  <2>1. I = {}
    BY <1>1 DEF ToSet
  <2>2. Cardinality(I) = 0
    BY <2>1, FS_EmptySet
  <2> QED
    BY <1>1, <2>2 DEF Times, Once
<1>2. CASE fd \in ToSet(q)
  <2>1. PICK i \in DOMAIN q : q[i] = fd
    BY <1>2 DEF ToSet
  <2>2. I = {i}
    BY <2>1 DEF Distinct
  <2>3. Cardinality(I) = 1
    BY <2>2, FS_Singleton
  <2> QED
    BY <1>2, <2>3 DEF Times, Once
<1> QED
  BY <1>1, <1>2

-----------------------------------------------------------------------------
(* The theorems *)

\* The parts of the invariant say what TypeOK and BitmapExact say.
LEMMA InvExact ==
  ASSUME StackInv
  PROVE  TypeOK /\ BitmapExact
<1>1. /\ Typed /\ ListOk(tcb_set, tcb) /\ BitmapOk(tcb, fd_table, plan.mode = "epoll")
      /\ tcb \in [Streams -> ControlBlocks] /\ tcb_set \in Seq(Streams)
  BY DEF StackInv, Typed
<1>2. ToSet(tcb_set) \subseteq Streams /\ \A s : Contains(tcb_set, s) <=> s \in ToSet(tcb_set)
  BY <1>1 DEF ToSet, Contains
<1>3. ASSUME NEW s \in Streams PROVE s \in ToSet(tcb_set) <=> tcb[s] # Blank
  <2>1. CASE s = LISTENER
    BY <1>1, <2>1, BlankIs DEF ListOk, Blank
  <2>2. CASE s # LISTENER
    BY <1>1, <2>2, BlankIs DEF ListOk, Connected, Serving
  <2> QED
    BY <2>1, <2>2
<1>4. TypeOK
  <2>1. \A s \in Streams : tcb[s].fd \in Fds \cup {-1}
    BY <1>1 DEF ControlBlocks
  <2>2. app.on \in Streams \cup {NONE} /\ core.of \in Clients \cup {NONE}
    BY <1>1 DEF Typed, Servers, Cores
  <2> QED
    BY <1>1, <1>2, <1>3, <2>1, <2>2 DEF TypeOK, Typed
<1>5. BitmapExact
  <2> DEFINE open == {s \in ToSet(tcb_set) : tcb[s].fd # -1 /\ tcb[s].status # "LAST_ACK"}
             epoll == plan.mode = "epoll"
  <2>1. \A s : s \in open <=> s \in Streams /\ Open(tcb[s])
    BY <1>2, <1>3, BlankIs DEF Open
  <2>2. BitmapOk(tcb, fd_table, epoll)
    BY <1>1
  <2> HIDE DEF open, epoll
  <2>3. \A f : f \in {tcb[s].fd : s \in open} <=> f \in fd_table /\ ~(epoll /\ f = EPFD)
    BY <2>1, <2>2 DEF BitmapOk
  <2>4. {tcb[s].fd : s \in open} = fd_table \ (IF epoll THEN {EPFD} ELSE {})
    BY <2>3
  <2>5. \A s, t \in open : tcb[s].fd = tcb[t].fd => s = t
    BY <2>1, <2>2 DEF BitmapOk
  <2> QED
    BY <2>4, <2>5 DEF BitmapExact, open, epoll
<1> QED
  BY <1>4, <1>5

\* The parts of the two invariants say what EventMeansData says.
LEMMA InvEvents ==
  ASSUME StackInv, SequentialInv
  PROVE  EventMeansData
<1> SUFFICES ASSUME plan.mode = "epoll", ~plan.together, NEW fd \in items \ {LISTENFD}
             PROVE  /\ get_hostinfo_fromfd(fd) # NONE
                    /\ Waiting(fd) <= Len(tcb[get_hostinfo_fromfd(fd)].rcvbuf)
  BY DEF EventMeansData
<1> DEFINE s == tcb_set[1]
           q == PendingOf(app)
<1>1. get_hostinfo_fromfd(fd) = s
  BY FirstHost, LookUps
<1>2. s \in Streams /\ NONE \notin Streams
  BY FirstBlock, UStackAssumption DEF StackInv, Streams
<1>3. EventsOk(tcb[s], app, rdlist, items)
  BY DEF SequentialInv
<1>4. Once(fd, rdlist) + Once(fd, q) <= Len(tcb[s].rcvbuf) /\ Distinct(rdlist) /\ Distinct(app.ready)
  BY <1>3 DEF EventsOk
<1>5. Pending = q
  BY DEF Pending, PendingOf, At
<1>6. rdlist \in Seq(Fds) /\ app.ready \in Seq(Fds)
  BY DEF StackInv, Typed, Servers
<1>7. q \in Seq(Fds) /\ Distinct(q)
  <2>1. CASE app.pc = "wait"
    BY <2>1 DEF PendingOf, Distinct
  <2>2. CASE app.pc # "wait"
    <3> DEFINE r == app.ready
    <3>1. r \in Seq(Fds) /\ r # <<>> /\ Distinct(r)
      BY <1>4, <2>2, InHands
    <3>2. q = r \/ q = Tail(r)
      BY <2>2 DEF PendingOf
    <3> HIDE DEF r, q
    <3>3. Tail(r) \in Seq(Fds) /\ Distinct(Tail(r))
      BY <3>1, TailSet
    <3> QED
      BY <3>1, <3>2, <3>3
  <2> QED
    BY <2>1, <2>2
<1> HIDE DEF q
<1>8. Waiting(fd) = Once(fd, rdlist) + Once(fd, q)
  BY <1>4, <1>5, <1>6, <1>7, TimesOnce DEF Waiting
<1> QED
  BY <1>1, <1>2, <1>4, <1>8

\* A polite client reads back what it sent, in its order and nothing twice, however the
\* stack, the server and the other clients come between, unless one of the two threads did
\* not wait until the other had done with its connection (tcp.c 1808, 1921; 1547).
THEOREM EchoesSafe == Spec => []EchoesInOrder
<1>1. StackInv => EchoesInOrder
  BY DEF StackInv, Talks, Talk, Unit, EchoesInOrder, Tame
<1>2. StackInv /\ [Next]_vars => StackInv'
  BY Next_Inv
<1> QED
  BY <1>1, <1>2, Init_Inv, PTL DEF Spec

\* The control block of a polite client goes only when the client has ended the
\* connection and seen the end of the other side, under the same condition: last_ack takes
\* any acknowledgement, so what it may take must be shown of all that is under way.
THEOREM FreedSafe == Spec => FreedAfterBothFins
<1>1. StackInv /\ [Next]_vars => StackInv' /\ FreedDone
  BY Next_Inv
<1>2. StackInv /\ [Next]_vars => [plan.polite => \A s \in ToSet(tcb_set) \ ToSet(tcb_set') :
         tcb[s].peer # NONE => peer[tcb[s].peer].st = "done" \/ tcb[s].peer \in hurried]_vars
  BY <1>1 DEF FreedDone
<1> QED
  BY <1>1, <1>2, Init_Inv, PTL DEF Spec, FreedAfterBothFins

\* Descriptors, control blocks and events agree over every interleaving of the stack,
\* the server and the clients.
THEOREM StackSafe == Spec => []StackSound
<1>1. Init => StackInv /\ SequentialInv
  BY Init_Inv, Init_Seq
<1>2. StackInv /\ SequentialInv /\ [Next]_vars => StackInv' /\ SequentialInv'
  BY Next_Inv, Next_Seq
<1>3. StackInv /\ SequentialInv => StackSound
  BY InvExact, InvEvents DEF StackSound
<1> QED
  BY <1>1, <1>2, <1>3, PTL DEF Spec
=============================================================================
