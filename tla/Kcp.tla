-------------------------------- MODULE Kcp --------------------------------
(***************************************************************************)
(* KCP, the reliable transport over UDP of ikcp.c, between two ends, with  *)
(* the loops that drive it in server.c, client.c, test.cpp, kcp_server.cc  *)
(* and kcp_client.cc.                                                      *)
(*                                                                         *)
(* Each end has one control block (ikcpcb).  ikcp_send cuts a message into *)
(* fragments, ikcp_flush moves fragments into the send window and writes   *)
(* segments, ikcp_input reads a datagram of segments, ikcp_recv puts a     *)
(* message together again.  Datagrams are lost, duplicated and reordered.  *)
(*                                                                         *)
(* A payload is the pair of a message and a fragment number.  Clocks are   *)
(* abstracted to which segments are due when ikcp_flush runs: a timeout    *)
(* that comes too early costs one of faults, one that comes when nothing   *)
(* is under way is free.  Sequence numbers do not wrap here, and the       *)
(* stream mode, which nothing in the repository turns on, is left out.     *)
(***************************************************************************)
EXTENDS Integers, Sequences, SequencesExt, FiniteSets

CONSTANTS
    WndRcv,      \* IKCP_WND_RCV: receive window, and bound on fragments
    WndSnd,      \* snd_wnd
    FastLimit,   \* IKCP_FASTACK_LIMIT
    FastResend,  \* fastresend, 0 for never
    Mss,         \* bytes of one fragment, the unit of incr
    Mtu,         \* room of a datagram, in units of a segment without data
    PushSize,    \* what a segment with data takes of that room
    NetMax,      \* datagrams the network holds one way
    Setups       \* how the ends are set up: a set of [app, flow, pieces, faults]

ASSUME KcpAssumption ==
    /\ WndRcv \in Nat \ {0} /\ WndSnd \in Nat \ {0}
    /\ FastLimit \in Nat /\ FastResend \in Nat
    /\ Mss \in Nat \ {0} /\ Mtu \in Nat /\ PushSize \in 1..Mtu
    /\ NetMax \in Nat \ {0}
    /\ \A s \in Setups :
          /\ s.app \in {"drain", "one", "slow"}  \* how the ends read
          /\ s.flow \in BOOLEAN                 \* nocwnd = 0
          /\ s.pieces \in Seq(Nat \ {0})        \* fragments of each message
          /\ s.faults \in Nat   \* bound on losses, repetitions, early timeouts

\* The client a sends the messages, the server b sends each one back.
Ends == {"a", "b"}
Peer(e) == IF e = "a" THEN "b" ELSE "a"

VARIABLES
    kcp,     \* kcp[e]: the control block of e
    net,     \* net[e]: the datagrams on their way to e
    sent,    \* sent[e]: the messages ikcp_send of e accepted
    got,     \* got[e]: the messages ikcp_recv of e returned
    turn,    \* messages the client has handed to ikcp_send
    setup,   \* one of Setups, never changes
    faults   \* faults left

kcpVars == <<kcp, net, sent, got, turn, setup, faults>>

KMin(x, y) == IF x < y THEN x ELSE y
KMax(x, y) == IF x > y THEN x ELSE y
\* Op(v): the same value, which TLC then computes once.
Once(v, Op(_)) == CHOOSE y \in { Op(x) : x \in {v} } : TRUE
Fold(op(_, _), base, seq) ==
    Once(seq, LAMBDA q :
        FoldLeft(LAMBDA acc, x : Once(acc, LAMBDA a : op(a, x)), base, q))
ThreshMin == 2  \* IKCP_THRESH_MIN and IKCP_THRESH_INIT

-----------------------------------------------------------------------------
\* ikcp_create.
Fresh ==
    [snd_queue |-> <<>>, snd_buf |-> <<>>, snd_una |-> 0, snd_nxt |-> 0,
     rcv_queue |-> <<>>, rcv_buf |-> <<>>, rcv_nxt |-> 0, acklist |-> <<>>,
     rmt_wnd |-> WndRcv, cwnd |-> 0, ssthresh |-> ThreshMin, incr |-> 0,
     probe |-> {}, probe_wait |-> FALSE]

\* ikcp_send: the fragments are numbered down to 0; a message of as many
\* fragments as the receive window is refused.
Pieces(m) == setup.pieces[m]
Accepts(m) == Pieces(m) < WndRcv
Send(k, m) ==
    IF ~Accepts(m) THEN k
    ELSE [k EXCEPT !.snd_queue = @ \o
            [i \in 1..Pieces(m) |-> [msg |-> m, frg |-> Pieces(m) - i]]]

\* ikcp_peeksize: the length of the message at the head, 0 for none.
Ready(k) ==
    LET q == k.rcv_queue IN
    IF q = <<>> THEN 0
    ELSE IF Len(q) < Head(q).frg + 1 THEN 0
    ELSE CHOOSE n \in 1..Len(q) :
            q[n].frg = 0 /\ \A i \in 1..(n - 1) : q[i].frg # 0

\* The loop of ikcp_parse_data and of ikcp_recv that moves what is next in
\* order from rcv_buf to rcv_queue while the queue has room.
MoveReady(k) ==
    LET movable == { n \in 0..Len(k.rcv_buf) :
                        /\ n = 0 \/ Len(k.rcv_queue) + n <= WndRcv
                        /\ \A i \in 1..n : k.rcv_buf[i].sn = k.rcv_nxt + i - 1 }
        n == CHOOSE x \in movable : \A y \in movable : y <= x
    IN  [k EXCEPT !.rcv_queue = @ \o SubSeq(k.rcv_buf, 1, n),
                  !.rcv_buf = SubSeq(@, n + 1, Len(@)),
                  !.rcv_nxt = @ + n]

\* ikcp_recv of the message Ready names: a queue that was full and has room
\* again makes the end tell its window.
Recv(k) ==
    LET taken == [k EXCEPT !.rcv_queue = SubSeq(@, Ready(k) + 1, Len(@))]
        recover(moved) ==
            IF Len(k.rcv_queue) >= WndRcv /\ Len(moved.rcv_queue) < WndRcv
            THEN [moved EXCEPT !.probe = @ \cup {"tell"}]
            ELSE moved
    IN  Once(MoveReady(taken), recover)

\* What the caller of ikcp_recv gets: the message, or 0 for a mixture.
Message(k) ==
    Once(SubSeq(k.rcv_queue, 1, Ready(k)),
         LAMBDA piece :
            IF \A i \in DOMAIN piece :
                  /\ piece[i].msg = piece[1].msg
                  /\ piece[i].frg = Pieces(piece[1].msg) - i
            THEN piece[1].msg ELSE 0)

-----------------------------------------------------------------------------
\* ikcp_shrink_buf.
ShrinkBuf(k) ==
    [k EXCEPT !.snd_una = IF k.snd_buf = <<>> THEN k.snd_nxt
                          ELSE Head(k.snd_buf).sn]

\* ikcp_parse_ack.
ParseAck(k, sn) ==
    IF sn < k.snd_una \/ sn >= k.snd_nxt THEN k
    ELSE [k EXCEPT !.snd_buf = SelectSeq(@, LAMBDA s : s.sn # sn)]

\* Mutant: una itself counts as acknowledged.
ParseUna_Past(k, una) ==
    [k EXCEPT !.snd_buf = SelectSeq(@, LAMBDA s : s.sn > una)]

\* ikcp_parse_una.
ParseUna(k, una) ==
    [k EXCEPT !.snd_buf = SelectSeq(@, LAMBDA s : s.sn >= una)]

\* ikcp_parse_fastack: every segment before sn has been skipped once more.
ParseFastack(k, sn) ==
    IF sn < k.snd_una \/ sn >= k.snd_nxt THEN k
    ELSE [k EXCEPT !.snd_buf = [i \in DOMAIN @ |->
            IF @[i].sn < sn
            THEN [@[i] EXCEPT !.fastack = KMin(@ + 1, FastResend)]
            ELSE @[i]]]

\* ikcp_ack_push; the block it grows is the length of the sequence.
AckPush(k, sn) == [k EXCEPT !.acklist = Append(@, sn)]

\* ikcp_parse_data: kept once, in order, only inside the receive window.
ParseData(k, seg) ==
    IF seg.sn >= k.rcv_nxt + WndRcv \/ seg.sn < k.rcv_nxt THEN k
    ELSE LET repeat == \E i \in DOMAIN k.rcv_buf : k.rcv_buf[i].sn = seg.sn
             below  == SelectSeq(k.rcv_buf, LAMBDA s : s.sn < seg.sn)
             above  == SelectSeq(k.rcv_buf, LAMBDA s : s.sn > seg.sn)
             new    == [sn |-> seg.sn, msg |-> seg.msg, frg |-> seg.frg]
         IN  Once(IF repeat THEN k
                  ELSE [k EXCEPT !.rcv_buf = below \o <<new>> \o above],
                  MoveReady)

\* What a segment does in ikcp_input once the window and the
\* acknowledgements every segment carries are read.
Handle(k, seg) ==
    CASE seg.cmd = "ack"  -> Once(ParseAck(k, seg.sn), ShrinkBuf)
      [] seg.cmd = "push" -> IF seg.sn >= k.rcv_nxt + WndRcv THEN k
                             ELSE IF seg.sn >= k.rcv_nxt
                                  THEN Once(AckPush(k, seg.sn),
                                            LAMBDA k1 : ParseData(k1, seg))
                                  ELSE AckPush(k, seg.sn)
      [] seg.cmd = "wask" -> [k EXCEPT !.probe = @ \cup {"tell"}]
      [] seg.cmd = "wins" -> k

\* The loop of ikcp_input over the segments of a datagram.
InputSegments(k, datagram) ==
    Fold(LAMBDA acc, seg :
            Once(Once(ParseUna([acc EXCEPT !.rmt_wnd = seg.wnd], seg.una),
                      ShrinkBuf),
                 LAMBDA k1 : Handle(k1, seg)),
         k, datagram)

\* The end of ikcp_input: the congestion window grows when snd_una did.
Grow(k, prev_una) ==
    LET slow == [k EXCEPT !.cwnd = @ + 1, !.incr = @ + Mss]
        base == KMax(k.incr, Mss)
        incr == base + (Mss * Mss) \div base + Mss \div 16
        avoid == [k EXCEPT !.incr = incr,
                           !.cwnd = IF (@ + 1) * Mss <= incr
                                    THEN (incr + Mss - 1) \div Mss ELSE @]
        grown == IF k.cwnd < k.ssthresh THEN slow ELSE avoid
    IN  IF k.snd_una <= prev_una \/ k.cwnd >= k.rmt_wnd THEN k
        ELSE IF grown.cwnd > k.rmt_wnd
             THEN [grown EXCEPT !.cwnd = k.rmt_wnd, !.incr = k.rmt_wnd * Mss]
             ELSE grown

\* ikcp_input of one datagram: the largest number it acknowledges counts as
\* skipping every segment before it.
Input(k, datagram) ==
    LET acked == { datagram[i].sn : i \in { j \in DOMAIN datagram :
                                              datagram[j].cmd = "ack" } }
        maxack == CHOOSE sn \in acked : \A x \in acked : x <= sn
        skip(k1) == IF acked = {} THEN k1 ELSE ParseFastack(k1, maxack)
    IN  Once(Once(InputSegments(k, datagram), skip),
             LAMBDA k1 : Grow(k1, k.snd_una))

-----------------------------------------------------------------------------
\* ikcp_wnd_unused.
Unused(k) == KMax(WndRcv - Len(k.rcv_queue), 0)

\* Mutant: the probe timer is started again before it is looked at.
Probing_Restart(k, asked) ==
    IF k.rmt_wnd # 0 THEN [k EXCEPT !.probe_wait = FALSE]
    ELSE [k EXCEPT !.probe_wait = TRUE]

\* The probing part of ikcp_flush: asked is that the probe timer has run out.
Probing(k, asked) ==
    IF k.rmt_wnd # 0 THEN [k EXCEPT !.probe_wait = FALSE]
    ELSE IF ~k.probe_wait THEN [k EXCEPT !.probe_wait = TRUE]
    ELSE IF asked THEN [k EXCEPT !.probe = @ \cup {"ask"}]
    ELSE k

\* The window ikcp_flush computes.
Window(k) ==
    LET w == KMin(WndSnd, k.rmt_wnd) IN IF setup.flow THEN KMin(k.cwnd, w) ELSE w

\* The loop of ikcp_flush that moves fragments into the window.
FillWindow(k) ==
    LET n == KMax(0, KMin(Len(k.snd_queue), k.snd_una + Window(k) - k.snd_nxt))
        new == [i \in 1..n |-> [sn |-> k.snd_nxt + i - 1,
                                msg |-> k.snd_queue[i].msg,
                                frg |-> k.snd_queue[i].frg,
                                xmit |-> 0, fastack |-> 0]]
    IN  [k EXCEPT !.snd_buf = @ \o new, !.snd_nxt = @ + n,
                  !.snd_queue = SubSeq(@, n + 1, Len(@))]

\* Why a segment of snd_buf is written in this flush: it never was, its
\* timer has run out, it has been skipped often enough, or not at all.
Cause(seg, due) ==
    IF seg.xmit = 0 THEN "first"
    ELSE IF seg.sn \in due THEN "timeout"
    ELSE IF /\ FastResend > 0 /\ seg.fastack >= FastResend
            /\ FastLimit = 0 \/ seg.xmit <= FastLimit
         THEN "fast"
    ELSE "none"

\* Count the transmission; xmit matters up to FastLimit + 1 only.
Transmitted(seg, cause) ==
    IF cause = "none" THEN seg
    ELSE [seg EXCEPT !.xmit = KMin(@ + 1, FastLimit + 1),
                     !.fastack = IF cause = "fast" THEN 0 ELSE @]

\* The end of ikcp_flush: the congestion window shrinks after a resend.
Shrunk(k, window, change, lost) ==
    LET half == KMax((k.snd_nxt - k.snd_una) \div 2, ThreshMin)
        cwnd == IF lost THEN 1
                ELSE IF change THEN half + FastResend ELSE KMax(k.cwnd, 1)
    IN  [k EXCEPT
           !.ssthresh = IF lost THEN KMax(window \div 2, ThreshMin)
                        ELSE IF change THEN half ELSE @,
           !.cwnd = cwnd,
           !.incr = IF lost \/ change \/ k.cwnd < 1 THEN cwnd * Mss ELSE @]

\* The segments a flush writes: acknowledgements, probes, data.
Control(k, cmd, sn) ==
    [cmd |-> cmd, sn |-> sn, una |-> k.rcv_nxt, wnd |-> Unused(k)]
Push(k, seg) ==
    [cmd |-> "push", sn |-> seg.sn, una |-> k.rcv_nxt, wnd |-> Unused(k),
     msg |-> seg.msg, frg |-> seg.frg]

\* The last part of ikcp_flush: transmit the window, after the control
\* segments; [k: the control block after, out: the segments written].
Transmit(k, filled, due, window) ==
    LET cause == [i \in DOMAIN filled.snd_buf |-> Cause(filled.snd_buf[i], due)]
        written == SelectSeq(filled.snd_buf, LAMBDA s : Cause(s, due) # "none")
        acks == [i \in DOMAIN k.acklist |-> Control(k, "ack", k.acklist[i])]
        asks == IF "ask" \in filled.probe THEN <<Control(k, "wask", 0)>> ELSE <<>>
        tells == IF "tell" \in filled.probe THEN <<Control(k, "wins", 0)>> ELSE <<>>
        sent1 == [filled EXCEPT !.acklist = <<>>, !.probe = {},
                    !.snd_buf = [i \in DOMAIN @ |-> Transmitted(@[i], cause[i])]]
    IN  [k |-> Once(sent1, LAMBDA k1 :
                    Shrunk(k1, window, "fast" \in Range(cause),
                           "timeout" \in Range(cause))),
         out |-> acks \o asks \o tells
                   \o [i \in DOMAIN written |-> Push(k, written[i])]]

\* ikcp_flush: window is computed before snd_queue is moved.
Flush(k, due, asked) ==
    Once(Probing(k, asked),
         LAMBDA probed : Once(FillWindow(probed),
             LAMBDA filled : Transmit(k, filled, due, Window(probed))))

\* The datagrams of those segments: a segment that does not fit starts a new
\* one.
Room(seg) == IF seg.cmd = "push" THEN PushSize ELSE 1
Bytes(datagram) == Fold(LAMBDA n, s : n + Room(s), 0, datagram)
Pack(segs) ==
    Fold(LAMBDA ds, s : IF ds # <<>> /\ Bytes(Last(ds)) + Room(s) <= Mtu
                        THEN Front(ds) \o <<Append(Last(ds), s)>>
                        ELSE Append(ds, <<s>>),
         <<>>, segs)

\* LatencySimulator::send: a full network drops the datagram.
Carry(held, segs) ==
    Fold(LAMBDA h, d : IF Cardinality(h) >= NetMax THEN h ELSE h \cup {d},
         held, Pack(segs))

-----------------------------------------------------------------------------
KcpInit ==
    /\ kcp = [e \in Ends |-> Fresh]
    /\ net = [e \in Ends |-> {}]
    /\ sent = [e \in Ends |-> <<>>] /\ got = [e \in Ends |-> <<>>]
    /\ turn = 0 /\ setup \in Setups /\ faults = setup.faults

\* Nothing is under way and nobody is about to answer: what is not
\* acknowledged now never will be without a timer.
Quiet ==
    \A e \in Ends : net[e] = {} /\ kcp[e].acklist = <<>> /\ kcp[e].probe = {}

Outstanding(e) == { kcp[e].snd_buf[i].sn : i \in DOMAIN kcp[e].snd_buf }

\* The client hands its next message to ikcp_send.
ClientSend ==
    /\ turn < Len(setup.pieces)
    /\ turn' = turn + 1
    /\ kcp' = [kcp EXCEPT !["a"] = Send(@, turn + 1)]
    /\ sent' = [sent EXCEPT !["a"] =
                    IF Accepts(turn + 1) THEN Append(@, turn + 1) ELSE @]
    /\ UNCHANGED <<net, got, setup, faults>>

\* ikcp_update: the timers of the segments in due have run out, and the
\* timer of the probe if asked.
Update(e, due, asked) ==
    \E f \in {Flush(kcp[e], due, asked)} :
    /\ kcp' = [kcp EXCEPT ![e] = f.k]
    /\ net' = [net EXCEPT ![Peer(e)] = Carry(@, f.out)]
    /\ UNCHANGED <<sent, got, turn, setup>>

Tick(e) == Update(e, IF Quiet THEN Outstanding(e) ELSE {}, Quiet)
           /\ UNCHANGED faults

\* A timer that runs out while the answer is still on its way.
EarlyTick(e) ==
    /\ ~Quiet /\ faults > 0 /\ faults' = faults - 1
    /\ \E sn \in Outstanding(e) :
          \/ Update(e, { s \in Outstanding(e) : s <= sn }, TRUE)
          \/ Update(e, {sn}, FALSE)

\* One ikcp_recv of an end; the server sends the message back at once.
\* acc is [k, got, sent] of that end.
Take(e, acc) ==
    LET echo(m) == e = "b" /\ m # 0
        took(k, m) == [k |-> IF echo(m) THEN Send(k, m) ELSE k,
                       got |-> Append(acc.got, m),
                       sent |-> IF echo(m) THEN Append(acc.sent, m) ELSE acc.sent]
    IN  IF Ready(acc.k) = 0 THEN acc
        ELSE Once(Message(acc.k),
                  LAMBDA m : Once(Recv(acc.k), LAMBDA k : took(k, m)))

Account(e, k) == [k |-> k, got |-> got[e], sent |-> sent[e]]
Settle(e, acc) ==
    /\ kcp' = [kcp EXCEPT ![e] = acc.k]
    /\ got' = [got EXCEPT ![e] = acc.got]
    /\ sent' = [sent EXCEPT ![e] = acc.sent]

\* KcpServer::HandleSession and KcpClient::Run: ikcp_recv until it has none.
TakeAll(e, k) ==
    Fold(LAMBDA acc, i : Take(e, acc), Account(e, k),
         [i \in 1..(Len(k.rcv_queue) + Len(k.rcv_buf)) |-> i])

ReceiveAndDrain(e, datagram, rest) ==
    /\ setup.app = "drain"
    /\ \E k \in {Input(kcp[e], datagram)} :
          \E acc \in {TakeAll(e, k)} : Settle(e, acc)
    /\ net' = [net EXCEPT ![e] = rest]

\* The loops of server.c and client.c: one ikcp_recv for one datagram.  The
\* server offers a buffer of the datagram's size, answers and flushes.
ReceiveOne(e, datagram, rest) ==
    /\ setup.app = "one"
    /\ \E k \in {Input(kcp[e], datagram)} :
         LET fits == \/ e = "a"
                     \/ Ready(k) * (PushSize - 1) <= Bytes(datagram)
         IN
         \E acc \in {IF fits THEN Take(e, Account(e, k)) ELSE Account(e, k)} :
             IF e = "b" /\ fits /\ Ready(k) > 0
             THEN \E f \in {Flush(acc.k, {}, FALSE)} :
                    /\ Settle(e, [acc EXCEPT !.k = f.k])
                    /\ net' = [net EXCEPT ![e] = rest,
                                          ![Peer(e)] = Carry(@, f.out)]
             ELSE Settle(e, acc) /\ net' = [net EXCEPT ![e] = rest]

\* The loop of test.cpp: kcp2 is given its datagrams first and read later;
\* kcp1 is read after both, with nothing of its own in between.
ReceiveLate(e, datagram, rest) ==
    /\ setup.app = "slow"
    /\ \E k \in {Input(kcp[e], datagram)} :
          \E acc \in {IF e = "a" THEN TakeAll(e, k) ELSE Account(e, k)} :
              Settle(e, acc)
    /\ net' = [net EXCEPT ![e] = rest]

Receive(e) ==
    \E d \in net[e] :
        /\ \/ ReceiveAndDrain(e, d, net[e] \ {d})
           \/ ReceiveOne(e, d, net[e] \ {d})
           \/ ReceiveLate(e, d, net[e] \ {d})
        /\ UNCHANGED <<turn, setup, faults>>

\* A datagram that arrives and will arrive once more.
ReceiveTwice(e) ==
    \E d \in net[e] :
        /\ faults > 0 /\ faults' = faults - 1
        /\ \/ ReceiveAndDrain(e, d, net[e])
           \/ ReceiveOne(e, d, net[e])
           \/ ReceiveLate(e, d, net[e])
        /\ UNCHANGED <<turn, setup>>

Lose(e) ==
    /\ faults > 0 /\ faults' = faults - 1
    /\ \E d \in net[e] : net' = [net EXCEPT ![e] = @ \ {d}]
    /\ UNCHANGED <<kcp, sent, got, turn, setup>>

AppRecv ==
    /\ setup.app = "slow" /\ Ready(kcp["b"]) > 0
    /\ \E acc \in {TakeAll("b", kcp["b"])} : Settle("b", acc)
    /\ UNCHANGED <<net, turn, setup, faults>>

KcpNext ==
    \/ ClientSend
    \/ AppRecv
    \/ \E e \in Ends : Tick(e) \/ EarlyTick(e) \/ Receive(e)
                        \/ ReceiveTwice(e) \/ Lose(e)

KcpSafety == KcpInit /\ [][KcpNext]_kcpVars

\* The loops run for ever: they send, tick, read the socket and the queue.
KcpSpec ==
    /\ KcpSafety
    /\ WF_kcpVars(ClientSend)
    /\ WF_kcpVars(AppRecv)
    /\ \A e \in Ends : WF_kcpVars(Tick(e)) /\ WF_kcpVars(Receive(e))

-----------------------------------------------------------------------------
Held(k) == Range(k.rcv_buf)
Sns(q) == { q[i].sn : i \in DOMAIN q }
Ascending(q) == \A i, j \in DOMAIN q : i < j => q[i].sn < q[j].sn

\* The queues are bounded by the windows, the two buffers are sorted by
\* sequence number without repetition, and the window of unacknowledged
\* segments never outgrows snd_wnd.
KcpTypeOK ==
    /\ setup \in Setups /\ faults \in 0..setup.faults
    /\ turn \in 0..Len(setup.pieces)
    /\ \A e \in Ends :
         LET k == kcp[e] IN
         /\ Ascending(k.snd_buf) /\ Ascending(k.rcv_buf)
         /\ Sns(k.snd_buf) \subseteq k.snd_una..(k.snd_nxt - 1)
         /\ Sns(k.rcv_buf) \subseteq k.rcv_nxt..(k.rcv_nxt + WndRcv - 1)
         /\ Len(k.rcv_queue) <= WndRcv
         /\ k.snd_nxt - k.snd_una <= WndSnd
         /\ k.rmt_wnd \in 0..WndRcv
         /\ k.probe \subseteq {"ask", "tell"}
         /\ Cardinality(net[e]) <= NetMax

\* Whatever the network does, an end is given the messages its peer sent,
\* whole, in order, each once.
MessagesInOrder ==
    \A e \in Ends : IsPrefix(got[e], sent[Peer(e)])

\* An end forgets a fragment it has sent (parse_ack, parse_una) only when
\* the other end holds it or has passed it on.
AckedIsHeld ==
    \A e \in Ends :
        \A sn \in 0..(kcp[e].snd_nxt - 1) :
            \/ sn \in Sns(kcp[e].snd_buf)
            \/ sn < kcp[Peer(e)].rcv_nxt
            \/ sn \in Sns(kcp[Peer(e)].rcv_buf)

\* Whatever the network loses, repeats and delays: the windows and buffers keep
\* their bounds, messages come out whole, in order and once, and nothing is
\* forgotten before the other end has it (ikcp.c:520-900).
KcpSound == KcpTypeOK /\ MessagesInOrder /\ AckedIsHeld

\* With ends that read until nothing is left, or go on reading, every message
\* comes back in the end and nothing stays unacknowledged, lost datagrams,
\* early timeouts and a closed window notwithstanding.  (An end that reads
\* once for a datagram may leave a message in the queue for good.)
EverythingComesBack ==
    setup.app # "one" =>
        <>[](/\ turn = Len(setup.pieces)
             /\ got["b"] = sent["a"] /\ got["a"] = sent["a"]
             /\ \A e \in Ends : kcp[e].snd_buf = <<>> /\ kcp[e].snd_queue = <<>>)

-----------------------------------------------------------------------------
(* The cases of the run: with windows of three segments a message of three *)
(* fragments is refused by ikcp_send.                                      *)
Case(app, flow, pieces, f) ==
    [app |-> app, flow |-> flow, pieces |-> pieces, faults |-> f]
MCSetups ==
    { Case("drain", TRUE, <<1, 3, 2>>, 1), Case("drain", FALSE, <<1, 1>>, 1),
      Case("one", TRUE, <<1, 1, 1>>, 1),
      Case("slow", TRUE, <<1, 2, 1>>, 0), Case("slow", FALSE, <<2, 1>>, 0) }
=============================================================================
