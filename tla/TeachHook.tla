----------------------------- MODULE TeachHook ------------------------------
(***************************************************************************)
(* The echo server Final_hook_zzx_tcp.c: coroutines on ucontext, and read, *)
(* write, accept and close replaced by hooks that suspend the coroutine    *)
(* until epoll reports the descriptor.                                     *)
(*                                                                         *)
(* One coroutine accepts, one serves each client; a coroutine is named by  *)
(* its client.  One that returns is never freed.                           *)
(***************************************************************************)
EXTENDS TeachSocket

VARIABLES
    readyq,   \* the ready queue
    waits,    \* who is in the list wait_root, which is only searched
    current,  \* the coroutine that runs, or Sched
    pc,       \* pc[k]: the call coroutine k is in
    armed,    \* armed[k]: what epoll watches k's descriptor for, "" if nothing
    data,     \* data[p]: what read gave and write has not sent
    room,     \* room[p]: how much the client's side takes: "ample", "tight", "none"
    cut       \* clients that got only part of a write

hookVars == <<sockVars, readyq, waits, current, pc, armed, data, room, cut>>

Sched == "loop"
Acceptor == "acceptor"
ASSUME HookAssumption == Sched \notin Peers /\ Acceptor \notin Peers
Coros == Peers \cup {Acceptor}
IsHook == prog = "hook"

HookInit ==
    /\ readyq = <<Acceptor>> /\ waits = {} /\ current = Sched
    /\ pc = [k \in Coros |-> IF k = Acceptor THEN "accept" ELSE "none"]
    /\ armed = [k \in Coros |-> ""]
    /\ data = [p \in Peers |-> <<>>]
    /\ room = [p \in Peers |-> "ample"] /\ cut = {}

-----------------------------------------------------------------------------
\* wait_for_read, and its copy in write: insert_wait, EPOLL_CTL_ADD, yield.
Suspend(k, event) ==
    /\ waits' = waits \cup {k}
    /\ armed' = [armed EXCEPT ![k] = event]
    /\ current' = Sched

\* schedule_loop, the ready queue.
Resume ==
    /\ down = "up" /\ current = Sched /\ readyq # <<>>
    /\ current' = Head(readyq) /\ readyq' = Tail(readyq)
    /\ UNCHANGED <<sockVars, waits, pc, armed, data, room, cut>>

\* The kernel: watched descriptors that are ready.  An error or a hang-up is
\* reported whatever is watched.
HookEvents ==
    { k \in Coros :
        \/ k = Acceptor /\ armed[k] = "in" /\ queue # <<>>
        \/ k # Acceptor /\ armed[k] = "in" /\ Readable(k)
        \/ k # Acceptor /\ armed[k] = "out" /\ (room[k] # "none" \/ peer[k].end # "no") }

\* Mutant: a coroutine that is ready stays in the list of waiting ones.
EpollWait_Keeps ==
    /\ down = "up" /\ current = Sched /\ readyq = <<>> /\ HookEvents # {}
    /\ \E order \in SetToSeqs(HookEvents) : readyq' = order
    /\ armed' = [k \in Coros |-> IF k \in HookEvents THEN "" ELSE armed[k]]
    /\ UNCHANGED <<sockVars, waits, current, pc, data, room, cut>>

\* schedule_loop: epoll_wait; each coroutine that waits for a reported
\* descriptor becomes ready, and the descriptor is watched no longer.
EpollWait ==
    /\ down = "up" /\ current = Sched /\ readyq = <<>> /\ HookEvents # {}
    /\ \E order \in SetToSeqs(HookEvents) : readyq' = order
    /\ waits' = waits \ HookEvents
    /\ armed' = [k \in Coros |-> IF k \in HookEvents THEN "" ELSE armed[k]]
    /\ UNCHANGED <<sockVars, current, pc, data, room, cut>>

\* accept takes a descriptor before it looks at the queue: without one it fails
\* at once, and accept_handler calls it again without ever yielding.
Spinning == current = Acceptor /\ Cardinality(Open) = setup.limit

\* The hook accept and accept_handler, one call: a client and its coroutine, or
\* nothing there.
HookAccept ==
    /\ down = "up" /\ current = Acceptor /\ ~Spinning
    /\ IF queue = <<>>
       THEN Suspend(Acceptor, "in") /\ UNCHANGED <<peer, queue, readyq, pc>>
       ELSE LET p == Head(queue) IN
            /\ queue' = Tail(queue)
            /\ \/ /\ peer' = [peer EXCEPT ![p] = Accepted(p)]
                  /\ readyq' = Append(readyq, p) /\ pc' = [pc EXCEPT ![p] = "read"]
               \/ \* no memory for its argument or its coroutine: close
                  /\ peer' = [peer EXCEPT ![p] = Closed(@)]
                  /\ UNCHANGED <<readyq, pc>>
            /\ UNCHANGED <<waits, armed, current>>
    /\ UNCHANGED <<setup, down, data, room, cut>>

\* The hook read and client_handler: something to write, nothing yet, or the
\* end or an error, and close.
HookRead(p) ==
    /\ down = "up" /\ current = p /\ pc[p] = "read"
    /\ \/ /\ peer[p].box # <<>>
          /\ data' = [data EXCEPT ![p] = Taken(p, setup.buf)]
          /\ peer' = [peer EXCEPT ![p] = Received(p, setup.buf)]
          /\ pc' = [pc EXCEPT ![p] = "write"]
          /\ UNCHANGED <<waits, armed, current>>
       \/ /\ ~Readable(p) /\ Suspend(p, "in")
          /\ UNCHANGED <<peer, data, pc>>
       \/ /\ Readable(p) /\ peer[p].box = <<>>
          /\ peer' = [peer EXCEPT ![p] = Closed(Received(p, setup.buf))]
          /\ pc' = [pc EXCEPT ![p] = "none"] /\ current' = Sched
          /\ UNCHANGED <<waits, armed, data>>
    /\ UNCHANGED <<setup, queue, down, readyq, room, cut>>

\* The part of its argument that write takes; the caller does not look.
Portions(p) ==
    IF room[p] = "tight" /\ peer[p].end = "no"
    THEN { SubSeq(data[p], 1, n) : n \in 1..Len(data[p]) } ELSE {data[p]}

\* The hook write, and back to read.
HookWrite(p) ==
    /\ down = "up" /\ current = p /\ pc[p] = "write"
    /\ IF room[p] = "none" /\ peer[p].end = "no"
       THEN Suspend(p, "out") /\ UNCHANGED <<peer, down, pc, data, cut>>
       ELSE /\ \E part \in Portions(p) :
                 /\ down' = IF SendKills(peer[p]) THEN "killed" ELSE "up"
                 /\ peer' = [peer EXCEPT ![p] = Answered(@, part)]
                 /\ cut' = IF Len(part) < Len(data[p]) THEN cut \cup {p} ELSE cut
            /\ data' = [data EXCEPT ![p] = <<>>]
            /\ pc' = [pc EXCEPT ![p] = "read"]
            /\ UNCHANGED <<waits, armed, current>>
    /\ UNCHANGED <<setup, queue, readyq, room>>

HookServer == Resume \/ EpollWait \/ HookAccept \/ \E p \in Peers : HookRead(p) \/ HookWrite(p)

-----------------------------------------------------------------------------
\* A client, and how fast it reads; one that closes with something unread resets.
HookClient(p) ==
    /\ \/ /\ Connect(p) \/ SendOrQuit(p)
          /\ room[p] = "none" => peer'[p].end # "fin"
          /\ UNCHANGED room
       \/ /\ peer[p].st = "open" /\ peer[p].end = "no"
          /\ \E how \in {"ample", "tight", "none"} \ {room[p]} : room' = [room EXCEPT ![p] = how]
          /\ UNCHANGED sockVars
    /\ UNCHANGED <<readyq, waits, current, pc, armed, data, cut>>

HookNext == (\E p \in Peers : HookClient(p)) \/ HookServer

-----------------------------------------------------------------------------
HookTypeOK ==
    /\ SockTypeOK
    /\ readyq \in Seq(Coros) /\ waits \subseteq Coros /\ current \in Coros \cup {Sched}
    /\ pc \in [Coros -> {"none", "accept", "read", "write"}]
    /\ armed \in [Coros -> {"", "in", "out"}]
    /\ \A p \in Peers : IsHook => Len(data[p]) <= setup.buf
    /\ cut \subseteq Peers

\* A coroutine that has not returned is in the ready queue, waits or runs, once; and
\* epoll watches the descriptors of those that wait, no others, so that no event
\* finds nobody and close finds nobody to wake
\* (Final_hook_zzx_tcp.c:131, 239, 315-330).
OneList ==
    IsHook =>
    /\ \A i, j \in DOMAIN readyq : readyq[i] = readyq[j] => i = j
    /\ Range(readyq) \cap waits = {} /\ current \notin Range(readyq) \cup waits
    /\ \A k \in Coros : /\ pc[k] # "none" <=> k \in Range(readyq) \cup waits \cup {current}
                        /\ armed[k] # "" <=> k \in waits
    /\ \A p \in Peers : pc[p] # "none" <=> p \in Open

\* A client whose window never made a write partial gets back what it sent, in
\* order; the result of write is not looked at (Final_hook_zzx_tcp.c:361).
HookEchoes == \A p \in Peers : IsHook /\ p \notin cut => Echoes(p)

\* The process is killed by a client that had sent twice and went away in between;
\* a client that sends once and goes never does it.
HookKills ==
    IsHook /\ down = "killed" =>
        \E p \in Peers : peer[p].end \in {"finrst", "told"} /\ peer[p].sent >= 2

\* The scheduler of the coroutine server: no coroutine in two places or in none, echoes
\* complete unless a write was cut, and one way only to kill the process
\* (Final_hook_zzx_tcp.c:131-352).
HookSound == HookTypeOK /\ OneList /\ HookEchoes /\ HookKills

\* What becomes of what a client sent, in the end: it is read, unless the acceptor
\* has used up the descriptors or the client itself does not read.
HookServed(p) ==
    \/ down # "up" \/ Spinning \/ room[p] = "none" \/ peer[p].st = "shut"
    \/ peer[p].box = <<>> /\ peer[p].end = "no"
=============================================================================
