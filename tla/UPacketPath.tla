----------------------------- MODULE UPacketPath -----------------------------
(***************************************************************************)
(* The way of the frames through the stack (tcp.c): the main core moves    *)
(* them between the port and the rings "in" and "out" and runs the ARP      *)
(* timer; the packet core takes bursts from "in", learns addresses, gives   *)
(* UDP and TCP to the stack and everything else to the kernel (KNI).        *)
(*                                                                         *)
(* What is followed is the buffer: the pool, the rings, the port and the   *)
(* kernel each hold references to buffers, and nothing in the code keeps    *)
(* two of them from holding the same one.  A buffer freed twice is in the   *)
(* pool twice and serves two frames at once; its content is that of the     *)
(* last one written.                                                       *)
(***************************************************************************)
EXTENDS Integers, Sequences, FiniteSets, Functions

CONSTANTS
  Bufs,          \* the buffers of the pool, NUM_MBUFS
  Frames,        \* what may arrive: kind "app", "icmp" or "arp", source, address
  Known,         \* the stations the timer asks for, and those frames come from
  PathBurst,     \* BURST_SIZE
  PathRing,      \* room in a ring, RING_SIZE
  MaxFrames,     \* bound on the frames that arrive
  MaxSends       \* bound on timer rounds and answers

NoOne == "nobody"      \* no address in the table

ASSUME PathAssumption ==
  /\ IsFiniteSet(Known)
  /\ \A f \in Frames : f.kind \in {"app", "icmp"} => f.src \in Known /\ f.mac # NoOne
  /\ PathBurst \in Nat \ {0} /\ PathRing \in Nat \ {0}
  /\ MaxFrames \in Nat /\ MaxSends \in Nat

VARIABLES
  up,            \* FALSE after rte_exit
  pool,          \* how often each buffer is in the pool
  ringIn, ringOut,
  port,          \* buffers in the send queue of the port
  kni,           \* how often each buffer is with the kernel
  content,       \* the frame in each buffer
  mainCore,      \* where the main core is, and its timer
  pktCore,       \* the packet core: its burst, the place in it, the half of the insertion
  table, entries,\* the ARP table, newest first, and table->count
  budget,        \* frames and sends left
  \* what happened so far, for the properties
  trouble,       \* buffers in a mixed burst, transmitted, or left by a full ring or FIFO
  missed,        \* buffers whose last frame found no room in the FIFO of the kernel
  first          \* the address in the first IPv4 frame of each station

pathVars == <<up, pool, ringIn, ringOut, port, kni, content, mainCore, pktCore, table, entries, budget, trouble, missed, first>>
ghosts   == <<trouble, missed, first>>

Nothing == [kind |-> "none", src |-> "none", mac |-> "none"]
Asleep  == [pc |-> "rx", asks |-> <<>>, n |-> 0, had |-> FALSE]
PollIdle == [pc |-> "poll", burst |-> <<>>, i |-> 1]

PathInit ==
  /\ up = TRUE
  /\ pool = [b \in Bufs |-> 1] /\ kni = [b \in Bufs |-> 0]
  /\ ringIn = <<>> /\ ringOut = <<>> /\ port = <<>>
  /\ content = [b \in Bufs |-> Nothing]
  /\ mainCore = Asleep /\ pktCore = PollIdle
  /\ table = <<>> /\ entries = 0
  /\ budget = [frames |-> MaxFrames, sends |-> MaxSends]
  /\ trouble = [b \in Bufs |-> FALSE] /\ missed = {} /\ first = [s \in Known |-> NoOne]

Times(s, b) == Cardinality({i \in DOMAIN s : s[i] = b})
Plus(f, s)  == [b \in Bufs |-> f[b] + Times(s, b)]
Sources     == {table[i].ip : i \in 1..Len(table)}

\* rte_ring_..._enqueue_burst puts what fits; the rest stays with nobody.
Fits(ring, s) == SubSeq(s, 1, IF Len(s) <= PathRing - Len(ring) THEN Len(s) ELSE PathRing - Len(ring))
Left(ring, s) == SubSeq(s, Len(Fits(ring, s)) + 1, Len(s))
Mark(S)       == trouble' = [b \in Bufs |-> trouble[b] \/ b \in S]

\* The walk sees the first n entries.
ng_get_dst_macaddr(ip, n) ==
  LET at == {i \in 1..Len(table) : table[i].ip = ip /\ i <= n}
  IN  IF at = {} THEN NoOne ELSE table[CHOOSE i \in at : \A j \in at : i <= j].mac
-----------------------------------------------------------------------------
(* The main core *)

\* rte_eth_rx_burst into buffers of the pool, then the ring "in".
Rx ==
  /\ up /\ mainCore.pc = "rx"
  /\ mainCore' = [mainCore EXCEPT !.pc = "tx"]
  /\ \E n \in 0..PathBurst : \E fs \in [1..n -> Frames], bs \in [1..n -> Bufs] :
       /\ n <= budget.frames
       /\ \A b \in Bufs : Times(bs, b) <= pool[b]
       /\ pool' = [b \in Bufs |-> pool[b] - Times(bs, b)]
       /\ content' = [b \in Bufs |-> IF b \in Range(bs) THEN fs[CHOOSE i \in 1..n : bs[i] = b] ELSE content[b]]
       /\ ringIn' = ringIn \o Fits(ringIn, bs)
       /\ budget' = [budget EXCEPT !.frames = @ - n]
       /\ Mark(Range(Left(ringIn, bs))) /\ missed' = missed \ Range(bs)
  /\ UNCHANGED <<up, ringOut, port, kni, pktCore, table, entries, first>>

\* rte_eth_tx_burst takes the burst, all or part, and the loop frees all of it.
Tx ==
  /\ up /\ mainCore.pc = "tx"
  /\ mainCore' = [mainCore EXCEPT !.pc = "rx"]
  /\ LET n  == IF Len(ringOut) < PathBurst THEN Len(ringOut) ELSE PathBurst
         tx == SubSeq(ringOut, 1, n)
     IN  /\ ringOut' = SubSeq(ringOut, n + 1, Len(ringOut))
         /\ \E k \in 0..n : port' = port \o SubSeq(tx, 1, k) /\ Mark(Range(SubSeq(tx, 1, k)))
         /\ pool' = Plus(pool, tx)
  /\ UNCHANGED <<up, ringIn, kni, content, pktCore, table, entries, budget, missed, first>>

\* The order in which the timer asks for the stations, always the same.
Stations == CHOOSE s \in [1..Cardinality(Known) -> Known] : Range(s) = Known

\* Enough cycles passed: rte_timer_manage calls arp_request_timer_cb.
Timer ==
  /\ up /\ mainCore.pc = "rx" /\ budget.sends > 0
  /\ budget' = [budget EXCEPT !.sends = @ - 1]
  /\ mainCore' = [Asleep EXCEPT !.pc = "count", !.asks = Stations]
  /\ UNCHANGED <<up, pool, ringIn, ringOut, port, kni, content, pktCore, table, entries, ghosts>>

\* ng_get_dst_macaddr of the timer: the count is read first, without the lock.
TimerCount ==
  /\ up /\ mainCore.pc = "count" /\ mainCore.asks # <<>>
  /\ mainCore' = [mainCore EXCEPT !.pc = "ask", !.n = entries, !.had = Head(mainCore.asks) \in Sources]
  /\ UNCHANGED <<up, pool, ringIn, ringOut, port, kni, content, pktCore, table, entries, budget, ghosts>>

\* ng_send_arp: a buffer, or the end of the program when there is none.
Send(f, ring) ==
  \/ /\ \A b \in Bufs : pool[b] = 0
     /\ up' = FALSE /\ UNCHANGED <<pool, content, ringOut, trouble>>
  \/ \E b \in Bufs :
       /\ pool[b] > 0
       /\ pool' = [pool EXCEPT ![b] = @ - 1]
       /\ content' = [content EXCEPT ![b] = f]
       /\ ringOut' = ring \o Fits(ring, <<b>>)
       /\ Mark(Range(Left(ring, <<b>>)))
       /\ UNCHANGED up

TimerAsk ==
  /\ up /\ mainCore.pc = "ask"
  /\ LET ip == Head(mainCore.asks)
     IN  Send([kind |-> "request", src |-> ip, mac |-> ng_get_dst_macaddr(ip, mainCore.n)], ringOut)
  /\ mainCore' = IF Len(mainCore.asks) = 1 THEN Asleep
                 ELSE [mainCore EXCEPT !.pc = "count", !.asks = Tail(@)]
  /\ UNCHANGED <<ringIn, port, kni, pktCore, table, entries, budget, missed, first>>
-----------------------------------------------------------------------------
(* The packet core *)

Poll ==
  /\ up /\ pktCore.pc = "poll" /\ ringIn # <<>>
  /\ LET n == IF Len(ringIn) < PathBurst THEN Len(ringIn) ELSE PathBurst
     IN  /\ pktCore' = [pc |-> "frame", burst |-> SubSeq(ringIn, 1, n), i |-> 1]
         /\ ringIn' = SubSeq(ringIn, n + 1, Len(ringIn))
  /\ UNCHANGED <<up, pool, ringOut, port, kni, content, mainCore, table, entries, budget, ghosts>>

At       == pktCore.burst[pktCore.i]
Frame    == content[At]
ToStack  == Frame.kind = "app"
AtEnd    == pktCore.i = Len(pktCore.burst)
NextOne  == IF AtEnd THEN PollIdle ELSE [pktCore EXCEPT !.pc = "frame", !.i = @ + 1]
Seen     == first' = IF Frame.src \in Known /\ first[Frame.src] = NoOne
                     THEN [first EXCEPT ![Frame.src] = Frame.mac] ELSE first

\* An IPv4 frame of a station that is not in the table: LL_ADD at the head,
ng_arp_entry_insert ==
  /\ up /\ pktCore.pc = "frame" /\ Frame.kind \in {"app", "icmp"}
  /\ IF ng_get_dst_macaddr(Frame.src, entries) # NoOne
     THEN pktCore' = [pktCore EXCEPT !.pc = "handle"] /\ UNCHANGED table
     ELSE /\ table' = <<[ip |-> Frame.src, mac |-> Frame.mac]>> \o table
          /\ pktCore' = [pktCore EXCEPT !.pc = "count"]
  /\ Seen
  /\ UNCHANGED <<up, pool, ringIn, ringOut, port, kni, content, mainCore, entries, budget, trouble, missed>>

\* then count; the two are apart for a reader without the lock.
CountEntry ==
  /\ up /\ pktCore.pc = "count"
  /\ entries' = entries + 1
  /\ pktCore' = [pktCore EXCEPT !.pc = "handle"]
  /\ UNCHANGED <<up, pool, ringIn, ringOut, port, kni, content, mainCore, table, budget, ghosts>>

\* udp_process and ng_tcp_process free the buffer on every path.
ToSockets ==
  /\ up /\ pktCore.pc = "handle" /\ ToStack
  /\ pool' = Plus(pool, <<At>>)
  /\ pktCore' = NextOne
  /\ UNCHANGED <<up, ringIn, ringOut, port, kni, content, mainCore, table, entries, budget, ghosts>>

\* The FIFO of the kernel has room for k frames of the burst.
KniTakes(k) ==
  /\ kni' = Plus(kni, SubSeq(pktCore.burst, 1, k))
  /\ Mark(IF Len(pktCore.burst) > 1 \/ k = 0 THEN Range(pktCore.burst) ELSE {})
  /\ missed' = IF k < pktCore.i THEN missed \cup {At} ELSE missed

\* Mutant: the kernel gets the one frame, as was meant, and the core frees it as well.
ToKernel_Frees ==
  /\ up /\ \/ pktCore.pc = "handle" /\ ~ToStack
           \/ pktCore.pc = "frame" /\ Frame.kind \notin {"app", "icmp"}
  /\ pool' = Plus(pool, <<At>>)
  /\ \E k \in 0..Len(pktCore.burst) : KniTakes(k)
  /\ pktCore' = NextOne
  /\ UNCHANGED <<up, ringIn, ringOut, port, content, mainCore, table, entries, budget, first>>

\* Everything else: rte_kni_tx_burst offers the kernel the whole burst; what it
\* does not take is not looked at again.
ToKernel ==
  /\ up /\ \/ pktCore.pc = "handle" /\ ~ToStack
           \/ pktCore.pc = "frame" /\ Frame.kind \notin {"app", "icmp"}
  /\ \E k \in 0..Len(pktCore.burst) : KniTakes(k)
  /\ pktCore' = NextOne
  /\ UNCHANGED <<up, pool, ringIn, ringOut, port, content, mainCore, table, entries, budget, first>>

\* udp_out and ng_tcp_out with something to send to ip: the answer, or a
\* request for its address.
Out ==
  /\ up /\ pktCore.pc = "poll" /\ budget.sends > 0
  /\ budget' = [budget EXCEPT !.sends = @ - 1]
  /\ \E ip \in Known :
       LET mac == ng_get_dst_macaddr(ip, entries)
       IN  Send([kind |-> IF mac = NoOne THEN "request" ELSE "answer", src |-> ip, mac |-> mac], ringOut)
  /\ UNCHANGED <<ringIn, port, kni, mainCore, pktCore, table, entries, missed, first>>
-----------------------------------------------------------------------------
(* The port and the kernel free what they were given, once each. *)

PortDone ==
  /\ up /\ port # <<>>
  /\ pool' = Plus(pool, <<Head(port)>>) /\ port' = Tail(port)
  /\ UNCHANGED <<up, ringIn, ringOut, kni, content, mainCore, pktCore, table, entries, budget, ghosts>>

KernelDone ==
  /\ up
  /\ \E b \in Bufs : /\ kni[b] > 0
                     /\ kni' = [kni EXCEPT ![b] = @ - 1] /\ pool' = Plus(pool, <<b>>)
  /\ UNCHANGED <<up, ringIn, ringOut, port, content, mainCore, pktCore, table, entries, budget, ghosts>>

MainCore  == Rx \/ Tx \/ TimerCount \/ TimerAsk
PktCore   == Poll \/ ng_arp_entry_insert \/ CountEntry \/ ToSockets \/ ToKernel
PathNext  == MainCore \/ Timer \/ PktCore \/ Out \/ PortDone \/ KernelDone

PathSpec == PathInit /\ [][PathNext]_pathVars

-----------------------------------------------------------------------------
PathTypeOK ==
  /\ up \in BOOLEAN
  /\ pool \in [Bufs -> Nat] /\ kni \in [Bufs -> Nat]
  /\ ringIn \in Seq(Bufs) /\ Len(ringIn) <= PathRing
  /\ ringOut \in Seq(Bufs) /\ Len(ringOut) <= PathRing
  /\ port \in Seq(Bufs)
  /\ entries \in 0..Cardinality(Known)
  /\ missed \subseteq Bufs
  /\ pktCore.pc \in {"poll", "frame", "count", "handle"} /\ pktCore.burst \in Seq(Bufs)
  /\ mainCore.pc \in {"rx", "tx", "count", "ask"}

Owners(b) == pool[b] + kni[b] + Times(ringIn, b) + Times(ringOut, b) + Times(port, b)
             + (IF pktCore.pc = "poll" THEN 0 ELSE Times(SubSeq(pktCore.burst, pktCore.i, Len(pktCore.burst)), b))

\* A buffer has exactly one owner as long as it was not in a burst with a frame
\* for the kernel and another one (rte_kni_tx_burst takes the burst), was not
\* transmitted (the port and the loop free it) and found room in the rings and,
\* where it was for the kernel, in its FIFO (nobody looks at what was not taken).
OneOwner == \A b \in Bufs : ~trouble[b] => Owners(b) = 1

\* The table has each station once, with the address of its first IPv4 frame,
\* for ever: a station that changes its address is never learned again.  The
\* count is behind by one only inside the insertion.
TableIsFirstSeen ==
  /\ \A i, j \in 1..Len(table) : table[i].ip = table[j].ip => i = j
  /\ \A i \in 1..Len(table) : table[i].mac = first[table[i].ip]
  /\ Len(table) = entries + (IF pktCore.pc = "count" THEN 1 ELSE 0)
  /\ \A s \in Known : s \in Sources <=> first[s] # NoOne

\* The timer asks everybody for a station it has in the table only when the
\* count it read is behind the list it walks: it was read inside an insertion,
\* or an insertion came after it.
MissIsARace ==
  (mainCore.pc = "ask" /\ mainCore.had /\ ng_get_dst_macaddr(Head(mainCore.asks), mainCore.n) = NoOne)
    => mainCore.n < Len(table)

\* The buffers and the ARP table of the stack: one owner for each buffer outside the
\* known trouble, one first-seen address for each station (tcp.c:220-240, 801, 2722).
PathSound == PathTypeOK /\ OneOwner /\ TableIsFirstSeen /\ MissIsARace

\* What is owed to a buffer the port has filled: to come back to the pool through
\* the stack or the kernel, unless the program ends or the kernel had no room for
\* its frame; no other path of pkt_process keeps one.
PathOwes(b) == b \in Range(ringIn)
PathGives(b) == pool[b] > 0 \/ ~up \/ b \in missed
=============================================================================
