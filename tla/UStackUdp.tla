----------------------------- MODULE UStackUdp ------------------------------
(***************************************************************************)
(* The UDP half of the user-space stack (tcp.c): frames come through the   *)
(* ring "in" to the packet core, which learns the sender's address, puts   *)
(* datagrams in the ring of the socket and signals; the echo server reads  *)
(* them piece by piece and its answers leave through the packet core and   *)
(* the ring "out".                                                         *)
(*                                                                         *)
(* A datagram is a number of pieces of UDP_APP_RECV_BUFFER_SIZE; the bytes  *)
(* of a piece are not told apart from those left in the buffer before.      *)
(* Rings hold RingSize entries; the allocations of rte_malloc succeed.     *)
(***************************************************************************)
EXTENDS Integers, Sequences, FiniteSets, SequencesExt

CONSTANTS
  Hosts,       \* machines on the network, each with its address
  Traffic,     \* how many datagrams each of them sends
  Pieces,      \* pieces of the longest datagram
  RingSize,    \* RING_SIZE
  BurstSize    \* BURST_SIZE

ASSUME UdpAssumption ==
  /\ Traffic \in [Hosts -> Nat]
  /\ Pieces \in Nat \ {0} /\ RingSize \in Nat \ {0} /\ BurstSize \in Nat \ {0}

VARIABLES
  tosend,      \* datagrams each host has still to send
  wire,        \* frames on their way to the port
  inRing, outRing,
  arp,         \* addresses in the table
  sndRing, rcvRing,  \* of the socket
  mutex,       \* holder of the socket's mutex
  udpCore,     \* the packet core: the burst it has in hand
  udpSrv,      \* the server's thread
  dropped,     \* datagrams of which a full ring took something
  heard        \* what left the port, in its order

udpVars == <<tosend, wire, inRing, outRing, arp, sndRing, rcvRing, mutex, udpCore, udpSrv, dropped, heard>>

UdpInit ==
  /\ tosend = Traffic
  /\ wire = <<>> /\ inRing = <<>> /\ outRing = <<>> /\ sndRing = <<>> /\ rcvRing = <<>>
  /\ arp = {} /\ mutex = "free"
  /\ udpCore = [pc |-> "poll", burst |-> <<>>]
  /\ udpSrv = [pc |-> "lock", piece |-> 0, of |-> 0]
  /\ dropped = {}
  /\ heard = <<>>

\* rte_ring_mp_enqueue refuses when the ring is full; no caller looks.
Enqueued(ring, x) == IF Len(ring) < RingSize THEN Append(ring, x) ELSE ring
Overflow(ring, x) == IF Len(ring) < RingSize THEN {} ELSE {x.of}
Few(ring)         == IF Len(ring) < BurstSize THEN Len(ring) ELSE BurstSize

-----------------------------------------------------------------------------
(* Hosts and the port *)

\* The datagram is known by its sender and its number.
HostSends(h) ==
  /\ tosend[h] > 0
  /\ \E n \in 1..Pieces :
       wire' = Append(wire, [of |-> <<h, tosend[h], n>>, from |-> 1, to |-> n])
  /\ tosend' = [tosend EXCEPT ![h] = @ - 1]
  /\ UNCHANGED <<inRing, outRing, arp, sndRing, rcvRing, mutex, udpCore, udpSrv, dropped, heard>>

\* The main loop: a burst from the port to "in" and one from "out" to the port.
MainLoop ==
  /\ wire # <<>> \/ outRing # <<>>
  /\ LET n     == Few(wire)
         rx    == SubSeq(wire, 1, n)
         room  == RingSize - Len(inRing)
         taken == IF n < room THEN n ELSE room
         tx    == SubSeq(outRing, 1, Few(outRing))
     IN  /\ wire' = SubSeq(wire, n + 1, Len(wire))
         /\ inRing' = inRing \o SubSeq(rx, 1, taken)
         /\ dropped' = dropped \cup {rx[i].of : i \in (taken + 1)..n}
         /\ outRing' = SubSeq(outRing, Len(tx) + 1, Len(outRing))
         /\ heard' = heard \o tx
  /\ UNCHANGED <<tosend, arp, sndRing, rcvRing, mutex, udpCore, udpSrv>>

-----------------------------------------------------------------------------
(* The packet core *)

UCore(pc) == udpCore.pc = pc

TakeBurst ==
  /\ UCore("poll") /\ (inRing # <<>> \/ sndRing # <<>>)
  /\ udpCore' = [pc |-> "burst", burst |-> SubSeq(inRing, 1, Few(inRing))]
  /\ inRing' = SubSeq(inRing, Few(inRing) + 1, Len(inRing))
  /\ UNCHANGED <<tosend, wire, outRing, arp, sndRing, rcvRing, mutex, udpSrv, dropped, heard>>

\* ng_arp_entry_insert; an entry is never changed and never leaves.
Learnt(h) == arp \cup {h}

\* The address of the sender of every frame is learnt, then the datagram.
udp_process ==
  /\ UCore("burst") /\ udpCore.burst # <<>>
  /\ LET f == Head(udpCore.burst)
     IN  /\ arp' = Learnt(f.of[1])
         /\ rcvRing' = Enqueued(rcvRing, f)
         /\ dropped' = dropped \cup Overflow(rcvRing, f)
  /\ udpCore' = [pc |-> "signal", burst |-> Tail(udpCore.burst)]
  /\ UNCHANGED <<tosend, wire, inRing, outRing, sndRing, mutex, udpSrv, heard>>

Alarmed == IF udpSrv.pc = "asleep" THEN [udpSrv EXCEPT !.pc = "lock"] ELSE udpSrv

\* Mutant: the signal is sent without the mutex.
udp_signal_Bare ==
  /\ UCore("signal")
  /\ udpSrv' = Alarmed
  /\ udpCore' = [udpCore EXCEPT !.pc = "burst"]
  /\ UNCHANGED <<tosend, wire, inRing, outRing, arp, sndRing, rcvRing, mutex, dropped, heard>>

udp_signal ==
  /\ UCore("signal") /\ mutex = "free"
  /\ udpSrv' = Alarmed
  /\ udpCore' = [udpCore EXCEPT !.pc = "burst"]
  /\ UNCHANGED <<tosend, wire, inRing, outRing, arp, sndRing, rcvRing, mutex, dropped, heard>>

\* One answer a round; for an unknown address an ARP request leaves and the
\* answer goes back to the end of its ring.
udp_out ==
  /\ UCore("burst") /\ udpCore.burst = <<>>
  /\ udpCore' = [udpCore EXCEPT !.pc = "poll"]
  /\ IF sndRing = <<>>
     THEN UNCHANGED <<sndRing, outRing, dropped>>
     ELSE LET ol == Head(sndRing)
          IN  IF ol.of[1] \in arp
              THEN /\ sndRing' = Tail(sndRing)
                   /\ outRing' = Enqueued(outRing, ol)
                   /\ dropped' = dropped \cup Overflow(outRing, ol)
              ELSE /\ sndRing' = Append(Tail(sndRing), ol)
                   /\ UNCHANGED <<outRing, dropped>>
  /\ UNCHANGED <<tosend, wire, inRing, arp, rcvRing, mutex, udpSrv, heard>>

UdpPacketCore == TakeBurst \/ udp_process \/ udp_signal \/ udp_out

-----------------------------------------------------------------------------
(* The server *)

USrv(pc) == udpSrv.pc = pc

UdpLock ==
  /\ USrv("lock") /\ mutex = "free"
  /\ mutex' = "srv"
  /\ udpSrv' = [udpSrv EXCEPT !.pc = "look"]
  /\ UNCHANGED <<tosend, wire, inRing, outRing, arp, sndRing, rcvRing, udpCore, dropped, heard>>

\* rte_ring_mc_dequeue, then pthread_cond_wait or pthread_mutex_unlock.
Dequeue ==
  /\ USrv("look")
  /\ IF rcvRing = <<>>
     THEN udpSrv' = [udpSrv EXCEPT !.pc = "doze"] /\ UNCHANGED <<rcvRing, mutex>>
     ELSE /\ udpSrv' = [pc |-> "got", piece |-> Head(rcvRing).from, of |-> Head(rcvRing)]
          /\ rcvRing' = Tail(rcvRing)
          /\ mutex' = "free"
  /\ UNCHANGED <<tosend, wire, inRing, outRing, arp, sndRing, udpCore, dropped, heard>>

UdpWait ==
  /\ USrv("doze")
  /\ mutex' = "free"
  /\ udpSrv' = [udpSrv EXCEPT !.pc = "asleep"]
  /\ UNCHANGED <<tosend, wire, inRing, outRing, arp, sndRing, rcvRing, udpCore, dropped, heard>>

Remainder(rest) ==
  /\ USrv("got")
  /\ IF rest.from <= rest.to
     THEN rcvRing' = Enqueued(rcvRing, rest) /\ dropped' = dropped \cup Overflow(rcvRing, rest)
     ELSE UNCHANGED <<rcvRing, dropped>>
  /\ udpSrv' = [udpSrv EXCEPT !.pc = "answer"]
  /\ UNCHANGED <<tosend, wire, inRing, outRing, arp, sndRing, mutex, udpCore, heard>>

\* What does not fit the buffer goes to the end of the ring, outside the mutex.
nrecvfrom_rest == Remainder([udpSrv.of EXCEPT !.from = @ + 1])

nsendto ==
  /\ USrv("answer")
  /\ LET ol == [udpSrv.of EXCEPT !.from = udpSrv.piece, !.to = udpSrv.piece]
     IN  sndRing' = Enqueued(sndRing, ol) /\ dropped' = dropped \cup Overflow(sndRing, ol)
  /\ udpSrv' = [pc |-> "lock", piece |-> 0, of |-> 0]
  /\ UNCHANGED <<tosend, wire, inRing, outRing, arp, rcvRing, mutex, udpCore, heard>>

udp_server_entry == UdpLock \/ Dequeue \/ UdpWait \/ nrecvfrom_rest \/ nsendto

UdpNext == MainLoop \/ UdpPacketCore \/ udp_server_entry \/ \E h \in Hosts : HostSends(h)

UdpSpec == UdpInit /\ [][UdpNext]_udpVars

-----------------------------------------------------------------------------
(* Properties *)

\* Every variable keeps its shape and no ring overflows.
UdpTypeOK ==
  /\ arp \subseteq Hosts /\ mutex \in {"free", "srv"}
  /\ \A r \in {inRing, outRing, sndRing, rcvRing} : Len(r) <= RingSize
  /\ Len(udpCore.burst) <= BurstSize

\* Every answer that waits to leave goes to an address the table knows: the
\* echo server never has to ask for one (tcp.c 786 comes before 792), and no
\* answer overtakes another by going back to the end of its ring (1127).
AddressKnown == \A i \in 1..Len(sndRing) : sndRing[i].of[1] \in arp

\* The pieces a host gets back for one datagram are its pieces in their order,
\* none twice, though every remainder goes to the end of the ring (1449); none
\* is missing in between unless a full ring took it.
PiecesInOrder ==
  \A i \in 1..Len(heard) :
    /\ \A j \in 1..(i - 1) : heard[j].of = heard[i].of => heard[j].from < heard[i].from
    /\ heard[i].of \notin dropped => \A p \in 1..(heard[i].from - 1) :
         \E j \in 1..(i - 1) : heard[j].of = heard[i].of /\ heard[j].from = p

\* The server does not sleep on a datagram nobody will wake it for: the ring
\* is filled without the mutex, the signal takes it (tcp.c 1022-1026).
UdpNoLostWakeup == USrv("asleep") /\ rcvRing # <<>> => UCore("signal")

\* When all is quiet every datagram that came has been answered to its end,
\* unless a full ring took part of it: nothing is left behind in a ring whose
\* signal was sent too early.
NothingForgotten ==
  /\ wire = <<>> /\ inRing = <<>> /\ sndRing = <<>> /\ outRing = <<>>
  /\ USrv("asleep") /\ UCore("poll")
  => \A h \in Hosts : \A k \in (tosend[h] + 1)..Traffic[h] : \E n \in 1..Pieces :
       \/ <<h, k, n>> \in dropped
       \/ \A p \in 1..n : \E i \in 1..Len(heard) :
            heard[i].of = <<h, k, n>> /\ heard[i].from = p
\* What the echo server of the UDP half promises: datagrams come back whole and in
\* order unless a ring was full, no signal is lost, and nothing is forgotten
\* (tcp.c:978-1142, 1416-1463).
UdpSound == UdpTypeOK /\ AddressKnown /\ PiecesInOrder /\ UdpNoLostWakeup /\ NothingForgotten
=============================================================================
