--------------------------- MODULE Network_proofs ---------------------------
(***************************************************************************)
(* The two network layers, for any number of clients and requests.         *)
(*                                                                         *)
(* On epoll descriptors and clients agree whatever is reused, requests     *)
(* that melt do nothing, and a server whose clients wait for their answers *)
(* is the atomic service.                                                  *)
(*                                                                         *)
(* On io_uring every connection has one operation under way.  It is in the *)
(* submission queue, with the kernel or in the completion queue; the       *)
(* inductive invariant says that each connection, and the listening        *)
(* socket, is named in one place of the three, once.  With one connection  *)
(* the shared buffers have one user, and the loop is the atomic service.   *)
(***************************************************************************)
EXTENDS KvsReactor, KvsIoUring, FiniteSetTheorems, SequenceTheorems,
        WellFoundedInduction, TLAPS

-----------------------------------------------------------------------------
(* The inductive invariant *)

\* The engines hold values only.
DictTyped == rdict \in [Engines -> [Keys -> Vals \cup {Absent}]]

\* The queue of the listening socket and the streams of the clients.
QueuesTyped ==
  /\ rbacklog \in Seq(Clients)
  /\ rinbox \in [Clients -> Seq(Requests)] /\ rasked \in [Clients -> Seq(Requests)]
  /\ routbox \in [Clients -> Seq(Texts)]
  /\ rresult \in [Clients -> Texts \cup {Absent}] /\ rseen \in [Clients -> Texts \cup {Absent}]
  /\ rsock \in [Clients -> {"none", "open", "closed"}]
  /\ fdlimit \in Fds

\* Descriptors without a client have no interest, and an answer to send is text.
ConnsTyped ==
  /\ rconn \in [Fds -> [owner : Clients \cup {NONE}, interest : {"none", "IN", "OUT"},
                       wlength : {-3, 0, 1}, wbuffer : Texts \cup {Absent}]]
  /\ \A fd \in Fds : /\ rconn[fd].interest = "none" <=> rconn[fd].owner = NONE
                     /\ rconn[fd].wlength > 0 => rconn[fd].wbuffer \in Texts

\* A client waits in the queue of the listening socket once.
QueuedOnce == \A i, j \in 1..Len(rbacklog) : rbacklog[i] = rbacklog[j] => i = j

\* What epoll_wait reported is still so when its turn comes, also after descriptors
\* were closed and given to others in between.
EventsHold ==
  /\ batch \subseteq ({LISTEN} \cup Fds) \X {"IN", "OUT"}
  /\ \A what \in {"IN", "OUT"} : <<LISTEN, what>> \in batch => what = "IN" /\ rbacklog # <<>>
  /\ \A fd \in Fds :
       /\ <<fd, "OUT">> \in batch => rconn[fd].interest = "OUT"
       /\ <<fd, "IN">> \in batch => rconn[fd].interest = "IN" /\ Readable(rconn[fd].owner)

\* The answer to c that is in wbuffer and not sent yet.
Owing(c) ==
  IF \E fd \in Fds : rconn[fd].owner = c /\ rconn[fd].interest = "OUT" /\ rconn[fd].wlength > 0
  THEN 1 ELSE 0

\* Every request on its way, every answer made and every answer on its way is one the
\* client asked for and still waits for.
Unheard(c) == Len(rinbox[c])
Unread(c) == Len(routbox[c])
Waits(c) == Len(rasked[c])
CountsOf(c) ==
  /\ Unheard(c) <= MaxPending /\ Waits(c) <= MaxPending
  /\ rsock[c] = "open" => Unheard(c) + Unread(c) + Owing(c) <= Waits(c)
  /\ rsock[c] # "open" => routbox[c] = <<>> /\ rasked[c] = <<>>
  /\ rsock[c] = "none" => rinbox[c] = <<>>
NothingExtra == \A c \in Clients : CountsOf(c)

\* Only well-formed requests melt.
MeltsOf(c) ==
  \A i \in 1..Len(rinbox[c]) :
    ~WellFormed(rinbox[c][i]) =>
       Len(rinbox[c]) = 1 /\ (rsock[c] = "open" => rasked[c] = rinbox[c])
MeltWellFormed == \A c \in Clients : MeltsOf(c)

ReactorInv == /\ DictTyped /\ QueuesTyped /\ ConnsTyped /\ FdsAgree /\ QueuedOnce /\ EventsHold
        /\ NothingExtra /\ MeltWellFormed

-----------------------------------------------------------------------------
(* The invariant, action by action *)

\* The invariant holds when the loop starts.
LEMMA RInit_Inv == RInit => ReactorInv
<1> SUFFICES ASSUME RInit PROVE ReactorInv
  OBVIOUS
<1> USE DEF RInit
<1>1. DictTyped
  BY DEF DictTyped, EmptyStore
<1>2. QueuesTyped
  BY EmptySeq DEF QueuesTyped
<1>3. ConnsTyped
  BY DEF ConnsTyped, Closed
<1>4. FdsAgree
  BY ReactorAssumption DEF FdsAgree, Closed, HasFd, Queued
<1>5. QueuedOnce /\ EventsHold /\ MeltWellFormed
  BY DEF QueuedOnce, EventsHold, MeltWellFormed, MeltsOf
<1>6. NothingExtra
  BY ReactorAssumption DEF NothingExtra, CountsOf, Unheard, Unread, Waits, Owing, Closed
<1> QED
  BY <1>1, <1>2, <1>3, <1>4, <1>5, <1>6 DEF ReactorInv

\* What a step that leaves the descriptors alone keeps.
LEMMA SameConn ==
  ASSUME rconn' = rconn
  PROVE  /\ \A c : HasFd(c)' <=> HasFd(c)
         /\ \A c : Owing(c)' = Owing(c)
         /\ ConnsTyped => ConnsTyped'
<1>1. \A c : HasFd(c)' <=> HasFd(c)
  BY DEF HasFd
<1>2. \A c : Owing(c)' = Owing(c)
  BY DEF Owing
<1>3. ConnsTyped => ConnsTyped'
  BY DEF ConnsTyped
<1> QED
  BY <1>1, <1>2, <1>3

\* A step that leaves the queue of accept alone leaves alone who is in it.
LEMMA SameBacklog ==
  ASSUME rbacklog' = rbacklog
  PROVE  Queued' = Queued /\ (QueuedOnce => QueuedOnce')
BY DEF Queued, QueuedOnce

\* Events go on being true as long as no client becomes unreadable.
LEMMA EventsKept ==
  ASSUME ConnsTyped, EventsHold, UNCHANGED <<rconn, batch>>, rbacklog # <<>> => rbacklog' # <<>>,
         \A c \in Clients : Readable(c) => Readable(c)'
  PROVE  EventsHold'
<1>1. \A fd \in Fds : rconn[fd].interest = "IN" => rconn[fd].owner \in Clients
  BY DEF ConnsTyped
<1> QED
  BY <1>1 DEF EventsHold

\* At most one answer waits in a buffer for a client.
LEMMA OwingIs == \A c \in Clients : Owing(c) \in {0, 1}
BY DEF Owing

\* The clients that a client's step does not touch.
LEMMA OthersKept ==
  ASSUME NEW d \in Clients, rconn' = rconn,
         rinbox'[d] = rinbox[d], routbox'[d] = routbox[d], rasked'[d] = rasked[d], rsock'[d] = rsock[d]
  PROVE  /\ CountsOf(d) => CountsOf(d)'
         /\ MeltsOf(d) => MeltsOf(d)'
<1>1. Owing(d)' = Owing(d)
  BY SameConn
<1>2. CountsOf(d) => CountsOf(d)'
  BY <1>1 DEF CountsOf, Unheard, Unread, Waits
<1>3. MeltsOf(d) => MeltsOf(d)'
  BY DEF MeltsOf
<1> QED
  BY <1>2, <1>3

\* A client that connects keeps it.
LEMMA RConnect_Inv ==
  ASSUME ReactorInv, NEW c \in Clients, RConnect(c), UNCHANGED fdlimit
  PROVE  ReactorInv'
<1> USE DEF RConnect, ReactorInv
<1>1. DictTyped'
  BY DEF DictTyped
<1>2. ConnsTyped'
  BY SameConn
<1>3. QueuesTyped'
  BY AppendProperties DEF QueuesTyped
<1>4. /\ Len(rbacklog') = Len(rbacklog) + 1 /\ rbacklog'[Len(rbacklog) + 1] = c
      /\ \A i \in 1..Len(rbacklog) : rbacklog'[i] = rbacklog[i]
      /\ Len(rbacklog) \in Nat
      /\ DOMAIN rbacklog = 1..Len(rbacklog) /\ DOMAIN rbacklog' = 1..Len(rbacklog')
  BY <1>3, AppendProperties, LenProperties DEF QueuesTyped
<1>5. c \notin Queued /\ ~HasFd(c)
  BY DEF FdsAgree
<1>6. Queued' = Queued \cup {c}
  BY <1>4 DEF Queued
<1>7. FdsAgree'
  <2>1. \A d \in Clients : rsock'[d] # "none" <=> d = c \/ rsock[d] # "none"
    BY DEF QueuesTyped
  <2> QED
    <3>1. \A d : HasFd(d)' <=> HasFd(d)
      BY SameConn
    <3>2. \A f, g \in Fds : rconn'[f].owner = rconn'[g].owner /\ rconn'[f].owner # NONE => f = g
      BY DEF FdsAgree
    <3>3. \A d \in Clients : rsock'[d] # "none" <=> d \in Queued' \/ HasFd(d)'
      BY <1>6, <2>1, <3>1 DEF FdsAgree
    <3>4. \A d \in Queued' : ~HasFd(d)'
      BY <1>5, <1>6, <3>1 DEF FdsAgree
    <3> QED
      BY <3>2, <3>3, <3>4 DEF FdsAgree
<1>8. QueuedOnce'
  BY <1>4, <1>5 DEF QueuedOnce, Queued
<1>9. EventsHold'
  <2>1. \A d \in Clients : Readable(d) => Readable(d)'
    BY DEF Readable, QueuesTyped
  <2>2. rbacklog' # <<>>
    BY <1>4
  <2> QED
    BY <2>1, <2>2, EventsKept
<1>10. ASSUME NEW d \in Clients PROVE CountsOf(d)' /\ MeltsOf(d)'
  <2>1. CountsOf(d) /\ MeltsOf(d)
    BY DEF NothingExtra, MeltWellFormed
  <2>2. CASE d = c
    <3>1. rsock'[c] = "open" /\ rinbox[c] = <<>> /\ routbox[c] = <<>> /\ rasked[c] = <<>>
      BY <2>1, <2>2 DEF CountsOf, Unheard, Unread, Waits, QueuesTyped
    <3>2. Owing(c)' = 0
      BY <1>5, SameConn DEF Owing, HasFd
    <3> QED
      BY <2>1, <2>2, <3>1, <3>2 DEF CountsOf, Unheard, Unread, Waits, MeltsOf
  <2>3. CASE d # c
    BY <2>1, <2>3, OthersKept DEF QueuesTyped
  <2> QED
    BY <2>2, <2>3
<1> QED
  BY <1>1, <1>2, <1>3, <1>7, <1>8, <1>9, <1>10 DEF NothingExtra, MeltWellFormed

\* A client that sends keeps it.
LEMMA RSend_Inv ==
  ASSUME ReactorInv, NEW c \in Clients, NEW r \in Requests, RSend(c, r), UNCHANGED fdlimit
  PROVE  ReactorInv'
<1> USE DEF RSend, ReactorInv
<1>1. DictTyped'
  BY DEF DictTyped
<1>2. ConnsTyped' /\ Queued' = Queued /\ QueuedOnce'
  BY SameConn, SameBacklog
<1>3. QueuesTyped'
  BY AppendProperties DEF QueuesTyped
<1>4. FdsAgree'
  BY <1>2, SameConn DEF FdsAgree
<1>5. rinbox'[c] = Append(rinbox[c], r) /\ rasked'[c] = Append(rasked[c], r)
  BY DEF QueuesTyped
<1>6. EventsHold'
  <2>1. \A d \in Clients : Readable(d) => Readable(d)'
    <3>1. rinbox'[c] # <<>>
      <4>1. rinbox[c] \in Seq(Requests)
        BY DEF QueuesTyped
      <4> HIDE DEF RSend, ReactorInv
      <4> QED
        BY <1>5, <4>1, AppendProperties
    <3>2. \A d \in Clients \ {c} : rinbox'[d] = rinbox[d]
      BY DEF QueuesTyped
    <3> QED
      BY <3>1, <3>2 DEF Readable
  <2> QED
    BY <2>1, EventsKept
<1>7. ASSUME NEW d \in Clients PROVE CountsOf(d)' /\ MeltsOf(d)'
  <2>1. CountsOf(d) /\ MeltsOf(d)
    BY DEF NothingExtra, MeltWellFormed
  <2>2. CASE d = c
    <3>1. /\ Unheard(c)' = Unheard(c) + 1 /\ Waits(c)' = Waits(c) + 1
          /\ Unheard(c) \in Nat /\ Waits(c) \in Nat /\ Unread(c) \in Nat
      BY <1>5, AppendProperties, LenProperties DEF QueuesTyped, Unheard, Unread, Waits
    <3>2. Owing(c)' = Owing(c) /\ Owing(c) \in {0, 1}
      BY SameConn, OwingIs
    <3>3. CountsOf(c)'
      <4>1. /\ Unheard(c) + Unread(c) + Owing(c) <= Waits(c)
            /\ Waits(c) < MaxPending /\ MaxPending \in Nat
        BY <2>1, <2>2, ReactorAssumption DEF CountsOf, Waits
      <4> HIDE DEF RSend, ReactorInv
      <4>2. /\ Unheard(c) + 1 + Unread(c) + Owing(c) <= Waits(c) + 1
            /\ Waits(c) + 1 <= MaxPending /\ Unheard(c) + 1 <= MaxPending
        BY <3>1, <3>2, <4>1
      <4>3. rsock'[c] = "open" /\ Unread(c)' = Unread(c)
        BY DEF RSend, Unread
      <4> QED
        BY <3>1, <3>2, <4>2, <4>3 DEF CountsOf
    <3>4. CASE rasked[c] = <<>>
      <4>1. rinbox[c] = <<>>
        BY <2>1, <2>2, <3>1, <3>2, <3>4, EmptySeq DEF CountsOf, QueuesTyped, Unheard, Unread, Waits
      <4>2. rinbox'[c] = <<r>> /\ rasked'[c] = <<r>>
        BY <1>5, <3>4, <4>1
      <4>3. MeltsOf(c)'
        BY <4>2 DEF MeltsOf
      <4> QED
        BY <2>2, <3>3, <4>3
    <3>5. CASE rasked[c] # <<>>
      <4>1. WellFormed(r) /\ \A i \in 1..Len(rinbox[c]) : WellFormed(rinbox[c][i])
        BY <2>1, <2>2, <3>5, LenProperties DEF MeltsOf, QueuesTyped
      <4>2. \A i \in 1..Len(rinbox'[c]) : WellFormed(rinbox'[c][i])
        <5>1. /\ rinbox[c] \in Seq(Requests)
              /\ rinbox'[c] = Append(rinbox[c], r) /\ Len(rinbox[c]) \in Nat
          BY <1>5, LenProperties DEF QueuesTyped
        <5> HIDE DEF RSend, ReactorInv
        <5>2. /\ Len(rinbox'[c]) = Len(rinbox[c]) + 1 /\ rinbox'[c][Len(rinbox[c]) + 1] = r
              /\ \A i \in 1..Len(rinbox[c]) : rinbox'[c][i] = rinbox[c][i]
          BY <5>1, AppendProperties
        <5>3. \A i \in 1..Len(rinbox'[c]) : i \in 1..Len(rinbox[c]) \/ i = Len(rinbox[c]) + 1
          BY <5>1, <5>2
        <5> QED
          BY <4>1, <5>2, <5>3
      <4> QED
        BY <2>2, <3>3, <4>2 DEF MeltsOf
    <3> QED
      BY <3>4, <3>5
  <2>3. CASE d # c
    BY <2>1, <2>3, OthersKept DEF QueuesTyped
  <2> QED
    BY <2>2, <2>3
<1> QED
  BY <1>1, <1>2, <1>3, <1>4, <1>6, <1>7 DEF NothingExtra, MeltWellFormed

\* A client that reads keeps it.
LEMMA RRead_Inv ==
  ASSUME ReactorInv, NEW c \in Clients, RRead(c), UNCHANGED fdlimit
  PROVE  ReactorInv'
<1> USE DEF RRead, ReactorInv
<1>1. DictTyped'
  BY DEF DictTyped
<1>2. ConnsTyped' /\ Queued' = Queued /\ QueuedOnce'
  BY SameConn, SameBacklog
<1>3. QueuesTyped'
  BY HeadTailProperties DEF QueuesTyped
<1>4. FdsAgree'
  BY <1>2, SameConn DEF FdsAgree
<1>5. EventsHold'
  BY EventsKept DEF Readable
<1>6. ASSUME NEW d \in Clients PROVE CountsOf(d)' /\ MeltsOf(d)'
  <2>1. CountsOf(d) /\ MeltsOf(d)
    BY DEF NothingExtra, MeltWellFormed
  <2>2. CASE d = c
    <3>1. /\ Unread(c) \in Nat \ {0} /\ Waits(c) \in Nat /\ Unheard(c) \in Nat
          /\ routbox'[c] = Tail(routbox[c]) /\ Unread(c)' = Unread(c) - 1
      BY LenProperties, EmptySeq, HeadTailProperties DEF QueuesTyped, Unheard, Unread, Waits
    <3>2. Owing(c)' = Owing(c) /\ Owing(c) \in {0, 1}
      BY SameConn, OwingIs
    <3>3. /\ Unheard(c) + Unread(c) + Owing(c) <= Waits(c)
          /\ Waits(c) <= MaxPending /\ MaxPending \in Nat /\ Waits(c) > 0
      <4>1. /\ Unheard(c) + Unread(c) + Owing(c) <= Waits(c)
            /\ Waits(c) <= MaxPending /\ MaxPending \in Nat
        BY <2>1, <2>2, ReactorAssumption DEF CountsOf
      <4> HIDE DEF RRead, ReactorInv
      <4> QED
        BY <3>1, <3>2, <4>1
    <3>4. rasked'[c] = Tail(rasked[c]) /\ Waits(c)' = Waits(c) - 1
      BY <3>3, LenProperties, EmptySeq, HeadTailProperties DEF QueuesTyped, Unheard, Unread, Waits
    <3>5. CountsOf(c)'
      <4> HIDE DEF RRead, ReactorInv
      <4>1. /\ Unheard(c) + (Unread(c) - 1) + Owing(c) <= Waits(c) - 1
            /\ Waits(c) - 1 <= MaxPending /\ Unheard(c) <= MaxPending
        BY <3>1, <3>2, <3>3
      <4>2. rsock'[c] = "open" /\ Unheard(c)' = Unheard(c)
        BY DEF RRead, Unheard
      <4> QED
        BY <3>1, <3>2, <3>4, <4>1, <4>2 DEF CountsOf
    <3>6. ASSUME NEW i \in 1..Len(rinbox[c]), ~WellFormed(rinbox[c][i]) PROVE FALSE
      <4>1. rasked[c] = rinbox[c]
        BY <2>1, <2>2, <3>6 DEF MeltsOf
      <4>2. Waits(c) = Unheard(c)
        BY <4>1 DEF Waits, Unheard
      <4> HIDE DEF RRead, ReactorInv
      <4> QED
        BY <3>1, <3>2, <3>3, <4>2
    <3> QED
      BY <2>2, <3>5, <3>6 DEF MeltsOf
  <2>3. CASE d # c
    BY <2>1, <2>3, OthersKept DEF QueuesTyped
  <2> QED
    BY <2>2, <2>3
<1> QED
  BY <1>1, <1>2, <1>3, <1>4, <1>5, <1>6 DEF NothingExtra, MeltWellFormed

\* A client that waits no longer keeps it.
LEMMA GiveUp_Inv ==
  ASSUME ReactorInv, NEW c \in Clients, GiveUp(c), UNCHANGED fdlimit
  PROVE  ReactorInv'
<1> USE DEF GiveUp, ReactorInv
<1>1. DictTyped'
  BY DEF DictTyped
<1>2. ConnsTyped' /\ Queued' = Queued /\ QueuedOnce'
  BY SameConn, SameBacklog
<1>3. QueuesTyped'
  BY HeadTailProperties DEF QueuesTyped
<1>4. FdsAgree'
  BY <1>2, SameConn DEF FdsAgree
<1>5. EventsHold'
  BY EventsKept DEF Readable
<1>6. ASSUME NEW d \in Clients PROVE CountsOf(d)' /\ MeltsOf(d)'
  <2>1. CountsOf(d) /\ MeltsOf(d)
    BY DEF NothingExtra, MeltWellFormed
  <2>2. CASE d = c
    <3>1. Owing(c) = 0
      BY ReactorAssumption DEF Owing, FdsAgree
    <3>2. Owing(c)' = 0
      BY <3>1, SameConn
    <3>3. /\ Waits(c) \in Nat \ {0}
          /\ rasked'[c] = Tail(rasked[c]) /\ Waits(c)' = Waits(c) - 1
          /\ Unheard(c) = 0 /\ Unread(c) = 0
      BY LenProperties, EmptySeq, HeadTailProperties DEF QueuesTyped, Unheard, Unread, Waits
    <3>4. CountsOf(c)'
      <4>1. Waits(c) <= MaxPending /\ MaxPending \in Nat
        BY <2>1, <2>2, ReactorAssumption DEF CountsOf
      <4>2. /\ Waits(c) - 1 <= MaxPending /\ 0 <= MaxPending
            /\ 0 + 0 + 0 <= Waits(c) - 1
        BY <3>3, <4>1
      <4>3. rsock'[c] = "open" /\ Unheard(c)' = 0 /\ Unread(c)' = 0
        BY <3>3 DEF Unheard, Unread
      <4> QED
        BY <3>2, <3>3, <4>2, <4>3 DEF CountsOf
    <3> QED
      BY <2>2, <3>3, <3>4 DEF MeltsOf, Unheard
  <2>3. CASE d # c
    BY <2>1, <2>3, OthersKept DEF QueuesTyped
  <2> QED
    BY <2>2, <2>3
<1> QED
  BY <1>1, <1>2, <1>3, <1>4, <1>5, <1>6 DEF NothingExtra, MeltWellFormed

\* A client that closes keeps it.
LEMMA RClose_Inv ==
  ASSUME ReactorInv, NEW c \in Clients, RClose(c), UNCHANGED fdlimit
  PROVE  ReactorInv'
<1> USE DEF RClose, ReactorInv
<1>1. DictTyped'
  BY DEF DictTyped
<1>2. ConnsTyped' /\ Queued' = Queued /\ QueuedOnce'
  BY SameConn, SameBacklog
<1>3. QueuesTyped'
  BY ZenonT(60), EmptySeq DEF QueuesTyped
<1>4. FdsAgree'
  <2>1. \A d \in Clients : rsock'[d] # "none" <=> rsock[d] # "none"
    BY DEF QueuesTyped
  <2> QED
    BY <1>2, <2>1, SameConn DEF FdsAgree
<1>5. EventsHold'
  <2>1. \A d \in Clients : Readable(d) => Readable(d)'
    BY DEF Readable, QueuesTyped
  <2> QED
    BY <2>1, EventsKept
<1>6. ASSUME NEW d \in Clients PROVE CountsOf(d)' /\ MeltsOf(d)'
  <2>1. CountsOf(d) /\ MeltsOf(d)
    BY DEF NothingExtra, MeltWellFormed
  <2>2. CASE d = c
    <3>1. /\ rsock'[c] = "closed" /\ rasked'[c] = <<>> /\ routbox'[c] = <<>>
          /\ rinbox'[c] \in {rinbox[c], <<>>}
      BY DEF QueuesTyped
    <3>2. MaxPending \in Nat
      BY ReactorAssumption
    <3>3. Unheard(c) <= MaxPending
      BY <2>1, <2>2 DEF CountsOf
    <3>4. CountsOf(c)'
      <4>1. Unheard(c)' \in {Unheard(c), 0} /\ Waits(c)' = 0
        BY <3>1 DEF Unheard, Waits
      <4>2. Unheard(c)' <= MaxPending /\ Waits(c)' <= MaxPending
        <5> HIDE DEF RClose, ReactorInv
        <5> QED
          BY <3>2, <3>3, <4>1
      <4> QED
        BY <3>1, <4>2 DEF CountsOf
    <3>5. MeltsOf(c)'
      <4>1. CASE rinbox'[c] = rinbox[c]
        BY <2>1, <2>2, <3>1, <4>1 DEF MeltsOf
      <4>2. CASE rinbox'[c] = <<>>
        BY <4>2 DEF MeltsOf
      <4> QED
        BY <3>1, <4>1, <4>2
    <3> QED
      BY <2>2, <3>4, <3>5
  <2>3. CASE d # c
    BY <2>1, <2>3, OthersKept DEF QueuesTyped
  <2> QED
    BY <2>2, <2>3
<1> QED
  BY <1>1, <1>2, <1>3, <1>4, <1>5, <1>6 DEF NothingExtra, MeltWellFormed

\* A new batch of events keeps it.
LEMMA epoll_wait_Inv ==
  ASSUME ReactorInv, epoll_wait, UNCHANGED fdlimit
  PROVE  ReactorInv'
<1> USE DEF epoll_wait, ReactorInv
<1>1. DictTyped' /\ QueuesTyped'
  BY DEF DictTyped, QueuesTyped
<1>2. ConnsTyped' /\ Queued' = Queued /\ QueuedOnce'
  BY SameConn, SameBacklog
<1>3. FdsAgree'
  BY <1>2, SameConn DEF FdsAgree
<1>4. EventsHold'
  <2>1. rconn \in [Fds -> [owner : Clients \cup {NONE}, interest : {"none", "IN", "OUT"},
                          wlength : {-3, 0, 1}, wbuffer : Texts \cup {Absent}]]
    BY DEF ConnsTyped
  <2>2. LISTEN \notin Fds
    BY DEF LISTEN, Fds
  <2>3. \A f \in Fds : Readable(rconn[f].owner)' <=> Readable(rconn[f].owner)
    BY DEF Readable
  <2>4. batch' = Ready /\ rconn' = rconn /\ rbacklog' = rbacklog
    OBVIOUS
  <2> HIDE DEF epoll_wait, ReactorInv
  <2>5. Ready \subseteq ({LISTEN} \cup Fds) \X {"IN", "OUT"}
    BY <2>1 DEF Ready
  <2>6. \A what \in {"IN", "OUT"} : <<LISTEN, what>> \in Ready => what = "IN" /\ rbacklog # <<>>
    BY <2>2 DEF Ready
  <2>7. \A fd \in Fds : \A what \in {"IN", "OUT"} :
          <<fd, what>> \in Ready =>
             rconn[fd].interest = what /\ (what = "IN" => Readable(rconn[fd].owner))
    BY <2>2 DEF Ready
  <2> QED
    BY <2>3, <2>4, <2>5, <2>6, <2>7 DEF EventsHold
<1>5. ASSUME NEW d \in Clients PROVE CountsOf(d)' /\ MeltsOf(d)'
  BY OthersKept DEF NothingExtra, MeltWellFormed
<1> QED
  BY <1>1, <1>2, <1>3, <1>4, <1>5 DEF NothingExtra, MeltWellFormed

\* accept_cb keeps it: the descriptor it gives away had no event left.
LEMMA accept_cb_Inv ==
  ASSUME ReactorInv, accept_cb, UNCHANGED fdlimit
  PROVE  ReactorInv'
<1> USE DEF ReactorInv
<1>1. /\ <<LISTEN, "IN">> \in batch /\ batch' = batch \ {<<LISTEN, "IN">>}
      /\ UNCHANGED <<rdict, rsock, rinbox, routbox, rasked, rresult, rseen>>
  BY DEF accept_cb
<1>2. CASE UNCHANGED <<rconn, rbacklog>>
  <2>1. DictTyped' /\ QueuesTyped'
    BY <1>1, <1>2 DEF DictTyped, QueuesTyped
  <2>2. ConnsTyped' /\ Queued' = Queued /\ QueuedOnce'
    BY <1>2, SameConn, SameBacklog
  <2>3. FdsAgree'
    BY <1>1, <1>2, <2>2, SameConn DEF FdsAgree
  <2>4. EventsHold'
    <3>1. \A f \in Fds : Readable(rconn[f].owner)' <=> Readable(rconn[f].owner)
      BY <1>1, <1>2 DEF Readable
    <3> QED
      BY <1>1, <1>2, <3>1 DEF EventsHold
  <2>5. ASSUME NEW d \in Clients PROVE CountsOf(d)' /\ MeltsOf(d)'
    BY <1>1, <1>2, OthersKept DEF NothingExtra, MeltWellFormed
  <2> QED
    BY <2>1, <2>2, <2>3, <2>4, <2>5, <1>1 DEF NothingExtra, MeltWellFormed
<1>3. ASSUME NEW fd \in FreeFds, rbacklog' = Tail(rbacklog),
             rconn' = [rconn EXCEPT ![fd] =
               [owner |-> Head(rbacklog), interest |-> "IN", wlength |-> 0, wbuffer |-> Absent]]
      PROVE  ReactorInv'
  <2> DEFINE c == Head(rbacklog)
  <2>1. /\ rbacklog \in Seq(Clients) /\ rbacklog # <<>>
        /\ fdlimit \in 1..MaxFd /\ MaxFd \in Nat
    BY <1>1, ReactorAssumption DEF EventsHold, QueuesTyped, Fds
  <2>2. /\ c \in Clients /\ c = rbacklog[1] /\ Tail(rbacklog) \in Seq(Clients)
        /\ Len(rbacklog) \in Nat \ {0} /\ Len(rbacklog') = Len(rbacklog) - 1
        /\ \A i \in 1..Len(rbacklog') : rbacklog'[i] = rbacklog[i + 1]
        /\ DOMAIN rbacklog = 1..Len(rbacklog) /\ DOMAIN rbacklog' = 1..Len(rbacklog')
    BY <1>3, <2>1, HeadTailProperties, LenProperties, EmptySeq
  <2>3. fd \in Fds /\ rconn[fd].owner = NONE
    BY <2>1 DEF FreeFds, Fds
  <2> HIDE DEF c
  <2>4. DictTyped' /\ QueuesTyped'
    BY <1>1, <1>3, <2>2 DEF DictTyped, QueuesTyped
  <2>5. rconn' = [rconn EXCEPT ![fd] =
               [owner |-> c, interest |-> "IN", wlength |-> 0, wbuffer |-> Absent]]
    BY <1>3 DEF c
  <2>6. ConnsTyped'
    BY <2>2, <2>3, <2>5, ReactorAssumption DEF ConnsTyped
  <2>7. /\ \A g \in Fds \ {fd} : rconn'[g] = rconn[g]
        /\ rconn'[fd].owner = c /\ rconn'[fd].interest = "IN"
    BY <2>3, <2>5 DEF ConnsTyped
  <2>8. Queued' = Queued \ {c} /\ c \in Queued
    <3>1. ASSUME NEW x \in Queued' PROVE x \in Queued \ {c}
      <4>1. PICK i \in 1..Len(rbacklog') : x = rbacklog[i + 1]
        BY <2>2 DEF Queued
      <4>2. i + 1 \in 1..Len(rbacklog) /\ i + 1 # 1 /\ 1 \in 1..Len(rbacklog)
        BY <2>2
      <4> QED
        BY <2>2, <4>1, <4>2 DEF Queued, QueuedOnce
    <3>2. ASSUME NEW x \in Queued, x # c PROVE x \in Queued'
      <4>1. PICK i \in 1..Len(rbacklog) : x = rbacklog[i]
        BY <2>2 DEF Queued
      <4>2. i - 1 \in 1..Len(rbacklog') /\ (i - 1) + 1 = i
        BY <2>2, <3>2, <4>1
      <4> QED
        BY <2>2, <4>1, <4>2 DEF Queued
    <3>3. c \in Queued
      BY <2>2 DEF Queued
    <3> QED
      BY <3>1, <3>2, <3>3
  <2>9. QueuedOnce'
    <3>1. ASSUME NEW i \in 1..Len(rbacklog'), NEW j \in 1..Len(rbacklog'), rbacklog'[i] = rbacklog'[j]
          PROVE  i = j
      <4>1. i + 1 \in 1..Len(rbacklog) /\ j + 1 \in 1..Len(rbacklog)
        BY <2>2
      <4>2. i + 1 = j + 1
        BY <2>2, <3>1, <4>1 DEF QueuedOnce
      <4> QED
        BY <4>2
    <3> QED
      BY <3>1 DEF QueuedOnce
  <2>10. \A d \in Clients : HasFd(d)' <=> d = c \/ HasFd(d)
    BY <2>3, <2>7, ReactorAssumption DEF HasFd
  <2>11. FdsAgree'
    <3>1. ~HasFd(c)
      BY <2>8 DEF FdsAgree
    <3>2. \A f, g \in Fds : rconn'[f].owner = rconn'[g].owner /\ rconn'[f].owner # NONE => f = g
      BY <2>7, <3>1 DEF FdsAgree, HasFd
    <3>3. \A d \in Clients : rsock'[d] # "none" <=> d \in Queued' \/ HasFd(d)'
      BY <1>1, <2>2, <2>8, <2>10 DEF FdsAgree
    <3>4. \A d \in Queued' : d \in Clients
      BY <2>8, <2>1, ElementOfSeq, LenProperties DEF Queued
    <3>5. \A d \in Queued' : ~HasFd(d)'
      BY <2>8, <2>10, <3>4 DEF FdsAgree
    <3> QED
      BY <3>2, <3>3, <3>5 DEF FdsAgree
  <2>12. EventsHold'
    <3>1. rconn[fd].interest = "none"
      BY <2>3 DEF ConnsTyped
    <3>2. <<fd, "IN">> \notin batch /\ <<fd, "OUT">> \notin batch
      BY <2>3, <3>1 DEF EventsHold
    <3>3. \A d : Readable(d)' <=> Readable(d)
      BY <1>1 DEF Readable
    <3> QED
      BY <1>1, <2>7, <3>2, <3>3 DEF EventsHold
  <2>13. ASSUME NEW d \in Clients PROVE CountsOf(d)' /\ MeltsOf(d)'
    <3>1. Owing(d)' = Owing(d)
      <4>1. c = d => ~HasFd(d)
        BY <2>8 DEF FdsAgree
      <4> QED
        BY <2>3, <2>7, <4>1, ReactorAssumption DEF Owing, HasFd
    <3>2. CountsOf(d) /\ MeltsOf(d)
      BY DEF NothingExtra, MeltWellFormed
    <3> QED
      BY <1>1, <3>1, <3>2 DEF CountsOf, MeltsOf, Unheard, Unread, Waits
  <2> QED
    BY <1>1, <2>4, <2>6, <2>9, <2>11, <2>12, <2>13 DEF NothingExtra, MeltWellFormed
<1> QED
  BY <1>2, <1>3 DEF accept_cb

\* send_cb keeps it.
LEMMA send_cb_Inv ==
  ASSUME ReactorInv, NEW fd \in Fds, send_cb(fd), UNCHANGED fdlimit
  PROVE  ReactorInv'
<1> USE DEF ReactorInv
<1>0. rconn[fd].owner \in Clients
  BY DEF send_cb, EventsHold, ConnsTyped
<1> PICK c \in Clients : rconn[fd].owner = c
  BY <1>0
<1>1. /\ <<fd, "OUT">> \in batch /\ batch' = batch \ {<<fd, "OUT">>}
      /\ routbox' = [routbox EXCEPT ![c] = IF rconn[fd].wlength > 0 /\ rsock[c] = "open"
                      THEN Append(@, rconn[fd].wbuffer) ELSE @]
      /\ rconn' = [rconn EXCEPT ![fd].interest = "IN"]
      /\ UNCHANGED <<rdict, rbacklog, rsock, rinbox, rasked, rresult, rseen>>
  BY DEF send_cb
<1>2. rconn[fd].interest = "OUT" /\ c \in Clients
  BY <1>1 DEF EventsHold, ConnsTyped
<1>3. rconn[fd].wlength > 0 => rconn[fd].wbuffer \in Texts
  BY DEF ConnsTyped
<1>4. DictTyped' /\ Queued' = Queued /\ QueuedOnce'
  BY <1>1, SameBacklog DEF DictTyped
<1>5. QueuesTyped'
  BY <1>1, <1>2, <1>3, AppendProperties DEF QueuesTyped
<1>6. ConnsTyped'
  BY <1>1, <1>2, ReactorAssumption DEF ConnsTyped
<1>7. /\ \A g \in Fds \ {fd} : rconn'[g] = rconn[g]
      /\ \A g \in Fds : rconn'[g].owner = rconn[g].owner
      /\ rconn'[fd].interest = "IN"
  BY <1>1 DEF ConnsTyped
<1>8. \A d : HasFd(d)' <=> HasFd(d)
  BY <1>7 DEF HasFd
<1>9. FdsAgree'
  BY <1>1, <1>4, <1>7, <1>8 DEF FdsAgree
<1>10. EventsHold'
  <2>1. <<fd, "IN">> \notin batch
    BY <1>2 DEF EventsHold
  <2>2. \A d : Readable(d)' <=> Readable(d)
    BY <1>1 DEF Readable
  <2> QED
    BY <1>1, <1>7, <2>1, <2>2 DEF EventsHold
<1>11. ASSUME NEW d \in Clients PROVE CountsOf(d)' /\ MeltsOf(d)'
  <2>1. CountsOf(d) /\ MeltsOf(d)
    BY DEF NothingExtra, MeltWellFormed
  <2>2. MeltsOf(d)'
    BY <1>1, <2>1 DEF MeltsOf
  <2>3. Unheard(d)' = Unheard(d) /\ Waits(d)' = Waits(d)
    BY <1>1 DEF Unheard, Waits
  <2>4. CASE d = c
    <3>1. Owing(c)' = 0
      BY <1>2, <1>7, ReactorAssumption DEF Owing, FdsAgree
    <3>2. Owing(c) = IF rconn[fd].wlength > 0 THEN 1 ELSE 0
      BY <1>2, ReactorAssumption DEF Owing, FdsAgree
    <3>3. /\ Unheard(c) \in Nat /\ Unread(c) \in Nat /\ Waits(c) \in Nat
          /\ Unread(c)' = Unread(c) + (IF rconn[fd].wlength > 0 /\ rsock[c] = "open" THEN 1 ELSE 0)
      <4>1. routbox[c] \in Seq(Texts)
        BY <1>2 DEF QueuesTyped
      <4>2. Unheard(c) \in Nat /\ Unread(c) \in Nat /\ Waits(c) \in Nat
        BY <1>2, LenProperties DEF QueuesTyped, Unheard, Unread, Waits
      <4>3. routbox'[c] = IF rconn[fd].wlength > 0 /\ rsock[c] = "open"
                         THEN Append(routbox[c], rconn[fd].wbuffer) ELSE routbox[c]
        BY <1>1, <1>2 DEF QueuesTyped
      <4>4. CASE rconn[fd].wlength > 0 /\ rsock[c] = "open"
        <5>1. Len(routbox'[c]) = Len(routbox[c]) + 1
          BY <1>3, <4>1, <4>3, <4>4, AppendProperties
        <5> QED
          BY <4>2, <4>4, <5>1 DEF Unread
      <4>5. CASE ~(rconn[fd].wlength > 0 /\ rsock[c] = "open")
        <5>1. routbox'[c] = routbox[c]
          BY <4>3, <4>5
        <5>2. Unread(c)' = Unread(c)
          BY <5>1 DEF Unread
        <5> QED
          BY <4>2, <4>5, <5>2
      <4> QED
        BY <4>2, <4>4, <4>5
    <3>4. rsock[c] # "open" => routbox'[c] = routbox[c]
      BY <1>1, <1>2 DEF QueuesTyped
    <3>5. rsock' = rsock /\ rasked' = rasked /\ rinbox' = rinbox
      BY <1>1
    <3>6. CASE rsock[c] = "open"
      <4>1. Unheard(c) + Unread(c) + Owing(c) <= Waits(c)
        BY <2>1, <2>4, <3>6 DEF CountsOf
      <4>2. Unheard(c)' + Unread(c)' + Owing(c)' <= Waits(c)'
        BY <2>3, <2>4, <3>1, <3>2, <3>3, <3>6, <4>1
      <4> QED
        BY <2>1, <2>2, <2>3, <2>4, <3>5, <3>6, <4>2 DEF CountsOf
    <3>7. CASE rsock[c] # "open"
      BY <2>1, <2>2, <2>3, <2>4, <3>4, <3>5, <3>7 DEF CountsOf
    <3> QED
      BY <3>6, <3>7
  <2>5. CASE d # c
    <3>1. Owing(d)' = Owing(d)
      BY <1>7, <2>5 DEF Owing
    <3>2. routbox'[d] = routbox[d]
      BY <1>1, <2>5 DEF QueuesTyped
    <3> QED
      BY <1>1, <2>1, <2>2, <2>3, <3>1, <3>2 DEF CountsOf, Unread
  <2> QED
    BY <2>4, <2>5
<1> QED
  BY <1>1, <1>4, <1>5, <1>6, <1>9, <1>10, <1>11 DEF NothingExtra, MeltWellFormed

\* A recv that takes something, whole requests that are one or well formed.
LEMMA recv_cb_Takes ==
  ASSUME ReactorInv, UNCHANGED <<fdlimit, rbacklog, routbox, rasked, rseen, rsock>>,
         NEW fd \in Fds, NEW c \in Clients, rconn[fd].owner = c, NEW out,
         <<fd, "IN">> \in batch, batch' = batch \ {<<fd, "IN">>},
         rinbox[c] # <<>>, rinbox' = [rinbox EXCEPT ![c] = <<>>],
         out = kvs_protocol(rdict, rinbox[c]), rdict' = out.dict,
         rconn' = [rconn EXCEPT ![fd].interest = "OUT", ![fd].wlength = out.length,
                    ![fd].wbuffer = IF out.length > 0 THEN out.text ELSE @],
         rresult' = [rresult EXCEPT ![c] =
                 IF out.length > 0 /\ rsock[c] = "open" THEN out.text ELSE @]
  PROVE  ReactorInv'
<1> USE DEF ReactorInv
<1>1. /\ out.length \in {-3, 0, 1}
      /\ out.length > 0 => out.text \in Texts
      /\ DictTyped'
  <2>1. rinbox[c] \in Seq(Requests)
    BY DEF QueuesTyped
  <2>2. \A i \in 1..Len(rinbox[c]) : ~WellFormed(rinbox[c][i]) => Len(rinbox[c]) = 1
    BY DEF MeltWellFormed, MeltsOf
  <2>3. \A r \in Requests : RequestTyped(r)
    BY ReactorAssumption
  <2> QED
    BY <2>1, <2>2, <2>3, Handled DEF DictTyped
<1>2. QueuesTyped'
  BY <1>1, EmptySeq DEF QueuesTyped
<1>3. /\ \A g \in Fds \ {fd} : rconn'[g] = rconn[g]
      /\ \A g \in Fds : rconn'[g].owner = rconn[g].owner
      /\ rconn'[fd].interest = "OUT" /\ rconn'[fd].wlength = out.length
      /\ rconn'[fd].wbuffer = IF out.length > 0 THEN out.text ELSE rconn[fd].wbuffer
      /\ rconn'[fd].owner = c /\ rconn' = [g \in Fds |-> rconn'[g]]
      /\ DOMAIN rconn'[fd] = DOMAIN rconn[fd]
  BY ZenonT(60) DEF ConnsTyped
<1>4. ConnsTyped'
  <2>1. rconn'[fd] = [owner |-> c, interest |-> "OUT", wlength |-> out.length,
                     wbuffer |-> IF out.length > 0 THEN out.text ELSE rconn[fd].wbuffer]
    BY ZenonT(60) DEF ConnsTyped
  <2> QED
    BY <1>1, <1>3, <2>1, ReactorAssumption DEF ConnsTyped
<1>5. \A d : HasFd(d)' <=> HasFd(d)
  BY <1>3 DEF HasFd
<1>6. Queued' = Queued /\ QueuedOnce'
  BY SameBacklog
<1>7. FdsAgree'
  <2>1. \A f, g \in Fds : rconn'[f].owner = rconn'[g].owner /\ rconn'[f].owner # NONE => f = g
    <3>1. \A g \in Fds : rconn'[g].owner = rconn[g].owner
      BY <1>3
    <3>2. \A f, g \in Fds : rconn[f].owner = rconn[g].owner /\ rconn[f].owner # NONE => f = g
      BY DEF FdsAgree
    <3> QED
      BY ZenonT(60), <3>1, <3>2
  <2>2. \A d \in Clients : rsock'[d] # "none" <=> d \in Queued' \/ HasFd(d)'
    BY <1>5, <1>6 DEF FdsAgree
  <2>3. \A d \in Queued' : ~HasFd(d)'
    BY <1>5, <1>6 DEF FdsAgree
  <2> QED
    BY <2>1, <2>2, <2>3 DEF FdsAgree
<1>8. EventsHold'
  <2>1. <<fd, "OUT">> \notin batch
    BY DEF EventsHold
  <2>2. \A d \in Clients \ {c} : Readable(d)' <=> Readable(d)
    BY DEF Readable, QueuesTyped
  <2>3. \A g \in Fds \ {fd} : rconn[g].interest # "none" => rconn[g].owner \in Clients \ {c}
    BY ReactorAssumption DEF ConnsTyped, FdsAgree
  <2> QED
    BY <1>3, <2>1, <2>2, <2>3 DEF EventsHold
<1>9. ASSUME NEW d \in Clients PROVE CountsOf(d)' /\ MeltsOf(d)'
  <2>1. CountsOf(d) /\ MeltsOf(d)
    BY DEF NothingExtra, MeltWellFormed
  <2>2. Unread(d)' = Unread(d) /\ Waits(d)' = Waits(d)
    BY DEF Unread, Waits
  <2>3. CASE d = c
    <3>1. rinbox'[c] = <<>> /\ rinbox[c] \in Seq(Requests)
      BY DEF QueuesTyped
    <3>2. Unheard(c)' = 0 /\ Unheard(c) \in Nat \ {0} /\ Unread(c) \in Nat /\ Waits(c) \in Nat
      BY <3>1, EmptySeq, LenProperties DEF QueuesTyped, Unheard, Unread, Waits
    <3>3. Owing(c)' \in {0, 1} /\ Owing(c) \in {0, 1}
      BY DEF Owing
    <3>4. MaxPending \in Nat
      BY ReactorAssumption
    <3>5. CASE rsock[c] = "open"
      <4>1. Unheard(c) + Unread(c) + Owing(c) <= Waits(c)
        BY <2>1, <2>3, <3>5 DEF CountsOf
      <4>2. Unheard(c)' + Unread(c)' + Owing(c)' <= Waits(c)'
        BY <2>2, <2>3, <3>2, <3>3, <4>1
      <4>3. 0 <= MaxPending /\ rsock'[c] = "open"
        BY <3>4, <3>5
      <4> QED
        BY <2>1, <2>2, <2>3, <3>1, <3>2, <3>5, <4>2, <4>3 DEF CountsOf, MeltsOf
    <3>6. CASE rsock[c] # "open"
      <4>1. 0 <= MaxPending
        BY <3>4
      <4> QED
        BY <2>1, <2>2, <2>3, <3>1, <3>2, <3>6, <4>1 DEF CountsOf, MeltsOf
    <3> QED
      BY <3>5, <3>6
  <2>4. CASE d # c
    <3>1. Owing(d)' = Owing(d)
      BY <1>3, <2>4 DEF Owing
    <3>2. rinbox'[d] = rinbox[d]
      BY <2>4 DEF QueuesTyped
    <3> QED
      BY <2>1, <2>2, <3>1, <3>2 DEF CountsOf, MeltsOf, Unheard
  <2> QED
    BY <2>3, <2>4
<1> QED
  BY <1>1, <1>2, <1>4, <1>6, <1>7, <1>8, <1>9 DEF NothingExtra, MeltWellFormed

\* A recv of 0 or -1: the descriptor is free again, and so is the client.
LEMMA recv_cb_Closes ==
  ASSUME ReactorInv,
         UNCHANGED <<fdlimit, rbacklog, routbox, rasked, rseen, rdict, rinbox, rresult>>,
         NEW fd \in Fds, NEW c \in Clients, rconn[fd].owner = c,
         <<fd, "IN">> \in batch, batch' = batch \ {<<fd, "IN">>}, rinbox[c] = <<>>,
         rconn' = [rconn EXCEPT ![fd] = Closed], rsock' = [rsock EXCEPT ![c] = "none"]
  PROVE  ReactorInv'
<1> USE DEF ReactorInv
<1>1. DictTyped' /\ QueuesTyped'
  BY DEF DictTyped, QueuesTyped
<1>2. Queued' = Queued /\ QueuedOnce'
  BY SameBacklog
<1>3. rsock[c] = "closed" /\ <<fd, "OUT">> \notin batch
  BY DEF EventsHold, Readable
<1>4. /\ \A g \in Fds \ {fd} : rconn'[g] = rconn[g]
      /\ rconn'[fd] = Closed
  BY DEF ConnsTyped
<1>5. ConnsTyped'
  BY DEF ConnsTyped, Closed
<1>6. \A d \in Clients : HasFd(d)' <=> d # c /\ HasFd(d)
  BY <1>4, ReactorAssumption DEF HasFd, FdsAgree, Closed
<1>7. FdsAgree'
  <2>1. \A f, g \in Fds : rconn'[f].owner = rconn'[g].owner /\ rconn'[f].owner # NONE => f = g
    BY <1>4 DEF FdsAgree, Closed
  <2>2. HasFd(c)
    BY DEF HasFd
  <2>3. \A d \in Clients : rsock'[d] # "none" <=> d # c /\ rsock[d] # "none"
    BY DEF QueuesTyped
  <2>4. \A d \in Clients : rsock'[d] # "none" <=> d \in Queued' \/ HasFd(d)'
    BY <1>2, <1>6, <2>2, <2>3 DEF FdsAgree
  <2>5. \A d \in Queued' : d \in Clients
    BY <1>2, ElementOfSeq, LenProperties DEF Queued, QueuesTyped
  <2>6. \A d \in Queued' : ~HasFd(d)'
    BY <1>2, <1>6, <2>5 DEF FdsAgree
  <2> QED
    BY <2>1, <2>4, <2>6 DEF FdsAgree
<1>8. EventsHold'
  <2>1. \A d \in Clients \ {c} : Readable(d)' <=> Readable(d)
    BY DEF Readable, QueuesTyped
  <2>2. \A g \in Fds \ {fd} : rconn[g].interest # "none" => rconn[g].owner \in Clients \ {c}
    BY ReactorAssumption DEF ConnsTyped, FdsAgree
  <2> QED
    BY <1>3, <1>4, <2>1, <2>2 DEF EventsHold
<1>9. ASSUME NEW d \in Clients PROVE CountsOf(d)' /\ MeltsOf(d)'
  <2>1. CountsOf(d) /\ MeltsOf(d)
    BY DEF NothingExtra, MeltWellFormed
  <2>2. Unheard(d)' = Unheard(d) /\ Unread(d)' = Unread(d) /\ Waits(d)' = Waits(d)
    BY DEF Unheard, Unread, Waits
  <2>3. CASE d = c
    <3>1. rsock'[c] = "none"
      BY DEF QueuesTyped
    <3> QED
      BY <1>3, <2>1, <2>2, <2>3, <3>1 DEF CountsOf, MeltsOf
  <2>4. CASE d # c
    <3>1. Owing(d)' = Owing(d)
      BY <1>4, <2>4 DEF Owing, Closed
    <3>2. rsock'[d] = rsock[d]
      BY <2>4 DEF QueuesTyped
    <3> QED
      BY <2>1, <2>2, <3>1, <3>2 DEF CountsOf, MeltsOf
  <2> QED
    BY <2>3, <2>4
<1> QED
  BY <1>1, <1>2, <1>5, <1>7, <1>8, <1>9 DEF NothingExtra, MeltWellFormed

\* recv_cb keeps it, whether it answers, melts or closes.
LEMMA recv_cb_Inv ==
  ASSUME ReactorInv, NEW fd \in Fds, recv_cb(fd), UNCHANGED fdlimit
  PROVE  ReactorInv'
<1> DEFINE c == rconn[fd].owner
<1>1. <<fd, "IN">> \in batch
  BY DEF recv_cb
<1>2. c \in Clients
  BY <1>1 DEF ReactorInv, EventsHold, ConnsTyped
<1>3. CASE rinbox[c] = <<>>
  BY <1>2, <1>3, recv_cb_Closes DEF recv_cb
<1>4. CASE rinbox[c] # <<>>
  BY <1>2, <1>4, recv_cb_Takes DEF recv_cb
<1> QED
  BY <1>3, <1>4

\* Every step keeps it.
LEMMA RNext_Inv == ReactorInv /\ [RNext]_rvars => ReactorInv'
<1> SUFFICES ASSUME ReactorInv, [RNext]_rvars PROVE ReactorInv'
  OBVIOUS
<1>1. CASE Server
  BY <1>1, epoll_wait_Inv, accept_cb_Inv, recv_cb_Inv, send_cb_Inv DEF Server
<1>2. ASSUME NEW c \in Clients, Client(c) PROVE ReactorInv'
  BY <1>2, RConnect_Inv, RSend_Inv, RRead_Inv, GiveUp_Inv, RClose_Inv DEF Client
<1>3. CASE UNCHANGED rvars
  <2>1. DictTyped' /\ QueuesTyped' /\ ConnsTyped' /\ Queued' = Queued /\ QueuedOnce'
    BY <1>3, SameConn, SameBacklog DEF rvars, ReactorInv, DictTyped, QueuesTyped
  <2>2. FdsAgree'
    BY <1>3, <2>1, SameConn DEF rvars, ReactorInv, FdsAgree
  <2>3. EventsHold'
    BY <1>3, EventsKept DEF rvars, ReactorInv, Readable
  <2>4. ASSUME NEW d \in Clients PROVE CountsOf(d)' /\ MeltsOf(d)'
    BY <1>3, OthersKept DEF rvars, ReactorInv, NothingExtra, MeltWellFormed
  <2> QED
    BY <2>1, <2>2, <2>3, <2>4 DEF ReactorInv, NothingExtra, MeltWellFormed
<1> QED
  BY <1>1, <1>2, <1>3 DEF RNext

\* So it always holds.
LEMMA Invariance == RSpec => []ReactorInv
<1>1. RInit => ReactorInv
  BY RInit_Inv
<1>2. ReactorInv /\ [RNext]_rvars => ReactorInv'
  BY RNext_Inv
<1> QED
  BY <1>1, <1>2, PTL DEF RSpec

\* Descriptors, clients and queues agree, at any limit and however descriptors are
\* reused: nobody is served twice, mixed up with another client or forgotten, and no
\* answer is without its request (kv_reactor.c:100-240).
THEOREM DescriptorsAgree == RSpec => []FdsSound
<1>1. ReactorInv => FdsSound
  <2> SUFFICES ASSUME ReactorInv PROVE FdsSound
    OBVIOUS
  <2> USE DEF ReactorInv
  <2>1. \A c \in Clients : Len(rinbox[c]) <= MaxPending /\ Len(routbox[c]) <= MaxPending
    <3> SUFFICES ASSUME NEW c \in Clients
                 PROVE  Unheard(c) <= MaxPending /\ Unread(c) <= MaxPending
      BY DEF Unheard, Unread
    <3>1. /\ Unheard(c) \in Nat /\ Unread(c) \in Nat /\ Waits(c) \in Nat /\ Owing(c) \in {0, 1}
          /\ MaxPending \in Nat /\ CountsOf(c)
      BY OwingIs, LenProperties, ReactorAssumption DEF QueuesTyped, Unheard, Unread, Waits, NothingExtra
    <3>2. CASE rsock[c] = "open"
      BY <3>1, <3>2 DEF CountsOf
    <3>3. CASE rsock[c] # "open"
      <4>1. Unread(c) = 0
        BY <3>1, <3>3 DEF CountsOf, Unread
      <4> QED
        BY <3>1, <4>1 DEF CountsOf
    <3> QED
      BY <3>2, <3>3
  <2>2. Queued \subseteq Clients
    BY ElementOfSeq, LenProperties DEF Queued, QueuesTyped
  <2>3. ReactorTypeOK
    BY SMTT(30), <2>1, <2>2 DEF ReactorTypeOK, ConnsTyped, QueuesTyped, EventsHold
  <2> QED
    BY <2>3 DEF FdsSound
<1> QED
  BY <1>1, Invariance, PTL

-----------------------------------------------------------------------------
(* Clients that wait for every answer: the server is the atomic service *)

\* The answer made for c is in the entry of its descriptor.
InBuffer(c) ==
  \E fd \in Fds : /\ rconn[fd].owner = c /\ rconn[fd].interest = "OUT" /\ rconn[fd].wlength > 0
                  /\ rconn[fd].wbuffer = rresult[c]

\* Where the answer to the request of c is: nowhere while the request is on its way,
\* then in one of the buffers, and it is never another answer.
AnswerOf(c) ==
  /\ rsock[c] # "open" => rresult[c] = Absent /\ rseen[c] = Absent
  /\ rasked[c] = <<>> \/ rinbox[c] # <<>> => rresult[c] = Absent
  /\ rsock[c] = "open" /\ rinbox[c] # <<>> => rinbox[c] = rasked[c]
  /\ rresult[c] # Absent => routbox[c] = <<rresult[c]>> \/ InBuffer(c)
  /\ routbox[c] # <<>> => routbox[c] = <<rresult[c]>> /\ rresult[c] # Absent
  /\ rsock[c] = "open" /\ Owing(c) = 1 => InBuffer(c) /\ rresult[c] # Absent

RInv == ReactorInv /\ \A c \in Clients : AnswerOf(c)

\* The service has the command layer of the reactor.
LEMMA RSameProtocol ==
  ASSUME NEW d, NEW r, Tokens(r) \in Nat
  PROVE  /\ RService!WellFormed(r) <=> WellFormed(r)
         /\ RService!kvs_protocol(d, <<r>>) = kvs_protocol(d, <<r>>)
BY DEF RService!WellFormed, WellFormed, RService!Arity, Arity, RService!Tokens, Tokens,
       RService!kvs_protocol, kvs_protocol, RService!kvs_protocol_filter, kvs_protocol_filter,
       RService!kvs_split_token, kvs_split_token, RService!Engine, Engine

\* A client that waits has one request on its way, or handled, or answered.
LEMMA Single ==
  ASSUME MaxPending = 1, RInv, NEW c \in Clients
  PROVE  /\ rasked[c] = <<>> \/ (rasked[c] = <<rasked[c][1]>> /\ rasked[c][1] \in Requests)
         /\ rinbox[c] = <<>> \/ (rinbox[c] = <<rinbox[c][1]>> /\ rinbox[c][1] \in Requests)
         /\ rsock[c] = "open" /\ rinbox[c] # <<>> =>
              rasked[c] = rinbox[c] /\ routbox[c] = <<>> /\ Owing(c) = 0
         /\ rsock[c] = "open" /\ routbox[c] # <<>> => rasked[c] # <<>> /\ rinbox[c] = <<>> /\ Owing(c) = 0
         /\ rsock[c] = "open" /\ Owing(c) = 1 => rasked[c] # <<>> /\ rinbox[c] = <<>> /\ routbox[c] = <<>>
         /\ rsock[c] # "open" => routbox[c] = <<>> /\ rasked[c] = <<>>
         /\ rsock[c] = "none" => rinbox[c] = <<>>
<1> USE DEF RInv, ReactorInv
<1>1. /\ rinbox[c] \in Seq(Requests) /\ rasked[c] \in Seq(Requests) /\ routbox[c] \in Seq(Texts)
      /\ CountsOf(c) /\ AnswerOf(c)
  BY DEF QueuesTyped, NothingExtra
<1>2. /\ Unheard(c) \in Nat /\ Unread(c) \in Nat /\ Waits(c) \in Nat /\ Owing(c) \in {0, 1}
      /\ Unheard(c) = 0 <=> rinbox[c] = <<>>
      /\ Unread(c) = 0 <=> routbox[c] = <<>>
      /\ Waits(c) = 0 <=> rasked[c] = <<>>
  BY <1>1, OwingIs, LenProperties, EmptySeq DEF Unheard, Unread, Waits
<1>3. /\ Unheard(c) <= 1 /\ Waits(c) <= 1
      /\ rsock[c] = "open" => Unheard(c) + Unread(c) + Owing(c) <= Waits(c)
      /\ rsock[c] # "open" => routbox[c] = <<>> /\ rasked[c] = <<>>
      /\ rsock[c] = "none" => rinbox[c] = <<>>
  BY <1>1 DEF CountsOf
<1> HIDE DEF RInv, ReactorInv
<1>4. rasked[c] = <<>> \/ (rasked[c] = <<rasked[c][1]>> /\ rasked[c][1] \in Requests)
  <2>1. Waits(c) = 0 \/ Waits(c) = 1
    BY <1>2, <1>3
  <2>2. CASE Waits(c) = 1
    <3>1. Len(rasked[c]) = 1
      BY <2>2 DEF Waits
    <3> QED
      BY <1>1, <3>1
  <2> QED
    BY <1>2, <2>1, <2>2
<1>5. rinbox[c] = <<>> \/ (rinbox[c] = <<rinbox[c][1]>> /\ rinbox[c][1] \in Requests)
  <2>1. Unheard(c) = 0 \/ Unheard(c) = 1
    BY <1>2, <1>3
  <2>2. CASE Unheard(c) = 1
    <3>1. Len(rinbox[c]) = 1
      BY <2>2 DEF Unheard
    <3> QED
      BY <1>1, <3>1
  <2> QED
    BY <1>2, <2>1, <2>2
<1>6. rsock[c] = "open" /\ rinbox[c] # <<>> => rasked[c] = rinbox[c]
  BY <1>1 DEF AnswerOf
<1>7. ASSUME rsock[c] = "open"
      PROVE  /\ Unheard(c) # 0 => Unread(c) = 0 /\ Owing(c) = 0
             /\ Unread(c) # 0 => Waits(c) # 0 /\ Unheard(c) = 0 /\ Owing(c) = 0
             /\ Owing(c) = 1 => Waits(c) # 0 /\ Unheard(c) = 0 /\ Unread(c) = 0
  BY <1>2, <1>3, <1>7
<1> QED
  BY <1>2, <1>3, <1>4, <1>5, <1>6, <1>7

\* The calls of the service, and how one of them changes.
RCalls == [c \in Clients |-> RCallOf(c)]

\* A client whose streams stay has the call it had.
LEMMA CallKept ==
  ASSUME NEW d \in Clients, rsock'[d] = rsock[d], rinbox'[d] = rinbox[d], rasked'[d] = rasked[d],
         rresult'[d] = rresult[d]
  PROVE  RCallOf(d)' = RCallOf(d)
BY DEF RCallOf

\* A step that changes one client's call changes the calls at that client.
LEMMA RCallStep ==
  ASSUME NEW c \in Clients, NEW x, RCallOf(c)' = x,
         \A d \in Clients \ {c} : RCallOf(d)' = RCallOf(d)
  PROVE  RCalls' = [RCalls EXCEPT ![c] = x] /\ RCalls[c] = RCallOf(c)
BY DEF RCalls

\* A step that changes no call, no value and nothing seen is none of the service.
LEMMA Stutters ==
  ASSUME rdict' = rdict, rseen' = rseen, \A d \in Clients : RCallOf(d)' = RCallOf(d)
  PROVE  UNCHANGED RService!vars
BY DEF RService!vars

\* A client whose streams and answer stay has the answer it had.
LEMMA AnswerKept ==
  ASSUME NEW d \in Clients, rsock'[d] = rsock[d], rinbox'[d] = rinbox[d], routbox'[d] = routbox[d],
         rasked'[d] = rasked[d], rresult'[d] = rresult[d], rseen'[d] = rseen[d],
         \A fd \in Fds : rconn[fd].owner = d \/ rconn'[fd].owner = d =>
            \/ rconn'[fd] = rconn[fd]
            \/ rconn'[fd].interest # "OUT" /\ rconn[fd].interest # "OUT"
  PROVE  AnswerOf(d) => AnswerOf(d)'
<1>1. Owing(d)' = Owing(d)
  BY DEF Owing
<1>2. InBuffer(d)' <=> InBuffer(d)
  BY DEF InBuffer
<1> QED
  BY <1>1, <1>2 DEF AnswerOf

\* What every step does to the service, and that it leaves the answers where they are.
RGoal == (\A d \in Clients : AnswerOf(d)') /\ (RService!Next \/ UNCHANGED RService!vars)

\* To connect is no step of the service.
LEMMA RConnect_Step ==
  ASSUME MaxPending = 1, RInv, NEW c \in Clients, RConnect(c), UNCHANGED fdlimit
  PROVE  RGoal
<1>1. /\ rsock[c] = "none" /\ rsock'[c] = "open" /\ \A d \in Clients \ {c} : rsock'[d] = rsock[d]
      /\ UNCHANGED <<rdict, rconn, rinbox, routbox, rasked, rresult, rseen>>
  BY DEF RConnect, RInv, ReactorInv, QueuesTyped
<1>2. /\ rinbox[c] = <<>> /\ routbox[c] = <<>> /\ rasked[c] = <<>> /\ AnswerOf(c)
  BY <1>1, Single DEF RInv
<1>3. ~HasFd(c)
  BY <1>1 DEF RInv, ReactorInv, FdsAgree
<1>4. AnswerOf(c)'
  <2>1. Owing(c)' = 0
    BY <1>1, <1>3 DEF Owing, HasFd
  <2> QED
    BY <1>1, <1>2, <2>1 DEF AnswerOf
<1>5. ASSUME NEW d \in Clients PROVE AnswerOf(d)'
  <2>1. CASE d # c
    BY <1>1, <2>1, AnswerKept DEF RInv
  <2> QED
    BY <1>4, <2>1
<1>6. ASSUME NEW d \in Clients PROVE RCallOf(d)' = RCallOf(d)
  <2>1. CASE d # c
    BY <1>1, <2>1, CallKept
  <2>2. CASE d = c
    BY <1>1, <1>2, <2>2 DEF RCallOf
  <2> QED
    BY <2>1, <2>2
<1> QED
  BY <1>1, <1>5, <1>6, Stutters DEF RGoal

\* To send is Invoke.
LEMMA RSend_Step ==
  ASSUME MaxPending = 1, RInv, NEW c \in Clients, NEW r \in Requests,
         RSend(c, r), UNCHANGED fdlimit
  PROVE  RGoal
<1>1. /\ rinbox'[c] = Append(rinbox[c], r) /\ rasked'[c] = Append(rasked[c], r)
      /\ rseen' = [rseen EXCEPT ![c] = Absent] /\ rseen'[c] = Absent
      /\ \A d \in Clients \ {c} :
           rinbox'[d] = rinbox[d] /\ rasked'[d] = rasked[d] /\ rseen'[d] = rseen[d]
      /\ rsock[c] = "open" /\ Len(rasked[c]) < 1
      /\ UNCHANGED <<rdict, rconn, rsock, routbox, rresult>>
  BY DEF RSend, RInv, ReactorInv, QueuesTyped
<1>2. /\ rasked[c] = <<>> /\ rinbox[c] = <<>> /\ routbox[c] = <<>> /\ Owing(c) = 0 /\ AnswerOf(c)
  <2>1. rasked[c] = <<>>
    <3>1. rasked[c] # <<rasked[c][1]>>
      BY <1>1
    <3> QED
      BY <3>1, Single
  <2>2. Owing(c) \in {0, 1}
    BY OwingIs
  <2> QED
    BY <1>1, <2>1, <2>2, Single DEF RInv
<1>3. rinbox'[c] = <<r>> /\ rasked'[c] = <<r>>
  BY <1>1, <1>2
<1>4. AnswerOf(c)'
  <2>1. Owing(c)' = 0
    BY <1>1, <1>2, SameConn
  <2> QED
    BY <1>1, <1>2, <1>3, <2>1 DEF AnswerOf
<1>5. ASSUME NEW d \in Clients PROVE AnswerOf(d)'
  <2>1. CASE d # c
    BY <1>1, <2>1, AnswerKept DEF RInv
  <2> QED
    BY <1>4, <2>1
<1>6. RCallOf(c) = <<"idle">> /\ RCallOf(c)' = <<"sent", r>>
  BY <1>1, <1>2, <1>3 DEF RCallOf, AnswerOf
<1>7. \A d \in Clients \ {c} : RCallOf(d)' = RCallOf(d)
  BY <1>1, CallKept
<1>8. RCalls' = [RCalls EXCEPT ![c] = <<"sent", r>>] /\ RCalls[c] = <<"idle">>
  BY <1>6, <1>7, RCallStep
<1>9. RService!Invoke(c, r)
  BY <1>1, <1>8 DEF RService!Invoke, RService!Idle, RCalls
<1> QED
  BY <1>5, <1>9 DEF RGoal, RService!Next

\* To read is Answer.
LEMMA RRead_Step ==
  ASSUME MaxPending = 1, RInv, NEW c \in Clients, RRead(c), UNCHANGED fdlimit
  PROVE  RGoal
<1>1. /\ rseen' = [rseen EXCEPT ![c] = Head(routbox[c])] /\ rseen'[c] = Head(routbox[c])
      /\ routbox'[c] = Tail(routbox[c])
      /\ rasked'[c] = (IF rasked[c] = <<>> THEN rasked[c] ELSE Tail(rasked[c]))
      /\ rresult'[c] = Absent
      /\ \A d \in Clients \ {c} : /\ rseen'[d] = rseen[d] /\ routbox'[d] = routbox[d]
                                  /\ rasked'[d] = rasked[d] /\ rresult'[d] = rresult[d]
      /\ rsock[c] = "open" /\ routbox[c] # <<>>
      /\ UNCHANGED <<rdict, rconn, rsock, rinbox>>
  BY DEF RRead, RInv, ReactorInv, QueuesTyped
<1>2. /\ routbox[c] = <<rresult[c]>> /\ rresult[c] # Absent
      /\ rinbox[c] = <<>> /\ Owing(c) = 0 /\ rasked[c] = <<rasked[c][1]>> /\ rasked[c] # <<>>
  <2>1. AnswerOf(c)
    BY DEF RInv
  <2>2. routbox[c] = <<rresult[c]>> /\ rresult[c] # Absent
    BY <1>1, <2>1 DEF AnswerOf
  <2> QED
    BY <1>1, <2>2, Single
<1>3. rseen'[c] = rresult[c] /\ routbox'[c] = <<>> /\ rasked'[c] = <<>>
  <2>1. Tail(rasked[c]) = <<>>
    <3> DEFINE a == rasked[c][1]
    <3>1. rasked[c] = <<a>>
      BY <1>2
    <3> HIDE DEF a
    <3> QED
      BY <3>1
  <2> QED
    BY <1>1, <1>2, <2>1
<1>4. AnswerOf(c)'
  <2>1. Owing(c)' = 0
    BY <1>1, <1>2, SameConn
  <2> QED
    BY <1>1, <1>2, <1>3, <2>1 DEF AnswerOf
<1>5. ASSUME NEW d \in Clients PROVE AnswerOf(d)'
  <2>1. CASE d # c
    BY <1>1, <2>1, AnswerKept DEF RInv
  <2> QED
    BY <1>4, <2>1
<1>6. RCallOf(c) = <<"done", rresult[c]>> /\ RCallOf(c)' = <<"idle">>
  BY <1>1, <1>2, <1>3 DEF RCallOf
<1>7. \A d \in Clients \ {c} : RCallOf(d)' = RCallOf(d)
  BY <1>1, CallKept
<1>8. RCalls' = [RCalls EXCEPT ![c] = <<"idle">>] /\ RCalls[c] = <<"done", rresult[c]>>
  BY <1>6, <1>7, RCallStep
<1>9. rseen' = [rseen EXCEPT ![c] = rresult[c]]
  BY <1>1, <1>2
<1>10. RCalls[c][1] = "done" /\ RService!Answer(c, RCalls[c][2])
  <2>1. RService!Answer(c, rresult[c])
    BY <1>1, <1>8, <1>9 DEF RService!Answer, RService!Idle, RCalls
  <2>2. RCalls[c][1] = "done" /\ RCalls[c][2] = rresult[c]
    BY <1>8
  <2> QED
    BY <2>1, <2>2
<1> QED
  BY <1>5, <1>10 DEF RGoal, RService!Next, RCalls

\* To wait no longer is GiveUp.
LEMMA GiveUp_Step ==
  ASSUME MaxPending = 1, RInv, NEW c \in Clients, GiveUp(c), UNCHANGED fdlimit
  PROVE  RGoal
<1>1. /\ rsock[c] = "open" /\ rasked[c] # <<>> /\ ~WellFormed(rasked[c][1])
      /\ rinbox[c] = <<>> /\ routbox[c] = <<>>
      /\ \E fd \in Fds : rconn[fd].owner = c /\ rconn[fd].interest = "IN"
      /\ rasked'[c] = Tail(rasked[c]) /\ \A d \in Clients \ {c} : rasked'[d] = rasked[d]
      /\ UNCHANGED <<rdict, rconn, rsock, rinbox, routbox, rresult, rseen>>
  BY DEF GiveUp, RInv, ReactorInv, QueuesTyped
<1>2. PICK r \in Requests : rasked[c] = <<r>>
  BY <1>1, Single
<1>3. rasked'[c] = <<>> /\ ~WellFormed(r)
  BY <1>1, <1>2
<1>4. Owing(c) = 0 /\ ~InBuffer(c)
  BY <1>1, ReactorAssumption DEF Owing, InBuffer, RInv, ReactorInv, FdsAgree
<1>5. rresult[c] = Absent
  BY <1>1, <1>4 DEF RInv, AnswerOf
<1>6. AnswerOf(c)'
  <2>1. Owing(c)' = 0
    BY <1>1, <1>4, SameConn
  <2> QED
    BY <1>1, <1>3, <1>5, <2>1 DEF AnswerOf
<1>7. ASSUME NEW d \in Clients PROVE AnswerOf(d)'
  <2>1. CASE d # c
    BY <1>1, <2>1, AnswerKept DEF RInv
  <2> QED
    BY <1>6, <2>1
<1>8. RCallOf(c) = <<"sent", r>> /\ RCallOf(c)' = <<"idle">>
  BY <1>1, <1>2, <1>3, <1>5 DEF RCallOf
<1>9. \A d \in Clients \ {c} : RCallOf(d)' = RCallOf(d)
  BY <1>1, CallKept
<1>10. RCalls' = [RCalls EXCEPT ![c] = <<"idle">>] /\ RCalls[c] = <<"sent", r>>
  BY <1>8, <1>9, RCallStep
<1>11. ~RService!WellFormed(r)
  BY <1>3 DEF RService!WellFormed, WellFormed, RService!Arity, Arity, RService!Tokens, Tokens
<1>12. RService!GiveUp(c, r)
  BY <1>1, <1>10, <1>11 DEF RService!GiveUp, RService!Idle, RCalls
<1> QED
  BY <1>7, <1>12 DEF RGoal, RService!Next

\* To close is Leave, or no step.
LEMMA RClose_Step ==
  ASSUME MaxPending = 1, RInv, NEW c \in Clients, RClose(c), UNCHANGED fdlimit
  PROVE  RGoal
<1>1. /\ rsock[c] = "open" /\ rsock'[c] = "closed" /\ rinbox'[c] \in {rinbox[c], <<>>}
      /\ rasked'[c] = <<>> /\ routbox'[c] = <<>> /\ rresult'[c] = Absent /\ rseen'[c] = Absent
      /\ rseen' = [rseen EXCEPT ![c] = Absent]
      /\ \A d \in Clients \ {c} :
           /\ rsock'[d] = rsock[d] /\ rinbox'[d] = rinbox[d] /\ rasked'[d] = rasked[d]
           /\ routbox'[d] = routbox[d] /\ rresult'[d] = rresult[d] /\ rseen'[d] = rseen[d]
      /\ UNCHANGED <<rdict, rconn>>
  BY DEF RClose, RInv, ReactorInv, QueuesTyped
<1>2. AnswerOf(c)'
  BY <1>1 DEF AnswerOf
<1>3. ASSUME NEW d \in Clients PROVE AnswerOf(d)'
  <2>1. CASE d # c
    BY <1>1, <2>1, AnswerKept DEF RInv
  <2> QED
    BY <1>2, <2>1
<1>4. \A d \in Clients \ {c} : RCallOf(d)' = RCallOf(d)
  BY <1>1, CallKept
<1>5. AnswerOf(c)
  BY DEF RInv
<1>6. CASE rasked[c] = <<>>
  <2>1. RCallOf(c) = <<"idle">> /\ rinbox[c] = <<>>
    BY <1>1, <1>6, Single DEF RCallOf
  <2>2. RCallOf(c)' = <<"idle">>
    BY <1>1, <2>1 DEF RCallOf
  <2>3. UNCHANGED RCalls /\ RCalls[c] = <<"idle">>
    BY <1>4, <2>1, <2>2 DEF RCalls
  <2>4. PICK r \in Requests : TRUE
    BY ReactorAssumption
  <2>5. RService!Leave(c, r)
    BY <1>1, <2>3 DEF RService!Leave, RService!Idle, RCalls
  <2> QED
    BY <1>3, <2>5 DEF RGoal, RService!Next
<1>7. CASE rasked[c] # <<>>
  <2>1. PICK r \in Requests : rasked[c] = <<r>>
    BY <1>7, Single
  <2>2. CASE rresult[c] # Absent
    <3>1. RCallOf(c) = <<"done", rresult[c]>> /\ rinbox[c] = <<>>
      BY <1>1, <1>5, <1>7, <2>2 DEF RCallOf, AnswerOf
    <3>2. RCallOf(c)' = <<"idle">>
      BY <1>1, <3>1 DEF RCallOf
    <3>3. RCalls' = [RCalls EXCEPT ![c] = <<"idle">>] /\ RCalls[c] = <<"done", rresult[c]>>
      BY <1>4, <3>1, <3>2, RCallStep
    <3>4. RService!Leave(c, r)
      BY <1>1, <3>3 DEF RService!Leave, RService!Idle, RCalls
    <3> QED
      BY <1>3, <3>4 DEF RGoal, RService!Next
  <2>3. CASE rresult[c] = Absent
    <3>1. RCallOf(c) = <<"sent", r>>
      BY <1>1, <1>7, <2>1, <2>3 DEF RCallOf
    <3>2. rinbox'[c] = <<>> \/ rinbox'[c] = <<r>>
      BY <1>1, <2>1, Single
    <3>3. PICK x \in {<<"idle">>, <<"orphan", r>>} : RCallOf(c)' = x
      BY <1>1, <3>2 DEF RCallOf
    <3>4. RCalls' = [RCalls EXCEPT ![c] = x] /\ RCalls[c] = <<"sent", r>>
      BY <1>4, <3>1, <3>3, RCallStep
    <3>5. RService!Leave(c, r)
      BY <1>1, <3>3, <3>4 DEF RService!Leave, RService!Idle, RCalls
    <3> QED
      BY <1>3, <3>5 DEF RGoal, RService!Next
  <2> QED
    BY <2>2, <2>3
<1> QED
  BY <1>6, <1>7

\* A new batch of events is no step of the service.
LEMMA epoll_wait_Step ==
  ASSUME RInv, epoll_wait
  PROVE  RGoal
<1>1. UNCHANGED <<rdict, rconn, rsock, rinbox, routbox, rasked, rresult, rseen>>
  BY DEF epoll_wait
<1>2. ASSUME NEW d \in Clients PROVE AnswerOf(d)' /\ RCallOf(d)' = RCallOf(d)
  BY <1>1, AnswerKept, CallKept DEF RInv
<1> QED
  BY <1>1, <1>2, Stutters DEF RGoal

\* accept_cb is no step of the service.
LEMMA accept_cb_Step ==
  ASSUME RInv, accept_cb
  PROVE  RGoal
<1>1. UNCHANGED <<rdict, rsock, rinbox, routbox, rasked, rresult, rseen>>
  BY DEF accept_cb
<1>2. ASSUME NEW fd \in Fds, rconn'[fd] # rconn[fd]
      PROVE  rconn'[fd].interest # "OUT" /\ rconn[fd].interest # "OUT"
  <2>1. PICK g \in FreeFds : rconn' = [rconn EXCEPT ![g] =
            [owner |-> Head(rbacklog), interest |-> "IN", wlength |-> 0, wbuffer |-> Absent]]
    BY <1>2 DEF accept_cb
  <2>2. fd = g /\ rconn'[fd].interest = "IN"
    BY <1>2, <2>1 DEF RInv, ReactorInv, ConnsTyped
  <2> QED
    BY <2>2 DEF FreeFds, RInv, ReactorInv, ConnsTyped
<1>3. ASSUME NEW d \in Clients PROVE AnswerOf(d)' /\ RCallOf(d)' = RCallOf(d)
  BY <1>1, <1>2, AnswerKept, CallKept DEF RInv
<1> QED
  BY <1>1, <1>3, Stutters DEF RGoal

\* send_cb is no step of the service: the answer only moves.
LEMMA send_cb_Step ==
  ASSUME MaxPending = 1, RInv, NEW fd \in Fds, send_cb(fd)
  PROVE  RGoal
<1>0. rconn[fd].owner \in Clients /\ rconn[fd].interest = "OUT"
  BY DEF send_cb, RInv, ReactorInv, EventsHold, ConnsTyped
<1> PICK c \in Clients : rconn[fd].owner = c
  BY <1>0
<1>1. /\ routbox'[c] = IF rconn[fd].wlength > 0 /\ rsock[c] = "open"
                      THEN Append(routbox[c], rconn[fd].wbuffer) ELSE routbox[c]
      /\ \A d \in Clients \ {c} : routbox'[d] = routbox[d]
      /\ UNCHANGED <<rdict, rsock, rinbox, rasked, rresult, rseen>>
  BY DEF send_cb, RInv, ReactorInv, QueuesTyped
<1>2. /\ \A g \in Fds \ {fd} : rconn'[g] = rconn[g]
      /\ rconn'[fd].interest = "IN" /\ rconn'[fd].owner = c
  BY DEF send_cb, RInv, ReactorInv, ConnsTyped
<1>3. \A g \in Fds \ {fd} : rconn[g].owner # c
  BY ReactorAssumption DEF RInv, ReactorInv, FdsAgree
<1>4. Owing(c)' = 0
  BY <1>2, <1>3 DEF Owing
<1>5. Owing(c) = 1 <=> rconn[fd].wlength > 0
  BY <1>0, <1>3 DEF Owing
<1>6. InBuffer(c) <=> rconn[fd].wlength > 0 /\ rconn[fd].wbuffer = rresult[c]
  BY <1>0, <1>3 DEF InBuffer
<1>7. AnswerOf(c)'
  <2>1. AnswerOf(c)
    BY DEF RInv
  <2>2. CASE rconn[fd].wlength > 0 /\ rsock[c] = "open"
    <3>1. routbox[c] = <<>> /\ rconn[fd].wbuffer = rresult[c] /\ rresult[c] # Absent
      BY <1>5, <1>6, <2>1, <2>2, Single DEF AnswerOf
    <3>2. routbox'[c] = <<rresult[c]>>
      BY <1>1, <2>2, <3>1
    <3> QED
      BY <1>1, <1>4, <2>1, <2>2, <3>1, <3>2 DEF AnswerOf
  <2>3. CASE ~(rconn[fd].wlength > 0 /\ rsock[c] = "open")
    <3>1. routbox'[c] = routbox[c]
      BY <1>1, <2>3
    <3>2. rresult[c] # Absent => ~InBuffer(c)
      BY <1>6, <2>1, <2>3 DEF AnswerOf
    <3>3. /\ rsock'[c] = rsock[c] /\ rinbox'[c] = rinbox[c] /\ rasked'[c] = rasked[c]
          /\ rresult'[c] = rresult[c] /\ rseen'[c] = rseen[c]
      BY <1>1
    <3> QED
      BY <1>4, <2>1, <3>1, <3>2, <3>3 DEF AnswerOf
  <2> QED
    BY <2>2, <2>3
<1>8. ASSUME NEW d \in Clients PROVE AnswerOf(d)'
  <2>1. CASE d # c
    BY <1>1, <1>2, <2>1, AnswerKept DEF RInv
  <2> QED
    BY <1>7, <2>1
<1>9. ASSUME NEW d \in Clients PROVE RCallOf(d)' = RCallOf(d)
  BY <1>1, CallKept
<1> QED
  BY <1>1, <1>8, <1>9, Stutters DEF RGoal

\* The request of c reaches the engines, or is found malformed.
LEMMA recv_cb_Step ==
  ASSUME MaxPending = 1, RInv, NEW fd \in Fds, recv_cb(fd)
  PROVE  RGoal
<1>0. rconn[fd].owner \in Clients /\ rconn[fd].interest = "IN" /\ Readable(rconn[fd].owner)
  BY DEF recv_cb, RInv, ReactorInv, EventsHold, ConnsTyped
<1> PICK c \in Clients : rconn[fd].owner = c
  BY <1>0
<1>1. /\ \A g \in Fds \ {fd} : rconn[g].owner # c
      /\ rsock[c] # "none" /\ rsock[c] \in {"none", "open", "closed"}
      /\ AnswerOf(c)
  BY ReactorAssumption DEF RInv, ReactorInv, FdsAgree, HasFd, QueuesTyped
<1>2. ~InBuffer(c) /\ Owing(c) = 0
  BY <1>0, <1>1 DEF InBuffer, Owing
<1>3. CASE rinbox[c] = <<>>
  <2>1. /\ rsock'[c] = "none" /\ \A d \in Clients \ {c} : rsock'[d] = rsock[d]
        /\ UNCHANGED <<rdict, rinbox, routbox, rasked, rresult, rseen>>
    BY <1>3 DEF recv_cb, RInv, ReactorInv, QueuesTyped
  <2>2. /\ \A g \in Fds \ {fd} : rconn'[g] = rconn[g]
        /\ rconn'[fd] = Closed
    BY <1>3 DEF recv_cb, RInv, ReactorInv, ConnsTyped
  <2>3. rsock[c] = "closed" /\ rasked[c] = <<>> /\ routbox[c] = <<>>
    BY <1>0, <1>3, Single DEF Readable
  <2>4. AnswerOf(c)'
    BY <1>1, <1>3, <2>1, <2>3 DEF AnswerOf
  <2>5. ASSUME NEW d \in Clients PROVE AnswerOf(d)'
    <3>1. CASE d # c
      <4>1. rconn'[fd].interest # "OUT" /\ rconn[fd].interest # "OUT"
        BY <1>0, <2>2 DEF Closed
      <4> QED
        BY <2>1, <2>2, <3>1, <4>1, AnswerKept DEF RInv
    <3> QED
      BY <2>4, <3>1
  <2>6. ASSUME NEW d \in Clients PROVE RCallOf(d)' = RCallOf(d)
    <3>1. CASE d # c
      BY <2>1, <3>1, CallKept
    <3>2. CASE d = c
      BY <1>3, <2>1, <2>3, <3>2 DEF RCallOf
    <3> QED
      BY <3>1, <3>2
  <2> QED
    BY <2>1, <2>5, <2>6, Stutters DEF RGoal
<1>4. CASE rinbox[c] # <<>>
  <2>1. PICK r \in Requests : rinbox[c] = <<r>>
    BY <1>4, Single
  <2> DEFINE out == kvs_protocol(rdict, <<r>>)
  <2>2. /\ rinbox'[c] = <<>> /\ \A d \in Clients \ {c} : rinbox'[d] = rinbox[d] /\ rresult'[d] = rresult[d]
        /\ rdict' = out.dict
        /\ rresult'[c] = IF out.length > 0 /\ rsock[c] = "open" THEN out.text ELSE rresult[c]
        /\ UNCHANGED <<rsock, routbox, rasked, rseen>>
    BY <1>4, <2>1 DEF recv_cb, RInv, ReactorInv, QueuesTyped
  <2>3. /\ \A g \in Fds \ {fd} : rconn'[g] = rconn[g]
        /\ rconn'[fd].owner = c /\ rconn'[fd].interest = "OUT" /\ rconn'[fd].wlength = out.length
        /\ out.length > 0 => rconn'[fd].wbuffer = out.text
    BY <1>4, <2>1 DEF recv_cb, RInv, ReactorInv, ConnsTyped
  <2>4. /\ Tokens(r) \in Nat /\ RequestTyped(r) /\ rdict \in [Engines -> [Keys -> Vals \cup {Absent}]]
        /\ rresult[c] = Absent
    BY <1>1, <1>4, ReactorAssumption DEF RequestTyped, Tokens, RInv, ReactorInv, DictTyped, AnswerOf
  <2>5. IF WellFormed(r) THEN out.length = 1 /\ out.text \in Texts
                         ELSE out.length \in {-3, 0} /\ out.dict = rdict
    <3>1. IF WellFormed(r)
          THEN out = [length |-> 1, text |-> Engine(rdict, r).text, dict |-> Engine(rdict, r).dict]
          ELSE out.length \in {-3, 0} /\ out.dict = rdict
      BY <2>4, OneRequest
    <3>2. WellFormed(r) => Engine(rdict, r).text \in Texts
      BY <2>4, EngineTyped
    <3> HIDE DEF out
    <3> QED
      BY <3>1, <3>2
  <2> HIDE DEF out
  <2>6. Owing(c)' = 1 => WellFormed(r)
    BY <1>1, <2>3, <2>5 DEF Owing
  <2>7. WellFormed(r) /\ rsock[c] = "open" => InBuffer(c)' /\ rresult'[c] = out.text /\ out.text # Absent
    BY <2>2, <2>3, <2>5, ReactorAssumption DEF InBuffer
  <2>8. ~WellFormed(r) \/ rsock[c] # "open" => rresult'[c] = Absent
    BY <2>2, <2>4, <2>5
  <2>9. rsock[c] = "open" => rasked[c] = <<r>> /\ routbox[c] = <<>>
    BY <1>4, <2>1, Single
  <2>10. rsock[c] # "open" => rasked[c] = <<>> /\ routbox[c] = <<>> /\ rseen[c] = Absent /\ rsock[c] = "closed"
    BY <1>1, Single DEF AnswerOf
  <2>11. AnswerOf(c)'
    BY <2>2, <2>6, <2>7, <2>8, <2>9, <2>10 DEF AnswerOf
  <2>12. ASSUME NEW d \in Clients PROVE AnswerOf(d)'
    <3>1. CASE d # c
      BY <2>2, <2>3, <3>1, AnswerKept DEF RInv
    <3> QED
      BY <2>11, <3>1
  <2>13. \A d \in Clients \ {c} : RCallOf(d)' = RCallOf(d)
    BY <2>2, CallKept
  <2>14. /\ RService!WellFormed(r) <=> WellFormed(r)
         /\ RService!kvs_protocol(rdict, <<r>>) = out
    BY <2>4, RSameProtocol DEF out
  <2>15. CASE rsock[c] = "open"
    <3>1. RCallOf(c) = <<"sent", r>>
      BY <2>4, <2>9, <2>15 DEF RCallOf
    <3>2. CASE WellFormed(r)
      <4>1. RCallOf(c)' = <<"done", out.text>>
        BY <2>2, <2>7, <2>9, <2>15, <3>2 DEF RCallOf
      <4>2. RCalls' = [RCalls EXCEPT ![c] = <<"done", out.text>>] /\ RCalls[c] = <<"sent", r>>
        BY <2>13, <3>1, <4>1, RCallStep
      <4>3. RService!Apply(c, r)
        BY <2>2, <2>14, <3>2, <4>2 DEF RService!Apply, RCalls
      <4> QED
        BY <2>12, <4>3 DEF RGoal, RService!Next
    <3>3. CASE ~WellFormed(r)
      <4>1. RCallOf(c)' = <<"sent", r>>
        BY <2>2, <2>8, <2>9, <2>15, <3>3 DEF RCallOf
      <4>2. \A d \in Clients : RCallOf(d)' = RCallOf(d)
        BY <2>13, <3>1, <4>1
      <4>3. rdict' = rdict /\ rseen' = rseen
        BY <2>2, <2>5, <3>3
      <4> QED
        BY <2>12, <4>2, <4>3, Stutters DEF RGoal
    <3> QED
      BY <3>2, <3>3
  <2>16. CASE rsock[c] # "open"
    <3>1. RCallOf(c) = <<"orphan", r>> /\ RCallOf(c)' = <<"idle">>
      BY <2>1, <2>2, <2>10, <2>16 DEF RCallOf
    <3>2. RCalls' = [RCalls EXCEPT ![c] = <<"idle">>] /\ RCalls[c] = <<"orphan", r>>
      BY <2>13, <3>1, RCallStep
    <3>3. CASE WellFormed(r)
      <4>1. RService!Apply(c, r)
        BY <2>2, <2>14, <3>2, <3>3 DEF RService!Apply, RService!Idle, RCalls
      <4> QED
        BY <2>12, <4>1 DEF RGoal, RService!Next
    <3>4. CASE ~WellFormed(r)
      <4>1. rdict' = rdict /\ rseen' = [rseen EXCEPT ![c] = Absent]
        BY <2>2, <2>5, <2>10, <2>16, <3>4 DEF RInv, ReactorInv, QueuesTyped
      <4>2. RService!Leave(c, r)
        BY <3>2, <4>1 DEF RService!Leave, RService!Idle, RCalls
      <4> QED
        BY <2>12, <4>2 DEF RGoal, RService!Next
    <3> QED
      BY <3>3, <3>4
  <2> QED
    BY <2>15, <2>16
<1> QED
  BY <1>3, <1>4

\* Every step is one of the service or none.
LEMMA RNext_Step ==
  ASSUME MaxPending = 1, RInv, [RNext]_rvars
  PROVE  RInv' /\ [RService!Next]_(RService!vars)
<1>1. ReactorInv'
  BY RNext_Inv DEF RInv
<1>2. RGoal
  <2>1. CASE Server
    BY <2>1, epoll_wait_Step, accept_cb_Step, recv_cb_Step, send_cb_Step DEF Server
  <2>2. ASSUME NEW c \in Clients, Client(c) PROVE RGoal
    BY <2>2, RConnect_Step, RSend_Step, RRead_Step, GiveUp_Step, RClose_Step DEF Client
  <2>3. CASE UNCHANGED rvars
    <3>1. ASSUME NEW d \in Clients PROVE AnswerOf(d)' /\ RCallOf(d)' = RCallOf(d)
      BY <2>3, AnswerKept, CallKept DEF rvars, RInv
    <3> QED
      BY <2>3, <3>1, Stutters DEF rvars, RGoal
  <2> QED
    BY <2>1, <2>2, <2>3 DEF RNext
<1> QED
  BY <1>1, <1>2 DEF RInv, RGoal

\* A server of any number of clients and descriptors, whose clients wait for their
\* answers, is the atomic service: a request is carried out once, at one instant, and
\* its answer reaches the client that sent it and no other (kv_reactor.c:147-240).
THEOREM ReactorIsService ==
  ASSUME MaxPending = 1 PROVE RSpec => ReactorImplementsService
<1>1. RInit => RInv /\ RService!Init
  <2> SUFFICES ASSUME RInit PROVE RInv /\ RService!Init
    OBVIOUS
  <2>1. \A c \in Clients : AnswerOf(c)
    BY DEF RInit, AnswerOf, Owing, Closed
  <2>2. \A c \in Clients : RCallOf(c) = <<"idle">>
    BY DEF RInit, RCallOf
  <2>3. EmptyStore = RService!EmptyStore
    BY DEF EmptyStore, RService!EmptyStore, Engines, RService!Engines
  <2> QED
    BY <2>1, <2>2, <2>3, RInit_Inv DEF RInv, RService!Init, RService!Idle, RInit
<1>2. RInv /\ [RNext]_rvars => RInv' /\ [RService!Next]_(RService!vars)
  BY RNext_Step
<1> QED
  BY <1>1, <1>2, PTL DEF RSpec, ReactorImplementsService, RService!Spec

-----------------------------------------------------------------------------
(* Requests that melt *)

\* A set of numbers that is not empty has a least one: induction without an operator.
LEMMA Least ==
  ASSUME NEW T, T \subseteq Nat, T # {}
  PROVE  \E n \in T : \A m \in T : n <= m
<1>1. PICK n \in T : \A m \in T : <<m, n>> \notin OpToRel(<, Nat)
  BY NatLessThanWellFounded, WFMin
<1>2. \A m \in T : ~(m < n)
  BY <1>1 DEF OpToRel
<1> QED
  BY <1>2

\* The number of words after i requests, as kvs_split_token adds it up.
Adds(w, msg, k) ==
  w = [i \in 0..k |-> IF i = 0 THEN 1 ELSE w[i - 1] + Tokens(msg[i]) - 1]

\* The sum is defined for every line.
LEMMA Summable ==
  ASSUME NEW msg, NEW n \in Nat
  PROVE  \E w : Adds(w, msg, n)
<1> DEFINE T == { k \in Nat : ~ \E w : Adds(w, msg, k) }
<1> SUFFICES ASSUME T # {} PROVE FALSE
  OBVIOUS
<1>1. PICK k \in T : \A m \in T : k <= m
  BY Least
<1>2. k # 0
  <2>1. Adds([i \in 0..0 |-> 1], msg, 0)
    BY DEF Adds
  <2> QED
    BY <1>1, <2>1
<1>3. k \in Nat /\ k - 1 \in Nat /\ k - 1 \notin T
  BY <1>1, <1>2
<1>4. PICK w : Adds(w, msg, k - 1)
  BY <1>3
<1> DEFINE v == [i \in 0..k |-> IF i = k THEN w[k - 1] + Tokens(msg[k]) - 1 ELSE w[i]]
<1>5. \A i \in 0..k - 1 : w[i] = IF i = 0 THEN 1 ELSE w[i - 1] + Tokens(msg[i]) - 1
  BY <1>4 DEF Adds
<1>6. \A i \in 0..k - 1 : v[i] = w[i]
  BY <1>3
<1>7. v[k] = w[k - 1] + Tokens(msg[k]) - 1
  BY <1>3
<1>8. \A i \in 0..k : v[i] = IF i = 0 THEN 1 ELSE v[i - 1] + Tokens(msg[i]) - 1
  BY <1>2, <1>3, <1>5, <1>6, <1>7
<1>9. v = [i \in 0..k |-> v[i]]
  OBVIOUS
<1> HIDE DEF v
<1>10. Adds(v, msg, k)
  BY <1>8, <1>9 DEF Adds
<1> QED
  BY <1>1, <1>10

\* Every request after the first brings a word more.
LEMMA MoreWords ==
  ASSUME NEW msg, NEW n \in Nat \ {0}, NEW w, Adds(w, msg, n),
         \A i \in 1..n : Tokens(msg[i]) \in Nat /\ Tokens(msg[i]) >= 2
  PROVE  \A i \in 1..n : w[i] \in Nat /\ w[i] >= Tokens(msg[1]) + i - 1
<1> DEFINE P(i) == w[i] \in Nat /\ w[i] >= Tokens(msg[1]) + i - 1
           T == { i \in 1..n : ~P(i) }
<1> SUFFICES ASSUME T # {} PROVE FALSE
  OBVIOUS
<1>1. PICK k \in T : \A m \in T : k <= m
  <2>1. T \subseteq Nat
    OBVIOUS
  <2> HIDE DEF T
  <2> QED
    BY <2>1, Least
<1>2. \A i \in 0..n : w[i] = IF i = 0 THEN 1 ELSE w[i - 1] + Tokens(msg[i]) - 1
  BY DEF Adds
<1>3. w[0] = 1 /\ k \in 1..n /\ w[k] = w[k - 1] + Tokens(msg[k]) - 1
  BY <1>1, <1>2
<1>4. CASE k = 1
  <2>1. w[1] = Tokens(msg[1])
    BY <1>3, <1>4
  <2> QED
    BY <1>1, <1>3, <1>4, <2>1
<1>5. CASE k # 1
  <2>1. k - 1 \in 1..n /\ k - 1 \notin T
    BY <1>1, <1>3, <1>5
  <2>2. P(k - 1)
    BY <2>1
  <2>3. Tokens(msg[k]) \in Nat /\ Tokens(msg[k]) >= 2 /\ Tokens(msg[1]) \in Nat
    BY <1>3
  <2>4. P(k)
    BY <1>3, <2>2, <2>3
  <2> QED
    BY <1>1, <2>4
<1> QED
  BY <1>4, <1>5

\* Well-formed requests that melt have a word too many for the first of them.
LEMMA MeltedIsRefused ==
  ASSUME NEW d, NEW msg \in Seq(Requests), Len(msg) > 1,
         \A i \in 1..Len(msg) : WellFormed(msg[i])
  PROVE  kvs_protocol(d, msg).length = -3 /\ kvs_protocol(d, msg).dict = d
<1> DEFINE words == CHOOSE w : Adds(w, msg, Len(msg))
<1>1. Adds(words, msg, Len(msg))
  <2>1. Len(msg) \in Nat
    OBVIOUS
  <2> QED
    BY <2>1, Summable
<1>2. \A i \in 1..Len(msg) : Tokens(msg[i]) \in Nat /\ Tokens(msg[i]) >= 2
  BY DEF WellFormed, Arity
<1>3. words[Len(msg)] \in Nat /\ words[Len(msg)] > Tokens(msg[1]) /\ 1 \in 1..Len(msg)
  <2>1. Len(msg) \in Nat \ {0} /\ Len(msg) \in 1..Len(msg) /\ 1 \in 1..Len(msg)
    OBVIOUS
  <2> HIDE DEF words
  <2>2. words[Len(msg)] \in Nat /\ words[Len(msg)] >= Tokens(msg[1]) + Len(msg) - 1
    BY <1>1, <1>2, <2>1, MoreWords
  <2>3. Tokens(msg[1]) \in Nat
    BY <1>2, <2>1
  <2> QED
    BY <2>1, <2>2, <2>3
<1>4. kvs_split_token(msg) = [first |-> msg[1], count |-> words[Len(msg)]]
  BY DEF kvs_split_token, Adds
<1> HIDE DEF words
<1>5. PICK tok : tok = kvs_split_token(msg)
  OBVIOUS
<1>6. tok.first = msg[1] /\ tok.count = words[Len(msg)]
  BY <1>4, <1>5
<1>7. WellFormed(msg[1]) /\ Tokens(msg[1]) \in Nat
  BY <1>2, <1>3
<1>8. tok.first.op \in DOMAIN Arity /\ tok.count # Arity[tok.first.op]
  BY <1>3, <1>6, <1>7 DEF WellFormed
<1>9. kvs_protocol_filter(d, tok) = [length |-> -2, text |-> Absent, dict |-> d]
  BY <1>8 DEF kvs_protocol_filter
<1>10. msg # <<>>
  OBVIOUS
<1> QED
  BY <1>5, <1>9, <1>10 DEF kvs_protocol

\* What melts in a stream is well formed, so it is refused.
LEMMA TakenTogether ==
  ASSUME ReactorInv, NEW c \in Clients, Len(rinbox[c]) > 1
  PROVE  /\ rinbox[c] # <<>>
         /\ kvs_protocol(rdict, rinbox[c]).length = -3 /\ kvs_protocol(rdict, rinbox[c]).dict = rdict
<1>1. rinbox[c] \in Seq(Requests) /\ MeltsOf(c)
  BY DEF ReactorInv, QueuesTyped, MeltWellFormed
<1>2. Len(rinbox[c]) # 1 /\ rinbox[c] # <<>>
  <2>1. ASSUME Len(rinbox[c]) = 1 PROVE FALSE
    BY <2>1
  <2>2. rinbox[c] # <<>>
    BY <1>1
  <2> QED
    BY <2>1, <2>2
<1>3. \A i \in 1..Len(rinbox[c]) : WellFormed(rinbox[c][i])
  BY <1>1, <1>2 DEF MeltsOf
<1> QED
  BY <1>1, <1>2, <1>3, MeltedIsRefused

\* For any number of requests in flight: requests that one recv takes together do nothing
\* and are not answered (kvstore.c:58-84, kv_reactor.c:147-192).
THEOREM MeltedAreRefused == RSpec => MeltedDoNothing
<1> DEFINE Melted(c) == Len(rinbox[c]) > 1 /\ rinbox'[c] = <<>> /\ rsock'[c] = rsock[c] =>
                          rdict' = rdict /\ rresult'[c] = rresult[c]
<1>1. ASSUME ReactorInv, [RNext]_rvars PROVE \A c \in Clients : Melted(c)
  <2> SUFFICES ASSUME NEW c \in Clients, Len(rinbox[c]) > 1, rinbox'[c] = <<>>,
                      rsock'[c] = rsock[c]
               PROVE  rdict' = rdict /\ rresult'[c] = rresult[c]
    OBVIOUS
  <2>t. /\ rinbox \in [Clients -> Seq(Requests)] /\ rinbox[c] # <<>> /\ rinbox'[c] # rinbox[c]
        /\ rsock \in [Clients -> {"none", "open", "closed"}]
    BY <1>1, TakenTogether DEF ReactorInv, QueuesTyped
  <2>1. ASSUME NEW fd \in Fds, recv_cb(fd) PROVE rdict' = rdict /\ rresult'[c] = rresult[c]
    <3>1. rconn[fd].owner = c
      BY <2>t, <2>1 DEF recv_cb
    <3>2. LET out == kvs_protocol(rdict, rinbox[c])
          IN  /\ rdict' = out.dict
              /\ rresult' = [rresult EXCEPT ![c] =
                               IF out.length > 0 /\ rsock[c] = "open" THEN out.text ELSE @]
      BY <2>t, <2>1, <3>1 DEF recv_cb
    <3> QED
      BY <1>1, <3>2, TakenTogether
  <2>2. ASSUME NEW d \in Clients, Client(d) PROVE FALSE
    <3>1. CASE RClose(d)
      BY <2>t, <3>1 DEF RClose
    <3>2. CASE \E r \in Requests : RSend(d, r)
      BY <2>t, <3>2 DEF RSend
    <3> QED
      BY <2>t, <2>2, <3>1, <3>2 DEF Client, RConnect, RRead, GiveUp
  <2>3. CASE Server
    <3>1. ~epoll_wait /\ ~accept_cb /\ ~ \E fd \in Fds : send_cb(fd)
      BY <2>t DEF epoll_wait, accept_cb, send_cb
    <3> QED
      BY <2>1, <2>3, <3>1 DEF Server
  <2>4. ~ UNCHANGED rvars
    BY <2>t DEF rvars
  <2> QED
    BY <1>1, <2>2, <2>3, <2>4 DEF RNext
<1>2. ReactorInv /\ [RNext]_rvars => [\A c \in Clients : Melted(c)]_rvars
  BY <1>1
<1> QED
  BY <1>2, RInit_Inv, RNext_Inv, PTL DEF RSpec, MeltedDoNothing

-----------------------------------------------------------------------------
(* Sequences in which something occurs once *)

Has(s, T)  == \E i \in DOMAIN s : s[i] \in T
Once(s, T) == \A i, j \in DOMAIN s : s[i] \in T /\ s[j] \in T => i = j

\* Appending an entry of T to a sequence without one leaves it with one.
LEMMA AppendHas ==
  ASSUME NEW S, NEW s \in Seq(S), NEW e \in S, NEW T
  PROVE  /\ Append(s, e) \in Seq(S)
         /\ Has(Append(s, e), T) <=> Has(s, T) \/ e \in T
         /\ Once(s, T) /\ ~(Has(s, T) /\ e \in T) => Once(Append(s, e), T)
<1>1. /\ Append(s, e) \in Seq(S) /\ DOMAIN s = 1..Len(s) /\ Len(s) \in Nat
      /\ DOMAIN Append(s, e) = 1..Len(s) + 1
      /\ Append(s, e)[Len(s) + 1] = e
      /\ \A i \in 1..Len(s) : Append(s, e)[i] = s[i]
  OBVIOUS
<1> DEFINE t == Append(s, e)
<1> HIDE DEF t
<1>2. Has(t, T) <=> Has(s, T) \/ e \in T
  BY <1>1 DEF Has, t
<1>3. ASSUME Once(s, T), ~(Has(s, T) /\ e \in T) PROVE Once(t, T)
  <2>1. \A i \in DOMAIN t : i \in DOMAIN s \/ i = Len(s) + 1
    BY <1>1 DEF t
  <2>2. \A i \in DOMAIN s : t[i] = s[i]
    BY <1>1 DEF t
  <2>3. t[Len(s) + 1] = e
    BY <1>1 DEF t
  <2> QED
    BY <1>3, <2>1, <2>2, <2>3 DEF Once, Has
<1> QED
  BY <1>1, <1>2, <1>3 DEF t

\* Taking the head away takes one entry of T away, or none.
LEMMA TailHas ==
  ASSUME NEW S, NEW s \in Seq(S), s # <<>>, NEW T
  PROVE  /\ Tail(s) \in Seq(S) /\ Head(s) \in S /\ Head(s) = s[1] /\ 1 \in DOMAIN s
         /\ Has(s, T) <=> Head(s) \in T \/ Has(Tail(s), T)
         /\ Once(s, T) => Once(Tail(s), T) /\ ~(Head(s) \in T /\ Has(Tail(s), T))
<1>1. /\ Tail(s) \in Seq(S) /\ Head(s) \in S /\ Head(s) = s[1] /\ 1 \in DOMAIN s
      /\ \A i \in DOMAIN Tail(s) : i + 1 \in DOMAIN s /\ i + 1 # 1 /\ Tail(s)[i] = s[i + 1]
      /\ \A i, j \in DOMAIN Tail(s) : i + 1 = j + 1 => i = j
      /\ \A i \in DOMAIN s \ {1} : i - 1 \in DOMAIN Tail(s) /\ Tail(s)[i - 1] = s[i]
  OBVIOUS
<1> DEFINE t == Tail(s)
<1> HIDE DEF t
<1>2. Has(s, T) <=> Head(s) \in T \/ Has(t, T)
  <2>1. ASSUME Has(s, T), Head(s) \notin T PROVE Has(t, T)
    <3>1. PICK i \in DOMAIN s : s[i] \in T
      BY <2>1 DEF Has
    <3>2. i # 1
      BY <1>1, <2>1, <3>1
    <3>3. i - 1 \in DOMAIN t /\ t[i - 1] = s[i]
      BY <1>1, <3>2 DEF t
    <3> QED
      BY <3>1, <3>3 DEF Has
  <2>2. ASSUME Has(t, T) PROVE Has(s, T)
    BY <1>1, <2>2 DEF Has, t
  <2>3. ASSUME Head(s) \in T PROVE Has(s, T)
    BY <1>1, <2>3 DEF Has
  <2> QED
    BY <2>1, <2>2, <2>3
<1>3. ASSUME Once(s, T) PROVE Once(t, T) /\ ~(Head(s) \in T /\ Has(t, T))
  BY <1>1, <1>3 DEF Once, Has, t
<1> QED
  BY <1>1, <1>2, <1>3 DEF t

-----------------------------------------------------------------------------
(* The inductive invariant *)

Operations ==
  [event : {"ACCEPT"}, fd : {LISTEN}, len : {0}] \cup
  [event : {"READ", "WRITE"}, fd : Fds, len : {-3, 0, 1}]
Completions ==
  [event : {"ACCEPT"}, fd : {LISTEN}, res : Fds] \cup
  [event : {"READ", "WRITE"}, fd : Fds, res : Int]

\* What the loop names: the listening socket and the descriptors.
Names == {LISTEN} \cup Fds

\* The operations and the completions that concern n: that of an accept concerns the
\* listening socket and the new descriptor.
OpsOf(n)  == { o \in Operations : o.fd = n }
CqesOf(n) == { e \in Completions : e.fd = n \/ (e.event = "ACCEPT" /\ e.res = n) }
ArmedOf(n) == { o \in armed : o.fd = n }

\* n is named in one place at most.
PlacedOnce(n) ==
  /\ Once(sq, OpsOf(n)) /\ Once(cq, CqesOf(n))
  /\ \A o, p \in ArmedOf(n) : o = p
  /\ Has(sq, OpsOf(n)) => ArmedOf(n) = {} /\ ~Has(cq, CqesOf(n))
  /\ ArmedOf(n) # {} => ~Has(cq, CqesOf(n))
Busy(n) == Has(sq, OpsOf(n)) \/ ArmedOf(n) # {} \/ Has(cq, CqesOf(n))

RingsTyped ==
  /\ sq \in Seq(Operations) /\ armed \subseteq Operations /\ cq \in Seq(Completions)
  /\ todo \in 0..Len(cq)

ServerTyped ==
  /\ dict \in [Engines -> [Keys -> Vals \cup {Absent}]]
  /\ conn \in [Fds -> Clients \cup {NONE}]
  /\ buffer \in {Zero} \cup { <<r>> : r \in Requests }
  /\ response \in Texts \cup {JUNK}
  /\ backlog \in Seq(Clients)
  /\ sock \in [Clients -> {"none", "open", "closed", "reset"}]
  /\ inbox \in [Clients -> Seq(Requests)]
  /\ outbox \in [Clients -> Seq(Texts \cup {JUNK})]

\* A client waits in the queue of the listening socket, has one descriptor, or has
\* no connection.
Connected(c) == \E fd \in Fds : conn[fd] = c
ClientsAgree ==
  /\ \A f, g \in Fds : conn[f] = conn[g] /\ conn[f] # NONE => f = g
  /\ \A c \in Clients :
       /\ Once(backlog, {c})
       /\ Has(backlog, {c}) => ~Connected(c) /\ sock[c] # "none"
       /\ Connected(c) => sock[c] # "none"

\* A receive that failed is one of a connection that was reset.
ErrorsReset ==
  \A i \in DOMAIN cq : cq[i].event = "READ" /\ cq[i].res < 0 =>
    conn[cq[i].fd] \in Clients /\ sock[conn[cq[i].fd]] = "reset"

PlacesAgree == \A n \in Names : PlacedOnce(n)

\* What has an operation under way: the listening socket, and each connection unless
\* it was reset.
BusyAgree ==
  /\ Busy(LISTEN)
  /\ \A fd \in Fds : IF conn[fd] = NONE THEN ~Busy(fd)
                     ELSE Busy(fd) \/ sock[conn[fd]] = "reset"

IInv == RingsTyped /\ ServerTyped /\ ClientsAgree /\ ErrorsReset /\ PlacesAgree /\ BusyAgree

-----------------------------------------------------------------------------
(* The invariant counts the operations. *)

\* A set whose elements are all equal has none or one.
LEMMA AtMostOne ==
  ASSUME NEW S, \A x, y \in S : x = y
  PROVE  Cardinality(S) = IF S = {} THEN 0 ELSE 1
<1>1. CASE S = {}
  BY <1>1, FS_EmptySet
<1>2. CASE S # {}
  <2>1. PICK x \in S : S = {x}
    BY <1>2
  <2> QED
    BY <1>2, <2>1, FS_Singleton
<1> QED
  BY <1>1, <1>2

\* The places that name n, counted.
LEMMA PlacesCounted ==
  ASSUME IInv, NEW n \in Names
  PROVE  Cardinality({i \in DOMAIN sq : sq[i] \in OpsOf(n)})
         + Cardinality(ArmedOf(n))
         + Cardinality({i \in DOMAIN cq : cq[i] \in CqesOf(n)}) = IF Busy(n) THEN 1 ELSE 0
<1> DEFINE S == {i \in DOMAIN sq : sq[i] \in OpsOf(n)}
           C == {i \in DOMAIN cq : cq[i] \in CqesOf(n)}
<1>p. PlacedOnce(n)
  BY DEF IInv, PlacesAgree
<1>1. Cardinality(S) = IF Has(sq, OpsOf(n)) THEN 1 ELSE 0
  <2>1. \A x, y \in S : x = y
    BY <1>p DEF PlacedOnce, Once
  <2>2. S = {} <=> ~Has(sq, OpsOf(n))
    BY DEF Has
  <2> QED
    BY <2>1, <2>2, AtMostOne
<1>2. Cardinality(ArmedOf(n)) = IF ArmedOf(n) = {} THEN 0 ELSE 1
  BY <1>p, AtMostOne DEF PlacedOnce
<1>3. Cardinality(C) = IF Has(cq, CqesOf(n)) THEN 1 ELSE 0
  <2>1. \A x, y \in C : x = y
    BY <1>p DEF PlacedOnce, Once
  <2>2. C = {} <=> ~Has(cq, CqesOf(n))
    BY DEF Has
  <2> QED
    BY <2>1, <2>2, AtMostOne
<1> HIDE DEF S, C
<1>4. Cardinality(S) + Cardinality(ArmedOf(n)) + Cardinality(C) = IF Busy(n) THEN 1 ELSE 0
  BY <1>p, <1>1, <1>2, <1>3 DEF PlacedOnce, Busy
<1> QED
  BY <1>4 DEF S, C

\* One entry in one of the three places is what UringSound counts.
LEMMA Counted == IInv => UringSound
<1> SUFFICES ASSUME IInv PROVE UringSound
  OBVIOUS
<1> USE IoUringAssumption
<1>1. /\ \A i \in DOMAIN sq : sq[i] \in Operations
      /\ \A i \in DOMAIN cq : cq[i] \in Completions
      /\ armed \subseteq Operations
  BY DEF IInv, RingsTyped
<1>2. TypeOK
  BY <1>1 DEF IInv, RingsTyped, ServerTyped, TypeOK, Completions
<1>3. LISTEN \notin Fds
  BY DEF LISTEN, Fds
<1>4. ASSUME NEW fd \in Fds
      PROVE  Pending(fd) = IF Busy(fd) THEN 1 ELSE 0
  <2>1. {i \in DOMAIN sq : sq[i].fd = fd} = {i \in DOMAIN sq : sq[i] \in OpsOf(fd)}
    BY <1>1 DEF OpsOf
  <2>2. {i \in DOMAIN cq : (IF cq[i].event = "ACCEPT" THEN cq[i].res ELSE cq[i].fd) = fd}
          = {i \in DOMAIN cq : cq[i] \in CqesOf(fd)}
    <3>1. \A e \in Completions :
            (IF e.event = "ACCEPT" THEN e.res ELSE e.fd) = fd <=> e \in CqesOf(fd)
      BY <1>3 DEF CqesOf, Completions
    <3> QED
      BY <1>1, <3>1
  <2> QED
    BY <2>1, <2>2, PlacesCounted DEF Pending, ArmedOf, Names
<1>5. Cardinality({i \in DOMAIN sq : sq[i].event = "ACCEPT"})
      + Cardinality({op \in armed : op.event = "ACCEPT"})
      + Cardinality({i \in DOMAIN cq : cq[i].event = "ACCEPT"}) = 1
  <2>1. \A o \in Operations : o.event = "ACCEPT" <=> o \in OpsOf(LISTEN)
    BY <1>3 DEF OpsOf, Operations
  <2>2. \A e \in Completions : e.event = "ACCEPT" <=> e \in CqesOf(LISTEN)
    BY <1>3 DEF CqesOf, Completions
  <2>3. {i \in DOMAIN sq : sq[i].event = "ACCEPT"} = {i \in DOMAIN sq : sq[i] \in OpsOf(LISTEN)}
    BY <1>1, <2>1
  <2>4. {op \in armed : op.event = "ACCEPT"} = ArmedOf(LISTEN)
    BY <1>1, <2>1 DEF ArmedOf, OpsOf
  <2>5. {i \in DOMAIN cq : cq[i].event = "ACCEPT"} = {i \in DOMAIN cq : cq[i] \in CqesOf(LISTEN)}
    BY <1>1, <2>2
  <2> QED
    BY <2>3, <2>4, <2>5, PlacesCounted DEF IInv, BusyAgree, Names
<1>6. OneOperation
  BY <1>4, <1>5 DEF IInv, BusyAgree, OneOperation
<1> QED
  BY <1>2, <1>6 DEF UringSound

-----------------------------------------------------------------------------
(* The rings *)

\* Two sequences, one of them without an entry of T, join to one with at most one.
LEMMA ConcatHas ==
  ASSUME NEW S, NEW s \in Seq(S), NEW t \in Seq(S), NEW T
  PROVE  /\ s \o t \in Seq(S)
         /\ Has(s \o t, T) <=> Has(s, T) \/ Has(t, T)
         /\ Once(s, T) /\ Once(t, T) /\ ~(Has(s, T) /\ Has(t, T)) => Once(s \o t, T)
<1>1. /\ s \o t \in Seq(S) /\ DOMAIN s = 1..Len(s) /\ DOMAIN t = 1..Len(t)
      /\ Len(s) \in Nat /\ Len(t) \in Nat
      /\ DOMAIN (s \o t) = 1..Len(s) + Len(t)
      /\ \A i \in 1..Len(s) : (s \o t)[i] = s[i]
      /\ \A i \in Len(s) + 1..Len(s) + Len(t) : (s \o t)[i] = t[i - Len(s)]
  BY ConcatProperties
<1> DEFINE u == s \o t
<1>2. \A i \in DOMAIN u : \/ i \in DOMAIN s /\ u[i] = s[i]
                          \/ i - Len(s) \in DOMAIN t /\ u[i] = t[i - Len(s)] /\ i \in Int
  BY <1>1
<1>3. /\ \A i \in DOMAIN s : i \in DOMAIN u /\ u[i] = s[i]
      /\ \A i \in DOMAIN t : i + Len(s) \in DOMAIN u /\ u[i + Len(s)] = t[i]
  BY <1>1
<1>4. \A i, j \in Int : i - Len(s) = j - Len(s) => i = j
  BY <1>1
<1> HIDE DEF u
<1>5. Has(u, T) <=> Has(s, T) \/ Has(t, T)
  BY <1>2, <1>3 DEF Has
<1>6. ASSUME Once(s, T), Once(t, T), ~(Has(s, T) /\ Has(t, T)) PROVE Once(u, T)
  BY <1>2, <1>4, <1>6 DEF Once, Has
<1> QED
  BY <1>1, <1>5, <1>6 DEF u

\* The kernel completes an operation: what was named by it is named by the completion.
LEMMA Completed ==
  ASSUME RingsTyped, PlacesAgree, NEW op \in armed, NEW e \in Completions,
         armed' = armed \ {op}, cq' = Append(cq, e), UNCHANGED <<sq, todo>>,
         op.fd \in Names, e \in CqesOf(op.fd),
         \A n \in Names : e \in CqesOf(n) => n = op.fd \/ ~Busy(n)
  PROVE  /\ RingsTyped' /\ PlacesAgree'
         /\ \A n \in Names : Busy(n)' <=> Busy(n) \/ e \in CqesOf(n)
<1>1. RingsTyped'
  BY DEF RingsTyped
<1>2. ASSUME NEW n \in Names
      PROVE  PlacedOnce(n)' /\ (Busy(n)' <=> Busy(n) \/ e \in CqesOf(n))
  <2>p. PlacedOnce(n)
    BY DEF PlacesAgree
  <2>1. /\ Has(cq', CqesOf(n)) <=> Has(cq, CqesOf(n)) \/ e \in CqesOf(n)
        /\ Once(cq, CqesOf(n)) /\ ~(Has(cq, CqesOf(n)) /\ e \in CqesOf(n)) => Once(cq', CqesOf(n))
    BY AppendHas DEF RingsTyped
  <2>2. CASE n = op.fd
    <3>1. ArmedOf(n) # {} /\ ArmedOf(n)' = {}
      BY <2>p, <2>2 DEF ArmedOf, PlacedOnce
    <3> QED
      BY <2>p, <2>1, <2>2, <3>1 DEF PlacedOnce, Busy
  <2>3. CASE n # op.fd
    <3>1. ArmedOf(n)' = ArmedOf(n)
      BY <2>3 DEF ArmedOf
    <3>2. e \in CqesOf(n) => ~Has(sq, OpsOf(n)) /\ ArmedOf(n) = {} /\ ~Has(cq, CqesOf(n))
      BY <2>3 DEF Busy
    <3> QED
      BY <2>p, <2>1, <3>1, <3>2 DEF PlacedOnce, Busy
  <2> QED
    BY <2>2, <2>3
<1> QED
  BY <1>1, <1>2 DEF PlacesAgree

\* The loop handles a completion: what it prepares names what the completion named.
LEMMA Prepared ==
  ASSUME RingsTyped, PlacesAgree, cq # <<>>, NEW ops \in Seq(Operations),
         cq' = Tail(cq), sq' = sq \o ops, todo > 0, todo' = todo - 1, UNCHANGED armed,
         \A n \in Names : Once(ops, OpsOf(n)) /\ (Has(ops, OpsOf(n)) => Head(cq) \in CqesOf(n))
  PROVE  /\ RingsTyped' /\ PlacesAgree'
         /\ \A n \in Names : Busy(n)' <=> IF Head(cq) \in CqesOf(n) THEN Has(ops, OpsOf(n)) ELSE Busy(n)
<1>1. RingsTyped'
  <2>1. Len(cq') = Len(cq) - 1 /\ cq' \in Seq(Completions)
    BY DEF RingsTyped
  <2>2. sq' \in Seq(Operations)
    BY ConcatHas DEF RingsTyped
  <2> QED
    BY <2>1, <2>2 DEF RingsTyped
<1>2. ASSUME NEW n \in Names
      PROVE  /\ PlacedOnce(n)'
             /\ Busy(n)' <=> IF Head(cq) \in CqesOf(n) THEN Has(ops, OpsOf(n)) ELSE Busy(n)
  <2>p. PlacedOnce(n)
    BY DEF PlacesAgree
  <2>1. /\ Has(cq, CqesOf(n)) <=> Head(cq) \in CqesOf(n) \/ Has(cq', CqesOf(n))
        /\ Once(cq, CqesOf(n)) =>
             Once(cq', CqesOf(n)) /\ ~(Head(cq) \in CqesOf(n) /\ Has(cq', CqesOf(n)))
    BY TailHas DEF RingsTyped
  <2>2. /\ Has(sq', OpsOf(n)) <=> Has(sq, OpsOf(n)) \/ Has(ops, OpsOf(n))
        /\ Once(sq, OpsOf(n)) /\ Once(ops, OpsOf(n)) /\ ~(Has(sq, OpsOf(n)) /\ Has(ops, OpsOf(n)))
             => Once(sq', OpsOf(n))
    BY ConcatHas DEF RingsTyped
  <2>3. ArmedOf(n)' = ArmedOf(n)
    BY DEF ArmedOf
  <2> QED
    BY <2>p, <2>1, <2>2, <2>3 DEF PlacedOnce, Busy
<1> QED
  BY <1>1, <1>2 DEF PlacesAgree

\* What is submitted goes to the kernel as it is.
LEMMA Submitted ==
  ASSUME RingsTyped, PlacesAgree, io_uring_submit
  PROVE  /\ RingsTyped' /\ PlacesAgree'
         /\ \A n \in Names : Busy(n)' <=> Busy(n)
<1>t. /\ armed' = armed \cup {sq[i] : i \in DOMAIN sq} /\ sq' = <<>>
      /\ UNCHANGED <<cq, todo>> /\ \A i \in DOMAIN sq : sq[i] \in Operations
  BY DEF io_uring_submit, RingsTyped
<1>1. RingsTyped'
  BY <1>t DEF RingsTyped
<1>2. ASSUME NEW n \in Names
      PROVE  PlacedOnce(n)' /\ (Busy(n)' <=> Busy(n))
  <2>p. PlacedOnce(n)
    BY DEF PlacesAgree
  <2>1. ~Has(sq', OpsOf(n)) /\ Once(sq', OpsOf(n))
    BY <1>t DEF Has, Once
  <2>2. CASE Has(sq, OpsOf(n))
    <3>1. PICK i \in DOMAIN sq : sq[i] \in OpsOf(n)
      BY <2>2 DEF Has
    <3>2. ArmedOf(n)' = {sq[i]}
      BY <1>t, <2>p, <2>2, <3>1 DEF ArmedOf, PlacedOnce, Once, OpsOf
    <3> QED
      BY <1>t, <2>p, <2>1, <2>2, <3>2 DEF PlacedOnce, Busy
  <2>3. CASE ~Has(sq, OpsOf(n))
    <3>1. ArmedOf(n)' = ArmedOf(n)
      BY <1>t, <2>3 DEF ArmedOf, Has, OpsOf
    <3> QED
      BY <1>t, <2>p, <2>1, <2>3, <3>1 DEF PlacedOnce, Busy
  <2> QED
    BY <2>2, <2>3
<1> QED
  BY <1>1, <1>2 DEF PlacesAgree

\* A step that moves only along the completions leaves the places as they are.
LEMMA RingsKept ==
  ASSUME RingsTyped, PlacesAgree, UNCHANGED <<sq, armed, cq>>, todo' \in 0..Len(cq)
  PROVE  /\ RingsTyped' /\ PlacesAgree'
         /\ \A n \in Names : Busy(n)' <=> Busy(n)
<1>1. RingsTyped'
  BY DEF RingsTyped
<1>2. \A n \in Names : ArmedOf(n)' = ArmedOf(n)
  BY DEF ArmedOf
<1> QED
  BY <1>1, <1>2 DEF PlacesAgree, PlacedOnce, Busy

-----------------------------------------------------------------------------
(* The command layer gets a request whole or cut short, or nothing. *)

\* A receive delivers one request, or what melted to none.
LEMMA Cut ==
  ASSUME ServerTyped, NEW res \in Int, res > 0
  PROVE  Received(res) = Zero \/ \E r : Received(res) = <<r>> /\ RequestTyped(r)
<1>1. CASE buffer = Zero
  BY <1>1 DEF Received
<1>2. CASE buffer # Zero
  <2>1. PICK r \in Requests : buffer = <<r>>
    BY <1>2 DEF ServerTyped
  <2>2. /\ r.args \in Seq(Keys \cup Vals) /\ Len(r.args) \in Nat
        /\ r.op # "BOGUS" => r.engine \in Engines
        /\ r.op \in DOMAIN Arity \cup {"BOGUS"}
        /\ Len(r.args) >= 1 => r.args[1] \in Keys
        /\ Len(r.args) >= 2 => r.args[2] \in Vals
        /\ r \in [engine : Engines \cup {"none"}, op : DOMAIN Arity \cup {"BOGUS"},
                 args : Seq(Keys \cup Vals)]
    BY IoUringAssumption
  <2>3. ASSUME NEW q, q.op = r.op, q.engine = r.engine, q.args \in Seq(Keys \cup Vals),
               Len(q.args) >= 1 => q.args[1] \in Keys,
               Len(q.args) >= 2 => q.args[2] \in Vals
        PROVE  RequestTyped(q)
    <3>1. DOMAIN Arity = {"SET", "GET", "DEL", "MOD", "EXIST"}
      BY DEF Arity
    <3>2. \A o \in DOMAIN Arity : Arity[o] \in {2, 3}
      BY DEF Arity
    <3>3. Len(q.args) \in Nat
      BY <2>3
    <3> QED
      BY <2>2, <2>3, <3>1, <3>2, <3>3 DEF RequestTyped, WellFormed, Tokens
  <2>4. CASE Tokens(r) <= res
    BY <2>1, <2>2, <2>3, <2>4 DEF Received
  <2>5. CASE ~(Tokens(r) <= res)
    <3>1. res - 1 \in 0..Len(r.args)
      BY <2>2, <2>5 DEF Tokens
    <3>2. PICK a : a = SubSeq(r.args, 1, res - 1)
      OBVIOUS
    <3>3. /\ a \in Seq(Keys \cup Vals) /\ Len(a) = res - 1
          /\ \A i \in 1..res - 1 : a[i] = r.args[i]
      BY <2>2, <3>1, <3>2, SubSeqProperties
    <3>4. Len(a) <= Len(r.args) /\ Len(a) \in Nat
      BY <3>1, <3>3
    <3>5. /\ Len(a) >= 1 => a[1] \in Keys
          /\ Len(a) >= 2 => a[2] \in Vals
      BY <2>2, <3>3, <3>4
    <3>6. PICK q : q = [r EXCEPT !.args = SubSeq(@, 1, res - 1)]
      OBVIOUS
    <3>7. q.op = r.op /\ q.engine = r.engine /\ q.args = a
      BY <2>2, <3>2, <3>6
    <3>8. RequestTyped(q)
      BY <2>3, <3>3, <3>5, <3>7
    <3>9. Received(res) = <<q>>
      BY <1>2, <2>1, <2>5, <3>6 DEF Received
    <3> QED
      BY <3>8, <3>9
  <2> QED
    BY <2>4, <2>5
<1> QED
  BY <1>1, <1>2

\* kvs_protocol gives a length, a text and a dictionary of their types.
LEMMA Answer ==
  ASSUME ServerTyped, NEW res \in Int, res > 0
  PROVE  LET out == kvs_protocol(dict, Received(res))
         IN  /\ out.length \in {-3, 0, 1}
             /\ out.length > 0 => out.text \in Texts
             /\ out.dict \in [Engines -> [Keys -> Vals \cup {Absent}]]
<1>d. dict \in [Engines -> [Keys -> Vals \cup {Absent}]]
  BY DEF ServerTyped
<1>1. CASE Received(res) = Zero
  BY <1>d, <1>1 DEF kvs_protocol, Zero
<1>2. CASE Received(res) # Zero
  <2>1. PICK r : Received(res) = <<r>> /\ RequestTyped(r)
    BY <1>2, Cut
  <2>2. /\ <<r>> \in Seq({r}) /\ <<r>> # <<>> /\ \A q \in {r} : RequestTyped(q)
        /\ \A i \in 1..Len(<<r>>) : ~WellFormed(<<r>>[i]) => Len(<<r>>) = 1
    BY <2>1
  <2> QED
    BY <1>d, <2>1, <2>2, Handled
<1> QED
  BY <1>1, <1>2

-----------------------------------------------------------------------------
(* The invariant, action by action *)

\* The invariant holds when the loop starts.
LEMMA Init_Inv == Init => IInv
<1> SUFFICES ASSUME Init PROVE IInv
  OBVIOUS
<1> USE DEF Init
<1>1. RingsTyped
  BY DEF RingsTyped, set_event_accept, Op, Operations
<1>2. ServerTyped
  BY DEF ServerTyped, EmptyStore, Zero
<1>3. ClientsAgree
  BY IoUringAssumption DEF ClientsAgree, Connected, Once, Has
<1>4. ErrorsReset
  BY DEF ErrorsReset
<1>5. set_event_accept \in OpsOf(LISTEN) /\ \A fd \in Fds : set_event_accept \notin OpsOf(fd)
  BY DEF set_event_accept, Op, OpsOf, Operations, LISTEN, Fds
<1>6. \A n : ArmedOf(n) = {} /\ ~Has(cq, CqesOf(n)) /\ Once(cq, CqesOf(n))
  BY DEF ArmedOf, Has, Once
<1>7. \A n : Once(sq, OpsOf(n)) /\ (Has(sq, OpsOf(n)) <=> set_event_accept \in OpsOf(n))
  BY DEF Has, Once
<1>8. PlacesAgree
  BY <1>6, <1>7 DEF PlacesAgree, PlacedOnce
<1>9. BusyAgree
  BY <1>5, <1>6, <1>7 DEF BusyAgree, Busy
<1> QED
  BY <1>1, <1>2, <1>3, <1>4, <1>8, <1>9 DEF IInv

\* What a step keeps that leaves the rings and the descriptors alone and takes no
\* client out of a reset.
LEMMA ClientSteps ==
  ASSUME IInv, UNCHANGED <<conn, ring>>, ServerTyped', ClientsAgree',
         \A c \in Clients : sock[c] = "reset" => sock'[c] = "reset"
  PROVE  IInv'
<1> USE DEF IInv
<1>1. RingsTyped' /\ PlacesAgree' /\ \A n \in Names : Busy(n)' <=> Busy(n)
  BY RingsKept DEF ring, RingsTyped
<1>2. ErrorsReset'
  BY DEF ErrorsReset, ring
<1>3. BusyAgree'
  BY <1>1 DEF BusyAgree, ServerTyped, Names
<1> QED
  BY <1>1, <1>2, <1>3

\* Clients and descriptors agree as before when none is connected or closed.
LEMMA AgreeKept ==
  ASSUME ClientsAgree, UNCHANGED <<conn, backlog>>,
         \A c \in Clients : sock[c] # "none" => sock'[c] # "none"
  PROVE  ClientsAgree'
<1>1. \A c : Connected(c)' <=> Connected(c)
  BY DEF Connected
<1> QED
  BY <1>1 DEF ClientsAgree

\* A client that connects keeps it.
LEMMA Connect_Inv == ASSUME IInv, NEW c \in Clients, Connect(c) PROVE IInv'
<1> USE DEF Connect
<1>1. ServerTyped'
  BY AppendProperties DEF IInv, ServerTyped
<1>2. ClientsAgree'
  <2>1. \A d : Connected(d)' <=> Connected(d)
    BY DEF Connected
  <2>2. \A d \in Clients : /\ Has(backlog', {d}) <=> Has(backlog, {d}) \/ d = c
                           /\ Once(backlog, {d}) /\ ~(Has(backlog, {d}) /\ d = c) => Once(backlog', {d})
    <3> SUFFICES ASSUME NEW d \in Clients
                 PROVE  /\ Has(backlog', {d}) <=> Has(backlog, {d}) \/ d = c
                        /\ Once(backlog, {d}) /\ ~(Has(backlog, {d}) /\ d = c) => Once(backlog', {d})
      OBVIOUS
    <3>1. backlog \in Seq(Clients) /\ backlog' = Append(backlog, c) /\ (c \in {d} <=> d = c)
      BY DEF IInv, ServerTyped
    <3> QED
      BY <3>1, AppendHas
  <2>3. ~Connected(c) /\ ~Has(backlog, {c})
    BY DEF IInv, ClientsAgree
  <2>4. \A d \in Clients : sock'[d] # "none" <=> sock[d] # "none" \/ d = c
    BY DEF IInv, ServerTyped
  <2> QED
    BY <2>1, <2>2, <2>3, <2>4 DEF IInv, ClientsAgree
<1>3. \A d \in Clients : sock[d] = "reset" => sock'[d] = "reset"
  BY DEF IInv, ServerTyped
<1> QED
  BY <1>1, <1>2, <1>3, ClientSteps

\* A client that sends keeps it.
LEMMA Send_Inv == ASSUME IInv, NEW c \in Clients, NEW r \in Requests, Send(c, r) PROVE IInv'
<1> USE DEF Send
<1>1. ServerTyped'
  BY AppendProperties DEF IInv, ServerTyped
<1> QED
  BY <1>1, AgreeKept, ClientSteps DEF IInv

\* A client that reads keeps it.
LEMMA Read_Inv == ASSUME IInv, NEW c \in Clients, Read(c) PROVE IInv'
<1> USE DEF Read
<1>1. ServerTyped'
  BY DEF IInv, ServerTyped
<1> QED
  BY <1>1, AgreeKept, ClientSteps DEF IInv

\* A client that closes or resets keeps it.
LEMMA Close_Inv ==
  ASSUME IInv, NEW c \in Clients, NEW how \in {"closed", "reset"}, Close(c, how)
  PROVE  IInv'
<1> USE DEF Close
<1>1. ServerTyped'
  BY DEF IInv, ServerTyped
<1>2. \A d \in Clients : /\ sock[d] # "none" => sock'[d] # "none"
                         /\ sock[d] = "reset" => sock'[d] = "reset"
  BY DEF IInv, ServerTyped
<1> QED
  BY <1>1, <1>2, AgreeKept, ClientSteps DEF IInv

-----------------------------------------------------------------------------
(* The steps of the kernel *)

\* An accept names the listening socket and the new one, the rest one connection.
LEMMA CqeNames ==
  ASSUME NEW e \in Completions
  PROVE  /\ e.event = "ACCEPT" =>
              /\ e.res \in Fds /\ e.fd = LISTEN
              /\ \A n \in Names : e \in CqesOf(n) <=> n = LISTEN \/ n = e.res
         /\ e.event # "ACCEPT" =>
              e.fd \in Fds /\ \A n \in Names : e \in CqesOf(n) <=> n = e.fd
<1>1. LISTEN \notin Fds
  BY DEF LISTEN, Fds
<1> QED
  BY <1>1 DEF Completions, CqesOf

\* A descriptor that is named by an operation or a completion is connected.
LEMMA BusyConnected ==
  ASSUME IInv, NEW fd \in Fds, Busy(fd)
  PROVE  conn[fd] \in Clients
BY DEF IInv, BusyAgree, ServerTyped

\* The kernel completing an accept keeps it.
LEMMA CompleteAccept_Inv == ASSUME IInv, CompleteAccept PROVE IInv'
<1>1. PICK fd \in Fds : /\ conn[fd] = NONE /\ conn' = [conn EXCEPT ![fd] = Head(backlog)]
                        /\ Complete(set_event_accept, fd)
  BY DEF CompleteAccept
<1>t. /\ set_event_accept \in armed /\ backlog # <<>> /\ backlog' = Tail(backlog)
      /\ UNCHANGED <<dict, buffer, response, sock, inbox, outbox, asked, result, seen>>
  BY DEF CompleteAccept
<1> DEFINE e == Cqe("ACCEPT", LISTEN, fd)
           c == Head(backlog)
<1>2. /\ armed' = armed \ {set_event_accept} /\ cq' = Append(cq, e) /\ UNCHANGED <<sq, todo>>
      /\ set_event_accept.fd = LISTEN /\ e.event = "ACCEPT" /\ e.res = fd
  BY <1>1 DEF Complete, set_event_accept, Op, Cqe
<1>3. e \in Completions
  BY DEF Completions, Cqe
<1> HIDE DEF e
<1>4. \A n \in Names : e \in CqesOf(n) <=> n = LISTEN \/ n = fd
  BY <1>2, <1>3, CqeNames
<1>5. ~Busy(fd) /\ LISTEN \in Names /\ fd \in Names
  BY <1>1 DEF IInv, BusyAgree, Names
<1>6. /\ RingsTyped' /\ PlacesAgree'
      /\ \A n \in Names : Busy(n)' <=> Busy(n) \/ n = LISTEN \/ n = fd
  BY <1>t, <1>2, <1>3, <1>4, <1>5, Completed DEF IInv
<1>7. /\ c \in Clients /\ Tail(backlog) \in Seq(Clients)
      /\ \A d \in Clients : /\ Has(backlog, {d}) <=> d = c \/ Has(backlog', {d})
                            /\ Once(backlog, {d}) => Once(backlog', {d}) /\ ~(d = c /\ Has(backlog', {d}))
  <2>1. backlog \in Seq(Clients)
    BY DEF IInv, ServerTyped
  <2>2. \A d : c \in {d} <=> d = c
    OBVIOUS
  <2> HIDE DEF c
  <2>3. c = Head(backlog)
    BY DEF c
  <2> QED
    BY <1>t, <2>1, <2>2, <2>3, TailHas
<1>8. ServerTyped'
  BY <1>1, <1>t, <1>7 DEF IInv, ServerTyped
<1> HIDE DEF c
<1>9. ~Connected(c) /\ sock[c] # "none" /\ Once(backlog, {c})
  BY <1>7 DEF IInv, ClientsAgree
<1>10. conn' = [conn EXCEPT ![fd] = c] /\ conn \in [Fds -> Clients \cup {NONE}]
  BY <1>1 DEF c, IInv, ServerTyped
<1>11. \A d \in Clients : Connected(d)' <=> Connected(d) \/ d = c
  BY <1>1, <1>7, <1>10, IoUringAssumption DEF Connected
<1>12. ClientsAgree'
  <2>1. \A f, g \in Fds : conn'[f] = conn'[g] /\ conn'[f] # NONE => f = g
    BY <1>9, <1>10 DEF IInv, ClientsAgree, Connected
  <2> QED
    BY <1>t, <1>7, <1>9, <1>11, <2>1 DEF IInv, ClientsAgree
<1>13. ErrorsReset'
  <2>1. \A i \in DOMAIN cq' : cq'[i] = e \/ (i \in DOMAIN cq /\ cq'[i] = cq[i])
    BY <1>2, <1>3 DEF IInv, RingsTyped
  <2>2. \A f \in Fds : conn[f] \in Clients => conn'[f] = conn[f]
    BY <1>1, <1>10, IoUringAssumption
  <2>3. \A i \in DOMAIN cq : cq[i] \in Completions /\ (cq[i].event = "READ" => cq[i].fd \in Fds)
    BY DEF IInv, RingsTyped, Completions
  <2> QED
    BY <1>2, <1>t, <2>1, <2>2, <2>3 DEF IInv, ErrorsReset
<1>14. BusyAgree'
  <2>1. ASSUME NEW f \in Fds
        PROVE  IF conn'[f] = NONE THEN ~Busy(f)' ELSE Busy(f)' \/ sock'[conn'[f]] = "reset"
    <3>1. CASE f = fd
      BY <1>5, <1>6, <1>7, <1>10, <3>1, IoUringAssumption
    <3>2. CASE f # fd
      <4>1. conn'[f] = conn[f] /\ f # LISTEN /\ f \in Names
        BY <1>10, <3>2 DEF Fds, LISTEN, Names
      <4> QED
        BY <1>t, <1>6, <3>2, <4>1 DEF IInv, BusyAgree
    <3> QED
      BY <3>1, <3>2
  <2> QED
    BY <1>5, <1>6, <2>1 DEF BusyAgree
<1> QED
  BY <1>6, <1>8, <1>12, <1>13, <1>14 DEF IInv

\* A step of the kernel on an operation of a connection.
LEMMA ConnectionSteps ==
  ASSUME IInv, NEW op \in armed, op.fd \in Fds, NEW e \in Completions, e.fd = op.fd,
         e.event # "ACCEPT",
         armed' = armed \ {op}, cq' = Append(cq, e),
         UNCHANGED <<sq, todo, conn, backlog, sock>>, ServerTyped',
         e.event = "READ" /\ e.res < 0 => sock[conn[e.fd]] = "reset"
  PROVE  IInv'
<1>1. \A n \in Names : e \in CqesOf(n) <=> n = op.fd
  BY CqeNames
<1>2. Busy(op.fd) /\ op.fd \in Names
  BY DEF Busy, ArmedOf, Names
<1>3. RingsTyped' /\ PlacesAgree' /\ \A n \in Names : Busy(n)' <=> Busy(n)
  BY <1>1, <1>2, Completed DEF IInv
<1>4. ClientsAgree'
  BY AgreeKept DEF IInv
<1>5. ErrorsReset'
  <2>1. \A i \in DOMAIN cq' : cq'[i] = e \/ (i \in DOMAIN cq /\ cq'[i] = cq[i])
    BY DEF IInv, RingsTyped
  <2>2. conn[e.fd] \in Clients
    BY <1>2, BusyConnected
  <2> QED
    BY <2>1, <2>2 DEF IInv, ErrorsReset
<1>6. BusyAgree'
  BY <1>3 DEF IInv, BusyAgree, Names
<1> QED
  BY <1>3, <1>4, <1>5, <1>6 DEF IInv

\* The kernel completing a receive keeps it.
LEMMA CompleteRecv_Inv == ASSUME IInv, NEW fd \in Fds, CompleteRecv(fd) PROVE IInv'
<1> DEFINE c == conn[fd]
           op == set_event_recv(fd)
<1>t. /\ op \in armed /\ op.fd = fd
      /\ UNCHANGED <<dict, conn, response, backlog, sock, outbox, asked, result, seen>>
  BY DEF CompleteRecv, set_event_recv, Op
<1>1. \E res \in Int : /\ armed' = armed \ {op} /\ cq' = Append(cq, Cqe("READ", fd, res))
                       /\ UNCHANGED <<sq, todo>>
                       /\ res < 0 => sock[c] = "reset"
                       /\ \/ UNCHANGED <<buffer, inbox>>
                          \/ /\ inbox[c] # <<>> /\ buffer' = <<inbox[c][1]>>
                             /\ inbox' = [inbox EXCEPT ![c] = <<>>]
  <2>c. c \in Clients
    <3>1. Busy(fd)
      BY <1>t DEF Busy, ArmedOf
    <3> QED
      BY <3>1, BusyConnected
  <2>1. CASE inbox[c] # <<>> /\ buffer' = <<inbox[c][1]>> /\ inbox' = [inbox EXCEPT ![c] = <<>>]
             /\ Complete(op, Tokens(inbox[c][1]))
    <3>1. inbox[c][1] \in Requests
      BY <2>c, <2>1 DEF IInv, ServerTyped
    <3>2. Len(inbox[c][1].args) \in Nat
      BY <3>1, IoUringAssumption
    <3>3. Tokens(inbox[c][1]) \in Nat
      BY <3>2 DEF Tokens
    <3>4. \A res : Cqe(op.event, op.fd, res) = Cqe("READ", fd, res)
      BY DEF set_event_recv, Op
    <3> QED
      BY <2>1, <3>3, <3>4 DEF Complete
  <2>2. CASE inbox[c] = <<>> /\ sock[c] = "closed" /\ Complete(op, 0) /\ UNCHANGED <<buffer, inbox>>
    BY <2>2 DEF Complete, set_event_recv, Op
  <2>3. CASE sock[c] = "reset" /\ Complete(op, -1) /\ UNCHANGED <<buffer, inbox>>
    BY <2>3 DEF Complete, set_event_recv, Op
  <2> QED
    BY <2>1, <2>2, <2>3 DEF CompleteRecv
<1>2. PICK res \in Int : /\ armed' = armed \ {op} /\ cq' = Append(cq, Cqe("READ", fd, res))
                         /\ UNCHANGED <<sq, todo>>
                         /\ res < 0 => sock[c] = "reset"
                         /\ \/ UNCHANGED <<buffer, inbox>>
                            \/ /\ inbox[c] # <<>> /\ buffer' = <<inbox[c][1]>>
                               /\ inbox' = [inbox EXCEPT ![c] = <<>>]
  BY <1>1
<1>3. ServerTyped'
  <2>1. c \in Clients
    <3>1. Busy(fd)
      BY <1>t DEF Busy, ArmedOf
    <3> QED
      BY <3>1, BusyConnected
  <2>2. inbox[c] # <<>> => inbox[c][1] \in Requests
    BY <2>1 DEF IInv, ServerTyped
  <2>3. inbox' \in [Clients -> Seq(Requests)]
    <3>1. inbox \in [Clients -> Seq(Requests)] /\ <<>> \in Seq(Requests)
      BY DEF IInv, ServerTyped
    <3>2. inbox' = inbox \/ inbox' = [inbox EXCEPT ![c] = <<>>]
      BY <1>2
    <3> HIDE DEF c
    <3> QED
      BY <2>1, <3>1, <3>2
  <2>4. buffer' \in {Zero} \cup { <<r>> : r \in Requests }
    BY <1>2, <2>2 DEF IInv, ServerTyped
  <2> QED
    BY <1>t, <2>3, <2>4 DEF IInv, ServerTyped
<1>4. PICK e : e = Cqe("READ", fd, res)
  OBVIOUS
<1>5. e \in Completions /\ e.fd = fd /\ e.event = "READ" /\ e.res = res
  BY <1>4 DEF Completions, Cqe
<1> HIDE DEF op
<1> QED
  BY <1>t, <1>2, <1>3, <1>4, <1>5, ConnectionSteps

\* The kernel completing a send keeps it.
LEMMA CompleteSend_Inv == ASSUME IInv, NEW op \in armed, CompleteSend(op) PROVE IInv'
<1> DEFINE c == conn[op.fd]
<1>t. /\ op.event = "WRITE"
      /\ Complete(op, op.len)
      /\ UNCHANGED <<dict, conn, buffer, response, backlog, sock, inbox, asked, result, seen>>
  BY DEF CompleteSend
<1>1. op \in Operations /\ op.fd \in Fds /\ op.len \in Int
  BY <1>t DEF IInv, RingsTyped, Operations
<1>2. c \in Clients
  <2>1. Busy(op.fd)
    BY DEF Busy, ArmedOf
  <2> QED
    BY <1>1, <2>1, BusyConnected
<1>3. outbox' \in [Clients -> Seq(Texts \cup {JUNK})]
  <2>1. outbox \in [Clients -> Seq(Texts \cup {JUNK})] /\ response \in Texts \cup {JUNK}
    BY DEF IInv, ServerTyped
  <2>2. ASSUME NEW text \in Texts \cup {JUNK},
               outbox' = [outbox EXCEPT ![c] = IF sock[c] = "open" THEN Append(@, text) ELSE @]
        PROVE  outbox' \in [Clients -> Seq(Texts \cup {JUNK})]
    BY <1>2, <2>1, <2>2, AppendProperties
  <2> QED
    BY <2>1, <2>2 DEF CompleteSend
<1>4. ServerTyped'
  BY <1>t, <1>3 DEF IInv, ServerTyped
<1>5. PICK e : e = Cqe("WRITE", op.fd, op.len)
  OBVIOUS
<1>6. e \in Completions /\ e.fd = op.fd /\ e.event = "WRITE"
  BY <1>1, <1>5 DEF Completions, Cqe
<1>7. armed' = armed \ {op} /\ cq' = Append(cq, e) /\ UNCHANGED <<sq, todo>>
  BY <1>t, <1>5 DEF Complete
<1> QED
  BY <1>t, <1>1, <1>4, <1>6, <1>7, ConnectionSteps

-----------------------------------------------------------------------------
(* The steps of the loop *)

\* Handing over the submission queue keeps it.
LEMMA io_uring_submit_Inv == ASSUME IInv, io_uring_submit PROVE IInv'
<1>1. RingsTyped' /\ PlacesAgree' /\ \A n \in Names : Busy(n)' <=> Busy(n)
  BY Submitted DEF IInv
<1> USE DEF io_uring_submit, peers
<1>2. ServerTyped' /\ ClientsAgree' /\ ErrorsReset'
  BY AgreeKept DEF IInv, ServerTyped, ErrorsReset
<1>3. BusyAgree'
  BY <1>1 DEF IInv, BusyAgree, Names
<1> QED
  BY <1>1, <1>2, <1>3 DEF IInv

\* Taking a batch of completions keeps it.
LEMMA peek_Inv == ASSUME IInv, io_uring_peek_batch_cqe PROVE IInv'
<1> USE DEF io_uring_peek_batch_cqe, peers
<1>1. RingsTyped' /\ PlacesAgree' /\ \A n \in Names : Busy(n)' <=> Busy(n)
  <2>1. todo' \in 0..Len(cq)
    BY DEF IInv, RingsTyped
  <2> QED
    BY <2>1, RingsKept DEF IInv
<1>2. ServerTyped' /\ ClientsAgree' /\ ErrorsReset'
  BY AgreeKept DEF IInv, ServerTyped, ErrorsReset
<1>3. BusyAgree'
  BY <1>1 DEF IInv, BusyAgree, Names
<1> QED
  BY <1>1, <1>2, <1>3 DEF IInv

\* The completion that is handled, and what is left behind it.
LEMMA HeadOf ==
  ASSUME IInv, todo > 0
  PROVE  /\ cq # <<>> /\ Head(cq) \in Completions /\ Head(cq) = cq[1] /\ 1 \in DOMAIN cq
         /\ \A i \in DOMAIN Tail(cq) : i + 1 \in DOMAIN cq /\ i + 1 # 1 /\ Tail(cq)[i] = cq[i + 1]
         /\ \A n \in Names : Head(cq) \in CqesOf(n) => Busy(n) /\ ~Has(Tail(cq), CqesOf(n))
<1>1. cq # <<>> /\ cq \in Seq(Completions)
  BY DEF IInv, RingsTyped
<1>2. /\ Head(cq) \in Completions /\ Head(cq) = cq[1] /\ 1 \in DOMAIN cq
      /\ \A i \in DOMAIN Tail(cq) : i + 1 \in DOMAIN cq /\ i + 1 # 1 /\ Tail(cq)[i] = cq[i + 1]
  BY <1>1
<1>3. ASSUME NEW n \in Names, Head(cq) \in CqesOf(n)
      PROVE  Busy(n) /\ ~Has(Tail(cq), CqesOf(n))
  <2>1. Once(cq, CqesOf(n))
    BY DEF IInv, PlacesAgree, PlacedOnce
  <2> QED
    BY <1>1, <1>3, <2>1, TailHas DEF Busy
<1> QED
  BY <1>1, <1>2, <1>3

\* Handling keeps the errors that are still to be handled what they are.
LEMMA ErrorsKept ==
  ASSUME IInv, todo > 0, cq' = Tail(cq), UNCHANGED <<conn, sock>>
  PROVE  ErrorsReset'
BY HeadOf DEF IInv, ErrorsReset

\* A step of the loop that answers the completion of a connection with one operation
\* on the same connection.
LEMMA TurnSteps ==
  ASSUME IInv, todo > 0, Head(cq).event # "ACCEPT",
         NEW o \in Operations, o.fd = Head(cq).fd, o.event # "ACCEPT",
         cq' = Tail(cq), sq' = sq \o <<o>>, todo' = todo - 1, UNCHANGED armed,
         UNCHANGED <<conn, sock, backlog>>, ServerTyped'
  PROVE  IInv'
<1>1. \A n \in Names : Head(cq) \in CqesOf(n) <=> n = Head(cq).fd
  BY HeadOf, CqeNames
<1>2. /\ <<o>> \in Seq(Operations)
      /\ \A n \in Names : Once(<<o>>, OpsOf(n)) /\ (Has(<<o>>, OpsOf(n)) <=> n = Head(cq).fd)
  <2>1. \A n \in Names : o \in OpsOf(n) <=> n = Head(cq).fd
    BY DEF OpsOf
  <2>2. \A n : Once(<<o>>, OpsOf(n)) /\ (Has(<<o>>, OpsOf(n)) <=> o \in OpsOf(n))
    BY DEF Once, Has
  <2> QED
    BY <2>1, <2>2
<1>3. /\ RingsTyped' /\ PlacesAgree'
      /\ \A n \in Names : Busy(n)' <=> IF Head(cq) \in CqesOf(n) THEN Has(<<o>>, OpsOf(n)) ELSE Busy(n)
  BY <1>1, <1>2, HeadOf, Prepared DEF IInv
<1>4. \A n \in Names : Busy(n)' <=> Busy(n)
  BY <1>1, <1>2, <1>3, HeadOf
<1>5. ClientsAgree' /\ ErrorsReset'
  BY AgreeKept, ErrorsKept DEF IInv
<1>6. BusyAgree'
  BY <1>4 DEF IInv, BusyAgree, Names
<1> QED
  BY <1>3, <1>5, <1>6 DEF IInv

\* The branch for ACCEPT keeps it: both names are armed again.
LEMMA HandleAccept_Inv == ASSUME IInv, HandleAccept PROVE IInv'
<1> DEFINE fd == Head(cq).res
           o == set_event_accept
           p == set_event_recv(fd)
<1>t. /\ todo > 0 /\ Head(cq).event = "ACCEPT" /\ todo' = todo - 1 /\ cq' = Tail(cq)
      /\ sq' = sq \o <<o, p>> /\ buffer' = Zero
      /\ UNCHANGED <<armed, backlog, inbox, outbox, asked, seen, dict, conn, response, sock, result>>
  BY DEF HandleAccept, Handle
<1>1. fd \in Fds /\ \A n \in Names : Head(cq) \in CqesOf(n) <=> n = LISTEN \/ n = fd
  BY <1>t, HeadOf, CqeNames
<1>2. o \in Operations /\ p \in Operations /\ o.fd = LISTEN /\ p.fd = fd /\ LISTEN # fd
  BY <1>1 DEF set_event_accept, set_event_recv, Op, Operations, LISTEN, Fds
<1> HIDE DEF o, p
<1>3. /\ <<o, p>> \in Seq(Operations)
      /\ \A n \in Names : Once(<<o, p>>, OpsOf(n)) /\ (Has(<<o, p>>, OpsOf(n)) <=> n = LISTEN \/ n = fd)
  <2>1. \A n \in Names : /\ o \in OpsOf(n) <=> n = LISTEN
                         /\ p \in OpsOf(n) <=> n = fd
    BY <1>2 DEF OpsOf
  <2>2. DOMAIN <<o, p>> = {1, 2} /\ <<o, p>>[1] = o /\ <<o, p>>[2] = p
    OBVIOUS
  <2>3. \A n \in Names : /\ Has(<<o, p>>, OpsOf(n)) <=> o \in OpsOf(n) \/ p \in OpsOf(n)
                         /\ Once(<<o, p>>, OpsOf(n)) <=> ~(o \in OpsOf(n) /\ p \in OpsOf(n))
    BY <2>2 DEF Once, Has
  <2> QED
    BY <1>2, <2>1, <2>3
<1> HIDE DEF fd
<1>4. /\ RingsTyped' /\ PlacesAgree'
      /\ \A n \in Names : Busy(n)' <=> IF Head(cq) \in CqesOf(n) THEN Has(<<o, p>>, OpsOf(n)) ELSE Busy(n)
  BY <1>t, <1>1, <1>3, HeadOf, Prepared DEF IInv
<1>5. \A n \in Names : Busy(n)' <=> Busy(n)
  BY <1>t, <1>1, <1>3, <1>4, HeadOf
<1>6. ServerTyped' /\ ClientsAgree' /\ ErrorsReset'
  BY <1>t, AgreeKept, ErrorsKept DEF IInv, ServerTyped
<1>7. BusyAgree'
  BY <1>t, <1>5 DEF IInv, BusyAgree, Names
<1> QED
  BY <1>4, <1>6, <1>7 DEF IInv

\* The branch for READ keeps it: one operation for one, or a close.
LEMMA HandleRequest_Inv == ASSUME IInv, HandleRequest PROVE IInv'
<1> DEFINE res == Head(cq).res
           fd  == Head(cq).fd
           out == kvs_protocol(dict, Received(res))
           o   == set_event_send(fd, out.length)
<1>t. /\ todo > 0 /\ res > 0 /\ Head(cq).event = "READ" /\ todo' = todo - 1 /\ cq' = Tail(cq)
      /\ sq' = sq \o <<o>> /\ dict' = out.dict
      /\ response' = IF out.length > 0 THEN out.text ELSE response
      /\ UNCHANGED <<armed, backlog, inbox, outbox, asked, seen, conn, buffer, sock>>
  BY DEF HandleRequest, Handle
<1>1. fd \in Fds /\ res \in Int
  BY <1>t, HeadOf, CqeNames DEF Completions
<1>2. /\ out.length \in {-3, 0, 1}
      /\ out.length > 0 => out.text \in Texts
      /\ out.dict \in [Engines -> [Keys -> Vals \cup {Absent}]]
  BY <1>t, <1>1, Answer DEF IInv
<1> HIDE DEF out
<1>3. o \in Operations /\ o.fd = fd /\ o.event = "WRITE"
  BY <1>1, <1>2 DEF set_event_send, Op, Operations
<1>4. ServerTyped'
  BY <1>t, <1>2 DEF IInv, ServerTyped
<1> HIDE DEF o
<1> QED
  BY <1>t, <1>3, <1>4, TurnSteps

\* The branch for WRITE keeps it: a send is followed by a receive.
LEMMA HandleSent_Inv == ASSUME IInv, HandleSent PROVE IInv'
<1> DEFINE fd == Head(cq).fd
           o  == set_event_recv(fd)
<1>t. /\ todo > 0 /\ Head(cq).event = "WRITE" /\ todo' = todo - 1 /\ cq' = Tail(cq)
      /\ sq' = sq \o <<o>> /\ buffer' = Zero
      /\ UNCHANGED <<armed, backlog, inbox, outbox, asked, seen, dict, conn, response, sock, result>>
  BY DEF HandleSent, Handle
<1>1. fd \in Fds
  BY <1>t, HeadOf, CqeNames
<1>2. o \in Operations /\ o.fd = fd /\ o.event = "READ"
  BY <1>1 DEF set_event_recv, Op, Operations
<1>3. ServerTyped'
  BY <1>t DEF IInv, ServerTyped
<1> HIDE DEF o
<1> QED
  BY <1>t, <1>2, <1>3, TurnSteps

\* What a completion of a connection leaves when nothing is prepared.
LEMMA Unanswered ==
  ASSUME IInv, todo > 0, Head(cq).event = "READ",
         cq' = Tail(cq), sq' = sq \o <<>>, todo' = todo - 1, UNCHANGED armed
  PROVE  /\ RingsTyped' /\ PlacesAgree' /\ Head(cq).fd \in Fds /\ conn[Head(cq).fd] \in Clients
         /\ \A n \in Names : Busy(n)' <=> Busy(n) /\ n # Head(cq).fd
<1>1. /\ Head(cq).fd \in Fds
      /\ \A n \in Names : Head(cq) \in CqesOf(n) <=> n = Head(cq).fd
  BY HeadOf, CqeNames
<1>2. <<>> \in Seq(Operations) /\ \A n : Once(<<>>, OpsOf(n)) /\ ~Has(<<>>, OpsOf(n))
  BY DEF Once, Has
<1>3. /\ RingsTyped' /\ PlacesAgree'
      /\ \A n \in Names : Busy(n)' <=> IF Head(cq) \in CqesOf(n) THEN Has(<<>>, OpsOf(n)) ELSE Busy(n)
  BY <1>2, HeadOf, Prepared DEF IInv
<1>4. conn[Head(cq).fd] \in Clients
  BY <1>1, HeadOf, BusyConnected DEF Names
<1> QED
  BY <1>1, <1>2, <1>3, <1>4, HeadOf

\* The connection whose client has gone is closed: its operation was the last one.
LEMMA HandleEof_Inv == ASSUME IInv, HandleEof PROVE IInv'
<1>0. PICK fd : fd = Head(cq).fd
  OBVIOUS
<1>c. PICK c : c = conn[fd]
  OBVIOUS
<1>t. /\ todo > 0 /\ Head(cq).event = "READ" /\ todo' = todo - 1 /\ cq' = Tail(cq)
      /\ sq' = sq \o <<>>
      /\ conn' = [conn EXCEPT ![fd] = NONE] /\ sock' = [sock EXCEPT ![c] = "none"]
      /\ UNCHANGED <<armed, backlog, inbox, outbox, asked, seen, dict, buffer, response, result>>
  BY <1>0, <1>c DEF HandleEof, Handle
<1>1. /\ RingsTyped' /\ PlacesAgree' /\ fd \in Fds /\ c \in Clients
      /\ \A n \in Names : Busy(n)' <=> Busy(n) /\ n # fd
  BY <1>0, <1>c, <1>t, Unanswered
<1>2. ServerTyped'
  BY <1>t, <1>1 DEF IInv, ServerTyped
<1>3. conn \in [Fds -> Clients \cup {NONE}] /\ sock \in [Clients -> {"none", "open", "closed", "reset"}]
  BY DEF IInv, ServerTyped
<1>4. \A f \in Fds \ {fd} : conn'[f] = conn[f] /\ conn[f] # c
  BY <1>c, <1>t, <1>1, <1>3, IoUringAssumption DEF IInv, ClientsAgree
<1>5. conn'[fd] = NONE /\ sock'[c] = "none" /\ \A d \in Clients \ {c} : sock'[d] = sock[d]
  BY <1>t, <1>1, <1>3
<1>6. ClientsAgree'
  <2>1. Connected(c) /\ ~Connected(c)'
    BY <1>c, <1>1, <1>4, <1>5, IoUringAssumption DEF Connected
  <2>2. \A d \in Clients \ {c} : Connected(d)' <=> Connected(d)
    BY <1>c, <1>1, <1>4, <1>5, IoUringAssumption DEF Connected
  <2>3. \A f, g \in Fds : conn'[f] = conn'[g] /\ conn'[f] # NONE => f = g
    BY <1>4, <1>5 DEF IInv, ClientsAgree
  <2> QED
    BY <1>t, <1>5, <2>1, <2>2, <2>3 DEF IInv, ClientsAgree
<1>7. ErrorsReset'
  <2> SUFFICES ASSUME NEW i \in DOMAIN cq', cq'[i].event = "READ", cq'[i].res < 0
               PROVE  conn'[cq'[i].fd] \in Clients /\ sock'[conn'[cq'[i].fd]] = "reset"
    BY DEF ErrorsReset
  <2>1. PICK j \in DOMAIN cq : cq'[i] = cq[j]
    BY <1>t, HeadOf
  <2>2. cq[j] \in Completions /\ cq[j].fd \in Fds
    BY <2>1 DEF IInv, RingsTyped, Completions
  <2>3. cq[j].fd # fd
    <3>1. Head(cq) \in CqesOf(fd) /\ fd \in Names
      BY <1>0, <1>1, <1>t, HeadOf DEF CqesOf, Names
    <3>2. ~Has(cq', CqesOf(fd))
      BY <1>t, <3>1, HeadOf
    <3> QED
      BY <2>1, <2>2, <3>2 DEF Has, CqesOf
  <2>4. conn[cq[j].fd] \in Clients /\ sock[conn[cq[j].fd]] = "reset"
    BY <2>1 DEF IInv, ErrorsReset
  <2> QED
    BY <1>4, <1>5, <2>1, <2>2, <2>3, <2>4
<1>8. BusyAgree'
  <2>1. ASSUME NEW f \in Fds
        PROVE  IF conn'[f] = NONE THEN ~Busy(f)' ELSE Busy(f)' \/ sock'[conn'[f]] = "reset"
    <3>1. CASE f = fd
      BY <1>1, <1>5, <3>1 DEF Names
    <3>2. CASE f # fd
      BY <1>1, <1>3, <1>4, <1>5, <3>2 DEF IInv, BusyAgree, Names
    <3> QED
      BY <3>1, <3>2
  <2>2. LISTEN # fd
    BY <1>1 DEF LISTEN, Fds
  <2> QED
    BY <1>1, <2>1, <2>2 DEF IInv, BusyAgree, Names
<1> QED
  BY <1>1, <1>2, <1>6, <1>7, <1>8 DEF IInv

\* The connection that was reset is left with no operation under way.
LEMMA HandleError_Inv == ASSUME IInv, HandleError PROVE IInv'
<1>0. PICK fd : fd = Head(cq).fd
  OBVIOUS
<1>t. /\ todo > 0 /\ Head(cq).event = "READ" /\ Head(cq).res < 0
      /\ todo' = todo - 1 /\ cq' = Tail(cq) /\ sq' = sq \o <<>>
      /\ UNCHANGED <<armed, backlog, inbox, outbox, asked, seen, dict, conn, buffer, response, sock, result>>
  BY DEF HandleError, Handle
<1>1. /\ RingsTyped' /\ PlacesAgree' /\ fd \in Fds /\ conn[fd] \in Clients
      /\ \A n \in Names : Busy(n)' <=> Busy(n) /\ n # fd
  BY <1>0, <1>t, Unanswered
<1>2. sock[conn[fd]] = "reset"
  BY <1>0, <1>t, HeadOf DEF IInv, ErrorsReset
<1>3. ServerTyped' /\ ClientsAgree' /\ ErrorsReset'
  BY <1>t, AgreeKept, ErrorsKept DEF IInv, ServerTyped
<1>4. BusyAgree'
  <2>1. LISTEN # fd
    BY <1>1 DEF LISTEN, Fds
  <2> QED
    BY <1>t, <1>1, <1>2, <2>1, IoUringAssumption DEF IInv, BusyAgree, Names
<1> QED
  BY <1>1, <1>3, <1>4 DEF IInv

-----------------------------------------------------------------------------

\* Every step keeps it.
LEMMA Next_Inv == IInv /\ [Next]_vars => IInv'
<1> SUFFICES ASSUME IInv, [Next]_vars PROVE IInv'
  OBVIOUS
<1>1. CASE UNCHANGED vars
  <2>1. UNCHANGED <<conn, ring, backlog, sock>> /\ ServerTyped'
    BY <1>1 DEF vars, peers, IInv, ServerTyped
  <2> QED
    BY <2>1, AgreeKept, ClientSteps DEF IInv
<1>2. CASE Loop
  BY <1>2, io_uring_submit_Inv, peek_Inv, HandleAccept_Inv, HandleEof_Inv, HandleError_Inv,
     HandleRequest_Inv, HandleSent_Inv DEF Loop
<1>3. CASE Kernel
  BY <1>3, CompleteAccept_Inv, CompleteRecv_Inv, CompleteSend_Inv DEF Kernel
<1>4. ASSUME NEW c \in Clients,
             \/ Connect(c) \/ Read(c)
             \/ \E how \in {"closed", "reset"} : Close(c, how)
             \/ \E r \in Requests : Send(c, r)
      PROVE  IInv'
  BY <1>4, Connect_Inv, Read_Inv, Close_Inv, Send_Inv
<1> QED
  BY <1>1, <1>2, <1>3, <1>4 DEF Next

\* For any number of clients and requests and whatever they do: each connection has
\* one operation under way in the rings, or was reset; one accept is under way; and
\* the rings and the batch keep their shape.
THEOREM OneOperationEach == Spec => []UringSound
<1> QED
  BY Init_Inv, Next_Inv, Counted, PTL DEF Spec

-----------------------------------------------------------------------------
(* One connection: the server is the atomic service *)

OneClient == \A c, d \in Clients : c = d

\* A command the server knows comes with as many words as it takes.
KnownWhole == \A r \in Requests : r.op # "BOGUS" => WellFormed(r)

\* A request was received and waits for the loop; the end of the stream does; an answer
\* is on its way from the loop to the kernel.
Heard == \E i \in DOMAIN cq : cq[i].event = "READ" /\ cq[i].res > 0
Ended == \E i \in DOMAIN cq : cq[i].event = "READ" /\ cq[i].res = 0
Sends(o) == o.event = "WRITE" /\ o.len > 0
Sending  == (\E i \in DOMAIN sq : Sends(sq[i])) \/ \E o \in armed : Sends(o)

\* Nothing is sent from behind the buffer, and a request that was received is in the
\* buffer with the length the kernel counted.
BufferSound ==
  /\ \A i \in DOMAIN sq : sq[i].len >= 0
  /\ \A o \in armed : o.len >= 0
  /\ \A i \in DOMAIN cq : cq[i].event = "READ" /\ cq[i].res > 0 =>
       buffer # Zero /\ cq[i].res = Tokens(buffer[1])

\* Where the request of c is, and where its answer: in one place at a time.
TurnOf(c) ==
  /\ sock[c] # "open" =>
       asked[c] = <<>> /\ outbox[c] = <<>> /\ result[c] = Absent /\ seen[c] = Absent
  /\ sock[c] = "none" => inbox[c] = <<>>
  /\ sock[c] = "open" =>
       /\ inbox[c] # <<>> => inbox[c] = asked[c]
       /\ Heard => buffer = asked[c]
       /\ Sending => response = result[c] /\ result[c] # Absent
       /\ outbox[c] # <<>> => outbox[c] = <<result[c]>> /\ result[c] # Absent /\ ~Sending
  /\ inbox[c] # <<>> => ~Heard
  /\ result[c] # Absent => asked[c] # <<>> /\ inbox[c] = <<>> /\ ~Heard
  /\ Ended => sock[c] = "closed" /\ inbox[c] = <<>>

\* A client has one request under way at most.
PeersTyped ==
  /\ asked \in [Clients -> {<<>>} \cup { <<r>> : r \in Requests }]
  /\ inbox \in [Clients -> {<<>>} \cup { <<r>> : r \in Requests }]
  /\ result \in [Clients -> Texts \cup {Absent}]
  /\ seen \in [Clients -> Texts \cup {JUNK, Absent}]

UInv == IInv /\ BufferSound /\ PeersTyped /\ \A c \in Clients : TurnOf(c)

\* With one client there is one connection, and with one operation under way on it the
\* rings hold one entry that is not of the listening socket.
LEMMA Alone ==
  ASSUME OneClient, IInv
  PROVE  /\ \A i, j \in DOMAIN cq : i = j
         /\ cq # <<>> => /\ \A i \in DOMAIN sq : sq[i].event = "ACCEPT"
                         /\ \A o \in armed : o.event = "ACCEPT"
         /\ \A o, p \in armed : o.event # "ACCEPT" /\ p.event # "ACCEPT" => o = p
         /\ \A o \in armed : o.event # "ACCEPT" => \A i \in DOMAIN sq : sq[i].event = "ACCEPT"
         /\ \A c \in Clients : ~Connected(c) =>
              /\ cq = <<>> /\ \A i \in DOMAIN sq : sq[i].event = "ACCEPT"
              /\ \A o \in armed : o.event = "ACCEPT"
<1>1. /\ \A i \in DOMAIN sq : sq[i] \in Operations
      /\ \A i \in DOMAIN cq : cq[i] \in Completions
      /\ armed \subseteq Operations /\ (cq # <<>> => 1 \in DOMAIN cq)
  BY DEF IInv, RingsTyped
<1>2. \A f, g \in Fds : Busy(f) /\ Busy(g) => f = g
  BY BusyConnected, IoUringAssumption DEF OneClient, IInv, ClientsAgree
<1>3. \A e \in Completions : \E f \in Fds : e \in CqesOf(f)
  BY DEF Completions, CqesOf
<1>4. \A o \in Operations : o.event # "ACCEPT" => \E f \in Fds : o \in OpsOf(f)
  BY DEF Operations, OpsOf
<1>5. \A f \in Fds : PlacedOnce(f)
  BY DEF IInv, PlacesAgree, Names
<1>6. \A i \in DOMAIN cq : \E f \in Fds : Busy(f) /\ cq[i] \in CqesOf(f) /\ Has(cq, CqesOf(f))
  BY <1>1, <1>3 DEF Busy, Has
<1>7. \A i \in DOMAIN sq : sq[i].event # "ACCEPT" =>
        \E f \in Fds : Busy(f) /\ sq[i] \in OpsOf(f) /\ Has(sq, OpsOf(f))
  BY <1>1, <1>4 DEF Busy, Has
<1>8. \A o \in armed : o.event # "ACCEPT" => \E f \in Fds : Busy(f) /\ o \in ArmedOf(f)
  BY <1>1, <1>4 DEF Busy, OpsOf, ArmedOf
<1>9. \A i, j \in DOMAIN cq : i = j
  BY <1>2, <1>5, <1>6 DEF PlacedOnce, Once
<1>10. ASSUME cq # <<>>
       PROVE  /\ \A i \in DOMAIN sq : sq[i].event = "ACCEPT"
              /\ \A o \in armed : o.event = "ACCEPT"
  BY <1>1, <1>2, <1>5, <1>6, <1>7, <1>8, <1>10 DEF PlacedOnce
<1>11. \A o, p \in armed : o.event # "ACCEPT" /\ p.event # "ACCEPT" => o = p
  BY <1>2, <1>5, <1>8 DEF PlacedOnce
<1>12. \A o \in armed : o.event # "ACCEPT" => \A i \in DOMAIN sq : sq[i].event = "ACCEPT"
  BY <1>2, <1>5, <1>7, <1>8 DEF PlacedOnce
<1>13. ASSUME NEW c \in Clients, ~Connected(c)
       PROVE  /\ cq = <<>> /\ \A i \in DOMAIN sq : sq[i].event = "ACCEPT"
              /\ \A o \in armed : o.event = "ACCEPT"
  <2>1. \A f \in Fds : ~Busy(f)
    BY SMTT(30), <1>13, BusyConnected DEF OneClient, Connected
  <2> QED
    BY <1>1, <1>6, <1>7, <1>8, <2>1
<1> QED
  BY <1>9, <1>10, <1>11, <1>12, <1>13

\* The service has the command layer of the loop.
LEMMA SameProtocol ==
  ASSUME NEW d, NEW r, Tokens(r) \in Nat
  PROVE  /\ Service!WellFormed(r) <=> WellFormed(r)
         /\ Service!kvs_protocol(d, <<r>>) = kvs_protocol(d, <<r>>)
BY DEF Service!WellFormed, WellFormed, Service!Arity, Arity, Service!Tokens, Tokens,
       Service!kvs_protocol, kvs_protocol, Service!kvs_protocol_filter, kvs_protocol_filter,
       Service!kvs_split_token, kvs_split_token, Service!Engine, Engine

Calls == [c \in Clients |-> CallOf(c)]

\* What every step does to the service, and that it leaves the turns in order.
Goal ==
  /\ BufferSound' /\ PeersTyped' /\ \A d \in Clients : TurnOf(d)'
  /\ Service!Next \/ UNCHANGED Service!vars

\* A step that changes the call of the one client changes the calls at that client.
LEMMA CallStep ==
  ASSUME OneClient, NEW c \in Clients, NEW x, CallOf(c)' = x
  PROVE  Calls' = [Calls EXCEPT ![c] = x] /\ Calls[c] = CallOf(c)
BY DEF Calls, OneClient

\* A step of the rings alone is none of the service.
LEMMA QuietStep ==
  ASSUME UInv, UNCHANGED <<dict, response, sock, inbox, outbox, asked, result, seen>>, BufferSound',
         Heard' <=> Heard, Heard => buffer' = buffer, Sending' => Sending, Ended' => Ended
  PROVE  Goal
<1>1. \A d \in Clients : TurnOf(d)'
  BY DEF UInv, TurnOf
<1>2. \A d \in Clients : CallOf(d)' = CallOf(d)
  BY DEF CallOf, Heard
<1>3. UNCHANGED Service!vars
  BY <1>2 DEF Service!vars
<1> QED
  BY <1>1, <1>3 DEF Goal, UInv, PeersTyped

\* To connect is no step of the service: nothing of an earlier connection is left.
LEMMA Connect_Step ==
  ASSUME OneClient, UInv, NEW c \in Clients, Connect(c)
  PROVE  Goal
<1>1. /\ sock[c] = "none" /\ sock'[c] = "open"
      /\ UNCHANGED <<dict, buffer, response, sq, armed, cq, inbox, outbox, asked, result, seen>>
  BY DEF Connect, ring, UInv, IInv, ServerTyped
<1>2. ~Connected(c) /\ TurnOf(c)
  BY <1>1 DEF UInv, IInv, ClientsAgree
<1>3. ~Heard' /\ ~Sending' /\ ~Ended' /\ ~Heard
  <2>1. /\ cq = <<>> /\ \A i \in DOMAIN sq : sq[i].event = "ACCEPT"
        /\ \A o \in armed : o.event = "ACCEPT"
    BY <1>2, Alone DEF UInv
  <2> QED
    BY <1>1, <2>1 DEF Heard, Sending, Ended, Sends
<1>4. BufferSound' /\ PeersTyped'
  BY <1>1 DEF UInv, BufferSound, PeersTyped
<1>5. TurnOf(c)'
  BY <1>1, <1>2, <1>3 DEF TurnOf
<1>6. CallOf(c) = <<"idle">> /\ CallOf(c)' = <<"idle">>
  BY <1>1, <1>2, <1>3 DEF CallOf, TurnOf
<1>7. UNCHANGED Service!vars
  BY <1>1, <1>6 DEF Service!vars, OneClient
<1> QED
  BY <1>4, <1>5, <1>7 DEF Goal, OneClient

\* To send is Invoke.
LEMMA Send_Step ==
  ASSUME OneClient, UInv, NEW c \in Clients, NEW r \in Requests, Send(c, r)
  PROVE  Goal
<1>t. TurnOf(c) /\ PeersTyped
  BY DEF UInv
<1>1. /\ sock[c] = "open" /\ asked[c] = <<>>
      /\ inbox' = [inbox EXCEPT ![c] = Append(@, r)] /\ inbox'[c] = Append(inbox[c], r)
      /\ asked' = [asked EXCEPT ![c] = <<r>>] /\ asked'[c] = <<r>>
      /\ seen' = [seen EXCEPT ![c] = Absent]
      /\ UNCHANGED <<dict, buffer, response, sq, armed, cq, sock, outbox, result>>
  BY <1>t DEF Send, ring, PeersTyped
<1>2. inbox[c] = <<>> /\ result[c] = Absent /\ outbox[c] = <<>> /\ ~Heard /\ ~Sending /\ ~Ended
  <2>1. Heard => buffer # Zero
    BY DEF UInv, BufferSound, Heard
  <2> QED
    BY <1>t, <1>1, <2>1 DEF TurnOf, Zero
<1>3. inbox'[c] = <<r>>
  BY <1>1, <1>2
<1>4. ~Heard' /\ ~Sending' /\ ~Ended'
  BY <1>1, <1>2 DEF Heard, Sending, Ended
<1>5. BufferSound' /\ PeersTyped'
  BY <1>1, <1>3, <1>t DEF UInv, BufferSound, PeersTyped
<1>6. TurnOf(c)'
  BY <1>1, <1>2, <1>3, <1>4 DEF TurnOf
<1>7. CallOf(c) = <<"idle">> /\ CallOf(c)' = <<"sent", r>>
  BY <1>1, <1>2 DEF CallOf
<1>8. Service!Invoke(c, r)
  BY <1>1, <1>7, CallStep DEF Service!Invoke, Service!Idle, Calls
<1> QED
  BY <1>5, <1>6, <1>8 DEF Goal, OneClient, Service!Next

\* To read is Answer.
LEMMA Read_Step ==
  ASSUME OneClient, UInv, NEW c \in Clients, Read(c)
  PROVE  Goal
<1>t. TurnOf(c) /\ PeersTyped /\ outbox \in [Clients -> Seq(Texts \cup {JUNK})]
  BY DEF UInv, IInv, ServerTyped
<1>1. /\ sock[c] = "open" /\ outbox[c] # <<>>
      /\ seen' = [seen EXCEPT ![c] = Head(outbox[c])]
      /\ outbox'[c] = Tail(outbox[c])
      /\ asked' = [asked EXCEPT ![c] = <<>>] /\ asked'[c] = <<>>
      /\ result' = [result EXCEPT ![c] = Absent] /\ result'[c] = Absent
      /\ UNCHANGED <<dict, buffer, response, sq, armed, cq, sock, inbox>>
  BY <1>t DEF Read, ring, PeersTyped
<1>2. /\ outbox[c] = <<result[c]>> /\ result[c] # Absent /\ ~Sending /\ ~Heard /\ ~Ended
      /\ inbox[c] = <<>> /\ asked[c] # <<>> /\ result[c] \in Texts
  BY <1>t, <1>1 DEF TurnOf, PeersTyped
<1>3. Head(outbox[c]) = result[c] /\ outbox'[c] = <<>>
  BY <1>1, <1>2
<1>4. ~Heard' /\ ~Sending' /\ ~Ended'
  BY <1>1, <1>2 DEF Heard, Sending, Ended
<1>5. BufferSound' /\ PeersTyped'
  BY <1>1, <1>2, <1>3, <1>t DEF UInv, BufferSound, PeersTyped
<1>6. TurnOf(c)'
  BY <1>1, <1>2, <1>3, <1>4 DEF TurnOf
<1>7. CallOf(c) = <<"done", result[c]>> /\ CallOf(c)' = <<"idle">>
  BY <1>1, <1>2 DEF CallOf
<1>8. Calls' = [Calls EXCEPT ![c] = <<"idle">>] /\ Calls[c] = <<"done", result[c]>>
  BY <1>7, CallStep
<1>9. Service!Answer(c, result[c])
  BY <1>1, <1>3, <1>8 DEF Service!Answer, Service!Idle, Calls
<1>10. Calls[c][1] = "done" /\ Calls[c][2] = result[c]
  BY <1>8
<1> QED
  BY <1>5, <1>6, <1>9, <1>10 DEF Goal, OneClient, Service!Next, Calls

\* To close is Leave: a request that was not carried out stays behind in the stream or in
\* the buffer, or is lost.
LEMMA Close_Step ==
  ASSUME OneClient, UInv, NEW c \in Clients, NEW how \in {"closed", "reset"}, Close(c, how)
  PROVE  Goal
<1>t. TurnOf(c) /\ PeersTyped
  BY DEF UInv
<1>1. /\ sock[c] = "open" /\ sock'[c] = how
      /\ inbox' = [inbox EXCEPT ![c] = IF how = "reset" THEN <<>> ELSE @]
      /\ inbox'[c] = IF how = "reset" THEN <<>> ELSE inbox[c]
      /\ asked' = [asked EXCEPT ![c] = <<>>] /\ asked'[c] = <<>>
      /\ outbox'[c] = <<>>
      /\ result' = [result EXCEPT ![c] = Absent] /\ result'[c] = Absent
      /\ seen' = [seen EXCEPT ![c] = Absent] /\ seen'[c] = Absent
      /\ UNCHANGED <<dict, buffer, response, sq, armed, cq>>
  BY <1>t DEF Close, ring, PeersTyped, UInv, IInv, ServerTyped
<1>2. ~Ended /\ (Heard' <=> Heard) /\ ~Ended'
  BY <1>t, <1>1 DEF TurnOf, Heard, Ended
<1>3. BufferSound' /\ PeersTyped'
  BY <1>1, <1>t DEF UInv, BufferSound, PeersTyped
<1>4. TurnOf(c)'
  BY <1>1, <1>2, <1>t DEF TurnOf
<1>5. Heard => buffer = asked[c] /\ buffer # Zero
  BY <1>1, <1>t DEF TurnOf, UInv, BufferSound, Heard
<1>6. CallOf(c)' = IF inbox'[c] # <<>> THEN <<"orphan", inbox[c][1]>>
                   ELSE IF Heard THEN <<"orphan", buffer[1]>> ELSE <<"idle">>
  BY <1>1, <1>2, <1>5 DEF CallOf, Heard
<1>7. PICK r \in Requests : asked[c] # <<>> => asked[c] = <<r>> /\ asked[c][1] = r
  <2>1. asked[c] = <<>> \/ \E r \in Requests : asked[c] = <<r>>
    BY <1>t DEF PeersTyped
  <2> QED
    BY <2>1, IoUringAssumption
<1>8. CASE asked[c] = <<>>
  <2>1. inbox[c] = <<>> /\ ~Heard
    BY <1>1, <1>5, <1>8, <1>t DEF TurnOf, Zero
  <2>2. CallOf(c) = <<"idle">> /\ CallOf(c)' = <<"idle">>
    BY <1>1, <1>6, <1>8, <2>1 DEF CallOf
  <2>3. UNCHANGED Calls /\ Calls[c] = <<"idle">>
    BY <2>2 DEF Calls, OneClient
  <2>4. Service!Leave(c, r)
    BY <1>1, <2>3 DEF Service!Leave, Service!Idle, Calls
  <2> QED
    BY <1>3, <1>4, <2>4 DEF Goal, OneClient, Service!Next
<1>9. CASE asked[c] # <<>> /\ result[c] # Absent
  <2>1. CallOf(c) = <<"done", result[c]>>
    BY <1>1, <1>9 DEF CallOf
  <2>2. CallOf(c)' = <<"idle">>
    BY <1>1, <1>6, <1>9, <1>t DEF TurnOf
  <2>3. Calls' = [Calls EXCEPT ![c] = <<"idle">>] /\ Calls[c] = <<"done", result[c]>>
    BY <2>1, <2>2, CallStep
  <2>4. Service!Leave(c, r)
    BY <1>1, <2>3 DEF Service!Leave, Service!Idle, Calls
  <2> QED
    BY <1>3, <1>4, <2>4 DEF Goal, OneClient, Service!Next
<1>10. CASE asked[c] # <<>> /\ result[c] = Absent
  <2>1. CallOf(c) = <<"sent", r>>
    BY <1>1, <1>7, <1>10 DEF CallOf
  <2>2. PICK x \in {<<"idle">>, <<"orphan", r>>} : CallOf(c)' = x
    <3>1. inbox'[c] # <<>> => inbox[c][1] = r
      BY <1>1, <1>7, <1>10, <1>t DEF TurnOf
    <3>2. Heard => buffer[1] = r
      BY <1>5, <1>7, <1>10
    <3> QED
      BY <1>6, <3>1, <3>2
  <2>3. Calls' = [Calls EXCEPT ![c] = x] /\ Calls[c] = <<"sent", r>>
    BY <2>1, <2>2, CallStep
  <2>4. Service!Leave(c, r)
    BY <1>1, <2>2, <2>3 DEF Service!Leave, Service!Idle, Calls
  <2> QED
    BY <1>3, <1>4, <2>4 DEF Goal, OneClient, Service!Next
<1> QED
  BY <1>8, <1>9, <1>10

-----------------------------------------------------------------------------

\* The kernel completes the operation of the connection: nothing else is under way.
LEMMA AfterComplete ==
  ASSUME OneClient, UInv, NEW op \in armed, op.event # "ACCEPT",
         NEW e, armed' = armed \ {op}, cq' = Append(cq, e), UNCHANGED sq
  PROVE  /\ ~Heard /\ ~Ended /\ ~Sending' /\ (Sending <=> Sends(op))
         /\ Heard' <=> e.event = "READ" /\ e.res > 0
         /\ Ended' <=> e.event = "READ" /\ e.res = 0
         /\ (e.event = "READ" /\ e.res > 0 => buffer' # Zero /\ e.res = Tokens(buffer'[1]))
              => BufferSound'
<1>1. /\ cq = <<>> /\ \A i \in DOMAIN sq : sq[i].event = "ACCEPT"
      /\ \A o \in armed \ {op} : o.event = "ACCEPT"
  BY Alone DEF UInv
<1>2. DOMAIN cq' = {1} /\ cq'[1] = e
  BY <1>1
<1>3. ~Heard /\ ~Ended
  BY <1>1 DEF Heard, Ended
<1>4. ~Sending' /\ (Sending <=> Sends(op))
  BY <1>1 DEF Sending, Sends
<1>5. /\ Heard' <=> e.event = "READ" /\ e.res > 0
      /\ Ended' <=> e.event = "READ" /\ e.res = 0
  BY <1>2 DEF Heard, Ended
<1>6. ASSUME e.event = "READ" /\ e.res > 0 => buffer' # Zero /\ e.res = Tokens(buffer'[1])
      PROVE  BufferSound'
  BY <1>2, <1>6 DEF UInv, BufferSound
<1> QED
  BY <1>3, <1>4, <1>5, <1>6

\* To accept is no step of the service.
LEMMA CompleteAccept_Step ==
  ASSUME OneClient, UInv, CompleteAccept
  PROVE  Goal
<1>1. PICK e : /\ e.event = "ACCEPT" /\ cq' = Append(cq, e)
               /\ armed' = armed \ {set_event_accept} /\ UNCHANGED <<sq, todo>>
               /\ UNCHANGED <<dict, buffer, response, sock, inbox, outbox, asked, result, seen>>
  BY DEF CompleteAccept, Complete, Cqe, set_event_accept, Op
<1>2. cq = <<>>
  <2>1. backlog # <<>> /\ backlog \in Seq(Clients)
    BY DEF CompleteAccept, UInv, IInv, ServerTyped
  <2>2. PICK c \in Clients : c = Head(backlog) /\ 1 \in DOMAIN backlog /\ backlog[1] = c
    BY <2>1
  <2>3. Has(backlog, {c})
    BY <2>2 DEF Has
  <2>4. ~Connected(c)
    BY <2>3 DEF UInv, IInv, ClientsAgree
  <2> QED
    BY <2>4, Alone DEF UInv
<1>3. DOMAIN cq' = {1} /\ cq'[1] = e
  BY <1>1, <1>2
<1>4. ~Heard /\ ~Heard' /\ ~Ended' /\ (Sending' => Sending)
  BY <1>1, <1>2, <1>3 DEF Heard, Ended, Sending
<1>5. BufferSound'
  BY <1>1, <1>3 DEF UInv, BufferSound
<1> QED
  BY <1>1, <1>4, <1>5, QuietStep

\* To receive is no step of the service: the request only moves.
LEMMA CompleteRecv_Step ==
  ASSUME OneClient, UInv, NEW fd \in Fds, CompleteRecv(fd)
  PROVE  Goal
<1>0. PICK c : c = conn[fd]
  OBVIOUS
<1>o. PICK op : op = set_event_recv(fd)
  OBVIOUS
<1>1. /\ op \in armed /\ op.event = "READ" /\ op.fd = fd
      /\ UNCHANGED <<dict, response, sock, outbox, asked, result, seen>>
  BY <1>o DEF CompleteRecv, set_event_recv, Op
<1>2. c \in Clients /\ TurnOf(c) /\ PeersTyped
  <2>1. Busy(fd)
    BY <1>1 DEF Busy, ArmedOf, UInv, IInv, RingsTyped
  <2> QED
    BY <1>0, <2>1, BusyConnected DEF UInv
<1>3. PICK res : /\ armed' = armed \ {op} /\ cq' = Append(cq, Cqe("READ", fd, res)) /\ UNCHANGED sq
                 /\ \/ /\ inbox[c] # <<>> /\ buffer' = <<inbox[c][1]>>
                       /\ inbox' = [inbox EXCEPT ![c] = <<>>]
                       /\ res = Tokens(inbox[c][1])
                    \/ /\ inbox[c] = <<>> /\ sock[c] = "closed" /\ res = 0
                       /\ UNCHANGED <<buffer, inbox>>
                    \/ /\ sock[c] = "reset" /\ res = -1
                       /\ UNCHANGED <<buffer, inbox>>
  BY <1>0, <1>o, <1>1 DEF CompleteRecv, Complete
<1>e. PICK e : e = Cqe("READ", fd, res)
  OBVIOUS
<1>4. cq' = Append(cq, e) /\ e.event = "READ" /\ e.res = res
  BY <1>3, <1>e DEF Cqe
<1>5. /\ ~Heard /\ ~Ended /\ ~Sending' /\ ~Sending
      /\ Heard' <=> res > 0
      /\ Ended' <=> res = 0
      /\ (res > 0 => buffer' # Zero /\ res = Tokens(buffer'[1])) => BufferSound'
  <2>1. op.event # "ACCEPT" /\ ~Sends(op)
    BY <1>1 DEF Sends
  <2>2. armed' = armed \ {op} /\ UNCHANGED sq
    BY <1>3
  <2>3. /\ ~Heard /\ ~Ended /\ ~Sending' /\ (Sending <=> Sends(op))
        /\ Heard' <=> e.event = "READ" /\ e.res > 0
        /\ Ended' <=> e.event = "READ" /\ e.res = 0
        /\ (e.event = "READ" /\ e.res > 0 => buffer' # Zero /\ e.res = Tokens(buffer'[1]))
             => BufferSound'
    BY <1>1, <1>4, <2>1, <2>2, AfterComplete
  <2> QED
    BY <1>4, <2>1, <2>3
<1>6. CASE inbox[c] # <<>> /\ buffer' = <<inbox[c][1]>> /\ inbox' = [inbox EXCEPT ![c] = <<>>]
           /\ res = Tokens(inbox[c][1])
  <2>1. PICK r \in Requests : inbox[c] = <<r>>
    BY <1>2, <1>6 DEF PeersTyped
  <2>2. buffer' = <<r>> /\ inbox'[c] = <<>> /\ res = Tokens(r) /\ inbox[c][1] = r /\ buffer'[1] = r
    BY <1>2, <1>6, <2>1 DEF PeersTyped
  <2>3. res > 0
    BY <2>2, IoUringAssumption DEF Tokens
  <2>4. BufferSound' /\ PeersTyped'
    BY <1>1, <1>2, <1>5, <1>6, <2>2 DEF PeersTyped, Zero
  <2>5. TurnOf(c)'
    BY <1>1, <1>2, <1>5, <2>1, <2>2, <2>3 DEF TurnOf
  <2>6. CallOf(c)' = CallOf(c)
    <3>1. sock[c] = "open" => asked[c] = <<r>>
      BY <1>2, <2>1 DEF TurnOf
    <3>2. sock[c] \in {"open", "closed", "reset"}
      BY <1>2, <2>1 DEF TurnOf, UInv, IInv, ServerTyped
    <3>3. \E i \in DOMAIN cq' : cq'[i].event = "READ" /\ cq'[i].res > 0
      BY <1>5, <2>3 DEF Heard
    <3>4. buffer' # Zero
      BY <2>2 DEF Zero
    <3>5. CASE sock[c] = "open"
      BY <1>1, <3>5 DEF CallOf
    <3>6. CASE sock[c] # "open"
      <4>1. CallOf(c)' = <<"orphan", r>>
        BY <1>1, <2>2, <3>2, <3>3, <3>4, <3>6 DEF CallOf
      <4>2. CallOf(c) = <<"orphan", r>>
        BY <1>6, <2>2, <3>2, <3>6 DEF CallOf
      <4> QED
        BY <4>1, <4>2
    <3> QED
      BY <3>5, <3>6
  <2>7. UNCHANGED Service!vars
    BY <1>1, <1>2, <2>6 DEF Service!vars, OneClient
  <2> QED
    BY <1>2, <2>4, <2>5, <2>7 DEF Goal, OneClient
<1>7. CASE /\ UNCHANGED <<buffer, inbox>> /\ ~(res > 0)
           /\ res = 0 => inbox[c] = <<>> /\ sock[c] = "closed"
  <2>1. BufferSound' /\ PeersTyped'
    BY <1>1, <1>2, <1>5, <1>7 DEF PeersTyped
  <2>2. TurnOf(c)'
    BY <1>1, <1>2, <1>5, <1>7 DEF TurnOf
  <2>3. CallOf(c)' = CallOf(c)
    BY <1>1, <1>5, <1>7 DEF CallOf, Heard
  <2>4. UNCHANGED Service!vars
    BY <1>1, <1>2, <2>3 DEF Service!vars, OneClient
  <2> QED
    BY <1>2, <2>1, <2>2, <2>4 DEF Goal, OneClient
<1> QED
  BY <1>3, <1>6, <1>7

\* To send is no step of the service: the answer moves to its client.
LEMMA CompleteSend_Step ==
  ASSUME OneClient, UInv, NEW op \in armed, CompleteSend(op)
  PROVE  Goal
<1>0. PICK c : c = conn[op.fd]
  OBVIOUS
<1>1. /\ op.event = "WRITE" /\ op.fd \in Fds /\ op.len \in Int /\ op.len >= 0
      /\ UNCHANGED <<dict, buffer, response, sock, inbox, asked, result, seen>>
  BY DEF CompleteSend, UInv, IInv, RingsTyped, Operations, BufferSound
<1>2. c \in Clients /\ TurnOf(c) /\ PeersTyped
  <2>1. Busy(op.fd)
    BY <1>1 DEF Busy, ArmedOf
  <2> QED
    BY <1>0, <1>1, <2>1, BusyConnected DEF UInv
<1>3. PICK e : e.event = "WRITE" /\ armed' = armed \ {op} /\ cq' = Append(cq, e) /\ UNCHANGED sq
  BY <1>1 DEF CompleteSend, Complete, Cqe
<1>4. /\ ~Heard /\ ~Ended /\ ~Sending' /\ (Sending <=> op.len > 0)
      /\ ~Heard' /\ ~Ended' /\ BufferSound'
  <2>1. op.event # "ACCEPT" /\ (Sends(op) <=> op.len > 0)
    BY <1>1 DEF Sends
  <2>2. e.event # "READ"
    BY <1>3
  <2> QED
    BY <1>3, <2>1, <2>2, AfterComplete
<1>5. outbox'[c] = outbox[c] \/ (op.len > 0 /\ sock[c] = "open" /\ outbox'[c] = Append(outbox[c], response))
  <2>1. \/ UNCHANGED outbox
        \/ op.len < 0
        \/ op.len > 0 /\ outbox' = [outbox EXCEPT ![c] = IF sock[c] = "open" THEN Append(@, response) ELSE @]
    BY <1>0 DEF CompleteSend
  <2>2. outbox \in [Clients -> Seq(Texts \cup {JUNK})]
    BY DEF UInv, IInv, ServerTyped
  <2> QED
    BY <1>1, <1>2, <2>1, <2>2
<1>6. TurnOf(c)'
  <2>1. CASE outbox'[c] = outbox[c]
    BY <1>1, <1>2, <1>4, <2>1 DEF TurnOf
  <2>2. CASE op.len > 0 /\ sock[c] = "open" /\ outbox'[c] = Append(outbox[c], response)
    <3>1. outbox[c] = <<>> /\ response = result[c] /\ result[c] # Absent
      BY <1>2, <1>4, <2>2 DEF TurnOf
    <3>2. outbox'[c] = <<result[c]>>
      BY <2>2, <3>1
    <3> QED
      BY <1>1, <1>2, <1>4, <2>2, <3>1, <3>2 DEF TurnOf
  <2> QED
    BY <1>5, <2>1, <2>2
<1>7. CallOf(c)' = CallOf(c)
  BY <1>1, <1>4 DEF CallOf, Heard
<1>8. UNCHANGED Service!vars
  BY <1>1, <1>7, <1>2 DEF Service!vars, OneClient
<1>9. PeersTyped'
  BY <1>1, <1>2 DEF PeersTyped
<1> QED
  BY <1>2, <1>4, <1>6, <1>8, <1>9 DEF Goal, OneClient
-----------------------------------------------------------------------------

\* Handing over the submission queue is no step of the service.
LEMMA io_uring_submit_Step ==
  ASSUME UInv, io_uring_submit
  PROVE  Goal
<1>1. /\ armed' = armed \cup {sq[i] : i \in DOMAIN sq} /\ DOMAIN sq' = {} /\ UNCHANGED cq
      /\ UNCHANGED <<dict, buffer, response, sock, inbox, outbox, asked, result, seen>>
  BY DEF io_uring_submit, peers
<1>2. (Heard' <=> Heard) /\ (Ended' <=> Ended)
  BY <1>1 DEF Heard, Ended
<1>3. Sending' => Sending
  BY <1>1 DEF Sending
<1>4. BufferSound'
  BY <1>1 DEF UInv, BufferSound
<1> QED
  BY <1>1, <1>2, <1>3, <1>4, QuietStep

\* A step that leaves the rings and the streams is no step of the service.
LEMMA Kept_Step ==
  ASSUME UInv, UNCHANGED <<dict, buffer, response, sq, armed, cq, sock, inbox, outbox, asked, result, seen>>
  PROVE  Goal
<1>1. (Heard' <=> Heard) /\ (Ended' <=> Ended) /\ (Sending' => Sending)
  BY DEF Heard, Ended, Sending
<1>2. BufferSound'
  BY DEF UInv, BufferSound
<1> QED
  BY <1>1, <1>2, QuietStep

\* The loop handles the one completion: what is under way then is what it prepares.
LEMMA AfterHandle ==
  ASSUME OneClient, UInv, todo > 0, cq' = Tail(cq), UNCHANGED armed,
         NEW ops \in Seq(Operations), sq' = sq \o ops
  PROVE  /\ Head(cq) \in Completions
         /\ Heard <=> Head(cq).event = "READ" /\ Head(cq).res > 0
         /\ Ended <=> Head(cq).event = "READ" /\ Head(cq).res = 0
         /\ ~Heard' /\ ~Ended' /\ ~Sending
         /\ Sending' <=> \E i \in DOMAIN ops : Sends(ops[i])
         /\ (\A i \in DOMAIN ops : ops[i].len >= 0) => BufferSound'
<1>1. /\ cq # <<>> /\ Head(cq) \in Completions /\ Head(cq) = cq[1] /\ 1 \in DOMAIN cq
      /\ \A i \in DOMAIN Tail(cq) : i + 1 \in DOMAIN cq /\ i + 1 # 1
  BY HeadOf DEF UInv
<1>2. /\ \A i, j \in DOMAIN cq : i = j
      /\ \A i \in DOMAIN sq : sq[i].event = "ACCEPT"
      /\ \A o \in armed : o.event = "ACCEPT"
  BY <1>1, Alone DEF UInv
<1>3. \A i \in DOMAIN cq' : FALSE
  BY <1>1, <1>2
<1>4. /\ Heard <=> Head(cq).event = "READ" /\ Head(cq).res > 0
      /\ Ended <=> Head(cq).event = "READ" /\ Head(cq).res = 0
  BY <1>1, <1>2 DEF Heard, Ended
<1>5. ~Heard' /\ ~Ended'
  BY <1>3 DEF Heard, Ended
<1>6. ~Sending
  BY <1>2 DEF Sending, Sends
<1>7. \A T : Has(sq', T) <=> Has(sq, T) \/ Has(ops, T)
  BY ConcatHas DEF UInv, IInv, RingsTyped
<1>8. /\ sq' \in Seq(Operations) /\ sq \in Seq(Operations)
      /\ \A i \in DOMAIN sq : sq[i] \in Operations
      /\ \A i \in DOMAIN sq' : sq'[i] \in Operations
      /\ \A i \in DOMAIN ops : ops[i] \in Operations
  BY ConcatHas DEF UInv, IInv, RingsTyped
<1>9. Sending' <=> \E i \in DOMAIN ops : Sends(ops[i])
  <2> DEFINE T == { o \in Operations : Sends(o) }
  <2>1. Has(sq', T) <=> Has(sq, T) \/ Has(ops, T)
    BY <1>7
  <2>2. ~Has(sq, T)
    BY <1>2 DEF Has, Sends
  <2>3. \A o \in armed' : ~Sends(o)
    BY <1>2 DEF Sends
  <2> QED
    BY <1>8, <2>1, <2>2, <2>3 DEF Sending, Has
<1>10. ASSUME \A i \in DOMAIN ops : ops[i].len >= 0 PROVE BufferSound'
  <2> DEFINE T == { o \in Operations : ~(o.len >= 0) }
  <2>1. Has(sq', T) <=> Has(sq, T) \/ Has(ops, T)
    BY <1>7
  <2>2. ~Has(sq, T) /\ ~Has(ops, T)
    BY <1>10 DEF Has, UInv, BufferSound
  <2>3. \A i \in DOMAIN sq' : sq'[i].len >= 0
    BY <1>8, <2>1, <2>2 DEF Has
  <2> QED
    BY <1>3, <2>3 DEF UInv, BufferSound
<1> QED
  BY <1>1, <1>4, <1>5, <1>6, <1>9, <1>10

\* Handling a completion that is not of a receive is no step of the service.
LEMMA OtherEvent_Step ==
  ASSUME OneClient, UInv, todo > 0, Head(cq).event # "READ", cq' = Tail(cq), UNCHANGED armed,
         NEW ops \in Seq(Operations), sq' = sq \o ops,
         \A i \in DOMAIN ops : ~Sends(ops[i]) /\ ops[i].len >= 0,
         UNCHANGED <<dict, response, sock, inbox, outbox, asked, result, seen>>
  PROVE  Goal
<1>1. ~Heard /\ ~Heard' /\ ~Ended /\ ~Ended' /\ ~Sending' /\ BufferSound'
  BY AfterHandle
<1> QED
  BY <1>1, QuietStep

\* The branch for ACCEPT clears a buffer that nobody needs.
LEMMA HandleAccept_Step ==
  ASSUME OneClient, UInv, HandleAccept
  PROVE  Goal
<1> DEFINE o == set_event_accept
           p == set_event_recv(Head(cq).res)
<1>1. /\ todo > 0 /\ Head(cq).event = "ACCEPT" /\ cq' = Tail(cq) /\ sq' = sq \o <<o, p>>
      /\ UNCHANGED <<armed, dict, response, sock, inbox, outbox, asked, result, seen>>
  BY DEF HandleAccept, Handle
<1>2. Head(cq).res \in Fds
  BY <1>1, HeadOf, CqeNames DEF UInv
<1>3. /\ o \in Operations /\ o.len = 0 /\ ~Sends(o)
      /\ p \in Operations /\ p.len = 0 /\ ~Sends(p)
  BY <1>2 DEF set_event_accept, set_event_recv, Op, Operations, Sends
<1> HIDE DEF o, p
<1>4. /\ <<o, p>> \in Seq(Operations)
      /\ \A i \in DOMAIN <<o, p>> : ~Sends(<<o, p>>[i]) /\ <<o, p>>[i].len >= 0
  BY <1>3
<1> QED
  BY <1>1, <1>4, OtherEvent_Step

\* The branch for WRITE clears a buffer that nobody needs.
LEMMA HandleSent_Step ==
  ASSUME OneClient, UInv, HandleSent
  PROVE  Goal
<1> DEFINE o == set_event_recv(Head(cq).fd)
<1>1. /\ todo > 0 /\ Head(cq).event = "WRITE" /\ cq' = Tail(cq) /\ sq' = sq \o <<o>>
      /\ UNCHANGED <<armed, dict, response, sock, inbox, outbox, asked, result, seen>>
  BY DEF HandleSent, Handle
<1>2. Head(cq).fd \in Fds
  BY <1>1, HeadOf, CqeNames DEF UInv
<1>3. o \in Operations /\ o.len = 0 /\ ~Sends(o)
  BY <1>2 DEF set_event_recv, Op, Operations, Sends
<1> HIDE DEF o
<1>4. /\ <<o>> \in Seq(Operations)
      /\ \A i \in DOMAIN <<o>> : ~Sends(<<o>>[i]) /\ <<o>>[i].len >= 0
  BY <1>3
<1> QED
  BY <1>1, <1>4, OtherEvent_Step

\* A receive that failed is no step of the service.
LEMMA HandleError_Step ==
  ASSUME OneClient, UInv, HandleError
  PROVE  Goal
<1>1. /\ todo > 0 /\ Head(cq).event = "READ" /\ Head(cq).res < 0 /\ cq' = Tail(cq) /\ sq' = sq \o <<>>
      /\ UNCHANGED <<armed, dict, buffer, response, sock, inbox, outbox, asked, result, seen>>
  BY DEF HandleError, Handle
<1>2. <<>> \in Seq(Operations) /\ DOMAIN <<>> = {}
  OBVIOUS
<1>3. /\ Head(cq) \in Completions
      /\ Heard <=> Head(cq).event = "READ" /\ Head(cq).res > 0
      /\ ~Heard' /\ ~Ended' /\ ~Sending
      /\ Sending' <=> \E i \in DOMAIN <<>> : Sends(<<>>[i])
      /\ BufferSound'
  BY <1>1, <1>2, AfterHandle
<1>4. Head(cq).res \in Int
  BY <1>1, <1>3 DEF Completions
<1>5. ~Heard /\ ~Sending'
  BY <1>1, <1>2, <1>3, <1>4
<1> QED
  BY <1>1, <1>3, <1>5, QuietStep

\* The end of the stream is no step of the service: no request was left in it.
LEMMA HandleEof_Step ==
  ASSUME OneClient, UInv, HandleEof
  PROVE  Goal
<1>c. PICK c : c = conn[Head(cq).fd]
  OBVIOUS
<1>1. /\ todo > 0 /\ Head(cq).event = "READ" /\ Head(cq).res = 0 /\ cq' = Tail(cq) /\ sq' = sq \o <<>>
      /\ sock' = [sock EXCEPT ![c] = "none"]
      /\ todo' = todo - 1
      /\ UNCHANGED <<armed, dict, buffer, response, inbox, outbox, asked, result, seen>>
  BY <1>c DEF HandleEof, Handle
<1>2. <<>> \in Seq(Operations) /\ DOMAIN <<>> = {}
  OBVIOUS
<1>3. /\ Ended /\ ~Heard /\ ~Heard' /\ ~Ended' /\ ~Sending /\ ~Sending'
      /\ BufferSound'
  <2>1. /\ Heard <=> Head(cq).event = "READ" /\ Head(cq).res > 0
        /\ Ended <=> Head(cq).event = "READ" /\ Head(cq).res = 0
        /\ ~Heard' /\ ~Ended' /\ ~Sending
        /\ Sending' <=> \E i \in DOMAIN <<>> : Sends(<<>>[i])
        /\ BufferSound'
    BY <1>1, <1>2, AfterHandle
  <2> QED
    BY <1>1, <1>2, <2>1
<1>4. c \in Clients
  BY <1>c, <1>1, Unanswered DEF UInv
<1>5. TurnOf(c) /\ PeersTyped /\ sock[c] = "closed" /\ sock'[c] = "none"
  BY <1>1, <1>3, <1>4 DEF TurnOf, UInv, IInv, ServerTyped
<1>6. PeersTyped'
  BY <1>1, <1>5 DEF PeersTyped
<1>7. TurnOf(c)'
  BY <1>1, <1>3, <1>5 DEF TurnOf
<1>8. CallOf(c) = <<"idle">> /\ CallOf(c)' = <<"idle">>
  BY <1>1, <1>3, <1>5 DEF CallOf, Heard, TurnOf
<1>9. UNCHANGED Service!vars
  BY <1>1, <1>4, <1>8 DEF Service!vars, OneClient
<1> QED
  BY <1>3, <1>4, <1>6, <1>7, <1>9 DEF Goal, OneClient

\* What kvs_handler gets is the request of the client, whole.
LEMMA Whole ==
  ASSUME UInv, NEW i \in DOMAIN cq, cq[i].event = "READ", cq[i].res > 0
  PROVE  \E r \in Requests : buffer = <<r>> /\ Received(cq[i].res) = <<r>>
<1>1. buffer # Zero /\ cq[i].res = Tokens(buffer[1])
  BY DEF UInv, BufferSound
<1>2. PICK r \in Requests : buffer = <<r>>
  BY <1>1 DEF UInv, IInv, ServerTyped
<1>3. Tokens(r) <= cq[i].res
  <2>1. Tokens(r) \in Nat /\ cq[i].res = Tokens(r)
    BY <1>1, <1>2, IoUringAssumption DEF Tokens
  <2> QED
    BY <2>1
<1> QED
  BY <1>2, <1>3 DEF Received

\* The request reaches the engines: Apply, also for a client that has gone; one with a
\* command the server does not know is no step, and nobody answers it.
LEMMA HandleRequest_Step ==
  ASSUME OneClient, KnownWhole, UInv, HandleRequest
  PROVE  Goal
<1>c. PICK c : c = conn[Head(cq).fd]
  OBVIOUS
<1>h. /\ todo > 0 /\ Head(cq).event = "READ" /\ Head(cq).res > 0
      /\ cq' = Tail(cq) /\ todo' = todo - 1
  BY DEF HandleRequest, Handle
<1>1. PICK r \in Requests : buffer = <<r>> /\ Received(Head(cq).res) = <<r>> /\ buffer[1] = r
  BY <1>h, HeadOf, Whole DEF UInv
<1> DEFINE out == kvs_protocol(dict, <<r>>)
           o   == set_event_send(Head(cq).fd, out.length)
<1>2. /\ sq' = sq \o <<o>> /\ dict' = out.dict
      /\ response' = IF out.length > 0 THEN out.text ELSE response
      /\ result' = [result EXCEPT ![c] = IF out.length > 0 /\ sock[c] = "open" THEN out.text ELSE @]
      /\ UNCHANGED <<armed, buffer, sock, inbox, outbox, asked, seen>>
  BY <1>c, <1>1 DEF HandleRequest, Handle
<1>3. Head(cq).fd \in Fds /\ c \in Clients
  <2>1. Head(cq).fd \in Fds /\ Busy(Head(cq).fd)
    BY <1>h, HeadOf, CqeNames DEF UInv, Names
  <2> QED
    BY <1>c, <2>1, BusyConnected DEF UInv
<1>4. TurnOf(c) /\ PeersTyped
  BY <1>3 DEF UInv
<1>5. IF WellFormed(r) THEN out.length = 1 /\ out.text \in Texts
                       ELSE out.length = 0 /\ out.dict = dict
  <2>1. Tokens(r) \in Nat /\ RequestTyped(r) /\ (r.op = "BOGUS" \/ WellFormed(r))
    BY IoUringAssumption DEF Tokens, RequestTyped, KnownWhole, WellFormed, Arity
  <2>2. IF WellFormed(r)
        THEN out = [length |-> 1, text |-> Engine(dict, r).text, dict |-> Engine(dict, r).dict]
        ELSE out.length \in {-3, 0} /\ out.dict = dict
    BY <2>1, OneRequest
  <2>3. CASE WellFormed(r)
    <3>1. Engine(dict, r).text \in Texts
      BY <2>1, <2>3, EngineTyped DEF UInv, IInv, ServerTyped
    <3> HIDE DEF out
    <3> QED
      BY <2>2, <2>3, <3>1
  <2>4. CASE ~WellFormed(r)
    <3>1. kvs_split_token(<<r>>) = [first |-> r, count |-> Tokens(r)]
      BY <2>1, Words DEF kvs_split_token
    <3>2. r.op = "BOGUS" /\ <<r>> # <<>> /\ "BOGUS" \notin DOMAIN Arity
      BY <2>1, <2>4 DEF Arity
    <3>3. out.length = 0
      BY <3>1, <3>2 DEF kvs_protocol, kvs_protocol_filter
    <3> HIDE DEF out
    <3> QED
      BY <2>2, <2>4, <3>3
  <2> QED
    BY <2>3, <2>4
<1>6. /\ Service!WellFormed(r) <=> WellFormed(r)
      /\ Service!kvs_protocol(dict, <<r>>) = out
  <2>1. Tokens(r) \in Nat
    BY IoUringAssumption DEF Tokens
  <2> QED
    BY <2>1, SameProtocol
<1> HIDE DEF out
<1>7. o \in Operations /\ o.len = out.length /\ o.len >= 0 /\ (Sends(o) <=> WellFormed(r))
  BY <1>3, <1>5 DEF set_event_send, Op, Operations, Sends
<1> HIDE DEF o
<1>8. /\ <<o>> \in Seq(Operations) /\ \A i \in DOMAIN <<o>> : <<o>>[i].len >= 0
      /\ (\E i \in DOMAIN <<o>> : Sends(<<o>>[i])) <=> WellFormed(r)
  BY <1>7
<1>9. /\ Heard /\ ~Ended /\ ~Heard' /\ ~Ended' /\ (Sending' <=> WellFormed(r)) /\ BufferSound'
  <2>1. /\ Heard <=> Head(cq).event = "READ" /\ Head(cq).res > 0
        /\ Ended <=> Head(cq).event = "READ" /\ Head(cq).res = 0
        /\ ~Heard' /\ ~Ended' /\ ~Sending
        /\ Sending' <=> \E i \in DOMAIN <<o>> : Sends(<<o>>[i])
        /\ BufferSound'
    BY <1>h, <1>2, <1>8, AfterHandle
  <2>2. Ended => ~Heard
    BY <1>h, <2>1
  <2> QED
    BY <1>h, <1>8, <2>1, <2>2
<1>10. result[c] = Absent /\ inbox[c] = <<>> /\ outbox[c] = <<>> /\ (sock[c] = "open" => asked[c] = <<r>>)
  BY <1>1, <1>4, <1>9 DEF TurnOf
<1>11. result'[c] = IF WellFormed(r) /\ sock[c] = "open" THEN out.text ELSE Absent
  BY <1>2, <1>3, <1>4, <1>5, <1>10 DEF PeersTyped
<1>12. PeersTyped'
  <2>1. out.length > 0 => out.text \in Texts
    BY <1>5
  <2> QED
    BY <1>2, <1>3, <1>4, <2>1 DEF PeersTyped
<1>13. out.text \in Texts => out.text # Absent
  BY IoUringAssumption
<1>14. TurnOf(c)'
  <2>1. sock'[c] = sock[c] /\ inbox'[c] = inbox[c] /\ outbox'[c] = outbox[c] /\ asked'[c] = asked[c]
        /\ seen'[c] = seen[c] /\ buffer' = buffer
    BY <1>2
  <2>2. sock[c] # "open" => asked[c] = <<>> /\ seen[c] = Absent
    BY <1>4 DEF TurnOf
  <2>3. WellFormed(r) => response' = out.text /\ out.text # Absent
    BY <1>2, <1>5, <1>13
  <2>4. /\ sock[c] # "open" => result'[c] = Absent
        /\ sock[c] = "open" /\ Sending' => response' = result'[c] /\ result'[c] # Absent
        /\ result'[c] # Absent => asked[c] # <<>>
    <3>1. <<r>> # <<>>
      OBVIOUS
    <3> QED
      BY <1>9, <1>10, <1>11, <2>3, <3>1
  <2> QED
    BY <1>9, <1>10, <2>1, <2>2, <2>4 DEF TurnOf
<1>15. CASE sock[c] = "open"
  <2>1. CallOf(c) = <<"sent", r>>
    BY <1>10, <1>15 DEF CallOf
  <2>2. CASE WellFormed(r)
    <3>1. CallOf(c)' = <<"done", out.text>>
      BY <1>2, <1>5, <1>10, <1>11, <1>13, <1>15, <2>2 DEF CallOf
    <3>2. Calls' = [Calls EXCEPT ![c] = <<"done", out.text>>] /\ Calls[c] = <<"sent", r>>
      BY <1>3, <2>1, <3>1, CallStep
    <3>3. Service!Apply(c, r)
      BY <1>2, <1>6, <2>2, <3>2 DEF Service!Apply, Calls
    <3> QED
      BY <1>3, <1>9, <1>12, <1>14, <3>3 DEF Goal, OneClient, Service!Next
  <2>3. CASE ~WellFormed(r)
    <3>1. CallOf(c)' = <<"sent", r>>
      BY <1>2, <1>10, <1>11, <1>15, <2>3 DEF CallOf
    <3>2. UNCHANGED Service!vars
      BY <1>2, <1>3, <1>5, <2>1, <2>3, <3>1 DEF Service!vars, OneClient
    <3> QED
      BY <1>3, <1>9, <1>12, <1>14, <3>2 DEF Goal, OneClient
  <2> QED
    BY <2>2, <2>3
<1>16. CASE sock[c] # "open"
  <2>1. sock[c] \in {"closed", "reset"}
    <3>1. Busy(Head(cq).fd)
      BY <1>h, <1>3, HeadOf, CqeNames DEF UInv, Names
    <3>2. Connected(c)
      BY <1>c, <1>3 DEF Connected
    <3> QED
      BY <1>3, <1>16, <3>2 DEF UInv, IInv, ClientsAgree, ServerTyped
  <2>2. CallOf(c) = <<"orphan", r>>
    BY <1>1, <1>9, <1>10, <2>1 DEF CallOf, Heard, Zero
  <2>3. CallOf(c)' = <<"idle">>
    BY <1>2, <1>9, <1>10, <2>1 DEF CallOf, Heard
  <2>4. Calls' = [Calls EXCEPT ![c] = <<"idle">>] /\ Calls[c] = <<"orphan", r>>
    BY <1>3, <2>2, <2>3, CallStep
  <2>5. CASE WellFormed(r)
    <3>1. Service!Apply(c, r)
      BY <1>2, <1>6, <2>4, <2>5 DEF Service!Apply, Service!Idle, Calls
    <3> QED
      BY <1>3, <1>9, <1>12, <1>14, <3>1 DEF Goal, OneClient, Service!Next
  <2>6. CASE ~WellFormed(r)
    <3>1. dict' = dict /\ seen' = [seen EXCEPT ![c] = Absent]
      BY <1>2, <1>3, <1>4, <1>5, <1>16, <2>6 DEF TurnOf, PeersTyped
    <3>2. Service!Leave(c, r)
      BY <2>4, <3>1 DEF Service!Leave, Service!Idle, Calls
    <3> QED
      BY <1>3, <1>9, <1>12, <1>14, <3>2 DEF Goal, OneClient, Service!Next
  <2> QED
    BY <2>5, <2>6
<1> QED
  BY <1>15, <1>16

\* Every step is one of the service or none.
LEMMA Next_Step ==
  ASSUME OneClient, KnownWhole, UInv, [Next]_vars
  PROVE  UInv' /\ [Service!Next]_(Service!vars)
<1>1. IInv'
  BY Next_Inv DEF UInv
<1>2. Goal
  <2>1. CASE UNCHANGED vars
    BY <2>1, Kept_Step DEF vars, ring, peers
  <2>2. CASE io_uring_peek_batch_cqe
    BY <2>2, Kept_Step DEF io_uring_peek_batch_cqe, peers
  <2>3. CASE Loop
    BY <2>2, <2>3, io_uring_submit_Step, HandleAccept_Step, HandleEof_Step, HandleError_Step,
       HandleRequest_Step, HandleSent_Step DEF Loop
  <2>4. CASE Kernel
    BY <2>4, CompleteAccept_Step, CompleteRecv_Step, CompleteSend_Step DEF Kernel
  <2>5. ASSUME NEW c \in Clients,
               \/ Connect(c) \/ Read(c)
               \/ \E how \in {"closed", "reset"} : Close(c, how)
               \/ \E r \in Requests : Send(c, r)
        PROVE  Goal
    BY <2>5, Connect_Step, Read_Step, Close_Step, Send_Step
  <2> QED
    BY <2>1, <2>3, <2>4, <2>5 DEF Next
<1> QED
  BY <1>1, <1>2 DEF UInv, Goal

\* The loop starts with nothing under way.
LEMMA Init_Step == Init => UInv /\ Service!Init
<1> SUFFICES ASSUME Init PROVE UInv /\ Service!Init
  OBVIOUS
<1>1. ~Heard /\ ~Ended /\ ~Sending /\ BufferSound
  BY DEF Init, Heard, Ended, Sending, Sends, BufferSound, set_event_accept, Op
<1>2. PeersTyped /\ \A c \in Clients : TurnOf(c)
  BY <1>1 DEF Init, PeersTyped, TurnOf
<1>3. \A c \in Clients : CallOf(c) = <<"idle">>
  BY DEF Init, CallOf
<1>4. EmptyStore = Service!EmptyStore
  BY DEF EmptyStore, Service!EmptyStore, Engines, Service!Engines
<1> QED
  BY <1>1, <1>2, <1>3, <1>4, Init_Inv DEF UInv, Init, Service!Init, Service!Idle

\* With one connection the loop is the atomic service: a request is carried out once, at
\* one instant, and its answer reaches the client.  With more the connections share the
\* receive buffer, and a known command with a wrong number of words is answered with what
\* lies behind the response buffer (kv_iouring.c:134-194).
THEOREM UringIsService ==
  ASSUME OneClient, KnownWhole PROVE Spec => ImplementsService
<1> QED
  BY Init_Step, Next_Step, PTL DEF Spec, ImplementsService, Service!Spec

\* With one connection no residue of an earlier request is handled (kv_iouring.c:156, 171).
THEOREM OneClientNoResidue ==
  ASSUME OneClient, KnownWhole PROVE Spec => []NoResidue
<1>1. ASSUME UInv PROVE NoResidue
  <2> SUFFICES ASSUME todo > 0, Head(cq).event = "READ", Head(cq).res > 0,
                      NEW c, c = conn[Head(cq).fd], asked[c] # <<>>
               PROVE  Received(Head(cq).res) = asked[c]
    BY DEF NoResidue
  <2>1. Heard /\ Received(Head(cq).res) = buffer
    BY <1>1, HeadOf, Whole DEF UInv, Heard
  <2>2. c \in Clients
    <3>1. Head(cq).fd \in Fds /\ Busy(Head(cq).fd)
      BY <1>1, HeadOf, CqeNames DEF UInv, Names
    <3> QED
      BY <1>1, <3>1, BusyConnected DEF UInv
  <2> QED
    BY <1>1, <2>1, <2>2 DEF UInv, TurnOf
<1> QED
  BY <1>1, Init_Step, Next_Step, PTL DEF Spec
=============================================================================
