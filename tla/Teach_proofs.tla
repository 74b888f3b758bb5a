---------------------------- MODULE Teach_proofs ----------------------------
(***************************************************************************)
(* The teaching servers, for any number of clients and units.              *)
(***************************************************************************)
EXTENDS TeachLoops, TeachReactors, TeachThreads, TeachHttpEpoll, MulPort, TeachHook, TeachUring,
        Integers, FiniteSetTheorems, SequenceTheorems, TLAPS

-----------------------------------------------------------------------------
(* Connections *)

Ends    == {"no", "fin", "finrst", "rst", "told"}
Downs   == {"up", "killed", "crashed"}
Records == [st : {"off", "queued", "open", "shut"}, fd : {0} \cup Fds, sent : Nat,
            box : Seq(Peers \X Nat), end : Ends, got : Seq((Peers \cup {Listener}) \X Nat)]

\* What is to be read from a client is the rest of what it sent; the record r of p has
\* a descriptor while it is open.
Fine(p, r) ==
  /\ r \in Records /\ r.sent <= setup.units /\ (r.st = "open" <=> r.fd # 0)
  /\ Len(r.box) <= r.sent
  /\ \A i \in 1..Len(r.box) : r.box[i] = <<p, r.sent - Len(r.box) + i>>

\* No two connections have one descriptor, and each waits to be accepted once.
SockInv ==
  /\ setup \in Programs /\ down \in Downs
  /\ peer \in [Peers -> Records] /\ \A p \in Peers : Fine(p, peer[p])
  /\ \A p, q \in Peers : peer[p].fd = peer[q].fd /\ peer[p].fd # 0 => p = q
  /\ queue \in Seq(Peers)
  /\ \A i \in 1..Len(queue) : peer[queue[i]].st = "queued"
  /\ \A i, j \in 1..Len(queue) : queue[i] = queue[j] => i = j

\* The invariant of the connections holds at the start.
LEMMA SockInit_Inv == SockInit => SockInv
<1> SUFFICES ASSUME SockInit PROVE SockInv
  OBVIOUS
<1>1. Cardinality(Peers) \in Nat /\ setup.units \in Nat
  BY FS_CardinalityType, TeachAssumption DEF SockInit
<1>2. \A p \in Peers : peer[p] = NoBody
  BY DEF SockInit
<1>3. <<>> \in Seq(Peers \X Nat) /\ <<>> \in Seq((Peers \cup {Listener}) \X Nat) /\ <<>> \in Seq(Peers)
  OBVIOUS
<1>4. NoBody \in Records
  BY <1>3 DEF NoBody, Records, Ends, Fds
<1>5. \A p \in Peers : Fine(p, NoBody)
  BY <1>1, <1>4 DEF Fine, NoBody
<1>6. peer \in [Peers -> Records]
  BY <1>4 DEF SockInit
<1> QED
  BY <1>2, <1>3, <1>5, <1>6 DEF SockInit, SockInv, Downs, NoBody

\* What the invariant says of the types.
LEMMA SockInvTyped == SockInv => SockTypeOK
<1> SUFFICES ASSUME SockInv PROVE SockTypeOK
  OBVIOUS
<1>1. setup.units \in Nat
  BY TeachAssumption DEF SockInv
<1>2. ASSUME NEW p \in Peers
      PROVE  /\ peer[p].st \in {"off", "queued", "open", "shut"}
             /\ peer[p].fd \in {0} \cup Fds /\ peer[p].sent \in 0..setup.units
             /\ peer[p].end \in {"no", "fin", "finrst", "rst", "told"}
             /\ peer[p].box \in Seq(Peers \X Nat)
             /\ peer[p].got \in Seq((Peers \cup {Listener}) \X Nat)
  BY <1>1 DEF SockInv, Fine, Records, Ends
<1> QED
  BY <1>2 DEF SockInv, SockTypeOK, Downs

\* The owner of a descriptor is the connection that has it.
LEMMA OwnerIs ==
  ASSUME SockInv, NEW fd \in UsedFds
  PROVE  Owner(fd) \in Peers /\ peer[Owner(fd)].st = "open" /\ peer[Owner(fd)].fd = fd
<1>1. \E p \in Open : peer[p].fd = fd
  BY DEF UsedFds
<1>2. Owner(fd) \in Open /\ peer[Owner(fd)].fd = fd
  BY <1>1 DEF Owner
<1> QED
  BY <1>2 DEF Open

\* An open connection is the owner of its descriptor.
LEMMA OwnerOf ==
  ASSUME SockInv, NEW p \in Peers, peer[p].st = "open"
  PROVE  /\ peer[p].fd \in UsedFds /\ peer[p].fd \in Fds /\ peer[p].fd # 0
         /\ Owner(peer[p].fd) = p
<1>1. p \in Open /\ peer[p].fd # 0 /\ peer[p].fd \in Fds
  BY DEF SockInv, Fine, Records, Open
<1>2. peer[p].fd \in UsedFds
  BY <1>1 DEF UsedFds
<1>3. Owner(peer[p].fd) \in Peers /\ peer[Owner(peer[p].fd)].fd = peer[p].fd
  BY <1>2, OwnerIs
<1>4. Owner(peer[p].fd) = p
  BY <1>1, <1>3 DEF SockInv
<1> QED
  BY <1>1, <1>2, <1>4

\* A set of numbers up to n has a smallest one.
LEMMA LeastOf ==
  ASSUME NEW n \in Nat, NEW S \in SUBSET (1..n), S # {}
  PROVE  \E i \in S : \A j \in S : i <= j
<1> DEFINE Upto(i) == { j \in S : j <= i }
           T == { Upto(i) : i \in S }
<1>1. IsFiniteSet(S)
  <2>1. IsFiniteSet(1..n)
    BY FS_Interval
  <2> QED
    BY <2>1, FS_Subset
<1>2. T \subseteq FiniteSubsetsOf(S) /\ T # {}
  <2>1. FiniteSubsetsOf(S) = SUBSET S
    BY <1>1, FS_FiniteSubsetsOfFinite
  <2>2. T \subseteq SUBSET S /\ T # {}
    OBVIOUS
  <2> QED
    BY <2>1, <2>2
<1>3. \E x \in T : \A y \in T : ~ (<<y, x>> \in StrictSubsetOrdering(S))
  <2> HIDE DEF T
  <2>1. PICK R, D : R = StrictSubsetOrdering(S) /\ D = FiniteSubsetsOf(S)
    OBVIOUS
  <2>2. IsWellFoundedOn(R, D)
    BY <1>1, <2>1, FS_StrictSubsetOrderingWellFounded
  <2>3. \E x \in T : \A y \in T : ~ (<<y, x>> \in R)
    BY <1>2, <2>1, <2>2, WFMin
  <2> QED
    BY <2>1, <2>3
<1>4. PICK i \in S : \A j \in S : ~ (<<Upto(j), Upto(i)>> \in StrictSubsetOrdering(S))
  BY <1>3
<1>5. ASSUME NEW j \in S PROVE i <= j
  <2>1. SUFFICES ASSUME j < i PROVE FALSE
    OBVIOUS
  <2>2. i \in Int /\ j \in Int /\ \A m \in S : m \in Int
    OBVIOUS
  <2>3. i \in Upto(i) /\ i \notin Upto(j)
    BY <2>1, <2>2
  <2>4. Upto(j) \subseteq Upto(i)
    <3>1. ASSUME NEW m \in S, m <= j PROVE m <= i
      BY <2>1, <2>2, <3>1
    <3> QED
      BY <3>1
  <2>5. <<Upto(j), Upto(i)>> \in StrictSubsetOrdering(S)
    BY <2>3, <2>4 DEF StrictSubsetOrdering
  <2> QED
    BY <1>4, <2>5
<1> QED
  BY <1>5

\* As long as a client has no connection there is a descriptor for it.
LEMMA FreeIs ==
  ASSUME SockInv, NEW p \in Peers, peer[p].st # "open"
  PROVE  LowestFree \in Fds /\ LowestFree \notin UsedFds /\ LowestFree # 0
<1> DEFINE n == Cardinality(Peers)
<1>1. n \in Nat /\ IsFiniteSet(Peers)
  BY FS_CardinalityType, TeachAssumption
<1>2. Open \subseteq Peers \ {p}
  BY DEF Open
<1>3. IsFiniteSet(Peers \ {p}) /\ Cardinality(Peers \ {p}) = n - 1
  BY <1>1, FS_RemoveElement
<1>4. IsFiniteSet(Open) /\ Cardinality(Open) <= n - 1
  BY <1>2, <1>3, FS_Subset
<1>5. IsFiniteSet(UsedFds) /\ Cardinality(UsedFds) <= Cardinality(Open)
  <2> DEFINE f == [q \in Open |-> peer[q].fd]
  <2>1. f \in Surjection(Open, UsedFds)
    BY DEF Surjection, UsedFds
  <2> QED
    BY <1>4, <2>1, FS_Surjection
<1>6. Fds \ UsedFds # {}
  <2>1. SUFFICES ASSUME Fds \subseteq UsedFds PROVE FALSE
    OBVIOUS
  <2>2. IsFiniteSet(Fds) /\ Cardinality(Fds) = n
    BY <1>1, FS_Interval DEF Fds
  <2>3. Cardinality(Fds) <= Cardinality(UsedFds)
    BY <1>5, <2>1, FS_Subset
  <2>4. Cardinality(UsedFds) \in Nat /\ Cardinality(Open) \in Nat
    BY <1>4, <1>5, FS_CardinalityType
  <2> QED
    BY <1>1, <1>4, <1>5, <2>2, <2>3, <2>4
<1>7. Fds \ UsedFds \in SUBSET (1..n)
  BY DEF Fds
<1>8. \E fd \in Fds \ UsedFds : \A g \in Fds \ UsedFds : fd <= g
  BY <1>1, <1>6, <1>7, LeastOf
<1>9. LowestFree \in Fds \ UsedFds
  BY <1>8 DEF LowestFree
<1> QED
  BY <1>1, <1>9 DEF Fds

\* What is left of a sequence of which the first were taken.
LEMMA RestOfSeq ==
  ASSUME NEW S, NEW s \in Seq(S), NEW k \in 0..Len(s)
  PROVE  /\ SubSeq(s, 1, k) \in Seq(S) /\ Len(SubSeq(s, 1, k)) = k
         /\ \A i \in 1..k : SubSeq(s, 1, k)[i] = s[i]
         /\ SubSeq(s, k + 1, Len(s)) \in Seq(S) /\ Len(SubSeq(s, k + 1, Len(s))) = Len(s) - k
         /\ \A i \in 1..(Len(s) - k) : SubSeq(s, k + 1, Len(s))[i] = s[k + i]
<1>1. Len(s) \in Nat
  OBVIOUS
<1>2. /\ SubSeq(s, 1, k) \in Seq(S) /\ Len(SubSeq(s, 1, k)) = k
      /\ \A i \in 1..k : SubSeq(s, 1, k)[i] = s[i]
  BY <1>1, SubSeqProperties
<1>3. /\ SubSeq(s, k + 1, Len(s)) \in Seq(S) /\ Len(SubSeq(s, k + 1, Len(s))) = Len(s) - k
      /\ \A i \in 1..(Len(s) - k) : SubSeq(s, k + 1, Len(s))[i] = s[k + i]
  BY <1>1, SubSeqProperties
<1> QED
  BY <1>2, <1>3

\* What recv takes: units of this client, the next ones, as many as there is room for.
LEMMA TakenIs ==
  ASSUME SockInv, NEW p \in Peers, NEW n \in Nat
  PROVE  LET t == Taken(p, n) box == peer[p].box IN
         /\ t \in Seq(Peers \X Nat) /\ Len(t) <= n /\ Len(t) <= Len(box)
         /\ \A i \in 1..Len(t) : t[i] = <<p, peer[p].sent - Len(box) + i>>
         /\ t = <<>> <=> n = 0 \/ box = <<>>
         /\ Result(p, n) > 0 => Len(t) = Result(p, n)
         /\ Result(p, n) > 0 <=> t # <<>>
         /\ Result(p, n) \in Nat \cup {-1}
         /\ Result(p, n) = 0 /\ n # 0 => box = <<>> /\ peer[p].end # "rst"
         /\ Result(p, n) = -1 <=> n # 0 /\ box = <<>> /\ peer[p].end = "rst"
<1> DEFINE box == peer[p].box
           k == IF n < Len(box) THEN n ELSE Len(box)
<1>1. box \in Seq(Peers \X Nat) /\ Len(box) \in Nat /\ peer[p].sent \in Nat
      /\ \A i \in 1..Len(box) : box[i] = <<p, peer[p].sent - Len(box) + i>>
  <2>1. Fine(p, peer[p])
    BY DEF SockInv
  <2> QED
    BY <2>1 DEF Fine, Records
<1>2. k \in 0..Len(box) /\ k <= n /\ (k = 0 <=> n = 0 \/ Len(box) = 0)
  BY <1>1
<1>3. box = <<>> <=> Len(box) = 0
  BY <1>1
<1>4. Taken(p, n) = SubSeq(box, 1, k)
  BY DEF Taken
<1> HIDE DEF k, box
<1>5. /\ Taken(p, n) \in Seq(Peers \X Nat) /\ Len(Taken(p, n)) = k
      /\ \A i \in 1..k : Taken(p, n)[i] = box[i]
  BY <1>1, <1>2, <1>4, RestOfSeq
<1>6. Taken(p, n) = <<>> <=> k = 0
  BY <1>5
<1>7. ASSUME NEW i \in 1..k PROVE Taken(p, n)[i] = <<p, peer[p].sent - Len(box) + i>>
  <2>1. i \in 1..Len(box)
    BY <1>1, <1>2
  <2> QED
    BY <1>1, <1>5, <2>1
<1>8. Result(p, n) = IF n = 0 THEN 0 ELSE IF box # <<>> THEN k
                     ELSE IF peer[p].end = "rst" THEN -1 ELSE 0
  BY <1>5 DEF Result, box
<1> QED
  BY <1>1, <1>2, <1>3, <1>5, <1>6, <1>7, <1>8 DEF box

\* A record that is received from is the record of a client, with less to be read.
LEMMA ReceivedIs ==
  ASSUME SockInv, NEW p \in Peers, NEW n \in Nat
  PROVE  LET r == Received(p, n) IN
         /\ Fine(p, r) /\ r.st = peer[p].st /\ r.fd = peer[p].fd /\ r.sent = peer[p].sent
         /\ r.got = peer[p].got /\ Len(r.box) = Len(peer[p].box) - Len(Taken(p, n))
         /\ r.end = IF Result(p, n) = -1 THEN "told" ELSE peer[p].end
<1> DEFINE box == peer[p].box
           k == Len(Taken(p, n))
           rest == SubSeq(box, k + 1, Len(box))
           e == IF Result(p, n) = -1 THEN "told" ELSE peer[p].end
<1>1. Fine(p, peer[p])
  BY DEF SockInv
<1>2. k \in 0..Len(box) /\ box \in Seq(Peers \X Nat) /\ Len(box) \in Nat
  BY <1>1, TakenIs DEF Fine, Records
<1>3. /\ rest \in Seq(Peers \X Nat) /\ Len(rest) = Len(box) - k
      /\ \A i \in 1..(Len(box) - k) : rest[i] = box[k + i]
  <2> HIDE DEF k, box
  <2> QED
    BY <1>2, RestOfSeq
<1>4. Received(p, n) = [peer[p] EXCEPT !.box = rest, !.end = e]
  BY <1>1 DEF Received, Fine, Records
<1> HIDE DEF k, rest, e
<1>5. e \in Ends
  BY <1>1 DEF e, Fine, Records, Ends
<1> DEFINE r == Received(p, n)
<1>6. /\ r \in Records /\ r.st = peer[p].st /\ r.fd = peer[p].fd /\ r.sent = peer[p].sent
      /\ r.got = peer[p].got /\ r.box = rest /\ r.end = e
  BY <1>1, <1>3, <1>4, <1>5 DEF Fine, Records
<1> HIDE DEF r
<1>7. ASSUME NEW i \in 1..Len(rest) PROVE rest[i] = <<p, r.sent - Len(rest) + i>>
  <2>1. k + i \in 1..Len(box) /\ rest[i] = box[k + i]
    BY <1>2, <1>3
  <2>2. box[k + i] = <<p, peer[p].sent - Len(box) + (k + i)>> /\ peer[p].sent \in Nat
    BY <1>1, <2>1 DEF Fine, Records
  <2>3. peer[p].sent - Len(box) + (k + i) = r.sent - Len(rest) + i
    <3>1. /\ i \in Int /\ k \in Int /\ Len(box) \in Int /\ Len(rest) = Len(box) - k
          /\ peer[p].sent \in Int /\ r.sent = peer[p].sent
      BY <1>2, <1>3, <1>6, <2>2
    <3> QED
      BY ONLY <3>1
  <2> QED
    BY <2>1, <2>2, <2>3
<1>8. Fine(p, r)
  <2>1. Len(rest) <= r.sent
    BY <1>1, <1>2, <1>3, <1>6 DEF Fine, Records
  <2> QED
    BY <1>1, <1>6, <1>7, <2>1 DEF Fine
<1> QED
  BY <1>3, <1>6, <1>8 DEF r, k, e

\* What is sent to a client reaches it, or brings the end of it nearer.
LEMMA AnsweredIs ==
  ASSUME NEW p, NEW r, Fine(p, r), NEW s \in Seq((Peers \cup {Listener}) \X Nat)
  PROVE  LET a == Answered(r, s) IN
         /\ Fine(p, a) /\ a.st = r.st /\ a.fd = r.fd /\ a.sent = r.sent /\ a.box = r.box
         /\ r.end = "no" => a.end = "no" /\ a.got = r.got \o s
         /\ r.end # "no" => a.end # "no" /\ a.got = r.got
         /\ SendKills(r) => a = r
<1> DEFINE a == Answered(r, s)
<1>1. r \in Records /\ r.end \in Ends
  BY DEF Fine, Records
<1>2. CASE r.end = "no"
  <2>1. a = [r EXCEPT !.got = r.got \o s]
    BY <1>2, <1>1 DEF Answered, Records
  <2>2. r.got \o s \in Seq((Peers \cup {Listener}) \X Nat)
    BY <1>1, ConcatProperties DEF Records
  <2>3. /\ a \in Records /\ a.st = r.st /\ a.fd = r.fd /\ a.sent = r.sent /\ a.box = r.box
        /\ a.end = r.end /\ a.got = r.got \o s
    BY <1>1, <2>1, <2>2 DEF Records
  <2> QED
    BY <1>2, <2>3 DEF Fine, SendKills
<1>3. CASE r.end = "fin"
  <2>1. a = [r EXCEPT !.end = IF s = <<>> THEN "fin" ELSE "finrst"]
    BY <1>3, <1>1 DEF Answered, Records
  <2>2. /\ a \in Records /\ a.st = r.st /\ a.fd = r.fd /\ a.sent = r.sent /\ a.box = r.box
        /\ a.end # "no" /\ a.got = r.got
    BY <1>1, <2>1 DEF Records, Ends
  <2> QED
    BY <1>3, <2>2 DEF Fine, SendKills
<1>4. CASE r.end = "rst"
  <2>1. a = [r EXCEPT !.end = "told"]
    BY <1>4, <1>1 DEF Answered, Records
  <2>2. /\ a \in Records /\ a.st = r.st /\ a.fd = r.fd /\ a.sent = r.sent /\ a.box = r.box
        /\ a.end # "no" /\ a.got = r.got
    BY <1>1, <2>1 DEF Records, Ends
  <2> QED
    BY <1>4, <2>2 DEF Fine, SendKills
<1>5. CASE r.end \in {"finrst", "told"}
  <2>1. a = r
    BY <1>5 DEF Answered
  <2> QED
    BY <1>5, <2>1
<1> QED
  BY <1>1, <1>2, <1>3, <1>4, <1>5 DEF Ends

\* A connection that is closed has no descriptor any more.
LEMMA ClosedIs ==
  ASSUME NEW p, NEW r, Fine(p, r)
  PROVE  LET c == Closed(r) IN
         /\ Fine(p, c) /\ c.st = "shut" /\ c.fd = 0 /\ c.sent = r.sent /\ c.box = r.box
         /\ c.end = r.end /\ c.got = r.got
<1>1. r \in Records
  BY DEF Fine
<1>2. LET c == Closed(r) IN
      /\ c \in Records /\ c.st = "shut" /\ c.fd = 0 /\ c.sent = r.sent /\ c.box = r.box
      /\ c.end = r.end /\ c.got = r.got
  BY <1>1 DEF Closed, Records
<1> QED
  BY <1>2 DEF Fine

\* A connection that is accepted gets a descriptor that nobody has.
LEMMA AcceptedIs ==
  ASSUME SockInv, NEW p \in Peers, peer[p].st # "open"
  PROVE  LET r == Accepted(p) IN
         /\ Fine(p, r) /\ r.st = "open" /\ r.fd = LowestFree /\ r.sent = peer[p].sent
         /\ r.box = peer[p].box /\ r.end = peer[p].end /\ r.got = peer[p].got
<1>1. LowestFree \in Fds /\ LowestFree # 0
  BY FreeIs
<1>2. Fine(p, peer[p]) /\ peer[p] \in Records
  BY DEF SockInv, Fine
<1> DEFINE fd == LowestFree
<1> HIDE DEF fd
<1>3. Accepted(p) = [peer[p] EXCEPT !.st = "open", !.fd = fd]
  BY DEF Accepted, fd
<1>4. LET r == Accepted(p) IN
      /\ r \in Records /\ r.st = "open" /\ r.fd = fd /\ r.sent = peer[p].sent
      /\ r.box = peer[p].box /\ r.end = peer[p].end /\ r.got = peer[p].got
  BY <1>1, <1>2, <1>3 DEF Records, fd
<1> QED
  BY <1>1, <1>2, <1>4 DEF Fine, fd

\* What may become of one client in a step: nothing of its descriptor, it asks for a
\* connection, it is taken from the queue, or its connection is closed.
TurnsOf(p, r) ==
  \/ r.st = peer[p].st /\ r.fd = peer[p].fd /\ queue' = queue
  \/ peer[p].st = "off" /\ r.st = "queued" /\ queue' = Append(queue, p)
  \/ /\ queue # <<>> /\ p = Head(queue) /\ queue' = Tail(queue)
     /\ r.st \in {"open", "shut"} /\ r.fd \notin UsedFds
  \/ peer[p].st = "open" /\ r.st = "shut" /\ queue' = queue

\* Such a step keeps the invariant of the connections.
LEMMA OneTurn ==
  ASSUME SockInv, NEW p \in Peers, NEW r, Fine(p, r), TurnsOf(p, r),
         peer' = [peer EXCEPT ![p] = r], setup' = setup, down' \in Downs
  PROVE  SockInv'
<1>1. /\ \A q \in Peers : Fine(q, peer[q]) /\ peer \in [Peers -> Records] /\ setup \in Programs
      /\ queue \in Seq(Peers) /\ Len(queue) \in Nat
  BY DEF SockInv
<1>2. peer' \in [Peers -> Records] /\ \A q \in Peers : peer'[q] = IF q = p THEN r ELSE peer[q]
  BY <1>1 DEF Fine
<1>3. \A q \in Peers : Fine(q, peer[q])'
  <2>1. ASSUME NEW q \in Peers PROVE Fine(q, peer[q])'
    <3>1. CASE q = p
      BY <1>2, <3>1 DEF Fine
    <3>2. CASE q # p
      <4>1. Fine(q, peer[q]) /\ peer'[q] = peer[q]
        BY <1>1, <1>2, <3>2
      <4> QED
        BY <4>1 DEF Fine
    <3> QED
      BY <3>1, <3>2
  <2> QED
    BY <2>1
<1>4. r.fd # 0 => r.fd = peer[p].fd \/ r.fd \notin UsedFds
  BY DEF TurnsOf, Fine
<1>5. ASSUME NEW x \in Peers, NEW y \in Peers, peer'[x].fd = peer'[y].fd, peer'[x].fd # 0
      PROVE  x = y
  <2>1. \A q \in Peers : peer[q].fd # 0 => peer[q].fd \in UsedFds
    BY <1>1 DEF UsedFds, Open, Fine
  <2> QED
    BY <1>2, <1>4, <1>5, <2>1 DEF SockInv
<1>6. /\ queue' \in Seq(Peers)
      /\ \A i \in 1..Len(queue') : peer'[queue'[i]].st = "queued"
      /\ \A i, j \in 1..Len(queue') : queue'[i] = queue'[j] => i = j
  <2>0. /\ \A i \in 1..Len(queue) : queue[i] \in Peers /\ peer[queue[i]].st = "queued"
        /\ \A i, j \in 1..Len(queue) : queue[i] = queue[j] => i = j
    BY <1>1 DEF SockInv
  <2>1. CASE queue' = queue
    <3>1. ASSUME NEW i \in 1..Len(queue), queue[i] = p PROVE r.st = "queued"
      <4>1. Tail(queue) = queue => FALSE
        <5>1. Len(queue) >= 1
          BY <3>1
        <5>2. Len(Tail(queue)) = Len(queue) - 1
          BY <1>1, <5>1
        <5> QED
          BY <1>1, <5>2
      <4>2. Append(queue, p) = queue => FALSE
        BY <1>1, AppendProperties
      <4> QED
        BY <2>0, <2>1, <3>1, <4>1, <4>2 DEF TurnsOf
    <3> QED
      BY <1>1, <1>2, <2>0, <2>1, <3>1
  <2>2. CASE peer[p].st = "off" /\ r.st = "queued" /\ queue' = Append(queue, p)
    <3>1. /\ queue' \in Seq(Peers) /\ Len(queue') = Len(queue) + 1
          /\ queue'[Len(queue) + 1] = p /\ \A i \in 1..Len(queue) : queue'[i] = queue[i]
      BY <1>1, <2>2, AppendProperties
    <3>2. \A i \in 1..Len(queue) : queue[i] # p
      BY <2>0, <2>2
    <3>3. \A i \in 1..Len(queue') : i \in 1..Len(queue) \/ i = Len(queue) + 1
      BY <1>1, <3>1
    <3> QED
      BY <1>1, <1>2, <2>0, <2>2, <3>1, <3>2, <3>3
  <2>3. CASE queue # <<>> /\ p = Head(queue) /\ queue' = Tail(queue)
    <3>1. Len(queue) >= 1 /\ p = queue[1]
      BY <1>1, <2>3
    <3>2. /\ queue' \in Seq(Peers) /\ Len(queue') = Len(queue) - 1
          /\ \A i \in 1..Len(queue') : queue'[i] = queue[i + 1]
      BY <1>1, <2>3, <3>1, HeadTailProperties
    <3>3. \A i \in 1..Len(queue') : i + 1 \in 1..Len(queue) /\ i + 1 # 1
      BY <1>1, <3>2
    <3>4. \A i \in 1..Len(queue') : queue'[i] # p /\ queue'[i] \in Peers /\ peer[queue'[i]].st = "queued"
      BY <1>1, <2>0, <3>1, <3>2, <3>3
    <3>5. ASSUME NEW i \in 1..Len(queue'), NEW j \in 1..Len(queue'), queue'[i] = queue'[j] PROVE i = j
      <4>1. i + 1 = j + 1
        BY <2>0, <3>2, <3>3, <3>5
      <4> QED
        BY <1>1, <3>2, <4>1
    <3> QED
      BY <1>2, <3>2, <3>4, <3>5
  <2> QED
    BY <2>1, <2>2, <2>3 DEF TurnsOf
<1> QED
  BY <1>1, <1>2, <1>3, <1>5, <1>6 DEF SockInv

\* What a client does: it connects, sends a unit, or ends the connection.
LEMMA ClientDoes ==
  ASSUME SockInv, NEW p \in Peers, Connect(p) \/ SendOrQuit(p)
  PROVE  \E r : /\ Fine(p, r) /\ TurnsOf(p, r) /\ peer' = [peer EXCEPT ![p] = r]
                /\ setup' = setup /\ down' = down /\ SockInv'
                /\ r.fd = peer[p].fd /\ r.got = peer[p].got
                /\ \/ /\ peer[p].st = "off" /\ r.st = "queued" /\ r.sent = peer[p].sent
                      /\ r.box = peer[p].box /\ r.end = peer[p].end
                   \/ /\ r.st = peer[p].st /\ peer[p].end = "no" /\ r.end = "no" /\ queue' = queue
                      /\ r.sent = peer[p].sent + 1 /\ Len(r.box) = Len(peer[p].box) + 1
                      /\ peer[p].st \in {"queued", "open"}
                   \/ /\ r.st = peer[p].st /\ peer[p].end = "no" /\ r.end \in {"fin", "rst"}
                      /\ queue' = queue /\ r.sent = peer[p].sent /\ r.box = peer[p].box
                      /\ peer[p].st \in {"queued", "open"}
<1>1. /\ Fine(p, peer[p]) /\ peer[p] \in Records /\ peer \in [Peers -> Records] /\ down \in Downs
      /\ setup.quits \subseteq {"fin", "rst"} /\ setup.units \in Nat
  BY TeachAssumption DEF SockInv, Fine
<1>2. CASE Connect(p)
  <2> DEFINE r == [peer[p] EXCEPT !.st = "queued"]
  <2>1. peer' = [peer EXCEPT ![p] = r] /\ setup' = setup /\ down' = down /\ queue' = Append(queue, p)
    BY <1>1, <1>2 DEF Connect
  <2>2. /\ r \in Records /\ r.st = "queued" /\ r.fd = peer[p].fd /\ r.sent = peer[p].sent
        /\ r.box = peer[p].box /\ r.end = peer[p].end /\ r.got = peer[p].got
    BY <1>1 DEF Records
  <2> HIDE DEF r
  <2>3. peer[p].st = "off"
    BY <1>2 DEF Connect
  <2>4. Fine(p, r) /\ TurnsOf(p, r)
    BY <1>1, <2>1, <2>2, <2>3 DEF Fine, TurnsOf
  <2>5. SockInv'
    BY <1>1, <2>1, <2>4, OneTurn
  <2> QED
    BY <2>1, <2>2, <2>3, <2>4, <2>5
<1>3. CASE SendUnit(p)
  <2> DEFINE b == Append(peer[p].box, <<p, peer[p].sent + 1>>)
             r == [peer[p] EXCEPT !.sent = peer[p].sent + 1, !.box = b]
  <2>1. peer' = [peer EXCEPT ![p] = r] /\ setup' = setup /\ down' = down /\ queue' = queue
    BY <1>1, <1>3 DEF SendUnit, Records
  <2>2. /\ b \in Seq(Peers \X Nat) /\ Len(b) = Len(peer[p].box) + 1
        /\ b[Len(peer[p].box) + 1] = <<p, peer[p].sent + 1>>
        /\ \A i \in 1..Len(peer[p].box) : b[i] = peer[p].box[i]
    <3>1. peer[p].box \in Seq(Peers \X Nat) /\ <<p, peer[p].sent + 1>> \in Peers \X Nat
      BY <1>1 DEF Records
    <3> QED
      BY <3>1, AppendProperties
  <2> HIDE DEF b
  <2>3. /\ r \in Records /\ r.st = peer[p].st /\ r.fd = peer[p].fd /\ r.sent = peer[p].sent + 1
        /\ r.box = b /\ r.end = peer[p].end /\ r.got = peer[p].got
    <3>1. peer[p].sent + 1 \in Nat
      BY <1>1 DEF Records
    <3> QED
      BY <1>1, <2>2, <3>1 DEF Records
  <2> HIDE DEF r
  <2>4. peer[p].st \in {"queued", "open"} /\ peer[p].end = "no" /\ peer[p].sent < setup.units
    BY <1>3 DEF SendUnit
  <2>5. Fine(p, r)
    <3>1. peer[p].sent \in Nat /\ Len(peer[p].box) \in Nat /\ Len(peer[p].box) <= peer[p].sent
      BY <1>1 DEF Fine, Records
    <3>2. ASSUME NEW i \in 1..Len(b) PROVE b[i] = <<p, r.sent - Len(b) + i>>
      <4>1. CASE i = Len(peer[p].box) + 1
        BY <2>2, <2>3, <3>1, <4>1
      <4>2. CASE i \in 1..Len(peer[p].box)
        <5>1. b[i] = <<p, peer[p].sent - Len(peer[p].box) + i>>
          BY <1>1, <2>2, <4>2 DEF Fine
        <5>2. /\ r.sent = peer[p].sent + 1 /\ Len(b) = Len(peer[p].box) + 1 /\ peer[p].sent \in Int
              /\ Len(peer[p].box) \in Int /\ i \in Int
          BY <2>2, <2>3, <3>1, <4>2
        <5>3. peer[p].sent - Len(peer[p].box) + i = r.sent - Len(b) + i
          BY ONLY <5>2
        <5> QED
          BY <5>1, <5>3
      <4>3. i = Len(peer[p].box) + 1 \/ i \in 1..Len(peer[p].box)
        <5>1. Len(b) = Len(peer[p].box) + 1 /\ Len(peer[p].box) \in Nat /\ i \in 1..Len(b)
          BY <2>2, <3>1
        <5> QED
          BY ONLY <5>1
      <4> QED
        BY <4>1, <4>2, <4>3
    <3>3. r.sent <= setup.units /\ Len(b) <= r.sent
      BY <1>1, <2>2, <2>3, <2>4, <3>1
    <3> QED
      BY <1>1, <2>3, <2>4, <3>2, <3>3 DEF Fine
  <2>6. TurnsOf(p, r)
    BY <2>1, <2>3 DEF TurnsOf
  <2>7. SockInv'
    BY <1>1, <2>1, <2>5, <2>6, OneTurn
  <2> QED
    BY <2>1, <2>2, <2>3, <2>4, <2>5, <2>6, <2>7
<1>4. CASE Quit(p)
  <2>1. PICK way \in setup.quits : peer' = [peer EXCEPT ![p].end = way]
    BY <1>4 DEF Quit
  <2> DEFINE r == [peer[p] EXCEPT !.end = way]
  <2>2. peer' = [peer EXCEPT ![p] = r] /\ setup' = setup /\ down' = down /\ queue' = queue
    BY <1>1, <1>4, <2>1 DEF Quit
  <2>3. /\ r \in Records /\ r.st = peer[p].st /\ r.fd = peer[p].fd /\ r.sent = peer[p].sent
        /\ r.box = peer[p].box /\ r.end \in {"fin", "rst"} /\ r.got = peer[p].got
    BY <1>1, <2>1 DEF Records, Ends
  <2> HIDE DEF r
  <2>4. peer[p].st \in {"queued", "open"} /\ peer[p].end = "no"
    BY <1>4 DEF Quit
  <2>5. Fine(p, r) /\ TurnsOf(p, r)
    BY <1>1, <2>2, <2>3 DEF Fine, TurnsOf
  <2>6. SockInv'
    BY <1>1, <2>2, <2>5, OneTurn
  <2> QED
    BY <2>2, <2>3, <2>4, <2>5, <2>6
<1> QED
  BY <1>2, <1>3, <1>4 DEF SendOrQuit

\* A step that closes connections and leaves descriptors alone otherwise keeps the
\* invariant.
LEMMA ManyTurns ==
  ASSUME SockInv, peer' \in [Peers -> Records], queue' = queue, setup' = setup, down' \in Downs,
         \A p \in Peers :
           /\ Fine(p, peer'[p])
           /\ \/ peer'[p].st = peer[p].st /\ peer'[p].fd = peer[p].fd
              \/ peer[p].st = "open" /\ peer'[p].st = "shut"
  PROVE  SockInv'
<1>1. \A p \in Peers : Fine(p, peer[p])'
  BY DEF Fine
<1>2. ASSUME NEW p \in Peers, NEW q \in Peers, peer'[p].fd = peer'[q].fd, peer'[p].fd # 0 PROVE p = q
  <2>1. \A x \in Peers : peer'[x].fd # 0 => peer'[x].fd = peer[x].fd
    BY DEF Fine
  <2>2. \A x, y \in Peers : peer[x].fd = peer[y].fd /\ peer[x].fd # 0 => x = y
    BY DEF SockInv
  <2> QED
    BY <1>2, <2>1, <2>2
<1>3. ASSUME NEW i \in 1..Len(queue) PROVE peer'[queue[i]].st = "queued"
  <2>1. queue[i] \in Peers /\ peer[queue[i]].st = "queued"
    BY DEF SockInv
  <2> QED
    BY <2>1
<1> QED
  BY <1>1, <1>2, <1>3 DEF SockInv

\* What a client that is alone with its server hears, while s has been read and not
\* been answered: its units in their order, as far as they were read.
Heard(p, r, s) ==
  /\ \A i \in 1..Len(r.got) : r.got[i] = <<p, i>>
  /\ r.end = "no" => /\ Len(r.got) + Len(s) = r.sent - Len(r.box)
                     /\ \A i \in 1..Len(s) : s[i] = <<p, Len(r.got) + i>>

\* To read puts into hand what is next.
LEMMA ReadsHeard ==
  ASSUME SockInv, NEW p \in Peers, NEW n \in Nat, Heard(p, peer[p], <<>>)
  PROVE  Heard(p, Received(p, n), Taken(p, n))
<1>1. Fine(p, peer[p]) /\ peer[p] \in Records
  BY DEF SockInv, Fine
<1> DEFINE r == Received(p, n)
           t == Taken(p, n)
<1>2. /\ r.got = peer[p].got /\ r.sent = peer[p].sent /\ Len(r.box) = Len(peer[p].box) - Len(t)
      /\ (r.end = "no" => peer[p].end = "no") /\ t \in Seq(Peers \X Nat)
      /\ \A i \in 1..Len(t) : t[i] = <<p, peer[p].sent - Len(peer[p].box) + i>>
  BY ReceivedIs, TakenIs
<1> HIDE DEF r, t
<1>3. ASSUME r.end = "no"
      PROVE  /\ Len(r.got) + Len(t) = r.sent - Len(r.box)
             /\ \A i \in 1..Len(t) : t[i] = <<p, Len(r.got) + i>>
  <2>1. Len(peer[p].got) + Len(<<>>) = peer[p].sent - Len(peer[p].box)
    BY <1>2, <1>3 DEF Heard
  <2>2. /\ Len(peer[p].got) \in Nat /\ Len(peer[p].box) \in Nat /\ Len(<<>>) = 0
        /\ Len(t) \in Nat /\ peer[p].sent \in Nat
    BY <1>1, <1>2 DEF Records
  <2>3. /\ Len(r.got) = Len(peer[p].got) /\ r.sent = peer[p].sent
        /\ Len(r.box) = Len(peer[p].box) - Len(t)
    BY <1>2
  <2>5. Len(peer[p].got) = peer[p].sent - Len(peer[p].box)
    BY <2>1, <2>2
  <2>4. /\ peer[p].sent - Len(peer[p].box) = Len(r.got)
        /\ Len(r.got) + Len(t) = r.sent - Len(r.box)
    BY ONLY SMTT(30), <2>5, <2>2, <2>3
  <2> QED
    BY <1>2, <2>4
<1> QED
  BY <1>2, <1>3 DEF Heard, r, t

\* To answer puts what is in hand where it belongs.
LEMMA AnswersHeard ==
  ASSUME NEW p \in Peers, NEW r, Fine(p, r), NEW s \in Seq(Peers \X Nat), Heard(p, r, s)
  PROVE  Heard(p, Answered(r, s), <<>>)
<1>1. s \in Seq((Peers \cup {Listener}) \X Nat) /\ r \in Records /\ Len(s) \in Nat
  <2>1. \A i \in 1..Len(s) : s[i] \in (Peers \cup {Listener}) \X Nat
    OBVIOUS
  <2> QED
    BY <2>1 DEF Fine
<1> DEFINE a == Answered(r, s)
<1>2. /\ a.sent = r.sent /\ a.box = r.box
      /\ r.end = "no" => a.end = "no" /\ a.got = r.got \o s
      /\ r.end # "no" => a.end # "no" /\ a.got = r.got
  BY <1>1, AnsweredIs
<1> HIDE DEF a
<1>3. CASE r.end = "no"
  <2>1. /\ Len(r.got \o s) = Len(r.got) + Len(s)
        /\ \A i \in 1..(Len(r.got) + Len(s)) :
             (r.got \o s)[i] = IF i <= Len(r.got) THEN r.got[i] ELSE s[i - Len(r.got)]
    BY <1>1, ConcatProperties DEF Records
  <2>2. Len(r.got) \in Nat /\ Len(r.box) \in Nat /\ r.sent \in Nat /\ Len(<<>>) = 0
    BY <1>1 DEF Records
  <2>3. /\ Len(r.got) + Len(s) = r.sent - Len(r.box)
        /\ \A i \in 1..Len(s) : s[i] = <<p, Len(r.got) + i>>
    BY <1>3 DEF Heard
  <2>4. ASSUME NEW i \in 1..(Len(r.got) + Len(s)) PROVE (r.got \o s)[i] = <<p, i>>
    <3>1. CASE i <= Len(r.got)
      BY <1>1, <2>1, <2>2, <3>1 DEF Heard
    <3>2. CASE i > Len(r.got)
      <4>1. i - Len(r.got) \in 1..Len(s) /\ Len(r.got) + (i - Len(r.got)) = i
        BY <1>1, <2>2, <3>2
      <4>2. (r.got \o s)[i] = s[i - Len(r.got)]
        BY <2>1, <2>2, <3>2
      <4>3. s[i - Len(r.got)] = <<p, Len(r.got) + (i - Len(r.got))>>
        BY <2>3, <4>1
      <4> QED
        BY <4>1, <4>2, <4>3
    <3> QED
      BY <2>2, <3>1, <3>2
  <2>5. /\ a.got = r.got \o s /\ a.box = r.box /\ a.sent = r.sent
        /\ Len(a.got) = Len(r.got) + Len(s)
    BY <1>2, <1>3, <2>1
  <2>6. Len(a.got) + Len(<<>>) = a.sent - Len(a.box)
    <3>1. /\ Len(a.got) = Len(r.got) + Len(s) /\ Len(a.box) = Len(r.box) /\ a.sent = r.sent
          /\ Len(s) \in Nat
      BY <1>1, <2>5
    <3>2. Len(r.got) + Len(s) = r.sent - Len(r.box)
      BY <2>3
    <3>3. Len(a.got) + Len(<<>>) = a.sent - Len(a.box)
      BY ONLY <2>2, <3>2, <3>1
    <3> QED
      BY ONLY <3>3, <2>2
  <2>7. \A i \in 1..Len(a.got) : a.got[i] = <<p, i>>
    BY <2>4, <2>5
  <2>8. \A i \in 1..Len(<<>>) : <<>>[i] = <<p, Len(a.got) + i>>
    OBVIOUS
  <2> QED
    BY <2>6, <2>7, <2>8 DEF Heard, a
<1>4. CASE r.end # "no"
  BY <1>2, <1>4 DEF Heard, a
<1> QED
  BY <1>3, <1>4

\* A client that acts leaves what it heard as it is.
LEMMA ClientHeard ==
  ASSUME SockInv, NEW p \in Peers, Connect(p) \/ SendOrQuit(p), NEW q \in Peers, NEW s, Len(s) \in Nat,
         Heard(q, peer[q], s)
  PROVE  Heard(q, peer'[q], s)
<1>1. PICK r : /\ Fine(p, r) /\ peer' = [peer EXCEPT ![p] = r]
               /\ r.got = peer[p].got
               /\ \/ r.sent = peer[p].sent /\ r.box = peer[p].box /\ (r.end = "no" => peer[p].end = "no")
                  \/ /\ peer[p].end = "no" /\ r.end = "no"
                     /\ r.sent = peer[p].sent + 1 /\ Len(r.box) = Len(peer[p].box) + 1
  BY ClientDoes
<1>2. peer \in [Peers -> Records] /\ Len(s) \in Nat
  BY DEF SockInv
<1>3. CASE q = p
  <2>1. peer'[q] = r
    BY <1>1, <1>2, <1>3
  <2>2. Len(r.got) \in Nat /\ Len(peer[p].box) \in Nat /\ peer[p].sent \in Nat
    BY <1>1, <1>2 DEF Records
  <2>3. ASSUME r.end = "no"
        PROVE  /\ Len(r.got) + Len(s) = r.sent - Len(r.box)
               /\ \A i \in 1..Len(s) : s[i] = <<p, Len(r.got) + i>>
    <3>1. /\ Len(peer[p].got) + Len(s) = peer[p].sent - Len(peer[p].box)
          /\ \A i \in 1..Len(s) : s[i] = <<p, Len(peer[p].got) + i>>
      BY <1>1, <1>3, <2>3 DEF Heard
    <3>2. /\ Len(r.got) = Len(peer[p].got)
          /\ \/ r.sent = peer[p].sent /\ Len(r.box) = Len(peer[p].box)
             \/ r.sent = peer[p].sent + 1 /\ Len(r.box) = Len(peer[p].box) + 1
      BY <1>1
    <3>4. Len(peer[p].got) + Len(s) = peer[p].sent - Len(peer[p].box)
      BY <3>1
    <3>5. Len(r.got) \in Nat /\ Len(peer[p].box) \in Nat /\ peer[p].sent \in Nat /\ Len(s) \in Nat
      BY <1>2, <2>2
    <3>6. peer[p].sent - Len(peer[p].box) = r.sent - Len(r.box)
      <4>1. CASE r.sent = peer[p].sent /\ Len(r.box) = Len(peer[p].box)
        BY <4>1
      <4>2. CASE r.sent = peer[p].sent + 1 /\ Len(r.box) = Len(peer[p].box) + 1
        <5>1. \A a, b \in Nat : a - b = (a + 1) - (b + 1)
          OBVIOUS
        <5> QED
          BY ONLY <3>5, <4>2, <5>1
      <4> QED
        BY <3>2, <4>1, <4>2
    <3>3. Len(r.got) + Len(s) = r.sent - Len(r.box)
      BY ONLY <3>6, <3>4, <3>2
    <3> QED
      BY <1>1, <3>1, <3>3
  <2>4. \A i \in 1..Len(r.got) : r.got[i] = <<p, i>>
    BY <1>1, <1>3 DEF Heard
  <2> QED
    BY <1>3, <2>1, <2>3, <2>4 DEF Heard
<1>4. CASE q # p
  BY <1>1, <1>2, <1>4
<1> QED
  BY <1>3, <1>4

-----------------------------------------------------------------------------
(* A thread for each client *)

\* The thread of p as it should be: it has the descriptor of its client until this
\* client has ended and been closed.
Serves(p) ==
  /\ thread[p].pc \in {"start", "recv", "wait"} => peer[p].st = "open" /\ thread[p].arg = peer[p].fd
  /\ thread[p].pc = "wait" => thread[p].on = p
  /\ thread[p].pc = "gone" => peer[p].st = "shut" /\ peer[p].end # "no"

ThreadStates == {"none", "start", "recv", "wait", "gone"}

ThreadsTyped ==
  /\ clientfd \in {0} \cup Fds
  /\ thread \in [Peers -> [pc : ThreadStates, arg : {0} \cup Fds, fd : {0} \cup Fds,
                           on : Peers \cup {Listener}]]
  /\ \A t \in Peers :
       /\ thread[t].pc = "none" <=> peer[t].st \in {"off", "queued"}
       /\ thread[t].pc # "none" => thread[t].arg # 0 /\ clientfd # 0
       /\ thread[t].fd # 0 <=> thread[t].pc \in {"recv", "wait", "gone"}
       /\ thread[t].pc = "wait" => thread[t].on \in Peers

\* As long as no thread has another's descriptor, all are as they should be; on a
\* descriptor of its own a thread never strays, and each client hears its own.
ThreadsInv ==
  /\ SockInv /\ ThreadsTyped
  /\ prog = "heap" => \A t \in Peers : ~Strays(t) /\ Heard(t, peer[t], <<>>)
  /\ (\A t \in Peers : ~Strays(t)) => \A t \in Peers : Serves(t)

\* The invariant of the threads holds at the start.
LEMMA ThreadsInit_Inv == ThreadsInit => ThreadsInv
<1> SUFFICES ASSUME ThreadsInit PROVE ThreadsInv
  OBVIOUS
<1>1. SockInv
  BY SockInit_Inv DEF ThreadsInit
<1>2. \A t \in Peers : peer[t] = NoBody /\ thread[t] = NoThread
  BY DEF ThreadsInit, SockInit
<1>3. ThreadsTyped
  <2>1. NoThread \in [pc : ThreadStates, arg : {0} \cup Fds, fd : {0} \cup Fds, on : Peers \cup {Listener}]
    BY DEF NoThread, ThreadStates
  <2>2. thread \in [Peers -> [pc : ThreadStates, arg : {0} \cup Fds, fd : {0} \cup Fds, on : Peers \cup {Listener}]]
    BY <2>1 DEF ThreadsInit
  <2> QED
    BY <1>2, <2>2 DEF ThreadsTyped, ThreadsInit, NoThread, NoBody
<1>4. \A t \in Peers : ~Strays(t) /\ Serves(t)
  BY <1>2 DEF Strays, Serves, NoThread
<1>5. \A t \in Peers : Heard(t, peer[t], <<>>)
  BY <1>2 DEF Heard, NoBody
<1> QED
  BY <1>1, <1>3, <1>4, <1>5 DEF ThreadsInv

\* What a client does leaves the threads as they are.
LEMMA ThreadsClient_Inv ==
  ASSUME ThreadsInv, NEW p \in Peers, ThreadsClient(p)
  PROVE  ThreadsInv'
<1>1. SockInv /\ ThreadsTyped /\ peer \in [Peers -> Records]
  BY DEF ThreadsInv, SockInv
<1>2. Connect(p) \/ SendOrQuit(p)
  BY DEF ThreadsClient
<1>3. PICK r : /\ peer' = [peer EXCEPT ![p] = r] /\ SockInv' /\ setup' = setup
               /\ r.fd = peer[p].fd
               /\ \/ peer[p].st = "off" /\ r.st = "queued" /\ r.end = peer[p].end
                  \/ r.st = peer[p].st /\ peer[p].end = "no"
  BY <1>1, <1>2, ClientDoes
<1>4. \A q \in Peers : peer'[q] = IF q = p THEN r ELSE peer[q]
  BY <1>1, <1>3
<1>5. clientfd' = clientfd /\ thread' = thread /\ prog' = prog
  BY <1>3 DEF ThreadsClient, prog
<1>6. Fds' = Fds
  BY DEF Fds
<1>7. ThreadsTyped'
  BY <1>1, <1>3, <1>4, <1>5, <1>6 DEF ThreadsTyped
<1>8. \A t \in Peers : Strays(t)' = Strays(t)
  BY <1>5 DEF Strays
<1>9. ASSUME NEW t \in Peers, Serves(t) PROVE Serves(t)'
  <2>1. peer[p].st = "off" => thread[p].pc = "none"
    BY <1>1 DEF ThreadsTyped
  <2>2. CASE t = p
    <3>1. thread[p].pc = "gone" => peer[p].st = "shut" /\ peer[p].end # "no"
      BY <1>9, <2>2 DEF Serves
    <3>2. peer'[p] = r /\ thread'[p] = thread[p]
      BY <1>4, <1>5
    <3> QED
      BY <1>3, <1>9, <2>1, <2>2, <3>1, <3>2 DEF Serves
  <2>3. CASE t # p
    BY <1>4, <1>5, <1>9, <2>3 DEF Serves
  <2> QED
    BY <2>2, <2>3
<1>10. ASSUME NEW t \in Peers, Heard(t, peer[t], <<>>) PROVE Heard(t, peer[t], <<>>)'
  <2>1. <<>> \in Seq(Peers \X Nat)
    OBVIOUS
  <2>2. Heard(t, peer'[t], <<>>)
    BY <1>1, <1>2, <1>10, <2>1, ClientHeard
  <2> QED
    BY <2>2 DEF Heard
<1> QED
  BY <1>3, <1>5, <1>7, <1>8, <1>9, <1>10 DEF ThreadsInv

\* What is known of the record of a thread.
LEMMA ThreadIs ==
  ASSUME ThreadsInv, NEW t \in Peers
  PROVE  /\ thread[t].pc \in ThreadStates /\ thread[t].arg \in {0} \cup Fds
         /\ thread[t].fd \in {0} \cup Fds /\ thread[t].on \in Peers \cup {Listener}
         /\ thread[t].pc = "wait" => thread[t].on \in Peers
         /\ thread[t].fd # 0 <=> thread[t].pc \in {"recv", "wait", "gone"}
         /\ thread[t].pc # "none" => thread[t].arg # 0 /\ clientfd # 0
         /\ (thread[t].pc = "none" <=> peer[t].st \in {"off", "queued"})
         /\ Fine(t, peer[t]) /\ peer[t] \in Records
BY DEF ThreadsInv, ThreadsTyped, SockInv, Fine

\* main accepts, and the thread of the client has its descriptor.
LEMMA AcceptAndSpawn_Inv ==
  ASSUME ThreadsInv, AcceptAndSpawn
  PROVE  ThreadsInv'
<1>1. SockInv /\ ThreadsTyped /\ peer \in [Peers -> Records] /\ queue # <<>> /\ queue \in Seq(Peers)
  BY DEF ThreadsInv, SockInv, AcceptAndSpawn
<1>2. PICK p \in Peers : p = Head(queue)
  BY <1>1
<1>3. peer[p].st = "queued"
  <2>1. Len(queue) >= 1 /\ p = queue[1]
    BY <1>1, <1>2
  <2> QED
    BY <1>1, <2>1 DEF SockInv
<1>4. LowestFree \in Fds /\ LowestFree \notin UsedFds /\ LowestFree # 0
  BY <1>1, <1>3, FreeIs
<1>5. PICK r : r = Accepted(p)
  OBVIOUS
<1>6. /\ Fine(p, r) /\ r.st = "open" /\ r.fd = LowestFree /\ r.sent = peer[p].sent
      /\ r.box = peer[p].box /\ r.end = peer[p].end /\ r.got = peer[p].got
  BY <1>1, <1>3, <1>5, AcceptedIs
<1>7. /\ peer' = [peer EXCEPT ![p] = r] /\ clientfd' = LowestFree /\ queue' = Tail(queue)
      /\ thread' = [thread EXCEPT ![p].pc = "start", ![p].arg = LowestFree]
      /\ setup' = setup /\ down' = down
  BY <1>2, <1>5 DEF AcceptAndSpawn
<1>8. SockInv'
  BY <1>1, <1>2, <1>4, <1>6, <1>7, OneTurn DEF TurnsOf, SockInv
<1> DEFINE fd == LowestFree
<1> HIDE DEF fd
<1>9. /\ \A q \in Peers : peer'[q] = IF q = p THEN r ELSE peer[q]
      /\ \A q \in Peers : q # p => thread'[q] = thread[q]
      /\ thread'[p] = [thread[p] EXCEPT !.pc = "start", !.arg = fd]
      /\ prog' = prog /\ Fds' = Fds
  BY <1>1, <1>7 DEF ThreadsTyped, prog, Fds, fd
<1>10. thread[p].pc = "none" /\ thread[p].fd = 0
  BY <1>3, ThreadIs
<1>11. /\ thread'[p].pc = "start" /\ thread'[p].arg = fd /\ thread'[p].fd = 0
       /\ thread'[p].on = thread[p].on
       /\ thread'[p] \in [pc : ThreadStates, arg : {0} \cup Fds, fd : {0} \cup Fds, on : Peers \cup {Listener}]
  BY ZenonT(40), <1>1, <1>4, <1>9, <1>10 DEF ThreadsTyped, ThreadStates, fd
<1>12. ThreadsTyped'
  <2>1. thread' \in [Peers -> [pc : ThreadStates, arg : {0} \cup Fds, fd : {0} \cup Fds, on : Peers \cup {Listener}]]
    BY <1>1, <1>7, <1>11 DEF ThreadsTyped
  <2> QED
    BY <1>1, <1>4, <1>6, <1>7, <1>9, <1>11, <2>1 DEF ThreadsTyped, fd
<1>13. \A t \in Peers : Strays(t)' = Strays(t)
  <2>1. ~Strays(p) /\ ~Strays(p)'
    BY <1>10, <1>11 DEF Strays
  <2> QED
    BY <1>9, <2>1 DEF Strays
<1>14. ASSUME NEW t \in Peers, Serves(t) PROVE Serves(t)'
  <2>1. CASE t = p
    BY <1>6, <1>9, <1>11, <2>1 DEF Serves, fd
  <2>2. CASE t # p
    BY <1>9, <1>14, <2>2 DEF Serves
  <2> QED
    BY <2>1, <2>2
<1>15. ASSUME NEW t \in Peers, Heard(t, peer[t], <<>>) PROVE Heard(t, peer[t], <<>>)'
  <2>1. CASE t = p
    BY <1>6, <1>9, <1>15, <2>1 DEF Heard
  <2>2. CASE t # p
    BY <1>9, <1>15, <2>2 DEF Heard
  <2> QED
    BY <2>1, <2>2
<1> QED
  BY <1>8, <1>9, <1>12, <1>13, <1>14, <1>15 DEF ThreadsInv

\* A step of a thread that leaves the clients alone: what it may change.
LEMMA ThreadMoves ==
  ASSUME ThreadsInv, NEW t \in Peers, NEW r, UNCHANGED <<sockVars, clientfd>>,
         thread' = [thread EXCEPT ![t] = r],
         r \in [pc : ThreadStates \ {"none"}, arg : {0} \cup Fds, fd : {0} \cup Fds, on : Peers \cup {Listener}],
         thread[t].pc # "none", r.arg = thread[t].arg,
         r.fd # 0 <=> r.pc \in {"recv", "wait", "gone"}, r.pc = "wait" => r.on \in Peers,
         thread[t].fd \in {0, r.fd},
         prog = "heap" => r.fd \in {0, r.arg},
         (\A q \in Peers : ~Strays(q)) /\ r.fd \in {0, r.arg} =>
             /\ r.pc \in {"start", "recv", "wait"} => peer[t].st = "open" /\ r.arg = peer[t].fd
             /\ r.pc = "wait" => r.on = t
             /\ r.pc = "gone" => peer[t].st = "shut" /\ peer[t].end # "no"
  PROVE  ThreadsInv'
<1>1. SockInv /\ ThreadsTyped
  BY DEF ThreadsInv
<1>2. SockInv' /\ prog' = prog /\ Fds' = Fds /\ peer' = peer /\ clientfd' = clientfd
  BY <1>1 DEF SockInv, sockVars, prog, Fds, Fine
<1>3. \A q \in Peers : thread'[q] = IF q = t THEN r ELSE thread[q]
  BY <1>1 DEF ThreadsTyped
<1>4. ThreadsTyped'
  <2>1. thread' \in [Peers -> [pc : ThreadStates, arg : {0} \cup Fds, fd : {0} \cup Fds, on : Peers \cup {Listener}]]
    BY <1>1 DEF ThreadsTyped
  <2>2. ASSUME NEW q \in Peers
        PROVE  /\ thread'[q].pc = "none" <=> peer[q].st \in {"off", "queued"}
               /\ thread'[q].pc # "none" => thread'[q].arg # 0 /\ clientfd # 0
               /\ thread'[q].fd # 0 <=> thread'[q].pc \in {"recv", "wait", "gone"}
               /\ thread'[q].pc = "wait" => thread'[q].on \in Peers
    BY <1>3, ThreadIs
  <2> QED
    BY <1>1, <1>2, <2>1, <2>2 DEF ThreadsTyped
<1>5. \A q \in Peers : Strays(q) => Strays(q)'
  <2>1. Strays(t) => r.fd \notin {0, r.arg}
    BY DEF Strays
  <2> QED
    BY <1>3, <2>1 DEF Strays
<1>6. Strays(t)' => r.fd \notin {0, r.arg}
  BY <1>3 DEF Strays
<1>7. prog = "heap" => \A q \in Peers : ~Strays(q)' /\ Heard(q, peer'[q], <<>>)
  BY <1>2, <1>3, <1>6 DEF ThreadsInv, Strays
<1>8. ASSUME \A q \in Peers : ~Strays(q)', NEW q \in Peers PROVE Serves(q)'
  <2>1. (\A x \in Peers : ~Strays(x)) /\ r.fd \in {0, r.arg}
    BY <1>3, <1>5, <1>8 DEF Strays
  <2>2. Serves(q)
    BY <2>1 DEF ThreadsInv
  <2> QED
    BY <1>2, <1>3, <2>1, <2>2 DEF Serves
<1>9. \A q \in Peers : Heard(q, peer'[q], <<>>) => Heard(q, peer[q], <<>>)'
  BY DEF Heard
<1> QED
  BY <1>2, <1>4, <1>7, <1>8, <1>9 DEF ThreadsInv

\* A thread begins: it reads its descriptor.
LEMMA Start_Inv ==
  ASSUME ThreadsInv, NEW t \in Peers, Start(t)
  PROVE  ThreadsInv'
<1>1. thread[t].pc = "start" /\ thread[t].fd = 0 /\ clientfd \in {0} \cup Fds /\ clientfd # 0
      /\ thread[t].arg \in Fds /\ thread[t].arg # 0
  BY ThreadIs DEF Start, ThreadsInv, ThreadsTyped
<1> DEFINE f == IF prog = "shared" THEN clientfd ELSE thread[t].arg
           r == [thread[t] EXCEPT !.pc = "recv", !.fd = f]
<1>2. f \in Fds /\ f # 0 /\ (prog = "heap" => f = thread[t].arg)
  BY <1>1
<1>3. thread' = [thread EXCEPT ![t] = r] /\ UNCHANGED <<sockVars, clientfd>>
  BY DEF Start, ThreadsInv, ThreadsTyped
<1> HIDE DEF f
<1>4. /\ r \in [pc : ThreadStates \ {"none"}, arg : {0} \cup Fds, fd : {0} \cup Fds, on : Peers \cup {Listener}]
      /\ r.pc = "recv" /\ r.fd = f /\ r.arg = thread[t].arg
  BY <1>1, <1>2 DEF ThreadStates, ThreadsInv, ThreadsTyped
<1> HIDE DEF r
<1>5. (\A q \in Peers : ~Strays(q)) => peer[t].st = "open" /\ thread[t].arg = peer[t].fd
  BY <1>1 DEF ThreadsInv, Serves
<1> QED
  BY <1>1, <1>2, <1>3, <1>4, <1>5, ThreadMoves

\* A thread calls recv on a descriptor that is open.
LEMMA Enter_Inv ==
  ASSUME ThreadsInv, NEW t \in Peers, Enter(t)
  PROVE  ThreadsInv'
<1>1. thread[t].pc = "recv" /\ thread[t].fd # 0 /\ thread[t].fd \in UsedFds /\ SockInv
  BY ThreadIs DEF Enter, ThreadsInv
<1> DEFINE o == Owner(thread[t].fd)
           r == [thread[t] EXCEPT !.pc = "wait", !.on = o]
<1>2. o \in Peers
  BY <1>1, OwnerIs
<1>3. thread' = [thread EXCEPT ![t] = r] /\ UNCHANGED <<sockVars, clientfd>>
  BY DEF Enter, ThreadsInv, ThreadsTyped
<1>4. (\A q \in Peers : ~Strays(q)) =>
        peer[t].st = "open" /\ thread[t].arg = peer[t].fd /\ o = t
  <2>1. SUFFICES ASSUME \A q \in Peers : ~Strays(q)
                 PROVE  peer[t].st = "open" /\ thread[t].arg = peer[t].fd /\ o = t
    OBVIOUS
  <2>2. peer[t].st = "open" /\ thread[t].arg = peer[t].fd
    BY <1>1, <2>1 DEF ThreadsInv, Serves
  <2>3. thread[t].fd = peer[t].fd
    BY <1>1, <2>1, <2>2 DEF Strays
  <2> QED
    BY <1>1, <2>2, <2>3, OwnerOf
<1> HIDE DEF o
<1>5. /\ r \in [pc : ThreadStates \ {"none"}, arg : {0} \cup Fds, fd : {0} \cup Fds, on : Peers \cup {Listener}]
      /\ r.pc = "wait" /\ r.fd = thread[t].fd /\ r.arg = thread[t].arg /\ r.on = o
  BY <1>1, <1>2 DEF ThreadStates, ThreadsInv, ThreadsTyped
<1> HIDE DEF r
<1>6. prog = "heap" => r.fd \in {0, r.arg}
  BY <1>1, <1>5 DEF ThreadsInv, Strays
<1> QED
  BY <1>1, <1>2, <1>3, <1>4, <1>5, <1>6, ThreadMoves

\* A thread calls recv on a descriptor that another one has closed: one of them strays.
LEMMA EnterClosed_Inv ==
  ASSUME ThreadsInv, NEW t \in Peers, EnterClosed(t)
  PROVE  ThreadsInv'
<1>1. thread[t].pc = "recv" /\ thread[t].fd # 0 /\ thread[t].fd \notin UsedFds /\ SockInv
  BY ThreadIs DEF EnterClosed, ThreadsInv
<1> DEFINE r == [thread[t] EXCEPT !.pc = "gone"]
<1>2. thread' = [thread EXCEPT ![t] = r] /\ UNCHANGED <<sockVars, clientfd>>
  BY DEF EnterClosed, ThreadsInv, ThreadsTyped
<1>3. ~ \A q \in Peers : ~Strays(q)
  <2>1. SUFFICES ASSUME \A q \in Peers : ~Strays(q) PROVE FALSE
    OBVIOUS
  <2>2. peer[t].st = "open" /\ thread[t].arg = peer[t].fd
    BY <1>1, <2>1 DEF ThreadsInv, Serves
  <2>3. thread[t].fd = peer[t].fd
    BY <1>1, <2>1, <2>2 DEF Strays
  <2> QED
    BY <1>1, <2>2, <2>3, OwnerOf
<1>4. /\ r \in [pc : ThreadStates \ {"none"}, arg : {0} \cup Fds, fd : {0} \cup Fds, on : Peers \cup {Listener}]
      /\ r.pc = "gone" /\ r.fd = thread[t].fd /\ r.arg = thread[t].arg
  BY <1>1 DEF ThreadStates, ThreadsInv, ThreadsTyped
<1> HIDE DEF r
<1>5. prog = "heap" => r.fd \in {0, r.arg}
  BY <1>1, <1>4 DEF ThreadsInv, Strays
<1> QED
  BY <1>1, <1>2, <1>3, <1>4, <1>5, ThreadMoves

\* What recv returns to a thread is of a connection.
LEMMA ReturnIs ==
  ASSUME ThreadsInv, NEW t \in Peers, Return(t)
  PROVE  /\ SockInv /\ ThreadsTyped /\ thread[t].on \in Peers /\ setup.buf \in Nat \ {0}
         /\ thread[t].fd # 0 /\ thread[t].pc = "wait"
         /\ (\A q \in Peers : ~Strays(q)) => /\ thread[t].on = t /\ peer[t].st = "open"
                                             /\ thread[t].fd = peer[t].fd
<1>1. SockInv /\ ThreadsTyped /\ thread[t].on \in Peers /\ setup.buf \in Nat \ {0}
      /\ thread[t].fd # 0 /\ thread[t].pc = "wait"
  BY TeachAssumption DEF ThreadsInv, ThreadsTyped, SockInv, Return
<1>2. SUFFICES ASSUME \A q \in Peers : ~Strays(q)
               PROVE  thread[t].on = t /\ peer[t].st = "open" /\ thread[t].fd = peer[t].fd
  BY <1>1
<1>3. Serves(t) /\ ~Strays(t)
  BY <1>2 DEF ThreadsInv
<1> QED
  BY <1>1, <1>3 DEF Serves, Strays

\* The client has ended: the thread closes its descriptor, and returns.
LEMMA ReturnEnds_Inv ==
  ASSUME ThreadsInv, NEW t \in Peers, Return(t), NEW p \in Peers, p = thread[t].on,
         Result(p, setup.buf) = 0 \/ (Result(p, setup.buf) = -1 /\ prog = "shared")
  PROVE  ThreadsInv'
<1> DEFINE r == Received(p, setup.buf)
           ps == [peer EXCEPT ![p] = r]
           fd == thread[t].fd
<1>1. /\ SockInv /\ ThreadsTyped /\ setup.buf \in Nat \ {0} /\ fd # 0 /\ thread[t].pc = "wait"
      /\ (\A q \in Peers : ~Strays(q)) => p = t /\ peer[t].st = "open" /\ fd = peer[t].fd
  BY ReturnIs
<1>2. /\ peer' = CloseFd(fd, ps) /\ thread' = [thread EXCEPT ![t].pc = "gone"]
      /\ down' = down /\ setup' = setup /\ queue' = queue /\ clientfd' = clientfd /\ Readable(p)
  BY DEF Return
<1>3. /\ Fine(p, r) /\ r.st = peer[p].st /\ r.fd = peer[p].fd /\ r.got = peer[p].got
      /\ r.end = IF Result(p, setup.buf) = -1 THEN "told" ELSE peer[p].end
  BY <1>1, ReceivedIs
<1>4. peer \in [Peers -> Records] /\ (\A q \in Peers : Fine(q, peer[q])) /\ down \in Downs
  BY <1>1 DEF SockInv
<1>5. r.end # "no"
  <2>1. Result(p, setup.buf) = 0 => peer[p].box = <<>>
    BY SMTT(30), <1>1, TakenIs
  <2> QED
    BY <1>2, <1>3, <2>1 DEF Readable
<1>6. prog = "heap" => Heard(p, r, <<>>)
  <2>1. SUFFICES ASSUME prog = "heap" PROVE Heard(p, r, <<>>)
    OBVIOUS
  <2>2. Heard(p, peer[p], <<>>)
    BY <2>1 DEF ThreadsInv
  <2> QED
    BY <1>3, <1>5, <2>2 DEF Heard
<1> HIDE DEF r, fd
<1>7. /\ ps \in [Peers -> Records]
      /\ \A q \in Peers : Fine(q, ps[q]) /\ ps[q] = IF q = p THEN r ELSE peer[q]
  BY <1>3, <1>4 DEF Fine
<1> HIDE DEF ps
<1>8. \A q \in Peers : peer'[q] = IF ps[q].st = "open" /\ ps[q].fd = fd THEN Closed(ps[q]) ELSE ps[q]
  BY <1>2 DEF CloseFd
<1>9. ASSUME NEW q \in Peers
      PROVE  /\ Fine(q, peer'[q]) /\ peer'[q].got = ps[q].got /\ peer'[q].end = ps[q].end
             /\ peer'[q].sent = ps[q].sent /\ peer'[q].box = ps[q].box
             /\ IF ps[q].st = "open" /\ ps[q].fd = fd
                THEN peer'[q].st = "shut"
                ELSE peer'[q].st = ps[q].st /\ peer'[q].fd = ps[q].fd
  <2>1. CASE ps[q].st = "open" /\ ps[q].fd = fd
    <3>1. Fine(q, ps[q]) /\ peer'[q] = Closed(ps[q])
      BY <1>7, <1>8, <2>1
    <3> QED
      BY <2>1, <3>1, ClosedIs
  <2>2. CASE ~(ps[q].st = "open" /\ ps[q].fd = fd)
    <3>1. Fine(q, ps[q]) /\ peer'[q] = ps[q]
      BY <1>7, <1>8, <2>2
    <3> QED
      BY <2>2, <3>1
  <2> QED
    BY <2>1, <2>2
<1>10. \A q \in Peers : ps[q].st = peer[q].st /\ ps[q].fd = peer[q].fd
  BY <1>3, <1>7
<1>11. SockInv'
  <2>1. peer' \in [Peers -> Records]
    <3>1. peer' = [q \in Peers |-> IF ps[q].st = "open" /\ ps[q].fd = fd THEN Closed(ps[q]) ELSE ps[q]]
      BY <1>2 DEF CloseFd
    <3>2. \A q \in Peers : peer'[q] \in Records
      BY <1>9 DEF Fine
    <3> QED
      BY <3>1, <3>2
  <2> QED
    BY <1>1, <1>2, <1>4, <1>9, <1>10, <2>1, ManyTurns
<1>12. /\ \A q \in Peers : q # t => thread'[q] = thread[q]
       /\ thread'[t].pc = "gone" /\ thread'[t].arg = thread[t].arg /\ thread'[t].fd = thread[t].fd
       /\ thread' \in [Peers -> [pc : ThreadStates, arg : {0} \cup Fds, fd : {0} \cup Fds, on : Peers \cup {Listener}]]
  BY <1>1, <1>2 DEF ThreadsTyped, ThreadStates
<1>13. ThreadsTyped'
  <2>1. \A q \in Peers : peer'[q].st \in {"off", "queued"} <=> peer[q].st \in {"off", "queued"}
    BY <1>9, <1>10
  <2>2. Fds' = Fds
    BY DEF Fds
  <2>3. /\ thread[t].pc = "wait" /\ clientfd \in {0} \cup Fds
        /\ \A q \in Peers :
             /\ thread[q].pc = "none" <=> peer[q].st \in {"off", "queued"}
             /\ thread[q].pc # "none" => thread[q].arg # 0 /\ clientfd # 0
             /\ thread[q].fd # 0 <=> thread[q].pc \in {"recv", "wait", "gone"}
             /\ thread[q].pc = "wait" => thread[q].on \in Peers
    BY <1>1 DEF ThreadsTyped
  <2>4. ASSUME NEW q \in Peers
        PROVE  /\ thread'[q].pc = "none" <=> peer'[q].st \in {"off", "queued"}
               /\ thread'[q].pc # "none" => thread'[q].arg # 0 /\ clientfd' # 0
               /\ thread'[q].fd # 0 <=> thread'[q].pc \in {"recv", "wait", "gone"}
               /\ thread'[q].pc = "wait" => thread'[q].on \in Peers
    <3>1. CASE q = t
      BY <1>2, <1>12, <2>1, <2>3, <3>1
    <3>2. CASE q # t
      BY <1>2, <1>12, <2>1, <2>3, <3>2
    <3> QED
      BY <3>1, <3>2
  <2> QED
    BY <1>2, <1>12, <2>2, <2>3, <2>4 DEF ThreadsTyped
<1>14. \A q \in Peers : Strays(q)' <=> Strays(q)
  BY <1>1, <1>12 DEF Strays
<1>15. prog' = prog
  BY <1>2 DEF prog
<1>16. ASSUME prog = "heap", NEW q \in Peers PROVE Heard(q, peer[q], <<>>)'
  <2>1. Heard(q, ps[q], <<>>)
    BY <1>6, <1>7, <1>16 DEF ThreadsInv
  <2>2. Heard(q, peer'[q], <<>>)
    BY <1>9, <2>1 DEF Heard
  <2> QED
    BY <2>2 DEF Heard
<1>17. ASSUME \A q \in Peers : ~Strays(q), NEW q \in Peers PROVE Serves(q)'
  <2>1. p = t /\ peer[t].st = "open" /\ fd = peer[t].fd
    BY <1>1, <1>17
  <2>2. Serves(q)
    BY <1>17 DEF ThreadsInv
  <2>3. CASE q = t
    BY <1>5, <1>7, <1>9, <1>10, <1>12, <2>1, <2>3 DEF Serves
  <2>4. CASE q # t
    <3>1. ~(ps[q].st = "open" /\ ps[q].fd = fd)
      BY <1>1, <1>10, <2>1, <2>4 DEF SockInv, fd
    <3>2. peer'[q] = peer[q] /\ thread'[q] = thread[q]
      BY <1>7, <1>8, <1>12, <2>1, <2>4, <3>1
    <3> QED
      BY <2>2, <3>2 DEF Serves
  <2> QED
    BY <2>3, <2>4
<1> QED
  BY <1>11, <1>13, <1>14, <1>15, <1>16, <1>17 DEF ThreadsInv

\* A step in which one client is read from and answered, and its thread goes on.
LEMMA ReturnGoesOn ==
  ASSUME ThreadsInv, NEW t \in Peers, thread[t].pc = "wait", NEW p \in Peers, NEW a, Fine(p, a),
         a.st = peer[p].st, a.fd = peer[p].fd, peer[p].end # "no" => a.end # "no",
         prog = "heap" => Heard(p, a, <<>>), peer' = [peer EXCEPT ![p] = a],
         thread' = thread \/ thread' = [thread EXCEPT ![t].pc = "recv"],
         down' \in Downs, setup' = setup, queue' = queue, clientfd' = clientfd
  PROVE  ThreadsInv'
<1>1. SockInv /\ ThreadsTyped /\ peer \in [Peers -> Records]
  BY DEF ThreadsInv, SockInv
<1>2. SockInv'
  <2>1. TurnsOf(p, a)
    BY DEF TurnsOf
  <2> QED
    BY <1>1, <2>1, OneTurn
<1>3. \A q \in Peers : peer'[q] = IF q = p THEN a ELSE peer[q]
  BY <1>1
<1>4. /\ \A q \in Peers : q # t => thread'[q] = thread[q]
      /\ thread'[t].pc \in {"wait", "recv"} /\ thread'[t].arg = thread[t].arg
      /\ thread'[t].fd = thread[t].fd /\ thread'[t].on = thread[t].on
      /\ thread' \in [Peers -> [pc : ThreadStates, arg : {0} \cup Fds, fd : {0} \cup Fds, on : Peers \cup {Listener}]]
  BY <1>1 DEF ThreadsTyped, ThreadStates
<1>5. prog' = prog /\ Fds' = Fds
  BY DEF prog, Fds
<1>6. ThreadsTyped'
  <2>1. \A q \in Peers : peer'[q].st = peer[q].st
    BY <1>3
  <2>2. \A q \in Peers :
             /\ thread[q].pc = "none" <=> peer[q].st \in {"off", "queued"}
             /\ thread[q].pc # "none" => thread[q].arg # 0 /\ clientfd # 0
             /\ thread[q].fd # 0 <=> thread[q].pc \in {"recv", "wait", "gone"}
             /\ thread[q].pc = "wait" => thread[q].on \in Peers
    BY <1>1 DEF ThreadsTyped
  <2>3. ASSUME NEW q \in Peers
        PROVE  /\ thread'[q].pc = "none" <=> peer'[q].st \in {"off", "queued"}
               /\ thread'[q].pc # "none" => thread'[q].arg # 0 /\ clientfd' # 0
               /\ thread'[q].fd # 0 <=> thread'[q].pc \in {"recv", "wait", "gone"}
               /\ thread'[q].pc = "wait" => thread'[q].on \in Peers
    <3>1. CASE q = t
      BY <1>4, <2>1, <2>2, <3>1
    <3>2. CASE q # t
      BY <1>4, <2>1, <2>2, <3>2
    <3> QED
      BY <3>1, <3>2
  <2> QED
    BY <1>1, <1>4, <1>5, <2>3 DEF ThreadsTyped
<1>7. \A q \in Peers : Strays(q)' <=> Strays(q)
  BY <1>4 DEF Strays
<1>8. ASSUME prog = "heap", NEW q \in Peers PROVE Heard(q, peer[q], <<>>)'
  <2>1. Heard(q, peer'[q], <<>>)
    BY <1>3, <1>8 DEF ThreadsInv
  <2> QED
    BY <2>1 DEF Heard
<1>9. ASSUME NEW q \in Peers, Serves(q) PROVE Serves(q)'
  <2>1. /\ peer'[q].st = peer[q].st /\ peer'[q].fd = peer[q].fd
        /\ peer[q].end # "no" => peer'[q].end # "no"
    BY <1>3
  <2>2. /\ thread'[q].arg = thread[q].arg /\ thread'[q].on = thread[q].on
        /\ thread'[q].pc = thread[q].pc \/ (thread[q].pc = "wait" /\ thread'[q].pc = "recv")
    <3>1. CASE q = t
      BY <1>4, <3>1
    <3>2. CASE q # t
      BY <1>4, <3>2
    <3> QED
      BY <3>1, <3>2
  <2> QED
    BY <1>9, <2>1, <2>2 DEF Serves
<1> QED
  BY <1>2, <1>5, <1>6, <1>7, <1>8, <1>9 DEF ThreadsInv

\* recv returns.
LEMMA Return_Inv ==
  ASSUME ThreadsInv, NEW t \in Peers, Return(t)
  PROVE  ThreadsInv'
<1>1. PICK p \in Peers : p = thread[t].on
  BY ReturnIs
<1> DEFINE n == setup.buf
           r == Received(p, n)
           s == IF prog = "shared" THEN << <<Listener, 0>> >> ELSE Taken(p, n)
<1>2. /\ SockInv /\ n \in Nat \ {0} /\ thread[t].pc = "wait" /\ down \in Downs
      /\ setup' = setup /\ queue' = queue /\ clientfd' = clientfd
  BY ReturnIs DEF Return, SockInv
<1>3. /\ Fine(p, r) /\ r.st = peer[p].st /\ r.fd = peer[p].fd /\ r.got = peer[p].got
      /\ r.end = IF Result(p, n) = -1 THEN "told" ELSE peer[p].end
  BY <1>2, ReceivedIs
<1>4. CASE Result(p, n) = 0 \/ (Result(p, n) = -1 /\ prog = "shared")
  BY <1>1, <1>4, ReturnEnds_Inv
<1>5. CASE ~(Result(p, n) = 0 \/ (Result(p, n) = -1 /\ prog = "shared")) /\ SendKills(r)
  <2>1. peer' = [peer EXCEPT ![p] = r] /\ thread' = thread /\ down' \in Downs
    BY <1>1, <1>5 DEF Return, Downs
  <2>2. r.end # "no" /\ (peer[p].end # "no" => r.end # "no")
    BY <1>5 DEF SendKills
  <2>3. prog = "heap" => Heard(p, r, <<>>)
    <3>1. prog = "heap" => Heard(p, peer[p], <<>>)
      BY DEF ThreadsInv
    <3> QED
      BY <1>3, <2>2, <3>1 DEF Heard
  <2> HIDE DEF r
  <2> QED
    BY <1>2, <1>3, <2>1, <2>2, <2>3, ReturnGoesOn
<1>6. CASE ~(Result(p, n) = 0 \/ (Result(p, n) = -1 /\ prog = "shared")) /\ ~SendKills(r)
  <2> DEFINE a == Answered(r, s)
  <2>1. peer' = [peer EXCEPT ![p] = a] /\ thread' = [thread EXCEPT ![t].pc = "recv"] /\ down' \in Downs
    BY <1>1, <1>2, <1>6 DEF Return
  <2>2. Taken(p, n) \in Seq(Peers \X Nat)
    BY <1>2, TakenIs
  <2>3. s \in Seq((Peers \cup {Listener}) \X Nat)
    <3>1. << <<Listener, 0>> >> \in Seq((Peers \cup {Listener}) \X Nat)
      OBVIOUS
    <3>2. Taken(p, n) \in Seq((Peers \cup {Listener}) \X Nat)
      <4>1. \A i \in 1..Len(Taken(p, n)) : Taken(p, n)[i] \in (Peers \cup {Listener}) \X Nat
        BY <2>2
      <4> QED
        BY <2>2, <4>1
    <3> QED
      BY <3>1, <3>2
  <2>4. /\ Fine(p, a) /\ a.st = r.st /\ a.fd = r.fd /\ (r.end # "no" => a.end # "no")
    <3> HIDE DEF s, r
    <3> QED
      BY <1>3, <2>3, AnsweredIs
  <2>5. prog = "heap" => Heard(p, a, <<>>)
    <3>1. SUFFICES ASSUME prog = "heap" PROVE Heard(p, a, <<>>)
      OBVIOUS
    <3>2. Heard(p, peer[p], <<>>)
      BY <3>1 DEF ThreadsInv
    <3>3. Heard(p, r, Taken(p, n)) /\ s = Taken(p, n)
      BY <1>2, <3>1, <3>2, ReadsHeard
    <3> HIDE DEF s, r
    <3> QED
      BY <1>3, <2>2, <3>3, AnswersHeard
  <2>6. peer[p].end # "no" => a.end # "no"
    BY <1>3, <2>4
  <2> HIDE DEF a, r
  <2> QED
    BY <1>2, <1>3, <2>1, <2>4, <2>5, <2>6, ReturnGoesOn
<1> QED
  BY <1>4, <1>5, <1>6

\* Each step of the threads and of their clients keeps the invariant.
LEMMA ThreadsNext_Inv == ThreadsInv /\ [ThreadsNext]_threadVars => ThreadsInv'
<1> SUFFICES ASSUME ThreadsInv, [ThreadsNext]_threadVars PROVE ThreadsInv'
  OBVIOUS
<1>1. CASE \E p \in Peers : ThreadsClient(p)
  BY <1>1, ThreadsClient_Inv
<1>2. CASE AcceptAndSpawn
  BY <1>2, AcceptAndSpawn_Inv
<1>3. ASSUME NEW t \in Peers, ThreadStep(t) PROVE ThreadsInv'
  BY <1>3, Start_Inv, Enter_Inv, EnterClosed_Inv, Return_Inv DEF ThreadStep
<1>4. CASE UNCHANGED threadVars
  <2>1. /\ setup' = setup /\ peer' = peer /\ queue' = queue /\ down' = down
        /\ clientfd' = clientfd /\ thread' = thread
    BY <1>4 DEF threadVars, sockVars
  <2>2. SockInv'
    BY <2>1 DEF ThreadsInv, SockInv, Fine
  <2>3. ThreadsTyped' /\ prog' = prog
    BY <2>1 DEF ThreadsInv, ThreadsTyped, prog, Fds
  <2>4. \A q \in Peers : (Strays(q)' <=> Strays(q)) /\ (Serves(q)' <=> Serves(q))
    BY <2>1 DEF Strays, Serves
  <2>5. \A q \in Peers : Heard(q, peer[q], <<>>)' <=> Heard(q, peer[q], <<>>)
    BY <2>1 DEF Heard
  <2> QED
    BY <2>2, <2>3, <2>4, <2>5 DEF ThreadsInv
<1> QED
  BY <1>1, <1>2, <1>3, <1>4 DEF ThreadsNext

\* What a client hears that is alone with its server is an echo.
LEMMA HeardEchoes ==
  ASSUME SockInv, NEW p \in Peers, NEW s, Heard(p, peer[p], s)
  PROVE  Echoes(p)
<1>1. peer[p].got \in Seq((Peers \cup {Listener}) \X Nat)
  BY DEF SockInv, Records
<1>2. DOMAIN peer[p].got = 1..Len(peer[p].got)
  BY <1>1
<1> QED
  BY <1>2 DEF Heard, Echoes

\* What the invariant promises.
LEMMA ThreadsInvSound == ThreadsInv => ThreadsSound
<1> SUFFICES ASSUME ThreadsInv PROVE ThreadsSound
  OBVIOUS
<1>1. SockInv /\ ThreadsTyped
  BY DEF ThreadsInv
<1>2. ThreadsTypeOK
  <2>1. SockTypeOK
    BY <1>1, SockInvTyped
  <2>2. ASSUME NEW t \in Peers
        PROVE  /\ thread[t].pc \in {"none", "start", "recv", "wait", "gone"}
               /\ {thread[t].arg, thread[t].fd} \subseteq {0} \cup Fds
               /\ thread[t].on \in Peers \cup {Listener}
               /\ thread[t].pc = "none" <=> peer[t].st \in {"off", "queued"}
    BY <1>1 DEF ThreadsTyped, ThreadStates
  <2> QED
    BY <1>1, <2>1, <2>2 DEF ThreadsTypeOK, ThreadsTyped
<1>3. OwnClient
  <2>1. SUFFICES ASSUME prog = "heap", NEW t \in Peers
                 PROVE  ~Strays(t) /\ (thread[t].pc = "wait" => thread[t].on = t) /\ Echoes(t)
    BY DEF OwnClient
  <2>2. (\A q \in Peers : ~Strays(q)) /\ Heard(t, peer[t], <<>>)
    BY <2>1 DEF ThreadsInv
  <2>3. Serves(t)
    BY <2>2 DEF ThreadsInv
  <2> QED
    BY <1>1, <2>2, <2>3, HeardEchoes DEF Serves
<1>4. OnlyStraysHarm
  <2>1. SUFFICES ASSUME NEW p \in Peers, Orphan(p) \/ (peer[p].st = "shut" /\ peer[p].end = "no"),
                        \A t \in Peers : ~Strays(t)
                 PROVE  FALSE
    BY DEF OnlyStraysHarm
  <2>2. Serves(p) /\ ~Strays(p)
    BY <2>1 DEF ThreadsInv
  <2>3. /\ thread[p].pc \in ThreadStates /\ (thread[p].pc = "none" <=> peer[p].st \in {"off", "queued"})
        /\ thread[p].fd # 0 <=> thread[p].pc \in {"recv", "wait", "gone"}
    BY ThreadIs
  <2>4. CASE Orphan(p)
    BY <2>2, <2>3, <2>4 DEF Orphan, Serves, Strays, ThreadStates
  <2>5. CASE peer[p].st = "shut" /\ peer[p].end = "no"
    BY <2>2, <2>3, <2>5 DEF Serves, ThreadStates
  <2> QED
    BY <2>1, <2>4, <2>5
<1> QED
  BY <1>2, <1>3, <1>4 DEF ThreadsSound

\* With a descriptor of its own (multi_io.c:21) each thread serves its client, and the
\* client hears its own units in their order; with the address of main's clientfd
\* (tcp.c:12) no connection is left alone or closed unasked unless a thread strays.
THEOREM ThreadsAreSound == ThreadsInit /\ [][ThreadsNext]_threadVars => []ThreadsSound
<1>1. ThreadsInit => ThreadsInv
  BY ThreadsInit_Inv
<1>2. ThreadsInv /\ [ThreadsNext]_threadVars => ThreadsInv'
  BY ThreadsNext_Inv
<1>3. ThreadsInv => ThreadsSound
  BY ThreadsInvSound
<1> QED
  BY <1>1, <1>2, <1>3, PTL

-----------------------------------------------------------------------------
(* The reactors *)

\* How many units of a client were received, of its record r.
Rcvd(r) == r.sent - Len(r.box)
Entries == [r : Seq(Peers \X Nat), w : Seq(Peers \X Nat), status : {0, 1, 2}]

UnitsOf(p, s) == \A i \in 1..Len(s) : s[i] = <<p, i>>
Grows(p, g) == \A i \in 1..Len(g) : g[i] = <<p, 1>> \/ (i > 1 /\ g[i] = <<p, g[i - 1][2] + 1>>)
Rises(g) == \A i, j \in 1..Len(g) : i < j => g[i][2] < g[j][2]

\* What client p with record r was sent.
Said(p, r) ==
  /\ ~its.keeps /\ ~its.frames => UnitsOf(p, r.got)
  /\ its.keeps => Grows(p, r.got)
  /\ its.frames => Rises(r.got)

\* A client with record r whose descriptor is watched for u and has the entry c: the
\* echo has what was read in w, the growing buffers hold all that ever was, and for a
\* frame its number is above those answered before.
Growing(p, r, c) ==
  /\ Len(c.r) = Rcvd(r) /\ Len(c.r) <= setup.buf
  /\ UnitsOf(p, c.r) /\ UnitsOf(p, c.w) /\ Grows(p, r.got)
Framing(p, r, u, c) ==
  /\ Rises(r.got) /\ (Rcvd(r) = 0 => r.got = <<>>) /\ (c.status = 0 => Rcvd(r) = 0)
  /\ \A i \in 1..Len(r.got) : r.got[i][2] <= Rcvd(r)
  /\ u = "out" => /\ Len(c.w) = 1 /\ c.w[1][2] <= Rcvd(r) /\ Rcvd(r) >= 1
                  /\ \A i \in 1..Len(r.got) : r.got[i][2] < c.w[1][2]
  /\ u = "out" /\ c.status = 1 => r.got = <<>> /\ c.w[1] = <<p, 0>>

\* The next answer to such a client kills the server.
Doomed(r) == r.end = "finrst" \/ (r.end = "told" /\ its.error = "close")
Attends(p, r, u, c) ==
  /\ c \in Entries /\ u \in {"in", "out"} /\ (c.status = 2 => u = "out")
  /\ u = "out" => Rcvd(r) >= 1 \/ (r.end = "told" /\ its.error # "close")
  /\ Doomed(r) => Rcvd(r) >= 1 /\ (u = "out" => Rcvd(r) >= 2)
  /\ ~its.keeps /\ ~its.frames => Heard(p, r, IF u = "out" THEN c.w ELSE <<>>)
  /\ its.keeps => Growing(p, r, c)
  /\ its.frames => Framing(p, r, u, c)

\* The handshake goes first, as long as no descriptor was used twice.
Shakes(p, r, u, c) ==
  /\ r.got # <<>> => r.got[1] = <<p, 0>>
  /\ r.got = <<>> /\ r.end = "no" => c.status = 0 \/ (c.status = 1 /\ u = "out")

\* What the programs have in common.
LEMMA ItsIs ==
  ASSUME IsReactor
  PROVE  /\ its.keeps \in BOOLEAN /\ its.frames \in BOOLEAN /\ its.error \in {"send", "copy", "close"}
         /\ its.frames <=> its.error = "close"
         /\ its.keeps => ~its.frames
<1> DEFINE all == {Reactor1, EchoReactor, EpollEcho, WsReactor}
<1>1. its \in all
  BY DEF IsReactor, Reactors, its, Reactor, Reactor2, Reactor3, Reactor4, PortsReactor
<1>2. /\ Reactor1.keeps = TRUE /\ Reactor1.frames = FALSE /\ Reactor1.error = "send"
      /\ EchoReactor.keeps = FALSE /\ EchoReactor.frames = FALSE /\ EchoReactor.error = "send"
      /\ EpollEcho.keeps = FALSE /\ EpollEcho.frames = FALSE /\ EpollEcho.error = "copy"
      /\ WsReactor.keeps = FALSE /\ WsReactor.frames = TRUE /\ WsReactor.error = "close"
  BY DEF Reactor1, Reactor4, EchoReactor, EpollEcho, WsReactor
<1> HIDE DEF all
<1>3. its = Reactor1 \/ its = EchoReactor \/ its = EpollEcho \/ its = WsReactor
  BY <1>1 DEF all
<1>4. CASE its = Reactor1
  BY <1>2, <1>4
<1>5. CASE its = EchoReactor
  BY <1>2, <1>5
<1>6. CASE its = EpollEcho
  BY <1>2, <1>6
<1>7. CASE its = WsReactor
  BY <1>2, <1>7
<1> QED
  BY <1>3, <1>4, <1>5, <1>6, <1>7

\* A new connection starts with empty buffers.
LEMMA AttendsNew ==
  ASSUME IsReactor, SockInv, NEW p \in Peers, NEW r \in Records, Rcvd(r) = 0, r.got = <<>>,
         r.end \in {"no", "fin", "rst"}, NEW s \in {0, 1}
  PROVE  Attends(p, r, "in", [FreshConn EXCEPT !.status = s]) /\ Said(p, r)
<1> DEFINE c == [FreshConn EXCEPT !.status = s]
<1>1. c.r = <<>> /\ c.w = <<>> /\ c.status = s /\ c \in Entries
  <2>1. c = [r |-> <<>>, w |-> <<>>, status |-> s] /\ s \in {0, 1, 2}
    BY DEF FreshConn
  <2>2. <<>> \in Seq(Peers \X Nat)
    OBVIOUS
  <2> HIDE DEF c
  <2> QED
    BY <2>1, <2>2 DEF Entries
<1> HIDE DEF c
<1>2. setup.buf \in Nat /\ Len(<<>>) = 0 /\ Len(r.box) \in Nat /\ r.sent \in Nat
  BY TeachAssumption DEF SockInv, Records
<1>3. Heard(p, r, <<>>)
  BY <1>2 DEF Heard, Rcvd
<1>4. Growing(p, r, c) /\ Framing(p, r, "in", c)
  BY <1>1, <1>2 DEF Growing, Framing, Rises, Grows, UnitsOf
<1>5. Said(p, r)
  BY <1>2 DEF Said, Rises, Grows, UnitsOf
<1>6. ~Doomed(r)
  BY DEF Doomed
<1>7. Attends(p, r, "in", c)
  BY <1>1, <1>3, <1>4, <1>6 DEF Attends
<1> QED
  BY <1>5, <1>7 DEF c

\* What a client does does not change how it is attended to.
LEMMA AttendsClient ==
  ASSUME SockInv, NEW p \in Peers, NEW r, NEW u, NEW c, Attends(p, peer[p], u, c), r \in Records,
         r.got = peer[p].got, Rcvd(r) = Rcvd(peer[p]),
         r.end = peer[p].end \/ (peer[p].end = "no" /\ r.end \in {"no", "fin", "rst"})
  PROVE  Attends(p, r, u, c) /\ (Shakes(p, peer[p], u, c) => Shakes(p, r, u, c))
<1>1. Doomed(r) => Doomed(peer[p])
  BY DEF Doomed
<1>2. ASSUME NEW s, Heard(p, peer[p], s) PROVE Heard(p, r, s)
  BY <1>2 DEF Heard, Rcvd
<1>3. Growing(p, peer[p], c) => Growing(p, r, c)
  BY DEF Growing
<1>4. Framing(p, peer[p], u, c) => Framing(p, r, u, c)
  BY DEF Framing
<1>5. r.end = "told" <=> peer[p].end = "told"
  OBVIOUS
<1>6. Attends(p, r, u, c)
  BY <1>1, <1>2, <1>3, <1>4, <1>5 DEF Attends
<1>7. Shakes(p, peer[p], u, c) => Shakes(p, r, u, c)
  BY DEF Shakes
<1> QED
  BY <1>6, <1>7

\* What was received is answered from w.
LEMMA AttendsReads ==
  ASSUME IsReactor, SockInv, NEW p \in Peers, NEW c, NEW n \in Nat, Attends(p, peer[p], "in", c),
         Result(p, n) > 0, its.keeps => n <= setup.buf - Len(c.r)
  PROVE  /\ Attends(p, Received(p, n), "out", Request(c, Taken(p, n)))
         /\ its.frames /\ Shakes(p, peer[p], "in", c) =>
              Shakes(p, Received(p, n), "out", Request(c, Taken(p, n)))
         /\ Received(p, n).end = peer[p].end
<1> DEFINE r == Received(p, n)
           t == Taken(p, n)
           d == Request(c, t)
<1>1. /\ Fine(p, peer[p]) /\ peer[p].sent \in Nat /\ Len(peer[p].box) \in Nat
      /\ Len(peer[p].box) <= peer[p].sent /\ setup.buf \in Nat
  <2>1. Fine(p, peer[p]) /\ setup.buf \in Nat
    BY TeachAssumption DEF SockInv
  <2> QED
    BY <2>1 DEF Fine, Records
<1>2. /\ r \in Records /\ r.sent = peer[p].sent /\ r.got = peer[p].got /\ r.end = peer[p].end
      /\ Len(r.box) = Len(peer[p].box) - Len(t)
  <2>1. Result(p, n) # -1
    OBVIOUS
  <2> QED
    BY <2>1, ReceivedIs DEF Fine
<1>3. /\ t \in Seq(Peers \X Nat) /\ Len(t) \in Nat /\ Len(t) >= 1 /\ Len(t) <= n
      /\ \A i \in 1..Len(t) : t[i] = <<p, Rcvd(peer[p]) + i>>
  <2>1. t \in Seq(Peers \X Nat) /\ t # <<>> /\ Len(t) <= n
        /\ \A i \in 1..Len(t) : t[i] = <<p, peer[p].sent - Len(peer[p].box) + i>>
    BY TakenIs
  <2> QED
    BY <2>1 DEF Rcvd
<1> HIDE DEF r, t
<1>4. Rcvd(r) = Rcvd(peer[p]) + Len(t) /\ Rcvd(peer[p]) \in Nat /\ Rcvd(r) \in Nat /\ Rcvd(r) >= 1
  <2>1. /\ peer[p].sent \in Nat /\ Len(peer[p].box) \in Nat /\ Len(peer[p].box) <= peer[p].sent
        /\ r.sent = peer[p].sent /\ Len(r.box) = Len(peer[p].box) - Len(t)
        /\ Len(t) \in Nat /\ Len(t) >= 1
    BY <1>1, <1>2, <1>3
  <2>2. PICK a \in Nat, b \in Nat, k \in Nat :
          a = peer[p].sent /\ b = Len(peer[p].box) /\ k = Len(t)
    BY <2>1
  <2>3. /\ b <= a /\ k >= 1 /\ Rcvd(peer[p]) = a - b /\ Rcvd(r) = a - (b - k)
    BY ONLY <2>1, <2>2 DEF Rcvd
  <2>4. a - (b - k) = (a - b) + k /\ a - b \in Nat /\ a - (b - k) \in Nat /\ a - (b - k) >= 1
    BY ONLY <2>3, a \in Nat, b \in Nat, k \in Nat
  <2> QED
    BY ONLY <2>2, <2>3, <2>4
<1>5. /\ c \in Entries /\ c.r \in Seq(Peers \X Nat) /\ c.w \in Seq(Peers \X Nat) /\ c.status \in {0, 1}
      /\ Doomed(peer[p]) => Rcvd(peer[p]) >= 1
      /\ ~its.keeps /\ ~its.frames => Heard(p, peer[p], <<>>)
      /\ its.keeps => Growing(p, peer[p], c)
      /\ its.frames => Framing(p, peer[p], "in", c)
  BY DEF Attends, Entries
<1>6. Doomed(r) => Rcvd(r) >= 2
  BY <1>2, <1>3, <1>4, <1>5 DEF Doomed
<1>7. CASE ~its.keeps /\ ~its.frames
  <2>1. d = [c EXCEPT !.w = t]
    BY <1>7 DEF Request
  <2>2. d \in Entries /\ d.w = t /\ d.status = c.status
    BY <1>3, <1>5, <2>1 DEF Entries
  <2>3. Heard(p, r, t)
    BY <1>5, <1>7, ReadsHeard DEF r, t
  <2> HIDE DEF d
  <2>4. Attends(p, r, "out", d)
    BY <1>4, <1>5, <1>6, <1>7, <2>2, <2>3 DEF Attends
  <2> QED
    BY <1>2, <1>7, <2>4 DEF r, t, d
<1>8. CASE its.keeps
  <2>1. ~its.frames
    BY <1>8, ItsIs
  <2> DEFINE x == c.r \o t
  <2>2. d = [c EXCEPT !.r = x, !.w = x]
    BY <1>5, <1>8, <2>1 DEF Request, Entries
  <2>3. /\ x \in Seq(Peers \X Nat) /\ Len(x) = Len(c.r) + Len(t)
        /\ \A i \in 1..(Len(c.r) + Len(t)) : x[i] = IF i <= Len(c.r) THEN c.r[i] ELSE t[i - Len(c.r)]
    BY <1>3, <1>5, ConcatProperties
  <2>4. Growing(p, peer[p], c) /\ Len(c.r) \in Nat
    BY <1>5, <1>8
  <2> HIDE DEF x
  <2>5. ASSUME NEW i \in 1..Len(x) PROVE x[i] = <<p, i>>
    <3>3. Len(x) = Len(c.r) + Len(t) /\ Len(c.r) \in Nat /\ Len(t) \in Nat /\ i \in 1..Len(x)
      BY <1>3, <2>3, <2>4
    <3>1. CASE i <= Len(c.r)
      <4>1. i \in 1..Len(c.r) /\ i \in 1..(Len(c.r) + Len(t))
        BY ONLY <3>1, <3>3
      <4>2. c.r[i] = <<p, i>>
        BY <2>4, <4>1 DEF Growing, UnitsOf
      <4> QED
        BY <2>3, <3>1, <4>1, <4>2
    <3>2. CASE i > Len(c.r)
      <4>5. i - Len(c.r) \in 1..Len(t)
        BY ONLY <3>2, <3>3
      <4>1. i - Len(c.r) \in 1..Len(t) /\ Rcvd(peer[p]) = Len(c.r)
        BY <2>4, <4>5 DEF Growing
      <4>2. x[i] = t[i - Len(c.r)]
        BY <2>3, <2>4, <3>2
      <4>3. t[i - Len(c.r)] = <<p, Len(c.r) + (i - Len(c.r))>>
        BY <1>3, <4>1
      <4>4. Len(c.r) + (i - Len(c.r)) = i
        BY <2>4
      <4> QED
        BY <4>2, <4>3, <4>4
    <3> QED
      BY <2>3, <2>4, <3>1, <3>2
  <2>6. d \in Entries /\ d.r = x /\ d.w = x /\ d.status = c.status
    BY <1>5, <2>2, <2>3 DEF Entries
  <2> HIDE DEF d
  <2>7. Len(x) = Rcvd(r) /\ Len(x) <= setup.buf
    BY SMTT(30), <1>1, <1>3, <1>4, <1>8, <2>3, <2>4 DEF Growing
  <2>8. Growing(p, r, d)
    BY <1>2, <2>4, <2>5, <2>6, <2>7 DEF Growing, UnitsOf
  <2>9. Attends(p, r, "out", d)
    BY <1>4, <1>5, <1>6, <1>8, <2>1, <2>6, <2>8 DEF Attends
  <2> QED
    BY <1>2, <2>1, <2>9 DEF r, t, d
<1>9. CASE its.frames
  <2>1. ~its.keeps /\ d = ws_request(c, t)
    BY <1>9, ItsIs DEF Request
  <2>2. t # <<>> /\ Head(t) = <<p, Rcvd(peer[p]) + 1>> /\ Head(t)[1] = p /\ Head(t)[2] = Rcvd(peer[p]) + 1
    <3>1. t # <<>> /\ Head(t) = t[1]
      BY <1>3
    <3>2. t[1] = <<p, Rcvd(peer[p]) + 1>>
      BY <1>3
    <3> QED
      BY <3>1, <3>2
  <2>3. Framing(p, peer[p], "in", c)
    BY <1>5, <1>9
  <2>4. CASE c.status = 0
    <3>1. Rcvd(peer[p]) = 0 /\ peer[p].got = <<>> /\ Head(t)[2] = 1
      BY <2>2, <2>3, <2>4 DEF Framing
    <3>2. d = [c EXCEPT !.status = 1, !.w = << <<p, 0>> >>]
      BY <2>1, <2>2, <2>4, <3>1 DEF ws_request
    <3>3. << <<p, 0>> >> \in Seq(Peers \X Nat)
      OBVIOUS
    <3>4. d \in Entries /\ d.status = 1 /\ d.w = << <<p, 0>> >>
      BY <1>5, <3>2, <3>3 DEF Entries
    <3> HIDE DEF d
    <3>5. Framing(p, r, "out", d)
      BY <1>2, <1>4, <3>1, <3>4 DEF Framing, Rises
    <3>6. Attends(p, r, "out", d)
      BY <1>4, <1>6, <1>9, <2>1, <3>4, <3>5 DEF Attends
    <3>7. Shakes(p, r, "out", d)
      BY <1>2, <3>1, <3>4 DEF Shakes
    <3> QED
      BY <1>2, <3>6, <3>7 DEF r, t, d
  <2>5. CASE c.status = 1
    <3>1. d = [c EXCEPT !.status = 2, !.w = <<Head(t)>>]
      BY <2>1, <2>5 DEF ws_request
    <3>2. <<Head(t)>> \in Seq(Peers \X Nat)
      <4>1. PICK h \in Peers \X Nat : h = Head(t)
        BY <1>3
      <4>2. <<h>> \in Seq(Peers \X Nat)
        OBVIOUS
      <4> QED
        BY <4>1, <4>2
    <3>3. d \in Entries /\ d.status = 2 /\ d.w = <<Head(t)>>
      BY <1>5, <3>1, <3>2 DEF Entries
    <3> HIDE DEF d
    <3>4. Len(d.w) = 1 /\ d.w[1][2] = Rcvd(peer[p]) + 1
      BY <2>2, <3>3
    <3> HIDE DEF d
    <3>5. Framing(p, r, "out", d)
      <4>1. /\ \A i \in 1..Len(peer[p].got) : peer[p].got[i][2] \in Nat /\ peer[p].got[i][2] <= Rcvd(peer[p])
        <5>1. peer[p].got \in Seq((Peers \cup {Listener}) \X Nat)
          BY <1>1 DEF Fine, Records
        <5> QED
          BY <2>3, <5>1 DEF Framing
      <4>2. \A i \in 1..Len(r.got) : r.got[i][2] <= Rcvd(r) /\ r.got[i][2] < d.w[1][2]
        BY SMTT(30), <1>2, <1>3, <1>4, <3>4, <4>1
      <4>3. d.w[1][2] <= Rcvd(r)
        BY <1>3, <1>4, <3>4
      <4> QED
        BY <1>2, <1>4, <2>3, <3>3, <3>4, <4>2, <4>3 DEF Framing
    <3>6. Attends(p, r, "out", d)
      BY <1>4, <1>6, <1>9, <2>1, <3>3, <3>5 DEF Attends
    <3>7. Shakes(p, peer[p], "in", c) => Shakes(p, r, "out", d)
      BY <1>2, <2>5 DEF Shakes
    <3> QED
      BY <1>2, <3>6, <3>7 DEF r, t, d
  <2> QED
    BY <1>5, <2>4, <2>5
<1> QED
  BY <1>7, <1>8, <1>9, ItsIs

\* A recv that fails, of a program that goes on to send.
LEMMA AttendsError ==
  ASSUME IsReactor, SockInv, NEW p \in Peers, NEW c, NEW n \in Nat, Attends(p, peer[p], "in", c),
         Result(p, n) = -1, its.error # "close", NEW u \in {"in", "out"}
  PROVE  Attends(p, Received(p, n), u, c) /\ Received(p, n).end = "told"
<1> DEFINE r == Received(p, n)
<1>1. /\ r.got = peer[p].got /\ r.end = "told" /\ r.sent = peer[p].sent
      /\ Len(r.box) = Len(peer[p].box) - Len(Taken(p, n))
  BY ReceivedIs
<1>2. Taken(p, n) = <<>> /\ Len(peer[p].box) \in Nat
  BY TakenIs DEF SockInv, Records
<1> HIDE DEF r
<1>3. Rcvd(r) = Rcvd(peer[p])
  BY <1>1, <1>2 DEF Rcvd
<1>4. ~Doomed(r) /\ ~its.frames
  BY <1>1, ItsIs DEF Doomed
<1>5. Growing(p, peer[p], c) => Growing(p, r, c)
  BY <1>1, <1>3 DEF Growing
<1>6. ASSUME NEW s, NEW s2, Heard(p, peer[p], s2) PROVE Heard(p, r, s)
  BY <1>1, <1>6 DEF Heard
<1>7. Attends(p, r, u, c)
  BY <1>1, <1>4, <1>5, <1>6 DEF Attends
<1> QED
  BY <1>1, <1>7 DEF r

\* Growing answers one after the other.
LEMMA GrowsOn ==
  ASSUME NEW p, NEW S, NEW g \in Seq(S), NEW w \in Seq(S), Grows(p, g), UnitsOf(p, w)
  PROVE  Grows(p, g \o w)
<1> DEFINE x == g \o w
<1>1. /\ Len(x) = Len(g) + Len(w) /\ Len(g) \in Nat /\ Len(w) \in Nat
      /\ \A i \in 1..(Len(g) + Len(w)) : x[i] = IF i <= Len(g) THEN g[i] ELSE w[i - Len(g)]
  BY ConcatProperties
<1> HIDE DEF x
<1>2. ASSUME NEW i \in 1..Len(x)
      PROVE  x[i] = <<p, 1>> \/ (i > 1 /\ x[i] = <<p, x[i - 1][2] + 1>>)
  <2>1. CASE i <= Len(g)
    <3>1. i \in 1..Len(g) /\ x[i] = g[i]
      BY <1>1, <2>1
    <3>2. i > 1 => x[i - 1] = g[i - 1]
      BY <1>1, <2>1
    <3> QED
      BY <3>1, <3>2 DEF Grows
  <2>2. CASE i > Len(g)
    <3> DEFINE j == i - Len(g)
    <3>1. j \in 1..Len(w) /\ x[i] = w[j] /\ i = j + Len(g)
      BY <1>1, <2>2
    <3>2. w[j] = <<p, j>>
      BY <3>1 DEF UnitsOf
    <3>3. CASE j = 1
      BY <3>1, <3>2, <3>3
    <3>4. CASE j # 1
      <4>1. j - 1 \in 1..Len(w) /\ i - 1 \in 1..(Len(g) + Len(w)) /\ ~(i - 1 <= Len(g)) /\ (i - 1) - Len(g) = j - 1 /\ i > 1
        BY <1>1, <3>1, <3>4
      <4>2. x[i - 1] = w[j - 1]
        BY <1>1, <4>1
      <4>3. w[j - 1] = <<p, j - 1>> /\ (j - 1) + 1 = j
        BY <3>1, <4>1 DEF UnitsOf
      <4> QED
        BY <3>1, <3>2, <4>1, <4>2, <4>3
    <3> QED
      BY <3>3, <3>4
  <2> QED
    BY <1>1, <2>1, <2>2
<1> QED
  BY <1>2 DEF Grows, x

\* One unit, numbered above those of g.
Tops(w, g) == Rises(g) /\ Len(w) = 1 /\ \A i \in 1..Len(g) : g[i][2] < w[1][2]

\* Rising numbers, and one above them.
LEMMA RisesOn ==
  ASSUME NEW S, NEW g \in Seq(S), NEW w \in Seq(S), Tops(w, g)
  PROVE  /\ Rises(g \o w) /\ Len(g \o w) = Len(g) + 1 /\ (g \o w)[Len(g) + 1] = w[1]
         /\ \A i \in 1..Len(g) : (g \o w)[i] = g[i]
<1> DEFINE x == g \o w
<1>1. /\ Len(x) = Len(g) + 1 /\ Len(g) \in Nat
      /\ \A i \in 1..(Len(g) + 1) : x[i] = IF i <= Len(g) THEN g[i] ELSE w[i - Len(g)]
  <2>1. /\ Len(x) = Len(g) + Len(w) /\ Len(g) \in Nat
        /\ \A i \in 1..(Len(g) + Len(w)) : x[i] = IF i <= Len(g) THEN g[i] ELSE w[i - Len(g)]
    BY ConcatProperties
  <2> HIDE DEF x
  <2> QED
    BY <2>1 DEF Tops
<1> HIDE DEF x
<1>5. Len(x) = Len(g) + 1 /\ Len(g) \in Nat
  BY <1>1
<1>2. x[Len(g) + 1] = w[1] /\ \A i \in 1..Len(g) : x[i] = g[i]
  <2>1. Len(g) + 1 \in 1..(Len(g) + 1) /\ ~(Len(g) + 1 <= Len(g)) /\ (Len(g) + 1) - Len(g) = 1
    BY ONLY <1>5
  <2>2. x[Len(g) + 1] = w[(Len(g) + 1) - Len(g)]
    BY <1>1, <2>1
  <2>3. ASSUME NEW i \in 1..Len(g) PROVE x[i] = g[i]
    <3>1. i \in 1..(Len(g) + 1) /\ i <= Len(g)
      BY <1>5
    <3> QED
      BY <1>1, <3>1
  <2> QED
    BY <2>1, <2>2, <2>3
<1>3. ASSUME NEW i \in 1..Len(x), NEW j \in 1..Len(x), i < j PROVE x[i][2] < x[j][2]
  <2>2. \A m \in Nat : \A y, z \in 1..(m + 1) : y < z => y \in 1..m /\ (z \in 1..m \/ z = m + 1)
    OBVIOUS
  <2>1. i \in 1..Len(g) /\ (j \in 1..Len(g) \/ j = Len(g) + 1)
    <3>1. i \in 1..(Len(g) + 1) /\ j \in 1..(Len(g) + 1)
      BY <1>5
    <3> QED
      BY ONLY <1>5, <1>3, <2>2, <3>1
  <2> QED
    BY <1>2, <1>3, <2>1 DEF Rises, Tops
<1> QED
  BY <1>1, <1>2, <1>3 DEF Rises, x

\* Whoever is attended to was sent the right things.
LEMMA AttendsSaid ==
  ASSUME NEW p, NEW r, NEW u, NEW c, Attends(p, r, u, c)
  PROVE  Said(p, r)
BY DEF Attends, Said, Heard, UnitsOf, Growing, Framing

\* An answer of w, and the client is listened to again; or the server is killed.
LEMMA AttendsAnswers ==
  ASSUME IsReactor, NEW p \in Peers, NEW r, Fine(p, r), NEW c, Attends(p, r, "out", c),
         NEW d \in Entries, d.r = c.r, d.w = c.w, d.status = IF c.status = 2 THEN 1 ELSE c.status,
         NEW a, a = IF SendKills(r) THEN r ELSE Answered(r, c.w)
  PROVE  /\ Attends(p, a, "in", d)
         /\ its.frames /\ Shakes(p, r, "out", c) => Shakes(p, a, "in", d)
         /\ Fine(p, a) /\ a.st = r.st /\ a.fd = r.fd
<1>1. /\ c.w \in Seq(Peers \X Nat) /\ c.status \in {0, 1, 2} /\ r \in Records
      /\ c.w \in Seq((Peers \cup {Listener}) \X Nat)
  <2>1. c.w \in Seq(Peers \X Nat) /\ c.status \in {0, 1, 2} /\ r \in Records
    BY DEF Attends, Entries, Fine
  <2>2. \A i \in 1..Len(c.w) : c.w[i] \in (Peers \cup {Listener}) \X Nat
    BY <2>1
  <2> QED
    BY <2>1, <2>2
<1>2. /\ Fine(p, a) /\ a.st = r.st /\ a.fd = r.fd /\ a.sent = r.sent /\ a.box = r.box
      /\ r.end = "no" => a.end = "no" /\ a.got = r.got \o c.w
      /\ r.end # "no" => a.end # "no" /\ a.got = r.got
      /\ SendKills(r) => a = r
  <2>1. CASE SendKills(r)
    BY <2>1 DEF SendKills
  <2>2. CASE ~SendKills(r)
    <3>1. PICK s \in Seq((Peers \cup {Listener}) \X Nat) : s = c.w
      BY <1>1
    <3>2. a = Answered(r, s)
      BY <2>2, <3>1
    <3>3. LET b == Answered(r, s) IN
          /\ Fine(p, b) /\ b.st = r.st /\ b.fd = r.fd /\ b.sent = r.sent /\ b.box = r.box
          /\ r.end = "no" => b.end = "no" /\ b.got = r.got \o s
          /\ r.end # "no" => b.end # "no" /\ b.got = r.got
      BY AnsweredIs
    <3> QED
      BY <2>2, <3>1, <3>2, <3>3
  <2> QED
    BY <2>1, <2>2
<1>3. Rcvd(a) = Rcvd(r)
  BY <1>2 DEF Rcvd
<1>4. Doomed(a) => Rcvd(a) >= 1
  <2>1. CASE SendKills(r)
    BY <1>2, <2>1 DEF Attends
  <2>2. CASE ~SendKills(r)
    BY <1>3, <2>2 DEF Attends, SendKills
  <2> QED
    BY <2>1, <2>2
<1>5. d.status \in {0, 1}
  BY <1>1
<1>6. ~its.keeps /\ ~its.frames => Heard(p, a, <<>>)
  <2>1. SUFFICES ASSUME ~its.keeps, ~its.frames PROVE Heard(p, a, <<>>)
    OBVIOUS
  <2>2. Heard(p, r, c.w)
    BY <2>1 DEF Attends
  <2>3. CASE SendKills(r)
    BY <1>2, <2>2, <2>3 DEF Heard, SendKills
  <2>4. CASE ~SendKills(r)
    BY <1>1, <2>2, <2>4, AnswersHeard
  <2> QED
    BY <2>3, <2>4
<1>7. its.keeps => Growing(p, a, d)
  <2>1. SUFFICES ASSUME its.keeps PROVE Growing(p, a, d)
    OBVIOUS
  <2>2. Growing(p, r, c)
    BY <2>1 DEF Attends
  <2>3. Grows(p, a.got)
    <3>1. CASE r.end = "no"
      <4>1. Grows(p, r.got) /\ UnitsOf(p, c.w) /\ r.got \in Seq((Peers \cup {Listener}) \X Nat)
        BY <1>1, <2>2 DEF Growing, Records
      <4>2. Grows(p, r.got \o c.w)
        BY ONLY <1>1, <4>1, GrowsOn
      <4> QED
        BY <1>2, <3>1, <4>2
    <3>2. CASE r.end # "no"
      BY <1>2, <2>2, <3>2 DEF Growing
    <3> QED
      BY <3>1, <3>2
  <2> QED
    BY <1>3, <2>2, <2>3 DEF Growing
<1>8. its.frames => Framing(p, a, "in", d) /\ (Shakes(p, r, "out", c) => Shakes(p, a, "in", d))
  <2>1. SUFFICES ASSUME its.frames
                 PROVE  Framing(p, a, "in", d) /\ (Shakes(p, r, "out", c) => Shakes(p, a, "in", d))
    OBVIOUS
  <2>2. Framing(p, r, "out", c)
    BY <2>1 DEF Attends
  <2>3. Rcvd(r) >= 1 /\ Rcvd(r) # 0 /\ c.status # 0 /\ d.status = 1
    <3>1. Rcvd(r) \in Int
      BY <1>1 DEF Records, Rcvd
    <3> QED
      BY <1>1, <2>2, <3>1 DEF Framing
  <2>4. CASE r.end = "no"
    <3>1. /\ Rises(r.got) /\ r.got \in Seq((Peers \cup {Listener}) \X Nat)
          /\ Len(c.w) = 1 /\ \A i \in 1..Len(r.got) : r.got[i][2] < c.w[1][2]
      BY <1>1, <2>2 DEF Framing, Records
    <3>2. /\ Rises(a.got) /\ Len(a.got) = Len(r.got) + 1 /\ a.got[Len(r.got) + 1] = c.w[1]
          /\ \A i \in 1..Len(r.got) : a.got[i] = r.got[i]
      <4>1. /\ Rises(r.got \o c.w) /\ Len(r.got \o c.w) = Len(r.got) + 1
            /\ (r.got \o c.w)[Len(r.got) + 1] = c.w[1]
            /\ \A i \in 1..Len(r.got) : (r.got \o c.w)[i] = r.got[i]
        <5>1. PICK S : S = (Peers \cup {Listener}) \X Nat
          OBVIOUS
        <5>2. PICK g \in Seq(S), w \in Seq(S) : g = r.got /\ w = c.w
          BY <1>1, <3>1, <5>1
        <5>3. Tops(w, g)
          BY <3>1, <5>2 DEF Tops
        <5>4. /\ Rises(g \o w) /\ Len(g \o w) = Len(g) + 1 /\ (g \o w)[Len(g) + 1] = w[1]
              /\ \A i \in 1..Len(g) : (g \o w)[i] = g[i]
          BY ONLY <5>3, g \in Seq(S), w \in Seq(S), RisesOn
        <5> QED
          BY ONLY <5>2, <5>4
      <4> QED
        BY <1>2, <2>4, <4>1
    <3>3. ASSUME NEW i \in 1..Len(a.got) PROVE a.got[i][2] <= Rcvd(a)
      <4>1. Len(r.got) \in Nat /\ (i \in 1..Len(r.got) \/ i = Len(r.got) + 1)
        <5>1. Len(r.got) \in Nat
          BY <3>1
        <5> QED
          BY <3>2, <5>1
      <4> QED
        BY <1>3, <2>2, <3>2, <4>1 DEF Framing
    <3>4. Framing(p, a, "in", d)
      BY <1>3, <2>3, <3>2, <3>3 DEF Framing
    <3>5. ASSUME Shakes(p, r, "out", c) PROVE Shakes(p, a, "in", d)
      <4>1. Len(r.got) \in Nat /\ (r.got = <<>> <=> Len(r.got) = 0)
        BY <3>1
      <4>2. a.got # <<>>
        BY <3>2, <4>1
      <4>3. CASE r.got # <<>>
        <5>1. 1 \in 1..Len(r.got)
          BY <4>1, <4>3
        <5> QED
          BY <3>2, <3>5, <4>2, <4>3, <5>1 DEF Shakes
      <4>4. CASE r.got = <<>>
        <5>1. c.status = 1
          BY <2>3, <2>4, <3>5, <4>4 DEF Shakes
        <5>2. c.w[1] = <<p, 0>>
          BY <2>2, <5>1 DEF Framing
        <5>3. a.got[1] = c.w[1]
          BY <3>2, <4>1, <4>4
        <5> QED
          BY <4>2, <5>2, <5>3 DEF Shakes
      <4> QED
        BY <4>3, <4>4
    <3> QED
      BY <3>4, <3>5
  <2>5. CASE r.end # "no"
    <3>1. Framing(p, a, "in", d)
      BY <1>2, <1>3, <2>2, <2>3, <2>5 DEF Framing
    <3>2. Shakes(p, r, "out", c) => Shakes(p, a, "in", d)
      BY <1>2, <2>5 DEF Shakes
    <3> QED
      BY <3>1, <3>2
  <2> QED
    BY <2>4, <2>5
<1>9. Attends(p, a, "in", d)
  BY <1>4, <1>5, <1>6, <1>7, <1>8 DEF Attends
<1> QED
  BY <1>2, <1>8, <1>9

\* Of the reactors: each open descriptor is watched, each client attended to as
\* its entry says, and one that was reported has something to be read.
ReactorTyped ==
  /\ IsReactor /\ SockInv
  /\ want \in [Fds -> {"no", "in", "out"}] /\ ready \subseteq Fds \cup {Listener}
  /\ conn \in [Fds -> Entries]
  /\ \A fd \in Fds : /\ want[fd] # "no" <=> fd \in UsedFds
                     /\ conn[fd].status = 2 => want[fd] = "out"
                     /\ fd \in ready => want[fd] # "no"

AttendsTo(p) == Attends(p, peer[p], want[peer[p].fd], conn[peer[p].fd])
ShakesWith(p) == Shakes(p, peer[p], want[peer[p].fd], conn[peer[p].fd])
Unheard(r) == Rcvd(r) = 0 /\ r.got = <<>> /\ r.end \in {"no", "fin", "rst"}
NoneLeft == \A p \in Peers : peer[p].st # "shut"

ReactorInv ==
  /\ ReactorTyped
  /\ \A p \in Peers :
       /\ peer[p].st \in {"off", "queued"} => Unheard(peer[p])
       /\ Said(p, peer[p])
       /\ peer[p].st = "open" => AttendsTo(p)
       /\ peer[p].st = "open" /\ want[peer[p].fd] = "in" /\ peer[p].fd \in ready => Readable(p)
  /\ its.frames /\ NoneLeft =>
       /\ \A fd \in Fds \ UsedFds : conn[fd].status = 0
       /\ \A p \in Peers : peer[p].st = "open" => ShakesWith(p)
  /\ WhatKills /\ HangsUpOnFull

\* The invariant of the reactors holds at the start.
LEMMA ReactorInit_Inv == ReactorInit /\ IsReactor => ReactorInv
<1> SUFFICES ASSUME ReactorInit, IsReactor PROVE ReactorInv
  OBVIOUS
<1>1. SockInv
  BY SockInit_Inv DEF ReactorInit
<1>2. \A p \in Peers : peer[p] = NoBody
  BY DEF ReactorInit, SockInit
<1>3. FreshConn \in Entries /\ FreshConn.status = 0
  <2>1. <<>> \in Seq(Peers \X Nat)
    OBVIOUS
  <2> QED
    BY <2>1 DEF FreshConn, Entries
<1>4. UsedFds = {}
  BY <1>2 DEF UsedFds, Open, NoBody
<1>5. ReactorTyped
  BY <1>1, <1>3, <1>4 DEF ReactorTyped, ReactorInit
<1>6. Unheard(NoBody) /\ \A p \in Peers : Said(p, NoBody)
  BY DEF Unheard, NoBody, Rcvd, Said, UnitsOf, Grows, Rises
<1>7. WhatKills /\ HangsUpOnFull
  BY <1>2 DEF WhatKills, HangsUpOnFull, ReactorInit, SockInit, NoBody
<1>8. \A fd \in Fds : conn[fd].status = 0
  BY <1>3 DEF ReactorInit
<1>9. \A p \in Peers : peer[p].st = "off"
  BY <1>2 DEF NoBody
<1> QED
  BY <1>2, <1>5, <1>6, <1>7, <1>8, <1>9 DEF ReactorInv

\* A step of a client.
LEMMA ReactorClient_Inv ==
  ASSUME ReactorInv, NEW p \in Peers, ReactorClient(p)
  PROVE  ReactorInv'
<1>1. SockInv /\ IsReactor /\ peer \in [Peers -> Records] /\ \A q \in Peers : peer[q].end \in Ends
  BY DEF ReactorInv, ReactorTyped, SockInv, Records
<1>2. Connect(p) \/ SendOrQuit(p)
  BY DEF ReactorClient
<1>3. PICK r : /\ Fine(p, r) /\ peer' = [peer EXCEPT ![p] = r] /\ SockInv' /\ setup' = setup /\ down' = down
               /\ r.fd = peer[p].fd /\ r.got = peer[p].got
               /\ \/ /\ peer[p].st = "off" /\ r.st = "queued" /\ r.sent = peer[p].sent
                     /\ r.box = peer[p].box /\ r.end = peer[p].end
                  \/ /\ r.st = peer[p].st /\ peer[p].end = "no" /\ r.end = "no"
                     /\ r.sent = peer[p].sent + 1 /\ Len(r.box) = Len(peer[p].box) + 1
                  \/ /\ r.st = peer[p].st /\ peer[p].end = "no" /\ r.end \in {"fin", "rst"}
                     /\ r.sent = peer[p].sent /\ r.box = peer[p].box
  BY <1>1, <1>2, ClientDoes
<1>4. \A q \in Peers : peer'[q] = IF q = p THEN r ELSE peer[q]
  BY <1>1, <1>3
<1>5. want' = want /\ conn' = conn /\ ready' = ready /\ its' = its /\ prog' = prog /\ Fds' = Fds
  BY <1>3 DEF ReactorClient, its, prog, Fds
<1>6. r \in Records /\ Rcvd(r) = Rcvd(peer[p])
  <2>1. r \in Records /\ peer[p].sent \in Nat /\ Len(peer[p].box) \in Nat
    BY <1>1, <1>3 DEF Fine, Records
  <2>2. CASE r.sent = peer[p].sent /\ r.box = peer[p].box
    BY <2>1, <2>2 DEF Rcvd
  <2>3. CASE r.sent = peer[p].sent + 1 /\ Len(r.box) = Len(peer[p].box) + 1
    <3>1. \A x, y \in Nat : (x + 1) - (y + 1) = x - y
      OBVIOUS
    <3> QED
      BY <2>1, <2>3, <3>1 DEF Rcvd
  <2> QED
    BY <1>3, <2>1, <2>2, <2>3
<1>7. (Readable(p) => r.box # <<>> \/ r.end # "no")
  <2>1. Len(peer[p].box) \in Nat /\ (r.box = <<>> => Len(r.box) = 0)
    BY <1>1 DEF Records
  <2> QED
    BY <1>3, <2>1 DEF Readable
<1>8. \A q \in Peers : /\ peer'[q].st = "open" <=> peer[q].st = "open"
                       /\ peer'[q].st = "shut" <=> peer[q].st = "shut"
                       /\ peer'[q].fd = peer[q].fd /\ peer'[q].got = peer[q].got
                       /\ (Readable(q) => Readable(q)')
  BY <1>3, <1>4, <1>7 DEF Readable
<1>9. UsedFds' = UsedFds /\ NoneLeft' = NoneLeft
  BY <1>8 DEF UsedFds, Open, NoneLeft
<1>10. ReactorTyped'
  BY <1>3, <1>5, <1>9 DEF ReactorInv, ReactorTyped, IsReactor
<1>11. ASSUME NEW q \in Peers PROVE Said(q, peer[q])'
  BY SMTT(30), <1>5, <1>8 DEF ReactorInv, Said, UnitsOf, Grows, Rises
<1>12. ASSUME NEW q \in Peers, peer'[q].st \in {"off", "queued"} PROVE Unheard(peer[q])'
  <2>1. peer[q].st \in {"off", "queued"} /\ Unheard(peer[q])
    BY <1>3, <1>4, <1>12 DEF ReactorInv
  <2>2. CASE q = p
    BY <1>3, <1>4, <1>6, <2>1, <2>2 DEF Unheard, Rcvd
  <2>3. CASE q # p
    BY SMTT(30), <1>4, <2>1, <2>3 DEF Unheard, Rcvd
  <2> QED
    BY <2>2, <2>3
<1>13. ASSUME NEW q \in Peers, NEW x, NEW u, NEW c, Attends(q, x, u, c), x = peer'[q],
              u = want'[peer'[q].fd], c = conn'[peer'[q].fd]
       PROVE  AttendsTo(q)'
  <2>1. setup' = setup
    BY <1>3
  <2> QED
    BY ZenonT(40), <1>5, <1>13, <2>1 DEF AttendsTo, Attends, Heard, Growing, Framing, Doomed, Rcvd, Grows, Rises,
       UnitsOf, Entries
<1>14. ASSUME NEW q \in Peers, peer'[q].st = "open"
       PROVE  /\ AttendsTo(q)'
              /\ ShakesWith(q) => ShakesWith(q)'
  <2>1. peer[q].st = "open" /\ AttendsTo(q)
    BY <1>8, <1>14 DEF ReactorInv
  <2> DEFINE u == want[peer[q].fd]
             c == conn[peer[q].fd]
  <2>2. u = want'[peer'[q].fd] /\ c = conn'[peer'[q].fd]
    BY <1>5, <1>8
  <2>3. Attends(q, peer'[q], u, c) /\ (Shakes(q, peer[q], u, c) => Shakes(q, peer'[q], u, c))
    <3>1. CASE q = p
      <4>1. peer'[q] = r
        BY <1>4, <3>1
      <4>2. Attends(q, peer[q], u, c)
        BY <2>1 DEF AttendsTo
      <4>3. r.end = peer[p].end \/ (peer[p].end = "no" /\ r.end \in {"no", "fin", "rst"})
        BY <1>3
      <4> HIDE DEF u, c
      <4> QED
        BY <1>1, <1>3, <1>6, <3>1, <4>1, <4>2, <4>3, AttendsClient
    <3>2. CASE q # p
      BY <1>4, <2>1, <3>2 DEF AttendsTo
    <3> QED
      BY <3>1, <3>2
  <2>4. AttendsTo(q)'
    <3> HIDE DEF u, c
    <3> QED
      BY <1>13, <2>2, <2>3
  <2>5. ShakesWith(q) => ShakesWith(q)'
    BY <2>2, <2>3 DEF ShakesWith, Shakes
  <2> QED
    BY <2>4, <2>5
<1>15. WhatKills'
  <2>1. SUFFICES ASSUME down # "up" PROVE WhatKills'
    BY <1>3 DEF WhatKills
  <2>2. PICK q \in Peers :
          /\ peer[q].st = "open"
          /\ \/ peer[q].end = "told" /\ its.error # "close"
             \/ peer[q].end \in {"told", "finrst"} /\ peer[q].sent >= 2 /\ down = "killed"
    BY <1>1, <2>1 DEF ReactorInv, WhatKills, Open
  <2>3. peer'[q] = peer[q]
    BY <1>3, <1>4, <2>2
  <2> QED
    BY <1>3, <1>5, <2>2, <2>3 DEF WhatKills, Open
<1>16. HangsUpOnFull'
  <2>1. \A q \in Peers : peer'[q].st = "shut" => peer[q].st = "shut" /\ (peer'[q].end = "no" => peer[q].end = "no")
                         /\ peer'[q].sent >= peer[q].sent /\ peer[q].sent \in Nat /\ peer'[q].sent \in Nat
    <3>1. \A q \in Peers : peer[q].sent \in Nat
      BY <1>1 DEF Records
    <3> QED
      BY <1>3, <1>4, <1>8, <3>1
  <2>2. setup.buf \in Nat
    BY <1>1, TeachAssumption DEF SockInv
  <2> QED
    BY <1>1, <1>3, <1>5, <2>1, <2>2 DEF ReactorInv, HangsUpOnFull
<1>17. its'.frames /\ NoneLeft' =>
         /\ \A fd \in (Fds \ UsedFds)' : conn'[fd].status = 0
         /\ \A q \in Peers : peer'[q].st = "open" => ShakesWith(q)'
  BY <1>5, <1>8, <1>9, <1>14 DEF ReactorInv
<1>18. \A q \in Peers : peer'[q].st = "open" /\ want'[peer'[q].fd] = "in" /\ peer'[q].fd \in ready' => Readable(q)'
  BY <1>5, <1>8 DEF ReactorInv
<1> QED
  BY <1>10, <1>11, <1>12, <1>14, <1>15, <1>16, <1>17, <1>18 DEF ReactorInv

\* When one connection is made or closed, or goes on, the others keep their descriptors.
LEMMA UsedTurn ==
  ASSUME SockInv, NEW p \in Peers, NEW fd \in Fds, NEW r, peer' = [peer EXCEPT ![p] = r],
         peer[p].fd = fd \/ (peer[p].fd = 0 /\ fd \notin UsedFds), fd # 0,
         (r.st = "open" /\ r.fd = fd) \/ r.st = "shut"
  PROVE  /\ \A q \in Peers : q # p /\ peer[q].st = "open" => peer[q].fd # fd /\ peer[q].fd \in Fds
         /\ \A g \in Fds : g \in UsedFds' <=> IF g = fd THEN r.st = "open" ELSE g \in UsedFds
<1>1. SockInv /\ peer \in [Peers -> Records]
  BY DEF SockInv
<1>2. \A q \in Peers : peer'[q] = IF q = p THEN r ELSE peer[q]
  BY <1>1
<1>4. ASSUME NEW q \in Peers, q # p, peer[q].st = "open"
      PROVE  peer[q].fd # fd /\ peer[q].fd \in Fds
  <2>1. peer[q].fd \in UsedFds /\ peer[q].fd \in Fds /\ peer[q].fd # 0
    BY <1>1, <1>4, OwnerOf
  <2> QED
    BY <1>1, <1>4, <2>1 DEF SockInv
<1>5. \A g \in Fds : g \in UsedFds' <=> IF g = fd THEN r.st = "open" ELSE g \in UsedFds
  <2>1. ASSUME NEW g \in Fds, g # fd PROVE g \in UsedFds' <=> g \in UsedFds
    <3>1. ASSUME g \in UsedFds PROVE g \in UsedFds'
      <4>1. PICK q \in Peers : peer[q].st = "open" /\ peer[q].fd = g
        BY <3>1 DEF UsedFds, Open
      <4>2. q # p
        <5>1. peer[p].st = "open" => peer[p].fd # 0
          BY <1>1 DEF SockInv, Fine
        <5> QED
          BY <2>1, <4>1, <5>1
      <4> QED
        BY <1>2, <4>1, <4>2 DEF UsedFds, Open
    <3>2. ASSUME g \in UsedFds' PROVE g \in UsedFds
      <4>1. PICK q \in Peers : peer'[q].st = "open" /\ peer'[q].fd = g
        BY <3>2 DEF UsedFds, Open
      <4> QED
        BY <1>2, <2>1, <4>1 DEF UsedFds, Open
    <3> QED
      BY <3>1, <3>2
  <2>2. fd \in UsedFds' <=> r.st = "open"
    <3>1. r.st = "open" => fd \in UsedFds'
      BY <1>2 DEF UsedFds, Open
    <3>2. ASSUME fd \in UsedFds' PROVE r.st = "open"
      <4>1. PICK q \in Peers : peer'[q].st = "open" /\ peer'[q].fd = fd
        BY <3>2 DEF UsedFds, Open
      <4> QED
        BY <1>2, <1>4, <4>1
    <3> QED
      BY <3>1, <3>2
  <2> QED
    BY <2>1, <2>2
<1> QED
  BY <1>4, <1>5

\* A step of the server with one client p and its descriptor fd keeps the invariant.
LEMMA ReactorTurn ==
  ASSUME ReactorInv, NEW p \in Peers, NEW fd \in Fds, NEW r \in Records, NEW u \in {"no", "in", "out"},
         NEW c \in Entries, SockInv', setup' = setup, peer' = [peer EXCEPT ![p] = r],
         want' = [want EXCEPT ![fd] = u], conn' = [conn EXCEPT ![fd] = c],
         ready' \subseteq ready, fd \notin ready',
         peer[p].fd = fd \/ (peer[p].fd = 0 /\ fd \notin UsedFds), fd # 0, peer[p].st # "shut",
         (r.st = "open" /\ r.fd = fd /\ u # "no") \/ (r.st = "shut" /\ u = "no"),
         c.status = 2 => u = "out", Said(p, r), r.st = "open" => Attends(p, r, u, c),
         r.st = "shut" /\ r.end = "no" => its.keeps /\ r.sent >= setup.buf,
         its.frames /\ NoneLeft /\ r.st = "open" => Shakes(p, r, u, c), WhatKills'
  PROVE  ReactorInv'
<1>1. /\ SockInv /\ IsReactor /\ peer \in [Peers -> Records]
      /\ want \in [Fds -> {"no", "in", "out"}] /\ conn \in [Fds -> Entries]
  BY DEF ReactorInv, ReactorTyped, SockInv
<1>2. /\ \A q \in Peers : peer'[q] = IF q = p THEN r ELSE peer[q]
      /\ \A g \in Fds : want'[g] = IF g = fd THEN u ELSE want[g]
      /\ \A g \in Fds : conn'[g] = IF g = fd THEN c ELSE conn[g]
  BY <1>1
<1>3. its' = its /\ prog' = prog /\ Fds' = Fds
  BY DEF its, prog, Fds
<1>4. /\ \A q \in Peers : q # p /\ peer[q].st = "open" => peer[q].fd # fd /\ peer[q].fd \in Fds
      /\ \A g \in Fds : g \in UsedFds' <=> IF g = fd THEN r.st = "open" ELSE g \in UsedFds
  BY <1>1, UsedTurn
<1>5. \A g \in Fds : g \in UsedFds' <=> IF g = fd THEN r.st = "open" ELSE g \in UsedFds
  BY <1>4
<1>6. ReactorTyped'
  <2>1. /\ want' \in [Fds -> {"no", "in", "out"}] /\ conn' \in [Fds -> Entries]
        /\ ready' \subseteq Fds \cup {Listener}
    BY <1>1 DEF ReactorInv, ReactorTyped
  <2>2. ASSUME NEW g \in Fds
        PROVE  /\ want'[g] # "no" <=> g \in UsedFds'
               /\ conn'[g].status = 2 => want'[g] = "out"
               /\ g \in ready' => want'[g] # "no"
    BY <1>2, <1>5 DEF ReactorInv, ReactorTyped
  <2> QED
    BY <1>1, <1>3, <2>1, <2>2 DEF ReactorTyped, IsReactor, Entries
<1>7. ASSUME NEW q \in Peers PROVE Said(q, peer[q])'
  <2>1. PICK x : x = peer'[q] /\ Said(q, x)
    BY <1>2 DEF ReactorInv
  <2> QED
    BY <1>3, <2>1 DEF Said, UnitsOf, Grows, Rises
<1>8. ASSUME NEW q \in Peers, peer'[q].st \in {"off", "queued"} PROVE Unheard(peer[q])'
  <2>1. q # p /\ peer'[q] = peer[q]
    BY SMTT(30), <1>2, <1>8
  <2> QED
    BY <1>8, <2>1 DEF ReactorInv, Unheard, Rcvd
<1>9. ASSUME NEW q \in Peers, NEW x, NEW v, NEW d, Attends(q, x, v, d), x = peer'[q],
             v = want'[peer'[q].fd], d = conn'[peer'[q].fd]
      PROVE  AttendsTo(q)'
  <2>1. setup' = setup
    OBVIOUS
  <2> QED
    BY ONLY ZenonT(40), <1>3, <1>9, <2>1 DEF AttendsTo, Attends, Heard, Growing, Framing, Doomed, Rcvd, Grows, Rises,
       UnitsOf, Entries
<1>10. ASSUME NEW q \in Peers, peer'[q].st = "open"
       PROVE  /\ AttendsTo(q)'
              /\ its.frames /\ NoneLeft => ShakesWith(q)'
  <2>1. CASE q = p
    <3>1. r = peer'[q] /\ u = want'[peer'[q].fd] /\ c = conn'[peer'[q].fd] /\ Attends(q, r, u, c)
      BY <1>2, <1>10, <2>1
    <3>2. AttendsTo(q)'
      BY <1>9, <3>1
    <3>3. its.frames /\ NoneLeft => Shakes(q, r, u, c)
      BY <1>2, <1>10, <2>1
    <3> QED
      BY <3>1, <3>2, <3>3 DEF ShakesWith, Shakes
  <2>2. CASE q # p
    <3>1. PICK x, v, d : x = peer[q] /\ v = want[peer[q].fd] /\ d = conn[peer[q].fd]
      OBVIOUS
    <3>2. peer[q].st = "open" /\ x = peer'[q] /\ v = want'[peer'[q].fd] /\ d = conn'[peer'[q].fd]
      BY <1>2, <1>4, <1>10, <2>2, <3>1
    <3>3. Attends(q, x, v, d)
      BY <3>1, <3>2 DEF ReactorInv, AttendsTo
    <3>4. AttendsTo(q)'
      BY <1>9, <3>2, <3>3
    <3>5. its.frames /\ NoneLeft => ShakesWith(q)
      BY <3>2 DEF ReactorInv
    <3> QED
      BY <3>1, <3>2, <3>4, <3>5 DEF ShakesWith, Shakes
  <2> QED
    BY <2>1, <2>2
<1>11. NoneLeft' => NoneLeft /\ r.st = "open"
  BY <1>2 DEF NoneLeft
<1>12. its'.frames /\ NoneLeft' =>
         /\ \A g \in (Fds \ UsedFds)' : conn'[g].status = 0
         /\ \A q \in Peers : peer'[q].st = "open" => ShakesWith(q)'
  <2>1. SUFFICES ASSUME its'.frames, NoneLeft' PROVE \A g \in (Fds \ UsedFds)' : conn'[g].status = 0
    BY <1>3, <1>10, <1>11
  <2>2. ASSUME NEW g \in Fds, g \notin UsedFds' PROVE conn'[g].status = 0
    BY <1>2, <1>3, <1>5, <1>11, <2>1, <2>2 DEF ReactorInv
  <2> QED
    BY <1>3, <2>2
<1>13. ASSUME NEW q \in Peers, peer'[q].st = "open", want'[peer'[q].fd] = "in", peer'[q].fd \in ready'
       PROVE  Readable(q)'
  <2>1. q # p
    BY <1>2, <1>13
  <2>2. peer'[q] = peer[q] /\ want'[peer[q].fd] = want[peer[q].fd]
    BY <1>2, <1>4, <1>13, <2>1
  <2>3. Readable(q)
    BY <1>13, <2>2 DEF ReactorInv
  <2> QED
    BY <2>2, <2>3 DEF Readable
<1>14. HangsUpOnFull'
  <2>1. ASSUME NEW q \in Peers, peer'[q].st = "shut", peer'[q].end = "no"
        PROVE  its.keeps /\ peer'[q].sent >= setup.buf
    BY <1>1, <1>2, <2>1 DEF ReactorInv, HangsUpOnFull
  <2> QED
    BY <1>3, <2>1 DEF HangsUpOnFull
<1> QED
  BY <1>6, <1>7, <1>8, <1>10, <1>12, <1>13, <1>14 DEF ReactorInv

\* What is known of a descriptor that is watched: it has an owner.
LEMMA WatchedIs ==
  ASSUME ReactorInv, NEW fd \in Fds, want[fd] # "no"
  PROVE  LET p == Owner(fd) IN
         /\ p \in Peers /\ peer[p].st = "open" /\ peer[p].fd = fd /\ fd # 0
         /\ Attends(p, peer[p], want[fd], conn[fd]) /\ Fine(p, peer[p]) /\ Said(p, peer[p])
         /\ want[fd] = "in" /\ fd \in ready => Readable(p)
         /\ its.frames /\ NoneLeft => Shakes(p, peer[p], want[fd], conn[fd])
<1>1. SockInv /\ fd \in UsedFds
  BY DEF ReactorInv, ReactorTyped
<1>2. PICK p \in Peers : p = Owner(fd) /\ peer[p].st = "open" /\ peer[p].fd = fd
  BY <1>1, OwnerIs
<1>3. fd # 0 /\ Fine(p, peer[p])
  BY <1>1, <1>2, OwnerOf DEF SockInv
<1>4. /\ Attends(p, peer[p], want[fd], conn[fd]) /\ Said(p, peer[p])
      /\ want[fd] = "in" /\ fd \in ready => Readable(p)
      /\ its.frames /\ NoneLeft => Shakes(p, peer[p], want[fd], conn[fd])
  BY <1>2 DEF ReactorInv, AttendsTo, ShakesWith
<1> QED
  BY <1>2, <1>3, <1>4

\* epoll_wait reports what is ready.
LEMMA MainLoop_Inv ==
  ASSUME ReactorInv, MainLoop
  PROVE  ReactorInv'
<1>1. /\ setup' = setup /\ peer' = peer /\ queue' = queue /\ down' = down /\ want' = want /\ conn' = conn
      /\ ready' = Events /\ SockInv
  BY DEF MainLoop, sockVars, ReactorInv, ReactorTyped
<1>2. SockInv'
  BY <1>1 DEF SockInv, Fine
<1>3. \A fd \in Fds : fd \in Events => want[fd] = "out" \/ (want[fd] = "in" /\ Readable(Owner(fd)))
  <2>1. \A fd \in Fds : fd # Listener
    BY FS_CardinalityType, TeachAssumption DEF Fds
  <2> QED
    BY <2>1 DEF Events
<1>4. Events \subseteq Fds \cup {Listener}
  BY DEF Events
<1>5. ReactorTyped'
  BY <1>1, <1>2, <1>3, <1>4 DEF ReactorInv, ReactorTyped, IsReactor, prog, Fds, UsedFds, Open, Entries
<1>6. ASSUME NEW q \in Peers, peer[q].st = "open", want[peer[q].fd] = "in", peer[q].fd \in ready' PROVE Readable(q)
  <2>1. peer[q].fd \in Fds /\ Owner(peer[q].fd) = q
    BY <1>1, <1>6, OwnerOf
  <2> QED
    BY <1>1, <1>3, <1>6, <2>1
<1>7. its' = its
  BY <1>1 DEF its, prog
<1>8. \A q \in Peers : /\ (Readable(q) => Readable(q)') /\ (Said(q, peer[q]) => Said(q, peer[q])')
                       /\ (Unheard(peer[q]) => Unheard(peer[q])') /\ (ShakesWith(q) => ShakesWith(q)')
  BY SMTT(30), <1>1, <1>7 DEF Readable, Said, UnitsOf, Grows, Rises, Unheard, Rcvd, ShakesWith, Shakes
<1>9. ASSUME NEW q \in Peers, AttendsTo(q) PROVE AttendsTo(q)'
  BY ZenonT(40), <1>1, <1>7, <1>9 DEF AttendsTo, Attends, Heard, Growing, Framing, Doomed, Rcvd, Grows, Rises, UnitsOf, Entries
<1>10. WhatKills' /\ HangsUpOnFull'
  BY <1>1, <1>7 DEF ReactorInv, WhatKills, HangsUpOnFull, IsReactor, prog, Open
<1>11. NoneLeft' = NoneLeft /\ (Fds \ UsedFds)' = Fds \ UsedFds
  BY <1>1 DEF NoneLeft, UsedFds, Open, Fds
<1> QED
  BY <1>1, <1>5, <1>6, <1>7, <1>8, <1>9, <1>10, <1>11 DEF ReactorInv

\* A connection is accepted, and its entry starts anew.
LEMMA accept_cb_Inv ==
  ASSUME ReactorInv, accept_cb
  PROVE  ReactorInv'
<1>1. /\ SockInv /\ IsReactor /\ queue # <<>> /\ queue \in Seq(Peers) /\ down = "up"
      /\ down' = down /\ setup' = setup
  BY DEF ReactorInv, ReactorTyped, SockInv, accept_cb
<1>2. PICK p \in Peers : p = Head(queue)
  BY <1>1
<1>3. peer[p].st = "queued"
  <2>1. Len(queue) >= 1 /\ p = queue[1]
    BY <1>1, <1>2
  <2> QED
    BY <1>1, <2>1 DEF SockInv
<1>4. PICK fd : fd = LowestFree /\ fd \in Fds /\ fd \notin UsedFds /\ fd # 0
  BY <1>1, <1>3, FreeIs
<1>5. PICK r : r = Accepted(p)
  OBVIOUS
<1>6. /\ Fine(p, r) /\ r.st = "open" /\ r.fd = fd /\ r.sent = peer[p].sent
      /\ r.box = peer[p].box /\ r.end = peer[p].end /\ r.got = peer[p].got
  BY <1>1, <1>3, <1>4, <1>5, AcceptedIs
<1>7. want[fd] = "no" /\ conn[fd].status \in {0, 1} /\ fd \notin ready
  BY <1>4 DEF ReactorInv, ReactorTyped, Entries
<1>8. PICK c : c = [FreshConn EXCEPT !.status = conn[fd].status]
  OBVIOUS
<1>9. c \in Entries /\ c.status = conn[fd].status
  <2>1. c = [r |-> <<>>, w |-> <<>>, status |-> conn[fd].status]
    BY <1>8 DEF FreshConn
  <2>2. <<>> \in Seq(Peers \X Nat)
    OBVIOUS
  <2> QED
    BY <1>7, <2>1, <2>2 DEF Entries
<1>10. /\ peer' = [peer EXCEPT ![p] = r] /\ queue' = Tail(queue)
       /\ conn' = [conn EXCEPT ![fd] = c] /\ want' = [want EXCEPT ![fd] = "in"]
       /\ ready' \subseteq ready /\ fd \notin ready'
  BY <1>2, <1>4, <1>5, <1>7, <1>8 DEF accept_cb
<1>11. SockInv'
  <2>1. TurnsOf(p, r)
    BY <1>1, <1>2, <1>4, <1>6, <1>10 DEF TurnsOf
  <2> QED
    BY <1>1, <1>6, <1>10, <2>1, OneTurn DEF Downs
<1>12. Rcvd(r) = 0 /\ r.got = <<>> /\ r.end \in {"no", "fin", "rst"} /\ r \in Records
  BY <1>3, <1>6 DEF ReactorInv, Unheard, Rcvd, Fine
<1>13. Attends(p, r, "in", c) /\ Said(p, r)
  <2>1. PICK s \in {0, 1} : s = conn[fd].status
    BY <1>7
  <2>2. c = [FreshConn EXCEPT !.status = s]
    BY <1>8, <2>1
  <2> QED
    BY <1>1, <1>12, <2>2, AttendsNew
<1>14. its.frames /\ NoneLeft => Shakes(p, r, "in", c)
  BY <1>4, <1>9, <1>12 DEF ReactorInv, Shakes
<1>15. WhatKills'
  BY <1>1 DEF WhatKills
<1>16. peer[p].fd = 0
  BY <1>1, <1>3 DEF SockInv, Fine
<1>17. /\ c.status # 2 /\ peer[p].st # "shut" /\ setup' = setup
       /\ peer[p].fd = 0 /\ fd \notin UsedFds /\ fd # 0 /\ r.st = "open" /\ r.fd = fd
  BY <1>1, <1>3, <1>4, <1>6, <1>7, <1>9, <1>16
<1>18. PICK u : u = "in"
  OBVIOUS
<1>19. /\ ReactorInv /\ p \in Peers /\ fd \in Fds /\ r \in Records /\ u \in {"no", "in", "out"}
       /\ c \in Entries /\ SockInv' /\ setup' = setup /\ peer' = [peer EXCEPT ![p] = r]
       /\ want' = [want EXCEPT ![fd] = u] /\ conn' = [conn EXCEPT ![fd] = c]
       /\ ready' \subseteq ready /\ fd \notin ready'
  BY <1>2, <1>4, <1>9, <1>10, <1>11, <1>12, <1>17, <1>18
<1>20. /\ peer[p].fd = 0 /\ fd \notin UsedFds /\ fd # 0 /\ peer[p].st # "shut"
       /\ r.st = "open" /\ r.fd = fd /\ u # "no" /\ c.status # 2
       /\ Said(p, r) /\ Attends(p, r, u, c) /\ WhatKills'
       /\ (its.frames /\ NoneLeft => Shakes(p, r, u, c))
  BY <1>13, <1>14, <1>15, <1>17, <1>18
<1> QED
  BY ONLY <1>19, <1>20, ReactorTurn

\* The room that recv is given.
LEMMA RoomInIs ==
  ASSUME ReactorInv, NEW fd \in Fds, want[fd] # "no"
  PROVE  /\ RoomIn(fd) \in Nat /\ setup.buf \in Nat \ {0}
         /\ its.keeps => RoomIn(fd) = setup.buf - Len(conn[fd].r) /\ Len(conn[fd].r) = Rcvd(peer[Owner(fd)])
         /\ ~its.keeps => RoomIn(fd) = setup.buf
<1>1. setup.buf \in Nat \ {0}
  BY TeachAssumption DEF ReactorInv, ReactorTyped, SockInv
<1>2. CASE its.keeps
  <2>1. Growing(Owner(fd), peer[Owner(fd)], conn[fd]) /\ conn[fd] \in Entries
    BY <1>2, WatchedIs DEF Attends
  <2>2. Len(conn[fd].r) \in Nat /\ Len(conn[fd].r) <= setup.buf /\ Len(conn[fd].r) = Rcvd(peer[Owner(fd)])
    BY <2>1 DEF Growing, Entries
  <2>3. RoomIn(fd) = setup.buf - Len(conn[fd].r)
    BY <1>2 DEF RoomIn
  <2> QED
    BY <1>1, <1>2, <2>2, <2>3
<1>3. CASE ~its.keeps
  BY <1>1, <1>3 DEF RoomIn
<1> QED
  BY <1>2, <1>3

\* The client has gone, or there is no room left, and the server hangs up.
LEMMA Disconnect_Inv ==
  ASSUME ReactorInv, NEW fd \in Fds, Disconnect(fd)
  PROVE  ReactorInv'
<1>1. SockInv /\ IsReactor /\ want[fd] = "in" /\ down = "up" /\ fd \in ready
  BY DEF ReactorInv, ReactorTyped, Disconnect
<1>2. PICK p : p = Owner(fd)
  OBVIOUS
<1>3. /\ p \in Peers /\ peer[p].st = "open" /\ peer[p].fd = fd /\ fd # 0 /\ Fine(p, peer[p])
      /\ Said(p, peer[p]) /\ Readable(p)
  BY <1>1, <1>2, WatchedIs
<1>4. PICK n : n = RoomIn(fd)
  OBVIOUS
<1>5. /\ n \in Nat /\ setup.buf \in Nat \ {0}
      /\ ~its.keeps => n = setup.buf
      /\ its.keeps => n = setup.buf - Rcvd(peer[p])
  BY <1>1, <1>2, <1>4, RoomInIs
<1>6. PICK x : x = Received(p, n)
  OBVIOUS
<1>7. /\ Fine(p, x) /\ x.sent = peer[p].sent /\ x.got = peer[p].got
      /\ x.end = IF Result(p, n) = -1 THEN "told" ELSE peer[p].end
  <2>1. LET y == Received(p, n) IN
        /\ Fine(p, y) /\ y.sent = peer[p].sent /\ y.got = peer[p].got
        /\ y.end = IF Result(p, n) = -1 THEN "told" ELSE peer[p].end
    BY <1>1, <1>3, <1>5, ReceivedIs
  <2> QED
    BY <1>6, <2>1
<1>8. PICK r : r = Closed(x)
  OBVIOUS
<1>9. /\ Fine(p, r) /\ r.st = "shut" /\ r.fd = 0 /\ r.sent = x.sent /\ r.end = x.end /\ r.got = x.got
  BY <1>7, <1>8, ClosedIs
<1>10. /\ peer' = [peer EXCEPT ![p] = r] /\ want' = [want EXCEPT ![fd] = "no"]
       /\ ready' = ready \ {fd} /\ setup' = setup /\ queue' = queue /\ down' = down /\ conn' = conn
       /\ Result(p, n) = 0 \/ Result(p, n) = -1
  BY <1>2, <1>4, <1>6, <1>8 DEF Disconnect
<1>11. SockInv'
  <2>1. TurnsOf(p, r)
    BY <1>3, <1>9, <1>10 DEF TurnsOf
  <2> QED
    BY <1>1, <1>3, <1>9, <1>10, <2>1, OneTurn DEF Downs
<1>12. Said(p, r)
  BY <1>3, <1>7, <1>9 DEF Said
<1>13. r.end = "no" => its.keeps /\ r.sent >= setup.buf
  <2>1. SUFFICES ASSUME r.end = "no" PROVE its.keeps /\ r.sent >= setup.buf
    OBVIOUS
  <2>2. Result(p, n) = 0 /\ peer[p].end = "no" /\ peer[p].box # <<>>
    BY <1>3, <1>7, <1>9, <1>10, <2>1 DEF Readable
  <2>3. n = 0
    <3>1. Result(p, n) = 0 /\ n # 0 => peer[p].box = <<>>
      BY <1>1, <1>3, <1>5, TakenIs
    <3> QED
      BY <2>2, <3>1
  <2>4. its.keeps
    BY <1>5, <2>3
  <2>5. peer[p].sent \in Nat /\ Len(peer[p].box) \in Nat /\ setup.buf \in Nat
    BY <1>3, <1>5 DEF Fine, Records
  <2>6. PICK a \in Nat, b \in Nat, z \in Nat : a = peer[p].sent /\ b = Len(peer[p].box) /\ z = setup.buf
    BY ONLY <2>5
  <2>7. 0 = z - (a - b)
    BY <1>5, <2>3, <2>4, <2>6 DEF Rcvd
  <2>8. a >= z
    BY ONLY <2>7, a \in Nat, b \in Nat, z \in Nat
  <2> QED
    BY <1>7, <1>9, <2>4, <2>6, <2>8
<1>14. WhatKills'
  BY <1>1, <1>10 DEF WhatKills
<1>15. PICK c : c = conn[fd]
  OBVIOUS
<1>16. c \in Entries /\ c.status # 2 /\ conn' = [conn EXCEPT ![fd] = c]
  BY <1>1, <1>10, <1>15 DEF ReactorInv, ReactorTyped
<1>17. r \in Records
  BY <1>9 DEF Fine
<1> QED
  BY <1>3, <1>9, <1>10, <1>11, <1>12, <1>13, <1>14, <1>16, <1>17, ReactorTurn

\* Units are received, or an error that the program goes on to answer.
LEMMA recv_cb_Inv ==
  ASSUME ReactorInv, NEW fd \in Fds, recv_cb(fd)
  PROVE  ReactorInv'
<1>1. SockInv /\ IsReactor /\ want[fd] = "in" /\ down = "up" /\ fd \in ready /\ conn \in [Fds -> Entries]
  BY DEF ReactorInv, ReactorTyped, recv_cb
<1>2. PICK p, c, n : p = Owner(fd) /\ c = conn[fd] /\ n = RoomIn(fd)
  OBVIOUS
<1>3. /\ p \in Peers /\ peer[p].st = "open" /\ peer[p].fd = fd /\ fd # 0 /\ Fine(p, peer[p])
      /\ Attends(p, peer[p], "in", c)
      /\ its.frames /\ NoneLeft => Shakes(p, peer[p], "in", c)
  BY <1>1, <1>2, WatchedIs
<1>4. n \in Nat /\ (its.keeps => n <= setup.buf - Len(c.r))
  BY <1>1, <1>2, RoomInIs
<1>5. PICK r : r = Received(p, n)
  OBVIOUS
<1>6. /\ Fine(p, r) /\ r.st = "open" /\ r.fd = fd /\ r.got = peer[p].got /\ r \in Records
  BY <1>1, <1>3, <1>4, <1>5, ReceivedIs DEF Fine
<1>7. /\ peer' = [peer EXCEPT ![p] = r] /\ ready' = ready \ {fd} /\ setup' = setup /\ queue' = queue
      /\ Result(p, n) > 0 \/ (Result(p, n) = -1 /\ its.error # "close")
      /\ down' \in Downs
  BY <1>1, <1>2, <1>5 DEF recv_cb, Downs
<1>8. SockInv'
  <2>1. TurnsOf(p, r)
    BY <1>3, <1>6, <1>7 DEF TurnsOf
  <2> QED
    BY <1>1, <1>3, <1>6, <1>7, <2>1, OneTurn
<1>9. CASE Result(p, n) = -1 /\ its.error # "close"
  <2>1. PICK u \in {"in", "out"} : want' = [want EXCEPT ![fd] = u] /\ (down' # "up" => u = "in")
    <3>1. CASE its.error = "copy"
      <4>1. want' = [want EXCEPT ![fd] = "in"]
        BY <1>1, <1>2, <1>9, <3>1 DEF recv_cb, ReactorInv, ReactorTyped
      <4> QED
        BY <4>1
    <3>2. CASE its.error # "copy"
      <4>1. want' = [want EXCEPT ![fd] = "out"] /\ down' = "up"
        BY <1>1, <1>2, <1>9, <3>2 DEF recv_cb
      <4> QED
        BY <4>1
    <3> QED
      BY <3>1, <3>2
  <2>2. conn' = [conn EXCEPT ![fd] = c]
    <3>1. conn' = conn
      BY <1>2, <1>9 DEF recv_cb
    <3> QED
      BY <1>1, <1>2, <3>1
  <2>3. Attends(p, r, u, c) /\ r.end = "told"
    BY <1>1, <1>3, <1>4, <1>5, <1>9, AttendsError
  <2>4. Said(p, r) /\ c \in Entries /\ c.status # 2
    BY <1>3, <2>3, AttendsSaid DEF Attends
  <2>5. WhatKills'
    <3>1. p \in Open' /\ peer'[p].end = "told" /\ its' = its
      BY <1>1, <1>3, <1>6, <1>7, <2>3 DEF Open, SockInv, its, prog
    <3> QED
      BY <1>9, <3>1 DEF WhatKills
  <2>6. ~its.frames
    BY <1>1, <1>9, ItsIs
  <2> QED
    BY <1>3, <1>6, <1>7, <1>8, <2>1, <2>2, <2>3, <2>4, <2>5, <2>6, ReactorTurn
<1>10. CASE Result(p, n) > 0
  <2>1. PICK t, d : t = Taken(p, n) /\ d = Request(c, t)
    OBVIOUS
  <2>0. Result(p, n) # -1
    BY <1>10
  <2>2. want' = [want EXCEPT ![fd] = "out"] /\ conn' = [conn EXCEPT ![fd] = d] /\ down' = "up"
    BY <1>1, <1>2, <1>10, <2>0, <2>1 DEF recv_cb
  <2>3. /\ Attends(p, r, "out", d)
        /\ its.frames /\ NoneLeft => Shakes(p, r, "out", d)
    BY <1>1, <1>3, <1>4, <1>5, <1>10, <2>1, AttendsReads
  <2>4. Said(p, r) /\ d \in Entries
    BY <2>3, AttendsSaid DEF Attends
  <2>5. WhatKills'
    BY <2>2 DEF WhatKills
  <2> QED
    BY <1>3, <1>6, <1>7, <1>8, <2>2, <2>3, <2>4, <2>5, ReactorTurn
<1> QED
  BY <1>7, <1>9, <1>10

\* The client is answered, or the server is killed.
LEMMA send_cb_Inv ==
  ASSUME ReactorInv, NEW fd \in Fds, send_cb(fd)
  PROVE  ReactorInv'
<1>1. SockInv /\ IsReactor /\ want[fd] = "out" /\ down = "up" /\ fd \in ready /\ conn \in [Fds -> Entries]
      /\ peer \in [Peers -> Records]
  BY DEF ReactorInv, ReactorTyped, send_cb, SockInv
<1>2. PICK p, c : p = Owner(fd) /\ c = conn[fd]
  OBVIOUS
<1>3. /\ p \in Peers /\ peer[p].st = "open" /\ peer[p].fd = fd /\ fd # 0 /\ Fine(p, peer[p])
      /\ Attends(p, peer[p], "out", c)
      /\ its.frames /\ NoneLeft => Shakes(p, peer[p], "out", c)
  BY <1>1, <1>2, WatchedIs
<1>4. c \in Entries
  BY <1>3 DEF Attends
<1>5. ~(its.frames /\ c.w = <<>>)
  BY <1>3 DEF Attends, Framing
<1>6. PICK d : d = [c EXCEPT !.status = IF c.status = 2 THEN 1 ELSE c.status]
  OBVIOUS
<1>7. /\ d \in Entries /\ d.r = c.r /\ d.w = c.w /\ d.status = IF c.status = 2 THEN 1 ELSE c.status
      /\ d.status # 2
  BY SMTT(30), <1>4, <1>6 DEF Entries
<1>8. PICK a : a = IF SendKills(peer[p]) THEN peer[p] ELSE Answered(peer[p], c.w)
  OBVIOUS
<1>9. /\ Attends(p, a, "in", d) /\ Fine(p, a) /\ a.st = "open" /\ a.fd = fd
      /\ its.frames /\ NoneLeft => Shakes(p, a, "in", d)
  BY <1>1, <1>3, <1>7, <1>8, AttendsAnswers
<1>10. /\ peer' = [peer EXCEPT ![p] = a] /\ want' = [want EXCEPT ![fd] = "in"] /\ ready' = ready \ {fd}
       /\ setup' = setup /\ queue' = queue
       /\ down' = IF SendKills(peer[p]) THEN "killed" ELSE "up"
  BY <1>1, <1>2, <1>5, <1>8 DEF send_cb
<1>11. conn' = [conn EXCEPT ![fd] = d]
  BY <1>1, <1>2, <1>6 DEF send_cb, Entries
<1>12. SockInv'
  <2>1. TurnsOf(p, a)
    BY <1>3, <1>9, <1>10 DEF TurnsOf
  <2> QED
    BY <1>1, <1>3, <1>9, <1>10, <2>1, OneTurn DEF Downs
<1>13. WhatKills'
  <2>1. SUFFICES ASSUME SendKills(peer[p]) PROVE WhatKills'
    BY <1>10 DEF WhatKills
  <2>2. peer'[p] = peer[p] /\ p \in Open' /\ its' = its /\ down' = "killed"
    BY <1>1, <1>3, <1>8, <1>10, <2>1 DEF Open, its, prog
  <2>3. peer[p].end \in {"finrst", "told"} /\ (Doomed(peer[p]) => Rcvd(peer[p]) >= 2)
    BY <1>3, <2>1 DEF SendKills, Attends
  <2>4. Doomed(peer[p]) => peer[p].sent >= 2
    <3>0. peer[p].sent \in Nat /\ Len(peer[p].box) \in Nat
      BY <1>3 DEF Fine, Records
    <3>1. PICK x \in Nat, y \in Nat : x = peer[p].sent /\ y = Len(peer[p].box)
      BY ONLY <3>0
    <3>2. x - y >= 2 => x >= 2
      OBVIOUS
    <3> QED
      BY <2>3, <3>1, <3>2 DEF Rcvd
  <2> QED
    BY <1>3, <2>2, <2>3, <2>4 DEF WhatKills, Doomed
<1>14. Said(p, a) /\ a \in Records
  BY <1>9, AttendsSaid DEF Fine
<1> QED
  BY <1>3, <1>7, <1>9, <1>10, <1>11, <1>12, <1>13, <1>14, ReactorTurn

\* Each step of a reactor and its clients keeps the invariant.
LEMMA ReactorNext_Inv == ReactorInv /\ [ReactorNext]_reactorVars => ReactorInv'
<1> SUFFICES ASSUME ReactorInv, [ReactorNext]_reactorVars PROVE ReactorInv'
  OBVIOUS
<1>1. CASE \E p \in Peers : ReactorClient(p)
  BY <1>1, ReactorClient_Inv
<1>2. CASE ReactorServer
  BY <1>2, MainLoop_Inv, accept_cb_Inv, Disconnect_Inv, recv_cb_Inv, send_cb_Inv DEF ReactorServer
<1>3. CASE UNCHANGED reactorVars
  <2>1. /\ setup' = setup /\ peer' = peer /\ queue' = queue /\ down' = down
        /\ want' = want /\ conn' = conn /\ ready' = ready
    BY <1>3 DEF reactorVars, sockVars
  <2>2. SockInv'
    BY <2>1 DEF ReactorInv, ReactorTyped, SockInv, Fine
  <2>3. its' = its
    BY <2>1 DEF its, prog
  <2>4. ReactorTyped'
    <3>1. UsedFds' = UsedFds
      BY <2>1 DEF UsedFds, Open
    <3>2. ReactorTyped
      BY DEF ReactorInv
    <3> QED
      BY ONLY <2>1, <2>2, <3>1, <3>2 DEF ReactorTyped, IsReactor, prog
  <2>5. \A q \in Peers : /\ (Readable(q) => Readable(q)') /\ (Said(q, peer[q]) => Said(q, peer[q])')
                         /\ (Unheard(peer[q]) => Unheard(peer[q])') /\ (ShakesWith(q) => ShakesWith(q)')
    BY SMTT(30), <2>1, <2>3 DEF Readable, Said, UnitsOf, Grows, Rises, Unheard, Rcvd, ShakesWith, Shakes
  <2>6. ASSUME NEW q \in Peers, AttendsTo(q) PROVE AttendsTo(q)'
    BY ONLY ZenonT(40), <2>1, <2>3, <2>6 DEF AttendsTo, Attends, Heard, Growing, Framing, Doomed, Rcvd, Grows, Rises, UnitsOf, Entries
  <2>7. WhatKills' /\ HangsUpOnFull'
    BY <2>1, <2>3 DEF ReactorInv, WhatKills, HangsUpOnFull, IsReactor, prog, Open
  <2>8. NoneLeft' = NoneLeft /\ (Fds \ UsedFds)' = Fds \ UsedFds
    BY <2>1 DEF NoneLeft, UsedFds, Open, Fds
  <2> QED
    BY <2>1, <2>3, <2>4, <2>5, <2>6, <2>7, <2>8 DEF ReactorInv
<1> QED
  BY <1>1, <1>2, <1>3 DEF ReactorNext

\* What the invariant promises.
LEMMA ReactorInvSound == ReactorInv => WebReactorSound
<1> SUFFICES ASSUME ReactorInv PROVE WebReactorSound
  OBVIOUS
<1>1. SockInv /\ IsReactor /\ peer \in [Peers -> Records] /\ conn \in [Fds -> Entries]
  BY DEF ReactorInv, ReactorTyped, SockInv
<1>2. ReactorTypeOK
  <2>1. SockTypeOK
    BY <1>1, SockInvTyped
  <2>2. \A fd \in Fds : conn[fd].r \in Seq(Peers \X Nat) /\ conn[fd].w \in Seq(Peers \X Nat)
    BY <1>1 DEF Entries
  <2> QED
    BY <1>1, <2>1, <2>2 DEF ReactorInv, ReactorTyped, ReactorTypeOK
<1>3. \A p \in Peers : Said(p, peer[p]) /\ DOMAIN peer[p].got = 1..Len(peer[p].got)
  BY <1>1 DEF ReactorInv, Records
<1>4. ReactorEchoes
  BY <1>3 DEF ReactorEchoes, Said, UnitsOf, Echoes
<1>5. GrowRepeats
  BY <1>3 DEF GrowRepeats, Said, Grows
<1>6. FramesInOrder
  BY <1>3 DEF FramesInOrder, Said, Rises
<1>7. HandshakeFirst
  <2>1. SUFFICES ASSUME its.frames, NEW p \in Peers, peer[p].got # <<>>, peer[p].got[1] # <<p, 0>>, NoneLeft
                 PROVE  FALSE
    BY DEF HandshakeFirst, NoneLeft
  <2>2. peer[p].st = "open"
    BY <1>1, <2>1 DEF ReactorInv, NoneLeft, Unheard, Records
  <2>3. ShakesWith(p)
    BY <2>1, <2>2 DEF ReactorInv
  <2> QED
    BY <2>1, <2>3 DEF ShakesWith, Shakes
<1> QED
  BY <1>2, <1>4, <1>5, <1>6, <1>7 DEF ReactorInv, WebReactorSound

\* Through every reuse of a descriptor a reactor sends each client its own units, and
\* what kills it, or ends a connection unasked, is what is said (reactor.c:67, 197;
\* websocket.c:265).
THEOREM ReactorsAreSound ==
  ReactorInit /\ IsReactor /\ [][ReactorNext]_reactorVars => []WebReactorSound
<1>1. ReactorInit /\ IsReactor => ReactorInv
  BY ReactorInit_Inv
<1>2. ReactorInv /\ [ReactorNext]_reactorVars => ReactorInv'
  BY ReactorNext_Inv
<1>3. ReactorInv => WebReactorSound
  BY ReactorInvSound
<1> QED
  BY <1>1, <1>2, <1>3, PTL

-----------------------------------------------------------------------------
(* The loops on select, poll and epoll *)

\* Of a client with record r and descriptor fd, when bs is what was reported and is to be
\* handled, es what epoll has still to report, it what io5 keeps for the descriptor.
ToRead(r) == r.box # <<>> \/ r.end # "no"
Tended(r, fd, bs, it) ==
  /\ fd \in bs => ToRead(r)
  /\ how.answer = "start" => Len(it) = Rcvd(r) /\ Len(it) <= setup.buf
Roused(r, fd, bs, es) ==
  ToRead(r) => fd \in bs \/ fd \in es \/ r.sent > (IF r.end = "no" THEN setup.buf ELSE 0)
TendsTo(p) == Tended(peer[p], peer[p].fd, batch, items[peer[p].fd])
Rouses(p) == Roused(peer[p], peer[p].fd, batch, edge)

\* As long as nobody has left, descriptors are used without a gap and all looked at.
Packed ==
  NoneLeft => \A fd \in UsedFds : /\ \A g \in Fds : g < fd => g \in UsedFds
                                  /\ how.ranged => fd <= maxfd

LoopTyped ==
  /\ IsLoop /\ SockInv
  /\ watch \subseteq Fds /\ maxfd \in {0} \cup Fds /\ batch \subseteq Fds \cup {Listener}
  /\ first \in Fds \cup {Listener} /\ edge \subseteq Fds
  /\ items \in [Fds -> Seq(Peers \X Nat)] /\ listening \in BOOLEAN
  /\ \A fd \in Fds : (fd \in watch <=> fd \in UsedFds) /\ (fd \in batch => fd \in UsedFds)

LoopInv ==
  /\ LoopTyped /\ Packed /\ ClosedOnRequest
  /\ \A p \in Peers :
       /\ peer[p].st \in {"off", "queued"} => Rcvd(peer[p]) = 0
       /\ how.answer = "came" => Heard(p, peer[p], <<>>)
       /\ peer[p].st = "open" => TendsTo(p)
       /\ peer[p].st = "open" /\ how.edged /\ down = "up" => Rouses(p)

\* What the loops have in common.
LEMMA HowIs ==
  ASSUME IsLoop
  PROVE  /\ how.edged \in BOOLEAN /\ how.ranged \in BOOLEAN /\ how.leaves \in BOOLEAN
         /\ how.strict \in BOOLEAN /\ how.first \in BOOLEAN /\ how.answer \in {"came", "start", "none"}
         /\ how.edged => ~how.ranged /\ ~how.leaves /\ ~how.first
         /\ ~how.strict => how.answer # "none"
<1> DEFINE Right(h) ==
             /\ h.edged \in BOOLEAN /\ h.ranged \in BOOLEAN /\ h.leaves \in BOOLEAN
             /\ h.strict \in BOOLEAN /\ h.first \in BOOLEAN /\ h.answer \in {"came", "start", "none"}
             /\ h.edged => ~h.ranged /\ ~h.leaves /\ ~h.first
             /\ ~h.strict => h.answer # "none"
<1>1. Right(SelectLoop) /\ Right(PollLoop) /\ Right(LevelLoop) /\ Right(NetworkIo)
  BY DEF SelectLoop, PollLoop, LevelLoop, NetworkIo
<1>2. Right(EdgeLoop) /\ Right(BufferLoop) /\ Right(FirstLoop) /\ Right(SinkLoop)
  BY DEF SelectLoop, PollLoop, LevelLoop, EdgeLoop, BufferLoop, FirstLoop, SinkLoop
<1> HIDE DEF Right
<1>3. how \in {SelectLoop, PollLoop, LevelLoop, NetworkIo, EdgeLoop, BufferLoop, FirstLoop, SinkLoop}
  BY DEF IsLoop, Loops, how, Loop
<1>4. Right(how)
  BY <1>1, <1>2, <1>3
<1> QED
  BY <1>4 DEF Right

\* The invariant of the loops holds at the start.
LEMMA LoopInit_Inv == LoopInit /\ IsLoop => LoopInv
<1> SUFFICES ASSUME LoopInit, IsLoop PROVE LoopInv
  OBVIOUS
<1>1. SockInv
  BY SockInit_Inv DEF LoopInit
<1>2. \A p \in Peers : peer[p] = NoBody
  BY DEF LoopInit, SockInit
<1>3. UsedFds = {}
  BY <1>2 DEF UsedFds, Open, NoBody
<1>4. <<>> \in Seq(Peers \X Nat)
  OBVIOUS
<1>5. LoopTyped
  BY <1>1, <1>3, <1>4 DEF LoopTyped, LoopInit
<1>6. Rcvd(NoBody) = 0 /\ \A p \in Peers : Heard(p, NoBody, <<>>)
  BY DEF NoBody, Rcvd, Heard
<1>7. ClosedOnRequest
  BY <1>2 DEF ClosedOnRequest, NoBody
<1>8. \A p \in Peers : peer[p].st = "off"
  BY <1>2 DEF NoBody
<1> QED
  BY <1>2, <1>3, <1>5, <1>6, <1>7, <1>8 DEF LoopInv, Packed

\* What is known of a descriptor whose turn it is: its owner has something to be read.
LEMMA TurnIs ==
  ASSUME LoopInv, NEW fd \in Fds, Turn(fd)
  PROVE  LET p == Owner(fd) IN
         /\ p \in Peers /\ peer[p].st = "open" /\ peer[p].fd = fd /\ fd # 0 /\ fd \in batch
         /\ Fine(p, peer[p]) /\ ToRead(peer[p]) /\ Tended(peer[p], fd, batch, items[fd])
<1>1. SockInv /\ fd \in batch /\ fd \in UsedFds
  BY DEF LoopInv, LoopTyped, Turn
<1>2. PICK p \in Peers : p = Owner(fd) /\ peer[p].st = "open" /\ peer[p].fd = fd
  BY <1>1, OwnerIs
<1>3. fd # 0 /\ Fine(p, peer[p])
  BY <1>1, <1>2, OwnerOf DEF SockInv
<1>4. Tended(peer[p], fd, batch, items[fd])
  BY <1>2 DEF LoopInv, TendsTo
<1> QED
  BY <1>1, <1>2, <1>3, <1>4 DEF Tended

\* The lowest descriptor that is free.
LEMMA LowestIs ==
  ASSUME SockInv, NEW p \in Peers, peer[p].st # "open"
  PROVE  \A g \in Fds \ UsedFds : LowestFree <= g
<1>1. Cardinality(Peers) \in Nat
  BY FS_CardinalityType, TeachAssumption
<1>2. LowestFree \in Fds \ UsedFds
  BY FreeIs
<1>3. Fds \ UsedFds \in SUBSET (1..Cardinality(Peers)) /\ Fds \ UsedFds # {}
  BY <1>2 DEF Fds
<1>4. \E fd \in Fds \ UsedFds : \A g \in Fds \ UsedFds : fd <= g
  BY ONLY <1>1, <1>3, LeastOf
<1> QED
  BY <1>4 DEF LowestFree

\* What a loop does with one client p and its descriptor fd keeps the invariant.
LEMMA LoopTurn ==
  ASSUME LoopInv, NEW p \in Peers, NEW fd \in Fds, NEW r \in Records, NEW it \in Seq(Peers \X Nat),
         SockInv', setup' = setup, peer' = [peer EXCEPT ![p] = r],
         peer[p].fd = fd \/ (peer[p].fd = 0 /\ fd \notin UsedFds), fd # 0, peer[p].st # "shut",
         (r.st = "open" /\ r.fd = fd) \/ r.st = "shut",
         watch' = IF r.st = "open" THEN watch \cup {fd} ELSE watch \ {fd},
         maxfd' \in {0} \cup Fds, first' = first, listening' = listening,
         items' = [items EXCEPT ![fd] = it], batch' \subseteq batch, fd \notin batch',
         edge' \subseteq edge \cup {fd}, edge \ {fd} \subseteq edge',
         how.edged => batch \ {fd, Listener} \subseteq batch', down' = "up" => down = "up",
         how.answer = "came" => Heard(p, r, <<>>),
         r.st = "open" => Tended(r, fd, batch', it),
         r.st = "open" /\ how.edged /\ down' = "up" => Roused(r, fd, batch', edge'),
         Packed', r.st = "shut" /\ r.end = "no" => how.answer = "start" /\ r.sent >= setup.buf
  PROVE  LoopInv'
<1>1. /\ SockInv /\ IsLoop /\ peer \in [Peers -> Records] /\ items \in [Fds -> Seq(Peers \X Nat)]
  BY DEF LoopInv, LoopTyped, SockInv
<1>2. /\ \A q \in Peers : peer'[q] = IF q = p THEN r ELSE peer[q]
      /\ \A g \in Fds : items'[g] = IF g = fd THEN it ELSE items[g]
  BY <1>1
<1>3. how' = how /\ prog' = prog /\ Fds' = Fds
  BY DEF how, prog, Fds
<1>4. /\ \A q \in Peers : q # p /\ peer[q].st = "open" => peer[q].fd # fd /\ peer[q].fd \in Fds
      /\ \A g \in Fds : g \in UsedFds' <=> IF g = fd THEN r.st = "open" ELSE g \in UsedFds
  BY <1>1, UsedTurn
<1>5. LoopTyped'
  <2>1. /\ watch' \subseteq Fds /\ batch' \subseteq Fds \cup {Listener} /\ edge' \subseteq Fds
        /\ items' \in [Fds -> Seq(Peers \X Nat)] /\ maxfd' \in {0} \cup Fds
        /\ first' \in Fds \cup {Listener} /\ listening' \in BOOLEAN
    BY <1>1 DEF LoopInv, LoopTyped
  <2>2. ASSUME NEW g \in Fds PROVE (g \in watch' <=> g \in UsedFds') /\ (g \in batch' => g \in UsedFds')
    BY <1>4 DEF LoopInv, LoopTyped
  <2> QED
    BY <1>1, <1>3, <2>1, <2>2 DEF LoopTyped, IsLoop
<1>6. ASSUME NEW q \in Peers, peer'[q].st \in {"off", "queued"} PROVE Rcvd(peer[q])' = 0
  BY <1>2, <1>6 DEF LoopInv, Rcvd
<1>7. ASSUME NEW q \in Peers, how.answer = "came" PROVE Heard(q, peer[q], <<>>)'
  <2>1. PICK x : x = peer'[q] /\ Heard(q, x, <<>>)
    BY <1>2, <1>7 DEF LoopInv
  <2> QED
    BY <2>1 DEF Heard
<1>8. ASSUME NEW q \in Peers, peer'[q].st = "open"
      PROVE  TendsTo(q)' /\ (how.edged /\ down' = "up" => Rouses(q)')
  <2>1. CASE q = p
    <3>1. r = peer'[q] /\ fd = peer'[q].fd /\ it = items'[peer'[q].fd] /\ r.st = "open"
      BY <1>2, <1>8, <2>1
    <3>2. TendsTo(q)'
      BY ONLY <1>3, <3>1, setup' = setup, r.st = "open" => Tended(r, fd, batch', it)
         DEF TendsTo, Tended, ToRead, Rcvd
    <3>3. how.edged /\ down' = "up" => Rouses(q)'
      BY <3>1 DEF Rouses, Roused, ToRead
    <3> QED
      BY <3>2, <3>3
  <2>2. CASE q # p
    <3>1. PICK x, g, j : x = peer[q] /\ g = peer[q].fd /\ j = items[peer[q].fd]
      OBVIOUS
    <3>2. /\ x.st = "open" /\ x = peer'[q] /\ g = peer'[q].fd /\ j = items'[peer'[q].fd]
          /\ g # fd /\ g \in Fds /\ g # Listener
      BY <1>2, <1>4, <1>8, <2>2, <3>1, FS_CardinalityType, TeachAssumption DEF Fds
    <3>3. Tended(x, g, batch, j) /\ (how.edged /\ down = "up" => Roused(x, g, batch, edge))
      BY <3>1, <3>2 DEF LoopInv, TendsTo, Rouses
    <3>4. Tended(x, g, batch', j)
      BY <3>3 DEF Tended
    <3>5. how.edged /\ down' = "up" => Roused(x, g, batch', edge')
      BY <3>2, <3>3 DEF Roused
    <3>6. TendsTo(q)'
      BY ONLY <1>3, <3>2, <3>4, setup' = setup DEF TendsTo, Tended, ToRead, Rcvd
    <3>7. how.edged /\ down' = "up" => Rouses(q)'
      BY <3>2, <3>5 DEF Rouses, Roused, ToRead
    <3> QED
      BY <3>6, <3>7
  <2> QED
    BY <2>1, <2>2
<1>9. ClosedOnRequest'
  <2>1. ASSUME NEW q \in Peers, peer'[q].st = "shut", peer'[q].end = "no"
        PROVE  how.answer = "start" /\ peer'[q].sent >= setup.buf
    BY <1>1, <1>2, <2>1 DEF LoopInv, ClosedOnRequest
  <2> QED
    BY <1>3, <2>1 DEF ClosedOnRequest
<1> QED
  BY <1>3, <1>5, <1>6, <1>7, <1>8, <1>9 DEF LoopInv

\* A step of a client.
LEMMA LoopClient_Inv ==
  ASSUME LoopInv, NEW p \in Peers, LoopClient(p)
  PROVE  LoopInv'
<1>1. SockInv /\ IsLoop /\ peer \in [Peers -> Records]
  BY DEF LoopInv, LoopTyped, SockInv
<1>2. Connect(p) \/ SendOrQuit(p)
  BY DEF LoopClient
<1>3. PICK r : /\ Fine(p, r) /\ peer' = [peer EXCEPT ![p] = r] /\ SockInv' /\ setup' = setup /\ down' = down
               /\ r.fd = peer[p].fd /\ r.got = peer[p].got
               /\ \/ /\ peer[p].st = "off" /\ r.st = "queued" /\ r.sent = peer[p].sent
                     /\ r.box = peer[p].box /\ r.end = peer[p].end
                  \/ /\ r.st = peer[p].st /\ peer[p].end = "no" /\ r.end = "no"
                     /\ r.sent = peer[p].sent + 1 /\ Len(r.box) = Len(peer[p].box) + 1
                     /\ peer[p].st \in {"queued", "open"}
                  \/ /\ r.st = peer[p].st /\ peer[p].end = "no" /\ r.end \in {"fin", "rst"}
                     /\ r.sent = peer[p].sent /\ r.box = peer[p].box
                     /\ peer[p].st \in {"queued", "open"}
  BY <1>1, <1>2, ClientDoes
<1>4. \A q \in Peers : peer'[q] = IF q = p THEN r ELSE peer[q]
  BY <1>1, <1>3
<1>5. /\ watch' = watch /\ maxfd' = maxfd /\ batch' = batch /\ first' = first /\ items' = items
      /\ listening' = listening /\ how' = how /\ prog' = prog /\ Fds' = Fds
  BY <1>3 DEF LoopClient, how, prog, Fds
<1>6. /\ edge \subseteq edge' /\ edge' \subseteq edge \cup Fds
      /\ peer[p].st = "open" => peer[p].fd \in edge'
  <2>1. CASE Connect(p) /\ edge' = edge
    BY <2>1 DEF Connect
  <2>2. CASE SendOrQuit(p) /\ edge' = IF p \in Open THEN edge \cup {peer[p].fd} ELSE edge
    BY <1>1, <2>2, OwnerOf DEF Open
  <2> QED
    BY <2>1, <2>2 DEF LoopClient
<1>7. Rcvd(r) = Rcvd(peer[p])
  <2>1. r \in Records /\ peer[p].sent \in Nat /\ Len(peer[p].box) \in Nat
    BY <1>1, <1>3 DEF Fine, Records
  <2>2. CASE r.sent = peer[p].sent /\ r.box = peer[p].box
    BY <2>1, <2>2 DEF Rcvd
  <2>3. CASE r.sent = peer[p].sent + 1 /\ Len(r.box) = Len(peer[p].box) + 1
    <3>1. \A x, y \in Nat : (x + 1) - (y + 1) = x - y
      OBVIOUS
    <3> QED
      BY <2>1, <2>3, <3>1 DEF Rcvd
  <2> QED
    BY <1>3, <2>1, <2>2, <2>3
<1>8. ToRead(peer[p]) => ToRead(r)
  <2>1. Len(peer[p].box) \in Nat /\ (r.box = <<>> => Len(r.box) = 0)
    BY <1>1 DEF Records
  <2> QED
    BY <1>3, <2>1 DEF ToRead
<1>9. \A q \in Peers : /\ peer'[q].st = "open" <=> peer[q].st = "open"
                       /\ peer'[q].st = "shut" <=> peer[q].st = "shut"
                       /\ peer'[q].fd = peer[q].fd
  BY <1>3, <1>4
<1>10. UsedFds' = UsedFds /\ NoneLeft' = NoneLeft
  BY <1>9 DEF UsedFds, Open, NoneLeft
<1>11. LoopTyped' /\ Packed'
  BY <1>3, <1>5, <1>6, <1>10 DEF LoopInv, LoopTyped, Packed, IsLoop
<1>12. ASSUME NEW q \in Peers, peer'[q].st \in {"off", "queued"} PROVE Rcvd(peer[q])' = 0
  <2>1. peer[q].st \in {"off", "queued"} /\ Rcvd(peer[q]) = 0
    BY <1>3, <1>4, <1>12 DEF LoopInv
  <2> QED
    BY <1>4, <1>7, <2>1 DEF Rcvd
<1>13. ASSUME NEW q \in Peers, how.answer = "came" PROVE Heard(q, peer[q], <<>>)'
  <2>1. Heard(q, peer[q], <<>>) /\ <<>> \in Seq(Peers \X Nat)
    BY <1>13 DEF LoopInv
  <2>2. Heard(q, peer'[q], <<>>)
    BY <1>1, <1>2, <2>1, ClientHeard
  <2> QED
    BY <2>2 DEF Heard
<1>14. ASSUME NEW q \in Peers, peer'[q].st = "open"
       PROVE  TendsTo(q)' /\ (how.edged /\ down' = "up" => Rouses(q)')
  <2>1. /\ peer[q].st = "open" /\ TendsTo(q) /\ (how.edged /\ down = "up" => Rouses(q))
    BY <1>9, <1>14 DEF LoopInv
  <2>2. CASE q = p
    <3>1. PICK g, j : g = peer'[q].fd /\ j = items'[peer'[q].fd] /\ g = peer[p].fd /\ j = items[peer[p].fd]
      BY <1>5, <1>9, <2>2
    <3>2. r = peer'[q] /\ Tended(r, g, batch', j)
      BY <1>4, <1>5, <1>7, <1>8, <2>1, <2>2, <3>1 DEF TendsTo, Tended
    <3>3. TendsTo(q)'
      BY ONLY <1>3, <1>5, <3>1, <3>2 DEF TendsTo, Tended, ToRead, Rcvd
    <3>4. Rouses(q)'
      BY <1>6, <2>1, <2>2, <3>1 DEF Rouses, Roused
    <3> QED
      BY <3>3, <3>4
  <2>3. CASE q # p
    <3>1. PICK x : x = peer[q] /\ x = peer'[q]
      BY <1>4, <2>3
    <3>2. TendsTo(q)'
      BY ONLY <1>3, <1>5, <2>1, <3>1 DEF TendsTo, Tended, ToRead, Rcvd
    <3>3. how.edged /\ down' = "up" => Rouses(q)'
      BY ONLY <1>3, <1>5, <1>6, <2>1, <3>1 DEF Rouses, Roused, ToRead
    <3> QED
      BY <3>2, <3>3
  <2> QED
    BY <2>2, <2>3
<1>15. ClosedOnRequest'
  <2>1. ASSUME NEW q \in Peers, peer'[q].st = "shut", peer'[q].end = "no"
        PROVE  how.answer = "start" /\ peer'[q].sent >= setup.buf
    <3>1. q # p /\ peer'[q] = peer[q]
      BY <1>3, <1>4, <2>1
    <3> QED
      BY <1>1, <2>1, <3>1 DEF LoopInv, ClosedOnRequest
  <2> QED
    BY <1>3, <1>5, <2>1 DEF ClosedOnRequest
<1> QED
  BY <1>5, <1>11, <1>12, <1>13, <1>14, <1>15 DEF LoopInv

\* select, poll or epoll_wait returns.
LEMMA Wait_Inv ==
  ASSUME LoopInv, Wait
  PROVE  LoopInv'
<1>1. /\ SockInv /\ IsLoop /\ setup' = setup /\ peer' = peer /\ queue' = queue /\ down' = down
      /\ watch' = watch /\ maxfd' = maxfd /\ items' = items /\ listening' = listening
      /\ batch = {} /\ batch' = Reported /\ edge' = edge \ Reported /\ first' \in Reported
  BY DEF Wait, sockVars, LoopInv, LoopTyped
<1>2. SockInv' /\ how' = how /\ prog' = prog /\ Fds' = Fds
  BY <1>1 DEF SockInv, Fine, how, prog, Fds
<1>3. /\ Reported \subseteq Fds \cup {Listener} /\ \A fd \in Fds : fd # Listener
      /\ \A fd \in Fds : fd \in Reported <=> /\ fd \in watch /\ Readable(Owner(fd))
                                             /\ how.edged => fd \in edge
                                             /\ how.ranged => fd <= maxfd
  <2>1. \A fd \in Fds : fd # Listener
    BY FS_CardinalityType, TeachAssumption DEF Fds
  <2>2. watch \subseteq Fds
    BY DEF LoopInv, LoopTyped
  <2> QED
    BY <2>1, <2>2 DEF Reported
<1>4. UsedFds' = UsedFds /\ NoneLeft' = NoneLeft
  BY <1>1 DEF UsedFds, Open, NoneLeft
<1>5. LoopTyped' /\ Packed' /\ ClosedOnRequest'
  BY <1>1, <1>2, <1>3, <1>4 DEF LoopInv, LoopTyped, Packed, ClosedOnRequest, IsLoop
<1>6. ASSUME NEW q \in Peers, peer[q].st = "open"
      PROVE  TendsTo(q)' /\ (how.edged /\ down' = "up" => Rouses(q)')
  <2>1. PICK x, g : x = peer[q] /\ g = peer[q].fd /\ x = peer'[q] /\ g = peer'[q].fd
    BY <1>1
  <2>2. g \in Fds /\ Owner(g) = q /\ g \in watch
    BY <1>1, <1>6, <2>1, OwnerOf DEF LoopInv, LoopTyped
  <2>3. (g \in Reported => ToRead(x)) /\ (ToRead(x) => Readable(Owner(g)))
    BY <1>3, <2>1, <2>2 DEF ToRead, Readable
  <2>4. TendsTo(q) /\ (how.edged /\ down = "up" => Rouses(q))
    BY <1>6 DEF LoopInv
  <2>5. TendsTo(q)'
    BY ONLY <1>1, <1>2, <2>1, <2>3, <2>4 DEF TendsTo, Tended, ToRead, Rcvd
  <2>6. ASSUME how.edged, down' = "up" PROVE Rouses(q)'
    <3>1. Roused(x, g, batch, edge) /\ (ToRead(x) /\ g \in edge => g \in Reported)
      <4>1. ~how.ranged
        BY <1>1, <2>6, HowIs
      <4> QED
        BY <1>1, <1>3, <2>1, <2>2, <2>3, <2>4, <2>6, <4>1 DEF Rouses
    <3>2. Roused(x, g, batch', edge')
      BY <1>1, <3>1 DEF Roused
    <3> QED
      BY ONLY <1>1, <2>1, <3>2 DEF Rouses, Roused, ToRead
  <2> QED
    BY <2>5, <2>6
<1>7. \A q \in Peers : /\ Rcvd(peer[q])' = Rcvd(peer[q])
                       /\ (Heard(q, peer[q], <<>>) => Heard(q, peer[q], <<>>)')
  BY <1>1 DEF Rcvd, Heard
<1> QED
  BY <1>1, <1>2, <1>5, <1>6, <1>7 DEF LoopInv

\* tcp_server.c closes its listener.
LEMMA CloseListener_Inv ==
  ASSUME LoopInv, CloseListener
  PROVE  LoopInv'
<1>1. /\ SockInv /\ IsLoop /\ setup' = setup /\ peer' = peer /\ queue' = queue /\ down' = down
      /\ watch' = watch /\ maxfd' = maxfd /\ items' = items /\ listening' = FALSE
      /\ batch' = {} /\ edge' = edge /\ first' = first /\ how.first
  BY DEF CloseListener, sockVars, LoopInv, LoopTyped
<1>2. SockInv' /\ how' = how /\ prog' = prog /\ Fds' = Fds
  BY <1>1 DEF SockInv, Fine, how, prog, Fds
<1>3. UsedFds' = UsedFds /\ NoneLeft' = NoneLeft
  BY <1>1 DEF UsedFds, Open, NoneLeft
<1>4. LoopTyped' /\ Packed' /\ ClosedOnRequest'
  BY <1>1, <1>2, <1>3 DEF LoopInv, LoopTyped, Packed, ClosedOnRequest, IsLoop
<1>5. ~how.edged
  BY <1>1, HowIs
<1>6. \A q \in Peers : /\ Rcvd(peer[q])' = Rcvd(peer[q]) /\ (TendsTo(q) => TendsTo(q)')
                       /\ (Heard(q, peer[q], <<>>) => Heard(q, peer[q], <<>>)')
  BY <1>1, <1>2 DEF Rcvd, Heard, TendsTo, Tended, ToRead
<1> QED
  BY <1>1, <1>2, <1>4, <1>5, <1>6 DEF LoopInv

\* A connection is accepted: it gets the lowest descriptor and an empty buffer.
LEMMA AcceptOne_Inv ==
  ASSUME LoopInv, NEW rest \in SUBSET batch, AcceptOne(rest), how.edged => batch \ {Listener} \subseteq rest
  PROVE  LoopInv'
<1>1. /\ SockInv /\ IsLoop /\ queue # <<>> /\ queue \in Seq(Peers) /\ down' = down /\ setup' = setup
      /\ first' = first /\ listening' = listening /\ peer \in [Peers -> Records]
  BY DEF LoopInv, LoopTyped, SockInv, AcceptOne
<1>2. PICK p \in Peers : p = Head(queue)
  BY <1>1
<1>3. peer[p].st = "queued"
  <2>1. Len(queue) >= 1 /\ p = queue[1]
    BY <1>1, <1>2
  <2> QED
    BY <1>1, <2>1 DEF SockInv
<1>4. PICK fd : fd = LowestFree /\ fd \in Fds /\ fd \notin UsedFds /\ fd # 0
                /\ \A g \in Fds \ UsedFds : fd <= g
  BY <1>1, <1>3, FreeIs, LowestIs
<1>5. PICK r : r = Accepted(p)
  OBVIOUS
<1>6. /\ Fine(p, r) /\ r.st = "open" /\ r.fd = fd /\ r.sent = peer[p].sent
      /\ r.box = peer[p].box /\ r.end = peer[p].end /\ r.got = peer[p].got
  BY <1>1, <1>3, <1>4, <1>5, AcceptedIs
<1>7. fd \notin batch /\ fd \notin watch
  BY <1>4 DEF LoopInv, LoopTyped
<1>8. /\ peer' = [peer EXCEPT ![p] = r] /\ queue' = Tail(queue) /\ watch' = watch \cup {fd}
      /\ maxfd' = IF how.ranged THEN fd ELSE maxfd
      /\ edge' = IF Readable(p) THEN edge \cup {fd} ELSE edge \ {fd}
      /\ items' = [items EXCEPT ![fd] = <<>>]
      /\ batch' = { x \in rest : how.ranged => x <= fd }
  BY <1>2, <1>4, <1>5 DEF AcceptOne
<1>9. SockInv'
  <2>1. TurnsOf(p, r)
    BY <1>1, <1>2, <1>4, <1>6, <1>8 DEF TurnsOf
  <2>2. down' \in Downs
    BY <1>1 DEF SockInv
  <2> QED
    BY <1>1, <1>6, <1>8, <2>1, <2>2, OneTurn
<1>10. Rcvd(r) = 0 /\ r \in Records /\ Rcvd(peer[p]) = 0
  BY <1>3, <1>6 DEF LoopInv, Rcvd, Fine
<1>11. how.answer = "came" => Heard(p, r, <<>>)
  BY <1>6 DEF LoopInv, Heard
<1>12. PICK it \in Seq(Peers \X Nat) : it = <<>> /\ Len(it) = 0
  <2>1. <<>> \in Seq(Peers \X Nat) /\ Len(<<>>) = 0
    OBVIOUS
  <2> QED
    BY <2>1
<1>13. setup.buf \in Nat
  BY <1>1, TeachAssumption DEF SockInv
<1>14. fd \notin batch' /\ batch' \subseteq batch
  BY <1>7, <1>8
<1>15. Tended(r, fd, batch', it)
  BY <1>10, <1>12, <1>13, <1>14 DEF Tended
<1>16. Roused(r, fd, batch', edge')
  BY <1>6, <1>8 DEF Roused, ToRead, Readable
<1>17. how.edged => batch \ {fd, Listener} \subseteq batch'
  BY <1>1, <1>8, HowIs
<1>18. Packed'
  <2>1. SUFFICES ASSUME NoneLeft'
                 PROVE  \A f \in UsedFds' : /\ \A g \in Fds : g < f => g \in UsedFds'
                                            /\ how.ranged => f <= maxfd'
    BY <1>1 DEF Packed, how, prog, Fds
  <2>2. NoneLeft
    BY <1>1, <1>3, <1>8, <2>1 DEF NoneLeft
  <2>3. \A g \in Fds : g \in UsedFds' <=> (g = fd \/ g \in UsedFds)
    <3>1. peer[p].fd = 0
      BY <1>1, <1>3 DEF SockInv, Fine
    <3> QED
      BY <1>1, <1>4, <1>6, <1>8, <3>1, UsedTurn
  <2>4. UsedFds' \subseteq Fds /\ \A g \in Fds : g \in Nat
    <3>1. \A q \in Peers : peer'[q].st = "open" => peer'[q].fd \in Fds
      BY <1>1, <1>4, <1>6, <1>8, OwnerOf
    <3> QED
      BY <3>1, FS_CardinalityType, TeachAssumption DEF UsedFds, Open, Fds
  <2>5. ASSUME NEW f \in UsedFds', NEW g \in Fds, g < f PROVE g \in UsedFds'
    <3>1. CASE f = fd
      <4>1. g \in UsedFds
        BY <1>4, <2>4, <2>5, <3>1
      <4> QED
        BY <2>3, <4>1
    <3>2. CASE f # fd
      <4>1. f \in UsedFds
        BY <2>3, <2>4, <3>2
      <4> QED
        BY <2>2, <2>3, <2>5, <4>1 DEF LoopInv, Packed
    <3> QED
      BY <3>1, <3>2
  <2>6. ASSUME NEW f \in UsedFds', how.ranged PROVE f <= maxfd'
    <3>1. maxfd' = fd /\ f \in Nat /\ fd \in Nat
      BY <1>4, <1>8, <2>4, <2>6
    <3>2. CASE f > fd
      <4>1. f \in UsedFds
        BY <2>3, <2>4, <3>1, <3>2
      <4>2. fd \in UsedFds
        BY <1>4, <2>2, <3>1, <3>2, <4>1 DEF LoopInv, Packed
      <4> QED
        BY <1>4, <4>2
    <3> QED
      BY <3>1, <3>2
  <2> QED
    BY <2>5, <2>6
<1>19. maxfd' \in {0} \cup Fds /\ edge' \subseteq edge \cup {fd} /\ edge \ {fd} \subseteq edge'
  BY <1>4, <1>8 DEF LoopInv, LoopTyped
<1>20. peer[p].fd = 0 /\ peer[p].st # "shut"
  BY <1>1, <1>3 DEF SockInv, Fine
<1>21. /\ LoopInv /\ p \in Peers /\ fd \in Fds /\ r \in Records /\ it \in Seq(Peers \X Nat)
       /\ SockInv' /\ setup' = setup /\ peer' = [peer EXCEPT ![p] = r]
       /\ watch' = IF r.st = "open" THEN watch \cup {fd} ELSE watch \ {fd}
       /\ items' = [items EXCEPT ![fd] = it] /\ batch' \subseteq batch /\ fd \notin batch'
  BY <1>1, <1>4, <1>6, <1>8, <1>9, <1>10, <1>12, <1>14
<1> QED
  BY ONLY <1>1, <1>4, <1>6, <1>11, <1>15, <1>16, <1>17, <1>18, <1>19, <1>20, <1>21, LoopTurn

\* What recv has room for: a buffer, of io5 what is left of it.
LEMMA RoomIs ==
  ASSUME LoopInv, NEW fd \in Fds, Turn(fd)
  PROVE  /\ Room(fd) \in Nat /\ setup.buf \in Nat \ {0}
         /\ how.answer # "start" => Room(fd) = setup.buf
         /\ how.answer = "start" => /\ Len(items[fd]) = Rcvd(peer[Owner(fd)])
                                    /\ Room(fd) + Len(items[fd]) = setup.buf
<1>1. setup.buf \in Nat \ {0} /\ items[fd] \in Seq(Peers \X Nat)
  BY TeachAssumption DEF LoopInv, LoopTyped, SockInv
<1>2. CASE how.answer = "start"
  <2>1. Len(items[fd]) \in Nat /\ Len(items[fd]) = Rcvd(peer[Owner(fd)]) /\ Len(items[fd]) <= setup.buf
    BY <1>1, <1>2, TurnIs DEF Tended
  <2> QED
    BY <1>1, <1>2, <2>1 DEF Room
<1>3. CASE how.answer # "start"
  BY <1>1, <1>3 DEF Room
<1> QED
  BY <1>2, <1>3

\* The numbers of what was received, of what is left and of what was sent.
LEMMA RcvdOn ==
  ASSUME SockInv, NEW p \in Peers, NEW n \in Nat
  PROVE  /\ Rcvd(peer[p]) \in Nat /\ Rcvd(Received(p, n)) = Rcvd(peer[p]) + Len(Taken(p, n))
         /\ peer[p].sent = Rcvd(peer[p]) + Len(peer[p].box)
         /\ Len(Received(p, n).box) = Len(peer[p].box) - Len(Taken(p, n))
<1>1. /\ peer[p].sent \in Nat /\ Len(peer[p].box) \in Nat /\ Len(peer[p].box) <= peer[p].sent
      /\ Len(Taken(p, n)) \in Nat
  <2>1. Fine(p, peer[p]) /\ Taken(p, n) \in Seq(Peers \X Nat)
    BY TakenIs DEF SockInv
  <2> QED
    BY <2>1 DEF Fine, Records
<1>2. PICK a \in Nat, b \in Nat, k \in Nat : a = peer[p].sent /\ b = Len(peer[p].box) /\ k = Len(Taken(p, n))
  BY ONLY <1>1
<1>3. Rcvd(peer[p]) = a - b /\ Rcvd(Received(p, n)) = a - (b - k) /\ b <= a /\ Len(Received(p, n).box) = b - k
  BY <1>1, <1>2, ReceivedIs DEF Rcvd
<1>4. b <= a => a - b \in Nat /\ a - (b - k) = (a - b) + k /\ a = (a - b) + b
  OBVIOUS
<1> QED
  BY <1>2, <1>3, <1>4

\* A connection is closed: its client has gone, or the buffer of io5 is full.
LEMMA Hangup_Inv ==
  ASSUME LoopInv, NEW fd \in Fds, Hangup(fd)
  PROVE  LoopInv'
<1>1. SockInv /\ IsLoop /\ Turn(fd) /\ down = "up" /\ items \in [Fds -> Seq(Peers \X Nat)]
  BY DEF LoopInv, LoopTyped, Hangup
<1>2. PICK p, n : p = Owner(fd) /\ n = Room(fd)
  OBVIOUS
<1>3. /\ p \in Peers /\ peer[p].st = "open" /\ peer[p].fd = fd /\ fd # 0 /\ Fine(p, peer[p])
      /\ ToRead(peer[p])
  BY <1>1, <1>2, TurnIs
<1>4. /\ n \in Nat /\ setup.buf \in Nat \ {0}
      /\ how.answer # "start" => n = setup.buf
      /\ how.answer = "start" => Rcvd(peer[p]) + n = setup.buf
  BY <1>1, <1>2, <1>3, RoomIs, RcvdOn
<1>5. PICK x : x = Received(p, n)
  OBVIOUS
<1>6. /\ Fine(p, x) /\ x.sent = peer[p].sent /\ x.got = peer[p].got
      /\ x.end = IF Result(p, n) = -1 THEN "told" ELSE peer[p].end
  BY <1>1, <1>3, <1>4, <1>5, ReceivedIs
<1>7. PICK r : r = Closed(x)
  OBVIOUS
<1>8. /\ Fine(p, r) /\ r.st = "shut" /\ r.fd = 0 /\ r.sent = x.sent /\ r.end = x.end /\ r.got = x.got
      /\ r.box = x.box /\ r \in Records
  <2>1. /\ Fine(p, r) /\ r.st = "shut" /\ r.fd = 0 /\ r.sent = x.sent /\ r.end = x.end /\ r.got = x.got
        /\ r.box = x.box
    BY <1>6, <1>7, ClosedIs
  <2> QED
    BY <2>1 DEF Fine
<1>9. /\ peer' = [peer EXCEPT ![p] = r] /\ watch' = watch \ {fd} /\ edge' = edge \ {fd}
      /\ batch' = Leaves \ {fd} /\ setup' = setup /\ queue' = queue /\ down' = down /\ maxfd' = maxfd
      /\ first' = first /\ items' = items /\ listening' = listening
      /\ Result(p, n) = 0 \/ Result(p, n) = -1
  BY <1>2, <1>5, <1>7 DEF Hangup
<1>10. SockInv'
  <2>1. TurnsOf(p, r)
    BY <1>3, <1>8, <1>9 DEF TurnsOf
  <2> QED
    BY <1>1, <1>3, <1>8, <1>9, <2>1, OneTurn DEF Downs
<1>11. how.answer = "came" => Heard(p, r, <<>>)
  <2>1. SUFFICES ASSUME how.answer = "came" PROVE Heard(p, r, <<>>)
    OBVIOUS
  <2>2. Heard(p, peer[p], <<>>)
    BY <1>3, <2>1 DEF LoopInv
  <2>3. Heard(p, x, Taken(p, n))
    BY <1>1, <1>3, <1>4, <1>5, <2>2, ReadsHeard
  <2>4. Taken(p, n) = <<>>
    BY <1>1, <1>3, <1>4, <1>9, TakenIs
  <2> QED
    BY <1>8, <2>3, <2>4 DEF Heard
<1>12. ASSUME r.end = "no" PROVE how.answer = "start" /\ r.sent >= setup.buf
  <2>1. Result(p, n) = 0 /\ peer[p].end = "no" /\ peer[p].box # <<>>
    BY <1>3, <1>6, <1>8, <1>9, <1>12 DEF ToRead
  <2>2. n = 0
    <3>1. Result(p, n) = 0 /\ n # 0 => peer[p].box = <<>>
      BY <1>1, <1>3, <1>4, TakenIs
    <3> QED
      BY <2>1, <3>1
  <2>3. Rcvd(peer[p]) \in Nat /\ peer[p].sent = Rcvd(peer[p]) + Len(peer[p].box)
    BY ONLY <1>1, <1>3, <1>4, RcvdOn
  <2>4. Len(peer[p].box) \in Nat
    BY <1>3 DEF Fine, Records
  <2>5. how.answer = "start" /\ Rcvd(peer[p]) = setup.buf
    BY <1>4, <2>2, <2>3
  <2> QED
    BY <1>6, <1>8, <2>3, <2>4, <2>5
<1>13. Packed'
  BY <1>3, <1>8, <1>9 DEF Packed, NoneLeft, SockInv, LoopInv, LoopTyped
<1>14. batch' \subseteq batch /\ fd \notin batch' /\ (how.edged => batch \ {fd, Listener} \subseteq batch')
  <2>1. how.edged => ~how.leaves
    BY <1>1, HowIs
  <2> QED
    BY <1>9, <2>1 DEF Leaves
<1>15. PICK it \in Seq(Peers \X Nat) : it = items[fd]
  BY <1>1
<1>16. /\ LoopInv /\ p \in Peers /\ fd \in Fds /\ r \in Records /\ it \in Seq(Peers \X Nat)
       /\ SockInv' /\ setup' = setup /\ peer' = [peer EXCEPT ![p] = r]
       /\ watch' = IF r.st = "open" THEN watch \cup {fd} ELSE watch \ {fd}
       /\ items' = [items EXCEPT ![fd] = it] /\ peer[p].fd = fd /\ fd # 0 /\ peer[p].st # "shut"
       /\ maxfd' \in {0} \cup Fds /\ first' = first /\ listening' = listening
       /\ edge' \subseteq edge \cup {fd} /\ edge \ {fd} \subseteq edge' /\ down' = down
  BY <1>1, <1>3, <1>8, <1>9, <1>10, <1>15 DEF LoopInv, LoopTyped
<1> QED
  BY ONLY <1>8, <1>11, <1>12, <1>13, <1>14, <1>16, LoopTurn

\* What came is answered, or the server is killed.
LEMMA Serve_Inv ==
  ASSUME LoopInv, NEW fd \in Fds, Serve(fd)
  PROVE  LoopInv'
<1>1. /\ SockInv /\ IsLoop /\ Turn(fd) /\ down = "up" /\ items \in [Fds -> Seq(Peers \X Nat)]
      /\ peer \in [Peers -> Records]
  BY DEF LoopInv, LoopTyped, Serve, SockInv
<1>2. PICK p, n : p = Owner(fd) /\ n = Room(fd)
  OBVIOUS
<1>3. /\ p \in Peers /\ peer[p].st = "open" /\ peer[p].fd = fd /\ fd # 0 /\ Fine(p, peer[p])
      /\ Tended(peer[p], fd, batch, items[fd])
  BY <1>1, <1>2, TurnIs
<1>4. /\ n \in Nat /\ setup.buf \in Nat \ {0}
      /\ how.answer # "start" => n = setup.buf
      /\ how.answer = "start" => Len(items[fd]) = Rcvd(peer[p]) /\ n + Len(items[fd]) = setup.buf
  BY <1>1, <1>2, RoomIs
<1>5. PICK x, t, s : x = Received(p, n) /\ t = Taken(p, n) /\ s = Reply(fd, p)
  OBVIOUS
<1>6. /\ Fine(p, x) /\ x.st = "open" /\ x.fd = fd /\ x.sent = peer[p].sent /\ x.got = peer[p].got
      /\ x.end = IF Result(p, n) = -1 THEN "told" ELSE peer[p].end
  BY <1>1, <1>3, <1>4, <1>5, ReceivedIs
<1>7. /\ t \in Seq(Peers \X Nat) /\ Len(t) \in Nat /\ Len(t) <= n /\ Len(t) <= Len(peer[p].box)
      /\ (Result(p, n) > 0 => t # <<>>)
  BY <1>1, <1>3, <1>4, <1>5, TakenIs
<1>8. s \in Seq(Peers \X Nat) /\ (how.answer = "came" => s = t)
  <2>1. how.answer = "none" => s = <<>>
    BY <1>5 DEF Reply
  <2>2. how.answer = "came" => s = t
    BY <1>2, <1>5 DEF Reply
  <2>3. how.answer = "start" => s \in Seq(Peers \X Nat)
    <3>1. SUFFICES ASSUME how.answer = "start" PROVE s \in Seq(Peers \X Nat)
      OBVIOUS
    <3>2. PICK w : w = items[fd] \o t
      OBVIOUS
    <3>3. w \in Seq(Peers \X Nat) /\ Len(w) = Len(items[fd]) + Len(t)
      BY <1>1, <1>7, <3>2, ConcatProperties
    <3>4. s = SubSeq(w, 1, Len(t)) /\ Len(items[fd]) \in Nat
      BY <1>1, <1>2, <1>5, <3>1, <3>2 DEF Reply
    <3>5. Len(t) \in 0..Len(w)
      BY <1>7, <3>3, <3>4
    <3> QED
      BY ONLY <3>3, <3>4, <3>5, RestOfSeq
  <2>4. <<>> \in Seq(Peers \X Nat)
    OBVIOUS
  <2> QED
    BY <1>1, <1>7, <2>1, <2>2, <2>3, <2>4, HowIs
<1>9. PICK r : r = IF how.answer = "none" \/ SendKills(x) THEN x ELSE Answered(x, s)
  OBVIOUS
<1>10. /\ Fine(p, r) /\ r.st = "open" /\ r.fd = fd /\ r.sent = x.sent /\ r.box = x.box /\ r \in Records
       /\ r.end = "no" <=> x.end = "no"
  <2>1. s \in Seq((Peers \cup {Listener}) \X Nat)
    <3>1. Len(s) \in Nat /\ \A i \in 1..Len(s) : s[i] \in (Peers \cup {Listener}) \X Nat
      BY <1>8
    <3> QED
      BY <1>8, <3>1
  <2>2. PICK y : y = Answered(x, s)
    OBVIOUS
  <2>3. /\ Fine(p, y) /\ y.st = x.st /\ y.fd = x.fd /\ y.sent = x.sent /\ y.box = x.box
        /\ (x.end = "no" <=> y.end = "no")
    BY <1>6, <2>1, <2>2, AnsweredIs
  <2> QED
    BY <1>6, <1>9, <2>2, <2>3 DEF Fine
<1>11. /\ peer' = [peer EXCEPT ![p] = r] /\ batch' = batch \ {fd} /\ setup' = setup /\ queue' = queue
       /\ watch' = watch /\ maxfd' = maxfd /\ first' = first /\ edge' = edge /\ listening' = listening
       /\ down' = IF how.answer # "none" /\ SendKills(x) THEN "killed" ELSE "up"
       /\ items' = IF how.answer = "start" THEN [items EXCEPT ![fd] = items[fd] \o t] ELSE items
       /\ Result(p, n) > 0 \/ (Result(p, n) = -1 /\ ~how.strict)
  <2>1. /\ batch' = batch \ {fd} /\ setup' = setup /\ queue' = queue
        /\ watch' = watch /\ maxfd' = maxfd /\ first' = first /\ edge' = edge /\ listening' = listening
        /\ Result(p, n) > 0 \/ (Result(p, n) = -1 /\ ~how.strict)
    BY <1>2 DEF Serve
  <2>2. /\ peer' = [peer EXCEPT ![p] = r]
        /\ down' = IF how.answer # "none" /\ SendKills(x) THEN "killed" ELSE "up"
    BY <1>1, <1>2, <1>5, <1>9 DEF Serve
  <2>3. items' = IF how.answer = "start" THEN [items EXCEPT ![fd] = items[fd] \o t] ELSE items
    BY <1>1, <1>2, <1>5 DEF Serve
  <2> QED
    BY <2>1, <2>2, <2>3
<1>12. SockInv'
  <2>1. TurnsOf(p, r)
    BY <1>3, <1>10, <1>11 DEF TurnsOf
  <2> QED
    BY <1>1, <1>3, <1>10, <1>11, <2>1, OneTurn DEF Downs
<1>13. how.answer = "came" => Heard(p, r, <<>>)
  <2>1. SUFFICES ASSUME how.answer = "came" PROVE Heard(p, r, <<>>)
    OBVIOUS
  <2>2. Heard(p, peer[p], <<>>)
    BY <1>3, <2>1 DEF LoopInv
  <2>3. Heard(p, x, t)
    BY <1>1, <1>3, <1>4, <1>5, <2>2, ReadsHeard
  <2>4. CASE SendKills(x)
    BY <1>9, <2>3, <2>4 DEF Heard, SendKills
  <2>5. CASE ~SendKills(x)
    BY <1>3, <1>6, <1>7, <1>8, <1>9, <2>1, <2>3, <2>5, AnswersHeard
  <2> QED
    BY <2>4, <2>5
<1>14. PICK it \in Seq(Peers \X Nat) :
          /\ items' = [items EXCEPT ![fd] = it]
          /\ how.answer = "start" => Len(it) = Len(items[fd]) + Len(t)
  <2>1. items[fd] \o t \in Seq(Peers \X Nat) /\ Len(items[fd] \o t) = Len(items[fd]) + Len(t)
    BY <1>1, <1>7, ConcatProperties
  <2>2. CASE how.answer = "start"
    BY <1>11, <2>1, <2>2
  <2>3. CASE how.answer # "start"
    BY <1>1, <1>11, <2>3
  <2> QED
    BY <2>2, <2>3
<1>15. Rcvd(r) = Rcvd(peer[p]) + Len(t) /\ Rcvd(peer[p]) \in Nat
       /\ peer[p].sent = Rcvd(peer[p]) + Len(peer[p].box) /\ Len(peer[p].box) \in Nat
       /\ Len(r.box) = Len(peer[p].box) - Len(t)
  <2>1. /\ Rcvd(peer[p]) \in Nat /\ Rcvd(Received(p, n)) = Rcvd(peer[p]) + Len(Taken(p, n))
        /\ peer[p].sent = Rcvd(peer[p]) + Len(peer[p].box)
        /\ Len(Received(p, n).box) = Len(peer[p].box) - Len(Taken(p, n))
    BY ONLY <1>1, <1>3, <1>4, RcvdOn
  <2>2. Rcvd(r) = Rcvd(x)
    BY <1>10 DEF Rcvd
  <2>3. Len(peer[p].box) \in Nat
    BY <1>3 DEF Fine, Records
  <2> QED
    BY <1>5, <1>10, <2>1, <2>2, <2>3
<1>16. Tended(r, fd, batch', it)
  <2>1. ASSUME how.answer = "start" PROVE Len(it) = Rcvd(r) /\ Len(it) <= setup.buf
    <3>1. Len(items[fd]) \in Nat
      BY <1>1
    <3> QED
      BY SMTT(30), <1>4, <1>7, <1>14, <1>15, <2>1, <3>1
  <2> QED
    BY <1>11, <2>1 DEF Tended
<1>17. ASSUME how.edged, down' = "up" PROVE Roused(r, fd, batch', edge')
  <2>1. Result(p, n) > 0
    <3>1. SUFFICES ASSUME Result(p, n) = -1, ~how.strict PROVE FALSE
      BY <1>11
    <3>2. how.answer # "none" /\ SendKills(x)
      BY <1>1, <1>6, <3>1, HowIs DEF SendKills
    <3> QED
      BY <1>11, <1>17, <3>2
  <2>2. Len(t) >= 1 /\ peer[p].sent >= 1
    BY <1>7, <1>15, <2>1
  <2>3. ASSUME r.end = "no", r.box # <<>> PROVE r.sent > setup.buf
    <3>1. Len(r.box) >= 1
      BY <1>10, <2>3 DEF Records
    <3>2. Len(t) = n
      <4>1. Len(t) = IF n < Len(peer[p].box) THEN n ELSE Len(peer[p].box)
        <5>1. PICK k : k = IF n < Len(peer[p].box) THEN n ELSE Len(peer[p].box)
          OBVIOUS
        <5>4. k \in 0..Len(peer[p].box)
          BY <1>4, <1>15, <5>1
        <5>5. t = SubSeq(peer[p].box, 1, k)
          BY <1>5, <5>1 DEF Taken
        <5>6. peer[p].box \in Seq(Peers \X Nat)
          BY <1>3 DEF Fine, Records
        <5>2. k \in 0..Len(peer[p].box) /\ t = SubSeq(peer[p].box, 1, k) /\ peer[p].box \in Seq(Peers \X Nat)
          BY ONLY <5>4, <5>5, <5>6
        <5>3. Len(t) = k
          BY ONLY <5>2, RestOfSeq
        <5> QED
          BY <5>1, <5>3
      <4> QED
        BY <1>4, <1>7, <1>15, <3>1, <4>1
    <3>3. peer[p].sent > Rcvd(peer[p]) + n
      BY <1>4, <1>15, <3>1, <3>2
    <3> QED
      BY SMTT(30), <1>4, <1>6, <1>10, <1>15, <3>3
  <2>4. r.sent >= 1 /\ r.sent \in Nat
    BY <1>6, <1>10, <2>2 DEF Records
  <2>5. r.end # "no" => r.sent > 0
    BY <2>4
  <2> QED
    BY <2>3, <2>5 DEF Roused, ToRead
<1>18. Packed'
  <2>1. UsedFds' = UsedFds
    <3>1. \A q \in Peers : (peer'[q].st = "open" <=> peer[q].st = "open") /\ peer'[q].fd = peer[q].fd
      BY <1>1, <1>3, <1>10, <1>11
    <3> QED
      BY <3>1 DEF UsedFds, Open
  <2>2. NoneLeft' => NoneLeft
    BY <1>1, <1>3, <1>10, <1>11 DEF NoneLeft
  <2> QED
    BY <1>11, <2>1, <2>2 DEF LoopInv, Packed, how, prog, Fds
<1>19. /\ LoopInv /\ p \in Peers /\ fd \in Fds /\ r \in Records /\ it \in Seq(Peers \X Nat)
       /\ SockInv' /\ setup' = setup /\ peer' = [peer EXCEPT ![p] = r] /\ r.st = "open" /\ r.fd = fd
       /\ watch' = IF r.st = "open" THEN watch \cup {fd} ELSE watch \ {fd}
       /\ items' = [items EXCEPT ![fd] = it] /\ peer[p].fd = fd /\ fd # 0 /\ peer[p].st # "shut"
       /\ maxfd' \in {0} \cup Fds /\ first' = first /\ listening' = listening
       /\ edge' \subseteq edge \cup {fd} /\ edge \ {fd} \subseteq edge' /\ (down' = "up" => down = "up")
       /\ batch' \subseteq batch /\ fd \notin batch' /\ (how.edged => batch \ {fd, Listener} \subseteq batch')
  <2>1. fd \in watch
    BY <1>1 DEF LoopInv, LoopTyped, Turn
  <2>2. watch' = watch \cup {fd}
    BY <1>11, <2>1
  <2> QED
    BY <1>1, <1>3, <1>10, <1>11, <1>12, <1>14, <2>2 DEF LoopInv, LoopTyped
<1> QED
  BY ONLY <1>13, <1>16, <1>17, <1>18, <1>19, LoopTurn

\* Each step of a loop and its clients keeps the invariant.
LEMMA LoopNext_Inv == LoopInv /\ [LoopNext]_loopVars => LoopInv'
<1> SUFFICES ASSUME LoopInv, [LoopNext]_loopVars PROVE LoopInv'
  OBVIOUS
<1>1. CASE \E p \in Peers : LoopClient(p)
  BY <1>1, LoopClient_Inv
<1>2. CASE Accept
  <2>1. batch \ {Listener} \in SUBSET batch /\ AcceptOne(batch \ {Listener})
    BY <1>2 DEF Accept
  <2> QED
    BY <2>1, AcceptOne_Inv
<1>3. CASE AcceptForClient
  <2>1. PICK x \in batch \ {Listener} : AcceptOne(batch \ {x})
    BY <1>3 DEF AcceptForClient
  <2>2. ~how.edged
    BY <1>3, HowIs DEF AcceptForClient, LoopInv, LoopTyped
  <2> QED
    BY <2>1, <2>2, AcceptOne_Inv
<1>4. CASE LoopServer
  BY <1>2, <1>3, <1>4, Wait_Inv, CloseListener_Inv, Hangup_Inv, Serve_Inv DEF LoopServer
<1>5. CASE UNCHANGED loopVars
  <2>1. /\ SockInv /\ setup' = setup /\ peer' = peer /\ queue' = queue /\ down' = down
        /\ watch' = watch /\ maxfd' = maxfd /\ items' = items /\ listening' = listening
        /\ batch' = batch /\ edge' = edge /\ first' = first
    BY <1>5 DEF loopVars, sockVars, LoopInv, LoopTyped
  <2>2. SockInv' /\ how' = how /\ prog' = prog /\ Fds' = Fds
    BY <2>1 DEF SockInv, Fine, how, prog, Fds
  <2>3. UsedFds' = UsedFds /\ NoneLeft' = NoneLeft
    BY <2>1 DEF UsedFds, Open, NoneLeft
  <2>4. LoopTyped' /\ Packed' /\ ClosedOnRequest'
    BY <2>1, <2>2, <2>3 DEF LoopInv, LoopTyped, Packed, ClosedOnRequest, IsLoop
  <2>5. \A q \in Peers : /\ Rcvd(peer[q])' = Rcvd(peer[q]) /\ (TendsTo(q) => TendsTo(q)')
                         /\ (Heard(q, peer[q], <<>>) => Heard(q, peer[q], <<>>)')
                         /\ (Rouses(q) => Rouses(q)')
    BY <2>1, <2>2 DEF Rcvd, Heard, TendsTo, Tended, ToRead, Rouses, Roused
  <2> QED
    BY <2>1, <2>2, <2>4, <2>5 DEF LoopInv
<1> QED
  BY <1>1, <1>4, <1>5 DEF LoopNext

\* What the invariant promises.
LEMMA LoopInvSound == LoopInv => LoopSound
<1> SUFFICES ASSUME LoopInv PROVE LoopSound
  OBVIOUS
<1>1. SockInv /\ IsLoop /\ ClosedOnRequest
  BY DEF LoopInv, LoopTyped
<1>2. LoopTypeOK
  BY <1>1, SockInvTyped DEF LoopInv, LoopTyped, LoopTypeOK
<1>3. LoopEchoes
  BY <1>1, HeardEchoes DEF LoopInv, LoopEchoes
<1>4. LookedAt
  <2>1. SUFFICES ASSUME NEW p \in Open, how.ranged, peer[p].fd > maxfd, NoneLeft PROVE FALSE
    BY DEF LookedAt, NoneLeft
  <2>2. peer[p].fd \in UsedFds /\ peer[p].fd \in Nat /\ maxfd \in Nat
    BY <1>1, OwnerOf, FS_CardinalityType, TeachAssumption DEF Open, LoopInv, LoopTyped, Fds
  <2>3. peer[p].fd <= maxfd
    BY <2>1, <2>2 DEF LoopInv, Packed
  <2> QED
    BY <2>1, <2>2, <2>3
<1>5. StallsOnMore
  <2>1. SUFFICES ASSUME NEW p \in Open, Stalled(p)
                 PROVE  peer[p].sent > (IF peer[p].end = "no" THEN setup.buf ELSE 0)
    BY DEF StallsOnMore
  <2>2. Rouses(p) /\ ToRead(peer[p]) /\ peer[p].fd \notin edge /\ peer[p].fd \notin batch
    BY <2>1 DEF LoopInv, Stalled, Open, Readable, ToRead
  <2> QED
    BY <2>2 DEF Rouses, Roused
<1> QED
  BY <1>1, <1>2, <1>3, <1>4, <1>5 DEF LoopSound

\* Through every reuse of a descriptor a loop that echoes sends each client its own units,
\* and one is overlooked, left with something unread or hung up on only for the reason its
\* program has (multi_io2_select.c:144, multi_io4_epoll.c:245).
THEOREM LoopsAreSound == LoopInit /\ IsLoop /\ [][LoopNext]_loopVars => []LoopSound
<1>1. LoopInit /\ IsLoop => LoopInv
  BY LoopInit_Inv
<1>2. LoopInv /\ [LoopNext]_loopVars => LoopInv'
  BY LoopNext_Inv
<1>3. LoopInv => LoopSound
  BY LoopInvSound
<1> QED
  BY <1>1, <1>2, <1>3, PTL

-----------------------------------------------------------------------------
(* The web server with a process per core *)

InEvent(p)  == [who |-> p, out |-> FALSE]
OutEvent(p) == [who |-> p, out |-> TRUE]
Arms   == {"", "once", "out", "level"}
CoreEvents == [who : Peers \cup {Listener}, out : BOOLEAN]
Cores  == [st : {"up", "ended", "killed"}, batch : SUBSET CoreEvents, total : Int]

\* The page is to be sent to client p, who is armed for a and has his events in b.
Owes(p, a, b) == a = "out" \/ OutEvent(p) \in b
One(cond) == IF cond THEN 1 ELSE 0

\* Client p with record r, armed for a, with its events in b: it is armed or in the batch,
\* never for both ways at once; each page that was sent, sent to nobody, or is owed was
\* paid for with a unit.
Held(p, r, a, b) ==
  /\ a # "" \/ InEvent(p) \in b \/ OutEvent(p) \in b
  /\ InEvent(p) \in b => a \in {"", "level"} /\ OutEvent(p) \notin b
  /\ OutEvent(p) \in b => a = ""
  /\ Len(r.got) + One(SendKills(r)) + One(Owes(p, a, b)) <= Rcvd(r)
Holds(p) == Held(p, peer[p], arm[p], core[server[p]].batch)

CoresTyped ==
  /\ SockInv /\ IsHttpEpoll
  /\ accept_mtx \in CoreSet \cup {NoCore} /\ server \in [Peers -> CoreSet \cup {NoCore}]
  /\ arm \in [Peers -> Arms] /\ core \in [CoreSet -> Cores]

CoresInv ==
  /\ CoresTyped /\ LockSurvives /\ WhatStopsCores /\ CountTooLow
  /\ \A p \in Peers :
       /\ peer[p].st \in {"off", "queued"} => Unheard(peer[p])
       /\ Len(peer[p].got) <= peer[p].sent
       /\ peer[p].st = "open" => server[p] \in CoreSet /\ core[server[p]].st = "up" /\ Holds(p)
  /\ \A q \in CoreSet : core[q].st = "up" =>
       \A e \in core[q].batch : e = ListenEvent \/ e.who \in OpenAt(q)

\* The invariant of the processes holds at the start.
LEMMA CoresInit_Inv == SockInit /\ HttpEpollInit /\ IsHttpEpoll => CoresInv
<1> SUFFICES ASSUME SockInit, HttpEpollInit, IsHttpEpoll PROVE CoresInv
  OBVIOUS
<1>1. SockInv
  BY SockInit_Inv
<1>2. \A p \in Peers : peer[p] = NoBody
  BY DEF SockInit
<1>3. CoresTyped
  <2>1. core = [q \in CoreSet |-> core[q]]
    BY Zenon DEF HttpEpollInit
  <2>2. \A q \in CoreSet : core[q] = [st |-> "up", batch |-> {}, total |-> 0]
    BY Zenon DEF HttpEpollInit
  <2>3. [st |-> "up", batch |-> {}, total |-> 0] \in Cores
    BY DEF Cores
  <2>4. core \in [CoreSet -> Cores]
    BY <2>1, <2>2, <2>3
  <2>5. /\ accept_mtx = NoCore /\ server = [p \in Peers |-> NoCore] /\ arm = [p \in Peers |-> ""]
    BY Zenon DEF HttpEpollInit
  <2> QED
    BY <1>1, <2>4, <2>5 DEF CoresTyped, Arms
<1>4. LockSurvives
  BY DEF LockSurvives, HttpEpollInit
<1>5. WhatStopsCores
  BY DEF WhatStopsCores, HttpEpollInit
<1>6. \A q \in CoreSet : OpenAt(q) = {}
  BY <1>2 DEF OpenAt, Open, NoBody
<1>7. CountTooLow
  <2>1. Cardinality({}) = 0
    BY FS_EmptySet
  <2>2. \A p \in Peers : peer[p].got = <<>>
    BY <1>2 DEF NoBody
  <2>3. \A q \in CoreSet : core[q].total = 0
    BY Zenon DEF HttpEpollInit
  <2>4. \A q \in CoreSet : Cardinality(OpenAt(q)) = 0
    BY <1>6, <2>1
  <2> QED
    BY <2>2, <2>3, <2>4 DEF CountTooLow
<1>8. NoBody.st = "off" /\ Unheard(NoBody) /\ Len(NoBody.got) <= NoBody.sent
  BY DEF NoBody, Unheard, Rcvd
<1>9. \A q \in CoreSet : core[q].batch = {}
  BY DEF HttpEpollInit
<1> QED
  BY <1>2, <1>3, <1>4, <1>5, <1>7, <1>8, <1>9 DEF CoresInv

\* The clients of a process are finitely many.
LEMMA OpenAtIs ==
  ASSUME NEW q
  PROVE  IsFiniteSet(OpenAt(q)) /\ Cardinality(OpenAt(q)) \in Nat
<1>1. OpenAt(q) \subseteq Peers /\ IsFiniteSet(Peers)
  BY TeachAssumption DEF OpenAt, Open
<1> QED
  BY <1>1, FS_Subset, FS_CardinalityType

\* What a process does with one client p keeps the invariant.
LEMMA CoreTurn ==
  ASSUME CoresInv, NEW q \in CoreSet, core[q].st = "up", NEW p \in Peers, NEW r \in Records,
         NEW a \in Arms, NEW b \in SUBSET core[q].batch, NEW k \in Int,
         SockInv', setup' = setup, peer' = [peer EXCEPT ![p] = r], arm' = [arm EXCEPT ![p] = a],
         server' = [server EXCEPT ![p] = q],
         core' = [core EXCEPT ![q] = [core[q] EXCEPT !.batch = b, !.total = k]],
         accept_mtx' = NoCore \/ (accept_mtx' = accept_mtx /\ accept_mtx # q),
         (peer[p].st = "open" /\ server[p] = q) \/ peer[p].st = "queued", r.st \in {"open", "shut"},
         \A e \in core[q].batch : e \in b \/ e = ListenEvent \/ e.who = p,
         \A e \in b : e.who # p,
         r.st = "open" => Held(p, r, a, b), Len(r.got) <= r.sent,
         k <= Cardinality(OpenAt(q)'),
         (\E x \in Peers : server'[x] = q /\ peer'[x].got # <<>>) => k < Cardinality(OpenAt(q)')
  PROVE  CoresInv'
<1>1. /\ SockInv /\ IsHttpEpoll /\ peer \in [Peers -> Records] /\ server \in [Peers -> CoreSet \cup {NoCore}]
      /\ arm \in [Peers -> Arms] /\ core \in [CoreSet -> Cores]
  BY DEF CoresInv, CoresTyped, SockInv
<1>2. /\ \A x \in Peers : /\ peer'[x] = IF x = p THEN r ELSE peer[x]
                          /\ server'[x] = IF x = p THEN q ELSE server[x]
                          /\ arm'[x] = IF x = p THEN a ELSE arm[x]
      /\ \A c \in CoreSet : core'[c] = IF c = q THEN [core[q] EXCEPT !.batch = b, !.total = k] ELSE core[c]
  BY <1>1
<1>3. core'[q].st = "up" /\ core'[q].batch = b /\ core'[q].total = k /\ core'[q] \in Cores
  BY <1>1, <1>2 DEF Cores
<1>4. CoresTyped'
  <2>1. IsHttpEpoll' /\ Fds' = Fds
    BY <1>1 DEF IsHttpEpoll, prog, Fds
  <2>2. core' \in [CoreSet -> Cores] /\ arm' \in [Peers -> Arms] /\ server' \in [Peers -> CoreSet \cup {NoCore}]
    BY <1>1, <1>2, <1>3
  <2>3. accept_mtx' \in CoreSet \cup {NoCore}
    BY DEF CoresInv, CoresTyped
  <2> QED
    BY <2>1, <2>2, <2>3 DEF CoresTyped
<1>5. LockSurvives'
  <2>1. SUFFICES ASSUME accept_mtx' # NoCore
                 PROVE  core'[accept_mtx].st = "up" /\ ListenEvent \in core'[accept_mtx].batch
    BY DEF LockSurvives, ListenEvent
  <2>2. accept_mtx \in CoreSet /\ accept_mtx # q /\ accept_mtx # NoCore
    BY <2>1 DEF CoresInv, CoresTyped
  <2> QED
    BY <1>2, <2>2 DEF CoresInv, LockSurvives
<1>6. \A c \in CoreSet \ {q} : OpenAt(c)' = OpenAt(c)
  <2>1. ASSUME NEW c \in CoreSet \ {q}, NEW x \in Peers
        PROVE  (peer'[x].st = "open" /\ server'[x] = c) <=> (peer[x].st = "open" /\ server[x] = c)
    BY <1>2
  <2> QED
    BY <2>1 DEF OpenAt, Open
<1>7. WhatStopsCores'
  <2>1. SUFFICES ASSUME NEW c \in CoreSet, c # q, core[c].st # "up"
                 PROVE  /\ core[c].st = "killed" =>
                             \E x \in Peers : server'[x] = c /\ peer'[x].end \in {"finrst", "told"} /\ peer'[x].sent >= 2
                        /\ core[c].st = "ended" =>
                             Cardinality({ x \in Peers : server'[x] = c /\ peer'[x].st = "shut" }) >= setup.limit
    BY <1>2, <1>3 DEF WhatStopsCores
  <2>2. ASSUME core[c].st = "killed"
        PROVE  \E x \in Peers : server'[x] = c /\ peer'[x].end \in {"finrst", "told"} /\ peer'[x].sent >= 2
    <3>1. PICK x \in Peers : server[x] = c /\ peer[x].end \in {"finrst", "told"} /\ peer[x].sent >= 2
      BY <1>1, <2>2 DEF CoresInv, WhatStopsCores
    <3>2. x # p
      BY <2>1, <3>1 DEF CoresInv, Unheard
    <3> QED
      BY <1>2, <3>1, <3>2
  <2>3. { x \in Peers : server'[x] = c /\ peer'[x].st = "shut" }
          = { x \in Peers : server[x] = c /\ peer[x].st = "shut" }
    BY <1>2, <2>1
  <2> QED
    BY <1>1, <2>2, <2>3 DEF CoresInv, WhatStopsCores
<1>8. CountTooLow'
  <2>1. ASSUME NEW c \in CoreSet, core'[c].st = "up"
        PROVE  /\ core'[c].total <= Cardinality(OpenAt(c)')
               /\ (\E x \in Peers : server'[x] = c /\ peer'[x].got # <<>>) => core'[c].total < Cardinality(OpenAt(c)')
    <3>1. CASE c = q
      BY <1>3, <3>1
    <3>2. CASE c # q
      <4>1. /\ core[c].total <= Cardinality(OpenAt(c))
            /\ (\E x \in Peers : server[x] = c /\ peer[x].got # <<>>) => core[c].total < Cardinality(OpenAt(c))
        BY <1>1, <1>2, <2>1, <3>2 DEF CoresInv, CountTooLow
      <4>2. \A x \in Peers : server'[x] = c => server[x] = c /\ peer'[x] = peer[x]
        BY <1>2, <3>2
      <4> QED
        BY <1>2, <1>6, <3>2, <4>1, <4>2
    <3> QED
      BY <3>1, <3>2
  <2> QED
    BY <2>1 DEF CountTooLow
<1>9. ASSUME NEW x \in Peers
      PROVE  /\ peer'[x].st \in {"off", "queued"} => Unheard(peer[x])'
             /\ Len(peer'[x].got) <= peer'[x].sent
  BY <1>2 DEF CoresInv, Unheard, Rcvd
<1>10. ASSUME NEW x \in Peers, peer'[x].st = "open"
       PROVE  server'[x] \in CoreSet /\ core'[server'[x]].st = "up" /\ Holds(x)'
  <2>1. CASE x = p
    <3>1. r = peer'[x] /\ a = arm'[x] /\ b = core'[server'[x]].batch /\ Held(x, r, a, b)
      BY <1>2, <1>3, <1>10, <2>1
    <3>2. Holds(x)'
      BY ONLY <3>1 DEF Holds, Held, Owes, One, Rcvd, SendKills, InEvent, OutEvent
    <3> QED
      BY <1>2, <1>3, <2>1, <3>2
  <2>2. CASE x # p
    <3>1. peer'[x] = peer[x] /\ server'[x] = server[x] /\ arm'[x] = arm[x] /\ peer[x].st = "open"
      BY <1>2, <1>10, <2>2
    <3>2. server[x] \in CoreSet /\ core[server[x]].st = "up" /\ Holds(x)
      BY <3>1 DEF CoresInv
    <3>3. PICK y, z, bs, c : y = peer[x] /\ z = arm[x] /\ bs = core[server[x]].batch /\ c = core'[server'[x]].batch
      OBVIOUS
    <3>4. InEvent(x) \in c <=> InEvent(x) \in bs
      <4>1. InEvent(x).who = x /\ InEvent(x) # ListenEvent
        BY TeachAssumption DEF InEvent, ListenEvent
      <4> QED
        BY <1>2, <1>3, <2>2, <3>1, <3>2, <3>3, <4>1
    <3>5. OutEvent(x) \in c <=> OutEvent(x) \in bs
      <4>1. OutEvent(x).who = x /\ OutEvent(x) # ListenEvent
        BY TeachAssumption DEF OutEvent, ListenEvent
      <4> QED
        BY <1>2, <1>3, <2>2, <3>1, <3>2, <3>3, <4>1
    <3>6. Held(x, y, z, bs)
      BY <3>2, <3>3 DEF Holds
    <3>7. Held(x, y, z, c)
      BY ONLY <3>4, <3>5, <3>6 DEF Held, Owes
    <3>8. y = peer'[x] /\ z = arm'[x] /\ c = core'[server'[x]].batch
      BY <3>1, <3>3
    <3>9. Holds(x)'
      BY ONLY <3>7, <3>8 DEF Holds, Held, Owes, One, Rcvd, SendKills, InEvent, OutEvent
    <3> QED
      BY <1>2, <1>3, <3>1, <3>2, <3>9
  <2> QED
    BY <2>1, <2>2
<1>11. ASSUME NEW c \in CoreSet, core'[c].st = "up", NEW e \in core'[c].batch
       PROVE  e = ListenEvent \/ e.who \in OpenAt(c)'
  <2>1. CASE c # q
    BY <1>2, <1>6, <1>11, <2>1 DEF CoresInv
  <2>2. CASE c = q
    <3>1. e \in b /\ e \in core[q].batch /\ e.who # p
      BY <1>3, <1>11, <2>2
    <3>2. e = ListenEvent \/ e.who \in OpenAt(q)
      BY <3>1 DEF CoresInv
    <3> QED
      BY <1>2, <2>2, <3>1, <3>2 DEF OpenAt, Open
  <2> QED
    BY <2>1, <2>2
<1> QED
  BY <1>4, <1>5, <1>7, <1>8, <1>9, <1>10, <1>11 DEF CoresInv, ListenEvent

\* Taking one client in or out of a process changes the number of its clients by one.
LEMMA TurnCounts ==
  ASSUME NEW q, NEW p \in Peers, NEW r, peer \in [Peers -> Records], server \in [Peers -> CoreSet \cup {NoCore}],
         peer' = [peer EXCEPT ![p] = r], server' = [server EXCEPT ![p] = q]
  PROVE  /\ peer[p].st = "open" /\ server[p] = q /\ r.st = "open" => Cardinality(OpenAt(q)') = Cardinality(OpenAt(q))
         /\ peer[p].st = "open" /\ server[p] = q /\ r.st # "open" => Cardinality(OpenAt(q)') = Cardinality(OpenAt(q)) - 1
         /\ peer[p].st # "open" /\ r.st = "open" => Cardinality(OpenAt(q)') = Cardinality(OpenAt(q)) + 1
<1>1. \A x \in Peers : /\ peer'[x] = IF x = p THEN r ELSE peer[x]
                       /\ server'[x] = IF x = p THEN q ELSE server[x]
  OBVIOUS
<1>2. \A x : x \in OpenAt(q) <=> x \in Peers /\ peer[x].st = "open" /\ server[x] = q
  BY DEF OpenAt, Open
<1>3. \A x : x \in OpenAt(q)' <=> x \in Peers /\ peer'[x].st = "open" /\ server'[x] = q
  BY DEF OpenAt, Open
<1>4. IsFiniteSet(OpenAt(q)) /\ Cardinality(OpenAt(q)) \in Nat
  BY OpenAtIs
<1>5. ASSUME peer[p].st = "open", server[p] = q, r.st = "open" PROVE OpenAt(q)' = OpenAt(q)
  BY <1>1, <1>2, <1>3, <1>5
<1>6. ASSUME peer[p].st = "open", server[p] = q, r.st # "open"
      PROVE  Cardinality(OpenAt(q)') = Cardinality(OpenAt(q)) - 1
  <2>1. OpenAt(q)' = OpenAt(q) \ {p} /\ p \in OpenAt(q)
    BY <1>1, <1>2, <1>3, <1>6
  <2> QED
    BY <1>4, <2>1, FS_RemoveElement
<1>7. ASSUME peer[p].st # "open", r.st = "open"
      PROVE  Cardinality(OpenAt(q)') = Cardinality(OpenAt(q)) + 1
  <2>1. OpenAt(q)' = OpenAt(q) \cup {p} /\ p \notin OpenAt(q)
    BY <1>1, <1>2, <1>3, <1>7
  <2> QED
    BY <1>4, <2>1, FS_AddElement
<1> QED
  BY <1>5, <1>6, <1>7

\* An event in the batch of a process says what its client is armed for, and owes.
LEMMA EventIs ==
  ASSUME CoresInv, NEW q \in CoreSet, NEW p \in Peers, NEW out \in BOOLEAN, Turns(q, p, out)
  PROVE  /\ core[q].st = "up" /\ accept_mtx # q /\ peer[p].st = "open" /\ server[p] = q
         /\ Held(p, peer[p], arm[p], core[q].batch)
         /\ [who |-> p, out |-> out] \in core[q].batch
<1>1. core[q].st = "up" /\ accept_mtx # q /\ [who |-> p, out |-> out] \in core[q].batch
  BY DEF Turns, Up
<1>2. [who |-> p, out |-> out].who = p /\ p # Listener
  BY TeachAssumption
<1>3. [who |-> p, out |-> out] # ListenEvent
  BY <1>2 DEF ListenEvent
<1>4. p \in OpenAt(q)
  BY <1>1, <1>2, <1>3 DEF CoresInv
<1>5. peer[p].st = "open" /\ server[p] = q
  BY <1>4 DEF OpenAt, Open
<1>6. Held(p, peer[p], arm[p], core[q].batch)
  BY <1>5 DEF CoresInv, Holds
<1> QED
  BY <1>1, <1>5, <1>6

\* CoreEvents of one client are not the listener's.
LEMMA EventsDiffer ==
  ASSUME NEW p \in Peers
  PROVE  /\ InEvent(p) # ListenEvent /\ OutEvent(p) # ListenEvent /\ InEvent(p) # OutEvent(p)
         /\ InEvent(p).who = p /\ OutEvent(p).who = p /\ ListenEvent.who = Listener
         /\ InEvent(p) \in CoreEvents /\ OutEvent(p) \in CoreEvents /\ ListenEvent \in CoreEvents
BY TeachAssumption DEF InEvent, OutEvent, ListenEvent, CoreEvents

\* Without its events, a client holds what it is armed for.
LEMMA HeldArmed ==
  ASSUME NEW p \in Peers, NEW r, NEW a \in {"once", "out", "level"}, NEW b, \A e \in b : e.who # p,
         Len(r.got) \in Nat, Rcvd(r) \in Int,
         Len(r.got) + One(SendKills(r)) + One(a = "out") <= Rcvd(r)
  PROVE  Held(p, r, a, b)
<1>1. InEvent(p) \notin b /\ OutEvent(p) \notin b
  BY EventsDiffer
<1> QED
  BY <1>1 DEF Held, Owes, One

\* A step of a client keeps the invariant of the processes.
LEMMA HttpEpollClient_Inv ==
  ASSUME CoresInv, NEW p \in Peers, HttpEpollClient(p)
  PROVE  CoresInv'
<1>1. SockInv /\ IsHttpEpoll /\ peer \in [Peers -> Records] /\ \A q \in Peers : peer[q].end \in Ends
  BY DEF CoresInv, CoresTyped, SockInv, Records
<1>2. Connect(p) \/ SendOrQuit(p)
  BY DEF HttpEpollClient
<1>3. PICK r : /\ Fine(p, r) /\ peer' = [peer EXCEPT ![p] = r] /\ SockInv' /\ setup' = setup /\ down' = down
               /\ r.fd = peer[p].fd /\ r.got = peer[p].got
               /\ \/ /\ peer[p].st = "off" /\ r.st = "queued" /\ r.sent = peer[p].sent
                     /\ r.box = peer[p].box /\ r.end = peer[p].end
                  \/ /\ r.st = peer[p].st /\ peer[p].end = "no" /\ r.end = "no"
                     /\ r.sent = peer[p].sent + 1 /\ Len(r.box) = Len(peer[p].box) + 1
                  \/ /\ r.st = peer[p].st /\ peer[p].end = "no" /\ r.end \in {"fin", "rst"}
                     /\ r.sent = peer[p].sent /\ r.box = peer[p].box
  BY <1>1, <1>2, ClientDoes
<1>4. \A q \in Peers : peer'[q] = IF q = p THEN r ELSE peer[q]
  BY <1>1, <1>3
<1>5. core' = core /\ accept_mtx' = accept_mtx /\ server' = server /\ arm' = arm
  BY DEF HttpEpollClient
<1>6. r \in Records /\ Rcvd(r) = Rcvd(peer[p]) /\ r.sent >= peer[p].sent /\ (SendKills(r) <=> SendKills(peer[p]))
  <2>1. r \in Records /\ peer[p].sent \in Nat /\ Len(peer[p].box) \in Nat
    BY <1>1, <1>3 DEF Fine, Records
  <2>2. SendKills(r) <=> SendKills(peer[p])
    BY <1>3 DEF SendKills
  <2>3. CASE r.sent = peer[p].sent /\ r.box = peer[p].box
    BY <2>1, <2>2, <2>3 DEF Rcvd
  <2>4. CASE r.sent = peer[p].sent + 1 /\ Len(r.box) = Len(peer[p].box) + 1
    <3>1. \A x, y \in Nat : (x + 1) - (y + 1) = x - y /\ x + 1 >= x
      OBVIOUS
    <3> QED
      BY <2>1, <2>2, <2>4, <3>1 DEF Rcvd
  <2> QED
    BY <1>3, <2>1, <2>3, <2>4
<1>7. \A q \in Peers : /\ peer'[q].st = "open" <=> peer[q].st = "open"
                       /\ peer'[q].st = "shut" <=> peer[q].st = "shut"
                       /\ peer'[q].st \in {"off", "queued"} => peer[q].st \in {"off", "queued"}
                       /\ peer'[q].got = peer[q].got /\ Rcvd(peer'[q]) = Rcvd(peer[q])
                       /\ (SendKills(peer'[q]) <=> SendKills(peer[q])) /\ peer'[q].sent >= peer[q].sent
                       /\ peer'[q].sent \in Nat /\ peer[q].sent \in Nat /\ Len(peer[q].got) \in Nat
                       /\ (peer[q].end \in {"no", "fin", "rst"} => peer'[q].end \in {"no", "fin", "rst"})
  <2>1. \A q \in Peers : peer[q].sent \in Nat /\ Len(peer[q].got) \in Nat
    BY <1>1 DEF Records
  <2>2. \A x \in Nat : x >= x
    OBVIOUS
  <2>3. r.sent \in Nat
    BY <1>6 DEF Records
  <2> QED
    BY <1>3, <1>4, <1>6, <2>1, <2>2, <2>3
<1>8. \A q : OpenAt(q)' = OpenAt(q)
  BY <1>5, <1>7 DEF OpenAt, Open
<1>9. CoresTyped'
  BY <1>3, <1>5 DEF CoresInv, CoresTyped, IsHttpEpoll, prog
<1>10. LockSurvives'
  BY <1>5 DEF CoresInv, LockSurvives
<1>11. WhatStopsCores'
  <2>1. SUFFICES ASSUME NEW c \in CoreSet
                 PROVE  /\ core[c].st = "killed" =>
                             \E x \in Peers : server[x] = c /\ peer'[x].end \in {"finrst", "told"} /\ peer'[x].sent >= 2
                        /\ core[c].st = "ended" =>
                             Cardinality({ x \in Peers : server[x] = c /\ peer'[x].st = "shut" }) >= setup.limit
    BY <1>3, <1>5 DEF WhatStopsCores
  <2>2. ASSUME core[c].st = "killed"
        PROVE  \E x \in Peers : server[x] = c /\ peer'[x].end \in {"finrst", "told"} /\ peer'[x].sent >= 2
    <3>1. PICK x \in Peers : server[x] = c /\ SendKills(peer[x]) /\ peer[x].sent >= 2
      BY <1>1, <2>2 DEF CoresInv, WhatStopsCores, SendKills
    <3>2. SendKills(peer'[x]) /\ peer'[x].sent >= 2
      BY <1>7, <3>1
    <3> QED
      BY <3>1, <3>2 DEF SendKills
  <2>3. { x \in Peers : server[x] = c /\ peer'[x].st = "shut" }
          = { x \in Peers : server[x] = c /\ peer[x].st = "shut" }
    BY <1>7
  <2> QED
    BY <1>1, <2>2, <2>3 DEF CoresInv, WhatStopsCores
<1>12. CountTooLow'
  BY <1>1, <1>5, <1>7, <1>8 DEF CoresInv, CountTooLow
<1>13. ASSUME NEW x \in Peers
       PROVE  /\ peer'[x].st \in {"off", "queued"} => Unheard(peer'[x])
              /\ Len(peer'[x].got) <= peer'[x].sent
  <2>1. peer'[x].st \in {"off", "queued"} => Unheard(peer'[x])
    BY <1>7 DEF CoresInv, Unheard
  <2>2. Len(peer[x].got) <= peer[x].sent
    BY DEF CoresInv
  <2> QED
    BY <1>7, <2>1, <2>2
<1>14. ASSUME NEW x \in Peers, peer'[x].st = "open"
       PROVE  server'[x] \in CoreSet /\ core'[server'[x]].st = "up" /\ Holds(x)'
  <2>1. server[x] \in CoreSet /\ core[server[x]].st = "up" /\ Holds(x)
    BY <1>7, <1>14 DEF CoresInv
  <2>2. PICK y, s, z, b : y = peer'[x] /\ s = peer[x] /\ z = arm[x] /\ b = core[server[x]].batch
    OBVIOUS
  <2>3. y.got = s.got /\ Rcvd(y) = Rcvd(s) /\ (SendKills(y) <=> SendKills(s)) /\ Held(x, s, z, b)
    BY <1>7, <2>1, <2>2 DEF Holds
  <2>4. Held(x, y, z, b)
    BY ONLY <2>3 DEF Held, One
  <2>5. y = peer'[x] /\ z = arm'[x] /\ b = core'[server'[x]].batch
    BY <1>5, <2>2
  <2>6. Holds(x)'
    BY ONLY <2>4, <2>5 DEF Holds, Held, Owes, One, Rcvd, SendKills, InEvent, OutEvent
  <2> QED
    BY <1>5, <2>1, <2>6
<1>15. \A c \in CoreSet : core'[c].st = "up" => \A e \in core'[c].batch : e = ListenEvent \/ e.who \in OpenAt(c)'
  BY <1>5, <1>8 DEF CoresInv
<1>16. \A x \in Peers : peer'[x].st \in {"off", "queued"} => Unheard(peer[x])'
  BY <1>13 DEF Unheard, Rcvd
<1> QED
  BY <1>9, <1>10, <1>11, <1>12, <1>13, <1>14, <1>15, <1>16 DEF CoresInv, ListenEvent

\* What a process does with its batch alone keeps the invariant.
LEMMA BatchTurn ==
  ASSUME CoresInv, NEW q \in CoreSet, core[q].st = "up", NEW b \in SUBSET CoreEvents,
         core' = [core EXCEPT ![q] = [core[q] EXCEPT !.batch = b]], arm' \in [Peers -> Arms],
         peer' = peer, queue' = queue, setup' = setup, down' = down, server' = server,
         \/ accept_mtx' = NoCore
         \/ accept_mtx' = accept_mtx /\ accept_mtx # q
         \/ accept_mtx' = q /\ ListenEvent \in b,
         \A e \in b : e = ListenEvent \/ e.who \in OpenAt(q),
         \A x \in Peers : peer[x].st = "open" =>
            IF server[x] = q THEN Held(x, peer[x], arm'[x], b) ELSE arm'[x] = arm[x]
  PROVE  CoresInv'
<1>1. SockInv /\ IsHttpEpoll /\ core \in [CoreSet -> Cores] /\ accept_mtx \in CoreSet \cup {NoCore}
  BY DEF CoresInv, CoresTyped
<1>2. \A c \in CoreSet : core'[c] = IF c = q THEN [core[q] EXCEPT !.batch = b] ELSE core[c]
  BY <1>1
<1>3. /\ core'[q].st = core[q].st /\ core'[q].batch = b /\ core'[q].total = core[q].total
      /\ core'[q] \in Cores
  BY <1>1, <1>2 DEF Cores
<1>4. \A c \in CoreSet : /\ core'[c].st = core[c].st /\ core'[c].total = core[c].total
                         /\ c # q => core'[c] = core[c]
  BY <1>2, <1>3
<1>5. CoresTyped'
  <2>1. SockInv' /\ IsHttpEpoll'
    BY <1>1 DEF SockInv, Fine, IsHttpEpoll, prog
  <2>2. core' \in [CoreSet -> Cores]
    BY <1>1, <1>2, <1>3
  <2> QED
    BY <1>1, <2>1, <2>2 DEF CoresInv, CoresTyped
<1>6. LockSurvives'
  <2>1. ASSUME accept_mtx' = accept_mtx, accept_mtx # q PROVE LockSurvives'
    BY <1>1, <1>4, <2>1 DEF CoresInv, LockSurvives, ListenEvent
  <2>2. ASSUME accept_mtx' = q, ListenEvent \in b PROVE LockSurvives'
    BY <1>3, <2>2 DEF LockSurvives, ListenEvent
  <2> QED
    BY <2>1, <2>2 DEF LockSurvives
<1>7. \A c : OpenAt(c)' = OpenAt(c)
  BY DEF OpenAt, Open
<1>8. WhatStopsCores'
  <2>1. ASSUME NEW c \in CoreSet
        PROVE  /\ core[c].st = "killed" =>
                    \E x \in Peers : server[x] = c /\ peer[x].end \in {"finrst", "told"} /\ peer[x].sent >= 2
               /\ core[c].st = "ended" =>
                    Cardinality({ x \in Peers : server[x] = c /\ peer[x].st = "shut" }) >= setup.limit
    BY <1>1 DEF CoresInv, WhatStopsCores
  <2>2. SUFFICES ASSUME NEW c \in CoreSet
                 PROVE  /\ core'[c].st = "killed" =>
                             \E x \in Peers : server'[x] = c /\ peer'[x].end \in {"finrst", "told"} /\ peer'[x].sent >= 2
                        /\ core'[c].st = "ended" =>
                             Cardinality({ x \in Peers : server'[x] = c /\ peer'[x].st = "shut" }) >= setup'.limit
    BY Zenon DEF WhatStopsCores
  <2>3. { x \in Peers : server'[x] = c /\ peer'[x].st = "shut" } = { x \in Peers : server[x] = c /\ peer[x].st = "shut" }
    OBVIOUS
  <2>4. server' = server /\ peer' = peer /\ setup' = setup /\ core'[c].st = core[c].st
    BY <1>4
  <2> QED
    BY ONLY <2>1, <2>3, <2>4, c \in CoreSet
<1>9. CountTooLow'
  BY <1>1, <1>4, <1>7 DEF CoresInv, CountTooLow
<1>10. ASSUME NEW x \in Peers
       PROVE  /\ peer'[x].st \in {"off", "queued"} => Unheard(peer[x])'
              /\ Len(peer'[x].got) <= peer'[x].sent
  BY DEF CoresInv, Unheard, Rcvd
<1>11. ASSUME NEW x \in Peers, peer'[x].st = "open"
       PROVE  server'[x] \in CoreSet /\ core'[server'[x]].st = "up" /\ Holds(x)'
  <2>1. server[x] \in CoreSet /\ core[server[x]].st = "up" /\ Holds(x) /\ peer[x].st = "open"
    BY <1>11 DEF CoresInv
  <2>2. PICK y, z, c : y = peer'[x] /\ z = arm'[x] /\ c = core'[server'[x]].batch
    OBVIOUS
  <2>3. Held(x, y, z, c)
    <3>1. CASE server[x] = q
      BY <1>3, <2>1, <2>2, <3>1
    <3>2. CASE server[x] # q
      <4>1. y = peer[x] /\ z = arm[x] /\ c = core[server[x]].batch
        BY <1>4, <2>1, <2>2, <3>2
      <4> QED
        BY <2>1, <4>1 DEF Holds
    <3> QED
      BY <3>1, <3>2
  <2>4. Holds(x)'
    BY ONLY <2>2, <2>3 DEF Holds, Held, Owes, One, Rcvd, SendKills, InEvent, OutEvent
  <2> QED
    BY <1>4, <2>1, <2>4
<1>12. ASSUME NEW c \in CoreSet, core'[c].st = "up", NEW e \in core'[c].batch
       PROVE  e = ListenEvent \/ e.who \in OpenAt(c)'
  BY <1>2, <1>3, <1>4, <1>7, <1>12 DEF CoresInv
<1> QED
  BY <1>5, <1>6, <1>8, <1>9, <1>10, <1>11, <1>12 DEF CoresInv, ListenEvent

\* Waiting for events keeps the invariant: what is reported was armed, and is now owed.
LEMMA EpollNews_Inv ==
  ASSUME CoresInv, NEW q \in CoreSet, EpollNews(q)
  PROVE  CoresInv'
<1>1. /\ SockInv /\ IsHttpEpoll /\ core \in [CoreSet -> Cores] /\ accept_mtx \in CoreSet \cup {NoCore}
      /\ arm \in [Peers -> Arms] /\ server \in [Peers -> CoreSet \cup {NoCore}]
  BY DEF CoresInv, CoresTyped
<1>2. /\ core[q].st = "up" /\ core[q].batch = {} /\ core' = [core EXCEPT ![q].batch = News(q)]
      /\ peer' = peer /\ queue' = queue /\ setup' = setup /\ down' = down /\ server' = server
      /\ accept_mtx' = accept_mtx
  BY DEF EpollNews, Up, sockVars
<1>3. arm' = [p \in Peers |-> IF arm[p] # "level" /\ \E e \in News(q) : e.who = p THEN "" ELSE arm[p]]
  BY DEF EpollNews
<1>4. arm' \in [Peers -> Arms]
  BY <1>1, <1>3 DEF Arms
<1>5. accept_mtx # q
  BY <1>2, CoreAssumption DEF CoresInv, LockSurvives
<1>6. ASSUME NEW e \in News(q)
      PROVE  \/ e = ListenEvent
             \/ /\ e.who \in OpenAt(q) /\ e.who \in Peers /\ arm[e.who] # ""
                /\ e = [who |-> e.who, out |-> arm[e.who] = "out"]
  <2>1. CASE e = ListenEvent
    BY <2>1
  <2>2. ASSUME NEW p \in { x \in OpenAt(q) : arm[x] = "out" \/ (arm[x] # "" /\ Readable(x)) },
               e = [who |-> p, out |-> arm[p] = "out"]
        PROVE  /\ e.who \in OpenAt(q) /\ e.who \in Peers /\ arm[e.who] # ""
               /\ e = [who |-> e.who, out |-> arm[e.who] = "out"]
    <3>1. e.who = p /\ p \in OpenAt(q) /\ arm[p] # ""
      BY <2>2
    <3>2. p \in Peers
      BY <3>1 DEF OpenAt, Open
    <3> QED
      BY <2>2, <3>1, <3>2
  <2> QED
    BY <2>1, <2>2 DEF News
<1>7. News(q) \in SUBSET CoreEvents
  <2>1. SUFFICES ASSUME NEW e \in News(q) PROVE e \in CoreEvents
    OBVIOUS
  <2>2. CASE e = ListenEvent
    BY <2>2 DEF ListenEvent, CoreEvents
  <2>3. ASSUME e.who \in Peers, e = [who |-> e.who, out |-> arm[e.who] = "out"] PROVE e \in CoreEvents
    <3>1. PICK o \in BOOLEAN : o = (arm[e.who] = "out")
      OBVIOUS
    <3>2. PICK w \in Peers : w = e.who
      BY <2>3
    <3>3. e = [who |-> w, out |-> o]
      BY Zenon, <2>3, <3>1, <3>2
    <3> QED
      BY <3>3 DEF CoreEvents
  <2> QED
    BY <1>6, <2>2, <2>3
<1>8. ASSUME NEW x \in Peers, peer[x].st = "open"
      PROVE  IF server[x] = q THEN Held(x, peer[x], arm'[x], News(q)) ELSE arm'[x] = arm[x]
  <2>1. CASE server[x] # q
    <3>1. ASSUME NEW e \in News(q), e.who = x PROVE FALSE
      <4>1. CASE e = ListenEvent
        BY <3>1, <4>1, TeachAssumption DEF ListenEvent
      <4>2. CASE e.who \in OpenAt(q)
        BY <2>1, <3>1, <4>2 DEF OpenAt, Open
      <4> QED
        BY <1>6, <4>1, <4>2
    <3> QED
      BY <1>3, <2>1, <3>1
  <2>2. CASE server[x] = q
    <3>1. /\ arm[x] # ""
          /\ Len(peer[x].got) + One(SendKills(peer[x])) + One(arm[x] = "out") <= Rcvd(peer[x])
      BY <1>2, <1>8, <2>2 DEF CoresInv, Holds, Held, Owes
    <3>2. ASSUME NEW e \in News(q), e.who = x PROVE e = [who |-> x, out |-> arm[x] = "out"]
      <4>1. e # ListenEvent
        BY <3>2, TeachAssumption DEF ListenEvent
      <4>2. e = [who |-> e.who, out |-> arm[e.who] = "out"]
        BY <1>6, <4>1
      <4> QED
        BY Zenon, <3>2, <4>2
    <3>3. InEvent(x) \in News(q) => arm[x] # "out"
      <4>1. InEvent(x).who = x /\ InEvent(x).out = FALSE
        BY DEF InEvent
      <4>2. ASSUME InEvent(x) \in News(q) PROVE InEvent(x).out = (arm[x] = "out")
        BY <3>2, <4>1, <4>2
      <4> QED
        BY <4>1, <4>2
    <3>4. OutEvent(x) \in News(q) => arm[x] = "out"
      <4>1. OutEvent(x).who = x /\ OutEvent(x).out = TRUE
        BY DEF OutEvent
      <4>2. ASSUME OutEvent(x) \in News(q) PROVE OutEvent(x).out = (arm[x] = "out")
        BY <3>2, <4>1, <4>2
      <4> QED
        BY <4>1, <4>2
    <3>5. PICK z, w, r, b : z = arm[x] /\ w = arm'[x] /\ r = peer[x] /\ b = News(q)
      OBVIOUS
    <3>6. CASE \E e \in b : e.who = x
      <4>1. IF z = "out" THEN OutEvent(x) \in b ELSE InEvent(x) \in b
        <5>1. PICK e \in b : e = [who |-> x, out |-> z = "out"]
          BY <3>2, <3>5, <3>6
        <5>2. CASE z = "out"
          BY <5>1, <5>2 DEF OutEvent
        <5>3. CASE z # "out"
          BY <5>1, <5>3 DEF InEvent
        <5> QED
          BY <5>2, <5>3
      <4>2. w = IF z = "level" THEN "level" ELSE ""
        BY <1>3, <3>5, <3>6
      <4>3. /\ InEvent(x) \in b => z # "out"
            /\ OutEvent(x) \in b => z = "out"
            /\ Len(r.got) + One(SendKills(r)) + One(z = "out") <= Rcvd(r)
        BY <3>1, <3>3, <3>4, <3>5
      <4>4. Owes(x, w, b) <=> z = "out"
        BY ONLY <4>1, <4>2, <4>3 DEF Owes
      <4>5. One(Owes(x, w, b)) = One(z = "out")
        BY ONLY <4>4 DEF One
      <4>6. Held(x, r, w, b)
        BY ONLY <4>1, <4>2, <4>3, <4>5 DEF Held
      <4> QED
        BY <2>2, <3>5, <4>6
    <3>7. CASE ~ \E e \in b : e.who = x
      <4>1. w = z /\ InEvent(x) \notin b /\ OutEvent(x) \notin b
        BY <1>3, <3>5, <3>7, EventsDiffer
      <4>2. z # "" /\ Len(r.got) + One(SendKills(r)) + One(z = "out") <= Rcvd(r)
        BY <3>1, <3>5
      <4>3. Held(x, r, w, b)
        BY ONLY <4>1, <4>2 DEF Held, Owes, One
      <4> QED
        BY <2>2, <3>5, <4>3
    <3> QED
      BY <3>6, <3>7
  <2> QED
    BY <2>1, <2>2
<1>9. \A e \in News(q) : e = ListenEvent \/ e.who \in OpenAt(q)
  BY <1>6
<1>10. PICK b : b = News(q)
  OBVIOUS
<1>11. /\ core' = [core EXCEPT ![q] = [core[q] EXCEPT !.batch = b]] /\ b \in SUBSET CoreEvents
       /\ \A e \in b : e = ListenEvent \/ e.who \in OpenAt(q)
       /\ \A x \in Peers : peer[x].st = "open" =>
            IF server[x] = q THEN Held(x, peer[x], arm'[x], b) ELSE arm'[x] = arm[x]
  BY <1>2, <1>7, <1>8, <1>9, <1>10
<1> QED
  BY ONLY CoresInv, q \in CoreSet, <1>2, <1>4, <1>5, <1>11, BatchTurn

\* Without the listener's event a client holds what it held.
LEMMA HeldWithout ==
  ASSUME NEW p \in Peers, NEW r, NEW a, NEW b, Held(p, r, a, b)
  PROVE  Held(p, r, a, b \ {ListenEvent})
<1>1. /\ InEvent(p) \in b <=> InEvent(p) \in b \ {ListenEvent}
      /\ OutEvent(p) \in b <=> OutEvent(p) \in b \ {ListenEvent}
  BY EventsDiffer
<1> QED
  BY <1>1 DEF Held, Owes

\* Leaving the listener's event keeps the invariant.
LEMMA LeavesEvent ==
  ASSUME CoresInv, NEW q \in CoreSet, core[q].st = "up",
         core' = [core EXCEPT ![q].batch = core[q].batch \ {ListenEvent}], arm' = arm,
         peer' = peer, queue' = queue, setup' = setup, down' = down, server' = server,
         accept_mtx' = NoCore \/ (accept_mtx' = accept_mtx /\ accept_mtx # q)
  PROVE  CoresInv'
<1>1. PICK b : b = core[q].batch \ {ListenEvent}
  OBVIOUS
<1>2. core[q].batch \in SUBSET CoreEvents /\ arm' \in [Peers -> Arms]
  BY DEF CoresInv, CoresTyped, Cores
<1>3. /\ core' = [core EXCEPT ![q] = [core[q] EXCEPT !.batch = b]] /\ b \in SUBSET CoreEvents
      /\ \A e \in b : e = ListenEvent \/ e.who \in OpenAt(q)
  BY <1>1, <1>2 DEF CoresInv
<1>4. \A x \in Peers : peer[x].st = "open" =>
            IF server[x] = q THEN Held(x, peer[x], arm'[x], b) ELSE arm'[x] = arm[x]
  BY <1>1, HeldWithout DEF CoresInv, Holds
<1> QED
  BY <1>2, <1>3, <1>4, BatchTurn

\* Trying the word keeps the invariant.
LEMMA TryLock_Inv ==
  ASSUME CoresInv, NEW q \in CoreSet, TryLock(q)
  PROVE  CoresInv'
<1>1. /\ core[q].st = "up" /\ ListenEvent \in core[q].batch /\ accept_mtx # q
      /\ peer' = peer /\ queue' = queue /\ setup' = setup /\ down' = down /\ server' = server /\ arm' = arm
  BY DEF TryLock, Up, sockVars
<1>2. CASE accept_mtx = NoCore
  <2>1. accept_mtx' = q /\ core' = core
    BY <1>2 DEF TryLock
  <2>2. PICK b : b = core[q].batch
    OBVIOUS
  <2>3. core \in [CoreSet -> Cores] /\ arm' \in [Peers -> Arms] /\ b \in SUBSET CoreEvents
    BY <1>1, <2>2 DEF CoresInv, CoresTyped, Cores
  <2>4. core' = [core EXCEPT ![q] = [core[q] EXCEPT !.batch = b]]
    <3>1. [core[q] EXCEPT !.batch = b] = core[q]
      BY <2>2, <2>3 DEF Cores
    <3> QED
      BY <2>1, <2>3, <3>1
  <2>5. \A e \in b : e = ListenEvent \/ e.who \in OpenAt(q)
    BY <1>1, <2>2 DEF CoresInv
  <2>6. \A x \in Peers : peer[x].st = "open" =>
            IF server[x] = q THEN Held(x, peer[x], arm'[x], b) ELSE arm'[x] = arm[x]
    BY <1>1, <2>2 DEF CoresInv, Holds
  <2> QED
    BY <1>1, <2>1, <2>2, <2>3, <2>4, <2>5, <2>6, BatchTurn
<1>3. CASE accept_mtx # NoCore
  <2>1. accept_mtx' = accept_mtx /\ core' = [core EXCEPT ![q].batch = core[q].batch \ {ListenEvent}]
    BY <1>3 DEF TryLock
  <2> QED
    BY <1>1, <2>1, LeavesEvent
<1> QED
  BY <1>2, <1>3

\* A process that ends, for one of the two reasons, keeps the invariant of the others.
LEMMA CoreEnds ==
  ASSUME CoresInv, NEW q \in CoreSet, core[q].st = "up", NEW s \in {"ended", "killed"},
         core' = [core EXCEPT ![q] = [core[q] EXCEPT !.st = s]], peer' = Without(q),
         queue' = queue, setup' = setup, down' = down, server' = server, arm' = arm,
         accept_mtx' = NoCore \/ (accept_mtx' = accept_mtx /\ accept_mtx # q),
         s = "killed" => \E x \in Peers : server[x] = q /\ SendKills(peer[x]) /\ peer[x].sent >= 2,
         s = "ended" => Cardinality(OpenAt(q)) = setup.limit
  PROVE  CoresInv'
<1>1. /\ SockInv /\ IsHttpEpoll /\ core \in [CoreSet -> Cores] /\ accept_mtx \in CoreSet \cup {NoCore}
      /\ peer \in [Peers -> Records] /\ \A x \in Peers : Fine(x, peer[x])
  BY DEF CoresInv, CoresTyped, SockInv
<1>2. \A c \in CoreSet : core'[c] = IF c = q THEN [core[q] EXCEPT !.st = s] ELSE core[c]
  BY <1>1
<1>3. core'[q].st = s /\ core'[q] \in Cores
  BY <1>1, <1>2 DEF Cores
<1>4. \A x \in Peers : peer'[x] = IF peer[x].st = "open" /\ server[x] = q THEN Closed(peer[x]) ELSE peer[x]
  BY DEF Without, OpenAt, Open
<1>5. ASSUME NEW x \in Peers
      PROVE  /\ Fine(x, peer'[x]) /\ peer'[x].end = peer[x].end /\ peer'[x].got = peer[x].got
             /\ peer'[x].sent = peer[x].sent /\ peer'[x].box = peer[x].box
             /\ IF peer[x].st = "open" /\ server[x] = q
                THEN peer'[x].st = "shut"
                ELSE peer'[x] = peer[x]
  <2>1. CASE peer[x].st = "open" /\ server[x] = q
    BY <1>1, <1>4, <2>1, ClosedIs
  <2>2. CASE ~(peer[x].st = "open" /\ server[x] = q)
    BY <1>1, <1>4, <2>2
  <2> QED
    BY <2>1, <2>2
<1>6. SockInv'
  <2>1. peer' = [x \in Peers |-> IF x \in OpenAt(q) THEN Closed(peer[x]) ELSE peer[x]]
    BY DEF Without
  <2>2. \A x \in Peers : peer'[x] \in Records
    BY <1>5 DEF Fine
  <2>3. peer' \in [Peers -> Records]
    BY <2>1, <2>2
  <2>4. down' \in Downs
    BY <1>1 DEF SockInv
  <2>5. \A x \in Peers :
          /\ Fine(x, peer'[x])
          /\ \/ peer'[x].st = peer[x].st /\ peer'[x].fd = peer[x].fd
             \/ peer[x].st = "open" /\ peer'[x].st = "shut"
    BY <1>5
  <2> QED
    BY <1>1, <2>3, <2>4, <2>5, ManyTurns
<1>7. CoresTyped'
  <2>1. IsHttpEpoll'
    BY <1>1 DEF IsHttpEpoll, prog
  <2>2. core' \in [CoreSet -> Cores]
    BY <1>1, <1>2, <1>3
  <2> QED
    BY <1>6, <2>1, <2>2 DEF CoresInv, CoresTyped
<1>8. LockSurvives'
  <2>1. ASSUME accept_mtx' = accept_mtx, accept_mtx # q PROVE LockSurvives'
    BY <1>1, <1>2, <2>1 DEF CoresInv, LockSurvives, ListenEvent
  <2> QED
    BY <2>1 DEF LockSurvives
<1>9. \A c : c # q => OpenAt(c)' = OpenAt(c)
  BY <1>5 DEF OpenAt, Open
<1>10. WhatStopsCores'
  <2>1. SUFFICES ASSUME NEW c \in CoreSet
                 PROVE  /\ core'[c].st = "killed" =>
                             \E x \in Peers : server[x] = c /\ peer'[x].end \in {"finrst", "told"} /\ peer'[x].sent >= 2
                        /\ core'[c].st = "ended" =>
                             Cardinality({ x \in Peers : server[x] = c /\ peer'[x].st = "shut" }) >= setup.limit
    BY DEF WhatStopsCores
  <2>2. CASE c # q
    <3>1. core'[c].st = core[c].st
      BY <1>2, <2>2
    <3>2. { x \in Peers : server[x] = c /\ peer'[x].st = "shut" }
            = { x \in Peers : server[x] = c /\ peer[x].st = "shut" }
      BY <1>5, <2>2
    <3>3. /\ core[c].st = "killed" =>
               \E x \in Peers : server[x] = c /\ peer[x].end \in {"finrst", "told"} /\ peer[x].sent >= 2
          /\ core[c].st = "ended" =>
               Cardinality({ x \in Peers : server[x] = c /\ peer[x].st = "shut" }) >= setup.limit
      BY <1>1 DEF CoresInv, WhatStopsCores
    <3>4. \A x \in Peers : peer'[x].end = peer[x].end /\ peer'[x].sent = peer[x].sent
      BY <1>5
    <3> QED
      BY ONLY <3>1, <3>2, <3>3, <3>4
  <2>3. CASE c = q /\ s = "killed"
    <3>1. PICK x \in Peers : server[x] = q /\ SendKills(peer[x]) /\ peer[x].sent >= 2
      BY <2>3
    <3>2. peer'[x].end \in {"finrst", "told"} /\ peer'[x].sent >= 2
      BY <1>5, <3>1 DEF SendKills
    <3> QED
      BY <1>3, <2>3, <3>1, <3>2
  <2>4. CASE c = q /\ s = "ended"
    <3> DEFINE Left == { x \in Peers : server[x] = c /\ peer'[x].st = "shut" }
    <3>1. OpenAt(q) \subseteq Left
      BY <1>5, <2>4 DEF OpenAt, Open
    <3>2. IsFiniteSet(Left)
      <4>1. Left \subseteq Peers /\ IsFiniteSet(Peers)
        BY TeachAssumption
      <4> QED
        BY <4>1, FS_Subset
    <3>3. Cardinality(OpenAt(q)) <= Cardinality(Left)
      BY <3>1, <3>2, FS_Subset
    <3>4. Cardinality(Left) \in Nat /\ Cardinality(OpenAt(q)) \in Nat
      BY <3>2, FS_CardinalityType, OpenAtIs
    <3>5. Cardinality(Left) >= setup.limit
      BY <2>4, <3>3, <3>4
    <3> QED
      BY <1>3, <2>4, <3>5
  <2> QED
    BY <2>2, <2>3, <2>4
<1>11. CountTooLow'
  <2>1. ASSUME NEW c \in CoreSet, core'[c].st = "up"
        PROVE  /\ core'[c].total <= Cardinality(OpenAt(c)')
               /\ (\E x \in Peers : server'[x] = c /\ peer'[x].got # <<>>) => core'[c].total < Cardinality(OpenAt(c)')
    <3>1. c # q /\ core'[c] = core[c]
      BY <1>2, <1>3, <2>1
    <3>2. /\ core[c].total <= Cardinality(OpenAt(c))
          /\ (\E x \in Peers : server[x] = c /\ peer[x].got # <<>>) => core[c].total < Cardinality(OpenAt(c))
      BY <1>1, <2>1, <3>1 DEF CoresInv, CountTooLow
    <3> QED
      BY <1>5, <1>9, <3>1, <3>2
  <2> QED
    BY <2>1 DEF CountTooLow
<1>12. ASSUME NEW x \in Peers
       PROVE  /\ peer'[x].st \in {"off", "queued"} => Unheard(peer[x])'
              /\ Len(peer'[x].got) <= peer'[x].sent
  BY <1>5 DEF CoresInv, Unheard, Rcvd
<1>13. ASSUME NEW x \in Peers, peer'[x].st = "open"
       PROVE  server'[x] \in CoreSet /\ core'[server'[x]].st = "up" /\ Holds(x)'
  <2>1. peer'[x] = peer[x] /\ peer[x].st = "open" /\ server[x] # q
    BY <1>5, <1>13
  <2>2. server[x] \in CoreSet /\ core[server[x]].st = "up" /\ Holds(x)
    BY <2>1 DEF CoresInv
  <2>3. core'[server'[x]] = core[server[x]]
    BY <1>2, <2>1, <2>2
  <2>4. PICK y, z, c : y = peer[x] /\ z = arm[x] /\ c = core[server[x]].batch
    OBVIOUS
  <2>5. Held(x, y, z, c)
    BY <2>2, <2>4 DEF Holds
  <2>6. y = peer'[x] /\ z = arm'[x] /\ c = core'[server'[x]].batch
    BY <2>1, <2>3, <2>4
  <2>7. Holds(x)'
    BY ONLY <2>5, <2>6 DEF Holds, Held, Owes, One, Rcvd, SendKills, InEvent, OutEvent
  <2> QED
    BY <2>2, <2>3, <2>7
<1>14. ASSUME NEW c \in CoreSet, core'[c].st = "up", NEW e \in core'[c].batch
       PROVE  e = ListenEvent \/ e.who \in OpenAt(c)'
  BY <1>2, <1>3, <1>9, <1>14 DEF CoresInv
<1> QED
  BY <1>7, <1>8, <1>10, <1>11, <1>12, <1>13, <1>14 DEF CoresInv, ListenEvent

\* Accept keeps the invariant: the process ends with all descriptors in use, finds nobody,
\* or has one client more.
LEMMA AcceptLocked_Inv ==
  ASSUME CoresInv, NEW q \in CoreSet, AcceptLocked(q)
  PROVE  CoresInv'
<1>1. /\ SockInv /\ core \in [CoreSet -> Cores] /\ queue \in Seq(Peers) /\ server \in [Peers -> CoreSet \cup {NoCore}]
      /\ peer \in [Peers -> Records]
  BY DEF CoresInv, CoresTyped, SockInv
<1>2. core[q].st = "up" /\ accept_mtx = q /\ accept_mtx' = NoCore /\ setup' = setup /\ down' = down
  BY DEF AcceptLocked, Up
<1>3. CASE /\ Cardinality(OpenAt(q)) = setup.limit
           /\ core' = [core EXCEPT ![q].st = "ended"] /\ peer' = Without(q)
           /\ UNCHANGED <<queue, server, arm>>
  BY <1>2, <1>3, CoreEnds
<1>4. CASE /\ Cardinality(OpenAt(q)) < setup.limit /\ queue = <<>>
           /\ core' = [core EXCEPT ![q].batch = @ \ {ListenEvent}]
           /\ UNCHANGED <<peer, queue, server, arm>>
  BY <1>2, <1>4, LeavesEvent
<1>5. CASE /\ queue # <<>>
           /\ LET p == Head(queue) IN
              /\ peer' = [peer EXCEPT ![p] = Accepted(p)] /\ queue' = Tail(queue)
              /\ server' = [server EXCEPT ![p] = q] /\ arm' = [arm EXCEPT ![p] = "once"]
           /\ core' = [core EXCEPT ![q].batch = @ \ {ListenEvent}, ![q].total = @ + 1]
  <2>1. PICK p \in Peers : p = Head(queue)
    BY <1>1, <1>5
  <2>2. peer[p].st = "queued"
    <3>1. Len(queue) >= 1 /\ p = queue[1]
      BY <1>1, <1>5, <2>1
    <3> QED
      BY <1>1, <3>1 DEF SockInv
  <2>3. PICK r : r = Accepted(p)
    OBVIOUS
  <2>4. /\ Fine(p, r) /\ r.st = "open" /\ r.fd = LowestFree /\ r.sent = peer[p].sent
        /\ r.box = peer[p].box /\ r.end = peer[p].end /\ r.got = peer[p].got
    BY <1>1, <2>2, <2>3, AcceptedIs
  <2>5. /\ peer' = [peer EXCEPT ![p] = r] /\ queue' = Tail(queue)
        /\ server' = [server EXCEPT ![p] = q] /\ arm' = [arm EXCEPT ![p] = "once"]
    BY <1>5, <2>1, <2>3
  <2>6. SockInv'
    <3>1. TurnsOf(p, r)
      BY <1>1, <1>5, <2>1, <2>2, <2>4, <2>5, FreeIs DEF TurnsOf
    <3> QED
      BY <1>1, <1>2, <2>4, <2>5, <3>1, OneTurn DEF SockInv
  <2>7. PICK b : b = core[q].batch \ {ListenEvent}
    OBVIOUS
  <2>8. PICK k : k = core[q].total + 1
    OBVIOUS
  <2>9. core[q] \in Cores /\ core[q].total \in Int /\ k \in Int
    BY <1>1, <2>8 DEF Cores
  <2>10. core' = [core EXCEPT ![q] = [core[q] EXCEPT !.batch = b, !.total = k]]
    BY <1>1, <1>5, <2>7, <2>8
  <2>11. b \in SUBSET core[q].batch /\ \A e \in core[q].batch : e \in b \/ e = ListenEvent \/ e.who = p
    BY <2>7
  <2>12. \A e \in b : e.who # p
    <3>1. \A e \in b : e.who \in OpenAt(q)
      BY <1>2, <2>7 DEF CoresInv
    <3> QED
      BY <2>2, <3>1 DEF OpenAt, Open
  <2>13. r \in Records /\ Rcvd(r) = 0 /\ r.got = <<>> /\ ~SendKills(r)
    BY <2>2, <2>4 DEF CoresInv, Unheard, Rcvd, Fine, SendKills
  <2>14. Len(r.got) = 0 /\ r.sent \in Nat
    BY <2>13 DEF Records
  <2>15. Held(p, r, "once", b)
    <3>1. Len(r.got) + One(SendKills(r)) + One("once" = "out") <= Rcvd(r)
      BY <2>13, <2>14 DEF One
    <3> QED
      BY <2>12, <2>13, <2>14, <3>1, HeldArmed
  <2>16. /\ Cardinality(OpenAt(q)') = Cardinality(OpenAt(q)) + 1 /\ Cardinality(OpenAt(q)) \in Nat
    BY <1>1, <2>2, <2>4, <2>5, TurnCounts, OpenAtIs
  <2>17. /\ core[q].total <= Cardinality(OpenAt(q))
         /\ (\E x \in Peers : server[x] = q /\ peer[x].got # <<>>) => core[q].total < Cardinality(OpenAt(q))
    BY <1>2 DEF CoresInv, CountTooLow, CoresTyped
  <2>18. (\E x \in Peers : server'[x] = q /\ peer'[x].got # <<>>) =>
            \E x \in Peers : server[x] = q /\ peer[x].got # <<>>
    BY <1>1, <2>5, <2>13
  <2>19. k <= Cardinality(OpenAt(q)') /\ ((\E x \in Peers : server'[x] = q /\ peer'[x].got # <<>>) => k < Cardinality(OpenAt(q)'))
    <3>1. PICK m \in Nat : m = Cardinality(OpenAt(q))
      BY <2>16
    <3>2. PICK t \in Int : t = core[q].total
      BY <2>9
    <3>3. PICK n : n = Cardinality(OpenAt(q)')
      OBVIOUS
    <3>4. /\ n = m + 1 /\ k = t + 1 /\ t <= m
          /\ (\E x \in Peers : server'[x] = q /\ peer'[x].got # <<>>) => t < m
      BY <2>8, <2>16, <2>17, <2>18, <3>1, <3>2, <3>3
    <3>5. k <= n /\ (t < m => k < n)
      BY ONLY m \in Nat, t \in Int, <3>4
    <3> QED
      BY <3>3, <3>4, <3>5
  <2>20. Len(r.got) <= r.sent
    BY <2>14
  <2>21. PICK a \in Arms : a = "once"
    BY DEF Arms
  <2>22. arm' = [arm EXCEPT ![p] = a] /\ Held(p, r, a, b)
    BY <2>5, <2>15, <2>21
  <2> QED
    BY ONLY CoresInv, q \in CoreSet, p \in Peers, a \in Arms, <1>2, <2>2, <2>4, <2>5, <2>6, <2>9, <2>10, <2>11, <2>12,
            <2>13, <2>19, <2>20, <2>22, CoreTurn
<1> QED
  BY <1>3, <1>4, <1>5 DEF AcceptLocked

\* Reading from a client keeps the invariant: one more unit is owed a page, or it is closed.
LEMMA ServeIn_Inv ==
  ASSUME CoresInv, NEW q \in CoreSet, NEW p \in Peers, ServeIn(q, p)
  PROVE  CoresInv'
<1>1. /\ SockInv /\ core \in [CoreSet -> Cores] /\ server \in [Peers -> CoreSet \cup {NoCore}]
      /\ peer \in [Peers -> Records] /\ arm \in [Peers -> Arms] /\ setup.buf \in Nat \ {0}
  BY TeachAssumption DEF CoresInv, CoresTyped, SockInv
<1>2. /\ setup' = setup /\ queue' = queue /\ down' = down
      /\ accept_mtx' = accept_mtx /\ server' = server
  BY DEF ServeIn
<1>3. /\ core[q].st = "up" /\ accept_mtx # q /\ peer[p].st = "open" /\ server[p] = q
      /\ Held(p, peer[p], arm[p], core[q].batch)
      /\ InEvent(p) \in core[q].batch
  <2>1. Turns(q, p, FALSE)
    BY DEF ServeIn
  <2> QED
    BY <2>1, EventIs DEF InEvent
<1>4. PICK b : b = { e \in core[q].batch : e.who # p }
  OBVIOUS
<1>5. PICK u, v : u = Received(p, setup.buf) /\ v = Taken(p, setup.buf)
  OBVIOUS
<1>6. /\ Fine(p, u) /\ u.st = peer[p].st /\ u.fd = peer[p].fd /\ u.sent = peer[p].sent
      /\ u.got = peer[p].got /\ Len(u.box) = Len(peer[p].box) - Len(v)
      /\ u.end = IF Result(p, setup.buf) = -1 THEN "told" ELSE peer[p].end
  BY <1>1, <1>5, ReceivedIs
<1>7. /\ Len(v) <= Len(peer[p].box) /\ Len(v) \in Nat
      /\ Result(p, setup.buf) > 0 => Len(v) = Result(p, setup.buf)
      /\ Result(p, setup.buf) \in Nat \cup {-1}
  <2>1. v \in Seq(Peers \X Nat)
    BY <1>1, <1>5, TakenIs
  <2> QED
    BY <1>1, <1>5, <2>1, TakenIs
<1>8. /\ arm[p] \in {"", "level"} /\ OutEvent(p) \notin core[q].batch
      /\ Len(peer[p].got) + One(SendKills(peer[p])) <= Rcvd(peer[p]) + 0
      /\ Len(peer[p].got) \in Nat /\ peer[p].sent \in Nat /\ Len(peer[p].box) \in Nat
  <2>1. arm[p] \in {"", "level"} /\ OutEvent(p) \notin core[q].batch
    BY <1>3 DEF Held
  <2>2. One(Owes(p, arm[p], core[q].batch)) = 0
    BY <2>1 DEF One, Owes
  <2>3. Len(peer[p].got) \in Nat /\ peer[p].sent \in Nat /\ Len(peer[p].box) \in Nat
    BY <1>1 DEF Records
  <2>4. PICK n, m, o, z : n = Len(peer[p].got) /\ m = One(SendKills(peer[p])) /\ z = Rcvd(peer[p])
                          /\ o = One(Owes(p, arm[p], core[q].batch))
    OBVIOUS
  <2>5. n \in Nat /\ m \in Nat /\ z \in Int /\ o = 0 /\ n + m + o <= z
    <3>1. n + m + o <= z
      BY <1>3, <2>4 DEF Held
    <3>2. m \in Nat
      BY <2>4 DEF One
    <3>3. z \in Int
      BY <2>3, <2>4 DEF Rcvd
    <3> QED
      BY <2>2, <2>3, <2>4, <3>1, <3>2, <3>3
  <2>6. n + m <= z + 0
    BY ONLY <2>5
  <2> QED
    BY <2>1, <2>3, <2>4, <2>6
<1>9. /\ b \in SUBSET core[q].batch /\ \A e \in core[q].batch : e \in b \/ e = ListenEvent \/ e.who = p
      /\ \A e \in b : e.who # p
  BY <1>4
<1>10. server' = [server EXCEPT ![p] = q]
  BY <1>1, <1>2, <1>3
<1>11. core[q].total \in Int /\ core[q] \in Cores
  BY <1>1 DEF Cores
<1>12. /\ core[q].total <= Cardinality(OpenAt(q))
       /\ (\E x \in Peers : server[x] = q /\ peer[x].got # <<>>) => core[q].total < Cardinality(OpenAt(q))
  BY <1>3 DEF CoresInv, CountTooLow, CoresTyped
<1>13. Len(peer[p].got) <= peer[p].sent
  BY DEF CoresInv
<1>14. CASE Result(p, setup.buf) > 0
  <2>1. /\ peer' = [peer EXCEPT ![p] = u] /\ arm' = [arm EXCEPT ![p] = "out"] /\ Handled(q, p, 0)
    BY <1>5, <1>14 DEF ServeIn
  <2>2. PICK k : k = core[q].total - 0
    OBVIOUS
  <2>3. core' = [core EXCEPT ![q] = [core[q] EXCEPT !.batch = b, !.total = k]]
    BY <1>1, <1>4, <2>1, <2>2 DEF Handled
  <2>4. SockInv'
    <3>1. TurnsOf(p, u)
      BY <1>2, <1>6 DEF TurnsOf
    <3> QED
      BY <1>1, <1>2, <1>6, <2>1, <3>1, OneTurn DEF SockInv
  <2>5. Held(p, u, "out", b)
    <3>1. SendKills(u) <=> SendKills(peer[p])
      BY <1>6, <1>14 DEF SendKills
    <3>2. PICK n, m, s, x, y, w : n = Len(peer[p].got) /\ m = One(SendKills(peer[p])) /\ s = peer[p].sent
                                  /\ x = Len(peer[p].box) /\ y = Len(u.box) /\ w = Len(v)
      OBVIOUS
    <3>3. n \in Nat /\ m \in {0, 1} /\ s \in Nat /\ x \in Nat /\ w \in Nat
      BY <1>7, <1>8, <3>2 DEF One
    <3>4. n + m <= (s - x) + 0 /\ y = x - w /\ w > 0
      BY <1>6, <1>7, <1>8, <1>14, <3>2 DEF Rcvd
    <3>5. n + m + 1 <= s - y /\ s - y \in Int
      BY ONLY <3>3, <3>4
    <3>6. Rcvd(u) = s - y /\ Len(u.got) = n /\ One(SendKills(u)) = m /\ One("out" = "out") = 1
      BY <1>6, <3>1, <3>2 DEF Rcvd, One
    <3>7. Len(u.got) + One(SendKills(u)) + One("out" = "out") <= Rcvd(u) /\ Rcvd(u) \in Int /\ Len(u.got) \in Nat
      BY <3>3, <3>5, <3>6
    <3> QED
      BY <1>9, <3>7, HeldArmed
  <2>6. k = core[q].total /\ k \in Int
    BY <1>11, <2>2
  <2>7. Cardinality(OpenAt(q)') = Cardinality(OpenAt(q))
    BY <1>1, <1>3, <1>6, <1>10, <2>1, TurnCounts
  <2>8. \A x \in Peers : server'[x] = server[x] /\ peer'[x].got = peer[x].got
    BY <1>1, <1>2, <1>6, <2>1
  <2>9. k <= Cardinality(OpenAt(q)') /\ ((\E x \in Peers : server'[x] = q /\ peer'[x].got # <<>>) => k < Cardinality(OpenAt(q)'))
    BY <1>12, <2>6, <2>7, <2>8
  <2>10. u \in Records /\ u.st \in {"open", "shut"} /\ Len(u.got) <= u.sent
    BY <1>3, <1>6, <1>13 DEF Fine
  <2>11. PICK a \in Arms : a = "out"
    BY DEF Arms
  <2>12. arm' = [arm EXCEPT ![p] = a] /\ Held(p, u, a, b)
    BY <2>1, <2>5, <2>11
  <2> QED
    <3>1. /\ core[q].st = "up" /\ SockInv' /\ setup' = setup /\ peer' = [peer EXCEPT ![p] = u]
          /\ arm' = [arm EXCEPT ![p] = a] /\ server' = [server EXCEPT ![p] = q]
          /\ core' = [core EXCEPT ![q] = [core[q] EXCEPT !.batch = b, !.total = k]]
          /\ accept_mtx' = accept_mtx /\ accept_mtx # q /\ peer[p].st = "open" /\ server[p] = q
          /\ Held(p, u, a, b)
      BY <1>2, <1>3, <1>10, <2>1, <2>3, <2>4, <2>12
    <3> QED
      BY ONLY CoresInv, q \in CoreSet, p \in Peers, a \in Arms, <1>9, <2>6, <2>9, <2>10, <3>1, CoreTurn
<1>15. CASE ~(Result(p, setup.buf) > 0)
  <2>1. PICK r : r = Closed(u)
    OBVIOUS
  <2>2. /\ peer' = [peer EXCEPT ![p] = r] /\ arm' = arm /\ Handled(q, p, 1)
    BY <1>5, <1>15, <2>1 DEF ServeIn
  <2>3. /\ Fine(p, r) /\ r.st = "shut" /\ r.fd = 0 /\ r.sent = u.sent /\ r.got = u.got
    BY <1>6, <2>1, ClosedIs
  <2>4. PICK k : k = core[q].total - 1
    OBVIOUS
  <2>5. core' = [core EXCEPT ![q] = [core[q] EXCEPT !.batch = b, !.total = k]]
    BY <1>1, <1>4, <2>2, <2>4 DEF Handled
  <2>6. SockInv'
    <3>1. TurnsOf(p, r)
      BY <1>2, <1>3, <2>3 DEF TurnsOf
    <3> QED
      BY <1>1, <1>2, <2>2, <2>3, <3>1, OneTurn DEF SockInv
  <2>7. Cardinality(OpenAt(q)') = Cardinality(OpenAt(q)) - 1 /\ Cardinality(OpenAt(q)) \in Nat
    BY <1>1, <1>3, <1>10, <2>2, <2>3, TurnCounts, OpenAtIs
  <2>8. \A x \in Peers : server'[x] = server[x] /\ peer'[x].got = peer[x].got
    BY <1>1, <1>2, <1>6, <2>2, <2>3
  <2>9. k \in Int /\ k <= Cardinality(OpenAt(q)')
        /\ ((\E x \in Peers : server'[x] = q /\ peer'[x].got # <<>>) => k < Cardinality(OpenAt(q)'))
    <3>1. PICK m \in Nat : m = Cardinality(OpenAt(q))
      BY <2>7
    <3>2. PICK t \in Int : t = core[q].total
      BY <1>11
    <3>3. PICK n : n = Cardinality(OpenAt(q)')
      OBVIOUS
    <3>4. /\ n = m - 1 /\ k = t - 1 /\ t <= m
          /\ (\E x \in Peers : server'[x] = q /\ peer'[x].got # <<>>) => t < m
      BY <1>12, <2>4, <2>7, <2>8, <3>1, <3>2, <3>3
    <3>5. k \in Int /\ k <= n /\ (t < m => k < n)
      BY ONLY m \in Nat, t \in Int, <3>4
    <3> QED
      BY <3>3, <3>4, <3>5
  <2>10. r \in Records /\ r.st \in {"open", "shut"} /\ r.st # "open" /\ Len(r.got) <= r.sent
    BY <1>6, <1>13, <2>3 DEF Fine
  <2>11. PICK a \in Arms : a = arm[p]
    BY <1>1
  <2>12. arm' = [arm EXCEPT ![p] = a]
    BY <1>1, <2>2, <2>11
  <2> QED
    <3>1. /\ core[q].st = "up" /\ SockInv' /\ setup' = setup /\ peer' = [peer EXCEPT ![p] = r]
          /\ arm' = [arm EXCEPT ![p] = a] /\ server' = [server EXCEPT ![p] = q]
          /\ core' = [core EXCEPT ![q] = [core[q] EXCEPT !.batch = b, !.total = k]]
          /\ accept_mtx' = accept_mtx /\ accept_mtx # q /\ peer[p].st = "open" /\ server[p] = q
      BY <1>2, <1>3, <1>10, <2>2, <2>5, <2>6, <2>12
    <3> QED
      BY ONLY CoresInv, q \in CoreSet, p \in Peers, a \in Arms, <1>9, <2>9, <2>10, <3>1, CoreTurn
<1> QED
  BY <1>14, <1>15

\* Answering a client keeps the invariant: the page that was owed is sent, or the process
\* is killed by one that asked twice.
LEMMA ServeOut_Inv ==
  ASSUME CoresInv, NEW q \in CoreSet, NEW p \in Peers, ServeOut(q, p)
  PROVE  CoresInv'
<1>1. /\ SockInv /\ core \in [CoreSet -> Cores] /\ server \in [Peers -> CoreSet \cup {NoCore}]
      /\ peer \in [Peers -> Records] /\ arm \in [Peers -> Arms] /\ Fine(p, peer[p])
  BY DEF CoresInv, CoresTyped, SockInv
<1>2. /\ setup' = setup /\ queue' = queue /\ down' = down
      /\ accept_mtx' = accept_mtx /\ server' = server
  BY DEF ServeOut
<1>3. /\ core[q].st = "up" /\ accept_mtx # q /\ peer[p].st = "open" /\ server[p] = q
      /\ Held(p, peer[p], arm[p], core[q].batch)
      /\ OutEvent(p) \in core[q].batch
  <2>1. Turns(q, p, TRUE)
    BY DEF ServeOut
  <2> QED
    BY <2>1, EventIs DEF OutEvent
<1>4. PICK n, m, s, x : n = Len(peer[p].got) /\ m = One(SendKills(peer[p])) /\ s = peer[p].sent /\ x = Len(peer[p].box)
  OBVIOUS
<1>5. n \in Nat /\ m \in {0, 1} /\ s \in Nat /\ x \in Nat
  BY <1>1, <1>4 DEF Records, One
<1>6. n + m + 1 <= s - x
  <2>1. One(Owes(p, arm[p], core[q].batch)) = 1
    BY <1>3 DEF One, Owes
  <2> QED
    BY <1>3, <1>4, <2>1 DEF Held, Rcvd
<1>7. CASE SendKills(peer[p])
  <2>1. /\ core' = [core EXCEPT ![q].st = "killed"] /\ peer' = Without(q) /\ arm' = arm
    BY <1>7 DEF ServeOut
  <2>2. m = 1
    BY <1>4, <1>7 DEF One
  <2>3. s >= 2
    BY ONLY <1>5, <1>6, <2>2
  <2>4. server[p] = q /\ SendKills(peer[p]) /\ peer[p].sent >= 2
    BY <1>3, <1>4, <1>7, <2>3
  <2> QED
    BY <1>2, <1>3, <2>1, <2>4, CoreEnds
<1>8. CASE ~SendKills(peer[p])
  <2>1. PICK u : u = Answered(peer[p], Page)
    OBVIOUS
  <2>2. /\ peer' = [peer EXCEPT ![p] = u] /\ arm' = [arm EXCEPT ![p] = "level"] /\ Handled(q, p, 1)
    BY <1>1, <1>8, <2>1 DEF ServeOut
  <2>3. Page \in Seq((Peers \cup {Listener}) \X Nat) /\ Len(Page) = 1
    BY DEF Page
  <2>4. /\ Fine(p, u) /\ u.st = peer[p].st /\ u.fd = peer[p].fd /\ u.sent = peer[p].sent /\ u.box = peer[p].box
        /\ peer[p].end = "no" => u.end = "no" /\ u.got = peer[p].got \o Page
        /\ peer[p].end # "no" => u.end # "no" /\ u.got = peer[p].got
    <3>1. PICK r, g : r = peer[p] /\ g = Page
      OBVIOUS
    <3>2. u = Answered(r, g) /\ Fine(p, r) /\ g \in Seq((Peers \cup {Listener}) \X Nat)
      BY <1>1, <2>1, <2>3, <3>1
    <3>3. /\ Fine(p, u) /\ u.st = r.st /\ u.fd = r.fd /\ u.sent = r.sent /\ u.box = r.box
          /\ r.end = "no" => u.end = "no" /\ u.got = r.got \o g
          /\ r.end # "no" => u.end # "no" /\ u.got = r.got
      BY ONLY SMTT(30), <3>2, AnsweredIs
    <3> QED
      BY <3>1, <3>3
  <2>5. PICK b : b = { e \in core[q].batch : e.who # p }
    OBVIOUS
  <2>6. PICK k : k = core[q].total - 1
    OBVIOUS
  <2>7. core' = [core EXCEPT ![q] = [core[q] EXCEPT !.batch = b, !.total = k]]
    BY <1>1, <2>2, <2>5, <2>6 DEF Handled
  <2>8. SockInv'
    <3>1. TurnsOf(p, u)
      BY <1>2, <2>4 DEF TurnsOf
    <3> QED
      BY <1>1, <1>2, <2>2, <2>4, <3>1, OneTurn DEF SockInv
  <2>9. /\ Len(u.got) + One(SendKills(u)) <= n + 1 /\ Len(u.got) \in Nat /\ One(SendKills(u)) \in {0, 1}
    <3>1. CASE peer[p].end = "no"
      <4>1. peer[p].got \in Seq((Peers \cup {Listener}) \X Nat)
        BY <1>1 DEF Records
      <4>2. Len(u.got) = n + 1
        <5>1. PICK g, h : g = peer[p].got /\ h = Page
          OBVIOUS
        <5>2. /\ g \in Seq((Peers \cup {Listener}) \X Nat) /\ h \in Seq((Peers \cup {Listener}) \X Nat)
              /\ Len(h) = 1 /\ n = Len(g)
          BY <1>4, <2>3, <4>1, <5>1
        <5>3. Len(g \o h) = n + 1
          <6>1. Len(g \o h) = Len(g) + Len(h)
            BY ONLY <5>2, ConcatProperties
          <6> QED
            BY ONLY <5>2, <6>1
        <5> QED
          BY <2>4, <3>1, <5>1, <5>3
      <4>3. One(SendKills(u)) = 0
        BY <2>4, <3>1 DEF One, SendKills
      <4> QED
        BY <1>5, <4>2, <4>3
    <3>2. CASE peer[p].end # "no"
      <4>1. Len(u.got) = n
        BY <1>4, <2>4, <3>2
      <4>2. One(SendKills(u)) \in {0, 1}
        BY DEF One
      <4> QED
        BY <1>5, <4>1, <4>2
    <3> QED
      BY <3>1, <3>2
  <2>10. Rcvd(u) = s - x /\ u.sent = s
    BY <1>4, <2>4 DEF Rcvd
  <2>11. /\ Len(u.got) + One(SendKills(u)) + 0 <= s - x /\ s - x \in Int /\ Len(u.got) <= s
    <3>1. PICK g, h : g = Len(u.got) /\ h = One(SendKills(u))
      OBVIOUS
    <3>2. g + h <= n + 1 /\ g \in Nat /\ h \in {0, 1}
      BY <2>9, <3>1
    <3>3. g + h + 0 <= s - x /\ s - x \in Int /\ g <= s
      BY ONLY <1>5, <1>6, <3>2
    <3> QED
      BY <3>1, <3>3
  <2>12. /\ b \in SUBSET core[q].batch /\ \A e \in core[q].batch : e \in b \/ e = ListenEvent \/ e.who = p
         /\ \A e \in b : e.who # p
    BY <2>5
  <2>13. Held(p, u, "level", b)
    <3>1. One("level" = "out") = 0
      BY DEF One
    <3>2. Len(u.got) + One(SendKills(u)) + One("level" = "out") <= Rcvd(u) /\ Rcvd(u) \in Int /\ Len(u.got) \in Nat
      BY <2>9, <2>10, <2>11, <3>1
    <3> QED
      BY <2>12, <3>2, HeldArmed
  <2>14. server' = [server EXCEPT ![p] = q]
    BY <1>1, <1>2, <1>3
  <2>15. Cardinality(OpenAt(q)') = Cardinality(OpenAt(q)) /\ Cardinality(OpenAt(q)) \in Nat
    BY <1>1, <1>3, <2>2, <2>4, <2>14, TurnCounts, OpenAtIs
  <2>16. core[q].total \in Int /\ core[q].total <= Cardinality(OpenAt(q))
    BY <1>1, <1>3 DEF CoresInv, CountTooLow, CoresTyped, Cores
  <2>17. k \in Int /\ k < Cardinality(OpenAt(q)') /\ k <= Cardinality(OpenAt(q)')
    <3>1. PICK c \in Nat : c = Cardinality(OpenAt(q))
      BY <2>15
    <3>2. PICK t \in Int : t = core[q].total
      BY <2>16
    <3>3. k = t - 1 /\ t <= c
      BY <2>6, <2>16, <3>1, <3>2
    <3>4. k \in Int /\ k < c /\ k <= c
      BY ONLY c \in Nat, t \in Int, <3>3
    <3> QED
      BY <2>15, <3>1, <3>4
  <2>18. u \in Records /\ u.st \in {"open", "shut"} /\ Len(u.got) <= u.sent
    BY <1>3, <2>4, <2>10, <2>11 DEF Fine
  <2>19. PICK a \in Arms : a = "level"
    BY DEF Arms
  <2>20. arm' = [arm EXCEPT ![p] = a] /\ Held(p, u, a, b)
    BY <2>2, <2>13, <2>19
  <2> QED
    BY ONLY CoresInv, q \in CoreSet, p \in Peers, a \in Arms, <1>2, <1>3, <2>2, <2>7, <2>8, <2>12, <2>14, <2>17, <2>18,
            <2>20, CoreTurn
<1> QED
  BY <1>7, <1>8

\* Every step of the processes and of their clients keeps the invariant.
LEMMA HttpEpollNext_Inv == CoresInv /\ [HttpEpollNext]_httpEpollVars => CoresInv'
<1> SUFFICES ASSUME CoresInv, [HttpEpollNext]_httpEpollVars PROVE CoresInv'
  OBVIOUS
<1>1. CASE \E p \in Peers : HttpEpollClient(p)
  BY <1>1, HttpEpollClient_Inv
<1>2. CASE \E q \in CoreSet : CoreStep(q)
  BY <1>2, EpollNews_Inv, TryLock_Inv, AcceptLocked_Inv, ServeIn_Inv, ServeOut_Inv DEF CoreStep
<1>3. CASE UNCHANGED httpEpollVars
  <2>1. /\ setup' = setup /\ peer' = peer /\ queue' = queue /\ down' = down
        /\ core' = core /\ accept_mtx' = accept_mtx /\ server' = server /\ arm' = arm
    BY <1>3 DEF httpEpollVars, sockVars
  <2>2. SockInv'
    BY <2>1 DEF CoresInv, CoresTyped, SockInv, Fine
  <2>3. CoresTyped'
    BY <2>1, <2>2 DEF CoresInv, CoresTyped, IsHttpEpoll, prog
  <2>4. \A q : OpenAt(q)' = OpenAt(q)
    BY <2>1 DEF OpenAt, Open
  <2>5. LockSurvives' /\ CountTooLow'
    BY <2>1, <2>4 DEF CoresInv, LockSurvives, CountTooLow, IsHttpEpoll, prog, ListenEvent
  <2>6. WhatStopsCores'
    BY <2>1 DEF CoresInv, WhatStopsCores, IsHttpEpoll, prog
  <2>7. ASSUME NEW x \in Peers, Holds(x) PROVE Holds(x)'
    BY ONLY <2>1, <2>7 DEF Holds, Held, Owes, One, Rcvd, SendKills, InEvent, OutEvent
  <2>8. \A x \in Peers : Unheard(peer[x]) => Unheard(peer[x])'
    BY <2>1 DEF Unheard, Rcvd
  <2> QED
    BY <2>1, <2>3, <2>4, <2>5, <2>6, <2>7, <2>8 DEF CoresInv, ListenEvent
<1> QED
  BY <1>1, <1>2, <1>3 DEF HttpEpollNext

\* What the invariant promises.
LEMMA CoresInvSound == CoresInv => HttpEpollSound
<1> SUFFICES ASSUME CoresInv PROVE HttpEpollSound
  OBVIOUS
<1>1. SockInv /\ core \in [CoreSet -> Cores] /\ accept_mtx \in CoreSet \cup {NoCore}
  BY DEF CoresInv, CoresTyped
<1>2. \A q \in CoreSet : \A p \in OpenAt(q) : p \in Peers /\ core[q].st = "up" /\ Held(p, peer[p], arm[p], core[q].batch)
  BY DEF OpenAt, Open, CoresInv, Holds
<1>3. HttpEpollTypeOK
  <2>1. SockTypeOK
    BY <1>1, SockInvTyped
  <2>2. \A q \in CoreSet : /\ core[q].st \in {"up", "ended", "killed"} /\ core[q].total \in Int
                           /\ core[q].st # "up" => OpenAt(q) = {}
                           /\ core[q].batch \subseteq [who : Peers \cup {Listener}, out : BOOLEAN]
    BY <1>1, <1>2 DEF Cores, CoreEvents
  <2> QED
    BY <2>1, <2>2 DEF HttpEpollTypeOK, CoresInv, CoresTyped, Arms
<1>4. ArmedOrHandled
  <2>1. ASSUME NEW q \in CoreSet, NEW p \in OpenAt(q)
        PROVE  arm[p] # "" \/ \E e \in core[q].batch : e.who = p
    <3>1. InEvent(p).who = p /\ OutEvent(p).who = p
      BY DEF InEvent, OutEvent
    <3> QED
      BY <1>2, <2>1, <3>1 DEF Held
  <2>2. ListenEvent.who = Listener
    BY DEF ListenEvent
  <2> QED
    BY <2>1, <2>2 DEF ArmedOrHandled, CoresInv
<1>5. PagesPaid
  BY DEF PagesPaid, CoresInv
<1> QED
  BY <1>3, <1>4, <1>5 DEF HttpEpollSound, CoresInv

\* Whatever order the processes take the lock and their events in: no process ends with the
\* lock, no client is forgotten between one-shot events, a page is sent for each request at
\* most, and a process ends only for the two reasons (nty_http_epoll.c:568, 593, 621).
THEOREM CoresAreSound ==
  SockInit /\ HttpEpollInit /\ IsHttpEpoll /\ [][HttpEpollNext]_httpEpollVars => []HttpEpollSound
<1>1. SockInit /\ HttpEpollInit /\ IsHttpEpoll => CoresInv
  BY CoresInit_Inv
<1>2. CoresInv /\ [HttpEpollNext]_httpEpollVars => CoresInv'
  BY HttpEpollNext_Inv
<1>3. CoresInv => HttpEpollSound
  BY CoresInvSound
<1> QED
  BY <1>1, <1>2, <1>3, PTL

-----------------------------------------------------------------------------
(* The server with a pool of workers *)

Tasks    == [of : Peers \cup {Listener}, fd : {0} \cup Fds]
HandsAre == [pc : {"idle", "add", "recv", "done", "drop", "close"}, fd : {0} \cup Fds,
             of : Peers \cup {Listener}, took : Seq(Peers \X Nat),
             ret : {"ok", "timeout", "notconn"}, seen : Int]

\* Of a client with record r: it has come, and what descriptor fd stood for when it was
\* open on it is still its own, unless it was closed.
Came(r) == r.st \in {"open", "shut"}
Keeps(r, fd) == Came(r) /\ (r.st = "open" => r.fd = fd)

\* A hand with state x and a buffer of n units works for a client, on what that or an
\* earlier owner of the descriptor sent; it met the end of the client, or that client is
\* closed.  The records of the clients are f.
Works(x, f, n) ==
  /\ x.pc = "add" => x.of \in Peers /\ Came(f[x.of])
  /\ x.pc \notin {"idle", "add"} => x.of \in Peers /\ Keeps(f[x.of], x.fd)
  /\ x.pc = "recv" => Len(x.took) < n /\ x.ret = "ok"
  /\ Len(x.took) <= n
  /\ x.pc \in {"drop", "close"} => x.ret = "notconn"
  /\ \A i \in 1..Len(x.took) : Keeps(f[x.took[i][1]], x.fd)
  /\ x.ret = "notconn" /\ x.pc # "idle" /\ f[x.of].st = "open" => f[x.of].end # "no"

\* A task e is for the listener or for a client that keeps its descriptor.
TaskKeeps(e, f) == e.of \in Peers => Keeps(f[e.of], e.fd)

\* A client that main, in state x, is adding is not heard of yet.
Adds(x, p) == x.pc = "add" /\ x.of = p
Unheardof(p) ==
  /\ \A i \in 1..Len(happened) : happened[i].of # p
  /\ \A i \in 1..Len(jobs) : jobs[i].of # p
  /\ \A h \in Hands : hand[h].pc \notin {"idle", "add"} => hand[h].of # p

\* A hand in state x is to count a client down.
Pending(x) == x.pc \in {"done", "drop"} /\ x.ret = "notconn"
Settled    == \A h \in Hands : ~Pending(hand[h])
Nobody     == \A p \in Peers : ~Came(peer[p])
Undropped  == \A p \in Peers : drops[p] = 0

\* With one client that is counted down once, what curfds is.
Counted ==
  /\ hand[MainHand].pc = "add" => curfds = 1 /\ hand[MainHand].seen = 1 /\ Settled /\ Undropped
  /\ Nobody => curfds = 1
  /\ hand[MainHand].pc # "add" /\ ~Nobody =>
       \/ curfds = 2 /\ Settled /\ Undropped
       \/ /\ curfds = 2 /\ ~Undropped
          /\ \E h \in Hands : /\ \A g \in Hands : Pending(hand[g]) => g = h
                              /\ hand[h].pc = "drop" => hand[h].seen = 2
       \/ curfds = 1 /\ Settled /\ ~Undropped

Crowded == \E p, q \in Peers : p # q /\ Came(peer[p]) /\ Came(peer[q])
Twice   == \E p \in Peers : drops[p] >= 2

MulTyped ==
  /\ SockInv /\ IsMul /\ edges \in Seq(Peers \cup {Listener})
  /\ happened \in Seq(Tasks) /\ jobs \in Seq(Tasks)
  /\ hand \in [Hands -> HandsAre] /\ curfds \in Int /\ nRun \in BOOLEAN
  /\ drops \in [Peers -> Nat] /\ cutby \in [Peers -> Peers \cup {Listener}]
MulUnits ==
  /\ CutByStrangers /\ OthersAreGone
  /\ \A p \in Peers : \A i \in 1..Len(peer[p].got) : peer[p].got[i][1] \in Peers
MulLists ==
  /\ \A i \in 1..Len(edges) : edges[i] \in Peers => Came(peer[edges[i]])
  /\ \A i \in 1..Len(happened) : TaskKeeps(happened[i], peer)
  /\ \A i \in 1..Len(jobs) : jobs[i].of \in Peers /\ TaskKeeps(jobs[i], peer)
MulHands == \A h \in Hands : Works(hand[h], peer, setup.buf) /\ (hand[h].pc = "add" => h = MainHand)
MulFresh ==
  \A p \in Peers : /\ Adds(hand[MainHand], p) => Unheardof(p)
                   /\ drops[p] > 0 => Came(peer[p])
MulCount == ~Crowded /\ ~Twice => Counted /\ down # "killed"

MulInv == MulTyped /\ MulUnits /\ MulLists /\ MulHands /\ MulFresh /\ MulCount

\* The invariant of the pool holds at the start.
LEMMA MulInit_Inv == MulPortInit /\ IsMul => MulInv
<1> SUFFICES ASSUME MulPortInit, IsMul PROVE MulInv
  OBVIOUS
<1>1. SockInv /\ setup.buf \in Nat \ {0} /\ down = "up"
  BY SockInit_Inv, TeachAssumption DEF MulPortInit, SockInit
<1>2. \A p \in Peers : peer[p] = NoBody
  BY DEF MulPortInit, SockInit
<1>3. IdleHand \in HandsAre /\ IdleHand.pc = "idle" /\ IdleHand.took = <<>> /\ IdleHand.ret = "ok"
  <2>1. IdleHand = [pc |-> "idle", fd |-> 0, of |-> Listener, took |-> <<>>, ret |-> "ok", seen |-> 0]
    BY DEF IdleHand
  <2>2. <<>> \in Seq(Peers \X Nat)
    OBVIOUS
  <2> QED
    BY <2>1, <2>2 DEF HandsAre
<1>4. /\ edges = <<>> /\ happened = <<>> /\ jobs = <<>> /\ curfds = 1 /\ nRun = FALSE
      /\ \A h \in Hands : hand[h] = IdleHand
      /\ \A p \in Peers : drops[p] = 0
  BY Zenon DEF MulPortInit
<1>5. MulTyped
  <2>1. hand \in [Hands -> HandsAre]
    <3>1. hand = [h \in Hands |-> IdleHand]
      BY DEF MulPortInit
    <3> QED
      BY <1>3, <3>1
  <2>2. drops \in [Peers -> Nat] /\ cutby \in [Peers -> Peers \cup {Listener}]
    <3>1. drops = [p \in Peers |-> 0] /\ cutby = [p \in Peers |-> Listener]
      BY DEF MulPortInit
    <3> QED
      BY <3>1
  <2>3. edges \in Seq(Peers \cup {Listener}) /\ happened \in Seq(Tasks) /\ jobs \in Seq(Tasks)
    BY <1>4
  <2> QED
    <3>1. SockInv /\ IsMul /\ curfds \in Int /\ nRun \in BOOLEAN
      <4>1. SockInv /\ IsMul /\ nRun \in BOOLEAN
        BY <1>1, <1>4, Zenon
      <4>2. curfds \in Int
        <5>1. curfds = 1
          BY <1>4
        <5> QED
          BY ONLY <5>1
      <4> QED
        BY ONLY <4>1, <4>2
    <3> QED
      BY ONLY <3>1, <2>1, <2>2, <2>3 DEF MulTyped
<1>6. NoBody.st = "off" /\ NoBody.got = <<>>
  BY Zenon DEF NoBody
<1>7. MulUnits
  BY <1>2, <1>6 DEF MulUnits, CutByStrangers, OthersAreGone
<1>8. MulLists
  BY <1>4 DEF MulLists
<1>9. MulHands
  <2>1. Works(IdleHand, peer, setup.buf)
    BY <1>1, <1>3 DEF Works
  <2> QED
    BY <1>3, <1>4, <2>1 DEF MulHands
<1>10. MainHand \in Hands
  BY DEF Hands
<1>11. MulFresh
  BY <1>3, <1>4, <1>10 DEF MulFresh, Adds
<1>12. MulCount
  <2>1. Nobody
    BY <1>2, <1>6 DEF Nobody, Came
  <2> QED
    BY <1>1, <1>3, <1>4, <1>10, <2>1 DEF MulCount, Counted
<1> QED
  BY <1>5, <1>7, <1>8, <1>9, <1>11, <1>12 DEF MulInv

\* What a step may do to client p: who has come stays, and a connection keeps its
\* descriptor, its end and what it was sent until it is closed.
Goes(p) ==
  /\ Came(peer[p]) => Came(peer'[p])
  /\ Came(peer[p]) /\ peer'[p].st = "open" =>
       peer[p].st = "open" /\ peer'[p].fd = peer[p].fd /\ (peer[p].end # "no" => peer'[p].end # "no")

\* What is kept stays so.
LEMMA KeepsOn ==
  ASSUME NEW p \in Peers, Goes(p), NEW fd, Keeps(peer[p], fd)
  PROVE  Keeps(peer'[p], fd)
BY DEF Goes, Keeps

\* A hand goes on working for whom it works.
LEMMA WorksOn ==
  ASSUME MulTyped, \A p \in Peers : Goes(p), NEW x \in HandsAre, NEW n, Works(x, peer, n)
  PROVE  Works(x, peer', n)
<1>1. /\ x.pc = "add" => Came(peer'[x.of])
      /\ x.pc \notin {"idle", "add"} => Keeps(peer'[x.of], x.fd)
  BY KeepsOn DEF Works, Goes
<1>2. ASSUME NEW i \in 1..Len(x.took) PROVE Keeps(peer'[x.took[i][1]], x.fd)
  <2>1. x.took[i] \in Peers \X Nat
    BY DEF HandsAre
  <2>2. Keeps(peer[x.took[i][1]], x.fd)
    BY DEF Works
  <2> QED
    BY <2>1, <2>2, KeepsOn
<1>3. ASSUME x.ret = "notconn", x.pc # "idle", peer'[x.of].st = "open" PROVE peer'[x.of].end # "no"
  <2>1. x.of \in Peers /\ Came(peer[x.of])
    BY <1>3 DEF Works, Keeps
  <2> QED
    BY <1>3, <2>1 DEF Goes, Works
<1> QED
  BY <1>1, <1>2, <1>3 DEF Works

\* What a hand does in a step leaves the others at their work.
LEMMA HandTurn ==
  ASSUME MulInv, \A p \in Peers : Goes(p), setup' = setup, NEW h \in Hands, NEW y \in HandsAre,
         Works(y, peer', setup.buf), y.pc = "add" => h = MainHand,
         hand' = [hand EXCEPT ![h] = y]
  PROVE  /\ hand' \in [Hands -> HandsAre] /\ MulHands'
         /\ \A g \in Hands : hand'[g] = IF g = h THEN y ELSE hand[g]
<1>1. MulTyped /\ hand \in [Hands -> HandsAre]
  BY DEF MulInv, MulTyped
<1>2. hand' \in [Hands -> HandsAre] /\ \A g \in Hands : hand'[g] = IF g = h THEN y ELSE hand[g]
  BY <1>1
<1>3. \A g \in Hands : Works(hand[g], peer, setup.buf) /\ (hand[g].pc = "add" => g = MainHand)
  BY DEF MulInv, MulHands
<1>4. \A g \in Hands : hand[g] \in HandsAre
  BY <1>1
<1>5. \A g \in Hands : Works(hand'[g], peer', setup.buf) /\ (hand'[g].pc = "add" => g = MainHand)
  <2>1. ASSUME NEW g \in Hands PROVE Works(hand[g], peer', setup.buf)
    BY <1>1, <1>3, <1>4, WorksOn
  <2> QED
    BY <1>2, <1>3, <2>1
<1>6. MulHands'
  <2>1. setup'.buf = setup.buf
    OBVIOUS
  <2>2. \A g \in Hands : Works(hand'[g], peer', setup'.buf) /\ (hand'[g].pc = "add" => g = MainHand)
    BY <1>5, <2>1
  <2> QED
    BY <2>2 DEF MulHands, Works
<1> QED
  BY <1>2, <1>6

\* A step that lets the hands alone leaves them at their work.
LEMMA HandsStay ==
  ASSUME MulInv, \A p \in Peers : Goes(p), setup' = setup, hand' = hand
  PROVE  MulHands'
<1>1. MulTyped /\ \A g \in Hands : hand[g] \in HandsAre
  BY DEF MulInv, MulTyped
<1>2. ASSUME NEW g \in Hands
      PROVE  Works(hand'[g], peer', setup'.buf) /\ (hand'[g].pc = "add" => g = MainHand)
  <2>1. Works(hand[g], peer, setup.buf) /\ (hand[g].pc = "add" => g = MainHand)
    BY DEF MulInv, MulHands
  <2>2. Works(hand[g], peer', setup.buf)
    BY <1>1, <2>1, WorksOn
  <2> QED
    BY <2>1, <2>2
<1> QED
  BY <1>2 DEF MulHands, Works

\* What was told, what happened and the jobs are about clients that keep what they had,
\* and so is what is added for one that has come.
LEMMA ListsOn ==
  ASSUME MulInv, \A p \in Peers : Goes(p),
         \A i \in 1..Len(edges') : \/ \E j \in 1..Len(edges) : edges'[i] = edges[j]
                                   \/ edges'[i] \in Peers => Came(peer'[edges'[i]]),
         \A i \in 1..Len(happened') : \/ \E j \in 1..Len(happened) : happened'[i] = happened[j]
                                      \/ TaskKeeps(happened'[i], peer'),
         \A i \in 1..Len(jobs') : \/ \E j \in 1..Len(jobs) : jobs'[i] = jobs[j]
                                  \/ /\ jobs'[i].of \in Peers
                                     /\ \E j \in 1..Len(happened) : jobs'[i] = happened[j]
  PROVE  MulLists'
<1>1. /\ \A i \in 1..Len(edges) : edges[i] \in Peers => Came(peer[edges[i]])
      /\ \A i \in 1..Len(happened) : TaskKeeps(happened[i], peer)
      /\ \A i \in 1..Len(jobs) : jobs[i].of \in Peers /\ TaskKeeps(jobs[i], peer)
  BY DEF MulInv, MulLists
<1>2. \A e : TaskKeeps(e, peer) => TaskKeeps(e, peer')
  BY KeepsOn DEF TaskKeeps
<1>3. \A i \in 1..Len(edges') : edges'[i] \in Peers => Came(peer'[edges'[i]])
  BY <1>1 DEF Goes
<1>4. \A i \in 1..Len(happened') : TaskKeeps(happened'[i], peer')
  BY <1>1, <1>2
<1>5. \A i \in 1..Len(jobs') : jobs'[i].of \in Peers /\ TaskKeeps(jobs'[i], peer')
  BY <1>1, <1>2
<1> QED
  BY <1>3, <1>4, <1>5 DEF MulLists, TaskKeeps, Keeps, Came

\* A step that closes nothing and answers nobody keeps what is known of connections
\* that are closed and of what was sent.
LEMMA UnitsOn ==
  ASSUME MulInv, setup' = setup, cutby' = cutby,
         \A p \in Peers : /\ peer'[p].got = peer[p].got
                          /\ peer[p].st = "shut" <=> peer'[p].st = "shut"
                          /\ peer[p].st = "shut" => peer'[p].end = peer[p].end
  PROVE  MulUnits'
<1>1. /\ CutByStrangers /\ OthersAreGone /\ IsMul
      /\ \A p \in Peers : \A i \in 1..Len(peer[p].got) : peer[p].got[i][1] \in Peers
      /\ \A p \in Peers : DOMAIN peer[p].got = 1..Len(peer[p].got)
  <2>1. \A p \in Peers : peer[p].got \in Seq((Peers \cup {Listener}) \X Nat)
    BY DEF MulInv, MulTyped, SockInv, Records
  <2> QED
    BY <2>1 DEF MulInv, MulTyped, MulUnits
<1>2. CutByStrangers'
  BY <1>1 DEF CutByStrangers, IsMul, prog
<1>3. OthersAreGone'
  BY <1>1 DEF OthersAreGone, IsMul, prog
<1> QED
  BY <1>1, <1>2, <1>3 DEF MulUnits

\* Whom main is adding stays unheard of when a hand goes on with its own work.
LEMMA FreshOn ==
  ASSUME MulInv, \A p \in Peers : Goes(p), NEW h \in Hands, NEW y,
         \A g \in Hands : hand'[g] = IF g = h THEN y ELSE hand[g],
         y.pc # "add", hand[h].pc # "add",
         y.pc # "idle" => y.of = hand[h].of /\ hand[h].pc # "idle",
         happened' = happened, jobs' = jobs, \A p \in Peers : drops'[p] > 0 => Came(peer[p])
  PROVE  MulFresh'
<1>1. MainHand \in Hands
  BY DEF Hands
<1>2. \A p \in Peers : Adds(hand'[MainHand], p) => Adds(hand[MainHand], p)
  BY <1>1 DEF Adds
<1>3. \A p \in Peers : Unheardof(p) => Unheardof(p)'
  BY DEF Unheardof
<1> QED
  BY <1>2, <1>3 DEF MulFresh, MulInv, Goes

\* A step in which no count is made, and nobody comes, leaves the count right; h is the
\* hand that does something, if one does.
LEMMA CountOn ==
  ASSUME MulInv, curfds' = curfds, drops' = drops, down' = down,
         \A p \in Peers : Came(peer'[p]) <=> Came(peer[p]),
         \A g \in Hands : \/ hand'[g] = hand[g]
                          \/ hand[g].pc # "add" /\ hand'[g].pc \notin {"add", "drop"} /\ ~Pending(hand'[g])
  PROVE  MulCount'
<1>1. MainHand \in Hands
  BY DEF Hands
<1>2. (Crowded' <=> Crowded) /\ (Twice' <=> Twice)
  BY DEF Crowded, Twice, Came
<1>3. (Nobody' <=> Nobody) /\ (Undropped' <=> Undropped)
  BY DEF Nobody, Undropped, Came
<1>4. \A g \in Hands : Pending(hand'[g]) => Pending(hand[g]) /\ hand'[g] = hand[g]
  OBVIOUS
<1>5. Settled => Settled'
  BY <1>4 DEF Settled, Pending
<1>6. (hand'[MainHand].pc = "add" <=> hand[MainHand].pc = "add")
      /\ (hand'[MainHand].pc = "add" => hand'[MainHand] = hand[MainHand])
  BY <1>1
<1>7. ASSUME NEW h \in Hands, \A g \in Hands : Pending(hand[g]) => g = h,
             hand[h].pc = "drop" => hand[h].seen = 2
      PROVE  /\ \A g \in Hands : Pending(hand'[g]) => g = h
             /\ hand'[h].pc = "drop" => hand'[h].seen = 2
  BY <1>4, <1>7
<1>8. ASSUME Counted PROVE Counted'
  <2>1. /\ hand[MainHand].pc = "add" => curfds = 1 /\ hand[MainHand].seen = 1 /\ Settled /\ Undropped
        /\ Nobody => curfds = 1
        /\ hand[MainHand].pc # "add" /\ ~Nobody =>
             \/ curfds = 2 /\ Settled /\ Undropped
             \/ /\ curfds = 2 /\ ~Undropped
                /\ \E h \in Hands : /\ \A g \in Hands : Pending(hand[g]) => g = h
                                    /\ hand[h].pc = "drop" => hand[h].seen = 2
             \/ curfds = 1 /\ Settled /\ ~Undropped
    BY <1>8 DEF Counted
  <2>2. /\ hand'[MainHand].pc = "add" => curfds' = 1 /\ hand'[MainHand].seen = 1 /\ Settled' /\ Undropped'
        /\ Nobody' => curfds' = 1
    BY <1>3, <1>5, <1>6, <2>1
  <2>3. ASSUME hand'[MainHand].pc # "add", ~Nobody'
        PROVE  \/ curfds' = 2 /\ Settled' /\ Undropped'
               \/ /\ curfds' = 2 /\ ~Undropped'
                  /\ \E h \in Hands : /\ \A g \in Hands : Pending(hand'[g]) => g = h
                                      /\ hand'[h].pc = "drop" => hand'[h].seen = 2
               \/ curfds' = 1 /\ Settled' /\ ~Undropped'
    BY <1>3, <1>5, <1>6, <1>7, <2>1, <2>3
  <2> QED
    BY <2>2, <2>3 DEF Counted, Pending
<1> QED
  BY <1>2, <1>8 DEF MulCount, MulInv

\* A hand that works has a client; in a step that finds only one client it is that one.
LEMMA HandHas ==
  ASSUME MulInv, NEW h \in Hands, hand[h].pc \notin {"idle", "add"}
  PROVE  hand[h].of \in Peers /\ Came(peer[hand[h].of]) /\ ~Nobody
BY DEF MulInv, MulHands, Works, Keeps, Nobody

\* While one client is being added no other is worked for.
LEMMA NoneWhileAdding ==
  ASSUME MulInv, ~Crowded, hand[MainHand].pc = "add", NEW h \in Hands
  PROVE  hand[h].pc \in {"idle", "add"}
<1>1. MainHand \in Hands
  BY DEF Hands
<1>2. hand[MainHand].of \in Peers /\ Came(peer[hand[MainHand].of])
  BY <1>1 DEF MulInv, MulHands, Works
<1>3. Unheardof(hand[MainHand].of)
  BY <1>2 DEF MulInv, MulFresh, Adds
<1>4. SUFFICES ASSUME hand[h].pc \notin {"idle", "add"} PROVE FALSE
  OBVIOUS
<1>5. hand[h].of # hand[MainHand].of
  BY <1>3, <1>4 DEF Unheardof
<1> QED
  BY <1>2, <1>4, <1>5, HandHas DEF Crowded

\* What is told once more is about who it is told of.
LEMMA ToldIs ==
  ASSUME MulTyped, NEW x \in Peers \cup {Listener}
  PROVE  /\ Told(x) \in Seq(Peers \cup {Listener})
         /\ \A i \in 1..Len(Told(x)) : Told(x)[i] = x \/ \E j \in 1..Len(edges) : Told(x)[i] = edges[j]
<1>1. edges \in Seq(Peers \cup {Listener})
  BY DEF MulTyped
<1>2. /\ Append(edges, x) \in Seq(Peers \cup {Listener}) /\ Len(Append(edges, x)) = Len(edges) + 1
      /\ Append(edges, x)[Len(edges) + 1] = x
      /\ \A i \in 1..Len(edges) : Append(edges, x)[i] = edges[i]
  BY <1>1, AppendProperties
<1>3. \A i \in 1..(Len(edges) + 1) : i \in 1..Len(edges) \/ i = Len(edges) + 1
  BY <1>1
<1>4. Told(x) = edges \/ Told(x) = Append(edges, x)
  BY DEF Told
<1> QED
  BY <1>1, <1>2, <1>3, <1>4

\* What is told no longer of x was told before.
LEMMA UntoldIs ==
  ASSUME MulTyped, NEW x
  PROVE  /\ Untold(x) \in Seq(Peers \cup {Listener})
         /\ \A i \in 1..Len(Untold(x)) : \E j \in 1..Len(edges) : Untold(x)[i] = edges[j]
<1>1. edges \in Seq(Peers \cup {Listener}) /\ Len(edges) \in Nat
  BY DEF MulTyped
<1>2. CASE ~Contains(edges, x)
  BY <1>1, <1>2 DEF Untold
<1>3. CASE Contains(edges, x)
  <2>1. \E i \in 1..Len(edges) : edges[i] = x
    BY <1>3 DEF Contains
  <2>2. PICK k \in 1..Len(edges) : k = CHOOSE i \in 1..Len(edges) : edges[i] = x
    BY <2>1
  <2>3. Untold(x) = SubSeq(edges, 1, k - 1) \o SubSeq(edges, k + 1, Len(edges))
    BY <1>3, <2>2 DEF Untold, RemoveAt
  <2> DEFINE s == SubSeq(edges, 1, k - 1)
             t == SubSeq(edges, k + 1, Len(edges))
  <2>4. /\ s \in Seq(Peers \cup {Listener}) /\ Len(s) = k - 1
        /\ \A i \in 1..(k - 1) : s[i] = edges[i]
    <3>1. k - 1 \in 0..Len(edges) /\ edges \in Seq(Peers \cup {Listener})
      BY <1>1, <2>2
    <3> QED
      BY ONLY <3>1, RestOfSeq
  <2>5. /\ t \in Seq(Peers \cup {Listener}) /\ Len(t) = Len(edges) - k
        /\ \A i \in 1..(Len(edges) - k) : t[i] = edges[k + i]
    <3>1. k \in 0..Len(edges) /\ edges \in Seq(Peers \cup {Listener})
      BY <1>1, <2>2
    <3> QED
      BY ONLY <3>1, RestOfSeq
  <2> HIDE DEF s, t
  <2>6. /\ s \o t \in Seq(Peers \cup {Listener}) /\ Len(s \o t) = Len(s) + Len(t)
        /\ \A i \in 1..(Len(s) + Len(t)) : (s \o t)[i] = IF i <= Len(s) THEN s[i] ELSE t[i - Len(s)]
    BY <2>4, <2>5, ConcatProperties
  <2>7. ASSUME NEW i \in 1..Len(s \o t) PROVE \E j \in 1..Len(edges) : (s \o t)[i] = edges[j]
    <3>1. CASE i <= k - 1
      <4>1. i \in 1..Len(edges) /\ i \in 1..(k - 1) /\ i \in 1..(Len(s) + Len(t)) /\ i <= Len(s)
        BY <1>1, <2>2, <2>4, <2>5, <2>6, <3>1
      <4> QED
        BY <2>4, <2>6, <4>1
    <3>2. CASE i > k - 1
      <4>1. /\ i \in 1..(Len(s) + Len(t)) /\ ~(i <= Len(s)) /\ i - Len(s) \in 1..(Len(edges) - k)
            /\ k + (i - Len(s)) \in 1..Len(edges)
        <5>1. /\ Len(edges) \in Nat /\ k \in 1..Len(edges) /\ Len(s) = k - 1 /\ Len(t) = Len(edges) - k
              /\ i \in 1..(Len(s) + Len(t)) /\ i > k - 1
          BY <1>1, <2>2, <2>4, <2>5, <2>6, <3>2
        <5> QED
          BY ONLY <5>1
      <4> QED
        BY <2>4, <2>5, <2>6, <4>1
    <3> QED
      BY <1>1, <2>2, <2>6, <3>1, <3>2
  <2> QED
    BY <2>3, <2>6, <2>7 DEF s, t
<1> QED
  BY <1>2, <1>3

\* A client that acts keeps the invariant.
LEMMA MulClient_Inv ==
  ASSUME MulInv, NEW p \in Peers, MulClient(p)
  PROVE  MulInv'
<1>1. MulTyped /\ SockInv /\ peer \in [Peers -> Records]
  BY DEF MulInv, MulTyped, SockInv
<1>2. Connect(p) \/ SendOrQuit(p)
  BY DEF MulClient
<1>3. PICK r : /\ Fine(p, r) /\ peer' = [peer EXCEPT ![p] = r]
               /\ setup' = setup /\ down' = down /\ SockInv'
               /\ r.fd = peer[p].fd /\ r.got = peer[p].got
               /\ \/ peer[p].st = "off" /\ r.st = "queued" /\ r.end = peer[p].end
                  \/ r.st = peer[p].st /\ peer[p].end = "no" /\ peer[p].st \in {"queued", "open"}
  BY <1>1, <1>2, ClientDoes
<1>4. /\ happened' = happened /\ jobs' = jobs /\ hand' = hand /\ curfds' = curfds /\ nRun' = nRun
      /\ drops' = drops /\ cutby' = cutby
  BY DEF MulClient
<1>5. \A q \in Peers : peer'[q] = IF q = p THEN r ELSE peer[q]
  BY <1>1, <1>3
<1>6. \A q \in Peers : /\ Goes(q) /\ (Came(peer'[q]) <=> Came(peer[q])) /\ peer'[q].got = peer[q].got
                       /\ peer[q].st = "shut" <=> peer'[q].st = "shut"
                       /\ peer[q].st = "shut" => peer'[q].end = peer[q].end
  BY <1>3, <1>5 DEF Goes, Came
<1>7. /\ edges' \in Seq(Peers \cup {Listener})
      /\ \A i \in 1..Len(edges') : \/ \E j \in 1..Len(edges) : edges'[i] = edges[j]
                                   \/ edges'[i] \in Peers => Came(peer'[edges'[i]])
  <2>1. CASE edges' = Told(Listener)
    BY <1>1, <2>1, ToldIs, TeachAssumption
  <2>2. CASE edges' = edges
    BY <1>1, <2>2 DEF MulTyped
  <2>3. CASE peer[p].st = "open" /\ edges' = Told(p)
    <3>1. Came(peer'[p])
      BY <1>6, <2>3 DEF Came
    <3> QED
      BY <1>1, <2>3, <3>1, ToldIs
  <2> QED
    BY <2>1, <2>2, <2>3 DEF MulClient
<1>8. MulTyped'
  BY <1>1, <1>3, <1>4, <1>7 DEF MulTyped, IsMul, prog, Tasks, HandsAre, Fds
<1>9. MulUnits'
  BY <1>3, <1>4, <1>6, UnitsOn
<1>10. MulLists'
  BY <1>4, <1>6, <1>7, ListsOn
<1>11. MulHands'
  BY <1>3, <1>4, <1>6, HandsStay
<1>12. MulFresh'
  BY <1>4, <1>6 DEF MulFresh, MulInv, Adds, Unheardof
<1>13. MulCount'
  BY <1>3, <1>4, <1>6, CountOn
<1> QED
  BY <1>8, <1>9, <1>10, <1>11, <1>12, <1>13 DEF MulInv

\* A step that leaves the clients alone is nothing to them.
LEMMA NobodyGoes ==
  ASSUME peer' = peer
  PROVE  \A p \in Peers : Goes(p) /\ (Came(peer'[p]) <=> Came(peer[p]))
BY DEF Goes

\* So it is to their connections.
LEMMA SockStays ==
  ASSUME SockInv, peer' = peer, queue' = queue, setup' = setup, down' = down
  PROVE  SockInv'
<1>1. down' \in Downs /\ peer' \in [Peers -> Records] /\ \A p \in Peers : Fine(p, peer'[p])
  BY DEF SockInv
<1> QED
  BY <1>1, ManyTurns

\* What epoll_wait returns was told; main ends only after two clients or two counts.
LEMMA EpollWaits_Inv ==
  ASSUME MulInv, EpollWaits
  PROVE  MulInv'
<1>1. MulTyped /\ SockInv /\ edges \in Seq(Peers \cup {Listener}) /\ MainHand \in Hands
  BY DEF MulInv, MulTyped, Hands
<1>2. /\ setup' = setup /\ peer' = peer /\ queue' = queue /\ jobs' = jobs /\ hand' = hand
      /\ curfds' = curfds /\ nRun' = nRun /\ drops' = drops /\ cutby' = cutby
      /\ down = "up" /\ hand[MainHand].pc = "idle"
  BY DEF EpollWaits, MainIdle
<1>3. \A p \in Peers : Goes(p) /\ (Came(peer'[p]) <=> Came(peer[p]))
  BY <1>2, NobodyGoes
<1>4. MulUnits'
  BY <1>2, UnitsOn
<1>5. MulHands'
  BY <1>2, <1>3, HandsStay
<1>6. MulFresh'
  BY <1>1, <1>2 DEF MulFresh, MulInv, Adds
<1>7. CASE curfds <= 0 /\ down' = "killed" /\ edges' = edges /\ happened' = happened
  <2>1. SockInv' /\ MulTyped'
    <3>1. SockInv'
      <4>1. down' \in Downs /\ peer' \in [Peers -> Records] /\ \A p \in Peers : Fine(p, peer'[p])
        BY <1>1, <1>2, <1>7 DEF Downs, SockInv
      <4> QED
        BY <1>1, <1>2, <4>1, ManyTurns
    <3> QED
      BY <1>1, <1>2, <1>7, <3>1 DEF MulTyped, Tasks, HandsAre, IsMul, prog, Fds
  <2>2. MulLists'
    BY <1>2, <1>7 DEF MulLists, MulInv
  <2>3. MulCount'
    <3>1. SUFFICES ASSUME ~Crowded, ~Twice PROVE FALSE
      BY <1>2 DEF MulCount, Crowded, Twice
    <3>2. Counted
      BY <3>1 DEF MulInv, MulCount
    <3>3. curfds = 1 \/ curfds = 2
      BY <1>2, <3>2 DEF Counted
    <3> QED
      BY <1>7, <3>3
  <2> QED
    BY <1>4, <1>5, <1>6, <2>1, <2>2, <2>3 DEF MulInv
<1>8. CASE curfds > 0 /\ edges # <<>> /\ down' = down
  <2> DEFINE n == IF curfds < Len(edges) THEN curfds ELSE Len(edges)
             task(i) == [of |-> edges[i], fd |-> IF edges[i] = Listener THEN 0 ELSE peer[edges[i]].fd]
  <2>1. edges' = SubSeq(edges, n + 1, Len(edges)) /\ happened' = [i \in 1..n |-> task(i)]
    <3>1. ~(curfds <= 0)
      <4>1. curfds \in Int
        BY <1>1 DEF MulTyped
      <4> QED
        BY <1>8, <4>1
    <3> QED
      BY <3>1, Zenon DEF EpollWaits
  <2>2. n \in 0..Len(edges) /\ Len(edges) \in Nat /\ \A i \in 1..Len(edges) : edges[i] \in Peers \cup {Listener}
    <3>1. curfds \in Int /\ Len(edges) \in Nat
      BY <1>1 DEF MulTyped
    <3> QED
      BY <1>1, <1>8, <3>1
  <2> HIDE DEF n
  <2>3. /\ edges' \in Seq(Peers \cup {Listener}) /\ Len(edges') = Len(edges) - n
        /\ \A i \in 1..(Len(edges) - n) : edges'[i] = edges[n + i]
    <3>1. edges \in Seq(Peers \cup {Listener}) /\ n \in 0..Len(edges)
          /\ edges' = SubSeq(edges, n + 1, Len(edges))
      BY <1>1, <2>1, <2>2
    <3> QED
      BY ONLY <3>1, RestOfSeq
  <2>4. \A i \in 1..Len(edges') : n + i \in 1..Len(edges)
    BY <2>2, <2>3
  <2>5. \A i \in 1..n : /\ task(i) \in Tasks /\ task(i).of = edges[i]
                        /\ edges[i] \in Peers => task(i).fd = peer[edges[i]].fd
    <3>1. ASSUME NEW i \in 1..n
          PROVE  task(i) \in Tasks /\ task(i).of = edges[i]
                 /\ (edges[i] \in Peers => task(i).fd = peer[edges[i]].fd)
      <4>1. edges[i] \in Peers \cup {Listener}
        BY <2>2
      <4>2. edges[i] \in Peers => peer[edges[i]].fd \in {0} \cup Fds /\ edges[i] # Listener
        BY <1>1, TeachAssumption DEF SockInv, Records
      <4>3. (IF edges[i] = Listener THEN 0 ELSE peer[edges[i]].fd) \in {0} \cup Fds
        BY <4>1, <4>2
      <4> QED
        BY <4>1, <4>2, <4>3 DEF Tasks
    <3> QED
      BY <3>1
  <2> HIDE DEF task
  <2>6. happened' \in Seq(Tasks) /\ Len(happened') = n /\ \A i \in 1..n : happened'[i] = task(i)
    <3>1. n \in Nat /\ happened' = [i \in 1..n |-> task(i)] /\ \A i \in 1..n : task(i) \in Tasks
      BY <2>1, <2>2, <2>5
    <3> QED
      BY ONLY <3>1
  <2>7. \A i \in 1..n : TaskKeeps(task(i), peer')
    <3>1. ASSUME NEW i \in 1..n, edges[i] \in Peers PROVE Keeps(peer[edges[i]], peer[edges[i]].fd)
      <4>1. Came(peer[edges[i]])
        BY <2>2, <3>1 DEF MulInv, MulLists
      <4> QED
        BY <4>1 DEF Keeps
    <3> QED
      BY <1>2, <2>5, <3>1 DEF TaskKeeps
  <2>8. MulLists'
    <3>1. \A i \in 1..Len(edges') : \E j \in 1..Len(edges) : edges'[i] = edges[j]
      BY <2>3, <2>4
    <3>2. \A i \in 1..Len(happened') : TaskKeeps(happened'[i], peer')
      BY <2>6, <2>7
    <3> QED
      BY <1>2, <1>3, <3>1, <3>2, ListsOn
  <2>9. MulTyped'
    <3>1. SockInv'
      BY <1>1, <1>2, <1>8, SockStays
    <3> QED
      BY <1>1, <1>2, <2>3, <2>6, <3>1 DEF MulTyped, Tasks, HandsAre, IsMul, prog, Fds
  <2>10. MulCount'
    BY <1>2, <1>3, <1>8, CountOn
  <2> QED
    BY <1>4, <1>5, <1>6, <2>8, <2>9, <2>10 DEF MulInv
<1> QED
  BY <1>7, <1>8 DEF EpollWaits

\* Of what happened, the first is looked at and the rest is left.
LEMMA HappenedIs ==
  ASSUME MulInv, happened # <<>>
  PROVE  /\ Len(happened) >= 1 /\ Head(happened) = happened[1] /\ happened[1] \in Tasks
         /\ TaskKeeps(happened[1], peer)
         /\ Tail(happened) \in Seq(Tasks)
         /\ \A i \in 1..Len(Tail(happened)) : \E j \in 1..Len(happened) : Tail(happened)[i] = happened[j]
<1>1. happened \in Seq(Tasks) /\ Len(happened) \in Nat
  BY DEF MulInv, MulTyped
<1>2. Len(happened) >= 1
  BY <1>1
<1>3. /\ Head(happened) = happened[1] /\ Tail(happened) \in Seq(Tasks)
      /\ Len(Tail(happened)) = Len(happened) - 1
      /\ \A i \in 1..Len(Tail(happened)) : Tail(happened)[i] = happened[i + 1]
  BY <1>1, HeadTailProperties
<1>4. \A i \in 1..Len(Tail(happened)) : i + 1 \in 1..Len(happened)
  BY <1>1, <1>3
<1>5. TaskKeeps(happened[1], peer) /\ happened[1] \in Tasks
  BY <1>1, <1>2 DEF MulInv, MulLists
<1> QED
  BY <1>2, <1>3, <1>4, <1>5

\* So are the jobs.
LEMMA JobsAre ==
  ASSUME MulInv, jobs # <<>>
  PROVE  /\ Len(jobs) >= 1 /\ Head(jobs) = jobs[1] /\ jobs[1] \in Tasks
         /\ jobs[1].of \in Peers /\ TaskKeeps(jobs[1], peer)
         /\ Tail(jobs) \in Seq(Tasks)
         /\ \A i \in 1..Len(Tail(jobs)) : \E j \in 1..Len(jobs) : Tail(jobs)[i] = jobs[j]
<1>1. jobs \in Seq(Tasks) /\ Len(jobs) \in Nat
  BY DEF MulInv, MulTyped
<1>2. Len(jobs) >= 1
  BY <1>1
<1>3. /\ Head(jobs) = jobs[1] /\ Tail(jobs) \in Seq(Tasks)
      /\ Len(Tail(jobs)) = Len(jobs) - 1
      /\ \A i \in 1..Len(Tail(jobs)) : Tail(jobs)[i] = jobs[i + 1]
  BY <1>1, HeadTailProperties
<1>4. \A i \in 1..Len(Tail(jobs)) : i + 1 \in 1..Len(jobs)
  BY <1>1, <1>3
<1>5. TaskKeeps(jobs[1], peer) /\ jobs[1] \in Tasks /\ jobs[1].of \in Peers
  BY <1>1, <1>2 DEF MulInv, MulLists
<1> QED
  BY <1>2, <1>3, <1>4, <1>5

\* A hand that has nothing to do.
LEMMA IdleIs ==
  ASSUME setup.buf \in Nat \ {0}, NEW f
  PROVE  /\ IdleHand \in HandsAre /\ Works(IdleHand, f, setup.buf) /\ IdleHand.pc = "idle"
         /\ IdleHand.took = <<>> /\ IdleHand.ret = "ok"
<1>1. IdleHand = [pc |-> "idle", fd |-> 0, of |-> Listener, took |-> <<>>, ret |-> "ok", seen |-> 0]
  BY DEF IdleHand
<1>2. <<>> \in Seq(Peers \X Nat) /\ Len(<<>>) = 0
  OBVIOUS
<1>3. IdleHand \in HandsAre /\ IdleHand.pc = "idle" /\ IdleHand.took = <<>> /\ IdleHand.ret = "ok"
  BY <1>1, <1>2 DEF HandsAre
<1> QED
  BY <1>2, <1>3 DEF Works

\* A hand that begins with a job e.
LEMMA BegunIs ==
  ASSUME setup.buf \in Nat \ {0}, NEW e \in Tasks, e.of \in Peers, NEW f, Keeps(f[e.of], e.fd)
  PROVE  /\ Begun(e) \in HandsAre /\ Works(Begun(e), f, setup.buf)
         /\ Begun(e).pc = "recv" /\ Begun(e).of = e.of /\ Begun(e).ret = "ok"
<1>1. /\ Begun(e) = [IdleHand EXCEPT !.pc = "recv", !.fd = e.fd, !.of = e.of]
      /\ IdleHand \in HandsAre /\ IdleHand.took = <<>> /\ IdleHand.ret = "ok"
  BY IdleIs DEF Begun
<1>2. <<>> \in Seq(Peers \X Nat) /\ Len(<<>>) = 0 /\ e.fd \in {0} \cup Fds
  BY DEF Tasks
<1>3. /\ Begun(e) \in HandsAre /\ Begun(e).pc = "recv" /\ Begun(e).fd = e.fd /\ Begun(e).of = e.of
      /\ Begun(e).took = <<>> /\ Begun(e).ret = "ok"
  BY <1>1, <1>2 DEF HandsAre, Tasks
<1> QED
  BY <1>2, <1>3 DEF Works

\* To accept a client: nobody has heard of it, and with one client nothing was counted.
LEMMA AcceptClient_Inv ==
  ASSUME MulInv, AcceptClient
  PROVE  MulInv'
<1> DEFINE p == Head(queue)
           r == Accepted(p)
           y == [IdleHand EXCEPT !.pc = "add", !.of = p, !.seen = curfds]
<1>1. /\ MulTyped /\ SockInv /\ peer \in [Peers -> Records] /\ MainHand \in Hands /\ curfds \in Int
      /\ setup.buf \in Nat \ {0} /\ queue \in Seq(Peers)
  BY TeachAssumption DEF MulInv, MulTyped, SockInv, Hands
<1>2. /\ queue # <<>> /\ happened # <<>> /\ peer' = [peer EXCEPT ![p] = r] /\ queue' = Tail(queue)
      /\ happened' = Tail(happened) /\ hand' = [hand EXCEPT ![MainHand] = y]
      /\ setup' = setup /\ down' = down /\ edges' = edges /\ jobs' = jobs /\ curfds' = curfds
      /\ nRun' = nRun /\ drops' = drops /\ cutby' = cutby /\ hand[MainHand].pc = "idle"
  BY DEF AcceptClient, MainIdle
<1>3. p \in Peers /\ peer[p].st = "queued"
  <2>1. Len(queue) >= 1 /\ p = queue[1]
    BY <1>1, <1>2
  <2> QED
    BY <1>1, <2>1 DEF SockInv
<1>4. /\ Fine(p, r) /\ r.st = "open" /\ r.fd = LowestFree /\ r.end = peer[p].end /\ r.got = peer[p].got
      /\ LowestFree \notin UsedFds
  BY <1>1, <1>3, AcceptedIs, FreeIs
<1>5. y \in HandsAre /\ y.pc = "add" /\ y.of = p /\ y.seen = curfds /\ y.took = <<>> /\ y.ret = "ok"
  <2>1. IdleHand \in HandsAre /\ IdleHand.took = <<>> /\ IdleHand.ret = "ok"
    BY <1>1, IdleIs
  <2> QED
    BY <1>1, <1>3, <2>1 DEF HandsAre
<1> HIDE DEF p, r, y
<1>6. SockInv'
  BY <1>1, <1>2, <1>3, <1>4, OneTurn DEF TurnsOf, SockInv, p
<1>7. \A q \in Peers : peer'[q] = IF q = p THEN r ELSE peer[q]
  BY <1>1, <1>2
<1>8. \A q \in Peers : /\ Goes(q) /\ peer'[q].got = peer[q].got
                       /\ peer[q].st = "shut" <=> peer'[q].st = "shut"
                       /\ peer[q].st = "shut" => peer'[q].end = peer[q].end
                       /\ Came(peer'[q]) <=> Came(peer[q]) \/ q = p
  BY <1>3, <1>4, <1>7 DEF Goes, Came
<1>9. Works(y, peer', setup.buf)
  <2>1. Came(peer'[p]) /\ Len(<<>>) = 0
    BY <1>3, <1>8
  <2> QED
    BY <1>1, <1>3, <1>5, <2>1 DEF Works
<1>10. hand' \in [Hands -> HandsAre] /\ MulHands' /\ \A g \in Hands : hand'[g] = IF g = MainHand THEN y ELSE hand[g]
  BY <1>1, <1>2, <1>5, <1>8, <1>9, HandTurn
<1>11. MulTyped'
  <2>1. happened' \in Seq(Tasks)
    BY <1>2, HappenedIs
  <2> QED
    BY <1>1, <1>2, <1>6, <1>10, <2>1 DEF MulTyped, Tasks, HandsAre, IsMul, prog, Fds
<1>12. MulUnits'
  BY <1>2, <1>8, UnitsOn
<1>13. MulLists'
  BY <1>2, <1>8, ListsOn, HappenedIs
<1>14. ~Came(peer[p])
  BY <1>3 DEF Came
<1>15. MulFresh'
  <2>1. ASSUME NEW q \in Peers, Adds(hand'[MainHand], q) PROVE Unheardof(q)'
    <3>1. q = p
      BY <1>1, <1>5, <1>10, <2>1 DEF Adds
    <3>2. \A i \in 1..Len(happened) : happened[i].of # p
      BY <1>3, <1>14 DEF MulInv, MulLists, TaskKeeps, Keeps
    <3>3. \A i \in 1..Len(happened') : happened'[i].of # p
      BY <1>2, <3>2, HappenedIs
    <3>4. \A i \in 1..Len(jobs') : jobs'[i].of # p
      BY <1>2, <1>3, <1>14 DEF MulInv, MulLists, TaskKeeps, Keeps
    <3>5. \A h \in Hands : hand'[h].pc \notin {"idle", "add"} => hand'[h].of # p
      BY <1>5, <1>10, <1>14, HandHas
    <3> QED
      BY <3>1, <3>3, <3>4, <3>5 DEF Unheardof
  <2>2. \A q \in Peers : drops'[q] > 0 => Came(peer'[q])
    BY <1>2, <1>8 DEF MulInv, MulFresh
  <2> QED
    BY <2>1, <2>2 DEF MulFresh
<1>16. MulCount'
  <2>1. SUFFICES ASSUME ~Crowded', ~Twice' PROVE Counted' /\ down' # "killed"
    BY DEF MulCount
  <2>2. \A q \in Peers : Came(peer'[q]) => q = p
    BY <1>3, <1>8, <2>1 DEF Crowded, Came
  <2>3. Nobody
    BY <1>8, <1>14, <2>2 DEF Nobody
  <2>4. ~Crowded /\ ~Twice
    BY <1>2, <2>1, <2>3 DEF Crowded, Twice, Nobody
  <2>5. curfds = 1 /\ down # "killed"
    BY <2>3, <2>4 DEF MulCount, MulInv, Counted
  <2>6. Undropped'
    <3>1. \A q \in Peers : drops[q] \in Nat /\ ~(drops[q] > 0)
      BY <1>1, <2>3 DEF MulTyped, MulFresh, MulInv, Nobody
    <3> QED
      BY <1>2, <3>1 DEF Undropped
  <2>7. Settled'
    BY <1>5, <1>10, <2>3, HandHas DEF Settled, Pending
  <2>8. ~Nobody'
    BY <1>3, <1>8 DEF Nobody, Came
  <2> QED
    BY <1>1, <1>2, <1>5, <1>10, <2>5, <2>6, <2>7, <2>8 DEF Counted
<1> QED
  BY <1>10, <1>11, <1>12, <1>13, <1>15, <1>16 DEF MulInv

\* To add a client that was accepted: the one client makes two.
LEMMA AddClient_Inv ==
  ASSUME MulInv, AddClient
  PROVE  MulInv'
<1> DEFINE x == hand[MainHand]
<1>1. /\ MulTyped /\ SockInv /\ MainHand \in Hands /\ setup.buf \in Nat \ {0} /\ x \in HandsAre
      /\ hand \in [Hands -> HandsAre]
  BY TeachAssumption DEF MulInv, MulTyped, SockInv, Hands
<1>2. /\ x.pc = "add" /\ curfds' = x.seen + 1 /\ edges' = Told(x.of)
      /\ nRun' = (nRun \/ x.seen > setup.many)
      /\ hand' = [hand EXCEPT ![MainHand] = IdleHand]
      /\ setup' = setup /\ peer' = peer /\ queue' = queue /\ down' = down /\ happened' = happened
      /\ jobs' = jobs /\ drops' = drops /\ cutby' = cutby
  BY DEF AddClient, sockVars
<1> HIDE DEF x
<1>3. x.of \in Peers /\ Came(peer[x.of])
  BY <1>1, <1>2 DEF MulInv, MulHands, Works, x
<1>4. \A p \in Peers : Goes(p) /\ (Came(peer'[p]) <=> Came(peer[p]))
  BY <1>2, NobodyGoes
<1>5. IdleHand \in HandsAre /\ Works(IdleHand, peer', setup.buf) /\ IdleHand.pc = "idle"
  BY <1>1, IdleIs
<1>6. hand' \in [Hands -> HandsAre] /\ MulHands' /\ \A g \in Hands : hand'[g] = IF g = MainHand THEN IdleHand ELSE hand[g]
  BY <1>1, <1>2, <1>4, <1>5, HandTurn
<1>7. MulTyped'
  <2>1. SockInv'
    BY <1>1, <1>2, SockStays
  <2>2. edges' \in Seq(Peers \cup {Listener})
    BY <1>1, <1>2, <1>3, ToldIs
  <2>3. curfds' \in Int
    BY <1>1, <1>2 DEF HandsAre
  <2>4. nRun' \in BOOLEAN
    BY <1>2
  <2> QED
    BY <1>1, <1>2, <1>6, <2>1, <2>2, <2>3, <2>4 DEF MulTyped, Tasks, HandsAre, IsMul, prog, Fds
<1>8. MulUnits'
  BY <1>2, UnitsOn
<1>9. MulLists'
  <2>1. \A i \in 1..Len(edges') : edges'[i] = x.of \/ \E j \in 1..Len(edges) : edges'[i] = edges[j]
    BY <1>1, <1>2, <1>3, ToldIs
  <2>2. Came(peer'[x.of])
    BY <1>3, <1>4
  <2> QED
    BY <1>2, <1>4, <2>1, <2>2, ListsOn
<1>10. MulFresh'
  <2>1. \A p \in Peers : ~Adds(hand'[MainHand], p)
    BY <1>1, <1>5, <1>6 DEF Adds
  <2> QED
    BY <1>2, <2>1 DEF MulFresh, MulInv
<1>11. MulCount'
  <2>1. SUFFICES ASSUME ~Crowded', ~Twice' PROVE Counted' /\ down' # "killed"
    BY DEF MulCount
  <2>2. ~Crowded /\ ~Twice
    BY <1>2, <2>1 DEF Crowded, Twice
  <2>3. x.seen = 1 /\ Settled /\ Undropped /\ down # "killed"
    BY <1>2, <2>2 DEF MulCount, MulInv, Counted, x
  <2>4. ~Nobody' /\ Undropped' /\ curfds' = 2
    BY <1>2, <1>3, <2>3 DEF Nobody, Undropped
  <2>5. Settled'
    BY <1>5, <1>6, <2>3 DEF Settled, Pending
  <2> QED
    BY <1>1, <1>2, <1>5, <1>6, <2>3, <2>4, <2>5 DEF Counted
<1> QED
  BY <1>6, <1>7, <1>8, <1>9, <1>10, <1>11 DEF MulInv

\* To dispatch an event of a client, to the pool or to main itself.
LEMMA DispatchEvent_Inv ==
  ASSUME MulInv, DispatchEvent
  PROVE  MulInv'
<1> DEFINE e == happened[1]
<1>1. /\ MulTyped /\ SockInv /\ MainHand \in Hands /\ setup.buf \in Nat \ {0}
      /\ hand \in [Hands -> HandsAre] /\ jobs \in Seq(Tasks)
  BY TeachAssumption DEF MulInv, MulTyped, SockInv, Hands
<1>2. /\ happened # <<>> /\ ~listenfd(Head(happened)) /\ happened' = Tail(happened)
      /\ setup' = setup /\ peer' = peer /\ queue' = queue /\ down' = down /\ edges' = edges
      /\ curfds' = curfds /\ nRun' = nRun /\ drops' = drops /\ cutby' = cutby
      /\ hand[MainHand].pc = "idle"
      /\ \/ hand' = [hand EXCEPT ![MainHand] = Begun(Head(happened))] /\ jobs' = jobs
         \/ jobs' = <<Head(happened)>> \o jobs /\ hand' = hand
  BY DEF DispatchEvent, MainIdle, sockVars, workqueue_add_job
<1>3. e = Head(happened) /\ e \in Tasks /\ e.of \in Peers /\ Keeps(peer[e.of], e.fd) /\ Len(happened) >= 1
  <2>1. e = Head(happened) /\ e \in Tasks /\ TaskKeeps(e, peer) /\ Len(happened) >= 1
    BY <1>2, HappenedIs
  <2>2. e.of \in Peers
    BY <1>2, <2>1 DEF listenfd, Tasks
  <2> QED
    BY <2>1, <2>2 DEF TaskKeeps
<1>4. \A p \in Peers : Goes(p) /\ (Came(peer'[p]) <=> Came(peer[p]))
  BY <1>2, NobodyGoes
<1>5. /\ happened' \in Seq(Tasks)
      /\ \A i \in 1..Len(happened') : \E j \in 1..Len(happened) : happened'[i] = happened[j]
  BY <1>2, HappenedIs
<1>6. SockInv'
  BY <1>1, <1>2, SockStays
<1>7. MulUnits'
  BY <1>2, UnitsOn
<1>8. CASE hand' = [hand EXCEPT ![MainHand] = Begun(e)] /\ jobs' = jobs
  <2> DEFINE y == Begun(e)
  <2>1. y \in HandsAre /\ Works(y, peer', setup.buf) /\ y.pc = "recv" /\ y.ret = "ok"
    BY <1>1, <1>2, <1>3, BegunIs
  <2> HIDE DEF y, e
  <2>2. hand' \in [Hands -> HandsAre] /\ MulHands' /\ \A g \in Hands : hand'[g] = IF g = MainHand THEN y ELSE hand[g]
    BY <1>1, <1>2, <1>4, <1>8, <2>1, HandTurn DEF y
  <2>3. MulTyped'
    BY <1>1, <1>2, <1>5, <1>6, <1>8, <2>2 DEF MulTyped, Tasks, HandsAre, IsMul, prog, Fds
  <2>4. MulLists'
    BY <1>2, <1>4, <1>5, <1>8, ListsOn
  <2>5. MulFresh'
    <3>1. \A p \in Peers : ~Adds(hand'[MainHand], p)
      BY <1>1, <2>1, <2>2 DEF Adds
    <3> QED
      BY <1>2, <3>1 DEF MulFresh, MulInv
  <2>6. MulCount'
    BY <1>2, <1>4, <2>1, <2>2, CountOn DEF Pending
  <2> QED
    BY <1>7, <2>2, <2>3, <2>4, <2>5, <2>6 DEF MulInv
<1>9. CASE jobs' = <<e>> \o jobs /\ hand' = hand
  <2>1. /\ jobs' \in Seq(Tasks)
        /\ \A i \in 1..Len(jobs') : jobs'[i] = e \/ \E j \in 1..Len(jobs) : jobs'[i] = jobs[j]
    <3> HIDE DEF e
    <3>1. <<e>> \in Seq(Tasks) /\ Len(<<e>>) = 1 /\ <<e>>[1] = e
      BY <1>3
    <3> DEFINE s == <<e>>
    <3> HIDE DEF s
    <3>2. /\ s \o jobs \in Seq(Tasks) /\ Len(s \o jobs) = Len(s) + Len(jobs)
          /\ \A i \in 1..(Len(s) + Len(jobs)) : (s \o jobs)[i] = IF i <= Len(s) THEN s[i] ELSE jobs[i - Len(s)]
      BY <1>1, <3>1, ConcatProperties DEF s
    <3>3. ASSUME NEW i \in 1..Len(s \o jobs)
          PROVE  (s \o jobs)[i] = e \/ \E j \in 1..Len(jobs) : (s \o jobs)[i] = jobs[j]
      <4>1. Len(jobs) \in Nat /\ Len(s) = 1 /\ s[1] = e
        BY <1>1, <3>1 DEF s
      <4>2. i = 1 \/ i - 1 \in 1..Len(jobs)
        BY <3>2, <4>1
      <4> QED
        BY <3>2, <4>1, <4>2
    <3> QED
      BY <1>9, <3>2, <3>3 DEF s
  <2>2. hand' \in [Hands -> HandsAre] /\ MulHands'
    BY <1>1, <1>2, <1>4, <1>9, HandsStay
  <2>3. MulTyped'
    BY <1>1, <1>2, <1>5, <1>6, <2>1, <2>2 DEF MulTyped, Tasks, HandsAre, IsMul, prog, Fds
  <2>4. MulLists'
    <3>1. \A i \in 1..Len(jobs') : \/ \E j \in 1..Len(jobs) : jobs'[i] = jobs[j]
                                   \/ jobs'[i].of \in Peers /\ \E j \in 1..Len(happened) : jobs'[i] = happened[j]
      <4>1. e.of \in Peers /\ \E j \in 1..Len(happened) : e = happened[j]
        BY <1>3
      <4> QED
        BY <2>1, <4>1
    <3> QED
      BY <1>2, <1>4, <1>5, <3>1, ListsOn
  <2>5. MulFresh'
    <3>1. \A p \in Peers : ~Adds(hand'[MainHand], p)
      BY <1>2, <1>9 DEF Adds
    <3> QED
      BY <1>2, <3>1 DEF MulFresh, MulInv
  <2>6. MulCount'
    BY <1>2, <1>4, <1>9, CountOn
  <2> QED
    BY <1>7, <2>2, <2>3, <2>4, <2>5, <2>6 DEF MulInv
<1> QED
  BY <1>2, <1>3, <1>8, <1>9

\* A worker that takes the first job.
LEMMA TakeJob_Inv ==
  ASSUME MulInv, NEW w \in MulWorkers, TakeJob(w)
  PROVE  MulInv'
<1> DEFINE e == jobs[1]
<1>1. /\ MulTyped /\ SockInv /\ w \in Hands /\ setup.buf \in Nat \ {0} /\ MainHand \in Hands
      /\ hand \in [Hands -> HandsAre]
  BY TeachAssumption DEF MulInv, MulTyped, SockInv, Hands
<1>2. /\ jobs # <<>> /\ jobs' = Tail(jobs) /\ hand' = [hand EXCEPT ![w] = Begun(Head(jobs))]
      /\ setup' = setup /\ peer' = peer /\ queue' = queue /\ down' = down /\ edges' = edges
      /\ happened' = happened /\ curfds' = curfds /\ nRun' = nRun /\ drops' = drops
      /\ cutby' = cutby /\ hand[w].pc = "idle"
  BY DEF TakeJob, sockVars
<1>3. /\ e = Head(jobs) /\ e \in Tasks /\ e.of \in Peers /\ Keeps(peer[e.of], e.fd) /\ Len(jobs) >= 1
      /\ jobs' \in Seq(Tasks) /\ \A i \in 1..Len(jobs') : \E j \in 1..Len(jobs) : jobs'[i] = jobs[j]
  BY <1>2, JobsAre DEF TaskKeeps
<1>4. \A p \in Peers : Goes(p) /\ (Came(peer'[p]) <=> Came(peer[p]))
  BY <1>2, NobodyGoes
<1> DEFINE y == Begun(e)
<1>5. /\ y \in HandsAre /\ Works(y, peer', setup.buf) /\ y.pc = "recv" /\ y.ret = "ok" /\ y.of = e.of
      /\ hand' = [hand EXCEPT ![w] = y]
  BY <1>1, <1>2, <1>3, BegunIs
<1> HIDE DEF y
<1>6. hand' \in [Hands -> HandsAre] /\ MulHands' /\ \A g \in Hands : hand'[g] = IF g = w THEN y ELSE hand[g]
  BY <1>1, <1>2, <1>4, <1>5, HandTurn
<1>7. MulTyped'
  <2>1. SockInv'
    BY <1>1, <1>2, SockStays
  <2> QED
    BY <1>1, <1>2, <1>3, <1>6, <2>1 DEF MulTyped, Tasks, HandsAre, IsMul, prog, Fds
<1>8. MulUnits'
  BY <1>2, UnitsOn
<1>9. MulLists'
  BY <1>2, <1>3, <1>4, ListsOn
<1>10. MulFresh'
  <2>1. ASSUME NEW p \in Peers, Adds(hand'[MainHand], p) PROVE Unheardof(p)'
    <3>1. Unheardof(p)
      BY <1>1, <1>5, <1>6, <2>1 DEF Adds, MulInv, MulFresh
    <3>2. e.of # p
      BY <1>3, <3>1 DEF Unheardof
    <3>3. \A i \in 1..Len(happened') : happened'[i].of # p
      BY <1>2, <3>1 DEF Unheardof
    <3>4. \A i \in 1..Len(jobs') : jobs'[i].of # p
      BY <1>3, <3>1 DEF Unheardof
    <3>5. \A h \in Hands : hand'[h].pc \notin {"idle", "add"} => hand'[h].of # p
      BY <1>5, <1>6, <3>1, <3>2 DEF Unheardof
    <3> QED
      BY <3>3, <3>4, <3>5 DEF Unheardof
  <2> QED
    BY <1>2, <2>1 DEF MulFresh, MulInv
<1>11. MulCount'
  BY <1>2, <1>4, <1>5, <1>6, CountOn DEF Pending
<1> QED
  BY <1>6, <1>7, <1>8, <1>9, <1>10, <1>11 DEF MulInv

\* What a hand does with its client keeps what is not about its counts and connections.
LEMMA HandMoves ==
  ASSUME MulInv, NEW h \in Hands, NEW y \in HandsAre, hand[h].pc \notin {"idle", "add"},
         hand' = [hand EXCEPT ![h] = y], Works(y, peer', setup.buf), y.pc # "add",
         y.pc # "idle" => y.of = hand[h].of,
         setup' = setup, SockInv', \A p \in Peers : Goes(p),
         happened' = happened, jobs' = jobs, nRun' = nRun, curfds' \in Int,
         edges' \in Seq(Peers \cup {Listener}),
         \A i \in 1..Len(edges') : \E j \in 1..Len(edges) : edges'[i] = edges[j],
         drops' \in [Peers -> Nat], \A p \in Peers : drops'[p] > 0 => Came(peer[p]),
         cutby' \in [Peers -> Peers \cup {Listener}], MulUnits', MulCount'
  PROVE  MulInv'
<1>1. hand' \in [Hands -> HandsAre] /\ MulHands' /\ \A g \in Hands : hand'[g] = IF g = h THEN y ELSE hand[g]
  BY HandTurn
<1>2. MulTyped'
  BY <1>1 DEF MulInv, MulTyped, Tasks, HandsAre, IsMul, prog, Fds
<1>3. MulLists'
  BY ListsOn
<1>4. MulFresh'
  BY <1>1, FreshOn
<1> QED
  BY <1>1, <1>2, <1>3, <1>4 DEF MulInv

\* What is known of a hand with a client.
LEMMA HandIs ==
  ASSUME MulInv, NEW h \in Hands
  PROVE  /\ MulTyped /\ SockInv /\ peer \in [Peers -> Records] /\ setup.buf \in Nat \ {0} /\ MainHand \in Hands
         /\ hand \in [Hands -> HandsAre] /\ hand[h] \in HandsAre /\ Works(hand[h], peer, setup.buf)
         /\ edges \in Seq(Peers \cup {Listener}) /\ curfds \in Int
         /\ drops \in [Peers -> Nat] /\ \A p \in Peers : drops[p] > 0 => Came(peer[p])
         /\ cutby \in [Peers -> Peers \cup {Listener}]
         /\ \A i \in 1..Len(edges) : \E j \in 1..Len(edges) : edges[i] = edges[j]
BY TeachAssumption DEF MulInv, MulTyped, SockInv, Hands, MulHands, MulFresh

\* Nothing came within the time: nothing was lost.
LEMMA TimesOut_Inv ==
  ASSUME MulInv, NEW h \in Hands, TimesOut(h)
  PROVE  MulInv'
<1> DEFINE x == hand[h]
           y == [x EXCEPT !.pc = "done", !.ret = "timeout"]
<1>1. /\ x.pc = "recv" /\ setup' = setup /\ peer' = peer /\ queue' = queue /\ down' = down
      /\ edges' = edges /\ happened' = happened /\ jobs' = jobs /\ curfds' = curfds /\ nRun' = nRun
      /\ drops' = drops /\ cutby' = cutby
  BY DEF TimesOut, sockVars
<1>2. x \in HandsAre /\ Works(x, peer, setup.buf) /\ hand \in [Hands -> HandsAre]
  BY HandIs
<1>3. hand' = [hand EXCEPT ![h] = y]
  BY <1>2 DEF TimesOut, HandsAre
<1>4. /\ y \in HandsAre /\ y.pc = "done" /\ y.fd = x.fd /\ y.of = x.of /\ y.took = x.took
      /\ y.ret = "timeout"
  BY <1>2 DEF HandsAre
<1> HIDE DEF y
<1>5. \A p \in Peers : Goes(p) /\ (Came(peer'[p]) <=> Came(peer[p]))
  BY <1>1, NobodyGoes
<1>6. Works(y, peer', setup.buf)
  BY <1>1, <1>2, <1>4 DEF Works
<1>7. SockInv'
  BY <1>1, HandIs, SockStays
<1>8. MulUnits'
  BY <1>1, UnitsOn
<1>9. \A g \in Hands : hand'[g] = IF g = h THEN y ELSE hand[g]
  BY <1>2, <1>3
<1>10. MulCount'
  BY <1>1, <1>4, <1>5, <1>9, CountOn DEF Pending
<1> QED
  BY <1>1, <1>3, <1>4, <1>5, <1>6, <1>7, <1>8, <1>10, HandIs, HandMoves

\* The hand that met the end reads the count.
LEMMA ReadCount_Inv ==
  ASSUME MulInv, NEW h \in Hands, ReadCount(h)
  PROVE  MulInv'
<1> DEFINE x == hand[h]
           y == [x EXCEPT !.pc = "drop", !.seen = curfds]
<1>1. /\ x.pc = "done" /\ x.took = <<>> /\ x.ret = "notconn"
      /\ setup' = setup /\ peer' = peer /\ queue' = queue /\ down' = down
      /\ edges' = edges /\ happened' = happened /\ jobs' = jobs /\ curfds' = curfds /\ nRun' = nRun
      /\ drops' = drops /\ cutby' = cutby
  BY DEF ReadCount, sockVars
<1>2. x \in HandsAre /\ Works(x, peer, setup.buf) /\ hand \in [Hands -> HandsAre] /\ curfds \in Int
  BY HandIs
<1>3. hand' = [hand EXCEPT ![h] = y]
  BY <1>2 DEF ReadCount, HandsAre
<1>4. /\ y \in HandsAre /\ y.pc = "drop" /\ y.fd = x.fd /\ y.of = x.of /\ y.took = x.took
      /\ y.ret = x.ret /\ y.seen = curfds
  BY <1>2 DEF HandsAre
<1> HIDE DEF y
<1>5. \A p \in Peers : Goes(p) /\ (Came(peer'[p]) <=> Came(peer[p]))
  BY <1>1, NobodyGoes
<1>6. Works(y, peer', setup.buf)
  BY <1>1, <1>2, <1>4 DEF Works
<1>7. SockInv'
  BY <1>1, HandIs, SockStays
<1>8. MulUnits'
  BY <1>1, UnitsOn
<1>9. \A g \in Hands : hand'[g] = IF g = h THEN y ELSE hand[g]
  BY <1>2, <1>3
<1>10. MulCount'
  <2>1. SUFFICES ASSUME ~Crowded', ~Twice' PROVE Counted' /\ down' # "killed"
    BY DEF MulCount
  <2>2. ~Crowded /\ ~Twice
    BY <1>1, <2>1 DEF Crowded, Twice
  <2>3. Counted /\ down # "killed"
    BY <2>2 DEF MulInv, MulCount
  <2>4. hand[MainHand].pc # "add" /\ ~Nobody
    BY <1>1, <2>2, NoneWhileAdding, HandHas
  <2>5. Pending(x) /\ ~Settled
    BY <1>1 DEF Pending, Settled
  <2>6. curfds = 2 /\ ~Undropped /\ \A g \in Hands : Pending(hand[g]) => g = h
    BY <2>3, <2>4, <2>5 DEF Counted
  <2>7. /\ \A g \in Hands : Pending(hand'[g]) => g = h
        /\ hand'[h].pc = "drop" => hand'[h].seen = 2
    BY <1>4, <1>9, <2>6
  <2>8. hand'[MainHand].pc # "add" /\ ~Nobody' /\ ~Undropped' /\ curfds' = 2
    BY <1>1, <1>4, <1>9, <2>4, <2>6, HandIs DEF Nobody, Undropped
  <2> QED
    BY <1>1, <2>3, <2>7, <2>8 DEF Counted, Pending
<1> QED
  BY <1>1, <1>3, <1>4, <1>5, <1>6, <1>7, <1>8, <1>10, HandIs, HandMoves

\* ... and writes it, one lower.
LEMMA WriteCount_Inv ==
  ASSUME MulInv, NEW h \in Hands, WriteCount(h)
  PROVE  MulInv'
<1> DEFINE x == hand[h]
           y == [x EXCEPT !.pc = "close"]
<1>1. /\ x.pc = "drop" /\ curfds' = x.seen - 1
      /\ setup' = setup /\ peer' = peer /\ queue' = queue /\ down' = down
      /\ edges' = edges /\ happened' = happened /\ jobs' = jobs /\ nRun' = nRun
      /\ drops' = drops /\ cutby' = cutby
  BY DEF WriteCount, sockVars
<1>2. x \in HandsAre /\ Works(x, peer, setup.buf) /\ hand \in [Hands -> HandsAre] /\ curfds \in Int
  BY HandIs
<1>3. hand' = [hand EXCEPT ![h] = y]
  BY <1>2 DEF WriteCount, HandsAre
<1>4. /\ y \in HandsAre /\ y.pc = "close" /\ y.fd = x.fd /\ y.of = x.of /\ y.took = x.took
      /\ y.ret = x.ret
  BY <1>2 DEF HandsAre
<1> HIDE DEF y
<1>5. \A p \in Peers : Goes(p) /\ (Came(peer'[p]) <=> Came(peer[p]))
  BY <1>1, NobodyGoes
<1>6. Works(y, peer', setup.buf) /\ curfds' \in Int
  BY <1>1, <1>2, <1>4 DEF Works, HandsAre
<1>7. SockInv'
  BY <1>1, HandIs, SockStays
<1>8. MulUnits'
  BY <1>1, UnitsOn
<1>9. \A g \in Hands : hand'[g] = IF g = h THEN y ELSE hand[g]
  BY <1>2, <1>3
<1>10. MulCount'
  <2>1. SUFFICES ASSUME ~Crowded', ~Twice' PROVE Counted' /\ down' # "killed"
    BY DEF MulCount
  <2>2. ~Crowded /\ ~Twice
    BY <1>1, <2>1 DEF Crowded, Twice
  <2>3. Counted /\ down # "killed"
    BY <2>2 DEF MulInv, MulCount
  <2>4. hand[MainHand].pc # "add" /\ ~Nobody
    BY <1>1, <2>2, NoneWhileAdding, HandHas
  <2>5. Pending(x) /\ ~Settled
    BY <1>1, <1>2 DEF Pending, Settled, Works
  <2>6. /\ curfds = 2 /\ ~Undropped /\ \A g \in Hands : Pending(hand[g]) => g = h
        /\ x.seen = 2
    BY <1>1, <2>3, <2>4, <2>5 DEF Counted
  <2>7. Settled'
    BY <1>4, <1>9, <2>6 DEF Settled, Pending
  <2>8. hand'[MainHand].pc # "add" /\ ~Nobody' /\ ~Undropped' /\ curfds' = 1
    BY <1>1, <1>4, <1>9, <2>4, <2>6, HandIs DEF Nobody, Undropped
  <2> QED
    BY <1>1, <2>3, <2>7, <2>8 DEF Counted
<1> QED
  BY <1>1, <1>3, <1>4, <1>5, <1>6, <1>7, <1>8, <1>10, HandIs, HandMoves

\* Of what a hand has read for descriptor fd, who has it now was sent its own, or that of
\* a client that is closed.
LEMMA OwnOrGone ==
  ASSUME MulInv, NEW h \in Hands, hand[h].fd \in UsedFds
  PROVE  \A i \in 1..Len(hand[h].took) :
           /\ hand[h].took[i][1] \in Peers
           /\ hand[h].took[i][1] = Owner(hand[h].fd) \/ peer[hand[h].took[i][1]].st = "shut"
<1>1. SockInv /\ hand[h] \in HandsAre /\ Works(hand[h], peer, setup.buf)
  BY HandIs
<1>2. Owner(hand[h].fd) \in Peers /\ peer[Owner(hand[h].fd)].fd = hand[h].fd /\ hand[h].fd # 0
  <2>1. Owner(hand[h].fd) \in Peers /\ peer[Owner(hand[h].fd)].st = "open" /\ peer[Owner(hand[h].fd)].fd = hand[h].fd
    BY <1>1, OwnerIs
  <2> QED
    BY <1>1, <2>1 DEF SockInv, Fine
<1>3. ASSUME NEW i \in 1..Len(hand[h].took)
      PROVE  /\ hand[h].took[i][1] \in Peers
             /\ hand[h].took[i][1] = Owner(hand[h].fd) \/ peer[hand[h].took[i][1]].st = "shut"
  <2>1. hand[h].took[i] \in Peers \X Nat
    BY <1>1 DEF HandsAre
  <2>2. Keeps(peer[hand[h].took[i][1]], hand[h].fd)
    BY <1>1 DEF Works
  <2>3. \A p, q \in Peers : peer[p].fd = peer[q].fd /\ peer[p].fd # 0 => p = q
    BY <1>1 DEF SockInv
  <2> QED
    BY <1>2, <2>1, <2>2, <2>3 DEF Keeps, Came
<1> QED
  BY <1>3

\* The answer goes to whom the descriptor stands for now.
LEMMA Respond_Inv ==
  ASSUME MulInv, NEW h \in Hands, Respond(h)
  PROVE  MulInv'
<1> DEFINE s == hand[h].took
           fd == hand[h].fd
           p == Owner(fd)
           r == Answered(peer[p], s)
<1>1. /\ hand[h].pc = "done" /\ hand' = [hand EXCEPT ![h] = IdleHand]
      /\ setup' = setup /\ queue' = queue /\ down' = down
      /\ edges' = edges /\ happened' = happened /\ jobs' = jobs /\ curfds' = curfds /\ nRun' = nRun
      /\ drops' = drops /\ cutby' = cutby
      /\ peer' = peer \/ (fd \in UsedFds /\ peer' = [peer EXCEPT ![p] = r])
  BY DEF Respond, SentBack
<1>2. /\ SockInv /\ peer \in [Peers -> Records] /\ s \in Seq(Peers \X Nat) /\ hand \in [Hands -> HandsAre]
  BY HandIs DEF HandsAre
<1>3. /\ IdleHand \in HandsAre /\ Works(IdleHand, peer', setup.buf) /\ IdleHand.pc = "idle"
  BY HandIs, IdleIs
<1>4. \A g \in Hands : hand'[g] = IF g = h THEN IdleHand ELSE hand[g]
  BY <1>1, <1>2
<1>5. SUFFICES ASSUME SockInv', \A q \in Peers : Goes(q) /\ (Came(peer'[q]) <=> Came(peer[q])), MulUnits'
               PROVE  MulInv'
  <2>1. CASE peer' = peer
    <3>1. SockInv' /\ (\A q \in Peers : Goes(q) /\ (Came(peer'[q]) <=> Came(peer[q]))) /\ MulUnits'
      BY <1>1, <1>2, <2>1, SockStays, NobodyGoes, UnitsOn
    <3> QED
      BY <1>5, <3>1
  <2>2. CASE fd \in UsedFds /\ peer' = [peer EXCEPT ![p] = r]
    <3>1. p \in Peers /\ peer[p].st = "open" /\ Fine(p, peer[p])
      BY <1>2, <2>2, OwnerIs DEF SockInv
    <3>2. s \in Seq((Peers \cup {Listener}) \X Nat)
      <4>1. \A i \in 1..Len(s) : s[i] \in (Peers \cup {Listener}) \X Nat
        BY <1>2
      <4> QED
        BY <1>2, <4>1
    <3>3. /\ Fine(p, r) /\ r.st = peer[p].st /\ r.fd = peer[p].fd
          /\ peer[p].end = "no" => r.end = "no" /\ r.got = peer[p].got \o s
          /\ peer[p].end # "no" => r.end # "no" /\ r.got = peer[p].got
      <4> HIDE DEF s, p
      <4>1. Fine(p, peer[p]) /\ s \in Seq((Peers \cup {Listener}) \X Nat)
        <5>1. Fine(p, peer[p])
          BY ONLY <3>1
        <5>2. s \in Seq((Peers \cup {Listener}) \X Nat)
          BY ONLY <3>2
        <5> QED
          BY ONLY <5>1, <5>2
      <4>2. PICK x, w, a : x = peer[p] /\ w = s /\ a = Answered(x, w)
        OBVIOUS
      <4>3. Fine(p, x) /\ w \in Seq((Peers \cup {Listener}) \X Nat) /\ a = Answered(x, w)
        BY ONLY <4>1, <4>2
      <4>4. /\ Fine(p, a) /\ a.st = x.st /\ a.fd = x.fd
            /\ x.end = "no" => a.end = "no" /\ a.got = x.got \o w
            /\ x.end # "no" => a.end # "no" /\ a.got = x.got
        BY ONLY SMTT(30), <4>3, AnsweredIs
      <4>5. r = a
        BY <4>2
      <4> QED
        BY ONLY <4>2, <4>4, <4>5
    <3>10. p = Owner(hand[h].fd) /\ fd = hand[h].fd
      OBVIOUS
    <3> HIDE DEF p, r
    <3>4. \A q \in Peers : peer'[q] = IF q = p THEN r ELSE peer[q]
      BY <1>2, <2>2
    <3>5. SockInv'
      <4>1. TurnsOf(p, r) /\ down' \in Downs
        BY <1>1, <1>2, <3>3 DEF TurnsOf, SockInv
      <4> QED
        BY <1>1, <1>2, <2>2, <3>1, <3>3, <4>1, OneTurn
    <3>6. \A q \in Peers : Goes(q) /\ (Came(peer'[q]) <=> Came(peer[q]))
      BY <3>1, <3>3, <3>4 DEF Goes, Came
    <3>7. /\ IsMul /\ CutByStrangers /\ OthersAreGone
          /\ \A q \in Peers : \A i \in 1..Len(peer[q].got) : peer[q].got[i][1] \in Peers
          /\ \A q \in Peers : /\ peer[q].got \in Seq((Peers \cup {Listener}) \X Nat)
                              /\ peer'[q].got \in Seq((Peers \cup {Listener}) \X Nat)
      <4>1. \A q \in Peers : Fine(q, peer[q])
        BY <1>2 DEF SockInv
      <4> QED
        BY <3>3, <3>4, <4>1 DEF MulInv, MulTyped, MulUnits, Fine, Records
    <3>8. \A q \in Peers : \A i \in 1..Len(peer'[q].got) :
            /\ peer'[q].got[i][1] \in Peers
            /\ peer'[q].got[i][1] = q \/ peer[peer'[q].got[i][1]].st = "shut"
      <4>1. \A q \in Peers : \A i \in 1..Len(peer[q].got) :
              /\ peer[q].got[i][1] \in Peers
              /\ peer[q].got[i][1] = q \/ peer[peer[q].got[i][1]].st = "shut"
        BY <3>7 DEF OthersAreGone
      <4>2. \A i \in 1..Len(s) : s[i][1] \in Peers /\ (s[i][1] = p \/ peer[s[i][1]].st = "shut")
        BY <2>2, OwnOrGone DEF p
      <4>3. ASSUME r.got = peer[p].got \o s, NEW i \in 1..Len(r.got)
            PROVE  r.got[i][1] \in Peers /\ (r.got[i][1] = p \/ peer[r.got[i][1]].st = "shut")
        <5>1. /\ Len(peer[p].got \o s) = Len(peer[p].got) + Len(s)
              /\ \A j \in 1..(Len(peer[p].got) + Len(s)) :
                   (peer[p].got \o s)[j] = IF j <= Len(peer[p].got) THEN peer[p].got[j] ELSE s[j - Len(peer[p].got)]
          <6>1. peer[p].got \in Seq((Peers \cup {Listener}) \X Nat) /\ s \in Seq((Peers \cup {Listener}) \X Nat)
            BY <3>1, <3>2, <3>7
          <6> QED
            BY ONLY <6>1, ConcatProperties
        <5>2. Len(peer[p].got) \in Nat /\ Len(s) \in Nat /\ i \in 1..(Len(peer[p].got) + Len(s))
          <6>1. Len(peer[p].got) \in Nat /\ Len(s) \in Nat
            BY <1>2, <3>1, <3>7
          <6>2. Len(r.got) = Len(peer[p].got) + Len(s)
            BY ONLY <4>3, <5>1
          <6> QED
            BY ONLY <4>3, <6>1, <6>2
        <5>3. CASE i <= Len(peer[p].got)
          <6>1. r.got[i] = peer[p].got[i] /\ i \in 1..Len(peer[p].got)
            <7>1. r.got[i] = (peer[p].got \o s)[i] /\ i \in 1..Len(peer[p].got)
              BY ONLY <4>3, <5>2, <5>3
            <7> QED
              BY ONLY <7>1, <5>1, <5>2, <5>3
          <6> QED
            BY <3>1, <4>1, <6>1
        <5>4. CASE ~(i <= Len(peer[p].got))
          <6>1. r.got[i] = s[i - Len(peer[p].got)] /\ i - Len(peer[p].got) \in 1..Len(s)
            <7>1. i - Len(peer[p].got) \in 1..Len(s)
              <8>1. \A m, n \in Nat : \A j \in 1..(m + n) : ~(j <= m) => j - m \in 1..n
                OBVIOUS
              <8> QED
                BY ONLY <5>2, <5>4, <8>1
            <7>2. r.got[i] = (peer[p].got \o s)[i]
              BY ONLY <4>3
            <7> QED
              BY ONLY <7>1, <7>2, <5>1, <5>2, <5>4
          <6> QED
            BY <4>2, <6>1
        <5> QED
          BY <5>3, <5>4
      <4>4. r.got = peer[p].got \/ r.got = peer[p].got \o s
        BY <3>3
      <4>5. \A i \in 1..Len(r.got) : r.got[i][1] \in Peers /\ (r.got[i][1] = p \/ peer[r.got[i][1]].st = "shut")
        <5>1. CASE r.got = peer[p].got
          BY ONLY SMTT(30), <3>1, <4>1, <5>1
        <5>2. CASE r.got = peer[p].got \o s
          BY ONLY <4>3, <5>2
        <5> QED
          BY <4>4, <5>1, <5>2
      <4> QED
        BY ONLY <3>4, <4>1, <4>5
    <3>9. MulUnits'
      <4>1. OthersAreGone'
        <5>1. \A q \in Peers : peer[q].st = "shut" => peer'[q].st = "shut"
          BY <3>3, <3>4
        <5>2. \A q \in Peers : DOMAIN peer'[q].got = 1..Len(peer'[q].got)
          BY <3>7
        <5> QED
          BY <3>8, <5>1, <5>2 DEF OthersAreGone
      <4>2. CutByStrangers'
        <5>1. \A q \in Peers : peer'[q].st = "shut" => peer'[q] = peer[q]
          BY <3>1, <3>3, <3>4
        <5> QED
          BY <1>1, <3>7, <5>1 DEF CutByStrangers, IsMul, prog
      <4> QED
        BY <3>8, <4>1, <4>2 DEF MulUnits
    <3> QED
      BY <1>5, <3>5, <3>6, <3>9
  <2> QED
    BY <1>1, <2>1, <2>2
<1>6. MulCount'
  BY <1>1, <1>3, <1>4, <1>5, CountOn DEF Pending
<1> QED
  BY <1>1, <1>3, <1>5, <1>6, HandIs, HandMoves

\* The descriptor is closed, whomever it stands for: one who has ended, or one that the
\* job was not for.
LEMMA CloseClient_Inv ==
  ASSUME MulInv, NEW h \in Hands, CloseClient(h)
  PROVE  MulInv'
<1> DEFINE x == hand[h]
           p == Owner(x.fd)
           r == Closed(peer[p])
<1>1. /\ x.pc = "close" /\ hand' = [hand EXCEPT ![h] = IdleHand]
      /\ setup' = setup /\ queue' = queue /\ down' = down
      /\ happened' = happened /\ jobs' = jobs /\ curfds' = curfds /\ nRun' = nRun
      /\ drops' = drops
      /\ \/ /\ x.fd \in UsedFds /\ peer' = [peer EXCEPT ![p] = r] /\ edges' = Untold(p)
            /\ cutby' = [cutby EXCEPT ![p] = x.of]
         \/ peer' = peer /\ edges' = edges /\ cutby' = cutby
  BY DEF CloseClient
<1>2. /\ SockInv /\ peer \in [Peers -> Records] /\ hand \in [Hands -> HandsAre] /\ MulTyped
      /\ x \in HandsAre /\ Works(x, peer, setup.buf)
  BY HandIs
<1>3. /\ IdleHand \in HandsAre /\ Works(IdleHand, peer', setup.buf) /\ IdleHand.pc = "idle"
  BY HandIs, IdleIs
<1>4. \A g \in Hands : hand'[g] = IF g = h THEN IdleHand ELSE hand[g]
  BY <1>1, <1>2
<1>5. CASE peer' = peer /\ edges' = edges /\ cutby' = cutby
  <2>1. SockInv' /\ (\A q \in Peers : Goes(q) /\ (Came(peer'[q]) <=> Came(peer[q]))) /\ MulUnits'
    BY <1>1, <1>2, <1>5, SockStays, NobodyGoes, UnitsOn
  <2>2. MulCount'
    BY <1>1, <1>3, <1>4, <2>1, CountOn DEF Pending
  <2> QED
    BY <1>1, <1>3, <1>5, <2>1, <2>2, HandIs, HandMoves
<1>6. CASE /\ x.fd \in UsedFds /\ peer' = [peer EXCEPT ![p] = r] /\ edges' = Untold(p)
           /\ cutby' = [cutby EXCEPT ![p] = x.of]
  <2>1. p \in Peers /\ peer[p].st = "open" /\ peer[p].fd = x.fd /\ Fine(p, peer[p])
    BY <1>2, <1>6, OwnerIs DEF SockInv
  <2>2. Fine(p, r) /\ r.st = "shut" /\ r.fd = 0 /\ r.end = peer[p].end /\ r.got = peer[p].got
    BY <2>1, ClosedIs
  <2> HIDE DEF p, r
  <2>3. \A q \in Peers : peer'[q] = IF q = p THEN r ELSE peer[q]
    BY <1>2, <1>6
  <2>4. SockInv'
    <3>1. TurnsOf(p, r) /\ down' \in Downs
      BY <1>1, <1>2, <2>1, <2>2 DEF TurnsOf, SockInv
    <3> QED
      BY <1>1, <1>2, <1>6, <2>1, <2>2, <3>1, OneTurn
  <2>5. \A q \in Peers : Goes(q) /\ (Came(peer'[q]) <=> Came(peer[q]))
    BY <2>1, <2>2, <2>3 DEF Goes, Came
  <2>6. x.of \in Peers /\ Keeps(peer[x.of], x.fd) /\ (peer[x.of].st = "open" => peer[x.of].end # "no")
    BY <1>1, <1>2 DEF Works
  <2>7. peer[p].end = "no" => x.of # p
    BY <2>1, <2>6
  <2>8. /\ IsMul /\ CutByStrangers /\ OthersAreGone /\ cutby \in [Peers -> Peers \cup {Listener}]
        /\ \A q \in Peers : \A i \in 1..Len(peer[q].got) : peer[q].got[i][1] \in Peers
        /\ \A q \in Peers : DOMAIN peer[q].got = 1..Len(peer[q].got)
    <3>1. \A q \in Peers : peer[q].got \in Seq((Peers \cup {Listener}) \X Nat)
      BY <1>2 DEF Records
    <3>2. \A q \in Peers : DOMAIN peer[q].got = 1..Len(peer[q].got)
      BY ONLY <3>1
    <3>3. IsMul /\ MulUnits /\ cutby \in [Peers -> Peers \cup {Listener}]
      BY DEF MulInv, MulTyped
    <3> QED
      BY ONLY <3>2, <3>3 DEF MulUnits
  <2>9. cutby' \in [Peers -> Peers \cup {Listener}] /\ \A q \in Peers : cutby'[q] = IF q = p THEN x.of ELSE cutby[q]
    BY <1>6, <2>6, <2>8
  <2>10. MulUnits'
    <3>1. CutByStrangers'
      <4>1. ASSUME NEW q \in Peers, peer'[q].st = "shut", peer'[q].end = "no" PROVE cutby'[q] \notin {q, Listener}
        <5>1. CASE q = p
          BY <2>1, <2>2, <2>3, <2>6, <2>7, <2>9, <4>1, <5>1, TeachAssumption
        <5>2. CASE q # p
          BY <2>3, <2>8, <2>9, <4>1, <5>2 DEF CutByStrangers
        <5> QED
          BY <5>1, <5>2
      <4> QED
        BY <4>1 DEF CutByStrangers
    <3>2. OthersAreGone'
      <4>1. \A q \in Peers : peer'[q].got = peer[q].got /\ (peer[q].st = "shut" => peer'[q].st = "shut")
        BY <2>2, <2>3
      <4> QED
        BY <2>8, <4>1 DEF OthersAreGone
    <3>3. \A q \in Peers : peer'[q].got = peer[q].got
      BY <2>2, <2>3
    <3> QED
      BY <2>8, <3>1, <3>2, <3>3 DEF MulUnits
  <2>11. MulCount'
    BY <1>1, <1>3, <1>4, <2>5, CountOn DEF Pending
  <2>12. /\ edges' \in Seq(Peers \cup {Listener})
         /\ \A i \in 1..Len(edges') : \E j \in 1..Len(edges) : edges'[i] = edges[j]
    BY <1>2, <1>6, UntoldIs
  <2> QED
    BY <1>1, <1>3, <2>4, <2>5, <2>9, <2>10, <2>11, <2>12, HandIs, HandMoves
<1> QED
  BY <1>1, <1>5, <1>6

\* What was there to read goes to the hand; when there was only the end, it is told.
LEMMA Receive_Inv ==
  ASSUME MulInv, NEW h \in Hands, Receive(h)
  PROVE  MulInv'
<1> DEFINE x == hand[h]
           p == Owner(x.fd)
           left == setup.buf - Len(x.took)
           t == Taken(p, left)
           took == x.took \o t
           r == Received(p, left)
<1>1. /\ x.pc = "recv" /\ x.fd \in UsedFds /\ Readable(p) /\ peer' = [peer EXCEPT ![p] = r]
      /\ setup' = setup /\ queue' = queue /\ down' = down /\ edges' = edges
      /\ happened' = happened /\ jobs' = jobs /\ curfds' = curfds /\ nRun' = nRun /\ cutby' = cutby
  BY DEF Receive
<1>2. /\ SockInv /\ peer \in [Peers -> Records] /\ hand \in [Hands -> HandsAre] /\ MulTyped
      /\ x \in HandsAre /\ Works(x, peer, setup.buf) /\ setup.buf \in Nat \ {0}
      /\ drops \in [Peers -> Nat]
  BY HandIs
<1>3. p \in Peers /\ peer[p].st = "open" /\ peer[p].fd = x.fd /\ Fine(p, peer[p]) /\ x.fd # 0
  <2>1. p \in Peers /\ peer[p].st = "open" /\ peer[p].fd = x.fd
    BY <1>1, <1>2, OwnerIs
  <2> QED
    BY <1>2, <2>1 DEF SockInv, Fine
<1>4. left \in Nat /\ left # 0 /\ Len(x.took) \in Nat /\ x.took \in Seq(Peers \X Nat)
  <2>1. x.took \in Seq(Peers \X Nat) /\ Len(x.took) < setup.buf
    BY <1>1, <1>2 DEF Works, HandsAre
  <2> QED
    BY <1>2, <2>1
<1>5. \/ /\ Result(p, left) > 0
         /\ hand' = [hand EXCEPT ![h].took = took, ![h].pc = IF Len(took) = setup.buf THEN "done" ELSE "recv"]
         /\ drops' = drops
      \/ /\ ~(Result(p, left) > 0)
         /\ hand' = [hand EXCEPT ![h].pc = "done", ![h].ret = "notconn"]
         /\ drops' = [drops EXCEPT ![p] = @ + 1]
  BY DEF Receive
<1>11. p = Owner(x.fd) /\ took = x.took \o t
  OBVIOUS
<1> HIDE DEF p, left
<1>6. /\ t \in Seq(Peers \X Nat) /\ Len(t) <= left
      /\ \A i \in 1..Len(t) : t[i] = <<p, peer[p].sent - Len(peer[p].box) + i>>
      /\ Result(p, left) \in Nat \cup {-1}
      /\ Result(p, left) = 0 => peer[p].box = <<>>
      /\ Result(p, left) = -1 => peer[p].box = <<>>
  <2>1. SockInv /\ p \in Peers /\ left \in Nat /\ left # 0
    BY <1>2, <1>3, <1>4
  <2> QED
    BY ONLY <2>1, TakenIs
<1>7. /\ Fine(p, r) /\ r.st = "open" /\ r.fd = x.fd /\ r.got = peer[p].got
      /\ r.end = IF Result(p, left) = -1 THEN "told" ELSE peer[p].end
  <2>1. SockInv /\ p \in Peers /\ left \in Nat
    BY <1>2, <1>3, <1>4
  <2>2. /\ Fine(p, r) /\ r.st = peer[p].st /\ r.fd = peer[p].fd /\ r.got = peer[p].got
        /\ r.end = IF Result(p, left) = -1 THEN "told" ELSE peer[p].end
    BY ONLY <2>1, ReceivedIs
  <2> QED
    BY <1>3, <2>2
<1> HIDE DEF r, t, took
<1>8. \A q \in Peers : peer'[q] = IF q = p THEN r ELSE peer[q]
  BY <1>1, <1>2
<1>9. SockInv'
  <2>1. TurnsOf(p, r) /\ down' \in Downs
    BY <1>1, <1>2, <1>3, <1>7 DEF TurnsOf, SockInv
  <2> QED
    BY <1>1, <1>2, <1>3, <1>7, <2>1, OneTurn
<1>10. \A q \in Peers : /\ Goes(q) /\ (Came(peer'[q]) <=> Came(peer[q])) /\ peer'[q].got = peer[q].got
                        /\ peer[q].st = "shut" <=> peer'[q].st = "shut"
                        /\ peer[q].st = "shut" => peer'[q].end = peer[q].end
  BY <1>3, <1>7, <1>8 DEF Goes, Came
<1>12. MulUnits'
  BY <1>1, <1>10, UnitsOn
<1>13. x.of \in Peers /\ Keeps(peer'[x.of], x.fd) /\ \A i \in 1..Len(x.took) : Keeps(peer'[x.took[i][1]], x.fd)
  <2>1. x.of \in Peers /\ Works(x, peer', setup.buf)
    BY <1>1, <1>2, <1>10, WorksOn DEF Works
  <2> QED
    BY <1>1, <2>1 DEF Works
<1>14. CASE Result(p, left) > 0
  <2> DEFINE w == IF Len(took) = setup.buf THEN "done" ELSE "recv"
             y == [x EXCEPT !.took = took, !.pc = w]
  <2>1. /\ took \in Seq(Peers \X Nat) /\ Len(took) = Len(x.took) + Len(t)
        /\ \A i \in 1..(Len(x.took) + Len(t)) :
             took[i] = IF i <= Len(x.took) THEN x.took[i] ELSE t[i - Len(x.took)]
    <3>1. x.took \in Seq(Peers \X Nat) /\ t \in Seq(Peers \X Nat) /\ took = x.took \o t
      BY <1>4, <1>6, <1>11
    <3> QED
      BY ONLY <3>1, ConcatProperties
  <2>2. Len(took) <= setup.buf /\ Len(took) \in Nat
    <3>1. /\ left = setup.buf - Len(x.took) /\ Len(t) <= left /\ Len(x.took) \in Nat /\ Len(t) \in Nat
          /\ setup.buf \in Nat /\ Len(took) = Len(x.took) + Len(t)
      BY <1>2, <1>4, <1>6, <2>1 DEF left
    <3> QED
      BY ONLY <3>1
  <2>3. hand' = [hand EXCEPT ![h] = y] /\ drops' = drops
    BY <1>2, <1>5, <1>14 DEF HandsAre
  <2>4. /\ y \in HandsAre /\ y.pc = w /\ y.fd = x.fd /\ y.of = x.of /\ y.took = took /\ y.ret = x.ret
        /\ w \in {"done", "recv"}
    BY <1>2, <2>1 DEF HandsAre
  <2>5. x.ret = "ok"
    BY <1>1, <1>2 DEF Works
  <2>6. \A i \in 1..Len(took) : Keeps(peer'[took[i][1]], x.fd)
    <3>1. ASSUME NEW i \in 1..Len(took) PROVE Keeps(peer'[took[i][1]], x.fd)
      <4>1. Len(x.took) \in Nat /\ Len(t) \in Nat /\ i \in 1..(Len(x.took) + Len(t))
        BY <1>4, <1>6, <2>1
      <4>2. CASE i <= Len(x.took)
        <5>1. took[i] = x.took[i] /\ i \in 1..Len(x.took)
          BY ONLY <2>1, <4>1, <4>2
        <5> QED
          BY <1>13, <5>1
      <4>3. CASE ~(i <= Len(x.took))
        <5>1. i - Len(x.took) \in 1..Len(t)
          <6>1. \A m, n \in Nat : \A j \in 1..(m + n) : ~(j <= m) => j - m \in 1..n
            OBVIOUS
          <6> QED
            BY ONLY <4>1, <4>3, <6>1
        <5>2. took[i] = t[i - Len(x.took)]
          BY <2>1, <4>1, <4>3
        <5>3. took[i][1] = p
          <6>1. PICK n : t[i - Len(x.took)] = <<p, n>>
            BY ONLY <1>6, <5>1
          <6> QED
            BY ONLY <5>2, <6>1
        <5>4. Keeps(peer'[p], x.fd)
          BY <1>3, <1>7, <1>8 DEF Keeps, Came
        <5> QED
          BY <5>3, <5>4
      <4> QED
        BY <4>2, <4>3
    <3> QED
      BY <3>1
  <2>7. w = "recv" => Len(took) < setup.buf
    BY <1>2, <2>2
  <2> HIDE DEF y, w
  <2>8. Works(y, peer', setup.buf)
    BY <1>13, <2>2, <2>4, <2>5, <2>6, <2>7 DEF Works
  <2>9. MulCount'
    <3>1. \A g \in Hands : hand'[g] = IF g = h THEN y ELSE hand[g]
      BY <1>2, <2>3
    <3> QED
      BY <1>1, <1>10, <2>3, <2>4, <2>5, <3>1, CountOn DEF Pending
  <2> QED
    BY <1>1, <1>9, <1>10, <1>12, <2>3, <2>4, <2>8, <2>9, HandIs, HandMoves
<1>15. CASE ~(Result(p, left) > 0)
  <2> DEFINE y == [x EXCEPT !.pc = "done", !.ret = "notconn"]
  <2>1. hand' = [hand EXCEPT ![h] = y] /\ drops' = [drops EXCEPT ![p] = @ + 1]
    BY <1>2, <1>5, <1>15 DEF HandsAre
  <2>2. /\ y \in HandsAre /\ y.pc = "done" /\ y.fd = x.fd /\ y.of = x.of /\ y.took = x.took
        /\ y.ret = "notconn"
    BY <1>2 DEF HandsAre
  <2> HIDE DEF y
  <2>3. r.end # "no"
    <3>1. peer[p].end # "no"
      BY <1>1, <1>6, <1>15 DEF Readable
    <3> QED
      BY <1>7, <3>1
  <2>4. peer'[x.of].st = "open" => x.of = p
    BY <1>3, <1>7, <1>8, <1>9, <1>13 DEF Keeps, SockInv
  <2>5. Works(y, peer', setup.buf)
    <3>1. Len(x.took) <= setup.buf
      BY <1>2 DEF Works
    <3>2. peer'[x.of].st = "open" => peer'[x.of].end # "no"
      BY <1>3, <1>8, <2>3, <2>4
    <3> QED
      BY <1>13, <2>2, <3>1, <3>2 DEF Works
  <2>6. /\ drops' \in [Peers -> Nat]
        /\ \A q \in Peers : drops'[q] = IF q = p THEN drops[p] + 1 ELSE drops[q]
    BY <1>2, <1>3, <2>1
  <2>7. \A q \in Peers : drops'[q] > 0 => Came(peer[q])
    BY <1>3, <2>6, HandIs DEF Came
  <2>8. \A g \in Hands : hand'[g] = IF g = h THEN y ELSE hand[g]
    BY <1>2, <2>1
  <2>9. MulCount'
    <3>1. SUFFICES ASSUME ~Crowded', ~Twice' PROVE Counted' /\ down' # "killed"
      BY DEF MulCount
    <3>2. ~Crowded /\ ~Twice
      <4>1. \A q \in Peers : drops[q] >= 2 => drops'[q] >= 2
        BY <1>2, <2>6
      <4> QED
        BY <1>10, <3>1, <4>1 DEF Crowded, Twice
    <3>3. Counted /\ down # "killed"
      BY <3>2 DEF MulInv, MulCount
    <3>4. hand[MainHand].pc # "add" /\ ~Nobody
      BY <1>1, <3>2, NoneWhileAdding, HandHas
    <3>5. Undropped
      <4>1. drops[p] = 0
        <5>1. drops[p] \in Nat /\ ~(drops[p] + 1 >= 2)
          BY <1>2, <1>3, <2>6, <3>1 DEF Twice
        <5> QED
          BY ONLY <5>1
      <4>2. ASSUME NEW q \in Peers, q # p PROVE drops[q] = 0
        <5>1. ~Came(peer[q])
          BY <1>3, <3>2, <4>2 DEF Crowded, Came
        <5>2. drops[q] \in Nat /\ ~(drops[q] > 0)
          BY <1>2, <5>1, HandIs
        <5> QED
          BY ONLY <5>2
      <4> QED
        BY <4>1, <4>2 DEF Undropped
    <3>6. curfds = 2 /\ Settled
      BY <3>3, <3>4, <3>5 DEF Counted
    <3>7. /\ \A g \in Hands : Pending(hand'[g]) => g = h
          /\ hand'[h].pc = "drop" => hand'[h].seen = 2
      BY <2>2, <2>8, <3>6 DEF Settled
    <3>8. hand'[MainHand].pc # "add" /\ ~Nobody' /\ curfds' = 2 /\ down' # "killed"
      BY <1>1, <1>10, <2>2, <2>8, <3>3, <3>4, <3>6, HandIs DEF Nobody
    <3>9. ~Undropped'
      <4>1. drops'[p] # 0
        BY <1>2, <1>3, <2>6
      <4> QED
        BY <1>3, <4>1 DEF Undropped
    <3> QED
      BY <3>7, <3>8, <3>9 DEF Counted, Pending
  <2> QED
    BY <1>1, <1>9, <1>10, <1>12, <2>1, <2>2, <2>5, <2>6, <2>7, <2>9, HandIs, HandMoves
<1> QED
  BY <1>14, <1>15

\* Every step keeps the invariant.
LEMMA MulNext_Inv == MulInv /\ [MulPortNext]_mulVars => MulInv'
<1> SUFFICES ASSUME MulInv, [MulPortNext]_mulVars PROVE MulInv'
  OBVIOUS
<1>1. ASSUME NEW h \in Hands, HandStep(h) PROVE MulInv'
  BY <1>1, Receive_Inv, TimesOut_Inv, Respond_Inv, ReadCount_Inv, WriteCount_Inv, CloseClient_Inv DEF HandStep
<1>2. CASE \E p \in Peers : MulClient(p)
  BY <1>2, MulClient_Inv
<1>3. CASE MulMain
  <2>1. MainHand \in Hands
    BY DEF Hands
  <2> QED
    BY <1>1, <1>3, <2>1, EpollWaits_Inv, AcceptClient_Inv, AddClient_Inv, DispatchEvent_Inv DEF MulMain
<1>4. CASE \E w \in MulWorkers : MulWorker(w)
  <2>1. PICK w \in MulWorkers : TakeJob(w) \/ HandStep(w)
    BY <1>4 DEF MulWorker
  <2>2. w \in Hands
    BY DEF Hands
  <2> QED
    BY <1>1, <2>1, <2>2, TakeJob_Inv
<1>5. CASE UNCHANGED mulVars
  <2>1. /\ setup' = setup /\ peer' = peer /\ queue' = queue /\ down' = down /\ edges' = edges
        /\ happened' = happened /\ jobs' = jobs /\ hand' = hand /\ curfds' = curfds /\ nRun' = nRun
        /\ drops' = drops /\ cutby' = cutby
    BY <1>5 DEF mulVars, sockVars, ownMul
  <2>2. MulTyped'
    <3>1. SockInv'
      BY <2>1, SockStays DEF MulInv, MulTyped
    <3> QED
      BY <2>1, <3>1 DEF MulInv, MulTyped, Tasks, HandsAre, IsMul, prog, Fds
  <2>3. MulUnits' /\ MulLists' /\ MulHands' /\ MulFresh' /\ MulCount'
    <3>1. \A p \in Peers : Goes(p) /\ (Came(peer'[p]) <=> Came(peer[p]))
      BY <2>1, NobodyGoes
    <3>2. MulUnits'
      BY <2>1, UnitsOn
    <3>3. MulLists'
      BY <2>1 DEF MulInv, MulLists
    <3>4. MulHands'
      BY <2>1, <3>1, HandsStay
    <3>5. MulFresh'
      BY <2>1 DEF MulInv, MulFresh, Adds, Unheardof
    <3>6. MulCount'
      BY <2>1, <3>1, CountOn
    <3> QED
      BY <3>2, <3>3, <3>4, <3>5, <3>6
  <2> QED
    BY <2>2, <2>3 DEF MulInv
<1> QED
  BY <1>2, <1>3, <1>4, <1>5 DEF MulPortNext

\* What the invariant promises.
LEMMA MulInvSound == MulInv => MulPortSound
<1> SUFFICES ASSUME MulInv PROVE MulPortSound
  OBVIOUS
<1>1. MulTyped /\ SockInv /\ CutByStrangers /\ OthersAreGone
  BY DEF MulInv, MulTyped, MulUnits
<1>2. MulTypeOK
  <2>1. SockTypeOK
    BY <1>1, SockInvTyped
  <2>2. ASSUME NEW h \in Hands
        PROVE  /\ hand[h].pc \in {"idle", "add", "recv", "done", "drop", "close"}
               /\ hand[h].fd \in {0} \cup Fds /\ Len(hand[h].took) <= setup.buf
    BY HandIs DEF HandsAre, Works
  <2> QED
    BY <1>1, <2>1, <2>2 DEF MulTypeOK, MulTyped
<1>3. EndsByTwo
  <2>1. SUFFICES ASSUME down = "killed", ~Twice PROVE Cardinality({ p \in Peers : peer[p].st \in {"open", "shut"} }) >= 2
    BY DEF EndsByTwo, Twice
  <2>2. Crowded
    BY <2>1 DEF MulInv, MulCount
  <2>3. PICK p \in Peers, q \in Peers : p # q /\ Came(peer[p]) /\ Came(peer[q])
    BY <2>2 DEF Crowded
  <2> DEFINE S == { x \in Peers : peer[x].st \in {"open", "shut"} }
  <2>4. p \in S /\ q \in S /\ IsFiniteSet(S)
    <3>1. S \subseteq Peers /\ IsFiniteSet(Peers)
      BY TeachAssumption
    <3>2. IsFiniteSet(S)
      BY <3>1, FS_Subset
    <3> QED
      BY <2>3, <3>2 DEF Came
  <2> HIDE DEF S
  <2>5. IsFiniteSet(S \ {p}) /\ Cardinality(S \ {p}) = Cardinality(S) - 1 /\ Cardinality(S) \in Nat
    BY <2>4, FS_RemoveElement, FS_CardinalityType
  <2>6. Cardinality(S \ {p}) # 0 /\ Cardinality(S \ {p}) \in Nat
    <3>1. S \ {p} # {}
      BY <2>3, <2>4
    <3> QED
      BY <2>5, <3>1, FS_EmptySet, FS_CardinalityType
  <2> QED
    BY <2>5, <2>6 DEF S
<1> QED
  BY <1>1, <1>2, <1>3 DEF MulPortSound

\* Whoever has jobs for one descriptor: a connection is cut only by its own end or by a job
\* for another client, what is sent back is one's own or that of a client who is gone, and
\* the server ends only after two counts for one client or with two of them
\* (server_mulport_epoll.c:384, 546).
THEOREM PoolOfWorkersIsSound ==
  MulPortInit /\ IsMul /\ [][MulPortNext]_mulVars => []MulPortSound
<1>1. MulPortInit /\ IsMul => MulInv
  BY MulInit_Inv
<1>2. MulInv /\ [MulPortNext]_mulVars => MulInv'
  BY MulNext_Inv
<1>3. MulInv => MulPortSound
  BY MulInvSound
<1> QED
  BY <1>1, <1>2, <1>3, PTL

-----------------------------------------------------------------------------
(* The server with hooked calls *)

\* What coroutine p owes its client, whose record is r, while it is in the call a, with d
\* in hand; whole: no write to this client was cut.  A client that the kernel has heard
\* of twice was read from before what is in hand.
Cares(p, r, d, a, whole) ==
  /\ a \in {"none", "read", "write"} /\ (a # "none" <=> r.st = "open") /\ (a = "write" <=> d # <<>>)
  /\ d \in Seq(Peers \X Nat) /\ Len(d) <= setup.buf /\ Len(d) <= Rcvd(r)
  /\ whole => Heard(p, r, d)
  /\ r.st # "shut" /\ r.end \in {"finrst", "told"} => Len(d) < Rcvd(r)
CaresFor(p) == Cares(p, peer[p], data[p], pc[p], p \notin cut)

HookTyped ==
  /\ SockInv /\ IsHook
  /\ readyq \in Seq(Coros) /\ waits \subseteq Coros /\ current \in Coros \cup {Sched}
  /\ pc \in [Coros -> {"none", "accept", "read", "write"}] /\ pc[Acceptor] = "accept"
  /\ armed \in [Coros -> {"", "in", "out"}] /\ data \in [Peers -> Seq(Peers \X Nat)]
  /\ cut \subseteq Peers

\* Who is in the ready queue, each once.
Lined(q) == { q[i] : i \in 1..Len(q) }
Once(q) == \A i, j \in 1..Len(q) : q[i] = q[j] => i = j

OneHome ==
  /\ Once(readyq) /\ Lined(readyq) \cap waits = {} /\ current \notin Lined(readyq) \cup waits
  /\ \A k \in Coros : /\ pc[k] # "none" <=> k \in Lined(readyq) \cup waits \cup {current}
                      /\ armed[k] # "" <=> k \in waits

HookInv == HookTyped /\ OneHome /\ HookKills /\ \A p \in Peers : CaresFor(p)

\* The names of the coroutines.
LEMMA CorosAre ==
  /\ Sched \notin Coros /\ Acceptor \in Coros /\ Acceptor \notin Peers
  /\ \A k \in Coros : k \in Peers \/ k = Acceptor
  /\ \A p \in Peers : p \in Coros /\ p # Acceptor
BY HookAssumption DEF Coros, Sched, Acceptor

\* The invariant holds at the start.
LEMMA HookInit_Inv == SockInit /\ HookInit /\ IsHook => HookInv
<1> SUFFICES ASSUME SockInit, HookInit, IsHook PROVE HookInv
  OBVIOUS
<1>1. SockInv
  BY SockInit_Inv
<1>2. /\ peer = [p \in Peers |-> NoBody] /\ down = "up" /\ readyq = <<Acceptor>> /\ waits = {}
      /\ current = Sched /\ cut = {} /\ data = [p \in Peers |-> <<>>] /\ armed = [k \in Coros |-> ""]
      /\ pc = [k \in Coros |-> IF k = Acceptor THEN "accept" ELSE "none"]
  BY DEF SockInit, HookInit
<1>3. <<>> \in Seq(Peers \X Nat) /\ Len(<<>>) = 0
  OBVIOUS
<1>4. readyq \in Seq(Coros) /\ Len(readyq) = 1 /\ readyq[1] = Acceptor
  <2>1. \A a \in Coros : <<a>> \in Seq(Coros) /\ Len(<<a>>) = 1 /\ <<a>>[1] = a
    OBVIOUS
  <2> QED
    BY ONLY <1>2, <2>1, CorosAre
<1>5. HookTyped
  <2>1. data \in [Peers -> Seq(Peers \X Nat)]
    BY <1>2, <1>3
  <2>2. pc \in [Coros -> {"none", "accept", "read", "write"}] /\ pc[Acceptor] = "accept"
    BY <1>2, CorosAre
  <2> QED
    BY <1>1, <1>2, <1>4, <2>1, <2>2 DEF HookTyped
<1>6. OneHome
  <2>1. Lined(readyq) = {Acceptor} /\ Once(readyq)
    BY <1>4 DEF Lined, Once
  <2> QED
    BY <1>2, <2>1, CorosAre DEF OneHome
<1>7. ASSUME NEW p \in Peers PROVE CaresFor(p)
  <2>1. /\ peer[p] = NoBody /\ data[p] = <<>> /\ pc[p] = "none"
    BY <1>2, CorosAre
  <2>2. NoBody.st = "off" /\ NoBody.end = "no" /\ NoBody.got = <<>> /\ NoBody.sent = 0 /\ NoBody.box = <<>>
    BY DEF NoBody
  <2>3. setup.buf \in Nat
    BY <1>1, TeachAssumption DEF SockInv
  <2>6. PICK r : r = NoBody
    OBVIOUS
  <2>7. r.got = <<>> /\ r.sent = 0 /\ r.box = <<>>
    BY <2>2, <2>6
  <2>8. Len(r.box) = 0 /\ Len(r.got) = 0 /\ 0 - 0 = 0 /\ 0 + 0 = 0
    BY <1>3, <2>7
  <2>4. Rcvd(NoBody) = 0
    <3>1. Rcvd(r) = 0
      BY <2>7, <2>8 DEF Rcvd
    <3> QED
      BY <2>6, <3>1
  <2>5. Heard(p, NoBody, <<>>)
    <3>1. Heard(p, r, <<>>)
      <4>1. \A i \in 1..0 : FALSE
        OBVIOUS
      <4> QED
        BY ONLY <1>3, <2>7, <2>8, <4>1 DEF Heard
    <3> QED
      BY <2>6, <3>1
  <2> QED
    BY <1>3, <2>1, <2>2, <2>3, <2>4, <2>5 DEF CaresFor, Cares
<1> QED
  BY <1>2, <1>5, <1>6, <1>7 DEF HookInv, HookKills

\* What the client does moves no coroutine.
LEMMA HomeStays ==
  ASSUME HookInv, readyq' = readyq, waits' = waits, current' = current, pc' = pc, armed' = armed
  PROVE  OneHome'
<1>1. Once(readyq)' = Once(readyq) /\ Lined(readyq)' = Lined(readyq)
  BY DEF Once, Lined
<1> QED
  BY ONLY <1>1, HookInv, readyq' = readyq, waits' = waits, current' = current, pc' = pc, armed' = armed DEF HookInv, OneHome

\* Where a coroutine is moved: the queue without its head, and with one more.
LEMMA LineMoves ==
  ASSUME NEW q \in Seq(Coros), Once(q)
  PROVE  /\ Lined(q) \subseteq Coros
         /\ q # <<>> => /\ Head(q) \in Lined(q) /\ Tail(q) \in Seq(Coros) /\ Once(Tail(q))
                        /\ Lined(Tail(q)) = Lined(q) \ {Head(q)}
         /\ \A k \in Coros : k \notin Lined(q) =>
              Append(q, k) \in Seq(Coros) /\ Once(Append(q, k)) /\ Lined(Append(q, k)) = Lined(q) \cup {k}
<1>0. Len(q) \in Nat
  OBVIOUS
<1>1. ASSUME q # <<>>
      PROVE  /\ Head(q) \in Lined(q) /\ Tail(q) \in Seq(Coros) /\ Once(Tail(q))
             /\ Lined(Tail(q)) = Lined(q) \ {Head(q)}
  <2>1. /\ Len(q) >= 1 /\ Head(q) = q[1] /\ Tail(q) \in Seq(Coros) /\ Len(Tail(q)) = Len(q) - 1
        /\ \A i \in 1..Len(Tail(q)) : Tail(q)[i] = q[i + 1]
    BY <1>1, HeadTailProperties
  <2>2. Head(q) \in Lined(q)
    BY <1>0, <2>1 DEF Lined
  <2>3. \A i \in 1..Len(Tail(q)) : i + 1 \in 1..Len(q) /\ i + 1 # 1
    BY <1>0, <2>1
  <2>4. Once(Tail(q))
    <3>1. ASSUME NEW i \in 1..Len(Tail(q)), NEW j \in 1..Len(Tail(q)), Tail(q)[i] = Tail(q)[j] PROVE i = j
      <4>1. i + 1 = j + 1
        BY <2>1, <2>3, <3>1 DEF Once
      <4> QED
        BY <4>1
    <3> QED
      BY <3>1 DEF Once
  <2>5. ASSUME NEW k PROVE k \in Lined(Tail(q)) <=> k \in Lined(q) /\ k # Head(q)
    <3>1. ASSUME k \in Lined(Tail(q)) PROVE k \in Lined(q) /\ k # Head(q)
      <4>1. PICK i \in 1..Len(Tail(q)) : k = Tail(q)[i]
        BY <3>1 DEF Lined
      <4>2. k = q[i + 1] /\ i + 1 \in 1..Len(q) /\ i + 1 # 1 /\ 1 \in 1..Len(q)
        BY <1>0, <2>1, <2>3, <4>1
      <4> QED
        BY <2>1, <4>2 DEF Lined, Once
    <3>2. ASSUME k \in Lined(q), k # Head(q) PROVE k \in Lined(Tail(q))
      <4>1. PICK i \in 1..Len(q) : k = q[i]
        BY <3>2 DEF Lined
      <4>2. i - 1 \in 1..Len(Tail(q)) /\ (i - 1) + 1 = i
        BY <1>0, <2>1, <3>2, <4>1
      <4>3. k = Tail(q)[i - 1]
        BY <2>1, <4>1, <4>2
      <4> QED
        BY <4>2, <4>3 DEF Lined
    <3> QED
      BY <3>1, <3>2
  <2> QED
    BY <2>1, <2>2, <2>4, <2>5
<1>2. ASSUME NEW k \in Coros, k \notin Lined(q)
      PROVE  Append(q, k) \in Seq(Coros) /\ Once(Append(q, k)) /\ Lined(Append(q, k)) = Lined(q) \cup {k}
  <2>1. /\ Append(q, k) \in Seq(Coros) /\ Len(Append(q, k)) = Len(q) + 1
        /\ Append(q, k)[Len(q) + 1] = k /\ \A i \in 1..Len(q) : Append(q, k)[i] = q[i]
    BY AppendProperties
  <2>2. \A i : i \in 1..Len(Append(q, k)) <=> i \in 1..Len(q) \/ i = Len(q) + 1
    BY <1>0, <2>1
  <2>3. \A i \in 1..Len(q) : q[i] # k
    BY <1>2 DEF Lined
  <2>4. Once(Append(q, k))
    BY <2>1, <2>2, <2>3 DEF Once
  <2>5. Lined(Append(q, k)) = Lined(q) \cup {k}
    BY <2>1, <2>2 DEF Lined
  <2> QED
    BY <2>1, <2>4, <2>5
<1>3. Lined(q) \subseteq Coros
  <2>1. \A i \in 1..Len(q) : q[i] \in Coros
    OBVIOUS
  <2> QED
    BY <2>1 DEF Lined
<1> QED
  BY <1>1, <1>2, <1>3

\* A step that is about one client leaves the others served.
LEMMA AllServed ==
  ASSUME HookInv, NEW p \in Peers, setup' = setup,
         \A q \in Peers : q # p => /\ peer'[q] = peer[q] /\ data'[q] = data[q] /\ pc'[q] = pc[q]
                                   /\ q \in cut' <=> q \in cut,
         Cares(p, peer'[p], data'[p], pc'[p], p \notin cut')
  PROVE  \A q \in Peers : CaresFor(q)'
<1>1. ASSUME NEW q \in Peers PROVE Cares(q, peer'[q], data'[q], pc'[q], q \notin cut')
  <2>1. CASE q = p
    BY <2>1
  <2>2. CASE q # p
    <3>1. /\ peer'[q] = peer[q] /\ data'[q] = data[q] /\ pc'[q] = pc[q] /\ (q \in cut' <=> q \in cut)
          /\ Cares(q, peer[q], data[q], pc[q], q \notin cut)
      BY <2>2 DEF HookInv, CaresFor
    <3> QED
      BY ONLY <3>1 DEF Cares
  <2> QED
    BY <2>1, <2>2
<1> QED
  BY <1>1, setup' = setup DEF CaresFor, Cares

\* Who killed the server stays as it is while the clients act.
LEMMA KillsStay ==
  ASSUME HookInv, IsHook', down' = down, down = "killed" => \A q \in Peers :
           peer[q].end \in {"finrst", "told"} => peer'[q].end = peer[q].end /\ peer'[q].sent = peer[q].sent
  PROVE  HookKills'
BY DEF HookInv, HookTyped, HookKills

\* A client connects, sends, ends its connection, or reads at another pace.
LEMMA HookClient_Inv ==
  ASSUME HookInv, NEW p \in Peers, HookClient(p)
  PROVE  HookInv'
<1>1. /\ SockInv /\ IsHook /\ peer \in [Peers -> Records] /\ setup.buf \in Nat
  BY TeachAssumption DEF HookInv, HookTyped, SockInv
<1>2. /\ readyq' = readyq /\ waits' = waits /\ current' = current /\ pc' = pc /\ armed' = armed
      /\ data' = data /\ cut' = cut
  BY DEF HookClient
<1>3. OneHome'
  BY <1>2, HomeStays
<1>4. CASE Connect(p) \/ SendOrQuit(p)
  <2>1. PICK r : /\ Fine(p, r) /\ peer' = [peer EXCEPT ![p] = r] /\ setup' = setup /\ down' = down /\ SockInv'
                 /\ r.fd = peer[p].fd /\ r.got = peer[p].got
                 /\ \/ /\ peer[p].st = "off" /\ r.st = "queued" /\ r.sent = peer[p].sent
                       /\ r.box = peer[p].box /\ r.end = peer[p].end
                    \/ /\ r.st = peer[p].st /\ peer[p].end = "no" /\ r.end = "no"
                       /\ r.sent = peer[p].sent + 1 /\ Len(r.box) = Len(peer[p].box) + 1
                    \/ /\ r.st = peer[p].st /\ peer[p].end = "no" /\ r.end \in {"fin", "rst"}
                       /\ r.sent = peer[p].sent /\ r.box = peer[p].box
    BY <1>1, <1>4, ClientDoes
  <2>2. \A q \in Peers : peer'[q] = IF q = p THEN r ELSE peer[q]
    BY <1>1, <2>1
  <2>3. HookTyped'
    BY <1>2, <2>1 DEF HookInv, HookTyped, IsHook, prog
  <2>4. HookKills'
    <3>1. IsHook'
      BY <2>3 DEF HookTyped
    <3>2. \A q \in Peers : peer[q].end \in {"finrst", "told"} =>
             peer'[q].end = peer[q].end /\ peer'[q].sent = peer[q].sent
      BY <2>1, <2>2
    <3> QED
      BY <2>1, <3>1, <3>2, KillsStay
  <2>5. Rcvd(r) = Rcvd(peer[p])
    <3>1. peer[p].sent \in Nat /\ Len(peer[p].box) \in Nat
      BY <1>1 DEF Records
    <3>2. PICK a \in Nat, b \in Nat : a = peer[p].sent /\ b = Len(peer[p].box)
      BY ONLY <3>1
    <3>3. \/ r.sent = a /\ Len(r.box) = b
          \/ r.sent = a + 1 /\ Len(r.box) = b + 1
      BY <2>1, <3>2
    <3>4. (a + 1) - (b + 1) = a - b
      OBVIOUS
    <3> QED
      BY <3>2, <3>3, <3>4 DEF Rcvd
  <2>6. Cares(p, r, data[p], pc[p], p \notin cut)
    <3>1. Cares(p, peer[p], data[p], pc[p], p \notin cut)
      BY DEF HookInv, CaresFor
    <3>2. p \notin cut => Heard(p, r, data[p])
      <4>1. SUFFICES ASSUME p \notin cut PROVE Heard(p, peer'[p], data[p])
        BY <2>2
      <4>2. Heard(p, peer[p], data[p]) /\ data[p] \in Seq(Peers \X Nat)
        BY <3>1, <4>1 DEF Cares
      <4> QED
        BY <1>1, <1>4, <4>2, ClientHeard
    <3>3. /\ r.st = "open" <=> peer[p].st = "open"
          /\ r.st # "shut" => peer[p].st # "shut"
          /\ r.end \in {"finrst", "told"} => peer[p].end \in {"finrst", "told"}
      BY <2>1
    <3> QED
      BY ONLY <2>5, <3>1, <3>2, <3>3 DEF Cares
  <2>7. \A q \in Peers : CaresFor(q)'
    BY <1>2, <2>1, <2>2, <2>6, AllServed
  <2> QED
    BY <1>3, <2>3, <2>4, <2>7 DEF HookInv
<1>5. CASE UNCHANGED sockVars
  <2>1. setup' = setup /\ peer' = peer /\ queue' = queue /\ down' = down
    BY <1>5 DEF sockVars
  <2>2. HookTyped'
    <3>1. SockInv'
      BY <1>1, <2>1, SockStays
    <3> QED
      BY <1>2, <2>1, <3>1 DEF HookInv, HookTyped, IsHook, prog
  <2>3. HookKills'
    <3>1. IsHook'
      BY <2>2 DEF HookTyped
    <3> QED
      BY <2>1, <3>1, KillsStay
  <2>4. \A q \in Peers : CaresFor(q)'
    BY <1>2, <2>1 DEF HookInv, CaresFor, Cares
  <2> QED
    BY <1>3, <2>2, <2>3, <2>4 DEF HookInv
<1> QED
  BY <1>4, <1>5 DEF HookClient

\* A step of the server that leaves the connections alone and moves coroutines.
LEMMA SocketsStay ==
  ASSUME HookInv, UNCHANGED sockVars, down = "up", pc' = pc, data' = data, cut' = cut,
         readyq' \in Seq(Coros), waits' \subseteq Coros, current' \in Coros \cup {Sched},
         armed' \in [Coros -> {"", "in", "out"}], OneHome'
  PROVE  HookInv'
<1>1. setup' = setup /\ peer' = peer /\ queue' = queue /\ down' = "up"
  BY DEF sockVars
<1>2. SockInv'
  BY <1>1, SockStays DEF HookInv, HookTyped, sockVars
<1>3. HookTyped'
  BY <1>1, <1>2 DEF HookInv, HookTyped, IsHook, prog
<1>4. HookKills'
  BY <1>1 DEF HookKills
<1>5. \A q \in Peers : CaresFor(q)'
  BY <1>1 DEF HookInv, CaresFor, Cares
<1> QED
  BY <1>3, <1>4, <1>5 DEF HookInv

\* The next coroutine of the ready queue runs.
LEMMA Resume_Inv ==
  ASSUME HookInv, Resume
  PROVE  HookInv'
<1>1. /\ OneHome /\ readyq \in Seq(Coros) /\ Sched \notin Coros /\ Once(readyq)
      /\ waits \subseteq Coros /\ armed \in [Coros -> {"", "in", "out"}]
  BY CorosAre DEF HookInv, HookTyped, OneHome
<1>2. /\ down = "up" /\ current = Sched /\ readyq # <<>> /\ current' = Head(readyq)
      /\ readyq' = Tail(readyq) /\ UNCHANGED sockVars /\ waits' = waits /\ pc' = pc
      /\ armed' = armed /\ data' = data /\ cut' = cut
  BY DEF Resume
<1>3. /\ Head(readyq) \in Lined(readyq) /\ Tail(readyq) \in Seq(Coros) /\ Once(Tail(readyq))
      /\ Lined(Tail(readyq)) = Lined(readyq) \ {Head(readyq)}
  BY <1>1, <1>2, LineMoves
<1>4. Lined(readyq) \subseteq Coros
  BY <1>1, LineMoves
<1>5. Once(readyq)' /\ Lined(readyq)' = Lined(readyq) \ {current'}
  <2>1. readyq' = Tail(readyq) /\ current' = Head(readyq)
    BY <1>2
  <2>3. PICK t : t = Tail(readyq)
    OBVIOUS
  <2>4. Once(t) /\ readyq' = t /\ Lined(t) = Lined(readyq) \ {current'}
    BY <1>3, <2>1, <2>3
  <2>5. Once(readyq)' /\ Lined(readyq)' = Lined(t)
    BY ONLY <2>4 DEF Once, Lined
  <2> QED
    BY ONLY <2>4, <2>5
<1>6. OneHome'
  BY <1>1, <1>2, <1>3, <1>4, <1>5 DEF OneHome
<1> QED
  BY <1>1, <1>2, <1>3, <1>4, <1>6, SocketsStay

\* A coroutine waits for its descriptor.
LEMMA SuspendMoves ==
  ASSUME HookInv, NEW k \in Coros, current = k, NEW e \in {"in", "out"}, Suspend(k, e),
         readyq' = readyq, pc' = pc
  PROVE  /\ OneHome' /\ waits' \subseteq Coros /\ current' \in Coros \cup {Sched}
         /\ armed' \in [Coros -> {"", "in", "out"}]
<1>1. /\ OneHome /\ readyq \in Seq(Coros) /\ Sched \notin Coros /\ Once(readyq)
      /\ waits \subseteq Coros /\ armed \in [Coros -> {"", "in", "out"}]
  BY CorosAre DEF HookInv, HookTyped, OneHome
<1>2. waits' = waits \cup {k} /\ armed' = [armed EXCEPT ![k] = e] /\ current' = Sched
  BY DEF Suspend
<1>3. Lined(readyq) \subseteq Coros
  BY <1>1, LineMoves
<1>4. Once(readyq)' /\ Lined(readyq)' = Lined(readyq)
  BY <1>1 DEF Once, Lined
<1>5. \A x \in Coros : (armed'[x] # "") <=> (x = k \/ armed[x] # "")
  BY <1>1, <1>2
<1>6. armed' \in [Coros -> {"", "in", "out"}]
  BY <1>1, <1>2
<1>7. OneHome'
  <2>1. pc' = pc /\ current = k /\ k \in Coros
    OBVIOUS
  <2> QED
    BY ONLY <1>1, <1>2, <1>3, <1>4, <1>5, <2>1 DEF OneHome
<1> QED
  BY <1>1, <1>2, <1>6, <1>7

\* An order of a finite set of coroutines has each of them once.
LEMMA OrdersAre ==
  ASSUME NEW s \in SUBSET Coros, NEW q \in SetToSeqs(s)
  PROVE  q \in Seq(Coros) /\ Once(q) /\ Lined(q) = s
<1>1. IsFiniteSet(Coros)
  BY FS_AddElement, TeachAssumption DEF Coros
<1>2. IsFiniteSet(s) /\ Cardinality(s) \in Nat
  BY <1>1, FS_Subset, FS_CardinalityType
<1> DEFINE n == Cardinality(s)
           d == 1..n
<1>3. q \in [d -> s] /\ \A i, j \in d : i # j => q[i] # q[j]
  BY DEF SetToSeqs
<1>4. q \in Seq(Coros) /\ Len(q) = n
  <2>1. q \in [d -> Coros]
    BY <1>3
  <2> HIDE DEF n
  <2> QED
    BY <1>2, <2>1 DEF n
<1>5. q \in Injection(d, s)
  BY <1>3 DEF Injection, IsInjective
<1>6. Cardinality(d) = n /\ IsFiniteSet(d)
  BY <1>2, FS_Interval
<1>7. q \in Surjection(d, s)
  BY <1>2, <1>5, <1>6, FS_Injection
<1>8. \A x \in s : \E i \in d : q[i] = x
  BY <1>7 DEF Surjection
<1> QED
  BY <1>3, <1>4, <1>8 DEF Once, Lined

\* Each coroutine that waits for a reported descriptor becomes ready.
LEMMA EpollWait_Inv ==
  ASSUME HookInv, EpollWait
  PROVE  HookInv'
<1>1. /\ OneHome /\ readyq \in Seq(Coros) /\ Sched \notin Coros
      /\ waits \subseteq Coros /\ armed \in [Coros -> {"", "in", "out"}]
  BY CorosAre DEF HookInv, HookTyped
<1>2. /\ down = "up" /\ current = Sched /\ readyq = <<>> /\ UNCHANGED sockVars /\ current' = current
      /\ waits' = waits \ HookEvents /\ pc' = pc /\ data' = data /\ cut' = cut
      /\ armed' = [k \in Coros |-> IF k \in HookEvents THEN "" ELSE armed[k]]
  BY DEF EpollWait
<1>3. PICK order \in SetToSeqs(HookEvents) : readyq' = order
  BY DEF EpollWait
<1>4. HookEvents \subseteq Coros /\ \A k \in HookEvents : armed[k] # ""
  BY DEF HookEvents
<1>5. HookEvents \subseteq waits
  BY <1>1, <1>4 DEF OneHome
<1>6. order \in Seq(Coros) /\ Once(order) /\ Lined(order) = HookEvents
  BY <1>4, OrdersAre
<1>7. Once(readyq)' /\ Lined(readyq)' = HookEvents
  BY <1>3, <1>6 DEF Once, Lined
<1>8. Lined(readyq) = {}
  <2>1. Len(<<>>) = 0 /\ \A i \in 1..0 : FALSE
    OBVIOUS
  <2> QED
    BY <1>2, <2>1 DEF Lined
<1>9. armed' \in [Coros -> {"", "in", "out"}]
  BY <1>1, <1>2
<1>10. \A k \in Coros : armed'[k] = IF k \in HookEvents THEN "" ELSE armed[k]
  BY <1>2
<1>11. OneHome'
  BY <1>1, <1>2, <1>4, <1>5, <1>7, <1>8, <1>10 DEF OneHome
<1> QED
  BY <1>1, <1>2, <1>3, <1>6, <1>9, <1>11, SocketsStay

\* A client is accepted and gets a coroutine, or is closed at once.
LEMMA HookAccept_Inv ==
  ASSUME HookInv, HookAccept
  PROVE  HookInv'
<1>1. /\ SockInv /\ IsHook /\ OneHome /\ readyq \in Seq(Coros) /\ Once(readyq) /\ queue \in Seq(Peers)
      /\ peer \in [Peers -> Records] /\ pc \in [Coros -> {"none", "accept", "read", "write"}]
      /\ Lined(readyq) \subseteq Coros /\ waits \subseteq Coros /\ pc[Acceptor] = "accept"
  BY LineMoves DEF HookInv, HookTyped, OneHome, SockInv
<1>2. /\ down = "up" /\ current = Acceptor /\ setup' = setup /\ down' = down /\ data' = data /\ cut' = cut
      /\ Acceptor \in Coros
  BY CorosAre DEF HookAccept
<1>3. CASE queue = <<>>
  <2>1. Suspend(Acceptor, "in") /\ peer' = peer /\ queue' = queue /\ readyq' = readyq /\ pc' = pc
    BY <1>3 DEF HookAccept
  <2>2. /\ OneHome' /\ waits' \subseteq Coros /\ current' \in Coros \cup {Sched}
        /\ armed' \in [Coros -> {"", "in", "out"}]
    BY <1>2, <2>1, SuspendMoves
  <2> QED
    BY <1>1, <1>2, <2>1, <2>2, SocketsStay DEF sockVars
<1>4. CASE queue # <<>>
  <2>1. PICK p \in Peers : p = Head(queue)
    BY <1>1, <1>4
  <2>2. peer[p].st = "queued" /\ pc[p] = "none" /\ p \in Coros /\ p # Acceptor
    <3>1. Len(queue) >= 1 /\ p = queue[1]
      BY <1>1, <1>4, <2>1
    <3>2. peer[p].st = "queued"
      BY <1>1, <3>1 DEF SockInv
    <3> QED
      BY <3>2, CorosAre DEF HookInv, CaresFor, Cares
  <2>3. /\ queue' = Tail(queue) /\ waits' = waits /\ armed' = armed /\ current' = current
        /\ \/ /\ peer' = [peer EXCEPT ![p] = Accepted(p)]
              /\ readyq' = Append(readyq, p) /\ pc' = [pc EXCEPT ![p] = "read"]
           \/ peer' = [peer EXCEPT ![p] = Closed(peer[p])] /\ readyq' = readyq /\ pc' = pc
    BY <1>4, <2>1 DEF HookAccept
  <2>4. \E r : /\ peer' = [peer EXCEPT ![p] = r] /\ Fine(p, r) /\ r.fd \notin UsedFds
               /\ r.sent = peer[p].sent /\ r.box = peer[p].box /\ r.end = peer[p].end /\ r.got = peer[p].got
               /\ \/ r.st = "open" /\ readyq' = Append(readyq, p) /\ pc' = [pc EXCEPT ![p] = "read"]
                  \/ r.st = "shut" /\ readyq' = readyq /\ pc' = pc
    <3>1. ASSUME peer' = [peer EXCEPT ![p] = Accepted(p)] PROVE
            LET r == Accepted(p) IN
            /\ peer' = [peer EXCEPT ![p] = r] /\ Fine(p, r) /\ r.fd \notin UsedFds
            /\ r.sent = peer[p].sent /\ r.box = peer[p].box /\ r.end = peer[p].end /\ r.got = peer[p].got
            /\ r.st = "open"
      BY <1>1, <2>2, <3>1, AcceptedIs, FreeIs
    <3>2. Fine(p, peer[p])
      BY <1>1 DEF SockInv
    <3>3. ASSUME peer' = [peer EXCEPT ![p] = Closed(peer[p])] PROVE
            LET r == Closed(peer[p]) IN
            /\ peer' = [peer EXCEPT ![p] = r] /\ Fine(p, r) /\ r.fd \notin UsedFds
            /\ r.sent = peer[p].sent /\ r.box = peer[p].box /\ r.end = peer[p].end /\ r.got = peer[p].got
            /\ r.st = "shut"
      <4>1. \A q \in Peers : peer[q].st = "open" => peer[q].fd # 0
        BY <1>1 DEF SockInv, Fine
      <4>2. 0 \notin UsedFds
        BY <4>1 DEF UsedFds, Open
      <4> QED
        BY <3>2, <3>3, <4>2, ClosedIs
    <3> QED
      BY <2>3, <3>1, <3>3
  <2>5. PICK r : /\ peer' = [peer EXCEPT ![p] = r] /\ Fine(p, r) /\ r.fd \notin UsedFds
                 /\ r.sent = peer[p].sent /\ r.box = peer[p].box /\ r.end = peer[p].end /\ r.got = peer[p].got
                 /\ \/ r.st = "open" /\ readyq' = Append(readyq, p) /\ pc' = [pc EXCEPT ![p] = "read"]
                    \/ r.st = "shut" /\ readyq' = readyq /\ pc' = pc
    BY <2>4
  <2>6. SockInv'
    <3>1. TurnsOf(p, r)
      BY <1>4, <2>1, <2>3, <2>5 DEF TurnsOf
    <3> QED
      BY <1>1, <1>2, <2>5, <3>1, OneTurn DEF Downs
  <2>7. \A q \in Peers : peer'[q] = IF q = p THEN r ELSE peer[q]
    BY <1>1, <2>5
  <2>8. p \notin Lined(readyq) /\ p \notin waits /\ p # current /\ armed[p] = ""
    BY <1>1, <1>2, <2>2 DEF OneHome
  <2>9. readyq' \in Seq(Coros) /\ OneHome'
    <3>1. CASE readyq' = Append(readyq, p) /\ pc' = [pc EXCEPT ![p] = "read"]
      <4>1. readyq' \in Seq(Coros) /\ Once(readyq)' /\ Lined(readyq)' = Lined(readyq) \cup {p}
        <5>1. Append(readyq, p) \in Seq(Coros) /\ Once(Append(readyq, p))
              /\ Lined(Append(readyq, p)) = Lined(readyq) \cup {p}
          BY <1>1, <2>2, <2>8, LineMoves
        <5> QED
          BY <3>1, <5>1 DEF Once, Lined
      <4>2. \A k \in Coros : pc'[k] = IF k = p THEN "read" ELSE pc[k]
        BY <1>1, <3>1
      <4> QED
        BY <1>1, <1>2, <2>3, <2>8, <4>1, <4>2 DEF OneHome
    <3>2. CASE readyq' = readyq /\ pc' = pc
      BY <1>1, <2>3, <3>2, HomeStays
    <3> QED
      BY <2>5, <3>1, <3>2
  <2>10. pc' \in [Coros -> {"none", "accept", "read", "write"}] /\ pc'[Acceptor] = "accept"
    BY <1>1, <1>2, <2>2, <2>5
  <2>11. HookTyped'
    BY <1>1, <1>2, <2>3, <2>6, <2>9, <2>10 DEF HookInv, HookTyped, IsHook, prog
  <2>12. HookKills'
    BY <1>2 DEF HookKills
  <2>13. Cares(p, r, data[p], pc'[p], p \notin cut)
    <3>1. Cares(p, peer[p], data[p], pc[p], p \notin cut)
      BY DEF HookInv, CaresFor
    <3>2. \/ r.st = "open" /\ pc'[p] = "read"
          \/ r.st = "shut" /\ pc'[p] = "none"
      BY <1>1, <2>2, <2>5
    <3>3. Rcvd(r) = Rcvd(peer[p]) /\ \A d : Heard(p, r, d) <=> Heard(p, peer[p], d)
      BY <2>5 DEF Rcvd, Heard
    <3> QED
      BY ONLY <2>2, <2>5, <3>1, <3>2, <3>3 DEF Cares
  <2>14. \A q \in Peers : CaresFor(q)'
    <3>1. \A q \in Peers : q # p => pc'[q] = pc[q]
      BY <1>1, <2>5, CorosAre
    <3> QED
      BY <1>2, <2>7, <2>13, <3>1, AllServed
  <2> QED
    BY <2>9, <2>11, <2>12, <2>14 DEF HookInv
<1> QED
  BY <1>3, <1>4

\* A coroutine goes from one call to the next and goes on.
LEMMA CallsOn ==
  ASSUME HookInv, NEW k \in Coros, NEW a, a # "none", pc[k] # "none", pc' = [pc EXCEPT ![k] = a],
         readyq' = readyq, waits' = waits, current' = current, armed' = armed
  PROVE  OneHome'
<1>1. OneHome /\ pc \in [Coros -> {"none", "accept", "read", "write"}]
  BY DEF HookInv, HookTyped
<1>2. \A x \in Coros : pc'[x] # "none" <=> pc[x] # "none"
  BY <1>1
<1>3. Once(readyq)' /\ Lined(readyq)' = Lined(readyq)
  <2>1. Once(readyq) /\ readyq' = readyq
    BY <1>1 DEF OneHome
  <2> QED
    BY ONLY <2>1 DEF Once, Lined
<1>4. waits' = waits /\ current' = current /\ armed' = armed
  OBVIOUS
<1> QED
  BY ONLY <1>1, <1>2, <1>3, <1>4 DEF OneHome

\* Read gives units, or the coroutine waits, or the connection is closed.
LEMMA HookRead_Inv ==
  ASSUME HookInv, NEW p \in Peers, HookRead(p)
  PROVE  HookInv'
<1>1. /\ SockInv /\ IsHook /\ OneHome /\ peer \in [Peers -> Records] /\ HookTyped
      /\ pc \in [Coros -> {"none", "accept", "read", "write"}] /\ pc[Acceptor] = "accept"
      /\ data \in [Peers -> Seq(Peers \X Nat)] /\ setup.buf \in Nat \ {0}
  BY TeachAssumption DEF HookInv, HookTyped, SockInv
<1>2. /\ down = "up" /\ current = p /\ pc[p] = "read" /\ setup' = setup /\ queue' = queue
      /\ down' = down /\ readyq' = readyq /\ cut' = cut /\ p \in Coros /\ p # Acceptor
  BY CorosAre DEF HookRead
<1>3. PICK n \in Nat \ {0} : n = setup.buf
  BY <1>1
<1>4. PICK x : x = Received(p, n)
  OBVIOUS
<1>5. PICK t : t = Taken(p, n)
  OBVIOUS
<1>6. /\ Fine(p, x) /\ x.st = peer[p].st /\ x.fd = peer[p].fd /\ x.sent = peer[p].sent
      /\ x.got = peer[p].got /\ x.end = IF Result(p, n) = -1 THEN "told" ELSE peer[p].end
  BY <1>1, <1>4, ReceivedIs
<1>7. /\ t \in Seq(Peers \X Nat) /\ Len(t) <= n /\ (t = <<>> <=> peer[p].box = <<>>)
      /\ Result(p, n) = -1 => peer[p].box = <<>>
  BY <1>1, <1>3, <1>5, TakenIs
<1>8. Rcvd(peer[p]) \in Nat /\ Rcvd(x) = Rcvd(peer[p]) + Len(t)
  BY <1>1, <1>3, <1>4, <1>5, RcvdOn
<1>9. /\ Cares(p, peer[p], data[p], "read", p \notin cut) /\ data[p] = <<>> /\ Len(data[p]) = 0
      /\ peer[p].st = "open"
  <2>1. Cares(p, peer[p], data[p], "read", p \notin cut)
    BY <1>2 DEF HookInv, CaresFor
  <2>2. data[p] = <<>>
    BY <2>1 DEF Cares
  <2> QED
    BY <2>1, <2>2 DEF Cares
<1>10. p \notin cut => Heard(p, x, t)
  <2>1. p \notin cut => Heard(p, peer[p], <<>>)
    BY <1>9 DEF Cares
  <2> QED
    BY <1>1, <1>3, <1>4, <1>5, <2>1, ReadsHeard
<1>11. CASE /\ peer[p].box # <<>> /\ data' = [data EXCEPT ![p] = t] /\ peer' = [peer EXCEPT ![p] = x]
            /\ pc' = [pc EXCEPT ![p] = "write"] /\ waits' = waits /\ armed' = armed /\ current' = current
  <2>1. SockInv'
    <3>1. TurnsOf(p, x)
      BY <1>2, <1>6 DEF TurnsOf
    <3> QED
      BY <1>1, <1>2, <1>6, <1>11, <3>1, OneTurn DEF Downs
  <2>2. OneHome'
    BY <1>2, <1>11, CallsOn
  <2>3. HookTyped'
    <3>1. pc' \in [Coros -> {"none", "accept", "read", "write"}] /\ pc'[Acceptor] = "accept"
      BY <1>1, <1>2, <1>11
    <3>2. data' \in [Peers -> Seq(Peers \X Nat)]
      BY <1>1, <1>7, <1>11
    <3> QED
      BY <1>1, <1>2, <1>11, <2>1, <3>1, <3>2 DEF HookTyped, IsHook, prog
  <2>4. HookKills'
    BY <1>2 DEF HookKills
  <2>5. Cares(p, x, t, "write", p \notin cut)
    <3>1. x.end = peer[p].end /\ t # <<>>
      BY <1>6, <1>7, <1>11
    <3>2. Len(t) <= setup.buf /\ Len(t) <= Rcvd(x) /\ Len(t) \in Nat
      BY <1>3, <1>7, <1>8
    <3>3. x.st # "shut" /\ x.end \in {"finrst", "told"} => Len(t) < Rcvd(x)
      <4>1. SUFFICES ASSUME x.end \in {"finrst", "told"} PROVE Len(t) < Rcvd(x)
        OBVIOUS
      <4>2. 0 < Rcvd(peer[p])
        BY <1>6, <1>9, <3>1, <4>1 DEF Cares
      <4> QED
        BY <1>8, <3>2, <4>2
    <3>4. x.st = "open"
      BY <1>6, <1>9
    <3> QED
      BY ONLY <1>7, <1>10, <3>1, <3>2, <3>3, <3>4 DEF Cares
  <2>6. \A q \in Peers : CaresFor(q)'
    <3>1. peer'[p] = x /\ data'[p] = t /\ pc'[p] = "write"
      BY <1>1, <1>2, <1>11
    <3>2. \A q \in Peers : q # p => peer'[q] = peer[q] /\ data'[q] = data[q] /\ pc'[q] = pc[q]
      BY <1>1, <1>11, CorosAre
    <3> QED
      BY <1>2, <2>5, <3>1, <3>2, AllServed
  <2> QED
    BY <2>2, <2>3, <2>4, <2>6 DEF HookInv
<1>12. CASE Suspend(p, "in") /\ peer' = peer /\ data' = data /\ pc' = pc
  <2>1. /\ OneHome' /\ waits' \subseteq Coros /\ current' \in Coros \cup {Sched}
        /\ armed' \in [Coros -> {"", "in", "out"}]
    BY <1>2, <1>12, SuspendMoves
  <2> QED
    BY <1>1, <1>2, <1>12, <2>1, SocketsStay DEF sockVars, HookTyped
<1>13. CASE /\ Readable(p) /\ peer[p].box = <<>> /\ peer' = [peer EXCEPT ![p] = Closed(x)]
            /\ pc' = [pc EXCEPT ![p] = "none"] /\ current' = Sched /\ waits' = waits /\ armed' = armed
            /\ data' = data
  <2>1. PICK r : r = Closed(x)
    OBVIOUS
  <2>2. /\ Fine(p, r) /\ r.st = "shut" /\ r.sent = x.sent /\ r.box = x.box /\ r.end = x.end /\ r.got = x.got
    BY <1>6, <2>1, ClosedIs
  <2>3. peer' = [peer EXCEPT ![p] = r]
    BY <1>13, <2>1
  <2>4. SockInv'
    <3>1. TurnsOf(p, r)
      BY <1>2, <1>9, <2>2 DEF TurnsOf
    <3> QED
      BY <1>1, <1>2, <2>2, <2>3, <3>1, OneTurn DEF Downs
  <2>5. OneHome'
    <3>1. p \notin Lined(readyq) \cup waits /\ Lined(readyq) \cup waits \subseteq Coros /\ Sched \notin Coros
      <4>1. readyq \in Seq(Coros) /\ waits \subseteq Coros /\ Once(readyq)
        BY <1>1 DEF HookTyped, OneHome
      <4>2. Lined(readyq) \subseteq Coros
        BY <4>1, LineMoves
      <4> QED
        BY <1>1, <1>2, <4>1, <4>2, CorosAre DEF OneHome
    <3>2. \A k \in Coros : pc'[k] # "none" <=> pc[k] # "none" /\ k # p
      BY <1>1, <1>13
    <3>3. Once(readyq)' /\ Lined(readyq)' = Lined(readyq)
      <4>1. Once(readyq) /\ readyq' = readyq
        BY <1>1, <1>2 DEF OneHome
      <4> QED
        BY ONLY <4>1 DEF Once, Lined
    <3> QED
      BY ONLY <1>1, <1>2, <1>13, <3>1, <3>2, <3>3 DEF OneHome
  <2>6. HookTyped'
    <3>1. pc' \in [Coros -> {"none", "accept", "read", "write"}] /\ pc'[Acceptor] = "accept"
      BY <1>1, <1>2, <1>13
    <3> QED
      BY <1>1, <1>2, <1>13, <2>4, <3>1 DEF HookTyped, IsHook, prog
  <2>7. HookKills'
    BY <1>2 DEF HookKills
  <2>8. Cares(p, r, data[p], "none", p \notin cut)
    <3>1. t = <<>>
      BY <1>7, <1>13
    <3>2. /\ Rcvd(r) \in Nat /\ setup.buf \in Nat
          /\ p \notin cut => Heard(p, r, data[p])
      <4>1. Rcvd(r) = Rcvd(x) /\ Rcvd(x) \in Nat
        BY <1>7, <1>8, <2>2 DEF Rcvd
      <4>2. p \notin cut => Heard(p, x, data[p])
        BY <1>9, <1>10, <3>1
      <4> QED
        BY <1>1, <2>2, <4>1, <4>2 DEF Heard
    <3>3. data[p] \in Seq(Peers \X Nat)
      BY <1>1
    <3> QED
      BY ONLY <1>9, <2>2, <3>2, <3>3 DEF Cares
  <2>9. \A q \in Peers : CaresFor(q)'
    <3>1. peer'[p] = r /\ data'[p] = data[p] /\ pc'[p] = "none"
      BY <1>1, <1>2, <1>13, <2>3
    <3>2. \A q \in Peers : q # p => peer'[q] = peer[q] /\ data'[q] = data[q] /\ pc'[q] = pc[q]
      BY <1>1, <1>13, <2>3, CorosAre
    <3> QED
      BY <1>2, <2>8, <3>1, <3>2, AllServed
  <2> QED
    BY <2>5, <2>6, <2>7, <2>9 DEF HookInv
<1> QED
  BY <1>3, <1>4, <1>5, <1>11, <1>12, <1>13 DEF HookRead

\* What write takes: the beginning of its argument, or all of it.
LEMMA PortionIs ==
  ASSUME NEW p \in Peers, data[p] \in Seq(Peers \X Nat), data[p] # <<>>, NEW part \in Portions(p)
  PROVE  /\ part \in Seq(Peers \X Nat) /\ Len(part) <= Len(data[p])
         /\ ~(Len(part) < Len(data[p])) => part = data[p]
<1> DEFINE s == data[p]
<1>1. s \in Seq(Peers \X Nat) /\ Len(s) \in Nat
  OBVIOUS
<1>2. CASE part = s
  BY <1>1, <1>2
<1>3. ASSUME NEW n \in 1..Len(s), part = SubSeq(s, 1, n)
      PROVE  /\ part \in Seq(Peers \X Nat) /\ Len(part) <= Len(s)
             /\ ~(Len(part) < Len(s)) => part = s
  <2> HIDE DEF s
  <2>1. n \in 0..Len(s) /\ n <= Len(s) /\ n \in Nat
    BY <1>1
  <2>2. part \in Seq(Peers \X Nat) /\ Len(part) = n /\ \A i \in 1..n : part[i] = s[i]
    BY ONLY <1>1, <1>3, <2>1, RestOfSeq
  <2>3. ASSUME ~(Len(part) < Len(s)) PROVE part = s
    <3>1. Len(part) = Len(s)
      BY <1>1, <2>1, <2>2, <2>3
    <3> QED
      BY ONLY <1>1, <2>2, <3>1, SeqEqual
  <2> QED
    BY <2>1, <2>2, <2>3
<1> QED
  BY <1>2, <1>3 DEF Portions

\* What is in hand is written, all or some of it, or the coroutine waits for room.
LEMMA HookWrite_Inv ==
  ASSUME HookInv, NEW p \in Peers, HookWrite(p)
  PROVE  HookInv'
<1>1. /\ SockInv /\ IsHook /\ OneHome /\ peer \in [Peers -> Records] /\ HookTyped /\ cut \subseteq Peers
      /\ pc \in [Coros -> {"none", "accept", "read", "write"}] /\ pc[Acceptor] = "accept"
      /\ data \in [Peers -> Seq(Peers \X Nat)] /\ setup.buf \in Nat /\ Fine(p, peer[p])
  BY TeachAssumption DEF HookInv, HookTyped, SockInv
<1>2. /\ down = "up" /\ current = p /\ pc[p] = "write" /\ setup' = setup /\ queue' = queue
      /\ readyq' = readyq /\ p \in Coros /\ p # Acceptor
  BY CorosAre DEF HookWrite
<1>3. CASE Suspend(p, "out") /\ UNCHANGED <<peer, down, pc, data, cut>>
  <2>1. /\ OneHome' /\ waits' \subseteq Coros /\ current' \in Coros \cup {Sched}
        /\ armed' \in [Coros -> {"", "in", "out"}]
    BY <1>2, <1>3, SuspendMoves
  <2> QED
    BY <1>1, <1>2, <1>3, <2>1, SocketsStay DEF sockVars, HookTyped
<1>4. ASSUME NEW part \in Portions(p),
             down' = IF SendKills(peer[p]) THEN "killed" ELSE "up",
             peer' = [peer EXCEPT ![p] = Answered(peer[p], part)],
             cut' = IF Len(part) < Len(data[p]) THEN cut \cup {p} ELSE cut,
             data' = [data EXCEPT ![p] = <<>>], pc' = [pc EXCEPT ![p] = "read"],
             waits' = waits, armed' = armed, current' = current
      PROVE  HookInv'
  <2>1. /\ Cares(p, peer[p], data[p], "write", p \notin cut) /\ data[p] # <<>>
        /\ data[p] \in Seq(Peers \X Nat) /\ peer[p].st = "open"
    <3>1. Cares(p, peer[p], data[p], "write", p \notin cut)
      BY <1>2 DEF HookInv, CaresFor
    <3> QED
      BY <3>1 DEF Cares
  <2>2. /\ part \in Seq(Peers \X Nat) /\ Len(part) <= Len(data[p])
        /\ ~(Len(part) < Len(data[p])) => part = data[p]
    BY <2>1, PortionIs
  <2>3. part \in Seq((Peers \cup {Listener}) \X Nat)
    <3>1. \A i \in 1..Len(part) : part[i] \in (Peers \cup {Listener}) \X Nat
      BY <2>2
    <3> QED
      BY <2>2, <3>1
  <2>4. PICK r : r = Answered(peer[p], part)
    OBVIOUS
  <2>5. /\ Fine(p, r) /\ r.st = peer[p].st /\ r.fd = peer[p].fd /\ r.sent = peer[p].sent
        /\ r.box = peer[p].box /\ (SendKills(peer[p]) => r = peer[p])
    BY <1>1, <2>3, <2>4, AnsweredIs
  <2>6. SockInv'
    <3>1. TurnsOf(p, r)
      BY <1>2, <2>5 DEF TurnsOf
    <3> QED
      BY <1>1, <1>2, <1>4, <2>4, <2>5, <3>1, OneTurn DEF Downs
  <2>7. OneHome'
    BY <1>2, <1>4, CallsOn
  <2>8. HookTyped'
    <3>1. pc' \in [Coros -> {"none", "accept", "read", "write"}] /\ pc'[Acceptor] = "accept"
      BY <1>1, <1>2, <1>4
    <3>2. data' \in [Peers -> Seq(Peers \X Nat)]
      <4>1. <<>> \in Seq(Peers \X Nat)
        OBVIOUS
      <4> QED
        BY <1>1, <1>4, <4>1
    <3>3. cut' \subseteq Peers
      BY <1>1, <1>4
    <3> QED
      BY <1>1, <1>2, <1>4, <2>6, <3>1, <3>2, <3>3 DEF HookTyped, IsHook, prog
  <2>9. Len(data[p]) \in Nat \ {0} /\ Rcvd(peer[p]) \in Nat /\ Len(data[p]) <= Rcvd(peer[p])
    <3>1. Len(data[p]) \in Nat \ {0}
      BY <2>1
    <3>2. Rcvd(peer[p]) \in Nat
      BY <1>1, RcvdOn
    <3> QED
      BY <2>1, <3>1, <3>2 DEF Cares
  <2>10. HookKills'
    <3>1. SUFFICES ASSUME SendKills(peer[p])
                   PROVE  peer'[p].end \in {"finrst", "told"} /\ peer'[p].sent >= 2
      BY <1>4 DEF HookKills
    <3>2. peer'[p] = peer[p]
      BY <1>1, <1>4, <2>4, <2>5, <3>1
    <3>3. peer[p].end \in {"finrst", "told"} /\ Len(data[p]) < Rcvd(peer[p])
      BY <2>1, <3>1 DEF SendKills, Cares
    <3>6. Len(peer[p].box) \in Nat
      BY <1>1 DEF Fine, Records
    <3>4. peer[p].sent = Rcvd(peer[p]) + Len(peer[p].box) /\ Len(peer[p].box) \in Nat
      BY <1>1, <3>6, RcvdOn
    <3>5. peer[p].sent >= 2
      BY <2>9, <3>3, <3>4
    <3> QED
      BY <3>2, <3>3, <3>5
  <2>11. Cares(p, r, <<>>, "read", p \notin cut')
    <3>1. Rcvd(r) = Rcvd(peer[p])
      BY <2>5 DEF Rcvd
    <3>2. <<>> \in Seq(Peers \X Nat) /\ Len(<<>>) = 0
      OBVIOUS
    <3>3. 0 < Rcvd(r) /\ 0 <= Rcvd(r) /\ 0 <= setup.buf
      BY <1>1, <2>9, <3>1
    <3>4. p \notin cut' => Heard(p, r, <<>>)
      <4>1. SUFFICES ASSUME p \notin cut' PROVE Heard(p, r, <<>>)
        OBVIOUS
      <4>2. part = data[p] /\ p \notin cut
        BY <1>4, <2>2, <4>1
      <4>3. Heard(p, peer[p], part)
        BY <2>1, <4>2 DEF Cares
      <4> QED
        BY <1>1, <2>2, <2>4, <4>3, AnswersHeard
    <3> QED
      BY ONLY <2>1, <2>5, <3>2, <3>3, <3>4 DEF Cares
  <2>12. \A q \in Peers : CaresFor(q)'
    <3>1. peer'[p] = r /\ data'[p] = <<>> /\ pc'[p] = "read"
      BY <1>1, <1>2, <1>4, <2>4
    <3>2. \A q \in Peers : q # p => /\ peer'[q] = peer[q] /\ data'[q] = data[q] /\ pc'[q] = pc[q]
                                    /\ q \in cut' <=> q \in cut
      BY <1>1, <1>4, CorosAre
    <3> QED
      BY <1>2, <2>11, <3>1, <3>2, AllServed
  <2> QED
    BY <2>7, <2>8, <2>10, <2>12 DEF HookInv
<1> QED
  BY <1>3, <1>4 DEF HookWrite

\* Every step keeps the invariant.
LEMMA HookNext_Inv == HookInv /\ [HookNext]_hookVars => HookInv'
<1> SUFFICES ASSUME HookInv, [HookNext]_hookVars PROVE HookInv'
  OBVIOUS
<1>1. CASE \E p \in Peers : HookClient(p)
  BY <1>1, HookClient_Inv
<1>2. CASE HookServer
  BY <1>2, Resume_Inv, EpollWait_Inv, HookAccept_Inv, HookRead_Inv, HookWrite_Inv DEF HookServer
<1>3. CASE UNCHANGED hookVars
  <2>1. /\ UNCHANGED sockVars /\ setup' = setup /\ peer' = peer /\ queue' = queue /\ down' = down
        /\ readyq' = readyq /\ waits' = waits /\ current' = current /\ pc' = pc /\ armed' = armed
        /\ data' = data /\ cut' = cut
    BY <1>3 DEF hookVars, sockVars
  <2>2. OneHome'
    BY <2>1, HomeStays
  <2>3. HookTyped'
    <3>1. SockInv'
      BY <2>1, SockStays DEF HookInv, HookTyped
    <3> QED
      BY <2>1, <3>1 DEF HookInv, HookTyped, IsHook, prog
  <2>4. HookKills'
    <3>1. IsHook'
      BY <2>3 DEF HookTyped
    <3> QED
      BY <2>1, <3>1, KillsStay
  <2>5. \A q \in Peers : CaresFor(q)'
    BY <2>1 DEF HookInv, CaresFor, Cares
  <2> QED
    BY <2>2, <2>3, <2>4, <2>5 DEF HookInv
<1> QED
  BY <1>1, <1>2, <1>3 DEF HookNext

\* What the invariant promises.
LEMMA HookInvSound == HookInv => HookSound
<1> SUFFICES ASSUME HookInv PROVE HookSound
  OBVIOUS
<1>1. SockInv /\ HookTyped /\ OneHome
  BY DEF HookInv, HookTyped
<1>2. HookTypeOK
  <2>1. SockTypeOK
    BY <1>1, SockInvTyped
  <2>2. \A p \in Peers : Len(data[p]) <= setup.buf
    BY DEF HookInv, CaresFor, Cares
  <2> QED
    BY <1>1, <2>1, <2>2 DEF HookTypeOK, HookTyped
<1>3. OneList
  <2>5. readyq \in Seq(Coros)
    BY <1>1 DEF HookTyped
  <2>1. DOMAIN readyq = 1..Len(readyq)
    BY ONLY <2>5
  <2>2. Range(readyq) = Lined(readyq)
    BY <2>1 DEF Range, Lined
  <2>3. \A i, j \in DOMAIN readyq : readyq[i] = readyq[j] => i = j
    BY <1>1, <2>1 DEF OneHome, Once
  <2>4. \A p \in Peers : pc[p] # "none" <=> p \in Open
    BY DEF HookInv, CaresFor, Cares, Open
  <2> QED
    BY <1>1, <2>2, <2>3, <2>4 DEF OneList, OneHome
<1>4. HookEchoes
  <2>1. ASSUME NEW p \in Peers, p \notin cut PROVE Echoes(p)
    <3>1. Heard(p, peer[p], data[p])
      BY <2>1 DEF HookInv, CaresFor, Cares
    <3> QED
      BY <1>1, <3>1, HeardEchoes
  <2> QED
    BY <2>1 DEF HookEchoes
<1> QED
  BY <1>2, <1>3, <1>4 DEF HookInv, HookSound

\* The coroutine server never loses a coroutine and never has one in two places; each
\* client gets back what it sent, in order, unless a write was cut
\* (Final_hook_zzx_tcp.c:361); and a client that sent once never kills it.
THEOREM HookedCallsAreSound == SockInit /\ HookInit /\ IsHook /\ [][HookNext]_hookVars => []HookSound
<1>1. SockInit /\ HookInit /\ IsHook => HookInv
  BY HookInit_Inv
<1>2. HookInv /\ [HookNext]_hookVars => HookInv'
  BY HookNext_Inv
<1>3. HookInv => HookSound
  BY HookInvSound
<1> QED
  BY <1>1, <1>2, <1>3, PTL

-----------------------------------------------------------------------------
(* The echo server on io_uring *)

OpRecords == [op : {"accept", "recv", "send"}, fd : {0} \cup Fds, n : Nat]
EvRecords == [op : {"accept", "recv", "send"}, fd : {0} \cup Fds, res : Nat \cup {-1}]

\* The descriptor a completion is about; operations prepared or running, completions.
EvFd(e) == IF e.op = "accept" THEN e.res ELSE e.fd
Asked == running \cup Lined(sq)
Done == Lined(cqes) \cup Lined(cq)

\* Nobody but p has sent anything or ended its connection.
Alone(p) == \A q \in Peers \ {p} : peer[q].sent = 0 /\ peer[q].end = "no"

\* The first n places of the buffer are to be sent to client p.
Due(p, n) ==
  /\ Len(peer[p].got) + n <= Rcvd(peer[p])
  /\ Alone(p) => Heard(p, peer[p], SubSeq(buffer, 1, n))
OpDue(p, o) ==
  /\ o.op \in {"recv", "send"}
  /\ o.op = "recv" => o.n = setup.buf /\ Due(p, 0)
  /\ o.op = "send" => o.n \in 1..setup.buf /\ Due(p, o.n)
EvDue(p, e) ==
  /\ e.op = "recv" => /\ e.res <= setup.buf /\ (e.res = -1 => peer[p].end = "told")
                      /\ e.res = 0 => peer[p].end # "no"
                      /\ Due(p, IF e.res > 0 THEN e.res ELSE 0)
  /\ e.op # "recv" => Due(p, 0)

\* A descriptor is in one place of the rings.
OpOnce(s) == \A i, j \in 1..Len(s) : s[i].fd = s[j].fd /\ s[i].fd # 0 => i = j
EvOnce(s) == \A i, j \in 1..Len(s) : EvFd(s[i]) = EvFd(s[j]) => i = j
OneEach ==
  /\ OpOnce(sq) /\ EvOnce(cqes) /\ EvOnce(cq)
  /\ \A a, b \in running : a.fd = b.fd /\ a.fd # 0 => a = b
  /\ \A a \in running, b \in Lined(sq) : a.fd # 0 => a.fd # b.fd
  /\ \A a \in Lined(cqes), b \in Lined(cq) : EvFd(a) # EvFd(b)
  /\ \A a \in Asked, b \in Done : a.fd # EvFd(b)

\* What is in the rings is about a connection that is open.
Owned ==
  /\ \A o \in Asked : (o.fd = 0 <=> o.op = "accept") /\ (o.fd # 0 => o.fd \in UsedFds)
  /\ \A e \in Done : EvFd(e) \in UsedFds

\* What was sent to client p is no more than what was read from it.
Modest(p) ==
  /\ peer[p].st \in {"off", "queued"} => Due(p, 0)
  /\ Len(peer[p].got) <= Rcvd(peer[p])
  /\ Alone(p) => \A i \in 1..Len(peer[p].got) : peer[p].got[i] = <<p, i>>

\* The operation of client p carries what is due to it; there is one, unless a receive failed.
Kept(p) ==
  /\ \A o \in Asked : o.fd # 0 /\ o.fd = peer[p].fd => OpDue(p, o)
  /\ \A e \in Done : EvFd(e) = peer[p].fd => EvDue(p, e)
  /\ Modest(p)
  /\ peer[p].st = "open" => \/ peer[p].end = "told"
                            \/ \E o \in Asked : o.fd = peer[p].fd
                            \/ \E e \in Done : EvFd(e) = peer[p].fd

UringTyped ==
  /\ SockInv /\ prog = "uring"
  /\ sq \in Seq(OpRecords) /\ running \subseteq OpRecords /\ cq \in Seq(EvRecords) /\ cqes \in Seq(EvRecords)
  /\ buffer \in [1..setup.buf -> (Peers \cup {Listener}) \X Nat]

UringInv == UringTyped /\ OneEach /\ Owned /\ \A p \in Peers : Kept(p)

\* The queue of prepared operations with one more.
LEMMA OpLine ==
  ASSUME NEW s \in Seq(OpRecords), OpOnce(s), NEW o \in OpRecords,
         o.fd # 0 => \A x \in Lined(s) : x.fd # o.fd
  PROVE  /\ Append(s, o) \in Seq(OpRecords) /\ OpOnce(Append(s, o))
         /\ Lined(Append(s, o)) = Lined(s) \cup {o}
<1> DEFINE t == Append(s, o)
<1>0. Len(s) \in Nat
  OBVIOUS
<1>1. /\ t \in Seq(OpRecords) /\ Len(t) = Len(s) + 1 /\ t[Len(s) + 1] = o
      /\ \A i \in 1..Len(s) : t[i] = s[i]
  BY AppendProperties
<1> HIDE DEF t
<1>2. \A i : i \in 1..Len(t) <=> i \in 1..Len(s) \/ i = Len(s) + 1
  BY <1>0, <1>1
<1>3. o.fd # 0 => \A i \in 1..Len(s) : s[i].fd # o.fd
  BY DEF Lined
<1>4. OpOnce(t)
  BY <1>1, <1>2, <1>3 DEF OpOnce
<1>5. Lined(t) = Lined(s) \cup {o}
  BY <1>1, <1>2 DEF Lined
<1> QED
  BY <1>1, <1>4, <1>5 DEF t

\* A queue of completions with one more, and without its head.
LEMMA EvLine ==
  ASSUME NEW s \in Seq(EvRecords), EvOnce(s)
  PROVE  /\ Lined(s) \subseteq EvRecords
         /\ \A e \in EvRecords : (\A x \in Lined(s) : EvFd(x) # EvFd(e)) =>
              /\ Append(s, e) \in Seq(EvRecords) /\ EvOnce(Append(s, e))
              /\ Lined(Append(s, e)) = Lined(s) \cup {e}
         /\ s # <<>> =>
              /\ Head(s) \in Lined(s) /\ Tail(s) \in Seq(EvRecords) /\ EvOnce(Tail(s))
              /\ Lined(Tail(s)) = { x \in Lined(s) : EvFd(x) # EvFd(Head(s)) }
<1>0. Len(s) \in Nat
  OBVIOUS
<1>1. Lined(s) \subseteq EvRecords
  <2>1. \A i \in 1..Len(s) : s[i] \in EvRecords
    OBVIOUS
  <2> QED
    BY <2>1 DEF Lined
<1>2. ASSUME NEW e \in EvRecords, \A x \in Lined(s) : EvFd(x) # EvFd(e)
      PROVE  /\ Append(s, e) \in Seq(EvRecords) /\ EvOnce(Append(s, e))
             /\ Lined(Append(s, e)) = Lined(s) \cup {e}
  <2> DEFINE t == Append(s, e)
  <2>1. /\ t \in Seq(EvRecords) /\ Len(t) = Len(s) + 1 /\ t[Len(s) + 1] = e
        /\ \A i \in 1..Len(s) : t[i] = s[i]
    BY AppendProperties
  <2> HIDE DEF t
  <2>2. \A i : i \in 1..Len(t) <=> i \in 1..Len(s) \/ i = Len(s) + 1
    BY <1>0, <2>1
  <2>3. \A i \in 1..Len(s) : EvFd(s[i]) # EvFd(e)
    BY <1>2 DEF Lined
  <2>4. EvOnce(t)
    BY <2>1, <2>2, <2>3 DEF EvOnce
  <2>5. Lined(t) = Lined(s) \cup {e}
    BY <2>1, <2>2 DEF Lined
  <2> QED
    BY <2>1, <2>4, <2>5 DEF t
<1>3. ASSUME s # <<>>
      PROVE  /\ Head(s) \in Lined(s) /\ Tail(s) \in Seq(EvRecords) /\ EvOnce(Tail(s))
             /\ Lined(Tail(s)) = { x \in Lined(s) : EvFd(x) # EvFd(Head(s)) }
  <2> DEFINE t == Tail(s)
  <2>1. /\ Len(s) >= 1 /\ Head(s) = s[1] /\ t \in Seq(EvRecords) /\ Len(t) = Len(s) - 1
        /\ \A i \in 1..Len(t) : t[i] = s[i + 1]
    BY <1>3, HeadTailProperties
  <2> HIDE DEF t
  <2>2. Head(s) \in Lined(s) /\ 1 \in 1..Len(s)
    BY <1>0, <2>1 DEF Lined
  <2>3. \A i \in 1..Len(t) : i + 1 \in 1..Len(s) /\ i + 1 # 1
    BY <1>0, <2>1
  <2>4. EvOnce(t)
    <3>1. ASSUME NEW i \in 1..Len(t), NEW j \in 1..Len(t), EvFd(t[i]) = EvFd(t[j]) PROVE i = j
      <4>1. i + 1 = j + 1
        BY <2>1, <2>3, <3>1 DEF EvOnce
      <4> QED
        BY <4>1
    <3> QED
      BY <3>1 DEF EvOnce
  <2>5. ASSUME NEW x PROVE x \in Lined(t) <=> x \in Lined(s) /\ EvFd(x) # EvFd(Head(s))
    <3>1. ASSUME x \in Lined(t) PROVE x \in Lined(s) /\ EvFd(x) # EvFd(Head(s))
      <4>1. PICK i \in 1..Len(t) : x = t[i]
        BY <3>1 DEF Lined
      <4>2. x = s[i + 1] /\ i + 1 \in 1..Len(s) /\ i + 1 # 1
        BY <2>1, <2>3, <4>1
      <4> QED
        BY <2>1, <2>2, <4>2 DEF Lined, EvOnce
    <3>2. ASSUME x \in Lined(s), EvFd(x) # EvFd(Head(s)) PROVE x \in Lined(t)
      <4>1. PICK i \in 1..Len(s) : x = s[i]
        BY <3>2 DEF Lined
      <4>2. i - 1 \in 1..Len(t) /\ (i - 1) + 1 = i
        BY <1>0, <2>1, <3>2, <4>1
      <4>3. x = t[i - 1]
        BY <2>1, <4>1, <4>2
      <4> QED
        BY <4>2, <4>3 DEF Lined
    <3> QED
      BY <3>1, <3>2
  <2> QED
    BY <2>1, <2>2, <2>4, <2>5 DEF t
<1> QED
  BY <1>1, <1>2, <1>3

\* The invariant holds at the start.
LEMMA UringInit_Inv == UringInit /\ prog = "uring" => UringInv
<1> SUFFICES ASSUME UringInit, prog = "uring" PROVE UringInv
  OBVIOUS
<1>1. SockInv
  BY SockInit_Inv DEF UringInit
<1>2. /\ peer = [p \in Peers |-> NoBody] /\ sq = <<Accepting>> /\ running = {} /\ cq = <<>> /\ cqes = <<>>
      /\ buffer = [i \in 1..setup.buf |-> Zero]
  BY DEF UringInit, SockInit
<1>3. Accepting \in OpRecords /\ Accepting.fd = 0 /\ Accepting.op = "accept"
  BY DEF Accepting, OpRecords
<1>4. sq \in Seq(OpRecords) /\ Len(sq) = 1 /\ sq[1] = Accepting
  <2>1. \A a \in OpRecords : <<a>> \in Seq(OpRecords) /\ Len(<<a>>) = 1 /\ <<a>>[1] = a
    OBVIOUS
  <2> QED
    BY ONLY <1>2, <1>3, <2>1
<1>5. /\ <<>> \in Seq(EvRecords) /\ Len(<<>>) = 0 /\ (\A i \in 1..0 : FALSE) /\ <<>> \in Seq(Peers \X Nat)
  OBVIOUS
<1>6. Lined(sq) = {Accepting} /\ Lined(cqes) = {} /\ Lined(cq) = {}
  BY ONLY <1>2, <1>4, <1>5 DEF Lined
<1>7. Asked = {Accepting} /\ Done = {}
  BY <1>2, <1>6 DEF Asked, Done
<1>8. UringTyped
  <2>1. buffer \in [1..setup.buf -> (Peers \cup {Listener}) \X Nat]
    BY <1>2 DEF Zero
  <2> QED
    BY <1>1, <1>2, <1>4, <1>5, <2>1 DEF UringTyped
<1>9. OneEach
  <2>1. OpOnce(sq)
    BY ONLY <1>4 DEF OpOnce
  <2>2. EvOnce(cqes) /\ EvOnce(cq)
    BY ONLY <1>2, <1>5 DEF EvOnce
  <2> QED
    BY <1>2, <1>6, <1>7, <2>1, <2>2 DEF OneEach
<1>10. Owned
  BY <1>3, <1>7 DEF Owned
<1>11. ASSUME NEW p \in Peers PROVE Kept(p)
  <2>1. PICK r : r = NoBody
    OBVIOUS
  <2>2. r.got = <<>> /\ r.sent = 0 /\ r.box = <<>> /\ r.st = "off" /\ r.end = "no" /\ peer[p] = r
    BY <1>2, <2>1 DEF NoBody
  <2>3. Len(r.got) = 0 /\ Len(r.box) = 0 /\ Rcvd(r) = 0
    <3>1. Len(r.got) = 0 /\ Len(r.box) = 0 /\ 0 - 0 = 0
      BY <1>5, <2>2
    <3> QED
      BY <2>2, <3>1 DEF Rcvd
  <2>4. SubSeq(buffer, 1, 0) = <<>>
    BY <1>8 DEF UringTyped
  <2>5. Heard(p, r, <<>>)
    BY ONLY <1>5, <2>2, <2>3, 0 + 0 = 0, 0 - 0 = 0 DEF Heard
  <2>7. Len(peer[p].got) + 0 <= Rcvd(peer[p]) /\ Len(peer[p].got) <= Rcvd(peer[p])
        /\ Heard(p, peer[p], SubSeq(buffer, 1, 0)) /\ \A i \in 1..Len(peer[p].got) : FALSE
    <3>1. Len(peer[p].got) = 0 /\ Rcvd(peer[p]) = 0 /\ 0 + 0 <= 0 /\ 0 <= 0 /\ \A i \in 1..0 : FALSE
      BY <2>2, <2>3
    <3>2. Heard(p, peer[p], SubSeq(buffer, 1, 0))
      BY <2>2, <2>4, <2>5
    <3> QED
      BY ONLY <3>1, <3>2
  <2>6. Due(p, 0) /\ Modest(p)
    BY <2>7 DEF Due, Modest
  <2> QED
    BY <1>3, <1>7, <2>2, <2>6 DEF Kept
<1> QED
  BY <1>8, <1>9, <1>10, <1>11 DEF UringInv

\* What is due to a client stays so while neither its record nor its part of the buffer
\* changes.
LEMMA DueStays ==
  ASSUME NEW q, peer'[q] = peer[q], Alone(q)' => Alone(q) /\ buffer' = buffer
  PROVE  \A n : Due(q, n) => Due(q, n)'
BY DEF Due, Rcvd

\* Descriptors that are in use are descriptors of one client.
LEMMA UsedAre ==
  ASSUME SockInv, NEW fd \in UsedFds
  PROVE  /\ fd \in Fds /\ fd # 0
         /\ \E q \in Peers : peer[q].st = "open" /\ peer[q].fd = fd
<1>1. PICK q \in Open : fd = peer[q].fd
  BY DEF UsedFds
<1>2. q \in Peers /\ peer[q].st = "open" /\ Fine(q, peer[q])
  BY <1>1 DEF Open, SockInv
<1>3. peer[q].fd \in {0} \cup Fds /\ peer[q].fd # 0
  BY <1>2 DEF Fine, Records
<1> QED
  BY <1>1, <1>2, <1>3

\* A step that is about the one client with descriptor fd.
LEMMA UringTurn ==
  ASSUME UringInv, UringTyped', OneEach', setup' = setup, NEW p \in Peers, NEW fd \in Fds,
         \A q \in Peers : q # p => peer'[q] = peer[q] /\ (Alone(q)' => Alone(q) /\ buffer' = buffer),
         peer[p].fd = fd \/ (peer[p].st # "open" /\ fd \notin UsedFds),
         (peer'[p].st = "open" /\ peer'[p].fd = fd) \/ peer'[p].st = "shut",
         \A o \in Asked' : /\ o.fd \in {0, fd} \/ o \in Asked
                           /\ o.fd = 0 <=> o.op = "accept"
                           /\ o.fd = fd => peer'[p].st = "open" /\ OpDue(p, o)',
         \A e \in Done' : /\ EvFd(e) = fd \/ e \in Done
                          /\ EvFd(e) = fd => peer'[p].st = "open" /\ EvDue(p, e)',
         \A o \in Asked : o.fd \notin {0, fd} => o \in Asked',
         \A e \in Done : EvFd(e) # fd => e \in Done',
         Modest(p)',
         peer'[p].st = "open" => \/ peer'[p].end = "told"
                                 \/ \E o \in Asked' : o.fd = fd
                                 \/ \E e \in Done' : EvFd(e) = fd
  PROVE  UringInv'
<1>1. SockInv /\ SockInv' /\ fd # 0
  BY DEF UringInv, UringTyped, Fds
<1>2. ASSUME NEW q \in Peers, q # p, peer[q].st = "open"
      PROVE  peer[q].fd # fd /\ peer[q].fd \in UsedFds'
  <2>1. peer[q].fd \in UsedFds /\ peer[q].fd # 0
    BY <1>1, <1>2 DEF SockInv, Fine, UsedFds, Open
  <2>2. peer[q].fd # fd
    BY <1>1, <1>2, <2>1 DEF SockInv
  <2>3. peer'[q] = peer[q]
    BY <1>2
  <2> QED
    BY <1>2, <2>2, <2>3 DEF UsedFds, Open
<1>3. ASSUME NEW g \in UsedFds, g # fd PROVE g \in UsedFds'
  <2>1. PICK q \in Peers : peer[q].st = "open" /\ peer[q].fd = g
    BY <1>1, <1>3, UsedAre
  <2>2. q # p
    BY <1>3, <2>1
  <2> QED
    BY <1>2, <2>1, <2>2
<1>4. peer'[p].st = "open" => fd \in UsedFds'
  BY DEF UsedFds, Open
<1>5. Owned'
  <2>1. ASSUME NEW o \in Asked', o.fd # 0 PROVE o.fd \in UsedFds'
    <3>1. CASE o.fd = fd
      BY <1>4, <3>1
    <3>2. CASE o.fd # fd
      <4>1. o \in Asked
        BY <2>1, <3>2
      <4> QED
        BY <1>3, <2>1, <3>2, <4>1 DEF UringInv, Owned
    <3> QED
      BY <3>1, <3>2
  <2>2. ASSUME NEW e \in Done' PROVE EvFd(e) \in UsedFds'
    <3>1. CASE EvFd(e) = fd
      BY <1>4, <3>1
    <3>2. CASE EvFd(e) # fd
      <4>1. e \in Done
        BY <3>2
      <4> QED
        BY <1>3, <3>2, <4>1 DEF UringInv, Owned
    <3> QED
      BY <3>1, <3>2
  <2> QED
    BY <2>1, <2>2 DEF Owned, EvFd
<1>6. \A e \in Done' : EvFd(e) # 0
  <2>1. \A g \in UsedFds' : g # 0
    <3>1. \A q \in Peers : peer'[q].st = "open" => peer'[q].fd # 0
      BY <1>1 DEF SockInv, Fine
    <3> QED
      BY <3>1 DEF UsedFds, Open
  <2> QED
    BY <1>5, <2>1 DEF Owned, EvFd
<1>7. Kept(p)'
  <2>1. peer'[p].fd = IF peer'[p].st = "open" THEN fd ELSE 0
    BY <1>1 DEF SockInv, Fine
  <2>2. \A o \in Asked' : o.fd # 0 /\ o.fd = peer'[p].fd => OpDue(p, o)'
    BY <2>1
  <2>3. \A e \in Done' : EvFd(e) = peer'[p].fd => EvDue(p, e)'
    BY <1>6, <2>1
  <2> QED
    BY <2>1, <2>2, <2>3 DEF Kept, EvFd
<1>8. ASSUME NEW q \in Peers, q # p PROVE Kept(q)'
  <2>1. Kept(q) /\ peer'[q] = peer[q] /\ \A n : Due(q, n) => Due(q, n)'
    BY <1>8, DueStays DEF UringInv
  <2>2. peer[q].st = "open" => peer[q].fd # fd /\ peer[q].fd # 0
    BY <1>1, <1>2, <1>8 DEF SockInv, Fine
  <2>3. peer[q].st # "open" => peer[q].fd = 0
    BY <1>1 DEF SockInv, Fine
  <2>4. ASSUME NEW o \in Asked', o.fd # 0, o.fd = peer'[q].fd PROVE OpDue(q, o)'
    <3>1. o \in Asked /\ OpDue(q, o)
      BY <2>1, <2>2, <2>3, <2>4 DEF Kept
    <3> QED
      BY <2>1, <3>1 DEF OpDue
  <2>5. ASSUME NEW e \in Done', EvFd(e) = peer'[q].fd PROVE EvDue(q, e)'
    <3>1. e \in Done /\ EvDue(q, e)
      BY <1>6, <2>1, <2>2, <2>3, <2>5 DEF Kept
    <3> QED
      BY <2>1, <3>1 DEF EvDue
  <2>6. Modest(q)'
    <3>1. Modest(q)
      BY <2>1 DEF Kept
    <3> QED
      BY <1>8, <2>1, <3>1 DEF Modest, Rcvd
  <2>7. peer'[q].st = "open" => \/ peer'[q].end = "told"
                                \/ \E o \in Asked' : o.fd = peer'[q].fd
                                \/ \E e \in Done' : EvFd(e) = peer'[q].fd
    BY <2>1, <2>2 DEF Kept
  <2> QED
    BY <2>4, <2>5, <2>6, <2>7 DEF Kept, EvFd
<1> QED
  BY <1>5, <1>7, <1>8 DEF UringInv

\* An operation that completes goes from the kernel to the completions.
LEMMA RunMoves ==
  ASSUME UringInv, NEW o \in running, NEW e \in EvRecords, NEW fd \in Fds, EvFd(e) = fd,
         running' = running \ {o}, cq' = Append(cq, e), sq' = sq, cqes' = cqes,
         o.fd = fd \/ fd \notin UsedFds
  PROVE  /\ OneEach' /\ cq' \in Seq(EvRecords) /\ Done' = Done \cup {e} /\ Asked' \subseteq Asked
         /\ \A a \in Asked : a.fd \notin {o.fd, fd} => a \in Asked'
         /\ (\A a \in Asked' : a.fd # fd) /\ \A b \in Done : EvFd(b) # fd
<1>1. /\ OneEach /\ Owned /\ cq \in Seq(EvRecords) /\ fd # 0
  BY DEF UringInv, UringTyped, Fds
<1>2. o \in Asked /\ \A a \in Asked' : a \in Asked
  BY DEF Asked, Lined
<1>3. ASSUME NEW a \in Asked' PROVE a.fd # fd
  <2>1. CASE o.fd = fd
    <3>1. \A b \in running : b.fd = o.fd => b = o
      BY <1>1, <2>1 DEF OneEach
    <3>2. \A b \in Lined(sq) : b.fd # o.fd
      BY <1>1, <2>1 DEF OneEach
    <3> QED
      BY <2>1, <3>1, <3>2 DEF Asked, Lined
  <2>2. CASE fd \notin UsedFds
    BY <1>1, <1>2, <2>2 DEF Owned
  <2> QED
    BY <2>1, <2>2
<1>4. \A b \in Done : EvFd(b) # fd
  BY <1>1, <1>2 DEF OneEach, Owned
<1>5. Append(cq, e) \in Seq(EvRecords) /\ EvOnce(Append(cq, e)) /\ Lined(Append(cq, e)) = Lined(cq) \cup {e}
  <2>1. \A x \in Lined(cq) : EvFd(x) # EvFd(e)
    BY <1>4 DEF Done
  <2>2. EvOnce(cq)
    BY <1>1 DEF OneEach
  <2> QED
    BY <1>1, <2>1, <2>2, EvLine
<1>6. EvOnce(cq)' /\ Lined(cq)' = Lined(cq) \cup {e} /\ cq' \in Seq(EvRecords)
  BY <1>5 DEF EvOnce, Lined, EvFd
<1>7. Lined(sq)' = Lined(sq) /\ Lined(cqes)' = Lined(cqes) /\ OpOnce(sq)' /\ EvOnce(cqes)'
  <2>1. OpOnce(sq) /\ EvOnce(cqes) /\ sq' = sq /\ cqes' = cqes
    BY <1>1 DEF OneEach
  <2> QED
    BY ONLY <2>1 DEF Lined, OpOnce, EvOnce, EvFd
<1>8. Done' = Done \cup {e}
  BY <1>6, <1>7 DEF Done
<1>9. OneEach'
  <2>1. \A a \in Asked', b \in Done' : a.fd # EvFd(b)
    BY <1>1, <1>2, <1>3, <1>8 DEF OneEach
  <2>2. \A a \in Lined(cqes), b \in Lined(cq) \cup {e} : EvFd(a) # EvFd(b)
    BY <1>1, <1>4 DEF OneEach, Done
  <2>3. /\ \A a, b \in running' : a.fd = b.fd /\ a.fd # 0 => a = b
        /\ \A a \in running', b \in Lined(sq) : a.fd # 0 => a.fd # b.fd
    BY <1>1 DEF OneEach
  <2> QED
    BY <1>6, <1>7, <2>1, <2>2, <2>3 DEF OneEach, EvFd
<1>10. \A a \in Asked : a.fd \notin {o.fd, fd} => a \in Asked'
  BY <1>7 DEF Asked
<1> QED
  BY <1>2, <1>3, <1>4, <1>6, <1>8, <1>9, <1>10

\* The first places of the buffer.
LEMMA PlacesAre ==
  ASSUME UringTyped, NEW n \in Nat, n <= setup.buf
  PROVE  LET s == SubSeq(buffer, 1, n) IN
         /\ s \in Seq((Peers \cup {Listener}) \X Nat) /\ Len(s) = n /\ \A i \in 1..n : s[i] = buffer[i]
<1>1. setup.buf \in Nat
  BY TeachAssumption DEF UringTyped, SockInv
<1>2. PICK m \in Nat : m = setup.buf
  BY <1>1
<1>3. buffer \in Seq((Peers \cup {Listener}) \X Nat) /\ Len(buffer) = m
  BY <1>2 DEF UringTyped
<1>4. n \in 0..Len(buffer)
  BY <1>2, <1>3
<1> QED
  BY SMTT(30), <1>3, <1>4, RestOfSeq

\* A completion is handled, and its descriptor may be in the prepared operations.
LEMMA EventMoves ==
  ASSUME UringInv, cqes # <<>>, cqes' = Tail(cqes), cq' = cq, running' = running,
         NEW fd, fd = EvFd(Head(cqes)), sq' \in Seq(OpRecords), OpOnce(sq)',
         \A x \in Lined(sq)' : x \in Lined(sq) \/ x.fd \in {0, fd},
         \A x \in Lined(sq) : x \in Lined(sq)'
  PROVE  /\ OneEach' /\ cqes' \in Seq(EvRecords) /\ (\A b \in Done' : b \in Done /\ EvFd(b) # fd)
         /\ (\A b \in Done : EvFd(b) # fd => b \in Done') /\ (\A a \in Asked : a \in Asked')
         /\ \A a \in Asked' : a \in Asked \/ a.fd \in {0, fd}
<1>1. OneEach /\ Owned /\ cqes \in Seq(EvRecords) /\ EvOnce(cqes)
  BY DEF UringInv, UringTyped, OneEach
<1>2. /\ Head(cqes) \in Lined(cqes) /\ Tail(cqes) \in Seq(EvRecords) /\ EvOnce(Tail(cqes))
      /\ Lined(Tail(cqes)) = { x \in Lined(cqes) : EvFd(x) # fd }
  BY <1>1, EvLine
<1>3. cqes' \in Seq(EvRecords) /\ EvOnce(cqes)' /\ Lined(cqes)' = { x \in Lined(cqes) : EvFd(x) # fd }
  BY <1>2 DEF EvOnce, Lined, EvFd
<1>4. Lined(cq)' = Lined(cq) /\ EvOnce(cq)'
  <2>1. EvOnce(cq) /\ cq' = cq
    BY <1>1 DEF OneEach
  <2> QED
    BY ONLY <2>1 DEF Lined, EvOnce, EvFd
<1>5. Head(cqes) \in Done /\ fd # 0
  <2>1. Head(cqes) \in Done
    BY <1>2 DEF Done
  <2>2. \A g \in UsedFds : g # 0
    BY UsedAre DEF UringInv, UringTyped
  <2> QED
    BY <1>1, <2>1, <2>2 DEF Owned
<1>6. (\A a \in Asked : a.fd # fd) /\ (\A b \in Lined(cq) : EvFd(b) # fd)
  BY <1>1, <1>2, <1>5 DEF OneEach
<1>7. Done' = Lined(cqes)' \cup Lined(cq) /\ Asked' = running \cup Lined(sq)'
  BY <1>4 DEF Done, Asked
<1>8. /\ \A b \in Done' : b \in Done /\ EvFd(b) # fd
      /\ \A b \in Done : EvFd(b) # fd => b \in Done'
  BY <1>3, <1>6, <1>7 DEF Done
<1>9. (\A a \in Asked : a \in Asked') /\ \A a \in Asked' : a \in Asked \/ a.fd \in {0, fd}
  BY <1>7 DEF Asked
<1>10. OneEach'
  <2>1. ASSUME NEW a \in Asked', NEW b \in Done' PROVE a.fd # EvFd(b)
    <3>1. b \in Done /\ EvFd(b) # fd
      BY <1>8
    <3>2. EvFd(b) # 0
      BY <1>1, <3>1, UsedAre DEF Owned, UringInv, UringTyped
    <3> QED
      BY <1>1, <1>9, <3>1, <3>2 DEF OneEach
  <2>2. /\ \A a \in Lined(cqes)', b \in Lined(cq) : EvFd(a) # EvFd(b)
        /\ \A a, b \in running : a.fd = b.fd /\ a.fd # 0 => a = b
    BY <1>1, <1>3 DEF OneEach
  <2>3. ASSUME NEW a \in running, NEW b \in Lined(sq)', a.fd # 0 PROVE a.fd # b.fd
    <3>1. a.fd # fd
      BY <1>6 DEF Asked
    <3> QED
      BY <1>1, <2>3, <3>1 DEF OneEach
  <2> QED
    BY <1>3, <1>4, <2>1, <2>2, <2>3 DEF OneEach, EvFd
<1> QED
  BY <1>3, <1>8, <1>9, <1>10

\* A client connects, sends or ends its connection.
LEMMA UringClient_Inv ==
  ASSUME UringInv, NEW p \in Peers, UringClient(p)
  PROVE  UringInv'
<1>1. /\ SockInv /\ peer \in [Peers -> Records] /\ UringTyped /\ OneEach /\ Owned
      /\ (\A q \in Peers : Kept(q)) /\ setup.buf \in Nat
  BY TeachAssumption DEF UringInv, UringTyped, SockInv
<1>2. /\ sq' = sq /\ running' = running /\ cq' = cq /\ cqes' = cqes /\ buffer' = buffer
      /\ Connect(p) \/ SendOrQuit(p)
  BY DEF UringClient
<1>3. PICK r : /\ Fine(p, r) /\ peer' = [peer EXCEPT ![p] = r] /\ setup' = setup /\ down' = down /\ SockInv'
               /\ r.fd = peer[p].fd /\ r.got = peer[p].got
               /\ \/ /\ peer[p].st = "off" /\ r.st = "queued" /\ r.sent = peer[p].sent
                     /\ r.box = peer[p].box /\ r.end = peer[p].end
                  \/ /\ r.st = peer[p].st /\ peer[p].end = "no" /\ r.end = "no"
                     /\ r.sent = peer[p].sent + 1 /\ Len(r.box) = Len(peer[p].box) + 1
                  \/ /\ r.st = peer[p].st /\ peer[p].end = "no" /\ r.end \in {"fin", "rst"}
                     /\ r.sent = peer[p].sent /\ r.box = peer[p].box
  BY <1>1, <1>2, ClientDoes
<1>4. \A q \in Peers : peer'[q] = IF q = p THEN r ELSE peer[q]
  BY <1>1, <1>3
<1>5. Asked' = Asked /\ Done' = Done
  BY <1>2 DEF Asked, Done, Lined
<1>6. OneEach'
  <2>1. /\ OpOnce(sq)' <=> OpOnce(sq)
        /\ EvOnce(cqes)' <=> EvOnce(cqes)
        /\ EvOnce(cq)' <=> EvOnce(cq)
        /\ Lined(sq)' = Lined(sq) /\ Lined(cqes)' = Lined(cqes) /\ Lined(cq)' = Lined(cq)
    BY ONLY <1>2 DEF OpOnce, EvOnce, EvFd, Lined
  <2> QED
    BY ONLY <1>1, <1>2, <1>5, <2>1 DEF OneEach, EvFd
<1>7. UringTyped'
  BY <1>1, <1>2, <1>3 DEF UringTyped, OpRecords, EvRecords, prog, Fds
<1>8. UsedFds' = UsedFds
  <2>1. \A q \in Peers : peer'[q].st = "open" <=> peer[q].st = "open"
    BY <1>3, <1>4
  <2>2. \A q \in Peers : peer'[q].fd = peer[q].fd
    BY <1>3, <1>4
  <2> QED
    BY <2>1, <2>2 DEF UsedFds, Open
<1>9. Owned'
  BY <1>1, <1>5, <1>8 DEF Owned, EvFd
<1>10. \A q \in Peers : /\ Rcvd(peer'[q]) = Rcvd(peer[q]) /\ peer'[q].got = peer[q].got
                        /\ peer[q].end # "no" => peer'[q].end = peer[q].end
                        /\ peer'[q].fd = peer[q].fd /\ (peer'[q].st = "open" <=> peer[q].st = "open")
                        /\ peer'[q].st \in {"off", "queued"} => peer[q].st \in {"off", "queued"}
                        /\ peer'[q].sent = 0 => peer[q].sent = 0
                        /\ peer'[q].end = "no" => peer[q].end = "no"
  <2>1. peer[p].sent \in Nat /\ Len(peer[p].box) \in Nat
    BY <1>1 DEF Records
  <2>2. PICK a \in Nat, b \in Nat : a = peer[p].sent /\ b = Len(peer[p].box)
    BY ONLY <2>1
  <2>3. \/ r.sent = a /\ Len(r.box) = b
        \/ r.sent = a + 1 /\ Len(r.box) = b + 1
    BY <1>3, <2>2
  <2>4. (a + 1) - (b + 1) = a - b /\ a + 1 # 0
    OBVIOUS
  <2>5. Rcvd(r) = Rcvd(peer[p]) /\ (r.sent = 0 => peer[p].sent = 0)
    BY <2>2, <2>3, <2>4 DEF Rcvd
  <2> QED
    BY <1>3, <1>4, <2>5
<1>11. \A q \in Peers : Alone(q)' => Alone(q)
  BY <1>10 DEF Alone
<1>12. ASSUME NEW q \in Peers, NEW n \in Nat, n <= setup.buf, Due(q, n) PROVE Due(q, n)'
  <2>1. ASSUME Alone(q)' PROVE Heard(q, peer'[q], SubSeq(buffer, 1, n))
    <3>1. Heard(q, peer[q], SubSeq(buffer, 1, n))
      BY <1>11, <1>12, <2>1 DEF Due
    <3>2. Len(SubSeq(buffer, 1, n)) \in Nat
      BY <1>1, <1>12, PlacesAre
    <3> QED
      BY <1>1, <1>2, <3>1, <3>2, ClientHeard
  <2>2. Len(peer'[q].got) + n <= Rcvd(peer'[q])
    BY <1>10, <1>12 DEF Due
  <2> QED
    BY <1>2, <2>1, <2>2 DEF Due, Rcvd
<1>13. ASSUME NEW q \in Peers PROVE Kept(q)'
  <2>1. Kept(q)
    BY <1>1
  <2>2. ASSUME NEW o \in Asked, o.fd # 0, o.fd = peer[q].fd PROVE OpDue(q, o)'
    <3>1. OpDue(q, o)
      BY <2>1, <2>2 DEF Kept
    <3> QED
      BY <1>1, <1>3, <1>12, <3>1 DEF OpDue
  <2>3. ASSUME NEW e \in Done, EvFd(e) = peer[q].fd PROVE EvDue(q, e)'
    <3>1. EvDue(q, e) /\ e \in EvRecords
      BY <1>1, <2>1, <2>3, EvLine DEF Kept, Done, UringTyped, OneEach
    <3>2. e.res \in Nat \cup {-1}
      BY <3>1 DEF EvRecords
    <3> QED
      BY <1>1, <1>3, <1>10, <1>12, <3>1, <3>2 DEF EvDue
  <2>4. Modest(q)'
    <3>1. Modest(q)
      BY <2>1 DEF Kept
    <3>2. peer'[q].st \in {"off", "queued"} => Due(q, 0)'
      BY <1>1, <1>10, <1>12, <3>1 DEF Modest
    <3> QED
      BY <1>10, <1>11, <3>1, <3>2 DEF Modest, Rcvd
  <2> QED
    BY <1>5, <1>10, <2>1, <2>2, <2>3, <2>4 DEF Kept, EvFd
<1> QED
  BY <1>6, <1>7, <1>9, <1>13 DEF UringInv

\* What the operation of a connection tells of it.
LEMMA OfOp ==
  ASSUME UringInv, NEW o \in running, o.op # "accept", NEW p, p = Owner(o.fd)
  PROVE  /\ p \in Peers /\ peer[p].st = "open" /\ peer[p].fd = o.fd /\ OpDue(p, o)
         /\ o.fd \in Fds /\ o \in OpRecords /\ Fine(p, peer[p])
<1>1. o \in Asked /\ Owned /\ SockInv /\ o \in OpRecords
  BY DEF UringInv, UringTyped, Asked
<1>2. o.fd # 0 /\ o.fd \in UsedFds
  BY <1>1 DEF Owned
<1>3. p \in Peers /\ peer[p].st = "open" /\ peer[p].fd = o.fd
  BY <1>1, <1>2, OwnerIs DEF Open
<1>4. OpDue(p, o)
  BY <1>1, <1>2, <1>3 DEF UringInv, Kept
<1> QED
  BY <1>1, <1>2, <1>3, <1>4, UsedAre DEF SockInv

\* No client but p is alone that p has met.
LEMMA NotAlone ==
  ASSUME NEW p \in Peers, peer'[p].sent # 0 \/ peer'[p].end # "no", NEW q \in Peers, q # p
  PROVE  ~Alone(q)'
BY DEF Alone

\* For one client the others count, and they are as they were.
LEMMA SameOthers ==
  ASSUME NEW p \in Peers, \A q \in Peers : q # p => peer'[q] = peer[q]
  PROVE  Alone(p)' <=> Alone(p)
BY DEF Alone

\* The kernel accepts a connection.
LEMMA RunAccept_Inv ==
  ASSUME UringInv, NEW o \in running, RunAccept(o)
  PROVE  UringInv'
<1>1. /\ SockInv /\ UringTyped /\ Owned /\ queue # <<>> /\ queue \in Seq(Peers) /\ peer \in [Peers -> Records]
      /\ o \in Asked /\ o.op = "accept" /\ buffer' = buffer
      /\ setup' = setup /\ down' = down /\ sq' = sq /\ cqes' = cqes /\ running' = running \ {o}
  BY DEF UringInv, UringTyped, SockInv, RunAccept, Completes, Asked
<1>2. PICK p \in Peers : p = Head(queue)
  BY <1>1
<1>3. peer[p].st = "queued"
  <2>1. Len(queue) >= 1 /\ p = queue[1]
    BY <1>1, <1>2
  <2> QED
    BY <1>1, <2>1 DEF SockInv
<1>4. PICK fd : fd = LowestFree /\ fd \in Fds /\ fd \notin UsedFds /\ fd # 0
  BY <1>1, <1>3, FreeIs
<1>5. PICK r : r = Accepted(p)
  OBVIOUS
<1>6. /\ Fine(p, r) /\ r.st = "open" /\ r.fd = fd /\ r.sent = peer[p].sent
      /\ r.box = peer[p].box /\ r.end = peer[p].end /\ r.got = peer[p].got
  BY <1>1, <1>3, <1>4, <1>5, AcceptedIs
<1>7. PICK e : e = [op |-> "accept", fd |-> 0, res |-> fd]
  OBVIOUS
<1>8. o.fd = 0
  BY <1>1 DEF Owned
<1>9. /\ peer' = [peer EXCEPT ![p] = r] /\ queue' = Tail(queue) /\ cq' = Append(cq, e)
  BY <1>1, <1>2, <1>4, <1>5, <1>7, <1>8 DEF RunAccept, Completes
<1>10. e \in EvRecords /\ EvFd(e) = fd /\ e.op = "accept"
  <2>1. fd \in Nat
    BY <1>4 DEF Fds
  <2> QED
    BY <1>7, <2>1 DEF EvRecords, EvFd
<1>11. SockInv'
  <2>1. TurnsOf(p, r)
    BY <1>1, <1>2, <1>4, <1>6, <1>9 DEF TurnsOf
  <2> QED
    BY <1>1, <1>6, <1>9, <2>1, OneTurn DEF SockInv
<1>12. /\ OneEach' /\ cq' \in Seq(EvRecords) /\ Done' = Done \cup {e} /\ Asked' \subseteq Asked
       /\ \A a \in Asked : a.fd \notin {0, fd} => a \in Asked'
       /\ (\A a \in Asked' : a.fd # fd) /\ \A b \in Done : EvFd(b) # fd
  BY <1>1, <1>4, <1>8, <1>9, <1>10, RunMoves
<1>13. UringTyped'
  BY <1>1, <1>11, <1>12 DEF UringTyped, OpRecords, EvRecords, prog, Fds
<1>14. \A q \in Peers : peer'[q] = IF q = p THEN r ELSE peer[q]
  BY <1>1, <1>9
<1>15. Alone(p)' <=> Alone(p)
  BY <1>14, SameOthers
<1>16. Due(p, 0)'
  <2>1. Due(p, 0)
    BY <1>3 DEF UringInv, Kept, Modest
  <2>2. Rcvd(r) = Rcvd(peer[p]) /\ \A s : Heard(p, r, s) <=> Heard(p, peer[p], s)
    BY <1>6 DEF Rcvd, Heard
  <2> QED
    BY <1>1, <1>6, <1>14, <1>15, <2>1, <2>2 DEF Due, Rcvd
<1>17. Modest(p)'
  BY <1>3, <1>6, <1>14, <1>15 DEF UringInv, Kept, Modest, Rcvd
<1>18. \A q \in Peers : q # p => peer'[q] = peer[q] /\ (Alone(q)' => Alone(q) /\ buffer' = buffer)
  <2>1. \A q \in Peers : /\ peer'[q].sent = peer[q].sent /\ peer'[q].end = peer[q].end
    BY <1>6, <1>14
  <2> QED
    BY <1>1, <1>14, <2>1 DEF Alone
<1>19. EvDue(p, e)'
  BY <1>10, <1>16 DEF EvDue
<1>20. peer'[p].st = "open" /\ peer'[p].fd = fd
  BY <1>6, <1>14
<1>21. \A a \in Asked' : a.fd = 0 <=> a.op = "accept"
  BY <1>1, <1>12 DEF Owned
<1>22. /\ \A a \in Asked' : a \in Asked /\ a.fd # fd
       /\ \A b \in Done' : (EvFd(b) = fd \/ b \in Done) /\ (EvFd(b) = fd => b = e)
       /\ \A b \in Done : b \in Done'
       /\ e \in Done'
  BY <1>10, <1>12
<1> QED
  BY <1>1, <1>3, <1>4, <1>10, <1>12, <1>13, <1>17, <1>18, <1>19, <1>20, <1>21, <1>22, UringTurn

\* The kernel completes an operation of a connection: lists and their descriptors.
LEMMA RunEnds ==
  ASSUME UringInv, NEW o \in running, o.op # "accept", NEW p, p = Owner(o.fd), NEW e \in EvRecords,
         e.op = o.op, e.fd = o.fd, running' = running \ {o}, cq' = Append(cq, e), sq' = sq, cqes' = cqes,
         NEW r, Fine(p, r), r.st = peer[p].st, r.fd = peer[p].fd, peer' = [peer EXCEPT ![p] = r],
         queue' = queue, setup' = setup, down' = down,
         buffer' \in [1..setup.buf -> (Peers \cup {Listener}) \X Nat],
         \A q \in Peers : q # p => (Alone(q)' => Alone(q) /\ buffer' = buffer),
         EvDue(p, e)', Modest(p)'
  PROVE  UringInv'
<1>1. /\ p \in Peers /\ peer[p].st = "open" /\ peer[p].fd = o.fd /\ o.fd \in Fds
  BY OfOp
<1>2. PICK fd : fd = o.fd /\ fd \in Fds
  BY <1>1
<1>3. SockInv /\ UringTyped /\ Owned /\ peer \in [Peers -> Records]
  BY DEF UringInv, UringTyped, SockInv
<1>4. EvFd(e) = fd
  BY <1>2 DEF EvFd
<1>5. /\ OneEach' /\ cq' \in Seq(EvRecords) /\ Done' = Done \cup {e} /\ Asked' \subseteq Asked
      /\ \A a \in Asked : a.fd \notin {o.fd, fd} => a \in Asked'
      /\ (\A a \in Asked' : a.fd # fd) /\ \A b \in Done : EvFd(b) # fd
  BY <1>2, <1>4, RunMoves
<1>6. SockInv'
  <2>1. TurnsOf(p, r)
    BY DEF TurnsOf
  <2>2. down' \in Downs
    BY <1>3 DEF SockInv
  <2> QED
    BY <1>1, <1>3, <2>1, <2>2, OneTurn
<1>7. UringTyped'
  <2>1. running' \subseteq OpRecords
    BY <1>3 DEF UringTyped
  <2> QED
    BY <1>3, <1>5, <1>6, <2>1 DEF UringTyped, OpRecords, EvRecords, prog, Fds
<1>8. \A q \in Peers : peer'[q] = IF q = p THEN r ELSE peer[q]
  BY <1>1, <1>3
<1>9. \A q \in Peers : q # p => peer'[q] = peer[q] /\ (Alone(q)' => Alone(q) /\ buffer' = buffer)
  BY <1>8
<1>10. peer'[p].st = "open" /\ peer'[p].fd = fd
  BY <1>1, <1>2, <1>8
<1>11. \A a \in Asked' : a \in Asked /\ a.fd # fd /\ (a.fd = 0 <=> a.op = "accept")
  BY <1>3, <1>5 DEF Owned
<1>12. /\ \A b \in Done' : (EvFd(b) = fd \/ b \in Done) /\ (EvFd(b) = fd => b = e)
       /\ \A b \in Done : b \in Done'
       /\ e \in Done'
       /\ \A a \in Asked : a.fd \notin {0, fd} => a \in Asked'
  BY <1>2, <1>4, <1>5
<1> QED
  BY <1>1, <1>2, <1>4, <1>5, <1>7, <1>9, <1>10, <1>11, <1>12, UringTurn

\* The kernel receives into the shared buffer.
LEMMA RunRecv_Inv ==
  ASSUME UringInv, NEW o \in running, RunRecv(o)
  PROVE  UringInv'
<1>1. /\ SockInv /\ UringTyped /\ peer \in [Peers -> Records] /\ setup.buf \in Nat \ {0}
      /\ buffer \in [1..setup.buf -> (Peers \cup {Listener}) \X Nat]
  BY TeachAssumption DEF UringInv, UringTyped, SockInv
<1>2. PICK p : p = Owner(o.fd)
  OBVIOUS
<1>3. /\ o.op = "recv" /\ Readable(p) /\ queue' = queue /\ setup' = setup /\ down' = down /\ sq' = sq
      /\ cqes' = cqes /\ running' = running \ {o}
  BY <1>2 DEF RunRecv, Completes
<1>4. p \in Peers /\ peer[p].st = "open" /\ peer[p].fd = o.fd /\ OpDue(p, o) /\ o.fd \in Fds /\ Fine(p, peer[p])
  BY <1>2, <1>3, OfOp
<1>5. PICK n \in Nat \ {0} : n = setup.buf /\ o.n = n /\ Due(p, 0)
  BY <1>1, <1>3, <1>4 DEF OpDue
<1>6. PICK t : t = Taken(p, n)
  OBVIOUS
<1>7. PICK r : r = Received(p, n)
  OBVIOUS
<1>8. PICK k : k = Result(p, n)
  OBVIOUS
<1>9. /\ t \in Seq(Peers \X Nat) /\ Len(t) <= n /\ Len(t) \in Nat /\ k \in Nat \cup {-1}
      /\ k > 0 => Len(t) = k
      /\ ~(k > 0) => t = <<>>
      /\ k = 0 => peer[p].box = <<>>
      /\ k = -1 => peer[p].end = "rst"
  BY <1>1, <1>4, <1>5, <1>6, <1>8, TakenIs
<1>10. /\ Fine(p, r) /\ r.st = peer[p].st /\ r.fd = peer[p].fd /\ r.sent = peer[p].sent /\ r.got = peer[p].got
       /\ r.end = IF k = -1 THEN "told" ELSE peer[p].end
  BY <1>1, <1>4, <1>5, <1>7, <1>8, ReceivedIs
<1>11. Rcvd(peer[p]) \in Nat /\ Rcvd(r) = Rcvd(peer[p]) + Len(t)
  BY <1>1, <1>4, <1>5, <1>6, <1>7, RcvdOn
<1>12. PICK e : e = [op |-> "recv", fd |-> o.fd, res |-> k]
  OBVIOUS
<1>13. e \in EvRecords /\ e.op = "recv" /\ e.fd = o.fd /\ e.res = k
  BY <1>4, <1>9, <1>12 DEF EvRecords
<1>14. /\ cq' = Append(cq, e) /\ peer' = [peer EXCEPT ![p] = r]
       /\ buffer' = t \o SubSeq(buffer, Len(t) + 1, Len(buffer))
  BY <1>2, <1>3, <1>5, <1>6, <1>7, <1>8, <1>12 DEF RunRecv, Completes
<1>15. /\ buffer' \in [1..setup.buf -> (Peers \cup {Listener}) \X Nat]
       /\ \A i \in 1..Len(t) : buffer'[i] = t[i]
  <2> DEFINE S == (Peers \cup {Listener}) \X Nat
             rest == SubSeq(buffer, Len(t) + 1, Len(buffer))
  <2>1. buffer \in Seq(S) /\ Len(buffer) = n
    BY <1>1, <1>5
  <2>2. Len(t) \in 0..Len(buffer)
    BY <1>9, <2>1
  <2>3. t \in Seq(S)
    <3>1. \A i \in 1..Len(t) : t[i] \in S
      BY <1>9
    <3> QED
      BY <1>9, <3>1
  <2>4. rest \in Seq(S) /\ Len(rest) = n - Len(t)
    <3> HIDE DEF S
    <3> QED
      BY <2>1, <2>2, RestOfSeq
  <2> HIDE DEF S, rest
  <2>5. /\ t \o rest \in Seq(S) /\ Len(t \o rest) = Len(t) + Len(rest)
        /\ \A i \in 1..Len(t) : (t \o rest)[i] = t[i]
    BY <2>3, <2>4, ConcatProperties
  <2>6. Len(t) + Len(rest) = n
    BY <1>9, <2>4
  <2>7. buffer' = t \o rest
    BY <1>14 DEF rest
  <2>8. t \o rest \in [1..n -> S]
    <3>1. PICK w \in Seq(S) : w = t \o rest /\ Len(w) = n
      BY <2>5, <2>6
    <3>2. w \in [1..Len(w) -> S]
      OBVIOUS
    <3> QED
      BY <3>1, <3>2
  <2> QED
    BY <1>5, <2>5, <2>7, <2>8 DEF S
<1>16. \A q \in Peers : peer'[q] = IF q = p THEN r ELSE peer[q]
  BY <1>1, <1>4, <1>14
<1>17. r.sent # 0 \/ r.end # "no"
  <2>1. CASE peer[p].box # <<>>
    <3>1. peer[p].box \in Seq(Peers \X Nat) /\ peer[p].sent \in Nat /\ Len(peer[p].box) <= peer[p].sent
      BY <1>4 DEF Fine, Records
    <3>2. Len(peer[p].box) >= 1
      BY <2>1, <3>1
    <3>3. peer[p].sent # 0
      BY <3>1, <3>2
    <3> QED
      BY <1>10, <3>3
  <2>2. CASE peer[p].end # "no"
    BY <1>10, <2>2
  <2> QED
    BY <1>3, <2>1, <2>2 DEF Readable
<1>18. \A q \in Peers : q # p => ~Alone(q)'
  BY <1>4, <1>16, <1>17, NotAlone
<1>19. PICK m \in Nat : m = IF k > 0 THEN k ELSE 0
  BY <1>9
<1>20. m = Len(t)
  BY <1>9, <1>19
<1>21. Due(p, m)'
  <2>1. Len(r.got) + m <= Rcvd(r)
    <3>1. Len(peer[p].got) + 0 <= Rcvd(peer[p]) /\ Len(peer[p].got) \in Nat
      BY <1>1, <1>4, <1>5 DEF Due, Records
    <3> QED
      BY <1>10, <1>11, <1>20, <3>1
  <2>2. ASSUME Alone(p)' PROVE Heard(p, r, SubSeq(buffer', 1, m))
    <3>1. Alone(p)
      BY <1>4, <1>16, <2>2, SameOthers
    <3>2. SubSeq(buffer, 1, 0) = <<>>
      BY <1>1
    <3>3. Heard(p, peer[p], <<>>)
      BY <1>5, <3>1, <3>2 DEF Due
    <3>4. Heard(p, r, t)
      BY <1>1, <1>4, <1>5, <1>6, <1>7, <3>3, ReadsHeard
    <3>5. SubSeq(buffer', 1, m) = t
      <4> DEFINE S == (Peers \cup {Listener}) \X Nat
      <4>1. buffer' \in Seq(S) /\ Len(buffer') = n
        BY <1>5, <1>15
      <4>2. m \in 0..Len(buffer')
        BY <1>9, <1>20, <4>1
      <4>3. /\ SubSeq(buffer', 1, m) \in Seq(S) /\ Len(SubSeq(buffer', 1, m)) = m
            /\ \A i \in 1..m : SubSeq(buffer', 1, m)[i] = buffer'[i]
        <5> HIDE DEF S
        <5>1. PICK b \in Seq(S) : b = buffer'
          BY <4>1
        <5>2. m \in 0..Len(b)
          BY <4>2, <5>1
        <5>3. /\ SubSeq(b, 1, m) \in Seq(S) /\ Len(SubSeq(b, 1, m)) = m
              /\ \A i \in 1..m : SubSeq(b, 1, m)[i] = b[i]
          BY ONLY <5>2, RestOfSeq
        <5> QED
          BY <5>1, <5>3
      <4>4. t \in Seq(S)
        <5>1. \A i \in 1..Len(t) : t[i] \in S
          BY <1>9
        <5> QED
          BY <1>9, <5>1
      <4>5. \A i \in 1..m : SubSeq(buffer', 1, m)[i] = t[i]
        BY <1>15, <1>20, <4>3
      <4> HIDE DEF S
      <4>6. PICK s \in Seq(S) : s = SubSeq(buffer', 1, m) /\ Len(s) = Len(t) /\ \A i \in 1..Len(s) : s[i] = t[i]
        BY <1>20, <4>3, <4>5
      <4>7. s = t
        BY ONLY <4>4, <4>6, SeqEqual
      <4> QED
        BY <4>6, <4>7
    <3> QED
      BY <3>4, <3>5
  <2> QED
    BY <1>4, <1>16, <2>1, <2>2 DEF Due, Rcvd
<1>22. EvDue(p, e)'
  <2>1. k <= setup.buf
    <3>1. CASE k > 0
      BY <1>5, <1>9, <3>1
    <3>2. CASE ~(k > 0)
      BY <1>5, <1>9, <3>2
    <3> QED
      BY <3>1, <3>2
  <2>2. k = 0 => r.end # "no"
    BY <1>3, <1>9, <1>10 DEF Readable
  <2>3. k = -1 => r.end = "told"
    BY <1>10
  <2>4. peer'[p] = r /\ setup'.buf = setup.buf
    BY <1>3, <1>4, <1>16
  <2>5. Due(p, IF e.res > 0 THEN e.res ELSE 0)'
    BY <1>13, <1>19, <1>21
  <2> QED
    BY ONLY <1>13, <2>1, <2>2, <2>3, <2>4, <2>5 DEF EvDue
<1>23. Modest(p)'
  <2>1. Modest(p)
    BY <1>4 DEF UringInv, Kept
  <2>2. peer'[p] = r
    BY <1>4, <1>16
  <2>3. Len(r.got) <= Rcvd(r)
    <3>1. Len(peer[p].got) <= Rcvd(peer[p]) /\ Len(peer[p].got) \in Nat
      BY <1>1, <1>4, <2>1 DEF Modest, Records
    <3> QED
      BY <1>9, <1>10, <1>11, <3>1
  <2>4. Alone(p)' => Alone(p)
    BY <1>4, <1>16, SameOthers
  <2> QED
    BY <1>4, <1>10, <2>1, <2>2, <2>3, <2>4 DEF Modest, Rcvd
<1> QED
  BY <1>2, <1>3, <1>10, <1>13, <1>14, <1>15, <1>18, <1>22, <1>23, RunEnds

\* The kernel sends from the shared buffer.
LEMMA RunSend_Inv ==
  ASSUME UringInv, NEW o \in running, RunSend(o)
  PROVE  UringInv'
<1>1. /\ SockInv /\ UringTyped /\ peer \in [Peers -> Records] /\ setup.buf \in Nat
      /\ buffer \in [1..setup.buf -> (Peers \cup {Listener}) \X Nat]
  BY TeachAssumption DEF UringInv, UringTyped, SockInv
<1>2. PICK p : p = Owner(o.fd)
  OBVIOUS
<1>3. /\ o.op = "send" /\ queue' = queue /\ setup' = setup /\ down' = down /\ sq' = sq
      /\ cqes' = cqes /\ running' = running \ {o} /\ buffer' = buffer
  BY <1>2 DEF RunSend, Completes
<1>4. p \in Peers /\ peer[p].st = "open" /\ peer[p].fd = o.fd /\ OpDue(p, o) /\ o.fd \in Fds /\ Fine(p, peer[p])
  BY <1>2, <1>3, OfOp
<1>5. PICK n \in Nat : n = o.n /\ n \in 1..setup.buf /\ Due(p, n)
  BY <1>1, <1>3, <1>4 DEF OpDue
<1>6. PICK s : s = SubSeq(buffer, 1, n)
  OBVIOUS
<1>7. s \in Seq((Peers \cup {Listener}) \X Nat) /\ Len(s) = n
  BY <1>1, <1>5, <1>6, PlacesAre
<1>8. PICK r : r = Answered(peer[p], s)
  OBVIOUS
<1>9. /\ Fine(p, r) /\ r.st = peer[p].st /\ r.fd = peer[p].fd /\ r.sent = peer[p].sent /\ r.box = peer[p].box
      /\ peer[p].end = "no" => r.end = "no" /\ r.got = peer[p].got \o s
      /\ peer[p].end # "no" => r.end # "no" /\ r.got = peer[p].got
  <2>1. PICK x, w : x = peer[p] /\ w = s
    OBVIOUS
  <2>2. r = Answered(x, w) /\ Fine(p, x) /\ w \in Seq((Peers \cup {Listener}) \X Nat)
    BY <1>4, <1>7, <1>8, <2>1
  <2>3. /\ Fine(p, r) /\ r.st = x.st /\ r.fd = x.fd /\ r.sent = x.sent /\ r.box = x.box
        /\ x.end = "no" => r.end = "no" /\ r.got = x.got \o w
        /\ x.end # "no" => r.end # "no" /\ r.got = x.got
    BY ONLY SMTT(30), <2>2, AnsweredIs
  <2> QED
    BY ONLY <2>1, <2>3
<1>10. PICK k : k = IF SendKills(peer[p]) THEN -1 ELSE n
  OBVIOUS
<1>11. PICK e : e = [op |-> "send", fd |-> o.fd, res |-> k]
  OBVIOUS
<1>12. e \in EvRecords /\ e.op = "send" /\ e.fd = o.fd
  BY <1>4, <1>10, <1>11 DEF EvRecords
<1>13. cq' = Append(cq, e) /\ peer' = [peer EXCEPT ![p] = r]
  BY <1>2, <1>3, <1>5, <1>6, <1>8, <1>10, <1>11 DEF RunSend, Completes
<1>14. \A q \in Peers : peer'[q] = IF q = p THEN r ELSE peer[q]
  BY <1>1, <1>4, <1>13
<1>15. \A q \in Peers : q # p => (Alone(q)' => Alone(q) /\ buffer' = buffer)
  <2>1. \A q \in Peers : peer'[q].sent = peer[q].sent /\ (peer'[q].end = "no" => peer[q].end = "no")
    BY <1>9, <1>14
  <2> QED
    BY <1>3, <2>1 DEF Alone
<1>16. Rcvd(r) = Rcvd(peer[p]) /\ Len(r.got) <= Rcvd(r) /\ Len(r.got) \in Nat
  <2>1. Len(peer[p].got) + n <= Rcvd(peer[p]) /\ Len(peer[p].got) \in Nat
        /\ peer[p].got \in Seq((Peers \cup {Listener}) \X Nat)
    BY <1>1, <1>4, <1>5 DEF Due, Records
  <2>2. Rcvd(r) = Rcvd(peer[p]) /\ Rcvd(r) \in Nat
    <3>1. Rcvd(peer[p]) \in Nat
      BY <1>1, <1>4, RcvdOn
    <3>2. Rcvd(r) = Rcvd(peer[p])
      BY <1>9 DEF Rcvd
    <3> QED
      BY <3>1, <3>2
  <2>3. CASE peer[p].end = "no"
    <3>1. Len(r.got) = Len(peer[p].got) + Len(s)
      BY <1>7, <1>9, <2>1, <2>3, ConcatProperties
    <3> QED
      BY <1>7, <2>1, <2>2, <3>1
  <2>4. CASE peer[p].end # "no"
    BY <1>9, <2>1, <2>2, <2>4
  <2> QED
    BY <2>3, <2>4
<1>17. Alone(p) => Heard(p, r, <<>>)
  <2>1. SUFFICES ASSUME Alone(p) PROVE Heard(p, r, <<>>)
    OBVIOUS
  <2>2. Heard(p, peer[p], s)
    BY <1>5, <1>6, <2>1 DEF Due
  <2>3. CASE peer[p].end = "no"
    <3>1. \A i \in 1..Len(s) : s[i] = <<p, Len(peer[p].got) + i>> /\ Len(peer[p].got) + i \in Nat
      BY <1>1, <1>4, <1>7, <2>2, <2>3 DEF Heard, Records
    <3>2. s \in Seq(Peers \X Nat)
      <4>1. ASSUME NEW i \in 1..Len(s) PROVE s[i] \in Peers \X Nat
        <5>1. PICK j \in Nat : s[i] = <<p, j>>
          BY <3>1
        <5> QED
          BY <1>4, <5>1
      <4> QED
        BY <1>7, <4>1
    <3> QED
      BY <1>4, <1>8, <2>2, <3>2, AnswersHeard
  <2>4. CASE peer[p].end # "no"
    BY <1>9, <2>2, <2>4 DEF Heard
  <2> QED
    BY <2>3, <2>4
<1>18. peer'[p] = r /\ (Alone(p)' => Alone(p))
  BY <1>4, <1>14, SameOthers
<1>19. Due(p, 0)'
  <2>1. SubSeq(buffer', 1, 0) = <<>>
    BY <1>1, <1>3
  <2>2. Len(r.got) + 0 <= Rcvd(r)
    BY <1>16
  <2> QED
    BY <1>17, <1>18, <2>1, <2>2 DEF Due, Rcvd
<1>20. Modest(p)'
  <2>1. Alone(p)' => \A i \in 1..Len(r.got) : r.got[i] = <<p, i>>
    BY <1>17, <1>18 DEF Heard
  <2> QED
    BY <1>4, <1>9, <1>16, <1>18, <2>1 DEF Modest, Rcvd
<1>21. EvDue(p, e)'
  BY <1>12, <1>19 DEF EvDue
<1>22. buffer' \in [1..setup.buf -> (Peers \cup {Listener}) \X Nat]
  BY <1>1, <1>3
<1> QED
  BY <1>2, <1>3, <1>9, <1>12, <1>13, <1>15, <1>20, <1>21, <1>22, RunEnds

\* What the completion at the head tells of its connection.
LEMMA OfEv ==
  ASSUME UringInv, cqes # <<>>, NEW e, e = Head(cqes), NEW fd, fd = EvFd(e), NEW p, p = Owner(fd)
  PROVE  /\ p \in Peers /\ peer[p].st = "open" /\ peer[p].fd = fd /\ EvDue(p, e) /\ Modest(p)
         /\ fd \in Fds /\ fd # 0 /\ e \in EvRecords /\ Fine(p, peer[p])
         /\ (\A a \in Asked : a.fd # fd) /\ \A x \in Lined(sq) : x.fd # fd
<1>1. SockInv /\ Owned /\ OneEach /\ cqes \in Seq(EvRecords) /\ EvOnce(cqes)
  BY DEF UringInv, UringTyped, OneEach
<1>2. e \in Lined(cqes) /\ Lined(cqes) \subseteq EvRecords
  BY <1>1, EvLine
<1>3. e \in Done /\ fd \in UsedFds
  BY <1>1, <1>2 DEF Done, Owned
<1>4. p \in Peers /\ peer[p].st = "open" /\ peer[p].fd = fd
  BY <1>1, <1>3, OwnerIs
<1>5. EvDue(p, e) /\ Modest(p)
  BY <1>3, <1>4 DEF UringInv, Kept
<1>6. \A a \in Asked : a.fd # fd
  BY <1>1, <1>3 DEF OneEach
<1>7. \A x \in Lined(sq) : x.fd # fd
  BY <1>6 DEF Asked
<1> QED
  BY <1>1, <1>2, <1>3, <1>4, <1>5, <1>6, <1>7, UsedAre DEF SockInv

\* A completion is handled that changes no connection and leaves the buffer as it is.
LEMMA EventKeeps ==
  ASSUME UringInv, cqes # <<>>, cqes' = Tail(cqes), cq' = cq, running' = running,
         peer' = peer, queue' = queue, setup' = setup, down' = down, buffer' = buffer,
         NEW fd, fd = EvFd(Head(cqes)), NEW p, p = Owner(fd),
         sq' \in Seq(OpRecords), OpOnce(sq)',
         \A x \in Lined(sq)' : \/ x \in Lined(sq)
                               \/ x.fd = 0 /\ x.op = "accept"
                               \/ x.fd = fd /\ x.op # "accept" /\ OpDue(p, x),
         \A x \in Lined(sq) : x \in Lined(sq)',
         peer[p].end = "told" \/ \E x \in Lined(sq)' : x.fd = fd
  PROVE  UringInv'
<1>1. /\ p \in Peers /\ peer[p].st = "open" /\ peer[p].fd = fd /\ Modest(p) /\ fd \in Fds /\ fd # 0
      /\ (\A a \in Asked : a.fd # fd) /\ \A x \in Lined(sq) : x.fd # fd
  BY OfEv
<1>2. SockInv /\ UringTyped /\ Owned
  BY DEF UringInv, UringTyped
<1>3. SockInv'
  BY <1>2, SockStays
<1>4. \A x \in Lined(sq)' : x \in Lined(sq) \/ x.fd \in {0, fd}
  OBVIOUS
<1>5. /\ OneEach' /\ cqes' \in Seq(EvRecords) /\ (\A b \in Done' : b \in Done /\ EvFd(b) # fd)
      /\ (\A b \in Done : EvFd(b) # fd => b \in Done') /\ (\A a \in Asked : a \in Asked')
      /\ \A a \in Asked' : a \in Asked \/ a.fd \in {0, fd}
  BY <1>4, EventMoves
<1>6. UringTyped'
  <2>1. cq \in Seq(EvRecords) /\ running \subseteq OpRecords /\ prog = "uring"
        /\ buffer \in [1..setup.buf -> (Peers \cup {Listener}) \X Nat]
    BY <1>2 DEF UringTyped
  <2> QED
    BY <1>3, <1>5, <2>1 DEF UringTyped, OpRecords, EvRecords, prog, Fds
<1>7. \A n : Due(p, n) => Due(p, n)'
  BY DueStays DEF Alone
<1>8. ASSUME NEW o \in Asked'
      PROVE  /\ o.fd \in {0, fd} \/ o \in Asked
             /\ o.fd = 0 <=> o.op = "accept"
             /\ o.fd = fd => OpDue(p, o)'
  <2>1. \/ o \in Asked
        \/ o.fd = 0 /\ o.op = "accept"
        \/ o.fd = fd /\ o.op # "accept" /\ OpDue(p, o)
    BY DEF Asked
  <2>2. OpDue(p, o) => OpDue(p, o)'
    BY <1>7 DEF OpDue
  <2> QED
    BY <1>1, <1>2, <2>1, <2>2 DEF Owned
<1>9. Modest(p)'
  BY <1>1, <1>7 DEF Modest, Rcvd, Alone
<1>10. \A q \in Peers : q # p => peer'[q] = peer[q] /\ (Alone(q)' => Alone(q) /\ buffer' = buffer)
  BY DEF Alone
<1>11. peer'[p].st = "open" /\ peer'[p].fd = fd
  BY <1>1
<1>12. peer'[p].end = "told" \/ \E o \in Asked' : o.fd = fd
  BY DEF Asked
<1>13. /\ \A b \in Done' : (EvFd(b) = fd \/ b \in Done) /\ EvFd(b) # fd
       /\ \A b \in Done : EvFd(b) # fd => b \in Done'
       /\ \A a \in Asked : a.fd \notin {0, fd} => a \in Asked'
  BY <1>5
<1> QED
  BY <1>1, <1>5, <1>6, <1>8, <1>9, <1>10, <1>11, <1>12, <1>13, UringTurn

\* An accepted connection: the next accept and its first receive are prepared.
LEMMA EventAccept_Inv ==
  ASSUME UringInv, EventAccept
  PROVE  UringInv'
<1>1. PICK e, fd, p : e = Head(cqes) /\ fd = EvFd(e) /\ p = Owner(fd)
  OBVIOUS
<1>2. /\ cqes # <<>> /\ e.op = "accept" /\ cqes' = Tail(cqes) /\ cq' = cq /\ running' = running /\ peer' = peer
      /\ queue' = queue /\ setup' = setup /\ down' = down /\ buffer' = buffer /\ fd = e.res
      /\ sq' = sq \o <<Accepting, Receiving(fd)>>
  BY <1>1 DEF EventAccept, sockVars, EvFd
<1>3. /\ p \in Peers /\ EvDue(p, e) /\ fd \in Fds /\ fd # 0 /\ \A x \in Lined(sq) : x.fd # fd
  BY <1>1, <1>2, OfEv
<1>4. setup.buf \in Nat /\ sq \in Seq(OpRecords) /\ OpOnce(sq)
  BY TeachAssumption DEF UringInv, UringTyped, SockInv, OneEach
<1>5. PICK a, r : a = Accepting /\ r = Receiving(fd)
  OBVIOUS
<1>6. /\ a \in OpRecords /\ a.fd = 0 /\ a.op = "accept"
      /\ r \in OpRecords /\ r.fd = fd /\ r.op = "recv" /\ r.n = setup.buf
  BY <1>3, <1>4, <1>5 DEF Accepting, Receiving, OpRecords
<1>7. PICK s : s = Append(sq, a)
  OBVIOUS
<1>8. s \in Seq(OpRecords) /\ OpOnce(s) /\ Lined(s) = Lined(sq) \cup {a}
  BY <1>4, <1>6, <1>7, OpLine
<1>9. PICK t : t = Append(s, r)
  OBVIOUS
<1>10. t \in Seq(OpRecords) /\ OpOnce(t) /\ Lined(t) = Lined(sq) \cup {a, r}
  <2>1. \A x \in Lined(s) : x.fd # r.fd
    BY <1>3, <1>6, <1>8
  <2> QED
    BY <1>6, <1>8, <1>9, <2>1, OpLine
<1>11. sq' = t
  <2>1. \A u \in Seq(OpRecords) : \A x, y \in OpRecords : u \o <<x, y>> = Append(Append(u, x), y)
    OBVIOUS
  <2> QED
    BY ONLY <1>2, <1>4, <1>5, <1>6, <1>7, <1>9, <2>1
<1>12. OpOnce(sq)' /\ Lined(sq)' = Lined(t)
  BY <1>10, <1>11 DEF OpOnce, Lined
<1>13. OpDue(p, r)
  BY <1>2, <1>3, <1>6 DEF EvDue, OpDue
<1>14. /\ \A x \in Lined(sq)' : \/ x \in Lined(sq)
                                \/ x.fd = 0 /\ x.op = "accept"
                                \/ x.fd = fd /\ x.op # "accept" /\ OpDue(p, x)
       /\ (\A x \in Lined(sq) : x \in Lined(sq)')
       /\ \E x \in Lined(sq)' : x.fd = fd
  BY <1>6, <1>10, <1>12, <1>13
<1> QED
  BY <1>1, <1>2, <1>10, <1>11, <1>12, <1>14, EventKeeps

\* One operation is prepared for the connection of the completion.
LEMMA EventNext ==
  ASSUME UringInv, cqes # <<>>, cqes' = Tail(cqes), cq' = cq, running' = running,
         peer' = peer, queue' = queue, setup' = setup, down' = down, buffer' = buffer,
         NEW fd, fd = EvFd(Head(cqes)), NEW p, p = Owner(fd),
         NEW o \in OpRecords, o.fd = fd, OpDue(p, o), sq' = Append(sq, o)
  PROVE  UringInv'
<1>1. \A x \in Lined(sq) : x.fd # fd
  BY OfEv
<1>2. sq \in Seq(OpRecords) /\ OpOnce(sq)
  BY DEF UringInv, UringTyped, OneEach
<1>3. PICK t : t = Append(sq, o)
  OBVIOUS
<1>4. t \in Seq(OpRecords) /\ OpOnce(t) /\ Lined(t) = Lined(sq) \cup {o}
  BY <1>1, <1>2, <1>3, OpLine
<1>5. OpOnce(sq)' /\ Lined(sq)' = Lined(t)
  BY <1>3, <1>4 DEF OpOnce, Lined
<1>6. /\ \A x \in Lined(sq)' : \/ x \in Lined(sq)
                               \/ x.fd = 0 /\ x.op = "accept"
                               \/ x.fd = fd /\ x.op # "accept" /\ OpDue(p, x)
      /\ (\A x \in Lined(sq) : x \in Lined(sq)')
      /\ \E x \in Lined(sq)' : x.fd = fd
  BY <1>4, <1>5 DEF OpDue
<1>7. sq' \in Seq(OpRecords)
  BY <1>3, <1>4
<1> QED
  BY <1>5, <1>6, <1>7, EventKeeps

\* A send that is complete: the next receive of its connection.
LEMMA EventWrite_Inv ==
  ASSUME UringInv, EventWrite
  PROVE  UringInv'
<1>1. PICK e, fd, p : e = Head(cqes) /\ fd = EvFd(e) /\ p = Owner(fd)
  OBVIOUS
<1>2. /\ cqes # <<>> /\ e.op = "send" /\ cqes' = Tail(cqes) /\ cq' = cq /\ running' = running /\ peer' = peer
      /\ queue' = queue /\ setup' = setup /\ down' = down /\ buffer' = buffer /\ fd = e.fd
      /\ sq' = Append(sq, Receiving(fd))
  BY <1>1 DEF EventWrite, sockVars, EvFd
<1>3. p \in Peers /\ EvDue(p, e) /\ fd \in Fds
  BY <1>1, <1>2, OfEv
<1>4. setup.buf \in Nat
  BY TeachAssumption DEF UringInv, UringTyped, SockInv
<1>5. PICK o : o = Receiving(fd)
  OBVIOUS
<1>6. o \in OpRecords /\ o.fd = fd /\ o.op = "recv" /\ o.n = setup.buf
  BY <1>3, <1>4, <1>5 DEF Receiving, OpRecords
<1>7. OpDue(p, o)
  BY <1>2, <1>3, <1>6 DEF EvDue, OpDue
<1> QED
  BY <1>1, <1>2, <1>5, <1>6, <1>7, EventNext

\* A receive that is complete: what was read is sent, or the connection is closed.
LEMMA EventRead_Inv ==
  ASSUME UringInv, EventRead
  PROVE  UringInv'
<1>1. PICK e, fd, p : e = Head(cqes) /\ fd = EvFd(e) /\ p = Owner(fd)
  OBVIOUS
<1>2. /\ cqes # <<>> /\ e.op = "recv" /\ cqes' = Tail(cqes) /\ cq' = cq /\ running' = running /\ fd = e.fd
      /\ queue' = queue /\ setup' = setup /\ down' = down
      /\ peer' = IF e.res = 0 THEN [peer EXCEPT ![p] = Closed(@)] ELSE peer
      /\ sq' = IF e.res > 0 THEN Append(sq, Sending(fd, e.res)) ELSE sq
      /\ buffer' = IF e.res = 0 THEN [buffer EXCEPT ![1] = Zero] ELSE buffer
  BY <1>1 DEF EventRead, EvFd
<1>3. /\ p \in Peers /\ peer[p].st = "open" /\ peer[p].fd = fd /\ EvDue(p, e) /\ Modest(p)
      /\ fd \in Fds /\ fd # 0 /\ e \in EvRecords /\ Fine(p, peer[p])
      /\ (\A a \in Asked : a.fd # fd) /\ \A x \in Lined(sq) : x.fd # fd
  BY <1>1, <1>2, OfEv
<1>4. /\ SockInv /\ UringTyped /\ Owned /\ setup.buf \in Nat /\ sq \in Seq(OpRecords) /\ OpOnce(sq)
      /\ peer \in [Peers -> Records]
  BY TeachAssumption DEF UringInv, UringTyped, SockInv, OneEach
<1>5. e.res \in Nat \cup {-1} /\ e.res <= setup.buf
  BY <1>2, <1>3 DEF EvRecords, EvDue
<1>6. CASE e.res > 0
  <2>1. e.res \in 1..setup.buf /\ e.res # 0
    BY <1>4, <1>5, <1>6
  <2>2. PICK o : o = Sending(fd, e.res)
    OBVIOUS
  <2>3. o \in OpRecords /\ o.fd = fd /\ o.op = "send" /\ o.n = e.res
    BY <1>3, <2>1, <2>2 DEF Sending, OpRecords
  <2>4. OpDue(p, o)
    BY <1>2, <1>3, <1>6, <2>1, <2>3 DEF EvDue, OpDue
  <2> QED
    BY <1>1, <1>2, <1>6, <2>1, <2>2, <2>3, <2>4, EventNext
<1>7. CASE e.res = -1
  <2>1. ~(-1 > 0) /\ -1 # 0
    OBVIOUS
  <2>2. sq' = sq /\ peer' = peer /\ buffer' = buffer
    BY ONLY <1>2, <1>7, <2>1
  <2>3. peer[p].end = "told"
    BY <1>2, <1>3, <1>7 DEF EvDue
  <2>4. Lined(sq)' = Lined(sq) /\ OpOnce(sq)'
    BY <1>4, <2>2 DEF Lined, OpOnce
  <2> QED
    BY <1>1, <1>2, <1>4, <2>2, <2>3, <2>4, EventKeeps
<1>8. CASE e.res = 0
  <2>1. PICK r : r = Closed(peer[p])
    OBVIOUS
  <2>2. /\ Fine(p, r) /\ r.st = "shut" /\ r.fd = 0 /\ r.sent = peer[p].sent /\ r.box = peer[p].box
        /\ r.end = peer[p].end /\ r.got = peer[p].got
    BY <1>3, <2>1, ClosedIs
  <2>3. peer' = [peer EXCEPT ![p] = r] /\ buffer' = [buffer EXCEPT ![1] = Zero] /\ sq' = sq
    BY <1>2, <1>5, <1>8, <2>1
  <2>4. \A q \in Peers : peer'[q] = IF q = p THEN r ELSE peer[q]
    BY <1>3, <1>4, <2>3
  <2>5. SockInv'
    <3>1. TurnsOf(p, r)
      BY <1>2, <1>3, <2>2 DEF TurnsOf
    <3>2. down' \in Downs
      BY <1>2, <1>4 DEF SockInv
    <3> QED
      BY <1>2, <1>3, <1>4, <2>2, <2>3, <3>1, <3>2, OneTurn
  <2>6. Lined(sq)' = Lined(sq) /\ OpOnce(sq)' /\ sq' \in Seq(OpRecords)
    BY <1>4, <2>3 DEF Lined, OpOnce
  <2>7. /\ OneEach' /\ cqes' \in Seq(EvRecords) /\ (\A b \in Done' : b \in Done /\ EvFd(b) # fd)
        /\ (\A b \in Done : EvFd(b) # fd => b \in Done') /\ (\A a \in Asked : a \in Asked')
    BY <1>1, <1>2, <2>6, EventMoves
  <2>8. Asked' = Asked
    BY <1>2, <2>6 DEF Asked
  <2>9. UringTyped'
    <3>1. /\ cq \in Seq(EvRecords) /\ running \subseteq OpRecords /\ prog = "uring"
          /\ buffer \in [1..setup.buf -> (Peers \cup {Listener}) \X Nat]
      BY <1>4 DEF UringTyped
    <3>2. buffer' \in [1..setup.buf -> (Peers \cup {Listener}) \X Nat]
      BY <2>3, <3>1 DEF Zero
    <3> QED
      BY <1>2, <2>5, <2>6, <2>7, <3>1, <3>2 DEF UringTyped, OpRecords, EvRecords, prog, Fds
  <2>10. \A q \in Peers : q # p => peer'[q] = peer[q] /\ (Alone(q)' => Alone(q) /\ buffer' = buffer)
    <3>1. r.end # "no"
      BY <1>2, <1>3, <1>8, <2>2 DEF EvDue
    <3>2. \A q \in Peers : q # p => ~Alone(q)'
      BY <1>3, <2>4, <3>1, NotAlone
    <3> QED
      BY <2>4, <3>2
  <2>11. Modest(p)'
    <3>1. peer'[p] = r /\ (Alone(p)' => Alone(p))
      BY <1>3, <2>4, SameOthers
    <3> QED
      BY <1>3, <2>2, <3>1 DEF Modest, Rcvd
  <2>12. \A a \in Asked' : a \in Asked /\ a.fd # fd /\ (a.fd = 0 <=> a.op = "accept")
    BY <1>3, <1>4, <2>8 DEF Owned
  <2>13. peer'[p].st = "shut"
    BY <1>3, <2>2, <2>4
  <2>14. /\ \A b \in Done' : (EvFd(b) = fd \/ b \in Done) /\ EvFd(b) # fd
         /\ \A b \in Done : EvFd(b) # fd => b \in Done'
    BY <2>7
  <2> QED
    BY <1>2, <1>3, <2>7, <2>8, <2>9, <2>10, <2>11, <2>12, <2>13, <2>14, UringTurn
<1> QED
  BY <1>5, <1>6, <1>7, <1>8

\* The rings hold the same, elsewhere.
LEMMA RingsStay ==
  ASSUME UringInv, UringTyped', OneEach', Asked' = Asked, Done' = Done,
         peer' = peer, setup' = setup, buffer' = buffer
  PROVE  UringInv'
<1>1. Owned'
  BY DEF UringInv, Owned, UsedFds, Open, EvFd
<1>2. ASSUME NEW p \in Peers PROVE Kept(p)'
  <2>1. Kept(p) /\ \A n : Due(p, n) => Due(p, n)'
    BY DueStays DEF UringInv, Alone
  <2>2. Modest(p)'
    BY <2>1 DEF Kept, Modest, Rcvd, Alone
  <2>3. \A o : OpDue(p, o) => OpDue(p, o)'
    BY <2>1 DEF OpDue
  <2>4. \A e : EvDue(p, e) => EvDue(p, e)'
    BY <2>1 DEF EvDue
  <2> QED
    BY <2>1, <2>2, <2>3, <2>4 DEF Kept, EvFd
<1> QED
  BY <1>1, <1>2 DEF UringInv

\* The prepared operations are given to the kernel.
LEMMA Submit_Inv ==
  ASSUME UringInv, Submit
  PROVE  UringInv'
<1>1. /\ running' = running \cup ToSet(sq) /\ sq' = <<>> /\ cq' = cq /\ cqes' = cqes /\ buffer' = buffer
      /\ peer' = peer /\ queue' = queue /\ setup' = setup /\ down' = down
  BY DEF Submit, sockVars
<1>2. /\ SockInv /\ OneEach /\ UringTyped /\ sq \in Seq(OpRecords) /\ OpOnce(sq)
  BY DEF UringInv, UringTyped, OneEach
<1>3. ToSet(sq) = Lined(sq)
  BY <1>2 DEF ToSet, Lined
<1>4. Lined(sq) \subseteq OpRecords
  <2>1. \A i \in 1..Len(sq) : sq[i] \in OpRecords
    BY <1>2
  <2> QED
    BY <2>1 DEF Lined
<1>5. /\ <<>> \in Seq(OpRecords) /\ Len(<<>>) = 0 /\ \A i \in 1..0 : FALSE
  OBVIOUS
<1>6. Lined(sq)' = {} /\ OpOnce(sq)'
  BY ONLY <1>1, <1>5 DEF Lined, OpOnce
<1>7. Lined(cqes)' = Lined(cqes) /\ Lined(cq)' = Lined(cq) /\ EvOnce(cqes)' /\ EvOnce(cq)'
  <2>1. EvOnce(cqes) /\ EvOnce(cq)
    BY <1>2 DEF OneEach
  <2> QED
    BY ONLY <1>1, <2>1 DEF Lined, EvOnce, EvFd
<1>8. Asked' = Asked /\ Done' = Done
  BY <1>1, <1>3, <1>6, <1>7 DEF Asked, Done
<1>9. OneEach'
  <2>1. \A a, b \in Lined(sq) : a.fd = b.fd /\ a.fd # 0 => a = b
    BY <1>2 DEF Lined, OpOnce
  <2>2. \A a, b \in running' : a.fd = b.fd /\ a.fd # 0 => a = b
    BY <1>1, <1>2, <1>3, <2>1 DEF OneEach
  <2>3. /\ \A a \in Lined(cqes), b \in Lined(cq) : EvFd(a) # EvFd(b)
        /\ \A a \in Asked, b \in Done : a.fd # EvFd(b)
    BY <1>2 DEF OneEach
  <2> QED
    BY <1>6, <1>7, <1>8, <2>2, <2>3 DEF OneEach, EvFd
<1>10. UringTyped'
  <2>1. SockInv'
    BY <1>1, <1>2, SockStays
  <2>2. /\ cq \in Seq(EvRecords) /\ cqes \in Seq(EvRecords) /\ running \subseteq OpRecords /\ prog = "uring"
        /\ buffer \in [1..setup.buf -> (Peers \cup {Listener}) \X Nat]
    BY <1>2 DEF UringTyped
  <2> QED
    BY <1>1, <1>3, <1>4, <1>5, <2>1, <2>2 DEF UringTyped, OpRecords, EvRecords, prog, Fds
<1> QED
  BY <1>1, <1>8, <1>9, <1>10, RingsStay

\* The completions become the batch.
LEMMA Peek_Inv ==
  ASSUME UringInv, Peek
  PROVE  UringInv'
<1>1. /\ cqes' = cq /\ cq' = <<>> /\ cqes = <<>> /\ sq' = sq /\ running' = running /\ buffer' = buffer
      /\ peer' = peer /\ queue' = queue /\ setup' = setup /\ down' = down
  BY DEF Peek, sockVars
<1>2. SockInv /\ OneEach /\ UringTyped
  BY DEF UringInv, UringTyped
<1>3. /\ <<>> \in Seq(EvRecords) /\ Len(<<>>) = 0 /\ \A i \in 1..0 : FALSE
  OBVIOUS
<1>4. Lined(cq)' = {} /\ EvOnce(cq)' /\ Lined(cqes) = {}
  BY ONLY <1>1, <1>3 DEF Lined, EvOnce
<1>5. Lined(cqes)' = Lined(cq) /\ Lined(sq)' = Lined(sq) /\ EvOnce(cqes)' /\ OpOnce(sq)'
  <2>1. EvOnce(cq) /\ OpOnce(sq)
    BY <1>2 DEF OneEach
  <2> QED
    BY ONLY <1>1, <2>1 DEF Lined, EvOnce, EvFd, OpOnce
<1>6. Asked' = Asked /\ Done' = Done
  BY <1>1, <1>4, <1>5 DEF Asked, Done
<1>7. OneEach'
  <2>1. /\ \A a, b \in running : a.fd = b.fd /\ a.fd # 0 => a = b
        /\ \A a \in running, b \in Lined(sq) : a.fd # 0 => a.fd # b.fd
        /\ \A a \in Asked, b \in Done : a.fd # EvFd(b)
    BY <1>2 DEF OneEach
  <2> QED
    BY <1>1, <1>4, <1>5, <1>6, <2>1 DEF OneEach, EvFd
<1>8. UringTyped'
  <2>1. SockInv'
    BY <1>1, <1>2, SockStays
  <2>2. /\ cq \in Seq(EvRecords) /\ sq \in Seq(OpRecords) /\ running \subseteq OpRecords /\ prog = "uring"
        /\ buffer \in [1..setup.buf -> (Peers \cup {Listener}) \X Nat]
    BY <1>2 DEF UringTyped
  <2> QED
    BY <1>1, <1>3, <2>1, <2>2 DEF UringTyped, OpRecords, EvRecords, prog, Fds
<1> QED
  BY <1>1, <1>6, <1>7, <1>8, RingsStay

\* Every step keeps the invariant.
LEMMA UringNext_Inv == UringInv /\ [UringNext]_uringVars => UringInv'
<1> SUFFICES ASSUME UringInv, [UringNext]_uringVars PROVE UringInv'
  OBVIOUS
<1>1. CASE UringNext
  <2>1. \/ \E p \in Peers : UringClient(p)
        \/ \E o \in running : RunAccept(o) \/ RunRecv(o) \/ RunSend(o)
        \/ Submit \/ Peek \/ EventAccept \/ EventRead \/ EventWrite
    BY <1>1 DEF UringNext, Kernel, UringServer
  <2> QED
    BY <2>1, UringClient_Inv, RunAccept_Inv, RunRecv_Inv, RunSend_Inv, Submit_Inv, Peek_Inv,
       EventAccept_Inv, EventRead_Inv, EventWrite_Inv
<1>2. CASE UNCHANGED uringVars
  <2>1. /\ sq' = sq /\ running' = running /\ cq' = cq /\ cqes' = cqes /\ buffer' = buffer
        /\ peer' = peer /\ queue' = queue /\ setup' = setup /\ down' = down
    BY <1>2 DEF uringVars, sockVars
  <2>2. SockInv /\ OneEach /\ UringTyped
    BY DEF UringInv, UringTyped
  <2>3. SockInv'
    BY <2>1, <2>2, SockStays
  <2>4. Asked' = Asked /\ Done' = Done
    BY <2>1 DEF Asked, Done, Lined
  <2>5. OneEach'
    BY ONLY <2>1, <2>2 DEF OneEach, OpOnce, EvOnce, EvFd, Lined, Asked, Done
  <2>6. UringTyped'
    BY <2>1, <2>2, <2>3 DEF UringTyped, OpRecords, EvRecords, prog, Fds
  <2> QED
    BY <2>1, <2>4, <2>5, <2>6, RingsStay
<1> QED
  BY <1>1, <1>2

\* A set of no two members.
LEMMA AtMostOne ==
  ASSUME NEW S, \A x, y \in S : x = y
  PROVE  Cardinality(S) = IF S = {} THEN 0 ELSE 1
<1>1. CASE S = {}
  BY <1>1, FS_EmptySet
<1>2. CASE S # {}
  <2>1. PICK x : x \in S
    BY <1>2
  <2>2. S = {x}
    BY <2>1
  <2> QED
    BY <1>2, <2>2, FS_Singleton
<1> QED
  BY <1>1, <1>2

\* One place of two queues of completions that no descriptor is in both of.
LEMMA OncePlace ==
  ASSUME NEW s \in Seq(EvRecords), NEW t \in Seq(EvRecords), EvOnce(s), EvOnce(t),
         \A a \in Lined(s), b \in Lined(t) : EvFd(a) # EvFd(b)
  PROVE  /\ s \o t \in Seq(EvRecords) /\ EvOnce(s \o t)
         /\ Lined(s \o t) = Lined(s) \cup Lined(t)
<1> DEFINE u == s \o t
<1>1. /\ u \in Seq(EvRecords) /\ Len(u) = Len(s) + Len(t) /\ Len(s) \in Nat /\ Len(t) \in Nat
      /\ \A i \in 1..Len(s) : u[i] = s[i]
      /\ \A i \in Len(s) + 1..Len(s) + Len(t) : u[i] = t[i - Len(s)]
  BY ConcatProperties
<1> HIDE DEF u
<1>2. PICK m \in Nat, n \in Nat : m = Len(s) /\ n = Len(t)
  BY <1>1
<1>3. ASSUME NEW i \in 1..Len(u)
      PROVE  \/ i \in 1..m /\ u[i] = s[i]
             \/ i - m \in 1..n /\ u[i] = t[i - m]
  BY <1>1, <1>2
<1>4. EvOnce(u)
  <2>1. ASSUME NEW i \in 1..Len(u), NEW j \in 1..Len(u), EvFd(u[i]) = EvFd(u[j]) PROVE i = j
    <3>1. i \in Nat /\ j \in Nat
      BY <1>1
    <3>2. \/ i \in 1..m /\ u[i] = s[i] /\ u[i] \in Lined(s)
          \/ i - m \in 1..n /\ u[i] = t[i - m] /\ u[i] \in Lined(t)
      BY <1>2, <1>3 DEF Lined
    <3>3. \/ j \in 1..m /\ u[j] = s[j] /\ u[j] \in Lined(s)
          \/ j - m \in 1..n /\ u[j] = t[j - m] /\ u[j] \in Lined(t)
      BY <1>2, <1>3 DEF Lined
    <3>4. CASE u[i] \in Lined(s) /\ u[i] = s[i] /\ i \in 1..m
      <4>1. u[j] \notin Lined(t)
        BY <2>1, <3>4
      <4> QED
        BY <1>2, <2>1, <3>3, <3>4, <4>1 DEF EvOnce
    <3>5. CASE u[i] \in Lined(t) /\ u[i] = t[i - m] /\ i - m \in 1..n
      <4>1. u[j] \notin Lined(s)
        BY <2>1, <3>5
      <4>2. u[j] = t[j - m] /\ j - m \in 1..n
        BY <3>3, <4>1
      <4>3. i - m = j - m
        BY <1>2, <2>1, <3>5, <4>2 DEF EvOnce
      <4> QED
        BY <3>1, <4>3
    <3> QED
      BY <3>2, <3>4, <3>5
  <2> QED
    BY <2>1 DEF EvOnce
<1>5. Lined(u) = Lined(s) \cup Lined(t)
  <2>1. ASSUME NEW x \in Lined(u) PROVE x \in Lined(s) \cup Lined(t)
    BY <1>2, <1>3 DEF Lined
  <2>2. ASSUME NEW x \in Lined(s) PROVE x \in Lined(u)
    <3>1. PICK i \in 1..Len(s) : x = s[i]
      BY DEF Lined
    <3>2. i \in 1..Len(u) /\ u[i] = x
      BY <1>1, <3>1
    <3> QED
      BY <3>2 DEF Lined
  <2>3. ASSUME NEW x \in Lined(t) PROVE x \in Lined(u)
    <3>1. PICK i \in 1..Len(t) : x = t[i]
      BY DEF Lined
    <3>2. m + i \in m + 1..m + n /\ (m + i) - m = i /\ m + i \in 1..m + n
      BY <1>2, <3>1
    <3>3. m + i \in 1..Len(u) /\ u[m + i] = x
      BY <1>1, <1>2, <3>1, <3>2
    <3> QED
      BY <3>3 DEF Lined
  <2> QED
    BY <2>1, <2>2, <2>3
<1> QED
  BY <1>1, <1>4, <1>5 DEF u

\* The invariant gives what the run checks.
LEMMA UringInvSound == UringInv => UringSound
<1> SUFFICES ASSUME UringInv PROVE UringSound
  OBVIOUS
<1>1. /\ SockInv /\ UringTyped /\ OneEach /\ Owned /\ (\A p \in Peers : Kept(p)) /\ peer \in [Peers -> Records]
      /\ cq \in Seq(EvRecords) /\ cqes \in Seq(EvRecords) /\ sq \in Seq(OpRecords) /\ running \subseteq OpRecords
      /\ EvOnce(cq) /\ EvOnce(cqes) /\ OpOnce(sq)
  BY DEF UringInv, UringTyped, SockInv, OneEach
<1>2. UringTypeOK
  <2>1. \A o \in running \cup ToSet(sq) : o \in OpRecords
    BY <1>1 DEF ToSet
  <2>2. \A e \in ToSet(cq \o cqes) : e \in EvRecords
    <3>1. cq \o cqes \in Seq(EvRecords)
      BY <1>1
    <3> QED
      BY <3>1 DEF ToSet
  <2>3. SockTypeOK
    BY <1>1, SockInvTyped
  <2> QED
    BY <1>1, <2>1, <2>2, <2>3 DEF UringTypeOK, UringTyped, OpRecords, EvRecords
<1>3. ASSUME NEW p \in Peers PROVE Len(peer[p].got) <= peer[p].sent
  <2>1. Len(peer[p].got) <= Rcvd(peer[p])
    BY <1>1 DEF Kept, Modest
  <2>2. Len(peer[p].got) \in Nat /\ Len(peer[p].box) \in Nat /\ peer[p].sent \in Nat
    BY <1>1 DEF Records
  <2> QED
    BY <2>1, <2>2 DEF Rcvd
<1>4. ASSUME NEW p \in Peers, Alone(p) PROVE Echoes(p)
  <2>1. \A i \in 1..Len(peer[p].got) : peer[p].got[i] = <<p, i>>
    BY <1>1, <1>4 DEF Kept, Modest
  <2>2. DOMAIN peer[p].got = 1..Len(peer[p].got)
    BY <1>1 DEF Records
  <2> QED
    BY <2>1, <2>2 DEF Echoes
<1>5. ASSUME NEW p \in Open
      PROVE  OpsOf(peer[p].fd) = 1 \/ (OpsOf(peer[p].fd) = 0 /\ peer[p].end = "told")
  <2>1. p \in Peers /\ peer[p].st = "open" /\ Kept(p)
    BY <1>1, <1>5 DEF Open
  <2>2. PICK fd : fd = peer[p].fd /\ fd # 0
    BY <1>1, <2>1 DEF SockInv, Fine
  <2>3. PICK c : c = cqes \o cq
    OBVIOUS
  <2>4. c \in Seq(EvRecords) /\ EvOnce(c) /\ Lined(c) = Done
    <3>1. \A a \in Lined(cqes), b \in Lined(cq) : EvFd(a) # EvFd(b)
      BY <1>1 DEF OneEach
    <3> QED
      BY <1>1, <2>3, <3>1, OncePlace DEF Done
  <2>5. PICK A, B, C : /\ A = { o \in running : o.op # "accept" /\ o.fd = fd }
                       /\ B = { i \in DOMAIN sq : sq[i].op # "accept" /\ sq[i].fd = fd }
                       /\ C = { i \in DOMAIN c : EvFd(c[i]) = fd }
    OBVIOUS
  <2>6. OpsOf(fd) = Cardinality(A) + Cardinality(B) + Cardinality(C)
    BY <2>3, <2>5 DEF OpsOf, EvFd
  <2>7. DOMAIN sq = 1..Len(sq) /\ DOMAIN c = 1..Len(c)
    BY <1>1, <2>4
  <2>8. /\ \A x, y \in A : x = y
        /\ \A x, y \in B : x = y
        /\ \A x, y \in C : x = y
    <3>1. \A x, y \in A : x = y
      BY <1>1, <2>2, <2>5 DEF OneEach
    <3>2. \A x, y \in B : x = y
      BY <1>1, <2>2, <2>5, <2>7 DEF OpOnce
    <3>3. \A x, y \in C : x = y
      BY <2>4, <2>5, <2>7 DEF EvOnce
    <3> QED
      BY <3>1, <3>2, <3>3
  <2>9. /\ A # {} => \E o \in running : o.fd = fd
        /\ B # {} => \E o \in Lined(sq) : o.fd = fd
        /\ C # {} => \E e \in Done : EvFd(e) = fd
    <3>1. C # {} => \E e \in Lined(c) : EvFd(e) = fd
      BY <2>5, <2>7 DEF Lined
    <3>2. B # {} => \E o \in Lined(sq) : o.fd = fd
      BY <2>5, <2>7 DEF Lined
    <3> QED
      BY <2>4, <2>5, <3>1, <3>2
  <2>10. /\ ~(A # {} /\ B # {}) /\ ~(A # {} /\ C # {}) /\ ~(B # {} /\ C # {})
    BY <1>1, <2>2, <2>9 DEF OneEach, Asked
  <2>11. A # {} \/ B # {} \/ C # {} \/ peer[p].end = "told"
    <3>1. ASSUME NEW o \in Asked, o.fd = fd PROVE A # {} \/ B # {}
      <4>1. o.op # "accept"
        BY <1>1, <2>2, <3>1 DEF Owned
      <4>2. CASE o \in running
        BY <2>5, <3>1, <4>1, <4>2
      <4>3. CASE o \in Lined(sq)
        <5>1. PICK i \in 1..Len(sq) : o = sq[i]
          BY <4>3 DEF Lined
        <5>2. i \in B
          BY <2>5, <2>7, <3>1, <4>1, <5>1
        <5> QED
          BY <5>2
      <4> QED
        BY <4>2, <4>3 DEF Asked
    <3>2. ASSUME NEW e \in Done, EvFd(e) = fd PROVE C # {}
      <4>1. PICK i \in 1..Len(c) : e = c[i]
        BY <2>4 DEF Lined
      <4>2. i \in C
        BY <2>5, <2>7, <3>2, <4>1
      <4> QED
        BY <4>2
    <3> QED
      BY <2>1, <2>2, <3>1, <3>2 DEF Kept
  <2>12. /\ Cardinality(A) = IF A = {} THEN 0 ELSE 1
         /\ Cardinality(B) = IF B = {} THEN 0 ELSE 1
         /\ Cardinality(C) = IF C = {} THEN 0 ELSE 1
    BY ONLY <2>8, AtMostOne
  <2>13. OpsOf(fd) = 1 \/ (OpsOf(fd) = 0 /\ peer[p].end = "told")
    <3>1. 0 + 0 + 0 = 0 /\ 1 + 0 + 0 = 1 /\ 0 + 1 + 0 = 1 /\ 0 + 0 + 1 = 1
      OBVIOUS
    <3> QED
      BY ONLY <2>6, <2>10, <2>11, <2>12, <3>1
  <2> QED
    BY <2>2, <2>13
<1> QED
  BY <1>2, <1>3, <1>4, <1>5 DEF UringSound, OneOpEach, EchoesAlone, NeverMoreThanSent, Alone

\* The echo server on io_uring: each open connection has one operation between the two rings
\* or none after its receive failed, a client that is alone gets what it sent in order, and
\* none gets more than it sent (uring_tcp_server.c:105-145).
THEOREM UringEchoesAreSound ==
  UringInit /\ prog = "uring" /\ [][UringNext]_uringVars => []UringSound
<1>1. UringInit /\ prog = "uring" => UringInv
  BY UringInit_Inv
<1>2. UringInv /\ [UringNext]_uringVars => UringInv'
  BY UringNext_Inv
<1>3. UringInv => UringSound
  BY UringInvSound
<1> QED
  BY <1>1, <1>2, <1>3, PTL
=============================================================================
