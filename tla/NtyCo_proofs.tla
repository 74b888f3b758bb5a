---------------------------- MODULE NtyCo_proofs ----------------------------
(***************************************************************************)
(* The coroutines of NtyCo, for any clients, descriptors and processes: a  *)
(* coroutine is in the ready queue, in the waiting tree or resumed, never  *)
(* in two of them and never in none, and works on its own descriptor.      *)
(*                                                                         *)
(* The stack the coroutines share may be torn: what a reader of kv finds   *)
(* where cli_fd was is then any number, and only what the scheduler keeps  *)
(* for itself still holds (the parts of the invariant without ~torn).      *)
(* Where a coroutine is follows from how far it is in its function (pc):   *)
(* Queued, Waits and Resumed say so, and the rest says why it stays so.    *)
(* Events are handled while readers are made, so Batch says that no second *)
(* accept returns before the reader made by the first has started: while   *)
(* the stack is not torn, one cli_fd serves all readers.                   *)
(***************************************************************************)
EXTENDS NtyCo, FiniteSetTheorems, SequenceTheorems, TLAPS

-----------------------------------------------------------------------------
(* The inductive invariant *)

Scheduling == {"ready", "poll", "events"}
Stages == {"none", "new", "lock", "accept", "recv"}
Blocking == {"accept", "recv"}
Given == NtyFds \ {Listen}
Watched == 0..MaxFd
Schedulers ==
    [phase : Phases, running : Coros \cup {NoCo}, ready : Seq(Coros), last : Coros \cup {NoCo},
     waiting : [NtyFds -> Coros \cup {NoCo}], interest : SUBSET (Watched), events : Seq(Watched),
     pc : [Coros -> Stages], fd : [Coros -> NtyFds], arg : [Coros -> Given],
     given : [Coros -> Given], cli_fd : Given, made : 0..MaxReaders,
     spoilt : BOOLEAN, torn : BOOLEAN, owner : [1..MaxFd -> Clients \cup {NoClient}]]
ClientStates ==
    [st : {"off", "open", "gone"}, asked : Nat, got : Nat, fin : BOOLEAN, rst : BOOLEAN]

NtyTyped ==
    /\ setup \in Setups /\ accept_mtx \in {0, 1}
    /\ proc \in [Procs -> Schedulers]
    /\ backlog \in Seq(Clients)
    /\ client \in [Clients -> ClientStates]
    /\ \A c \in Clients : client[c].got <= client[c].asked

\* Only the coroutine of server() locks and accepts, and only the others receive.
Roles(s) ==
    /\ \A k \in Coros : s.pc[k] \in {"lock", "accept"} => k = Server
    /\ s.pc[Server] # "recv"
    /\ \A k \in Coros : k > s.made => s.pc[k] = "none"

\* Who waits for f waits in a call on f, and who is in such a call waits.
Waits(s) ==
    /\ \A f \in NtyFds : s.waiting[f] # NoCo =>
          s.fd[s.waiting[f]] = f /\ s.pc[s.waiting[f]] \in Blocking
    /\ \A k \in Coros : s.pc[k] \in Blocking => s.waiting[s.fd[k]] = k

\* The descriptor a coroutine works on is the one it is to work on.
Works(s) ==
    /\ \A k \in Coros : s.pc[k] = "recv" =>
          s.fd[k] # Listen /\ (~s.torn => s.fd[k] = s.given[k])
    /\ s.pc[Server] = "accept" => s.fd[Server] = Listen
    /\ \A k \in Coros : k > Server /\ s.pc[k] = "new" => s.cli_fd = s.given[k]

\* The ready queue holds, once each, those that are to start or to lock.
Queued(s) ==
    /\ \A i, j \in DOMAIN s.ready : s.ready[i] = s.ready[j] => i = j
    /\ \A i \in DOMAIN s.ready :
          s.pc[s.ready[i]] \in {"new", "lock"} /\ s.ready[i] # s.running
    /\ \A k \in Coros : s.pc[k] \in {"new", "lock"} /\ k # s.running =>
          \E i \in DOMAIN s.ready : s.ready[i] = k

\* Who runs has not returned, and is back from a call while events are handled.
Resumed(s) ==
    s.running # NoCo =>
        /\ s.pc[s.running] # "none"
        /\ s.pc[s.running] \in Blocking => s.phase = "events" /\ s.fd[s.running] \in s.interest

\* The events that are left are different, somebody waits for each, and the one
\* that runs is done with its own; no coroutine is ready before accept returns.
Batch(s) ==
    s.phase = "events" =>
        /\ \A i, j \in DOMAIN s.events : s.events[i] = s.events[j] => i = j
        /\ \A i \in DOMAIN s.events :
             /\ s.events[i] \in s.interest
             /\ s.waiting[s.events[i]] # NoCo
             /\ s.waiting[s.events[i]] # s.running
             /\ s.events[i] = Listen => s.ready = <<>>
        /\ s.running = Server /\ s.pc[Server] = "accept" => s.ready = <<>>

\* No two readers share a descriptor, unless it is -1; the others own theirs, and who
\* has -1 never returns.
Descriptors(s) ==
  ~s.torn =>
    /\ \A k, j \in Coros :
          k > Server /\ s.pc[k] # "none" /\ j > Server /\ s.pc[j] # "none" =>
              (s.given[k] = s.given[j] => s.given[k] = BadFd \/ k = j)
    /\ \A k \in Coros : k > Server /\ s.pc[k] # "none" /\ s.given[k] # BadFd =>
          s.owner[s.given[k]] # NoClient
    /\ \A k \in Coros : k > Server /\ k <= s.made /\ s.given[k] = BadFd => s.pc[k] \in {"new", "recv"}

\* Epoll watches what is open and what somebody waits for.
Polled(s) ==
    /\ s.interest \subseteq Open(s)
    /\ \A f \in s.interest : s.waiting[f] # NoCo
    /\ ~s.torn => \A f \in Watched : s.waiting[f] # NoCo => f \in s.interest

LiveSound(s) ==
    /\ Roles(s) /\ Waits(s) /\ Works(s) /\ Queued(s) /\ Resumed(s) /\ Batch(s)
    /\ Descriptors(s) /\ Polled(s)

Failed(s) ==
    \E k, j \in Coros : /\ k # j
                        /\ s.pc[k] = "recv" /\ s.given[k] = BadFd
                        /\ s.pc[j] = "recv" /\ s.given[j] = BadFd

\* What holds of a process at any time.
Sound(s) ==
    /\ s.arg = s.given
    /\ s.phase # "crashed"
    /\ s.phase = "aborted" => s.torn \/ Failed(s)
    /\ IF s.phase \in Scheduling THEN LiveSound(s) ELSE s.running = NoCo

\* The clients that were accepted, the readers made for them by a process, and that
\* a reader was made for one of them.
Taken == { c \in Clients : client[c].st # "off" /\ \A i \in DOMAIN backlog : backlog[i] # c }
Good(s) == { k \in 1..s.made : s.given[k] # BadFd }
BacklogSound ==
    /\ \A i, j \in DOMAIN backlog : backlog[i] = backlog[j] => i = j
    /\ \A i \in DOMAIN backlog : client[backlog[i]].st # "off"
    /\ \A p \in Procs : Cardinality(Good(proc[p])) <= Cardinality(Taken)

\* The lock, by who is inside.
LockSound ==
    setup.prog = "httpd" =>
        /\ accept_mtx = 0 => \A p \in setup.procs : proc[p].pc[Server] # "accept"
        /\ accept_mtx = 1 => \E p \in setup.procs : \A q \in setup.procs :
                                  proc[q].pc[Server] = "accept" <=> q = p

\* Only kv tears arguments, and its server() never leaves accept.
KvSound ==
    /\ setup.prog # "kv" => \A p \in Procs : ~proc[p].torn
    /\ setup.prog = "kv" =>
         \A p \in Procs : proc[p].phase \in Scheduling /\ proc[p].made > 0 =>
             proc[p].pc[Server] = "accept"

NtyInv ==
    /\ NtyTyped
    /\ \A p \in Procs : Sound(proc[p])
    /\ \A p \in Procs \ setup.procs : proc[p].phase = "off"
    /\ BacklogSound /\ LockSound /\ KvSound

\* The numbers of coroutines and descriptors, as the proofs use them.
LEMMA CoroFacts ==
    /\ Cardinality(Clients) \in Nat /\ MaxFd \in Nat
    /\ MaxReaders = Cardinality(Clients) + 2 /\ MaxReaders \in Nat
    /\ Coros \subseteq Nat /\ Server \in Coros /\ NoCo \notin Coros
    /\ \A k \in Coros : k # Server => k > Server
    /\ NtyFds \subseteq Int /\ Listen \in NtyFds /\ BadFd \in NtyFds /\ BadFd # Listen
    /\ 1..MaxFd \subseteq NtyFds /\ Watched \subseteq NtyFds /\ Listen \in Watched
    /\ Watched = 0..MaxFd
    /\ \A f \in 1..MaxFd : f \in Given /\ f # BadFd /\ f # Listen
    /\ \A f \in Given : f # BadFd => f \in 1..MaxFd
    /\ BadFd \in Given /\ Listen \notin Given /\ Given \subseteq NtyFds
    /\ BadFd \notin Watched
BY NtyAssumption, FS_CardinalityType
   DEF Coros, MaxReaders, Server, NoCo, NtyFds, Listen, BadFd, Given, Watched

\* The invariant holds when the first coroutines are made.
LEMMA NtyInitInv == NtyInit => NtyInv
<1> SUFFICES ASSUME NtyInit PROVE NtyInv
    OBVIOUS
<1> USE CoroFacts
<1>1. /\ Started \in Schedulers
      /\ Started.phase = "ready" /\ Started.running = NoCo /\ Started.ready = <<Server>>
      /\ Started.waiting = [f \in NtyFds |-> NoCo] /\ Started.interest = {}
      /\ Started.pc = [k \in Coros |-> IF k = Server THEN "new" ELSE "none"]
      /\ Started.given = [k \in Coros |-> BadFd] /\ Started.arg = Started.given
      /\ Started.made = 0 /\ Started.torn = FALSE
      BY DEF Started, Schedulers, Phases, Stages
<1>2. Sound(Started)
  <2>1. Roles(Started) /\ Waits(Started) /\ Works(Started) /\ Resumed(Started) /\ Batch(Started)
        BY <1>1 DEF Roles, Waits, Works, Resumed, Batch, Server, Blocking
  <2>2. Queued(Started)
        BY <1>1 DEF Queued, Server, NoCo
  <2>3. Descriptors(Started) /\ Polled(Started)
        BY <1>1 DEF Descriptors, Polled, Server
  <2>4. QED
        BY <1>1, <2>1, <2>2, <2>3 DEF Sound, LiveSound, Scheduling
<1>3. DEFINE off == [Started EXCEPT !.phase = "off"]
<1>4. /\ off \in Schedulers /\ off.phase = "off" /\ off.running = NoCo
      /\ off.arg = off.given
      /\ off.made = 0 /\ off.pc = Started.pc /\ off.torn = FALSE
      BY ZenonT(60), <1>1 DEF Schedulers, Phases
<1>5. Sound(off)
      BY <1>1, <1>4 DEF Sound, Scheduling
<1>6. proc = [p \in Procs |-> IF p \in setup.procs THEN Started ELSE off]
      BY DEF NtyInit
<1>7. NtyTyped
      BY <1>1, <1>4, <1>6 DEF NtyTyped, NtyInit, ClientStates
<1>8. BacklogSound
  <2>1. \A p \in Procs : Good(proc[p]) = {}
        BY <1>1, <1>4, <1>6 DEF Good
  <2>2. IsFiniteSet(Taken) /\ Cardinality(Taken) \in Nat
        BY NtyAssumption, FS_Subset, FS_CardinalityType DEF Taken
  <2>3. \A p \in Procs : Cardinality(Good(proc[p])) <= Cardinality(Taken)
    <3>1. Cardinality({}) = 0
          BY FS_EmptySet
    <3>2. 0 <= Cardinality(Taken)
          BY <2>2
    <3>3. QED
          BY <2>1, <3>1, <3>2
  <2>4. QED
        BY <2>3 DEF BacklogSound, NtyInit
<1>9. LockSound
      BY <1>1, <1>4, <1>6, NtyAssumption DEF LockSound, NtyInit
<1>10. KvSound
      BY <1>1, <1>4, <1>6 DEF KvSound
<1>11. QED
      BY <1>2, <1>4, <1>5, <1>6, <1>7, <1>8, <1>9, <1>10 DEF NtyInv
-----------------------------------------------------------------------------
(* What a coroutine does, as a step of the scheduler of its process *)

\* The first and the rest of a sequence, the last and the rest.
IsRest(q, r) ==
    /\ \A i \in DOMAIN r : i + 1 \in DOMAIN q /\ r[i] = q[i + 1] /\ i \in Nat \ {0}
    /\ \A i \in DOMAIN q : i \in Nat /\ (i # 1 => i - 1 \in DOMAIN r)

\* What TAILQ_FIRST takes and what it leaves.
LEMMA FirstAndRest ==
    ASSUME NEW S, NEW q \in Seq(S), q # <<>>
    PROVE  /\ 1 \in DOMAIN q /\ q[1] \in S /\ Head(q) = q[1]
           /\ Tail(q) \in Seq(S) /\ IsRest(q, Tail(q))
<1>1. Len(q) \in Nat \ {0} /\ DOMAIN q = 1..Len(q) /\ Head(q) = q[1]
      BY LenProperties, EmptySeq
<1>2. 1 \in DOMAIN q /\ q[1] \in S
      BY <1>1, ElementOfSeq
<1>3. /\ Tail(q) \in Seq(S) /\ Len(Tail(q)) = Len(q) - 1
      /\ \A i \in 1..Len(Tail(q)) : Tail(q)[i] = q[i + 1]
      BY HeadTailProperties
<1>4. PICK r : r = Tail(q)
      OBVIOUS
<1>5. /\ r \in Seq(S) /\ DOMAIN r = 1..(Len(q) - 1)
      /\ \A i \in 1..(Len(q) - 1) : r[i] = q[i + 1]
      BY <1>3, <1>4, LenProperties
<1>6. /\ \A i \in DOMAIN r : i + 1 \in DOMAIN q /\ r[i] = q[i + 1] /\ i \in Nat \ {0}
      /\ \A i \in DOMAIN q : i \in Nat /\ (i # 1 => i - 1 \in DOMAIN r)
      BY <1>1, <1>5
<1>7. QED
      BY <1>1, <1>2, <1>4, <1>5, <1>6 DEF IsRest

\* What is taken from the end of the events and what it leaves.
LEMMA LastAndRest ==
    ASSUME NEW S, NEW q \in Seq(S), q # <<>>
    PROVE  \E n \in DOMAIN q : \E r \in Seq(S) :
               /\ Last(q) = q[n] /\ q[n] \in S /\ r = Front(q)
               /\ \A i \in DOMAIN r : i \in DOMAIN q /\ r[i] = q[i] /\ i # n /\ q[i] \in S
<1>1. Len(q) \in Nat \ {0} /\ DOMAIN q = 1..Len(q)
      BY LenProperties, EmptySeq
<1>2. Len(q) \in DOMAIN q /\ \A i \in DOMAIN q : q[i] \in S
      BY <1>1, ElementOfSeq
<1>3. PICK r : r = SubSeq(q, 1, Len(q) - 1)
      OBVIOUS
<1>4. 1 \in 1..(Len(q) + 1) /\ Len(q) - 1 \in (1 - 1)..Len(q)
      BY <1>1
<1>5. /\ r \in Seq(S) /\ Len(r) = Len(q) - 1
      /\ \A i \in 1..(Len(q) - 1) : r[i] = q[i]
      BY <1>1, <1>3, <1>4, SubSeqProperties
<1>6. DOMAIN r = 1..(Len(q) - 1)
      BY <1>5, LenProperties
<1>7. \A i \in DOMAIN r : i \in DOMAIN q /\ r[i] = q[i] /\ i # Len(q) /\ q[i] \in S
      BY <1>1, <1>2, <1>5, <1>6
<1>8. QED
      BY <1>2, <1>3, <1>5, <1>7 DEF Front, Last

\* The ready queue is taken up to the coroutine that was last.
LEMMA PopSound ==
    ASSUME NEW s \in Schedulers, Sound(s), s.phase \in Scheduling, s.running = NoCo,
           s.ready # <<>>, NEW ph \in {"ready", "poll"},
           NEW t, t = [s EXCEPT !.running = Head(s.ready), !.ready = Tail(@), !.phase = ph]
    PROVE  t \in Schedulers /\ Sound(t)
<1> USE CoroFacts
<1>1. /\ 1 \in DOMAIN s.ready /\ s.ready[1] \in Coros /\ Head(s.ready) = s.ready[1]
      /\ Tail(s.ready) \in Seq(Coros) /\ IsRest(s.ready, Tail(s.ready))
      BY FirstAndRest DEF Schedulers
<1>2. PICK r \in Seq(Coros) :
           /\ r = Tail(s.ready)
           /\ \A i \in DOMAIN r :
                i + 1 \in DOMAIN s.ready /\ r[i] = s.ready[i + 1] /\ i \in Nat \ {0}
           /\ \A i \in DOMAIN s.ready : i \in Nat /\ (i # 1 => i - 1 \in DOMAIN r)
      BY <1>1 DEF IsRest
<1>3. /\ t \in Schedulers
      /\ t.phase = ph /\ t.running = s.ready[1] /\ t.ready = r
      /\ t.waiting = s.waiting /\ t.interest = s.interest /\ t.pc = s.pc /\ t.fd = s.fd
      /\ t.arg = s.arg /\ t.given = s.given /\ t.cli_fd = s.cli_fd /\ t.made = s.made /\ t.torn = s.torn
      /\ t.owner = s.owner
      BY <1>1, <1>2 DEF Schedulers, Phases
<1>4. LiveSound(s)
      BY DEF Sound
<1>5. Roles(t) /\ Waits(t) /\ Works(t) /\ Descriptors(t) /\ Polled(t)
      BY <1>3, <1>4 DEF LiveSound, Roles, Waits, Works, Descriptors, Polled, Open
<1>6. /\ \A i \in DOMAIN t.ready :
           i + 1 \in DOMAIN s.ready /\ t.ready[i] = s.ready[i + 1] /\ i \in Nat \ {0}
      /\ \A i \in DOMAIN s.ready : i \in Nat /\ (i # 1 => i - 1 \in DOMAIN t.ready)
      BY <1>2, <1>3
<1>7. t.running = s.ready[1] /\ t.pc = s.pc /\ 1 \in DOMAIN s.ready
      BY <1>1, <1>3
<1>8. Queued(t)
  <2>1. ASSUME NEW i \in DOMAIN t.ready, NEW j \in DOMAIN t.ready, t.ready[i] = t.ready[j]
        PROVE  i = j
    <3>1. i + 1 = j + 1
          BY <1>4, <1>6, <2>1 DEF LiveSound, Queued
    <3>2. QED
          BY <3>1, <1>6
  <2>2. ASSUME NEW i \in DOMAIN t.ready
        PROVE  t.pc[t.ready[i]] \in {"new", "lock"} /\ t.ready[i] # t.running
    <3>1. i + 1 # 1 /\ i + 1 \in DOMAIN s.ready
          BY <1>6
    <3>2. s.pc[s.ready[i + 1]] \in {"new", "lock"} /\ s.ready[i + 1] # s.ready[1]
          BY <1>4, <1>7, <3>1 DEF LiveSound, Queued
    <3>3. QED
          BY <1>6, <1>7, <3>2
  <2>3. ASSUME NEW k \in Coros, t.pc[k] \in {"new", "lock"}, k # t.running
        PROVE  \E i \in DOMAIN t.ready : t.ready[i] = k
    <3>1. PICK i \in DOMAIN s.ready : s.ready[i] = k
          BY <1>4, <1>7, <2>3 DEF LiveSound, Queued
    <3>2. i - 1 \in DOMAIN t.ready /\ (i - 1) + 1 = i
          BY <1>6, <1>7, <2>3, <3>1
    <3>3. t.ready[i - 1] = k
          BY <1>6, <3>1, <3>2
    <3>4. QED
          BY <3>2, <3>3
  <2>4. QED
        BY <2>1, <2>2, <2>3 DEF Queued
<1>9. Resumed(t) /\ Batch(t)
      BY <1>3, <1>4, <1>7 DEF LiveSound, Queued, Resumed, Batch, Blocking
<1>10. QED
      BY <1>3, <1>4, <1>5, <1>8, <1>9 DEF Sound, LiveSound, Scheduling

\* A step that moves no coroutine: a new turn, or epoll that is to be polled.
LEMMA TurnSound ==
    ASSUME NEW s \in Schedulers, Sound(s), s.phase \in Scheduling, s.running = NoCo,
           NEW ph \in {"ready", "poll"}, NEW l \in Coros \cup {NoCo},
           NEW t, t = [s EXCEPT !.phase = ph, !.last = l]
    PROVE  t \in Schedulers /\ Sound(t)
<1>1. /\ t \in Schedulers
      /\ t.phase = ph /\ t.running = NoCo /\ t.ready = s.ready
      /\ t.waiting = s.waiting /\ t.interest = s.interest /\ t.pc = s.pc /\ t.fd = s.fd
      /\ t.arg = s.arg /\ t.given = s.given /\ t.cli_fd = s.cli_fd /\ t.made = s.made /\ t.torn = s.torn
      /\ t.owner = s.owner
      BY DEF Schedulers, Phases
<1>2. LiveSound(s)
      BY DEF Sound
<1>3. LiveSound(t)
      BY <1>1, <1>2
      DEF LiveSound, Roles, Waits, Works, Descriptors, Queued, Resumed, Batch, Polled, Open
<1>4. QED
      BY <1>1, <1>3 DEF Sound, Scheduling

\* The events of a poll come one by one, each for one who waits.
LEMMA PolledSound ==
    ASSUME NEW s \in Schedulers, Sound(s), s.phase \in Scheduling, s.running = NoCo,
           s.ready = <<>>, NEW order \in Seq(s.interest),
           \A i, j \in DOMAIN order : order[i] = order[j] => i = j,
           NEW t, t = [s EXCEPT !.events = order, !.phase = "events"]
    PROVE  t \in Schedulers /\ Sound(t)
<1> USE CoroFacts
<1>1. order \in Seq(Watched)
      BY SeqMonotonic DEF Schedulers
<1>2. /\ t \in Schedulers
      /\ t.phase = "events" /\ t.running = NoCo /\ t.ready = <<>> /\ t.events = order
      /\ t.waiting = s.waiting /\ t.interest = s.interest /\ t.pc = s.pc /\ t.fd = s.fd
      /\ t.arg = s.arg /\ t.given = s.given /\ t.cli_fd = s.cli_fd /\ t.made = s.made /\ t.torn = s.torn
      /\ t.owner = s.owner
      BY <1>1 DEF Schedulers, Phases
<1>3. LiveSound(s)
      BY DEF Sound
<1>4. \A i \in DOMAIN order : order[i] \in s.interest
      BY ElementOfSeq, LenProperties
<1>5. Batch(t)
      BY <1>2, <1>3, <1>4 DEF Batch, LiveSound, Polled
<1>6. LiveSound(t)
      BY <1>2, <1>3, <1>5
      DEF LiveSound, Roles, Waits, Works, Descriptors, Queued, Resumed, Polled, Open
<1>7. QED
      BY <1>2, <1>6 DEF Sound, Scheduling

\* The last event of a batch finds the coroutine that waits for it.
LEMMA EventSound ==
    ASSUME NEW s \in Schedulers, Sound(s), s.phase = "events", s.running = NoCo,
           s.events # <<>>,
           NEW t, t = [s EXCEPT !.running = s.waiting[Last(s.events)], !.events = Front(@),
                                !.spoilt = s.ready # <<>>]
    PROVE  /\ s.waiting[Last(s.events)] # NoCo
           /\ t \in Schedulers /\ Sound(t)
<1>0. s.events \in Seq(Watched)
      BY DEF Schedulers
<1>2. \E n \in DOMAIN s.events : \E r \in Seq(Watched) :
           /\ Last(s.events) = s.events[n] /\ s.events[n] \in Watched /\ r = Front(s.events)
           /\ \A i \in DOMAIN r : i \in DOMAIN s.events /\ r[i] = s.events[i] /\ i # n
                                /\ s.events[i] \in Watched
      BY <1>0, LastAndRest, Zenon
<1>1. PICK n \in DOMAIN s.events, r \in Seq(Watched) :
           /\ Last(s.events) = s.events[n] /\ s.events[n] \in Watched /\ r = Front(s.events)
           /\ \A i \in DOMAIN r : i \in DOMAIN s.events /\ r[i] = s.events[i] /\ i # n
                                /\ s.events[i] \in Watched
      BY <1>2
<1> USE CoroFacts
<1>3. LiveSound(s)
      BY DEF Sound, Scheduling
<1>4. s.waiting[s.events[n]] # NoCo /\ s.waiting[s.events[n]] \in Coros
      BY <1>1, <1>3 DEF LiveSound, Batch, Schedulers
<1>5. /\ t \in Schedulers
      /\ t.phase = "events" /\ t.running = s.waiting[s.events[n]] /\ t.ready = s.ready
      /\ t.events = r
      /\ t.waiting = s.waiting /\ t.interest = s.interest /\ t.pc = s.pc /\ t.fd = s.fd
      /\ t.arg = s.arg /\ t.given = s.given /\ t.cli_fd = s.cli_fd /\ t.made = s.made /\ t.torn = s.torn
      /\ t.owner = s.owner
      BY <1>1, <1>4 DEF Schedulers, Phases
<1>6. /\ s.pc[t.running] \in Blocking /\ s.fd[t.running] = s.events[n]
      /\ s.events[n] \in s.interest
      BY <1>1, <1>3, <1>4, <1>5 DEF LiveSound, Waits, Batch
<1>7. Batch(t)
  <2>1. \A i, j \in DOMAIN t.events : t.events[i] = t.events[j] => i = j
        BY <1>1, <1>3, <1>5 DEF LiveSound, Batch
  <2>2. ASSUME NEW i \in DOMAIN t.events
        PROVE  /\ t.events[i] \in t.interest
               /\ t.waiting[t.events[i]] # NoCo
               /\ t.waiting[t.events[i]] # t.running
               /\ t.events[i] = Listen => t.ready = <<>>
    <3>1. /\ i \in DOMAIN s.events /\ t.events[i] = s.events[i] /\ i # n
          /\ t.events[i] \in Watched
          BY <1>1, <1>5, <2>2
    <3>2. s.events[i] # s.events[n] /\ s.waiting[s.events[i]] # NoCo
          BY <1>1, <1>3, <3>1 DEF LiveSound, Batch
    <3>3. s.fd[s.waiting[s.events[i]]] = s.events[i]
          BY <1>3, <3>1, <3>2 DEF LiveSound, Waits
    <3>4. QED
          BY <1>3, <1>5, <1>6, <3>1, <3>2, <3>3 DEF LiveSound, Batch
  <2>3. t.running = Server /\ t.pc[Server] = "accept" => t.ready = <<>>
        BY <1>1, <1>3, <1>5, <1>6 DEF LiveSound, Batch, Works
  <2>4. QED
        BY <2>1, <2>2, <2>3 DEF Batch
<1>8. Queued(t)
      BY <1>3, <1>5, <1>6 DEF LiveSound, Queued, Blocking
<1>9. Resumed(t)
      BY <1>5, <1>6 DEF Resumed, Blocking
<1>10. LiveSound(t)
      BY <1>3, <1>5, <1>7, <1>8, <1>9
      DEF LiveSound, Roles, Waits, Works, Descriptors, Polled, Open
<1>11. QED
      BY <1>1, <1>4, <1>5, <1>10 DEF Sound, Scheduling

\* What TAILQ_INSERT_TAIL leaves.
LEMMA AppendFacts ==
    ASSUME NEW S, NEW q \in Seq(S), NEW x \in S, NEW r, r = Append(q, x)
    PROVE  /\ r \in Seq(S)
           /\ \E n \in DOMAIN r :
                /\ r[n] = x /\ n \notin DOMAIN q
                /\ \A i \in DOMAIN q : i \in DOMAIN r /\ r[i] = q[i]
                /\ \A i \in DOMAIN r : i = n \/ i \in DOMAIN q
<1>1. /\ r \in Seq(S) /\ Len(r) = Len(q) + 1 /\ \A i \in 1..Len(q) : r[i] = q[i]
      /\ r[Len(q) + 1] = x
      BY AppendProperties
<1>2. Len(q) \in Nat /\ DOMAIN q = 1..Len(q) /\ DOMAIN r = 1..(Len(q) + 1)
      BY <1>1, LenProperties
<1>3. /\ Len(q) + 1 \in DOMAIN r /\ Len(q) + 1 \notin DOMAIN q
      /\ \A i \in DOMAIN q : i \in DOMAIN r /\ r[i] = q[i]
      /\ \A i \in DOMAIN r : i = Len(q) + 1 \/ i \in DOMAIN q
      BY <1>1, <1>2
<1>4. QED
      BY <1>1, <1>3

\* Nobody but server() in accept waits for the listening socket.
LEMMA ListenFree ==
    ASSUME NEW s \in Schedulers, LiveSound(s), s.pc[Server] # "accept"
    PROVE  s.waiting[Listen] = NoCo
<1> USE CoroFacts
<1>1. SUFFICES ASSUME s.waiting[Listen] # NoCo PROVE FALSE
      OBVIOUS
<1>2. s.waiting[Listen] \in Coros
      BY <1>1 DEF Schedulers
<1>3. s.fd[s.waiting[Listen]] = Listen /\ s.pc[s.waiting[Listen]] \in Blocking
      BY <1>1 DEF LiveSound, Waits
<1>4. s.pc[s.waiting[Listen]] = "recv"
      BY <1>2, <1>3 DEF LiveSound, Roles, Blocking
<1>5. QED
      BY <1>2, <1>3, <1>4 DEF LiveSound, Works

\* server() that is not in accept yet goes to wait there.
LEMMA ServerWaitSound ==
    ASSUME NEW s \in Schedulers, Sound(s), s.phase \in Scheduling, s.running = Server,
           s.pc[Server] \in {"new", "lock"}, NEW t \in Schedulers,
           t.pc = [s.pc EXCEPT ![Server] = "accept"], t.running = NoCo,
           t.waiting = [s.waiting EXCEPT ![Listen] = Server],
           t.fd = [s.fd EXCEPT ![Server] = Listen], t.interest = s.interest \cup {Listen},
           t.phase = s.phase, t.ready = s.ready, t.events = s.events,
           t.arg = s.arg, t.given = s.given, t.cli_fd = s.cli_fd,
           t.made = s.made, t.torn = s.torn, t.owner = s.owner
    PROVE  Sound(t)
<1> USE CoroFacts
<1>1. LiveSound(s)
      BY DEF Sound
<1>2. s.waiting[Listen] = NoCo
      BY <1>1, ListenFree
<1>3. Roles(t)
      BY <1>1 DEF LiveSound, Roles, Schedulers
<1>4. Waits(t)
  <2>1. ASSUME NEW f \in NtyFds, t.waiting[f] # NoCo
        PROVE  t.fd[t.waiting[f]] = f /\ t.pc[t.waiting[f]] \in Blocking
    <3>1. CASE f = Listen
          BY <3>1 DEF Schedulers, Blocking
    <3>2. CASE f # Listen
      <4>1. /\ t.waiting[f] = s.waiting[f] /\ s.waiting[f] \in Coros
            /\ s.fd[s.waiting[f]] = f /\ s.pc[s.waiting[f]] \in Blocking
            BY <1>1, <2>1, <3>2 DEF LiveSound, Waits, Schedulers
      <4>2. s.waiting[f] # Server
            BY <4>1 DEF Blocking
      <4>3. QED
            BY <4>1, <4>2 DEF Schedulers
    <3>3. QED
          BY <3>1, <3>2
  <2>2. ASSUME NEW k \in Coros, t.pc[k] \in Blocking
        PROVE  t.waiting[t.fd[k]] = k
    <3>1. CASE k = Server
          BY <3>1 DEF Schedulers
    <3>2. CASE k # Server
      <4>1. /\ s.fd[k] = t.fd[k] /\ s.waiting[s.fd[k]] = k /\ s.fd[k] \in NtyFds
            BY <1>1, <2>2, <3>2 DEF LiveSound, Waits, Schedulers
      <4>2. s.fd[k] # Listen
            BY <1>2, <4>1
      <4>3. QED
            BY <4>1, <4>2 DEF Schedulers
    <3>3. QED
          BY <3>1, <3>2
  <2>3. QED
        BY <2>1, <2>2 DEF Waits
<1>5. Works(t)
      BY <1>1 DEF LiveSound, Works, Schedulers
<1>6. Queued(t)
  <2>1. \A i \in DOMAIN s.ready : s.ready[i] \in Coros /\ s.ready[i] # Server
        BY <1>1, ElementOfSeq, LenProperties DEF LiveSound, Queued, Schedulers
  <2>2. QED
        BY <1>1, <2>1 DEF LiveSound, Queued, Schedulers
<1>7. Resumed(t)
      BY DEF Resumed
<1>8. Batch(t)
      BY <1>1, ElementOfSeq, LenProperties DEF LiveSound, Batch, Schedulers
<1>9. Descriptors(t)
      BY <1>1 DEF LiveSound, Descriptors, Schedulers
<1>10. Polled(t)
  <2>1. /\ t.waiting[Listen] = Server /\ Server # NoCo
        /\ \A f \in NtyFds : f # Listen => t.waiting[f] = s.waiting[f]
        BY DEF Schedulers
  <2>2. QED
        BY <1>1, <2>1 DEF LiveSound, Polled, Open, Schedulers
<1>11. QED
      BY <1>3, <1>4, <1>5, <1>6, <1>7, <1>8, <1>9, <1>10 DEF Sound, LiveSound, Scheduling

\* server() that is to lock first.
LEMMA ServerLockSound ==
    ASSUME NEW s \in Schedulers, Sound(s), s.phase \in Scheduling, s.running = Server,
           s.pc[Server] = "new", NEW t \in Schedulers,
           t.pc = [s.pc EXCEPT ![Server] = "lock"],
           t.phase = s.phase, t.running = s.running, t.ready = s.ready,
           t.waiting = s.waiting, t.interest = s.interest,
           t.events = s.events, t.fd = s.fd, t.arg = s.arg,
           t.given = s.given, t.cli_fd = s.cli_fd, t.made = s.made, t.torn = s.torn,
           t.owner = s.owner
    PROVE  Sound(t)
<1> USE CoroFacts
<1>1. LiveSound(s)
      BY DEF Sound
<1>2. \A k \in Coros : k # Server => t.pc[k] = s.pc[k]
      BY DEF Schedulers
<1>3. t.pc[Server] = "lock"
      BY DEF Schedulers
<1>4. Roles(t) /\ Works(t) /\ Resumed(t)
      BY <1>1, <1>2, <1>3 DEF LiveSound, Roles, Works, Resumed, Blocking
<1>5. Waits(t)
      BY <1>1, <1>2, <1>3 DEF LiveSound, Waits, Blocking, Schedulers
<1>6. Queued(t)
  <2>1. \A i \in DOMAIN s.ready : s.ready[i] \in Coros /\ s.ready[i] # Server
        BY <1>1, ElementOfSeq, LenProperties DEF LiveSound, Queued, Schedulers
  <2>2. QED
        BY <1>1, <1>2, <1>3, <2>1 DEF LiveSound, Queued
<1>7. Batch(t)
      BY <1>1, <1>3 DEF LiveSound, Batch
<1>8. Descriptors(t) /\ Polled(t)
      BY <1>1, <1>2 DEF LiveSound, Descriptors, Polled, Open
<1>9. QED
      BY <1>4, <1>5, <1>6, <1>7, <1>8 DEF Sound, LiveSound, Scheduling

\* server() that finds the lock taken and goes to sleep for no time.
LEMMA ServerYieldSound ==
    ASSUME NEW s \in Schedulers, Sound(s), s.phase \in Scheduling, s.running = Server,
           s.pc[Server] = "lock", NEW t \in Schedulers,
           t.ready = Append(s.ready, Server), t.running = NoCo,
           t.phase = s.phase, t.waiting = s.waiting, t.interest = s.interest,
           t.events = s.events, t.pc = s.pc, t.fd = s.fd, t.arg = s.arg,
           t.given = s.given, t.cli_fd = s.cli_fd, t.made = s.made, t.torn = s.torn,
           t.owner = s.owner
    PROVE  Sound(t)
<1>0. s.ready \in Seq(Coros) /\ Server \in Coros
      BY CoroFacts DEF Schedulers
<1>1. PICK n \in DOMAIN t.ready :
           /\ t.ready[n] = Server /\ n \notin DOMAIN s.ready
           /\ \A i \in DOMAIN s.ready : i \in DOMAIN t.ready /\ t.ready[i] = s.ready[i]
           /\ \A i \in DOMAIN t.ready : i = n \/ i \in DOMAIN s.ready
      BY SMTT(30), <1>0, AppendFacts
<1> USE CoroFacts
<1>2. LiveSound(s)
      BY DEF Sound
<1>3. s.waiting[Listen] = NoCo
      BY <1>2, ListenFree
<1>4. Roles(t) /\ Waits(t) /\ Works(t) /\ Resumed(t) /\ Descriptors(t) /\ Polled(t)
      BY <1>2 DEF LiveSound, Roles, Waits, Works, Resumed, Descriptors, Polled, Open
<1>5. /\ \A i \in DOMAIN s.ready : s.ready[i] # Server /\ s.pc[s.ready[i]] \in {"new", "lock"}
      /\ \A i, j \in DOMAIN s.ready : s.ready[i] = s.ready[j] => i = j
      /\ \A k \in Coros : s.pc[k] \in {"new", "lock"} /\ k # Server =>
            \E i \in DOMAIN s.ready : s.ready[i] = k
      BY <1>2 DEF LiveSound, Queued
<1>6. \A i \in DOMAIN s.ready : s.ready[i] \in Coros
      BY ElementOfSeq, LenProperties DEF Schedulers
<1>7. Queued(t)
      BY SMTT(30), <1>1, <1>5, <1>6 DEF Queued
<1>8. Batch(t)
      BY <1>2, <1>3 DEF LiveSound, Batch
<1>9. QED
      BY <1>4, <1>7, <1>8 DEF Sound, LiveSound, Scheduling

\* A reader that starts waits for the descriptor it was made for; if somebody waits
\* for it already, that is -1 and the other one too was made when accept failed.
LEMMA ReaderWaitsSound ==
    ASSUME NEW s \in Schedulers, Sound(s), s.phase \in Scheduling,
           NEW k \in Coros, k > Server, s.running = k, s.pc[k] = "new",
           NEW f \in NtyFds, f # Listen, s.waiting[f] = NoCo, NEW t \in Schedulers,
           t.torn \/ (~s.torn /\ f = s.given[k]),
           t.pc = [s.pc EXCEPT ![k] = "recv"], t.running = NoCo,
           t.waiting = [s.waiting EXCEPT ![f] = k], t.fd = [s.fd EXCEPT ![k] = f],
           t.interest = s.interest \cup ({f} \cap Open(s)),
           t.phase = s.phase, t.ready = s.ready, t.events = s.events, t.arg = s.arg,
           t.given = s.given, t.cli_fd = s.cli_fd, t.made = s.made, t.owner = s.owner
    PROVE  Sound(t)
<1> USE CoroFacts
<1>0. k # Server
      BY DEF Server
<1>1. LiveSound(s)
      BY DEF Sound
<1>2. /\ t.pc[k] = "recv" /\ t.fd[k] = f /\ t.waiting[f] = k
      /\ \A j \in Coros : j # k => t.pc[j] = s.pc[j] /\ t.fd[j] = s.fd[j]
      /\ \A g \in NtyFds : g # f => t.waiting[g] = s.waiting[g]
      BY <1>0 DEF Schedulers
<1>3. Roles(t)
      BY <1>0, <1>1, <1>2 DEF LiveSound, Roles
<1>4. Waits(t)
  <2>1. ASSUME NEW g \in NtyFds, t.waiting[g] # NoCo
        PROVE  t.fd[t.waiting[g]] = g /\ t.pc[t.waiting[g]] \in Blocking
    <3>1. CASE g = f
          BY <3>1, <1>2 DEF Blocking
    <3>2. CASE g # f
      <4>1. /\ t.waiting[g] = s.waiting[g] /\ s.waiting[g] \in Coros
            /\ s.fd[s.waiting[g]] = g /\ s.pc[s.waiting[g]] \in Blocking
            BY <1>1, <1>2, <2>1, <3>2 DEF LiveSound, Waits, Schedulers
      <4>2. s.waiting[g] # k
            BY <4>1 DEF Blocking
      <4>3. QED
            BY <1>2, <4>1, <4>2
    <3>3. QED
          BY <3>1, <3>2
  <2>2. ASSUME NEW j \in Coros, t.pc[j] \in Blocking
        PROVE  t.waiting[t.fd[j]] = j
    <3>1. CASE j = k
          BY <1>2, <3>1
    <3>2. CASE j # k
      <4>1. s.fd[j] = t.fd[j] /\ s.waiting[s.fd[j]] = j /\ s.fd[j] \in NtyFds
            BY <1>1, <1>2, <2>2, <3>2 DEF LiveSound, Waits, Schedulers
      <4>2. s.fd[j] # f
            BY <4>1
      <4>3. QED
            BY <1>2, <4>1, <4>2
    <3>3. QED
          BY <3>1, <3>2
  <2>3. QED
        BY <2>1, <2>2 DEF Waits
<1>5. Works(t)
  <2>1. ~t.torn => ~s.torn /\ f = s.given[k]
        OBVIOUS
  <2>2. Works(s) /\ t.given = s.given /\ t.cli_fd = s.cli_fd
        BY <1>1 DEF LiveSound
  <2>3. ASSUME NEW j \in Coros, t.pc[j] = "recv"
        PROVE  t.fd[j] # Listen /\ (~t.torn => t.fd[j] = t.given[j])
    <3>1. CASE j = k
          BY <1>2, <2>1, <2>2, <3>1
    <3>2. CASE j # k
          BY <1>2, <2>1, <2>2, <2>3, <3>2 DEF Works
    <3>3. QED
          BY <3>1, <3>2
  <2>4. t.pc[Server] = "accept" => t.fd[Server] = Listen
        BY <1>0, <1>2, <2>2 DEF Works
  <2>5. \A j \in Coros : j > Server /\ t.pc[j] = "new" => t.cli_fd = t.given[j]
        BY <1>2, <2>2 DEF Works
  <2>6. QED
        BY <2>3, <2>4, <2>5 DEF Works
<1>6. Queued(t)
  <2>1. \A i \in DOMAIN s.ready : s.ready[i] \in Coros /\ s.ready[i] # k
        BY <1>1, ElementOfSeq, LenProperties DEF LiveSound, Queued, Schedulers
  <2>2. QED
        BY <1>1, <1>2, <2>1 DEF LiveSound, Queued
<1>7. Resumed(t)
      BY DEF Resumed
<1>8. Batch(t)
  <2>1. \A i \in DOMAIN s.events : s.events[i] \in NtyFds
        BY ElementOfSeq, LenProperties DEF Schedulers
  <2>2. QED
        BY <1>1, <1>2, <2>1 DEF LiveSound, Batch
<1>9. Descriptors(t)
      BY <1>1, <1>2 DEF LiveSound, Descriptors
<1>10. Polled(t)
  <2>1. Open(t) = Open(s) /\ k # NoCo
        BY DEF Open
  <2>2. ~t.torn /\ f \in Watched => f \in Open(s)
    <3>1. SUFFICES ASSUME ~t.torn, f \in Watched PROVE f \in Open(s)
          OBVIOUS
    <3>2. s.owner[f] # NoClient /\ f \in 1..MaxFd
          BY <1>1, <3>1 DEF LiveSound, Descriptors
    <3>3. QED
          BY <3>2 DEF Open
  <2>3. QED
        BY <1>1, <1>2, <2>1, <2>2 DEF LiveSound, Polled
<1>11. QED
      BY <1>3, <1>4, <1>5, <1>6, <1>7, <1>8, <1>9, <1>10 DEF Sound, LiveSound, Scheduling

\* A reader that finds another one waiting fails the assertion.
LEMMA ReaderAbortsSound ==
    ASSUME NEW s \in Schedulers, Sound(s), s.phase \in Scheduling,
           NEW k \in Coros, k > Server, s.running = k, s.pc[k] = "new",
           NEW f \in NtyFds, s.waiting[f] # NoCo, NEW t \in Schedulers,
           t.torn \/ (~s.torn /\ f = s.given[k]),
           t.pc = [s.pc EXCEPT ![k] = "recv"], t.running = NoCo, t.phase = "aborted",
           t.waiting = s.waiting, t.arg = s.arg, t.given = s.given
    PROVE  Sound(t)
<1>a. CASE t.torn
      BY <1>a DEF Sound, Scheduling
<1>b. CASE ~s.torn /\ f = s.given[k]
  <2>0. /\ f \in Given /\ k # Server /\ f # Listen /\ NoCo \notin Coros
        /\ \A j \in Coros : j # Server => j > Server
    <3>1. s.given[k] \in Given
          BY DEF Schedulers
    <3>2. QED
          BY <1>b, <3>1, CoroFacts DEF Server
  <2>1. LiveSound(s)
        BY DEF Sound
  <2>2. PICK j \in Coros : j = s.waiting[f]
        BY ZenonT(60) DEF Schedulers
  <2>3. s.fd[j] = f /\ s.pc[j] \in Blocking
        BY <2>1, <2>2 DEF LiveSound, Waits
  <2>4. s.pc[j] = "recv" /\ j # Server
    <3>1. s.pc[j] = "recv" \/ j = Server
          BY <2>1, <2>3 DEF LiveSound, Roles, Blocking
    <3>2. s.pc[Server] # "recv" /\ (s.pc[Server] = "accept" => s.fd[Server] = Listen)
          BY <2>1 DEF LiveSound, Roles, Works
    <3>3. QED
          BY <2>0, <2>3, <3>1, <3>2 DEF Blocking
  <2>5. s.given[j] = f /\ j # k /\ j > Server
    <3>1. s.fd[j] = s.given[j]
          BY <1>b, <2>1, <2>4 DEF LiveSound, Works
    <3>2. QED
          BY <2>0, <2>3, <2>4, <3>1
  <2>6. f = BadFd
    <3>1. \A m, n \in Coros :
             m > Server /\ s.pc[m] # "none" /\ n > Server /\ s.pc[n] # "none" =>
                 (s.given[m] = s.given[n] => s.given[m] = BadFd \/ m = n)
          BY <1>b, <2>1 DEF LiveSound, Descriptors
    <3>2. s.pc[k] # "none" /\ s.pc[j] # "none" /\ s.given[k] = s.given[j]
          BY <1>b, <2>4, <2>5
    <3>3. QED
          BY <2>5, <3>1, <3>2
  <2>7. t.pc[k] = "recv" /\ t.pc[j] = "recv"
        BY <2>4, <2>5 DEF Schedulers
  <2>8. t.given[k] = BadFd /\ t.given[j] = BadFd
        BY <1>b, <2>5, <2>6
  <2>9. Failed(t)
        BY ZenonT(60), <2>5, <2>7, <2>8 DEF Failed
  <2>10. QED
        BY <2>9 DEF Sound, Scheduling
<1>c. QED
      BY <1>a, <1>b

\* A reader that calls recv again waits as it did before the event.
LEMMA ReaderAgainSound ==
    ASSUME NEW s \in Schedulers, Sound(s), s.phase \in Scheduling,
           NEW k \in Coros, s.running = k, s.pc[k] = "recv", NEW t \in Schedulers,
           t.running = NoCo,
           t.phase = s.phase, t.ready = s.ready, t.waiting = s.waiting,
           t.interest = s.interest, t.events = s.events, t.pc = s.pc, t.fd = s.fd,
           t.arg = s.arg, t.given = s.given, t.cli_fd = s.cli_fd, t.made = s.made, t.torn = s.torn,
           t.owner = s.owner
    PROVE  Sound(t)
<1> USE CoroFacts
<1>1. LiveSound(s)
      BY DEF Sound
<1>2. Roles(t) /\ Waits(t) /\ Works(t) /\ Resumed(t) /\ Descriptors(t) /\ Polled(t)
      BY <1>1 DEF LiveSound, Roles, Waits, Works, Resumed, Descriptors, Polled, Open
<1>3. Queued(t)
  <2>1. \A i \in DOMAIN s.ready : s.ready[i] \in Coros
        BY ElementOfSeq, LenProperties DEF Schedulers
  <2>2. QED
        BY <1>1, <2>1 DEF LiveSound, Queued
<1>4. Batch(t)
      BY <1>1 DEF LiveSound, Batch
<1>5. QED
      BY <1>2, <1>3, <1>4 DEF Sound, LiveSound, Scheduling

\* A reader that closes leaves its descriptor to nobody.
LEMMA ReaderEndsSound ==
    ASSUME NEW s \in Schedulers, Sound(s), s.phase \in Scheduling,
           NEW k \in Coros, k > Server, s.running = k, s.pc[k] = "recv",
           NEW f \in 1..MaxFd, f = s.fd[k], NEW t \in Schedulers,
           t.pc = [s.pc EXCEPT ![k] = "none"], t.running = NoCo,
           t.waiting = [s.waiting EXCEPT ![f] = NoCo], t.fd = [s.fd EXCEPT ![k] = BadFd],
           t.interest = s.interest \ {f}, t.owner = [s.owner EXCEPT ![f] = NoClient],
           t.phase = s.phase, t.ready = s.ready, t.events = s.events, t.arg = s.arg,
           t.given = s.given, t.cli_fd = s.cli_fd, t.made = s.made, t.torn = s.torn
    PROVE  Sound(t)
<1> USE CoroFacts
<1>0. f \in NtyFds /\ k # Server /\ f # Listen /\ f # BadFd
      BY DEF Server
<1>1. LiveSound(s)
      BY DEF Sound
<1>2. /\ t.pc[k] = "none" /\ t.waiting[f] = NoCo
      /\ \A j \in Coros : j # k => t.pc[j] = s.pc[j] /\ t.fd[j] = s.fd[j]
      /\ \A g \in NtyFds : g # f => t.waiting[g] = s.waiting[g]
      /\ \A g \in 1..MaxFd : g # f => t.owner[g] = s.owner[g]
      BY <1>0 DEF Schedulers
<1>3. s.waiting[f] = k /\ (~s.torn => s.given[k] = f) /\ s.phase = "events"
      BY <1>1 DEF LiveSound, Waits, Works, Resumed, Blocking
<1>4. Roles(t)
      BY <1>0, <1>1, <1>2 DEF LiveSound, Roles
<1>5. Waits(t)
  <2>1. ASSUME NEW g \in NtyFds, t.waiting[g] # NoCo
        PROVE  t.fd[t.waiting[g]] = g /\ t.pc[t.waiting[g]] \in Blocking
    <3>1. /\ g # f /\ t.waiting[g] = s.waiting[g] /\ s.waiting[g] \in Coros
          /\ s.fd[s.waiting[g]] = g /\ s.pc[s.waiting[g]] \in Blocking
          BY <1>1, <1>2, <2>1 DEF LiveSound, Waits, Schedulers
    <3>2. s.waiting[g] # k
          BY <3>1
    <3>3. QED
          BY <1>2, <3>1, <3>2
  <2>2. ASSUME NEW j \in Coros, t.pc[j] \in Blocking
        PROVE  t.waiting[t.fd[j]] = j
    <3>1. j # k
          BY <1>2, <2>2 DEF Blocking
    <3>2. s.fd[j] = t.fd[j] /\ s.waiting[s.fd[j]] = j /\ s.fd[j] \in NtyFds
          BY <1>1, <1>2, <2>2, <3>1 DEF LiveSound, Waits, Schedulers
    <3>3. s.fd[j] # f
          BY <1>3, <3>1, <3>2
    <3>4. QED
          BY <1>2, <3>2, <3>3
  <2>3. QED
        BY <2>1, <2>2 DEF Waits
<1>6. Works(t)
      BY <1>0, <1>1, <1>2 DEF LiveSound, Works
<1>7. Queued(t)
  <2>1. \A i \in DOMAIN s.ready : s.ready[i] \in Coros /\ s.ready[i] # k
        BY <1>1, ElementOfSeq, LenProperties DEF LiveSound, Queued, Schedulers
  <2>2. QED
        BY <1>1, <1>2, <2>1 DEF LiveSound, Queued
<1>8. Resumed(t)
      BY DEF Resumed
<1>9. Batch(t)
  <2>1. \A i \in DOMAIN s.events : s.events[i] \in NtyFds
        BY ElementOfSeq, LenProperties DEF Schedulers
  <2>2. \A i \in DOMAIN s.events : s.events[i] # f
        BY <1>1, <1>3 DEF LiveSound, Batch
  <2>3. QED
        BY <1>1, <1>2, <2>1, <2>2 DEF LiveSound, Batch
<1>10. Descriptors(t)
  <2>1. ASSUME ~s.torn, NEW j \in Coros, j > Server, t.pc[j] # "none", t.given[j] # BadFd
        PROVE  t.owner[t.given[j]] # NoClient
    <3>1. j # k /\ s.pc[j] # "none" /\ s.owner[s.given[j]] # NoClient
          BY <1>1, <1>2, <2>1 DEF LiveSound, Descriptors
    <3>2. s.given[j] # f
          BY <1>0, <1>1, <1>3, <3>1, <2>1 DEF LiveSound, Descriptors
    <3>3. s.given[j] \in 1..MaxFd
          BY <2>1 DEF Schedulers
    <3>4. QED
          BY <1>2, <3>1, <3>2, <3>3
  <2>2. QED
        BY SMTT(30), <1>0, <1>1, <1>2, <1>3, <2>1 DEF LiveSound, Descriptors
<1>11. Polled(t)
      BY <1>0, <1>1, <1>2 DEF LiveSound, Polled, Open
<1>12. QED
      BY <1>4, <1>5, <1>6, <1>7, <1>8, <1>9, <1>10, <1>11 DEF Sound, LiveSound, Scheduling

\* What the three outcomes of accept have in common: server() alone was ready to go
\* on, and with a new coroutine the readers keep different descriptors.
LEMMA AcceptCommon ==
    ASSUME NEW s \in Schedulers, Sound(s), s.phase \in Scheduling, s.running = Server,
           s.pc[Server] = "accept"
    PROVE  /\ s.phase = "events" /\ s.ready = <<>> /\ s.waiting[Listen] = Server
           /\ s.fd[Server] = Listen /\ Listen \in s.interest
           /\ \A j \in Coros : s.pc[j] \notin {"new", "lock"}
           /\ \A i \in DOMAIN s.events : s.events[i] \in NtyFds /\ s.events[i] # Listen
<1> USE CoroFacts
<1>1. LiveSound(s)
      BY DEF Sound
<1>2. s.phase = "events" /\ s.fd[Server] = Listen /\ Listen \in s.interest
      BY <1>1 DEF LiveSound, Resumed, Works, Blocking, NoCo, Server
<1>3. s.ready = <<>> /\ s.waiting[Listen] = Server
      BY <1>1, <1>2 DEF LiveSound, Batch, Waits, Blocking
<1>4. \A j \in Coros : s.pc[j] \notin {"new", "lock"}
      BY <1>1, <1>3 DEF LiveSound, Queued
<1>5. \A i \in DOMAIN s.events : s.events[i] \in NtyFds
      BY ElementOfSeq, LenProperties DEF Schedulers
<1>6. \A i \in DOMAIN s.events : s.events[i] # Listen
      BY <1>1, <1>2, <1>3 DEF LiveSound, Batch
<1>7. QED
      BY <1>2, <1>3, <1>4, <1>5, <1>6

\* The reader k made for the descriptor v; o says who owns which.
Makes(s, t, k, v) ==
    /\ t.made = k /\ t.ready = <<k>> /\ t.cli_fd = v
    /\ t.given = [s.given EXCEPT ![k] = v] /\ t.arg = [s.arg EXCEPT ![k] = v]
    /\ \/ v = BadFd /\ t.owner = s.owner
       \/ /\ v \in 1..MaxFd /\ s.owner[v] = NoClient
          /\ \E c \in Clients : t.owner = [s.owner EXCEPT ![v] = c]

Made(s, t, k, v, stage) ==
    /\ Makes(s, t, k, v)
    /\ t.pc = [[s.pc EXCEPT ![k] = "new"] EXCEPT ![Server] = stage]
    /\ t.running = IF stage = "lock" THEN Server ELSE NoCo
    /\ t.waiting = [s.waiting EXCEPT ![Listen] = IF stage = "lock" THEN NoCo ELSE Server]
    /\ t.interest = IF stage = "lock" THEN s.interest \ {Listen} ELSE s.interest
    /\ t.phase = s.phase /\ t.events = s.events /\ t.fd = s.fd /\ t.torn = s.torn

\* A process whose accept made one reader more is sound.
LEMMA MadeSound ==
    ASSUME NEW s \in Schedulers, Sound(s), s.phase \in Scheduling, s.running = Server,
           s.pc[Server] = "accept", NEW v \in Given, NEW k \in Coros, k = s.made + 1,
           NEW t \in Schedulers, NEW stage \in {"accept", "lock"}, Made(s, t, k, v, stage)
    PROVE  Sound(t)
<1> SUFFICES ASSUME
           Makes(s, t, k, v),
           t.pc = [[s.pc EXCEPT ![k] = "new"] EXCEPT ![Server] = stage],
           t.running = IF stage = "lock" THEN Server ELSE NoCo,
           t.waiting = [s.waiting EXCEPT ![Listen] = IF stage = "lock" THEN NoCo ELSE Server],
           t.interest = IF stage = "lock" THEN s.interest \ {Listen} ELSE s.interest,
           t.phase = s.phase, t.events = s.events, t.fd = s.fd, t.torn = s.torn
             PROVE  Sound(t)
    BY DEF Made
<1> USE CoroFacts
<1>1. LiveSound(s)
      BY DEF Sound
<1>2. /\ s.phase = "events" /\ s.ready = <<>> /\ s.waiting[Listen] = Server
      /\ s.fd[Server] = Listen /\ Listen \in s.interest
      /\ \A j \in Coros : s.pc[j] \notin {"new", "lock"}
      /\ \A i \in DOMAIN s.events : s.events[i] \in NtyFds /\ s.events[i] # Listen
      BY AcceptCommon
<1>3. k # Server /\ k > Server /\ s.made \in Nat /\ s.pc[k] = "none"
      BY <1>1 DEF Schedulers, Server, LiveSound, Roles
<1>4. /\ t.pc[k] = "new" /\ t.pc[Server] = stage
      /\ \A j \in Coros : j # k /\ j # Server => t.pc[j] = s.pc[j]
      BY <1>3 DEF Schedulers
<1>5. /\ t.given[k] = v /\ t.arg = t.given /\ t.cli_fd = v /\ t.made = k /\ t.ready = <<k>>
      /\ \A j \in Coros : j # k => t.given[j] = s.given[j]
      BY DEF Sound, Makes, Schedulers
<1>6. /\ t.waiting[Listen] = (IF stage = "lock" THEN NoCo ELSE Server)
      /\ \A g \in NtyFds : g # Listen => t.waiting[g] = s.waiting[g]
      BY DEF Schedulers
<1>7. Roles(t)
  <2>1. \A j \in Coros : j # k /\ j # Server =>
            t.pc[j] \notin {"lock", "accept"} /\ (j > s.made => t.pc[j] = "none")
        BY <1>1, <1>4 DEF LiveSound, Roles
  <2>2. \A j \in Coros : j > k => j # k /\ j # Server /\ j > s.made
        BY <1>3
  <2>3. t.pc[k] \notin {"lock", "accept"} /\ t.pc[Server] # "recv"
        BY <1>4
  <2>4. QED
        BY <1>5, <2>1, <2>2, <2>3 DEF Roles
<1>8. Waits(t)
  <2>1. ASSUME NEW g \in NtyFds, t.waiting[g] # NoCo
        PROVE  t.fd[t.waiting[g]] = g /\ t.pc[t.waiting[g]] \in Blocking
    <3>1. CASE g = Listen
          BY <1>2, <1>4, <1>6, <2>1, <3>1 DEF Blocking
    <3>2. CASE g # Listen
      <4>1. /\ t.waiting[g] = s.waiting[g] /\ s.waiting[g] \in Coros
            /\ s.fd[s.waiting[g]] = g /\ s.pc[s.waiting[g]] \in Blocking
            BY SMTT(30), <1>1, <1>6, <2>1, <3>2 DEF LiveSound, Waits, Schedulers
      <4>2. s.waiting[g] # k /\ s.waiting[g] # Server
            BY <1>2, <1>3, <3>2, <4>1 DEF Blocking
      <4>3. QED
            BY ZenonT(60), <1>4, <4>1, <4>2
    <3>3. QED
          BY <3>1, <3>2
  <2>2. ASSUME NEW j \in Coros, t.pc[j] \in Blocking
        PROVE  t.waiting[t.fd[j]] = j
    <3>1. CASE j = Server
          BY <1>2, <1>4, <1>6, <2>2, <3>1 DEF Blocking
    <3>2. CASE j # Server
      <4>1. j # k /\ s.pc[j] \in Blocking
            BY <1>4, <2>2, <3>2 DEF Blocking
      <4>2. s.waiting[s.fd[j]] = j /\ s.fd[j] \in NtyFds
            BY <1>1, <4>1 DEF LiveSound, Waits, Schedulers
      <4>3. s.fd[j] # Listen
            BY <1>2, <3>2, <4>2
      <4>4. QED
            BY <1>6, <4>2, <4>3
    <3>3. QED
          BY <3>1, <3>2
  <2>3. QED
        BY <2>1, <2>2 DEF Waits
<1>9. Works(t)
  <2>1. ASSUME NEW j \in Coros, t.pc[j] = "recv"
        PROVE  t.fd[j] # Listen /\ (~t.torn => t.fd[j] = t.given[j])
    <3>1. j # k /\ j # Server
          BY <1>4, <2>1
    <3>2. QED
          BY <1>1, <1>4, <1>5, <2>1, <3>1 DEF LiveSound, Works
  <2>2. ASSUME NEW j \in Coros, j > Server, t.pc[j] = "new" PROVE t.cli_fd = t.given[j]
    <3>1. j = k
          BY <1>2, <1>4, <2>2
    <3>2. QED
          BY <1>5, <3>1
  <2>3. QED
        BY <1>2, <2>1, <2>2 DEF Works
<1>10. Queued(t)
  <2>1. DOMAIN t.ready = {1} /\ t.ready[1] = k
        BY <1>5
  <2>2. \A j \in Coros : t.pc[j] \in {"new", "lock"} /\ j # t.running => j = k
        BY <1>2, <1>4
  <2>3. k # t.running
        BY <1>3
  <2>4. QED
        BY SMTT(30), <1>4, <2>1, <2>2, <2>3 DEF Queued
<1>11. Resumed(t) /\ Batch(t)
  <2>1. \A i \in DOMAIN s.events :
           /\ s.waiting[s.events[i]] # NoCo /\ s.waiting[s.events[i]] # Server
           /\ s.events[i] \in t.interest
        BY <1>1, <1>2 DEF LiveSound, Batch
  <2>2. \A i, j \in DOMAIN s.events : s.events[i] = s.events[j] => i = j
        BY <1>1, <1>2 DEF LiveSound, Batch
  <2>3. \A i \in DOMAIN t.events : t.waiting[t.events[i]] = s.waiting[s.events[i]]
        BY <1>2, <1>6
  <2>4. stage = "lock" \/ t.running = NoCo
        OBVIOUS
  <2>5. QED
        BY SMTT(30), <1>2, <1>4, <2>1, <2>2, <2>3, <2>4 DEF Resumed, Batch, Blocking
<1>12. Descriptors(t)
  <2>0. SUFFICES ASSUME ~s.torn PROVE Descriptors(t)
        BY DEF Descriptors
  <2>a. /\ \A m, j \in Coros :
             m > Server /\ s.pc[m] # "none" /\ j > Server /\ s.pc[j] # "none" =>
                 (s.given[m] = s.given[j] => s.given[m] = BadFd \/ m = j)
        /\ \A m \in Coros : m > Server /\ s.pc[m] # "none" /\ s.given[m] # BadFd =>
             s.owner[s.given[m]] # NoClient
        /\ \A m \in Coros :
             m > Server /\ m <= s.made /\ s.given[m] = BadFd => s.pc[m] \in {"new", "recv"}
        BY <1>1, <2>0 DEF LiveSound, Descriptors
  <2>1. ASSUME NEW i \in Coros, NEW j \in Coros, i > Server, t.pc[i] # "none",
               j > Server, t.pc[j] # "none", t.given[i] = t.given[j], t.given[i] # BadFd
        PROVE  i = j
    <3>1. \A m \in Coros : m > Server /\ m # k /\ t.pc[m] # "none" /\ t.given[m] # BadFd =>
             /\ s.pc[m] # "none" /\ s.given[m] = t.given[m] /\ s.owner[s.given[m]] # NoClient
          BY <1>4, <1>5, <2>a
    <3>2. v # BadFd => s.owner[v] = NoClient
          BY DEF Makes
    <3>3. CASE i = k \/ j = k
          BY SMTT(30), <1>5, <2>1, <3>1, <3>2, <3>3
    <3>4. CASE i # k /\ j # k
          BY <1>5, <2>1, <2>a, <3>1, <3>4
    <3>5. QED
          BY <3>3, <3>4
  <2>2. ASSUME NEW j \in Coros, j > Server, t.pc[j] # "none", t.given[j] # BadFd
        PROVE  t.owner[t.given[j]] # NoClient
    <3>1. t.given[j] \in 1..MaxFd
          BY <2>2 DEF Schedulers
    <3>2. j # k => s.owner[t.given[j]] # NoClient
      <4>1. ASSUME j # k PROVE s.pc[j] # "none" /\ s.given[j] = t.given[j]
            BY <1>4, <1>5, <2>2, <4>1
      <4>2. QED
            BY <2>2, <2>a, <4>1
    <3>3. CASE v = BadFd
          BY <1>5, <2>2, <3>2, <3>3 DEF Makes
    <3>4. CASE v # BadFd
      <4>1. PICK c \in Clients : t.owner = [s.owner EXCEPT ![v] = c] /\ v \in 1..MaxFd
            BY <3>4 DEF Makes
      <4>2. c # NoClient
            BY NtyAssumption DEF NoClient
      <4>3. t.owner[v] = c /\ \A g \in 1..MaxFd : g # v => t.owner[g] = s.owner[g]
            BY <4>1 DEF Schedulers
      <4>4. QED
            BY <1>5, <3>1, <3>2, <4>2, <4>3
    <3>5. QED
          BY <3>3, <3>4
  <2>3. ASSUME NEW j \in Coros, j > Server, j <= t.made, t.given[j] = BadFd
        PROVE  t.pc[j] \in {"new", "recv"}
    <3>1. CASE j = k
          BY <1>4, <3>1
    <3>2. CASE j # k
      <4>1. j <= s.made
        <5>1. j \in Nat /\ s.made \in Nat /\ j <= k /\ j # k /\ k = s.made + 1
              BY <1>3, <1>5, <2>3, <3>2
        <5>2. QED
              BY ONLY <5>1
      <4>2. QED
            BY <1>2, <1>4, <1>5, <2>3, <2>a, <3>2, <4>1
    <3>3. QED
          BY <3>1, <3>2
  <2>4. QED
        BY <2>1, <2>2, <2>3 DEF Descriptors
<1>13. Polled(t)
  <2>1. Open(s) \subseteq Open(t)
    <3>1. \A g \in 1..MaxFd : s.owner[g] # NoClient => t.owner[g] # NoClient
          BY SMTT(30), NtyAssumption DEF Makes, Schedulers, NoClient
    <3>2. QED
          BY <3>1 DEF Open
  <2>2. Server # NoCo
        OBVIOUS
  <2>3. QED
        BY <1>1, <1>2, <1>6, <2>1, <2>2 DEF LiveSound, Polled
<1>14. QED
      BY <1>2, <1>5, <1>7, <1>8, <1>9, <1>10, <1>11, <1>12, <1>13
      DEF Sound, LiveSound, Scheduling

\* A process whose server() returned is sound.
LEMMA ServerEndsSound ==
    ASSUME NEW s \in Schedulers, Sound(s), s.phase \in Scheduling, s.running = Server,
           s.pc[Server] = "accept", NEW t \in Schedulers,
           t.pc = [s.pc EXCEPT ![Server] = "none"], t.running = NoCo,
           t.waiting = [s.waiting EXCEPT ![Listen] = NoCo],
           t.fd = [s.fd EXCEPT ![Server] = BadFd], t.interest = s.interest \ {Listen},
           t.phase = s.phase, t.ready = s.ready, t.events = s.events, t.arg = s.arg,
           t.given = s.given, t.cli_fd = s.cli_fd, t.made = s.made, t.torn = s.torn, t.owner = s.owner
    PROVE  Sound(t)
<1> USE CoroFacts
<1>1. LiveSound(s)
      BY DEF Sound
<1>2. /\ s.phase = "events" /\ s.ready = <<>> /\ s.waiting[Listen] = Server
      /\ s.fd[Server] = Listen
      /\ \A j \in Coros : s.pc[j] \notin {"new", "lock"}
      /\ \A i \in DOMAIN s.events : s.events[i] \in NtyFds /\ s.events[i] # Listen
      BY AcceptCommon
<1>3. /\ t.pc[Server] = "none" /\ t.waiting[Listen] = NoCo
      /\ \A j \in Coros : j # Server => t.pc[j] = s.pc[j] /\ t.fd[j] = s.fd[j]
      /\ \A g \in NtyFds : g # Listen => t.waiting[g] = s.waiting[g]
      BY DEF Schedulers
<1>4. Roles(t)
      BY <1>1, <1>3 DEF LiveSound, Roles
<1>5. Waits(t)
  <2>1. ASSUME NEW g \in NtyFds, t.waiting[g] # NoCo
        PROVE  t.fd[t.waiting[g]] = g /\ t.pc[t.waiting[g]] \in Blocking
    <3>1. /\ g # Listen /\ t.waiting[g] = s.waiting[g] /\ s.waiting[g] \in Coros
          /\ s.fd[s.waiting[g]] = g /\ s.pc[s.waiting[g]] \in Blocking
          BY <1>1, <1>3, <2>1 DEF LiveSound, Waits, Schedulers
    <3>2. s.waiting[g] # Server
          BY <1>2, <3>1
    <3>3. QED
          BY <1>3, <3>1, <3>2
  <2>2. ASSUME NEW j \in Coros, t.pc[j] \in Blocking
        PROVE  t.waiting[t.fd[j]] = j
    <3>1. j # Server
          BY <1>3, <2>2 DEF Blocking
    <3>2. s.fd[j] = t.fd[j] /\ s.waiting[s.fd[j]] = j /\ s.fd[j] \in NtyFds
          BY <1>1, <1>3, <2>2, <3>1 DEF LiveSound, Waits, Schedulers
    <3>3. s.fd[j] # Listen
          BY <1>2, <3>1, <3>2
    <3>4. QED
          BY <1>3, <3>2, <3>3
  <2>3. QED
        BY <2>1, <2>2 DEF Waits
<1>6. Works(t)
      BY <1>1, <1>3 DEF LiveSound, Works
<1>7. Queued(t)
  <2>1. DOMAIN t.ready = {} /\ \A j \in Coros : t.pc[j] \notin {"new", "lock"}
        BY <1>2, <1>3
  <2>2. QED
        BY <2>1 DEF Queued
<1>8. Resumed(t) /\ Batch(t)
      BY <1>1, <1>2, <1>3 DEF LiveSound, Resumed, Batch
<1>9. Descriptors(t)
      BY <1>1, <1>3 DEF LiveSound, Descriptors
<1>10. Polled(t)
      BY <1>1, <1>3 DEF LiveSound, Polled, Open
<1>11. QED
      BY <1>2, <1>4, <1>5, <1>6, <1>7, <1>8, <1>9, <1>10 DEF Sound, LiveSound, Scheduling
-----------------------------------------------------------------------------
(* The functions of the scheduler, field by field *)

Woken(s, t, f) ==
    /\ t.interest = s.interest \ {f} /\ t.waiting = [s.waiting EXCEPT ![f] = NoCo]
    /\ t.phase = s.phase /\ t.running = s.running /\ t.ready = s.ready
    /\ t.events = s.events /\ t.pc = s.pc /\ t.fd = s.fd /\ t.arg = s.arg
    /\ t.given = s.given /\ t.cli_fd = s.cli_fd /\ t.made = s.made /\ t.torn = s.torn /\ t.owner = s.owner

\* nty_schedule_desched_wait.
LEMMA PollDoneIs ==
    ASSUME NEW s \in Schedulers, NEW f \in NtyFds, NEW t, t = PollDone(s, f)
    PROVE  t \in Schedulers /\ Woken(s, t, f)
BY DEF PollDone, Schedulers, Woken

WaitsOn(s, t, k, f) ==
    /\ t.waiting = [s.waiting EXCEPT ![f] = k] /\ t.fd = [s.fd EXCEPT ![k] = f]
    /\ t.interest = s.interest \cup ({f} \cap Open(s))
    /\ t.running = NoCo
    /\ t.phase = s.phase /\ t.ready = s.ready /\ t.events = s.events /\ t.pc = s.pc
    /\ t.arg = s.arg /\ t.given = s.given /\ t.cli_fd = s.cli_fd /\ t.made = s.made /\ t.torn = s.torn
    /\ t.owner = s.owner

\* nty_poll_inner and nty_schedule_sched_wait for a descriptor nobody waits for.
LEMMA PollInnerIs ==
    ASSUME NEW s \in Schedulers, NEW k \in Coros, NEW f \in NtyFds, s.waiting[f] = NoCo,
           NEW t, t = PollInner(s, k, f)
    PROVE  t \in Schedulers /\ WaitsOn(s, t, k, f)
<1>1. t = [s EXCEPT !.interest = s.interest \cup ({f} \cap Open(s)),
                    !.waiting = [s.waiting EXCEPT ![f] = k], !.fd = [s.fd EXCEPT ![k] = f],
                    !.running = NoCo]
      BY DEF PollInner, Schedulers
<1>2. Open(s) \subseteq Watched
      BY NtyAssumption DEF Open, Watched, Listen
<1>3. /\ [s.waiting EXCEPT ![f] = k] \in [NtyFds -> Coros \cup {NoCo}]
      /\ [s.fd EXCEPT ![k] = f] \in [Coros -> NtyFds]
      /\ (s.interest \cup ({f} \cap Open(s))) \in SUBSET Watched
      BY <1>2 DEF Schedulers
<1>4. PICK i, w, d : /\ i = s.interest \cup ({f} \cap Open(s))
                     /\ w = [s.waiting EXCEPT ![f] = k] /\ d = [s.fd EXCEPT ![k] = f]
      OBVIOUS
<1>5. t = [s EXCEPT !.interest = i, !.waiting = w, !.fd = d, !.running = NoCo]
      BY <1>1, <1>4
<1>6. QED
      BY ZenonT(60), <1>3, <1>4, <1>5 DEF Schedulers, WaitsOn

\* nty_schedule_sched_wait for one that somebody waits for.
LEMMA PollInnerFails ==
    ASSUME NEW s \in Schedulers, NEW k \in Coros, NEW f \in NtyFds, s.waiting[f] # NoCo,
           NEW t, t = PollInner(s, k, f)
    PROVE  /\ t \in Schedulers /\ t.running = NoCo /\ t.phase = "aborted"
           /\ t.waiting = s.waiting /\ t.pc = s.pc
           /\ t.arg = s.arg /\ t.given = s.given /\ t.made = s.made /\ t.torn = s.torn
BY DEF PollInner, Schedulers, Phases

\* nty_coroutine_create.
LEMMA CreateIs ==
    ASSUME NEW s \in Schedulers, NEW v \in Given, s.made + 1 \in Coros,
           NEW t, t = Create(s, v), NEW k, k = s.made + 1
    PROVE  /\ t \in Schedulers /\ k \in Coros
           /\ t.made = k /\ t.ready = Append(s.ready, k) /\ t.pc = [s.pc EXCEPT ![k] = "new"]
           /\ t.cli_fd = v /\ t.arg = [s.arg EXCEPT ![k] = v] /\ t.given = [s.given EXCEPT ![k] = v]
           /\ t.phase = s.phase /\ t.running = s.running /\ t.waiting = s.waiting
           /\ t.interest = s.interest /\ t.events = s.events /\ t.fd = s.fd
           /\ t.owner = s.owner /\ t.torn = s.torn
<1>1. k \in Coros /\ k \in 0..MaxReaders
      BY DEF Coros
<1>2. Append(s.ready, k) \in Seq(Coros)
      BY <1>1, AppendProperties DEF Schedulers
<1>3. t = [s EXCEPT !.made = k, !.ready = Append(s.ready, k), !.pc = [s.pc EXCEPT ![k] = "new"],
                    !.cli_fd = v, !.arg = [s.arg EXCEPT ![k] = v],
                    !.given = [s.given EXCEPT ![k] = v]]
      BY DEF Create, Schedulers
<1>4. PICK r, c, a, g : /\ r = Append(s.ready, k) /\ c = [s.pc EXCEPT ![k] = "new"]
                        /\ a = [s.arg EXCEPT ![k] = v] /\ g = [s.given EXCEPT ![k] = v]
      OBVIOUS
<1>5. /\ r \in Seq(Coros) /\ c \in [Coros -> Stages]
      /\ a \in [Coros -> Given] /\ g \in [Coros -> Given]
      BY <1>2, <1>4 DEF Schedulers, Stages
<1>6. t = [s EXCEPT !.made = k, !.ready = r, !.pc = c, !.cli_fd = v, !.arg = a, !.given = g]
      BY <1>3, <1>4
<1>7. /\ t.made = k /\ t.ready = r /\ t.pc = c /\ t.cli_fd = v /\ t.arg = a /\ t.given = g
      /\ t.phase = s.phase /\ t.running = s.running /\ t.waiting = s.waiting
      /\ t.interest = s.interest /\ t.events = s.events /\ t.fd = s.fd
      /\ t.owner = s.owner /\ t.torn = s.torn
      BY <1>6 DEF Schedulers
<1>8. t \in Schedulers
      BY ZenonT(60), <1>1, <1>5, <1>6 DEF Schedulers
<1>9. QED
      BY <1>1, <1>4, <1>7, <1>8

Returned(s, t, k) ==
    /\ t.pc = [s.pc EXCEPT ![k] = "none"] /\ t.fd = [s.fd EXCEPT ![k] = BadFd]
    /\ t.running = NoCo /\ t.phase = s.phase /\ t.ready = s.ready /\ t.waiting = s.waiting
    /\ t.interest = s.interest /\ t.events = s.events /\ t.arg = s.arg
    /\ t.given = s.given /\ t.cli_fd = s.cli_fd /\ t.made = s.made /\ t.torn = s.torn /\ t.owner = s.owner

\* _exec, when the function of the coroutine has returned.
LEMMA ExitIs ==
    ASSUME NEW s \in Schedulers, NEW k \in Coros, NEW t, t = Exit(s, k)
    PROVE  t \in Schedulers /\ Returned(s, t, k)
BY CoroFacts DEF Exit, Schedulers, Stages, Returned

-----------------------------------------------------------------------------
(* What a step of one process leaves alone *)

\* What the invariant says of one process.
LEMMA InvFacts ==
    ASSUME NtyInv, NEW p \in Procs
    PROVE  /\ proc[p] \in Schedulers /\ Sound(proc[p])
           /\ proc[p].running # NoCo => proc[p].phase \in Scheduling
           /\ proc[p].phase \in Scheduling => p \in setup.procs /\ LiveSound(proc[p])
           /\ setup.prog \in {"kv", "echo", "httpd"} /\ setup.procs \subseteq Procs
           /\ setup.limit \in 0..MaxFd
BY NtyAssumption DEF NtyInv, NtyTyped, Sound, Scheduling

\* A step of one process that leaves it sound leaves all of them sound.
LEMMA OneProcess ==
    ASSUME NtyInv, NEW p \in Procs, proc[p].phase \in Scheduling, NEW t \in Schedulers,
           Sound(t), proc' = [proc EXCEPT ![p] = t], UNCHANGED setup
    PROVE  /\ proc' \in [Procs -> Schedulers]
           /\ proc'[p] = t /\ \A q \in Procs : q # p => proc'[q] = proc[q]
           /\ \A q \in Procs : Sound(proc'[q])
           /\ \A q \in Procs \ setup'.procs : proc'[q].phase = "off"
           /\ setup' \in Setups
<1>1. p \in setup.procs /\ proc \in [Procs -> Schedulers]
      BY InvFacts DEF NtyInv, NtyTyped
<1>2. proc'[p] = t /\ \A q \in Procs : q # p => proc'[q] = proc[q]
      BY <1>1
<1>3. QED
      BY <1>1, <1>2 DEF NtyInv, NtyTyped

\* The lock stays right if its word and who is inside stay.
LEMMA LockKept ==
    ASSUME NtyInv, NEW p \in Procs, proc'[p].pc[Server] = "accept" <=> proc[p].pc[Server] = "accept",
           \A q \in Procs : q # p => proc'[q] = proc[q], UNCHANGED <<setup, accept_mtx>>
    PROVE  LockSound'
BY InvFacts DEF NtyInv, LockSound

\* What holds of kv alone stays, unless a process of another program tears or server()
\* of kv leaves accept.
LEMMA KvKept ==
    ASSUME NtyInv, NEW p \in Procs, \A q \in Procs : q # p => proc'[q] = proc[q],
           proc[p].phase \in Scheduling, UNCHANGED setup,
           proc'[p].torn => proc[p].torn \/ setup.prog = "kv",
           setup.prog = "kv" => \/ proc'[p].pc[Server] = "accept"
                                \/ /\ proc'[p].made = proc[p].made
                                   /\ proc'[p].pc[Server] = proc[p].pc[Server]
    PROVE  KvSound'
BY DEF NtyInv, KvSound

\* The clients that were taken from the queue can be counted.
LEMMA TakenFinite == IsFiniteSet(Taken) /\ Cardinality(Taken) \in Nat
BY NtyAssumption, FS_Subset, FS_CardinalityType DEF Taken

\* The queue stays right if no reader is made and nobody leaves it.
LEMMA BacklogHolds ==
    ASSUME NtyInv, \A q \in Procs : Good(proc[q])' = Good(proc[q]),
           UNCHANGED backlog, \A c \in Clients : client[c].st # "off" => client'[c].st # "off"
    PROVE  BacklogSound'
<1>1. \A q \in Procs : Good(proc[q])' = Good(proc[q])
      OBVIOUS
<1>2. Taken \subseteq Taken'
      BY DEF Taken
<1>3. IsFiniteSet(Taken') /\ Cardinality(Taken') \in Nat
      BY NtyAssumption, FS_Subset, FS_CardinalityType DEF Taken
<1>4. Cardinality(Taken) <= Cardinality(Taken') /\ Cardinality(Taken) \in Nat
      BY <1>2, <1>3, TakenFinite, FS_Subset
<1>5. \A q \in Procs : Cardinality(Good(proc[q])) \in Nat
  <2>1. SUFFICES ASSUME NEW q \in Procs PROVE Cardinality(Good(proc[q])) \in Nat
        OBVIOUS
  <2>2. PICK m : m = proc[q].made
        OBVIOUS
  <2>3. m \in Int
        BY <2>2, InvFacts, CoroFacts DEF Schedulers
  <2>4. IsFiniteSet(1..m)
        BY <2>3, FS_Interval
  <2>5. QED
        BY <2>2, <2>4, FS_Subset, FS_CardinalityType DEF Good
<1>6. ASSUME NEW q \in Procs PROVE Cardinality(Good(proc[q])') <= Cardinality(Taken')
  <2>1. Cardinality(Good(proc[q])) <= Cardinality(Taken)
        BY DEF NtyInv, BacklogSound
  <2>2. PICK a, b, c : a = Cardinality(Good(proc[q])) /\ b = Cardinality(Taken) /\ c = Cardinality(Taken')
        OBVIOUS
  <2>3. a <= b /\ b <= c /\ a \in Nat /\ b \in Nat /\ c \in Nat
        BY <1>3, <1>4, <1>5, <2>1, <2>2
  <2>4. a <= c
        BY <2>3
  <2>5. QED
        BY <1>1, <2>2, <2>4
<1>7. \A i \in DOMAIN backlog : backlog[i] \in Clients
      BY ElementOfSeq, LenProperties DEF NtyInv, NtyTyped
<1>8. QED
      BY <1>6, <1>7 DEF NtyInv, BacklogSound

\* The same, for a step that makes no coroutine.
LEMMA BacklogKept ==
    ASSUME NtyInv, \A q \in Procs : proc'[q].given = proc[q].given /\ proc'[q].made = proc[q].made,
           UNCHANGED backlog, \A c \in Clients : client[c].st # "off" => client'[c].st # "off"
    PROVE  BacklogSound'
<1>1. \A q \in Procs : Good(proc[q])' = Good(proc[q])
      BY DEF Good
<1>2. QED
      BY <1>1, BacklogHolds

\* A step of p that makes no reader and neither takes nor gives back the lock.
LEMMA QuietStep ==
    ASSUME NtyInv, NEW p \in Procs, proc[p].phase \in Scheduling, NEW t \in Schedulers,
           Sound(t), proc' = [proc EXCEPT ![p] = t],
           t.given = proc[p].given, t.made = proc[p].made,
           t.torn => proc[p].torn \/ setup.prog = "kv",
           t.pc[Server] = "accept" <=> proc[p].pc[Server] = "accept",
           UNCHANGED <<setup, accept_mtx, backlog>>,
           client' \in [Clients -> ClientStates],
           \A c \in Clients : client'[c].got <= client'[c].asked,
           \A c \in Clients : client[c].st # "off" => client'[c].st # "off"
    PROVE  NtyInv'
<1>1. /\ proc' \in [Procs -> Schedulers]
      /\ proc'[p] = t /\ \A q \in Procs : q # p => proc'[q] = proc[q]
      /\ \A q \in Procs : Sound(proc'[q])
      /\ \A q \in Procs \ setup'.procs : proc'[q].phase = "off"
      /\ setup' \in Setups
      BY OneProcess
<1>2. \A q \in Procs : proc'[q].given = proc[q].given /\ proc'[q].made = proc[q].made
      BY <1>1
<1>3. BacklogSound'
      BY <1>2, BacklogKept
<1>4. LockSound'
      BY <1>1, LockKept
<1>5. NtyTyped'
      BY <1>1 DEF NtyInv, NtyTyped
<1>6. KvSound'
  <2>1. setup.prog = "kv" /\ t.phase \in Scheduling /\ t.made > 0 => t.pc[Server] = "accept"
        BY DEF NtyInv, KvSound
  <2>2. QED
        BY <1>1, <2>1 DEF NtyInv, KvSound
<1>7. QED
      BY <1>1, <1>3, <1>4, <1>5, <1>6 DEF NtyInv

\* The same, when the clients notice nothing.
LEMMA SchedulerStep ==
    ASSUME NtyInv, NEW p \in Procs, proc[p].phase \in Scheduling, NEW t \in Schedulers,
           Sound(t), proc' = [proc EXCEPT ![p] = t],
           t.given = proc[p].given, t.made = proc[p].made,
           t.torn => proc[p].torn \/ setup.prog = "kv",
           t.pc[Server] = "accept" <=> proc[p].pc[Server] = "accept",
           UNCHANGED <<setup, accept_mtx, backlog, client>>
    PROVE  NtyInv'
BY QuietStep DEF NtyInv, NtyTyped

\* The loop over the ready queue keeps the invariant.
LEMMA NextReadyKeeps == ASSUME NtyInv, NEW p \in Procs, NextReady(p) PROVE NtyInv'
<1>1. PICK s \in Schedulers : s = proc[p] /\ Sound(s) /\ s.phase = "ready" /\ s.running = NoCo
      BY InvFacts DEF NextReady
<1>2. s.phase \in Scheduling
      BY <1>1 DEF Scheduling
<1>3. CASE s.ready = <<>>
  <2>1. PICK t : t = [s EXCEPT !.phase = "poll", !.last = s.last]
        OBVIOUS
  <2>2. s.last \in Coros \cup {NoCo} /\ t = [s EXCEPT !.phase = "poll"]
        BY <2>1 DEF Schedulers
  <2>3. t \in Schedulers /\ Sound(t)
        BY <1>1, <1>2, <2>1, <2>2, TurnSound
  <2>4. proc' = [proc EXCEPT ![p] = t]
        BY <1>1, <1>3, <2>2 DEF NextReady
  <2>5. t.given = s.given /\ t.made = s.made /\ t.torn = s.torn /\ t.pc = s.pc
        BY <2>2 DEF Schedulers
  <2>6. QED
        BY <1>1, <1>2, <2>3, <2>4, <2>5, SchedulerStep DEF NextReady
<1>4. CASE s.ready # <<>>
  <2>1. PICK ph \in {"ready", "poll"} : ph = IF Head(s.ready) = s.last THEN "poll" ELSE "ready"
        OBVIOUS
  <2>2. PICK t : t = [s EXCEPT !.running = Head(s.ready), !.ready = Tail(@), !.phase = ph]
        OBVIOUS
  <2>3. t \in Schedulers /\ Sound(t)
        BY <1>1, <1>2, <1>4, <2>2, PopSound
  <2>4. proc' = [proc EXCEPT ![p] = t]
        BY <1>1, <1>4, <2>1, <2>2 DEF NextReady
  <2>5. t.given = s.given /\ t.made = s.made /\ t.torn = s.torn /\ t.pc = s.pc
        BY <2>2 DEF Schedulers
  <2>6. QED
        BY <1>1, <1>2, <2>3, <2>4, <2>5, SchedulerStep DEF NextReady
<1>5. QED
      BY <1>3, <1>4

\* nty_schedule_run begins its next turn.
LEMMA NewTurn ==
    ASSUME NtyInv, NEW p \in Procs, proc[p].phase \in Scheduling, proc[p].running = NoCo,
           proc' = [proc EXCEPT ![p] = Turn(proc[p])],
           UNCHANGED <<setup, accept_mtx, backlog, client>>
    PROVE  NtyInv'
<1>1. PICK s \in Schedulers : s = proc[p] /\ Sound(s)
      BY InvFacts
<1>2. PICK l : l = IF s.ready = <<>> THEN NoCo ELSE Last(s.ready)
      OBVIOUS
<1>3. l \in Coros \cup {NoCo}
  <2>1. s.ready \in Seq(Coros)
        BY DEF Schedulers
  <2>2. ASSUME s.ready # <<>> PROVE Last(s.ready) \in Coros
    <3>1. Len(s.ready) \in Nat \ {0}
          BY <2>1, <2>2, LenProperties, EmptySeq
    <3>2. s.ready[Len(s.ready)] \in Coros
          BY <2>1, <3>1, ElementOfSeq
    <3>3. QED
          BY <3>2 DEF Last
  <2>3. QED
        BY <1>2, <2>2
<1>4. PICK t : t = [s EXCEPT !.phase = "ready", !.last = l]
      OBVIOUS
<1>5. t \in Schedulers /\ Sound(t)
      BY <1>1, <1>3, <1>4, TurnSound
<1>6. proc' = [proc EXCEPT ![p] = t]
      BY <1>1, <1>2, <1>4 DEF Turn
<1>7. t.given = s.given /\ t.made = s.made /\ t.torn = s.torn /\ t.pc = s.pc
      BY <1>4 DEF Schedulers
<1>8. QED
      BY <1>1, <1>5, <1>6, <1>7, SchedulerStep

\* nty_schedule_epoll keeps it.
LEMMA EpollKeeps == ASSUME NtyInv, NEW p \in Procs, Epoll(p) PROVE NtyInv'
<1>1. PICK s \in Schedulers : s = proc[p] /\ Sound(s) /\ s.phase = "poll" /\ s.running = NoCo
      BY InvFacts DEF Epoll
<1>2. s.phase \in Scheduling
      BY <1>1 DEF Scheduling
<1>3. CASE proc' = [proc EXCEPT ![p] = Turn(s)]
      BY <1>1, <1>2, <1>3, NewTurn DEF Epoll
<1>4. CASE s.ready = <<>> /\ \E order \in SetToSeqs(Readable(p)) :
               proc' = [proc EXCEPT ![p].events = order, ![p].phase = "events"]
  <2>1. PICK order \in SetToSeqs(Readable(p)) :
             proc' = [proc EXCEPT ![p].events = order, ![p].phase = "events"]
        BY <1>4
  <2>2. Readable(p) \subseteq s.interest
        BY <1>1 DEF Readable
  <2>3. IsFiniteSet(Readable(p))
    <3>1. s.interest \subseteq 0..MaxFd
          BY CoroFacts DEF Schedulers
    <3>2. IsFiniteSet(0..MaxFd)
          BY NtyAssumption, FS_Interval
    <3>3. QED
          BY <2>2, <3>1, <3>2, FS_Subset
  <2>4. PICK n : n = Cardinality(Readable(p))
        OBVIOUS
  <2>5. n \in Nat
        BY <2>3, <2>4, FS_CardinalityType
  <2>6. /\ order \in [1..n -> Readable(p)]
        /\ \A i, j \in 1..n : i # j => order[i] # order[j]
        BY <2>1, <2>4 DEF SetToSeqs
  <2>7. order \in [1..n -> s.interest]
        BY <2>2, <2>6
  <2>8. order \in Seq(s.interest)
        BY <2>5, <2>7, IsASeq
  <2>9. \A i, j \in DOMAIN order : order[i] = order[j] => i = j
        BY <2>6
  <2>10. PICK t : t = [s EXCEPT !.events = order, !.phase = "events"]
        OBVIOUS
  <2>11. t \in Schedulers /\ Sound(t)
        BY <1>1, <1>2, <1>4, <2>8, <2>9, <2>10, PolledSound
  <2>12. proc' = [proc EXCEPT ![p] = t]
    <3>1. proc \in [Procs -> Schedulers]
          BY DEF NtyInv, NtyTyped
    <3>2. QED
          BY <1>1, <2>1, <2>10, <3>1
  <2>13. t.given = s.given /\ t.made = s.made /\ t.torn = s.torn /\ t.pc = s.pc
        BY <2>10 DEF Schedulers
  <2>14. QED
        BY <1>1, <1>2, <2>11, <2>12, <2>13, SchedulerStep DEF Epoll
<1>5. CASE proc' = [proc EXCEPT ![p].phase = "ended"]
  <2>1. PICK t : t = [s EXCEPT !.phase = "ended"]
        OBVIOUS
  <2>2. /\ t \in Schedulers /\ t.phase = "ended" /\ t.running = NoCo
        /\ t.interest = s.interest /\ t.waiting = s.waiting /\ t.arg = s.arg
        /\ t.given = s.given /\ t.made = s.made /\ t.torn = s.torn /\ t.pc = s.pc
        BY ZenonT(60), <1>1, <2>1 DEF Schedulers, Phases
  <2>3. Sound(t)
        BY <1>1, <2>2 DEF Sound, Scheduling
  <2>4. proc' = [proc EXCEPT ![p] = t]
        BY <1>1, <1>5, <2>1
  <2>5. QED
        BY <1>1, <1>2, <2>2, <2>3, <2>4, SchedulerStep DEF Epoll
<1>6. QED
      BY <1>1, <1>3, <1>4, <1>5 DEF Epoll

\* The loop over the events keeps it.
LEMMA NextEventKeeps == ASSUME NtyInv, NEW p \in Procs, NextEvent(p) PROVE NtyInv'
<1>1. PICK s \in Schedulers : s = proc[p] /\ Sound(s) /\ s.phase = "events" /\ s.running = NoCo
      BY InvFacts DEF NextEvent
<1>2. s.phase \in Scheduling
      BY <1>1 DEF Scheduling
<1>3. CASE s.events = <<>>
      BY <1>1, <1>2, <1>3, NewTurn DEF NextEvent
<1>4. CASE s.events # <<>>
  <2>1. PICK t : t = [s EXCEPT !.running = s.waiting[Last(s.events)], !.events = Front(@),
                               !.spoilt = s.ready # <<>>]
        OBVIOUS
  <2>2. s.waiting[Last(s.events)] # NoCo /\ t \in Schedulers /\ Sound(t)
        BY <1>1, <1>4, <2>1, EventSound
  <2>3. proc' = [proc EXCEPT ![p] = t]
        BY <1>1, <1>4, <2>1, <2>2 DEF NextEvent
  <2>4. t.given = s.given /\ t.made = s.made /\ t.torn = s.torn /\ t.pc = s.pc
        BY <2>1 DEF Schedulers
  <2>5. QED
        BY <1>1, <1>2, <2>2, <2>3, <2>4, SchedulerStep DEF NextEvent
<1>5. QED
      BY <1>3, <1>4

\* server() calls accept.
LEMMA ServerWaits ==
    ASSUME NEW s \in Schedulers, Sound(s), s.phase \in Scheduling, s.running = Server,
           s.pc[Server] \in {"new", "lock"},
           NEW t, t = PollInner([s EXCEPT !.pc[Server] = "accept"], Server, Listen)
    PROVE  /\ t \in Schedulers /\ Sound(t) /\ t.pc[Server] = "accept"
           /\ t.given = s.given /\ t.made = s.made /\ t.torn = s.torn
<1>0. Server \in Coros /\ Listen \in NtyFds /\ Listen # BadFd
      BY CoroFacts
<1>1. PICK u : u = [s EXCEPT !.pc[Server] = "accept"]
      OBVIOUS
<1>2. /\ u \in Schedulers /\ u.pc = [s.pc EXCEPT ![Server] = "accept"]
      /\ u.phase = s.phase /\ u.running = s.running /\ u.ready = s.ready
      /\ u.waiting = s.waiting /\ u.interest = s.interest /\ u.events = s.events
      /\ u.fd = s.fd /\ u.arg = s.arg /\ u.given = s.given /\ u.cli_fd = s.cli_fd
      /\ u.made = s.made /\ u.torn = s.torn /\ u.owner = s.owner
  <2>1. [s.pc EXCEPT ![Server] = "accept"] \in [Coros -> Stages]
        BY <1>0 DEF Schedulers, Stages
  <2>2. QED
        BY <1>1, <2>1 DEF Schedulers
<1>3. s.waiting[Listen] = NoCo
  <2>1. LiveSound(s) /\ s.pc[Server] # "accept"
        BY DEF Sound
  <2>2. QED
        BY <2>1, ListenFree
<1>4. /\ t \in Schedulers /\ t.running = NoCo
      /\ t.waiting = [u.waiting EXCEPT ![Listen] = Server]
      /\ t.fd = [u.fd EXCEPT ![Server] = Listen] /\ t.interest = u.interest \cup {Listen}
      /\ t.phase = u.phase /\ t.ready = u.ready /\ t.events = u.events /\ t.pc = u.pc
      /\ t.arg = u.arg /\ t.given = u.given /\ t.cli_fd = u.cli_fd /\ t.made = u.made /\ t.torn = u.torn
      /\ t.owner = u.owner
  <2>1. u.waiting[Listen] = NoCo /\ t = PollInner(u, Server, Listen)
        BY <1>1, <1>2, <1>3
  <2>2. QED
    <3>1. t \in Schedulers /\ WaitsOn(u, t, Server, Listen)
          BY <1>0, <1>2, <2>1, PollInnerIs
    <3>2. {Listen} \cap Open(u) = {Listen}
          BY DEF Open
    <3>3. QED
          BY <3>1, <3>2 DEF WaitsOn
<1>5. /\ t.waiting = [s.waiting EXCEPT ![Listen] = Server]
      /\ t.fd = [s.fd EXCEPT ![Server] = Listen] /\ t.interest = s.interest \cup {Listen}
      /\ t.pc = [s.pc EXCEPT ![Server] = "accept"]
      /\ t.phase = s.phase /\ t.ready = s.ready /\ t.events = s.events
      /\ t.arg = s.arg /\ t.given = s.given /\ t.cli_fd = s.cli_fd /\ t.made = s.made /\ t.torn = s.torn
      /\ t.owner = s.owner
      BY <1>0, <1>2, <1>4
<1>6. Sound(t)
      BY <1>4, <1>5, ServerWaitSound
<1>7. t.pc[Server] = "accept"
      BY <1>0, <1>5 DEF Schedulers
<1>8. QED
      BY <1>4, <1>5, <1>6, <1>7

\* A step of p that makes no reader but may take the lock or give it back.
LEMMA LoudStep ==
    ASSUME NtyInv, NEW p \in Procs, proc[p].phase \in Scheduling, NEW t \in Schedulers,
           Sound(t), proc' = [proc EXCEPT ![p] = t],
           UNCHANGED <<setup, client>>, backlog' \in Seq(Clients), BacklogSound',
           accept_mtx' \in {0, 1}, LockSound', KvSound'
    PROVE  NtyInv'
<1>1. /\ proc' \in [Procs -> Schedulers]
      /\ \A q \in Procs : Sound(proc'[q])
      /\ \A q \in Procs \ setup'.procs : proc'[q].phase = "off"
      /\ setup' \in Setups
      BY OneProcess
<1>2. NtyTyped'
      BY <1>1 DEF NtyInv, NtyTyped
<1>3. QED
      BY <1>1, <1>2 DEF NtyInv

\* server() down to its accept or its lock keeps it.
LEMMA ServerStartsKeeps == ASSUME NtyInv, NEW p \in Procs, ServerStarts(p) PROVE NtyInv'
<1>1. PICK s \in Schedulers : s = proc[p] /\ Sound(s) /\ s.running = Server /\ s.pc[Server] = "new"
      BY InvFacts DEF ServerStarts
<1>2. s.phase \in Scheduling
      BY <1>1, InvFacts DEF Server, NoCo
<1>3. CASE setup.prog = "httpd"
  <2>1. PICK t : t = [s EXCEPT !.pc[Server] = "lock"]
        OBVIOUS
  <2>2. /\ t \in Schedulers /\ t.pc = [s.pc EXCEPT ![Server] = "lock"]
        /\ t.phase = s.phase /\ t.running = s.running /\ t.ready = s.ready
        /\ t.waiting = s.waiting /\ t.interest = s.interest /\ t.events = s.events
        /\ t.fd = s.fd /\ t.arg = s.arg /\ t.given = s.given /\ t.cli_fd = s.cli_fd
        /\ t.made = s.made /\ t.torn = s.torn /\ t.owner = s.owner
    <3>1. [s.pc EXCEPT ![Server] = "lock"] \in [Coros -> Stages]
          BY CoroFacts DEF Schedulers, Stages
    <3>2. QED
          BY <2>1, <3>1 DEF Schedulers
  <2>3. Sound(t)
        BY <1>1, <1>2, <2>2, ServerLockSound
  <2>4. proc' = [proc EXCEPT ![p] = t]
    <3>1. proc \in [Procs -> Schedulers]
          BY DEF NtyInv, NtyTyped
    <3>2. QED
          BY <1>1, <1>3, <2>1, <3>1 DEF ServerStarts
  <2>5. t.pc[Server] = "accept" <=> s.pc[Server] = "accept"
        BY <1>1, <2>2, CoroFacts DEF Schedulers
  <2>6. /\ t.given = s.given /\ t.made = s.made
        /\ t.torn => s.torn \/ setup.prog = "kv"
        BY <2>2
  <2>7. QED
        BY <1>1, <1>2, <2>2, <2>3, <2>4, <2>5, <2>6, SchedulerStep DEF ServerStarts
<1>4. CASE setup.prog # "httpd"
  <2>1. PICK t : t = PollInner([s EXCEPT !.pc[Server] = "accept"], Server, Listen)
        OBVIOUS
  <2>2. /\ t \in Schedulers /\ Sound(t) /\ t.given = s.given /\ t.made = s.made /\ t.torn = s.torn
        /\ t.pc[Server] = "accept"
        BY <1>1, <1>2, <2>1, ServerWaits
  <2>3. proc' = [proc EXCEPT ![p] = t]
        BY <1>1, <1>4, <2>1 DEF ServerStarts
  <2>4. UNCHANGED <<setup, accept_mtx, backlog, client>>
        BY DEF ServerStarts
  <2>5. /\ proc'[p] = t /\ \A q \in Procs : q # p => proc'[q] = proc[q]
        BY <1>1, <1>2, <2>2, <2>3, <2>4, OneProcess
  <2>6. BacklogSound'
    <3>1. \A q \in Procs : proc'[q].given = proc[q].given /\ proc'[q].made = proc[q].made
          BY <1>1, <2>2, <2>5
    <3>2. QED
          BY <2>4, <3>1, BacklogKept
  <2>7. LockSound'
        BY <1>4, <2>4 DEF LockSound
  <2>8. backlog' \in Seq(Clients) /\ accept_mtx' \in {0, 1}
        BY <2>4 DEF NtyInv, NtyTyped
  <2>9. KvSound'
        BY <1>1, <1>2, <2>2, <2>4, <2>5, KvKept
  <2>10. QED
        BY <1>1, <1>2, <2>2, <2>3, <2>4, <2>6, <2>7, <2>8, <2>9, LoudStep
<1>5. QED
      BY <1>3, <1>4

\* The attempts to take accept_mtx keep it.
LEMMA ServerLocksKeeps == ASSUME NtyInv, NEW p \in Procs, ServerLocks(p) PROVE NtyInv'
<1>1. PICK s \in Schedulers : s = proc[p] /\ Sound(s) /\ s.running = Server /\ s.pc[Server] = "lock"
      BY InvFacts DEF ServerLocks
<1>2. s.phase \in Scheduling /\ p \in setup.procs /\ setup.procs \subseteq Procs
      BY <1>1, InvFacts DEF Server, NoCo
<1>3. CASE accept_mtx = 0
  <2>1. PICK t : t = PollInner([s EXCEPT !.pc[Server] = "accept"], Server, Listen)
        OBVIOUS
  <2>2. /\ t \in Schedulers /\ Sound(t) /\ t.given = s.given /\ t.made = s.made /\ t.torn = s.torn
        /\ t.pc[Server] = "accept"
        BY <1>1, <1>2, <2>1, ServerWaits
  <2>3. proc' = [proc EXCEPT ![p] = t]
        BY <1>1, <1>3, <2>1 DEF ServerLocks
  <2>4. UNCHANGED <<setup, backlog, client>> /\ accept_mtx' = 1
        BY <1>3 DEF ServerLocks
  <2>5. /\ proc'[p] = t /\ \A q \in Procs : q # p => proc'[q] = proc[q]
        BY <1>1, <1>2, <2>2, <2>3, <2>4, OneProcess
  <2>6. BacklogSound'
    <3>1. \A q \in Procs : proc'[q].given = proc[q].given /\ proc'[q].made = proc[q].made
          BY <1>1, <2>2, <2>5
    <3>2. QED
          BY <2>4, <3>1, BacklogKept
  <2>7. LockSound'
        BY <1>2, <1>3, <2>2, <2>4, <2>5 DEF NtyInv, LockSound
  <2>8. backlog' \in Seq(Clients) /\ accept_mtx' \in {0, 1}
        BY <2>4 DEF NtyInv, NtyTyped
  <2>9. KvSound'
        BY <1>1, <1>2, <2>2, <2>4, <2>5, KvKept
  <2>10. QED
        BY <1>1, <1>2, <2>2, <2>3, <2>4, <2>6, <2>7, <2>8, <2>9, LoudStep
<1>4. CASE accept_mtx # 0
  <2>1. PICK r : r = Append(s.ready, Server)
        OBVIOUS
  <2>2. r \in Seq(Coros)
        BY <2>1, CoroFacts, AppendProperties DEF Schedulers
  <2>3. PICK t : t = [s EXCEPT !.ready = r, !.running = NoCo]
        OBVIOUS
  <2>4. /\ t \in Schedulers /\ t.ready = Append(s.ready, Server) /\ t.running = NoCo
        /\ t.phase = s.phase /\ t.waiting = s.waiting /\ t.interest = s.interest
        /\ t.events = s.events /\ t.pc = s.pc /\ t.fd = s.fd /\ t.arg = s.arg
        /\ t.given = s.given /\ t.cli_fd = s.cli_fd /\ t.made = s.made /\ t.torn = s.torn
        /\ t.owner = s.owner
        BY <2>1, <2>2, <2>3 DEF Schedulers
  <2>5. Sound(t)
        BY <1>1, <1>2, <2>4, ServerYieldSound
  <2>6. proc' = [proc EXCEPT ![p] = t]
    <3>1. proc \in [Procs -> Schedulers]
          BY DEF NtyInv, NtyTyped
    <3>2. QED
          BY <1>1, <1>4, <2>1, <2>3, <3>1 DEF ServerLocks
  <2>7. UNCHANGED <<setup, accept_mtx, backlog, client>>
        BY <1>4 DEF ServerLocks
  <2>8. QED
        BY <1>1, <1>2, <2>4, <2>5, <2>6, <2>7, SchedulerStep
<1>5. QED
      BY <1>3, <1>4


\* accept takes a descriptor that is free: a set of naturals that is not empty has
\* a smallest element.
LEMMA SmallestIs ==
    ASSUME NEW n \in Nat, NEW S \in SUBSET (1..n), S # {}
    PROVE  Smallest(S) \in S
<1> DEFINE Upto(i) == { j \in S : j <= i }
           T == { Upto(i) : i \in S }
<1>1. IsFiniteSet(S)
  <2>1. IsFiniteSet(1..n)
        BY FS_Interval
  <2>2. QED
        BY <2>1, FS_Subset
<1>2. T \subseteq FiniteSubsetsOf(S) /\ T # {}
  <2>1. FiniteSubsetsOf(S) = SUBSET S
        BY <1>1, FS_FiniteSubsetsOfFinite
  <2>2. T \subseteq SUBSET S
        OBVIOUS
  <2>3. T # {}
        OBVIOUS
  <2>4. QED
        BY <2>1, <2>2, <2>3
<1>3. \E x \in T : \A y \in T : ~ (<<y, x>> \in StrictSubsetOrdering(S))
  <2> HIDE DEF T
  <2>1. PICK R, D : R = StrictSubsetOrdering(S) /\ D = FiniteSubsetsOf(S)
        OBVIOUS
  <2>2. IsWellFoundedOn(R, D)
        BY <2>1, FS_StrictSubsetOrderingWellFounded
  <2>3. \E x \in T : \A y \in T : ~ (<<y, x>> \in R)
        BY <1>2, <2>1, <2>2, WFMin
  <2>4. QED
        BY <2>1, <2>3
<1>4. PICK i \in S : \A j \in S : ~ (<<Upto(j), Upto(i)>> \in StrictSubsetOrdering(S))
      BY <1>3
<1>5. ASSUME NEW j \in S PROVE i <= j
  <2>1. SUFFICES ASSUME j < i PROVE FALSE
        OBVIOUS
  <2>2. i \in Int /\ j \in Int /\ \A m \in S : m \in Int
        OBVIOUS
  <2>3. i \in Upto(i) /\ i \notin Upto(j)
        BY <2>1, <2>2
  <2>4. Upto(j) \subseteq Upto(i)
    <3>1. ASSUME NEW m \in S, m <= j PROVE m <= i
          BY <2>1, <2>2, <3>1
    <3>2. QED
          BY <3>1
  <2>5. <<Upto(j), Upto(i)>> \in StrictSubsetOrdering(S)
        BY <2>3, <2>4 DEF StrictSubsetOrdering
  <2>6. QED
        BY <1>4, <2>5
<1>6. QED
      BY <1>5 DEF Smallest

\* The readers that got a descriptor can be counted.
LEMMA GoodFinite ==
    ASSUME NtyInv, NEW q \in Procs
    PROVE  IsFiniteSet(Good(proc[q])) /\ Cardinality(Good(proc[q])) \in Nat
<1>1. PICK m \in Nat : m = proc[q].made
      BY InvFacts, CoroFacts DEF Schedulers
<1>2. IsFiniteSet(1..m)
      BY FS_Interval
<1>3. Good(proc[q]) \in SUBSET (1..m)
      BY <1>1 DEF Good
<1>4. QED
      BY <1>2, <1>3, FS_Subset, FS_CardinalityType

\* There is room for one more reader: only one reader has descriptor -1 when accept
\* returns, and each of the others was made for a client.
LEMMA RoomForOne ==
    ASSUME NtyInv, NEW p \in Procs, proc[p].running = Server, proc[p].pc[Server] = "accept",
           backlog # <<>>, proc[p].torn => proc[p].made < MaxReaders
    PROVE  proc[p].made + 1 \in Coros
<1>a. CASE proc[p].torn
  <2>1. PICK m, r \in Nat : m = proc[p].made /\ r = MaxReaders /\ m < r
        BY <1>a, InvFacts, CoroFacts DEF Schedulers
  <2>2. m + 1 \in 0..r
        BY <2>1
  <2>3. QED
        BY <2>1, <2>2 DEF Coros
<1>b. SUFFICES ASSUME ~proc[p].torn PROVE proc[p].made + 1 \in Coros
      BY <1>a
<1>1. PICK s \in Schedulers : s = proc[p] /\ Sound(s) /\ LiveSound(s) /\ s.phase \in Scheduling
      BY InvFacts DEF Server, NoCo
<1>2. PICK m \in Nat, C \in Nat : m = s.made /\ C = Cardinality(Clients) /\ m <= C + 2
      BY CoroFacts DEF Schedulers
<1>3. PICK b : b = s.waiting[BadFd]
      OBVIOUS
<1>4. PICK G : G = Good(s)
      OBVIOUS
<1>5. PICK B : B = { k \in 1..m : s.given[k] = BadFd }
      OBVIOUS
<1>6. B \in SUBSET {b}
  <2>1. SUFFICES ASSUME NEW k \in 1..m, s.given[k] = BadFd PROVE k = b
        BY <1>5
  <2>2. k \in Coros /\ k > Server /\ k <= s.made
        BY <1>2 DEF Coros, MaxReaders, Server
  <2>3. s.pc[k] \in {"new", "recv"} /\ s.pc[k] \notin {"new", "lock"}
    <3>1. s.pc[k] \in {"new", "recv"}
          BY <1>1, <1>b, <2>1, <2>2 DEF LiveSound, Descriptors
    <3>2. s.pc[k] \notin {"new", "lock"}
          BY <1>1, <2>2, AcceptCommon
    <3>3. QED
          BY <3>1, <3>2
  <2>4. s.fd[k] = BadFd /\ s.pc[k] \in Blocking
        BY <1>1, <1>b, <2>1, <2>2, <2>3 DEF LiveSound, Works, Blocking
  <2>5. QED
        BY <1>1, <1>3, <2>2, <2>4 DEF LiveSound, Waits
<1>7. IsFiniteSet(B) /\ Cardinality(B) \in Nat /\ Cardinality(B) <= 1
  <2>1. IsFiniteSet({b}) /\ Cardinality({b}) = 1
        BY FS_Singleton
  <2>2. QED
        BY <1>6, <2>1, FS_Subset, FS_CardinalityType
<1>8. IsFiniteSet(G) /\ Cardinality(G) \in Nat /\ Cardinality(G) <= Cardinality(Taken)
      BY <1>1, <1>4, GoodFinite DEF NtyInv, BacklogSound
<1>9. Cardinality(Taken) \in Nat /\ Cardinality(Taken) <= C - 1
  <2>1. 1 \in DOMAIN backlog /\ backlog[1] \in Clients
        BY FirstAndRest DEF NtyInv, NtyTyped
  <2>2. Taken \in SUBSET (Clients \ {backlog[1]})
        BY <2>1 DEF Taken
  <2>3. IsFiniteSet(Clients \ {backlog[1]}) /\ Cardinality(Clients \ {backlog[1]}) = C - 1
        BY <1>2, <2>1, NtyAssumption, FS_RemoveElement
  <2>4. Cardinality(Taken) <= Cardinality(Clients \ {backlog[1]})
        BY <2>2, <2>3, FS_Subset
  <2>5. QED
        BY <2>3, <2>4, TakenFinite
<1>10. m <= Cardinality(G) + Cardinality(B)
  <2>1. G \cup B = 1..m
        BY <1>2, <1>4, <1>5 DEF Good
  <2>2. G \cap B = {}
        BY <1>4, <1>5 DEF Good
  <2>3. Cardinality(1..m) = m
        BY FS_Interval
  <2>4. Cardinality(G \cup B) = Cardinality(G) + Cardinality(B) - Cardinality(G \cap B)
        BY <1>7, <1>8, FS_Union
  <2>5. Cardinality(G \cap B) = 0
        BY <2>2, FS_EmptySet
  <2>6. PICK g, n \in Nat : g = Cardinality(G) /\ n = Cardinality(B)
        BY <1>7, <1>8
  <2>7. m = g + n - 0
        BY <2>1, <2>3, <2>4, <2>5, <2>6
  <2>8. m <= g + n
        BY <2>7
  <2>9. QED
        BY <2>6, <2>8
<1>11. m + 1 <= C + 2
  <2>1. PICK g, n, t \in Nat : g = Cardinality(G) /\ n = Cardinality(B) /\ t = Cardinality(Taken)
        BY <1>7, <1>8, <1>9
  <2>2. m <= g + n /\ n <= 1 /\ g <= t /\ t <= C - 1
        BY <1>7, <1>8, <1>9, <1>10, <2>1
  <2>3. QED
        BY <2>2
<1>12. QED
      BY <1>1, <1>2, <1>11 DEF Coros, MaxReaders


\* server() that calls accept again waits as before.
ListensAgain(s, u, t) ==
    /\ t.waiting = [s.waiting EXCEPT ![Listen] = Server]
    /\ t.interest = s.interest /\ t.fd = s.fd
    /\ t.running = NoCo
    /\ t.phase = u.phase /\ t.ready = u.ready /\ t.events = u.events /\ t.pc = u.pc
    /\ t.arg = u.arg /\ t.given = u.given /\ t.cli_fd = u.cli_fd /\ t.made = u.made /\ t.torn = u.torn
    /\ t.owner = u.owner

\* The accept after an accept finds the listening socket free.
LEMMA AcceptAgain ==
    ASSUME NEW s \in Schedulers, NEW u \in Schedulers, NEW t, t = PollInner(u, Server, Listen),
           s.fd[Server] = Listen, Listen \in s.interest,
           u.waiting = [s.waiting EXCEPT ![Listen] = NoCo],
           u.interest = s.interest \ {Listen}, u.fd = s.fd
    PROVE  t \in Schedulers /\ ListensAgain(s, u, t)
<1>0. Server \in Coros /\ Listen \in NtyFds /\ Listen # BadFd
      BY CoroFacts
<1>1. u.waiting[Listen] = NoCo
      BY <1>0 DEF Schedulers
<1>2. t \in Schedulers /\ WaitsOn(u, t, Server, Listen)
      BY <1>0, <1>1, PollInnerIs
<1>3. t.waiting = [u.waiting EXCEPT ![Listen] = Server]
      BY <1>2 DEF WaitsOn
<1>4. t.waiting = [s.waiting EXCEPT ![Listen] = Server]
      BY <1>0, <1>3 DEF Schedulers
<1>5. t.interest = s.interest
  <2>1. {Listen} \cap Open(u) = {Listen}
        BY DEF Open
  <2>2. QED
        BY <1>2, <2>1 DEF WaitsOn
<1>6. t.fd = s.fd
      BY <1>0, <1>2 DEF WaitsOn, Schedulers
<1>7. QED
      BY <1>2, <1>4, <1>5, <1>6 DEF WaitsOn, ListensAgain

\* accept returned v: e is what d becomes.
Returns(s, d, e, v) ==
    /\ \/ v = BadFd /\ e.owner = s.owner
       \/ /\ v \in 1..MaxFd /\ s.owner[v] = NoClient
          /\ \E c \in Clients : e.owner = [s.owner EXCEPT ![v] = c]
    /\ e.interest = d.interest /\ e.waiting = d.waiting
    /\ e.phase = d.phase /\ e.running = d.running /\ e.ready = d.ready
    /\ e.events = d.events /\ e.pc = d.pc /\ e.fd = d.fd /\ e.arg = d.arg
    /\ e.given = d.given /\ e.cli_fd = d.cli_fd /\ e.made = d.made /\ e.torn = d.torn
Serves(s, t, v) == t.made = s.made + 1 /\ t.torn = s.torn /\ t.given = [s.given EXCEPT ![s.made + 1] = v]

AfterAccept(e, v, stage) ==
    IF stage = "lock" THEN [Create(e, v) EXCEPT !.pc[Server] = "lock"]
    ELSE PollInner(Create(e, v), Server, Listen)

\* The process after accept: a reader for v, and server() in accept again or, in httpd,
\* before the lock.
LEMMA AcceptMakes ==
    ASSUME NEW s \in Schedulers, Sound(s), s.phase \in Scheduling, s.running = Server,
           s.pc[Server] = "accept", NEW v \in Given, s.made + 1 \in Coros,
           NEW d, d = PollDone(s, Listen), NEW e \in Schedulers,
           Returns(s, d, e, v),
           NEW stage \in {"accept", "lock"},
           NEW t, t = AfterAccept(e, v, stage)
    PROVE  /\ t \in Schedulers /\ Sound(t) /\ t.pc[Server] = stage
           /\ Serves(s, t, v)
<1>a. /\ \/ v = BadFd /\ e.owner = s.owner
         \/ /\ v \in 1..MaxFd /\ s.owner[v] = NoClient
            /\ \E c \in Clients : e.owner = [s.owner EXCEPT ![v] = c]
      /\ e.interest = d.interest /\ e.waiting = d.waiting
      /\ e.phase = d.phase /\ e.running = d.running /\ e.ready = d.ready
      /\ e.events = d.events /\ e.pc = d.pc /\ e.fd = d.fd /\ e.arg = d.arg
      /\ e.given = d.given /\ e.cli_fd = d.cli_fd /\ e.made = d.made /\ e.torn = d.torn
      BY DEF Returns
<1>0. Server \in Coros /\ Listen \in NtyFds /\ Listen # BadFd
      BY CoroFacts
<1>1. LiveSound(s)
      BY DEF Sound
<1>2. /\ s.phase = "events" /\ s.ready = <<>> /\ s.waiting[Listen] = Server
      /\ s.fd[Server] = Listen /\ Listen \in s.interest
      BY AcceptCommon
<1>3. /\ d \in Schedulers
      /\ d.interest = s.interest \ {Listen} /\ d.waiting = [s.waiting EXCEPT ![Listen] = NoCo]
      /\ d.phase = s.phase /\ d.running = s.running /\ d.ready = s.ready
      /\ d.events = s.events /\ d.pc = s.pc /\ d.fd = s.fd /\ d.arg = s.arg
      /\ d.given = s.given /\ d.cli_fd = s.cli_fd /\ d.made = s.made /\ d.torn = s.torn /\ d.owner = s.owner
  <2>1. d \in Schedulers /\ Woken(s, d, Listen)
        BY <1>0, PollDoneIs
  <2>2. QED
        BY <2>1 DEF Woken
<1>4. PICK k \in Coros : k = s.made + 1
      OBVIOUS
<1>5. PICK u : u = Create(e, v)
      OBVIOUS
<1>6. /\ u \in Schedulers
      /\ u.made = k /\ u.ready = Append(e.ready, k) /\ u.pc = [e.pc EXCEPT ![k] = "new"]
      /\ u.cli_fd = v /\ u.arg = [e.arg EXCEPT ![k] = v] /\ u.given = [e.given EXCEPT ![k] = v]
      /\ u.phase = e.phase /\ u.running = e.running /\ u.waiting = e.waiting
      /\ u.interest = e.interest /\ u.events = e.events /\ u.fd = e.fd
      /\ u.owner = e.owner /\ u.torn = s.torn
  <2>1. k = e.made + 1 /\ e.made + 1 \in Coros
        BY <1>a, <1>3, <1>4
  <2>2. e.torn = s.torn
        BY <1>a, <1>3
  <2>3. QED
        BY <1>5, <2>1, <2>2, CreateIs
<1>7. u.ready = <<k>>
  <2>1. e.ready = <<>>
        BY <1>a, <1>2, <1>3
  <2>2. QED
        BY <1>6, <2>1
<1>8. k # Server /\ k > Server /\ s.made \in Nat
      BY <1>4 DEF Schedulers, Server
<1>9. /\ u.pc = [s.pc EXCEPT ![k] = "new"] /\ u.pc[Server] = "accept"
      /\ u.waiting = [s.waiting EXCEPT ![Listen] = NoCo] /\ u.waiting[Listen] = NoCo
      /\ u.interest = s.interest \ {Listen}
      /\ u.phase = s.phase /\ u.running = s.running /\ u.events = s.events /\ u.fd = s.fd
      /\ u.arg = [s.arg EXCEPT ![k] = v] /\ u.given = [s.given EXCEPT ![k] = v]
  <2>1. /\ u.pc = [s.pc EXCEPT ![k] = "new"]
        /\ u.waiting = [s.waiting EXCEPT ![Listen] = NoCo]
        /\ u.interest = s.interest \ {Listen}
        /\ u.phase = s.phase /\ u.running = s.running /\ u.events = s.events /\ u.fd = s.fd
        /\ u.arg = [s.arg EXCEPT ![k] = v] /\ u.given = [s.given EXCEPT ![k] = v]
        BY <1>a, <1>3, <1>6
  <2>2. u.pc[Server] = "accept" /\ u.waiting[Listen] = NoCo
        BY <1>0, <1>8, <2>1 DEF Schedulers
  <2>3. QED
        BY <2>1, <2>2
<1>10. CASE stage = "lock"
  <2>1. [u.pc EXCEPT ![Server] = "lock"] \in [Coros -> Stages]
        BY <1>0, <1>6 DEF Schedulers, Stages
  <2>2. /\ t \in Schedulers /\ t.pc = [u.pc EXCEPT ![Server] = "lock"]
        /\ t.phase = u.phase /\ t.running = u.running /\ t.ready = u.ready
        /\ t.waiting = u.waiting /\ t.interest = u.interest /\ t.events = u.events
        /\ t.fd = u.fd /\ t.arg = u.arg /\ t.given = u.given /\ t.cli_fd = u.cli_fd
        /\ t.made = u.made /\ t.torn = u.torn /\ t.owner = u.owner
    <3>1. t = [u EXCEPT !.pc[Server] = "lock"]
          BY <1>5, <1>10 DEF AfterAccept
    <3>2. QED
          BY <1>6, <2>1, <3>1 DEF Schedulers
  <2>3. Makes(s, t, k, v)
        BY <1>a, <1>6, <1>7, <1>9, <2>2 DEF Makes
  <2>4. /\ t.pc = [[s.pc EXCEPT ![k] = "new"] EXCEPT ![Server] = stage]
        /\ t.running = IF stage = "lock" THEN Server ELSE NoCo
        /\ t.waiting = [s.waiting EXCEPT ![Listen] = IF stage = "lock" THEN NoCo ELSE Server]
        /\ t.interest = IF stage = "lock" THEN s.interest \ {Listen} ELSE s.interest
        /\ t.phase = s.phase /\ t.events = s.events /\ t.fd = s.fd /\ t.torn = s.torn
        BY <1>6, <1>9, <1>10, <2>2
  <2>5. Sound(t)
    <3>1. Made(s, t, k, v, stage)
          BY <2>3, <2>4 DEF Made
    <3>2. QED
          BY <1>4, <2>2, <3>1, MadeSound
  <2>6. t.pc[Server] = stage
        BY <1>0, <1>6, <1>10, <2>2 DEF Schedulers
  <2>7. QED
        BY <1>4, <1>6, <1>9, <2>2, <2>5, <2>6 DEF Serves
<1>11. CASE stage = "accept"
  <2>1. t \in Schedulers /\ ListensAgain(s, u, t)
    <3>1. t = PollInner(u, Server, Listen)
          BY <1>5, <1>11 DEF AfterAccept
    <3>2. QED
          BY <1>2, <1>6, <1>9, <3>1, AcceptAgain
  <2>2. Makes(s, t, k, v)
        BY <1>a, <1>6, <1>7, <1>9, <2>1 DEF Makes, ListensAgain
  <2>3. t.pc = [[s.pc EXCEPT ![k] = "new"] EXCEPT ![Server] = stage]
    <3>1. PICK c \in [Coros -> Stages] : c = u.pc /\ c[Server] = stage
          BY <1>6, <1>9, <1>11 DEF Schedulers
    <3>2. c = [c EXCEPT ![Server] = stage]
          BY <1>0, <3>1
    <3>3. QED
          BY <1>9, <2>1, <3>1, <3>2 DEF ListensAgain
  <2>4. t.fd = s.fd
        BY <2>1 DEF ListensAgain
  <2>5. /\ t.waiting = [s.waiting EXCEPT ![Listen] = IF stage = "lock" THEN NoCo ELSE Server]
        /\ t.interest = IF stage = "lock" THEN s.interest \ {Listen} ELSE s.interest
        BY <1>11, <2>1 DEF ListensAgain
  <2>6. /\ t.running = IF stage = "lock" THEN Server ELSE NoCo
        /\ t.phase = s.phase /\ t.events = s.events /\ t.torn = s.torn
        BY <1>6, <1>9, <1>11, <2>1 DEF ListensAgain
  <2>7. Sound(t)
    <3>1. Made(s, t, k, v, stage)
          BY <2>2, <2>3, <2>4, <2>5, <2>6 DEF Made
    <3>2. QED
          BY <1>4, <2>1, <3>1, MadeSound
  <2>8. t.pc[Server] = stage
        BY <1>9, <1>11, <2>1 DEF ListensAgain
  <2>9. QED
        BY <1>4, <1>6, <1>9, <2>1, <2>7, <2>8 DEF ListensAgain, Serves
<1>12. QED
      BY <1>10, <1>11


\* With accept the lock is given back.
LEMMA LockGiven ==
    ASSUME NtyInv, NEW p \in Procs, proc[p].phase \in Scheduling, proc[p].pc[Server] = "accept",
           \A q \in Procs : q # p => proc'[q] = proc[q], UNCHANGED setup,
           IF setup.prog = "httpd" THEN accept_mtx' = 0 /\ proc'[p].pc[Server] # "accept"
           ELSE accept_mtx' = accept_mtx
    PROVE  LockSound' /\ accept_mtx' \in {0, 1}
<1>1. p \in setup.procs /\ setup.procs \subseteq Procs /\ accept_mtx \in {0, 1} /\ LockSound
      BY InvFacts DEF NtyInv, NtyTyped
<1>2. CASE setup.prog # "httpd"
      BY <1>1, <1>2 DEF LockSound
<1>3. CASE setup.prog = "httpd"
  <2>1. accept_mtx = 1
        BY <1>1, <1>3 DEF LockSound
  <2>2. \A q \in setup.procs : q # p => proc[q].pc[Server] # "accept"
        BY <1>1, <1>3, <2>1 DEF LockSound
  <2>3. \A q \in setup.procs : proc'[q].pc[Server] # "accept"
        BY <1>1, <1>3, <2>2
  <2>4. QED
        BY <1>3, <2>3 DEF LockSound
<1>4. QED
      BY <1>2, <1>3

\* The reader that is made for a client counts once, and so does the client.
LEMMA BacklogTaken ==
    ASSUME NtyInv, NEW p \in Procs, backlog # <<>>, backlog' = Tail(backlog), UNCHANGED client,
           NEW v \in Given, v # BadFd, proc[p].made + 1 \in Coros,
           proc'[p].made = proc[p].made + 1,
           proc'[p].given = [proc[p].given EXCEPT ![proc[p].made + 1] = v],
           \A q \in Procs : q # p => proc'[q] = proc[q]
    PROVE  BacklogSound' /\ backlog' \in Seq(Clients)
<1>1. backlog \in Seq(Clients) /\ BacklogSound
      BY DEF NtyInv, NtyTyped
<1>2. /\ 1 \in DOMAIN backlog /\ backlog[1] \in Clients
      /\ Tail(backlog) \in Seq(Clients) /\ IsRest(backlog, Tail(backlog))
      BY <1>1, FirstAndRest
<1>3. /\ backlog' \in Seq(Clients)
      /\ \A i \in DOMAIN backlog' :
           i + 1 \in DOMAIN backlog /\ backlog'[i] = backlog[i + 1] /\ i \in Nat \ {0}
      BY <1>2 DEF IsRest
<1>4. \A i, j \in DOMAIN backlog' : backlog'[i] = backlog'[j] => i = j
  <2>1. ASSUME NEW i \in DOMAIN backlog', NEW j \in DOMAIN backlog', backlog'[i] = backlog'[j]
        PROVE  i = j
    <3>1. i + 1 = j + 1
          BY <1>1, <1>3, <2>1 DEF BacklogSound
    <3>2. QED
          BY <1>3, <3>1
  <2>2. QED
        BY <2>1
<1>5. \A i \in DOMAIN backlog' : client'[backlog'[i]].st # "off"
      BY <1>1, <1>3 DEF BacklogSound
<1>6. PICK h \in Clients : h = backlog[1] /\ 1 \in DOMAIN backlog
      BY <1>2
<1>7. Taken \cup {h} \subseteq Taken' /\ h \notin Taken
  <2>1. h \notin Taken
        BY <1>6 DEF Taken
  <2>2. \A i \in DOMAIN backlog' : backlog'[i] # h
    <3>1. ASSUME NEW i \in DOMAIN backlog', backlog'[i] = h PROVE FALSE
      <4>1. i + 1 = 1
            BY <1>1, <1>3, <1>6, <3>1 DEF BacklogSound
      <4>2. QED
            BY <1>3, <4>1
    <3>2. QED
          BY <3>1
  <2>3. client'[h].st # "off"
        BY <1>1, <1>6 DEF BacklogSound
  <2>4. h \in Taken'
        BY <2>2, <2>3 DEF Taken
  <2>5. ASSUME NEW c \in Taken PROVE c \in Taken'
    <3>1. c \in Clients /\ client'[c].st # "off" /\ \A i \in DOMAIN backlog : backlog[i] # c
          BY DEF Taken
    <3>2. \A i \in DOMAIN backlog' : backlog'[i] # c
          BY <1>3, <3>1
    <3>3. QED
          BY <3>1, <3>2 DEF Taken
  <2>6. QED
        BY <2>1, <2>4, <2>5
<1>8. PICK T \in Nat, T1 \in Nat :
           T = Cardinality(Taken) /\ T1 = Cardinality(Taken') /\ T + 1 <= T1
  <2>1. IsFiniteSet(Taken') /\ Cardinality(Taken') \in Nat
        BY NtyAssumption, FS_Subset, FS_CardinalityType DEF Taken
  <2>2. Cardinality(Taken \cup {h}) = Cardinality(Taken) + 1
        BY <1>7, TakenFinite, FS_AddElement
  <2>3. Cardinality(Taken \cup {h}) <= Cardinality(Taken')
        BY <1>7, <2>1, FS_Subset
  <2>4. QED
        BY <2>1, <2>2, <2>3, TakenFinite
<1>9. PICK m \in Nat, k \in Coros : m = proc[p].made /\ k = m + 1
      BY InvFacts, CoroFacts DEF Schedulers
<1>10. Good(proc[p])' = Good(proc[p]) \cup {k} /\ k \notin Good(proc[p])
  <2>1. proc[p].given \in [Coros -> Given]
        BY InvFacts DEF Schedulers
  <2>2. proc'[p].given[k] = v /\ \A j \in 1..m : proc'[p].given[j] = proc[p].given[j]
    <3>1. PICK C \in Nat : C = Cardinality(Clients)
          BY CoroFacts
    <3>2. \A j \in 1..m : j \in Coros /\ j # k
          BY <1>9, <3>1 DEF Coros, MaxReaders
    <3>3. QED
          BY <1>9, <2>1, <3>2
  <2>3. 1..(m + 1) = (1..m) \cup {k} /\ k \notin 1..m
        BY <1>9
  <2>4. Good(proc[p])' = { j \in (1..m) \cup {k} : proc'[p].given[j] # BadFd }
        BY <1>9, <2>3 DEF Good
  <2>5. Good(proc[p]) = { j \in 1..m : proc[p].given[j] # BadFd }
        BY <1>9 DEF Good
  <2>6. QED
        BY <2>2, <2>3, <2>4, <2>5
<1>11. ASSUME NEW q \in Procs PROVE Cardinality(Good(proc[q])') <= Cardinality(Taken')
  <2>1. PICK g \in Nat : g = Cardinality(Good(proc[q])) /\ g <= T
        BY <1>1, <1>8, GoodFinite DEF BacklogSound
  <2>2. CASE q = p
    <3>1. Cardinality(Good(proc[q]) \cup {k}) = g + 1
          BY <1>10, <2>1, <2>2, GoodFinite, FS_AddElement
    <3>2. g + 1 <= T1
          BY <1>8, <2>1
    <3>3. QED
          BY <1>8, <1>10, <2>2, <3>1, <3>2
  <2>3. CASE q # p
    <3>1. Good(proc[q])' = Good(proc[q])
          BY <2>3 DEF Good
    <3>2. g <= T1
          BY <1>8, <2>1
    <3>3. QED
          BY <1>8, <2>1, <3>1, <3>2
  <2>4. QED
        BY <2>2, <2>3
<1>12. QED
      BY <1>3, <1>4, <1>5, <1>11 DEF BacklogSound


\* The step of accept, whatever became of server().
LEMMA AcceptStep ==
    ASSUME NtyInv, NEW p \in Procs, proc[p].phase \in Scheduling, proc[p].pc[Server] = "accept",
           NEW t \in Schedulers, Sound(t), proc' = [proc EXCEPT ![p] = t],
           UNCHANGED <<setup, client>>, backlog' \in Seq(Clients), BacklogSound',
           IF setup.prog = "httpd" THEN accept_mtx' = 0 /\ t.pc[Server] # "accept"
           ELSE accept_mtx' = accept_mtx /\ t.pc[Server] = "accept",
           t.torn = proc[p].torn
    PROVE  NtyInv'
<1>1. proc'[p] = t /\ \A q \in Procs : q # p => proc'[q] = proc[q]
      BY OneProcess
<1>2. LockSound' /\ accept_mtx' \in {0, 1}
      BY <1>1, LockGiven
<1>3. KvSound'
  <2>1. setup.prog = "kv" => setup.prog # "httpd"
        OBVIOUS
  <2>2. QED
        BY <1>1, <2>1, KvKept
<1>4. QED
      BY <1>2, <1>3, LoudStep

\* accept, with what follows in each of the programs, keeps the invariant.
LEMMA ServerAcceptsKeeps == ASSUME NtyInv, NEW p \in Procs, ServerAccepts(p) PROVE NtyInv'
<1>1. PICK s \in Schedulers :
           s = proc[p] /\ Sound(s) /\ s.running = Server /\ s.pc[Server] = "accept"
      BY InvFacts DEF ServerAccepts
<1>2. s.phase \in Scheduling /\ setup.limit \in 0..MaxFd
      BY <1>1, InvFacts DEF Server, NoCo
<1>3. backlog # <<>> /\ UNCHANGED <<setup, client>>
      BY DEF ServerAccepts
<1>a. s.torn => s.made < MaxReaders
  <2>1. PICK d : d = PollDone(s, Listen)
        OBVIOUS
  <2>2. d.torn = s.torn /\ d.made = s.made
    <3>1. Listen \in NtyFds
          BY CoroFacts
    <3>2. Woken(s, d, Listen)
          BY <2>1, <3>1, PollDoneIs
    <3>3. QED
          BY <3>2 DEF Woken
  <2>3. d.torn => d.made < MaxReaders
        BY <1>1, <2>1 DEF ServerAccepts
  <2>4. QED
        BY <2>2, <2>3
<1>4. s.made + 1 \in Coros
      BY <1>1, <1>3, <1>a, RoomForOne
<1>5. PICK stage \in {"accept", "lock"} :
           stage = IF setup.prog = "httpd" THEN "lock" ELSE "accept"
      OBVIOUS
<1>6. PICK d : d = PollDone(s, Listen)
      OBVIOUS
<1>7. d \in Schedulers /\ Woken(s, d, Listen)
      BY <1>6, CoroFacts, PollDoneIs
<1>8. CASE Accepted(p, d, BadFd) /\ UNCHANGED backlog
  <2>1. CASE setup.prog = "httpd"
    <3>1. PICK t : t = Exit(d, Server)
          OBVIOUS
    <3>2. t \in Schedulers /\ Returned(d, t, Server)
          BY <1>7, <3>1, CoroFacts, ExitIs
    <3>3. /\ t.pc = [s.pc EXCEPT ![Server] = "none"] /\ t.running = NoCo
          /\ t.waiting = [s.waiting EXCEPT ![Listen] = NoCo]
          /\ t.fd = [s.fd EXCEPT ![Server] = BadFd] /\ t.interest = s.interest \ {Listen}
          /\ t.phase = s.phase /\ t.ready = s.ready /\ t.events = s.events /\ t.arg = s.arg
          /\ t.given = s.given /\ t.cli_fd = s.cli_fd /\ t.made = s.made /\ t.torn = s.torn /\ t.owner = s.owner
          BY <1>7, <3>2 DEF Woken, Returned
    <3>4. Sound(t)
          BY <1>1, <1>2, <3>2, <3>3, ServerEndsSound
    <3>5. proc' = [proc EXCEPT ![p] = t] /\ accept_mtx' = 0
          BY <1>8, <2>1, <3>1 DEF Accepted
    <3>6. t.pc[Server] # "accept"
          BY <3>3, CoroFacts DEF Schedulers
    <3>7. \A q \in Procs : proc'[q].given = proc[q].given /\ proc'[q].made = proc[q].made
      <4>1. proc'[p] = t /\ \A q \in Procs : q # p => proc'[q] = proc[q]
            BY <1>1, <1>2, <1>3, <3>2, <3>4, <3>5, OneProcess
      <4>2. QED
            BY <1>1, <3>3, <4>1
    <3>8. BacklogSound'
          BY <1>3, <1>8, <3>7, BacklogKept
    <3>9. backlog' \in Seq(Clients)
          BY <1>8 DEF NtyInv, NtyTyped
    <3>10. t.torn = s.torn
          BY <3>3
    <3>11. QED
          BY <1>1, <1>2, <1>3, <2>1, <3>2, <3>4, <3>5, <3>6, <3>8, <3>9, <3>10, AcceptStep
  <2>2. CASE setup.prog # "httpd"
    <3>1. PICK t : t = PollInner(Create(d, BadFd), Server, Listen)
          OBVIOUS
    <3>2. /\ t \in Schedulers /\ Sound(t) /\ t.pc[Server] = "accept"
          /\ t.made = s.made + 1 /\ t.torn = s.torn /\ t.given = [s.given EXCEPT ![s.made + 1] = BadFd]
      <4>1. Returns(s, d, d, BadFd) /\ BadFd \in Given
            BY <1>7, CoroFacts DEF Woken, Returns
      <4>2. PICK st \in {"accept", "lock"} : st = "accept"
            OBVIOUS
      <4>3. t = AfterAccept(d, BadFd, st)
            BY <3>1, <4>2 DEF AfterAccept
      <4>4. t \in Schedulers /\ Sound(t) /\ t.pc[Server] = st /\ Serves(s, t, BadFd)
            BY <1>1, <1>2, <1>4, <1>6, <1>7, <4>1, <4>2, <4>3, AcceptMakes
      <4>5. QED
            BY <4>2, <4>4 DEF Serves
    <3>3. proc' = [proc EXCEPT ![p] = t] /\ accept_mtx' = accept_mtx
          BY <1>8, <2>2, <3>1 DEF Accepted
    <3>4. proc'[p] = t /\ \A q \in Procs : q # p => proc'[q] = proc[q]
          BY <1>1, <1>2, <1>3, <3>2, <3>3, OneProcess
    <3>5. \A q \in Procs : Good(proc[q])' = Good(proc[q])
      <4>1. PICK m \in Nat, k \in Coros : m = s.made /\ k = m + 1
            BY <1>4, CoroFacts DEF Schedulers
      <4>2. t.given[k] = BadFd /\ \A j \in 1..m : t.given[j] = s.given[j]
        <5>1. \A j \in 1..m : j \in Coros /\ j # k
              BY <4>1, CoroFacts DEF Coros, MaxReaders
        <5>2. QED
              BY <3>2, <4>1, <5>1 DEF Schedulers
      <4>3. 1..(m + 1) = (1..m) \cup {k}
            BY <4>1
      <4>4. { j \in (1..m) \cup {k} : t.given[j] # BadFd } = { j \in 1..m : s.given[j] # BadFd }
            BY <4>2
      <4>5. Good(t) = Good(s)
            BY <3>2, <4>1, <4>3, <4>4 DEF Good
      <4>6. Good(proc[p])' = Good(t)
            BY <3>4 DEF Good
      <4>7. \A q \in Procs : q # p => Good(proc[q])' = Good(proc[q])
            BY <3>4 DEF Good
      <4>8. QED
            BY <1>1, <4>5, <4>6, <4>7
    <3>6. BacklogSound'
          BY <1>3, <1>8, <3>5, BacklogHolds
    <3>7. backlog' \in Seq(Clients)
          BY <1>8 DEF NtyInv, NtyTyped
    <3>8. QED
          BY <1>1, <1>2, <1>3, <2>2, <3>2, <3>3, <3>6, <3>7, AcceptStep
  <2>3. QED
        BY <2>1, <2>2
<1>9. CASE /\ Free(d) # {} /\ backlog' = Tail(backlog)
           /\ Accepted(p, [d EXCEPT !.owner[Smallest(Free(d))] = Head(backlog)], Smallest(Free(d)))
  <2>1. PICK f : f = Smallest(Free(d))
        OBVIOUS
  <2>2. f \in 1..MaxFd /\ s.owner[f] = NoClient /\ f \in Given /\ f # BadFd
    <3>1. Free(d) \in SUBSET (1..setup.limit) /\ setup.limit \in Nat
          BY <1>2, CoroFacts DEF Free
    <3>2. f \in Free(d)
          BY <1>9, <2>1, <3>1, SmallestIs
    <3>3. f \in 1..setup.limit /\ d.owner[f] = NoClient
          BY <3>2 DEF Free
    <3>4. f \in 1..MaxFd
          BY <1>2, <3>3, CoroFacts
    <3>5. QED
          BY <1>7, <3>3, <3>4, CoroFacts DEF Woken
  <2>3. PICK h \in Clients : h = Head(backlog)
        BY <1>3, FirstAndRest DEF NtyInv, NtyTyped
  <2>4. PICK e : e = [d EXCEPT !.owner[f] = h]
        OBVIOUS
  <2>5. /\ e \in Schedulers /\ e.owner = [s.owner EXCEPT ![f] = h]
        /\ e.interest = d.interest /\ e.waiting = d.waiting
        /\ e.phase = d.phase /\ e.running = d.running /\ e.ready = d.ready
        /\ e.events = d.events /\ e.pc = d.pc /\ e.fd = d.fd /\ e.arg = d.arg
        /\ e.given = d.given /\ e.cli_fd = d.cli_fd /\ e.made = d.made /\ e.torn = d.torn
    <3>1. PICK o : o = [d.owner EXCEPT ![f] = h]
          OBVIOUS
    <3>2. o \in [1..MaxFd -> Clients \cup {NoClient}]
          BY <1>7, <2>2, <3>1 DEF Schedulers
    <3>3. e = [d EXCEPT !.owner = o]
          BY <2>4, <3>1
    <3>4. o = [s.owner EXCEPT ![f] = h]
          BY <1>7, <3>1 DEF Woken
    <3>5. QED
          BY <1>7, <3>2, <3>3, <3>4 DEF Schedulers
  <2>6. PICK t : t = AfterAccept(e, f, stage)
        OBVIOUS
  <2>7. /\ t \in Schedulers /\ Sound(t) /\ t.pc[Server] = stage
        /\ t.made = s.made + 1 /\ t.torn = s.torn /\ t.given = [s.given EXCEPT ![s.made + 1] = f]
    <3>1. Returns(s, d, e, f)
          BY <2>2, <2>5 DEF Returns
    <3>2. t \in Schedulers /\ Sound(t) /\ t.pc[Server] = stage /\ Serves(s, t, f)
          BY <1>1, <1>2, <1>4, <1>6, <2>2, <2>5, <2>6, <3>1, AcceptMakes
    <3>3. QED
          BY <3>2 DEF Serves
  <2>8. /\ proc' = [proc EXCEPT ![p] = t]
        /\ IF setup.prog = "httpd" THEN accept_mtx' = 0 /\ t.pc[Server] # "accept"
           ELSE accept_mtx' = accept_mtx /\ t.pc[Server] = "accept"
    <3>1. Accepted(p, e, f)
          BY <1>9, <2>1, <2>3, <2>4
    <3>2. CASE setup.prog = "httpd"
          BY <1>5, <2>2, <2>6, <2>7, <3>1, <3>2 DEF Accepted, AfterAccept
    <3>3. CASE setup.prog # "httpd"
          BY <1>5, <2>6, <2>7, <3>1, <3>3 DEF Accepted, AfterAccept
    <3>4. QED
          BY <3>2, <3>3
  <2>9. proc'[p] = t /\ \A q \in Procs : q # p => proc'[q] = proc[q]
        BY <1>1, <1>2, <1>3, <2>7, <2>8, OneProcess
  <2>10. BacklogSound' /\ backlog' \in Seq(Clients)
        BY <1>1, <1>3, <1>4, <1>9, <2>2, <2>7, <2>9, BacklogTaken
  <2>11. QED
        BY <1>1, <1>2, <1>3, <2>7, <2>8, <2>10, AcceptStep
<1>10. QED
      BY <1>1, <1>6, <1>8, <1>9 DEF ServerAccepts


\* A reader starts: it finds the descriptor that was accepted for it, or the stack is
\* torn, and in kv nobody then waits in vain for the listening socket.
LEMMA ReaderStartsKeeps == ASSUME NtyInv, NEW p \in Procs, ReaderStarts(p) PROVE NtyInv'
<1>1. PICK s \in Schedulers, k \in Coros :
           s = proc[p] /\ Sound(s) /\ s.running = k /\ k > Server /\ s.pc[k] = "new"
  <2>1. proc[p] \in Schedulers /\ proc[p].running > Server
        BY InvFacts DEF ReaderStarts
  <2>2. proc[p].running # NoCo
        BY <2>1 DEF Server, NoCo
  <2>3. proc[p].running \in Coros
        BY <2>1, <2>2 DEF Schedulers
  <2>4. QED
        BY <2>1, <2>3, InvFacts DEF ReaderStarts
<1>2. s.phase \in Scheduling /\ LiveSound(s) /\ k # Server
      BY <1>1, InvFacts, CoroFacts DEF Server
<1>3. PICK b \in BOOLEAN : b = (s.torn \/ Torn(s))
      BY DEF Schedulers, Torn
<1>4. PICK f \in Argument(s, k) :
           proc' = [proc EXCEPT ![p] =
              PollInner([s EXCEPT !.pc[k] = "recv", !.torn = @ \/ Torn(s)], k, f)]
  <2>1. proc \in [Procs -> Schedulers]
        BY DEF NtyInv, NtyTyped
  <2>2. QED
        BY <1>1, <2>1 DEF ReaderStarts
<1>a. s.cli_fd = s.given[k] /\ s.arg = s.given /\ s.given[k] \in Given
      BY <1>1, <1>2 DEF LiveSound, Works, Sound, Schedulers
<1>b. f \in NtyFds /\ (Torn(s) \/ f = s.given[k])
  <2>1. Torn(s) \/ f = s.given[k]
        BY <1>4, <1>a DEF Argument
  <2>2. Torn(s) => setup.prog = "kv"
        BY DEF Torn
  <2>3. Torn(s) => f \in NtyFds
        BY <1>4, <2>2 DEF Argument
  <2>4. QED
        BY <1>a, <2>1, <2>3, CoroFacts
<1>c. /\ b \/ (~s.torn /\ f = s.given[k])
      /\ b => s.torn \/ setup.prog = "kv"
      BY <1>3, <1>b DEF Torn
<1>d. s.waiting[f] = NoCo => f # Listen
  <2>1. CASE f = s.given[k]
        BY <1>a, <2>1, CoroFacts
  <2>2. CASE Torn(s)
    <3>1. s.made > 0
      <4>1. PICK m \in Nat : m = s.made
            BY CoroFacts DEF Schedulers
      <4>2. ~(k > m) /\ k \in Nat /\ k > 0
            BY <1>1, <1>2, <4>1, CoroFacts DEF LiveSound, Roles, Server
      <4>3. m > 0
            BY <4>2
      <4>4. QED
            BY <4>1, <4>3
    <3>2. s.pc[Server] = "accept"
          BY <1>1, <1>2, <2>2, <3>1 DEF NtyInv, KvSound, Torn
    <3>3. s.waiting[Listen] = Server
          BY <1>2, <3>2, CoroFacts DEF LiveSound, Works, Waits, Blocking
    <3>4. QED
          BY <3>3, CoroFacts
  <2>3. QED
        BY <1>b, <2>1, <2>2
<1>5. PICK u : u = [s EXCEPT !.pc[k] = "recv", !.torn = b]
      OBVIOUS
<1>6. /\ u \in Schedulers /\ u.pc = [s.pc EXCEPT ![k] = "recv"]
      /\ u.phase = s.phase /\ u.running = s.running /\ u.ready = s.ready
      /\ u.waiting = s.waiting /\ u.interest = s.interest /\ u.events = s.events
      /\ u.fd = s.fd /\ u.arg = s.arg /\ u.given = s.given /\ u.cli_fd = s.cli_fd
      /\ u.made = s.made /\ u.torn = b /\ u.owner = s.owner
  <2>1. [s.pc EXCEPT ![k] = "recv"] \in [Coros -> Stages]
        BY DEF Schedulers, Stages
  <2>2. QED
        BY <1>5, <2>1 DEF Schedulers
<1>7. PICK t : t = PollInner(u, k, f)
      OBVIOUS
<1>8. proc' = [proc EXCEPT ![p] = t]
  <2>1. [s EXCEPT !.pc[k] = "recv", !.torn = @ \/ Torn(s)] = u
        BY <1>3, <1>5 DEF Schedulers
  <2>2. QED
        BY <1>4, <1>7, <2>1
<1>9. UNCHANGED <<setup, accept_mtx, backlog, client>>
      BY DEF ReaderStarts
<1>10. CASE s.waiting[f] = NoCo
  <2>1. t \in Schedulers /\ WaitsOn(u, t, k, f)
        BY <1>6, <1>7, <1>10, <1>b, PollInnerIs
  <2>2. /\ t.pc = [s.pc EXCEPT ![k] = "recv"] /\ t.running = NoCo
        /\ t.waiting = [s.waiting EXCEPT ![f] = k] /\ t.fd = [s.fd EXCEPT ![k] = f]
        /\ t.interest = s.interest \cup ({f} \cap Open(s))
        /\ t.phase = s.phase /\ t.ready = s.ready /\ t.events = s.events /\ t.arg = s.arg
        /\ t.given = s.given /\ t.cli_fd = s.cli_fd /\ t.made = s.made /\ t.torn = b /\ t.owner = s.owner
        BY <1>6, <2>1 DEF WaitsOn, Open
  <2>3. Sound(t)
        BY SMTT(30), <1>1, <1>2, <1>b, <1>c, <1>d, <1>10, <2>1, <2>2, ReaderWaitsSound
  <2>4. t.pc[Server] = s.pc[Server]
        BY <1>2, <2>2, CoroFacts DEF Schedulers
  <2>5. t.torn => s.torn \/ setup.prog = "kv"
        BY <1>c, <2>2
  <2>6. QED
        BY ZenonT(60), <1>1, <1>2, <1>8, <1>9, <2>1, <2>2, <2>3, <2>4, <2>5, SchedulerStep
<1>11. CASE s.waiting[f] # NoCo
  <2>1. /\ t \in Schedulers /\ t.running = NoCo /\ t.phase = "aborted"
        /\ t.waiting = u.waiting /\ t.pc = u.pc
        /\ t.arg = u.arg /\ t.given = u.given /\ t.made = u.made /\ t.torn = u.torn
        BY <1>6, <1>7, <1>11, <1>b, PollInnerFails
  <2>2. /\ t.pc = [s.pc EXCEPT ![k] = "recv"] /\ t.waiting = s.waiting
        /\ t.arg = s.arg /\ t.given = s.given /\ t.made = s.made /\ t.torn = b
        BY <1>6, <2>1
  <2>3. Sound(t)
        BY <1>1, <1>2, <1>b, <1>c, <1>11, <2>1, <2>2, ReaderAbortsSound
  <2>4. t.pc[Server] = s.pc[Server]
        BY <1>2, <2>2, CoroFacts DEF Schedulers
  <2>5. t.torn => s.torn \/ setup.prog = "kv"
        BY <1>c, <2>2
  <2>6. QED
        BY ZenonT(60), <1>1, <1>2, <1>8, <1>9, <2>1, <2>2, <2>3, <2>4, <2>5, SchedulerStep
<1>12. QED
      BY <1>10, <1>11

\* One client changes; the others are as they were.
LEMMA ClientsKept ==
    ASSUME NtyInv, NEW c \in Clients, NEW r \in ClientStates, r.got <= r.asked,
           client[c].st # "off" => r.st # "off", client' = [client EXCEPT ![c] = r]
    PROVE  /\ client' \in [Clients -> ClientStates]
           /\ \A b \in Clients : client'[b].got <= client'[b].asked
           /\ \A b \in Clients : client[b].st # "off" => client'[b].st # "off"
BY DEF NtyInv, NtyTyped

\* A reader that calls recv again, and one that is done.
LEMMA ReaderAgain ==
    ASSUME NEW s \in Schedulers, Sound(s), s.phase \in Scheduling,
           NEW k \in Coros, k > Server, s.running = k, s.pc[k] = "recv",
           NEW f \in 1..MaxFd, f = s.fd[k], NEW t, t = PollInner(PollDone(s, f), k, f)
    PROVE  /\ t \in Schedulers /\ Sound(t)
           /\ t.given = s.given /\ t.made = s.made /\ t.torn = s.torn /\ t.pc = s.pc
<1>0. f \in NtyFds /\ f # BadFd
      BY CoroFacts
<1>1. s.waiting[f] = k
  <2>1. LiveSound(s)
        BY DEF Sound
  <2>2. QED
        BY <2>1 DEF LiveSound, Waits, Blocking
<1>2. f \in s.interest /\ f \in Open(s)
  <2>1. LiveSound(s) /\ k # NoCo
        BY CoroFacts DEF Sound
  <2>2. f \in s.interest
        BY <2>1 DEF LiveSound, Resumed, Blocking
  <2>3. QED
        BY <2>1, <2>2 DEF LiveSound, Polled
<1>3. PICK d : d = PollDone(s, f)
      OBVIOUS
<1>4. d \in Schedulers /\ Woken(s, d, f)
      BY <1>0, <1>3, PollDoneIs
<1>5. d.waiting[f] = NoCo
      BY <1>0, <1>4 DEF Woken, Schedulers
<1>6. t \in Schedulers /\ WaitsOn(d, t, k, f)
      BY <1>0, <1>3, <1>4, <1>5, PollInnerIs
<1>7. t.waiting = s.waiting
      BY <1>0, <1>1, <1>4, <1>6 DEF Woken, WaitsOn, Schedulers
<1>8. t.fd = s.fd
      BY <1>4, <1>6 DEF Woken, WaitsOn, Schedulers
<1>9. t.interest = s.interest
  <2>1. {f} \cap Open(d) = {f}
        BY <1>2, <1>4 DEF Woken, Open
  <2>2. QED
        BY <1>2, <1>4, <1>6, <2>1 DEF Woken, WaitsOn
<1>10. /\ t.running = NoCo /\ t.phase = s.phase /\ t.ready = s.ready
       /\ t.events = s.events /\ t.pc = s.pc /\ t.arg = s.arg /\ t.given = s.given
       /\ t.cli_fd = s.cli_fd /\ t.made = s.made /\ t.torn = s.torn /\ t.owner = s.owner
      BY <1>4, <1>6 DEF Woken, WaitsOn
<1>11. Sound(t)
      BY <1>6, <1>7, <1>8, <1>9, <1>10, ReaderAgainSound
<1>12. QED
      BY <1>6, <1>10, <1>11

Closed(d, f) == [d EXCEPT !.owner[f] = NoClient, !.interest = @ \ {f}]

\* A reader that closes its descriptor and returns leaves its process sound.
LEMMA ReaderDone ==
    ASSUME NEW s \in Schedulers, Sound(s), s.phase \in Scheduling,
           NEW k \in Coros, k > Server, s.running = k, s.pc[k] = "recv",
           NEW f \in 1..MaxFd, f = s.fd[k], NEW d, d = PollDone(s, f),
           NEW t, t = Exit(Closed(d, f), k)
    PROVE  /\ t \in Schedulers /\ Sound(t)
           /\ t.given = s.given /\ t.made = s.made /\ t.torn = s.torn /\ t.pc = [s.pc EXCEPT ![k] = "none"]
<1>0. f \in NtyFds
      BY CoroFacts
<1>1. d \in Schedulers /\ Woken(s, d, f)
      BY <1>0, PollDoneIs
<1>2. PICK o : o = [s.owner EXCEPT ![f] = NoClient]
      OBVIOUS
<1>3. o \in [1..MaxFd -> Clients \cup {NoClient}]
      BY <1>2 DEF Schedulers
<1>4. PICK i : i = s.interest \ {f}
      OBVIOUS
<1>5. i \in SUBSET Watched
      BY <1>4 DEF Schedulers
<1>6. PICK e : e = [d EXCEPT !.owner = o, !.interest = i]
      OBVIOUS
<1>7. /\ e \in Schedulers /\ e.owner = o /\ e.interest = i /\ e.waiting = d.waiting
      /\ e.phase = d.phase /\ e.running = d.running /\ e.ready = d.ready
      /\ e.events = d.events /\ e.pc = d.pc /\ e.fd = d.fd /\ e.arg = d.arg
      /\ e.given = d.given /\ e.cli_fd = d.cli_fd /\ e.made = d.made /\ e.torn = d.torn
      BY <1>1, <1>3, <1>5, <1>6 DEF Schedulers
<1>8. t = Exit(e, k)
  <2>1. d.interest \ {f} = i /\ [d.owner EXCEPT ![f] = NoClient] = o
        BY <1>1, <1>2, <1>4 DEF Woken
  <2>2. Closed(d, f) = e
        BY <1>1, <1>6, <2>1 DEF Schedulers, Closed
  <2>3. QED
        BY <2>2
<1>9. t \in Schedulers /\ Returned(e, t, k)
      BY <1>7, <1>8, ExitIs
<1>10. /\ t.pc = [s.pc EXCEPT ![k] = "none"] /\ t.running = NoCo
       /\ t.waiting = [s.waiting EXCEPT ![f] = NoCo] /\ t.fd = [s.fd EXCEPT ![k] = BadFd]
       /\ t.interest = s.interest \ {f} /\ t.owner = [s.owner EXCEPT ![f] = NoClient]
       /\ t.phase = s.phase /\ t.ready = s.ready /\ t.events = s.events /\ t.arg = s.arg
       /\ t.given = s.given /\ t.cli_fd = s.cli_fd /\ t.made = s.made /\ t.torn = s.torn
      BY <1>1, <1>2, <1>4, <1>7, <1>9 DEF Woken, Returned
<1>11. Sound(t)
      BY SMTT(30), <1>9, <1>10, ReaderEndsSound
<1>12. QED
      BY <1>9, <1>10, <1>11

\* recv, with what follows in each of the programs, keeps the invariant.
LEMMA ReaderReadsKeeps == ASSUME NtyInv, NEW p \in Procs, ReaderReads(p) PROVE NtyInv'
<1>1. PICK s \in Schedulers, k \in Coros :
           s = proc[p] /\ Sound(s) /\ s.running = k /\ k > Server /\ s.pc[k] = "recv"
  <2>1. proc[p] \in Schedulers /\ proc[p].running > Server
        BY InvFacts DEF ReaderReads
  <2>2. proc[p].running # NoCo
        BY <2>1 DEF Server, NoCo
  <2>3. proc[p].running \in Coros
        BY <2>1, <2>2 DEF Schedulers
  <2>4. QED
        BY ZenonT(60), <2>1, <2>3, InvFacts DEF ReaderReads
<1>2. s.phase \in Scheduling /\ k # Server
      BY SMTT(30), <1>1, InvFacts, CoroFacts DEF Server
<1>3. PICK f \in 1..MaxFd : f = s.fd[k]
      BY <1>1 DEF ReaderReads
<1>4. PICK d : d = PollDone(s, f)
      OBVIOUS
<1>5. d \in Schedulers /\ Woken(s, d, f)
      BY <1>3, <1>4, CoroFacts, PollDoneIs
<1>6. PICK o \in Clients : o = d.owner[f]
  <2>1. k # NoCo /\ LiveSound(s)
        BY <1>1, <1>2, CoroFacts DEF Sound
  <2>2. f \in Open(s)
        BY <1>1, <1>3, <2>1 DEF LiveSound, Resumed, Polled, Blocking
  <2>3. s.owner[f] # NoClient
        BY <1>3, <2>2 DEF Open, Listen
  <2>4. QED
        BY <1>3, <1>5, <2>3 DEF Woken, Schedulers
<1>7. PICK c \in ClientStates : c = client[o] /\ c.got <= c.asked
      BY SMTT(30) DEF NtyInv, NtyTyped
<1>8. UNCHANGED <<setup, accept_mtx, backlog>>
      BY DEF ReaderReads
<1>9. /\ proc \in [Procs -> Schedulers] /\ client \in [Clients -> ClientStates]
      /\ \A b \in Clients : client[b].got <= client[b].asked
      BY DEF NtyInv, NtyTyped
<1>10. ASSUME NEW t, t = PollInner(d, k, f)
       PROVE  /\ t \in Schedulers /\ Sound(t)
              /\ t.given = s.given /\ t.made = s.made /\ t.torn = s.torn /\ t.pc = s.pc
      BY <1>1, <1>2, <1>3, <1>4, <1>10, ReaderAgain
<1>11. CASE OnErrorAnswer(p, d)
  <2>1. PICK t : t = [d EXCEPT !.phase = "killed", !.running = NoCo]
        OBVIOUS
  <2>2. /\ t \in Schedulers /\ t.phase = "killed" /\ t.running = NoCo /\ t.pc = s.pc
        /\ t.arg = s.arg /\ t.given = s.given /\ t.made = s.made /\ t.torn = s.torn
        BY <1>5, <2>1 DEF Woken, Schedulers, Phases
  <2>3. Sound(t)
        BY <1>1, <2>2 DEF Sound, Scheduling
  <2>4. proc' = [proc EXCEPT ![p] = t]
        BY <1>11, <2>1 DEF OnErrorAnswer
  <2>5. /\ client' \in [Clients -> ClientStates]
        /\ \A b \in Clients : client'[b].got <= client'[b].asked
        /\ \A b \in Clients : client[b].st # "off" => client'[b].st # "off"
    <3>1. ASSUME NEW b \in Clients
          PROVE  /\ [client[b] EXCEPT !.st = "gone"] \in ClientStates
                 /\ [client[b] EXCEPT !.st = "gone"].got = client[b].got
                 /\ [client[b] EXCEPT !.st = "gone"].asked = client[b].asked
                 /\ [client[b] EXCEPT !.st = "gone"].st = "gone"
          BY <1>9 DEF ClientStates
    <3>2. /\ client' = [b \in Clients |-> client'[b]]
          /\ \A b \in Clients :
               client'[b] = client[b] \/ client'[b] = [client[b] EXCEPT !.st = "gone"]
          BY <1>11 DEF OnErrorAnswer
    <3>3. ASSUME NEW b \in Clients
          PROVE  /\ client'[b] \in ClientStates /\ client'[b].got <= client'[b].asked
                 /\ client[b].st # "off" => client'[b].st # "off"
          BY <1>9, <3>1, <3>2
    <3>4. QED
          BY <3>2, <3>3
  <2>6. QED
        BY <1>1, <1>2, <1>8, <2>2, <2>3, <2>4, <2>5, QuietStep
<1>12. CASE OnEnd(p, k, d, f)
  <2>1. PICK t : t = Exit(Closed(d, f), k)
        OBVIOUS
  <2>2. /\ t \in Schedulers /\ Sound(t)
        /\ t.given = s.given /\ t.made = s.made /\ t.torn = s.torn /\ t.pc = [s.pc EXCEPT ![k] = "none"]
        BY <1>1, <1>2, <1>3, <1>4, <2>1, ReaderDone
  <2>3. proc' = [proc EXCEPT ![p] = t]
        BY <1>12, <2>1 DEF OnEnd, Closed
  <2>4. t.pc[Server] = s.pc[Server]
        BY <1>2, <2>2, CoroFacts DEF Schedulers
  <2>5. PICK r : r = [c EXCEPT !.st = "gone"]
        OBVIOUS
  <2>6. r \in ClientStates /\ r.got <= r.asked /\ r.st = "gone"
        BY <1>7, <2>5 DEF ClientStates
  <2>7. client' = [client EXCEPT ![o] = r]
        BY <1>6, <1>7, <1>12, <2>5 DEF OnEnd
  <2>8. /\ client' \in [Clients -> ClientStates]
        /\ \A b \in Clients : client'[b].got <= client'[b].asked
        /\ \A b \in Clients : client[b].st # "off" => client'[b].st # "off"
        BY <1>7, <2>6, <2>7, ClientsKept
  <2>9. QED
        BY <1>1, <1>2, <1>8, <2>2, <2>3, <2>4, <2>8, QuietStep
<1>13. CASE ~c.rst /\ c.asked > c.got /\ Answer(p, k, d, f)
  <2>1. PICK t : t = PollInner(d, k, f)
        OBVIOUS
  <2>2. /\ t \in Schedulers /\ Sound(t)
        /\ t.given = s.given /\ t.made = s.made /\ t.torn = s.torn /\ t.pc = s.pc
        BY <1>10, <2>1
  <2>3. proc' = [proc EXCEPT ![p] = t] /\ client' = [client EXCEPT ![o].got = @ + 1]
        BY <1>6, <1>13, <2>1 DEF Answer
  <2>4. PICK r : r = [c EXCEPT !.got = c.got + 1]
        OBVIOUS
  <2>5. r \in ClientStates /\ r.got <= r.asked /\ r.st = c.st
        BY <1>7, <1>13, <2>4 DEF ClientStates
  <2>6. client' = [client EXCEPT ![o] = r]
        BY <1>7, <2>3, <2>4
  <2>7. /\ client' \in [Clients -> ClientStates]
        /\ \A b \in Clients : client'[b].got <= client'[b].asked
        /\ \A b \in Clients : client[b].st # "off" => client'[b].st # "off"
        BY <1>7, <2>5, <2>6, ClientsKept
  <2>8. QED
        BY <1>1, <1>2, <1>8, <2>2, <2>3, <2>7, QuietStep
<1>14. CASE OnErrorAgain(p, k, d, f)
  <2>1. PICK t : t = PollInner(d, k, f)
        OBVIOUS
  <2>2. /\ t \in Schedulers /\ Sound(t)
        /\ t.given = s.given /\ t.made = s.made /\ t.torn = s.torn /\ t.pc = s.pc
        BY <1>10, <2>1
  <2>3. proc' = [proc EXCEPT ![p] = t] /\ client' = [client EXCEPT ![o] = [@ EXCEPT !.rst = FALSE, !.fin = TRUE]]
        BY <1>6, <1>14, <2>1 DEF OnErrorAgain
  <2>4. PICK r : r = [c EXCEPT !.rst = FALSE, !.fin = TRUE]
        OBVIOUS
  <2>5. r \in ClientStates /\ r.got <= r.asked /\ r.st = c.st
        BY <1>7, <2>4 DEF ClientStates
  <2>6. client' = [client EXCEPT ![o] = r]
        BY <1>7, <2>3, <2>4
  <2>7. /\ client' \in [Clients -> ClientStates]
        /\ \A b \in Clients : client'[b].got <= client'[b].asked
        /\ \A b \in Clients : client[b].st # "off" => client'[b].st # "off"
        BY <1>7, <2>5, <2>6, ClientsKept
  <2>8. QED
        BY <1>1, <1>2, <1>8, <2>2, <2>3, <2>7, QuietStep
<1>15. QED
      BY ZenonT(60), <1>1, <1>3, <1>4, <1>6, <1>7, <1>11, <1>12, <1>13, <1>14 DEF ReaderReads

\* The clients touch no process.
LEMMA ClientStep ==
    ASSUME NtyInv, UNCHANGED <<setup, proc, accept_mtx>>, backlog' \in Seq(Clients),
           BacklogSound', client' \in [Clients -> ClientStates],
           \A c \in Clients : client'[c].got <= client'[c].asked
    PROVE  NtyInv'
<1>1. LockSound'
      BY DEF NtyInv, LockSound
<1>2. NtyTyped'
      BY DEF NtyInv, NtyTyped
<1>3. (\A p \in Procs : Sound(proc[p])) /\ \A p \in Procs \ setup.procs : proc[p].phase = "off"
      BY DEF NtyInv
<1>4. /\ \A p \in Procs : Sound(proc'[p])
      /\ \A p \in Procs \ setup'.procs : proc'[p].phase = "off"
      BY <1>3
<1>5. KvSound'
      BY DEF NtyInv, KvSound
<1>6. QED
      BY <1>1, <1>2, <1>4, <1>5 DEF NtyInv

\* A client that connects keeps it.
LEMMA ConnectKeeps == ASSUME NtyInv, NEW c \in Clients, Connect(c) PROVE NtyInv'
<1>1. /\ client[c] \in ClientStates /\ client[c].got <= client[c].asked
      /\ client[c].st = "off" /\ backlog \in Seq(Clients) /\ BacklogSound
      BY DEF NtyInv, NtyTyped, Connect
<1>2. PICK r : r = [client[c] EXCEPT !.st = "open"]
      OBVIOUS
<1>3. r \in ClientStates /\ r.got <= r.asked /\ r.st = "open"
      BY <1>1, <1>2 DEF ClientStates
<1>4. client' = [client EXCEPT ![c] = r]
      BY <1>2 DEF Connect
<1>5. /\ client' \in [Clients -> ClientStates]
      /\ \A b \in Clients : client'[b].got <= client'[b].asked
      /\ \A b \in Clients : client[b].st # "off" => client'[b].st # "off"
      BY <1>1, <1>3, <1>4, ClientsKept
<1>6. client'[c].st # "off"
      BY <1>3, <1>4 DEF NtyInv, NtyTyped
<1>7. PICK q \in Seq(Clients) : q = backlog'
      BY <1>1, AppendProperties DEF Connect
<1>8. PICK n \in DOMAIN q :
           /\ q[n] = c /\ n \notin DOMAIN backlog
           /\ \A i \in DOMAIN backlog : i \in DOMAIN q /\ q[i] = backlog[i]
           /\ \A i \in DOMAIN q : i = n \/ i \in DOMAIN backlog
  <2>1. q = Append(backlog, c)
        BY <1>7 DEF Connect
  <2>2. QED
        BY <1>1, <2>1, AppendFacts
<1>9. \A i \in DOMAIN backlog : backlog[i] # c /\ backlog[i] \in Clients
  <2>1. \A i \in DOMAIN backlog : backlog[i] \in Clients
        BY <1>1, ElementOfSeq, LenProperties
  <2>2. QED
        BY <1>1, <2>1 DEF BacklogSound
<1>10. \A i, j \in DOMAIN q : q[i] = q[j] => i = j
      BY <1>1, <1>8, <1>9 DEF BacklogSound
<1>11. \A i \in DOMAIN q : client'[q[i]].st # "off"
      BY <1>1, <1>5, <1>6, <1>8, <1>9 DEF BacklogSound
<1>12. Taken \subseteq Taken'
  <2>1. ASSUME NEW b \in Taken PROVE b \in Taken'
    <3>1. b \in Clients /\ b # c /\ client'[b].st # "off"
          BY <1>1, <1>5 DEF Taken
    <3>2. \A i \in DOMAIN q : q[i] # b
          BY <1>8, <3>1 DEF Taken
    <3>3. QED
          BY <1>7, <3>1, <3>2 DEF Taken
  <2>2. QED
        BY <2>1
<1>13. Cardinality(Taken) <= Cardinality(Taken') /\ Cardinality(Taken') \in Nat
  <2>1. IsFiniteSet(Taken') /\ Cardinality(Taken') \in Nat
        BY NtyAssumption, FS_Subset, FS_CardinalityType DEF Taken
  <2>2. QED
        BY <1>12, <2>1, FS_Subset
<1>14. ASSUME NEW p \in Procs PROVE Cardinality(Good(proc'[p])) <= Cardinality(Taken')
  <2>1. PICK g \in Nat, T \in Nat, T1 \in Nat :
             /\ g = Cardinality(Good(proc[p])) /\ T = Cardinality(Taken) /\ g <= T
             /\ T1 = Cardinality(Taken') /\ T <= T1
        BY <1>1, <1>13, GoodFinite, TakenFinite DEF BacklogSound
  <2>2. g <= T1
        BY <2>1
  <2>3. proc' = proc
        BY DEF Connect
  <2>4. Good(proc'[p]) = Good(proc[p])
        BY <2>3
  <2>5. QED
        BY <2>1, <2>2, <2>4
<1>15. BacklogSound'
      BY <1>7, <1>10, <1>11, <1>14 DEF BacklogSound
<1>16. QED
      BY <1>5, <1>7, <1>15, ClientStep DEF Connect

\* A client that asks, closes or resets keeps it.
LEMMA AskCloseKeeps == ASSUME NtyInv, NEW c \in Clients, Ask(c) \/ Close(c) PROVE NtyInv'
<1>1. PICK s \in ClientStates : s = client[c] /\ s.got <= s.asked
      BY DEF NtyInv, NtyTyped
<1>2. PICK r : /\ client' = [client EXCEPT ![c] = r]
               /\ \/ r = [s EXCEPT !.asked = s.asked + 1]
                  \/ r = [s EXCEPT !.fin = TRUE]
                  \/ r = [s EXCEPT !.rst = TRUE]
  <2>1. CASE Ask(c)
        BY <1>1, <2>1 DEF Ask
  <2>2. CASE Close(c)
        BY <1>1, <2>2 DEF Close
  <2>3. QED
        BY <2>1, <2>2
<1>3. r \in ClientStates /\ r.got <= r.asked /\ r.st = s.st
  <2>1. CASE r = [s EXCEPT !.asked = s.asked + 1]
        BY <1>1, <2>1 DEF ClientStates
  <2>2. CASE r = [s EXCEPT !.fin = TRUE]
        BY <1>1, <2>2 DEF ClientStates
  <2>3. CASE r = [s EXCEPT !.rst = TRUE]
        BY <1>1, <2>3 DEF ClientStates
  <2>4. QED
        BY <1>2, <2>1, <2>2, <2>3
<1>4. /\ client' \in [Clients -> ClientStates]
      /\ \A b \in Clients : client'[b].got <= client'[b].asked
      /\ \A b \in Clients : client[b].st # "off" => client'[b].st # "off"
      BY <1>1, <1>2, <1>3, ClientsKept
<1>5. UNCHANGED <<setup, proc, accept_mtx, backlog>>
      BY DEF Ask, Close
<1>6. BacklogSound'
      BY <1>4, <1>5, BacklogKept
<1>7. backlog' \in Seq(Clients)
      BY <1>5 DEF NtyInv, NtyTyped
<1>8. QED
      BY <1>4, <1>5, <1>6, <1>7, ClientStep

\* Every step keeps the invariant.
LEMMA NtyStep == NtyInv /\ [NtyNext]_ntyVars => NtyInv'
<1> SUFFICES ASSUME NtyInv, [NtyNext]_ntyVars PROVE NtyInv'
    OBVIOUS
<1>1. CASE UNCHANGED ntyVars
  <2>1. UNCHANGED <<setup, proc, accept_mtx, backlog, client>>
        BY <1>1 DEF ntyVars
  <2>2. BacklogSound'
        BY <2>1, BacklogKept
  <2>3. /\ backlog' \in Seq(Clients) /\ client' \in [Clients -> ClientStates]
        /\ \A c \in Clients : client'[c].got <= client'[c].asked
        BY <2>1 DEF NtyInv, NtyTyped
  <2>4. QED
        BY <2>1, <2>2, <2>3, ClientStep
<1>2. CASE NtyNext
  <2>1. ASSUME NEW p \in Procs, Run(p) PROVE NtyInv'
        BY <2>1, NextReadyKeeps, EpollKeeps, NextEventKeeps, ServerStartsKeeps,
           ServerLocksKeeps, ServerAcceptsKeeps, ReaderStartsKeeps, ReaderReadsKeeps DEF Run
  <2>2. ASSUME NEW c \in Clients, Connect(c) \/ Ask(c) \/ Close(c) PROVE NtyInv'
        BY <2>2, ConnectKeeps, AskCloseKeeps
  <2>3. QED
        BY <1>2, <2>1, <2>2 DEF NtyNext
<1>3. QED
      BY <1>1, <1>2

-----------------------------------------------------------------------------
(* What follows for the properties the run checks *)

\* A coroutine that lives is in one place, by where it is in its function.
LEMMA OnePlaceHolds ==
    ASSUME NEW s \in Schedulers, LiveSound(s), NEW k \in Coros
    PROVE  Places(s, k) = IF s.pc[k] = "none" THEN 0 ELSE 1
<1>1. PICK R : R = { i \in DOMAIN s.ready : s.ready[i] = k }
      OBVIOUS
<1>2. PICK W : W = { f \in NtyFds : s.waiting[f] = k }
      OBVIOUS
<1>3. Places(s, k) = Cardinality(R) + (IF s.running = k THEN 1 ELSE Cardinality(W))
      BY <1>1, <1>2 DEF Places
<1>4. Cardinality({}) = 0 /\ \A x : Cardinality({x}) = 1
      BY FS_EmptySet, FS_Singleton
<1>5. k # NoCo /\ s.pc[k] \in Stages
      BY CoroFacts DEF Schedulers
<1>6. s.pc[k] \notin {"new", "lock"} \/ s.running = k => R = {}
      BY <1>1 DEF LiveSound, Queued
<1>7. s.pc[k] \notin Blocking => W = {}
      BY <1>2, <1>5 DEF LiveSound, Waits
<1>8. CASE s.pc[k] = "none"
      BY <1>3, <1>4, <1>5, <1>6, <1>7, <1>8 DEF LiveSound, Resumed, Blocking
<1>9. CASE s.running = k /\ s.pc[k] # "none"
      BY <1>3, <1>4, <1>6, <1>9
<1>10. CASE s.running # k /\ s.pc[k] \in {"new", "lock"}
  <2>1. PICK i \in DOMAIN s.ready : s.ready[i] = k
        BY <1>10 DEF LiveSound, Queued
  <2>2. R = {i}
        BY <1>1, <2>1 DEF LiveSound, Queued
  <2>3. W = {}
        BY <1>7, <1>10 DEF Blocking
  <2>4. QED
        BY <1>3, <1>4, <1>10, <2>2, <2>3
<1>11. CASE s.running # k /\ s.pc[k] \in Blocking
  <2>1. s.fd[k] \in NtyFds /\ s.waiting[s.fd[k]] = k
        BY <1>11 DEF LiveSound, Waits, Schedulers
  <2>2. \A f \in W : f = s.fd[k]
        BY <1>2, <1>5 DEF LiveSound, Waits
  <2>3. W = {s.fd[k]}
        BY <1>2, <2>1, <2>2
  <2>4. R = {}
        BY <1>6, <1>11 DEF Blocking
  <2>5. Cardinality(R) = 0 /\ Cardinality(W) = 1
        BY <1>4, <2>3, <2>4
  <2>6. Places(s, k) = 0 + 1
        BY <1>3, <1>11, <2>5
  <2>7. QED
        BY <1>11, <2>6 DEF Blocking
<1>12. QED
      BY <1>5, <1>8, <1>9, <1>10, <1>11 DEF Stages, Blocking

\* What the run checks follows from the invariant.
LEMMA NtyInvSound == NtyInv => NtySound
<1> SUFFICES ASSUME NtyInv PROVE NtySound
    OBVIOUS
<1>1. \A p \in Procs : proc[p] \in Schedulers /\ Sound(proc[p])
      BY DEF NtyInv, NtyTyped
<1>2. \A p \in Procs : Alive(p) => LiveSound(proc[p])
      BY <1>1 DEF Alive, Sound, Scheduling
<1>3. NtyTypeOK
  <2>1. \A p \in Procs :
           /\ proc[p].phase \in Phases /\ proc[p].running \in Coros \cup {NoCo}
           /\ proc[p].interest \subseteq 0..MaxFd /\ proc[p].made \in 0..MaxReaders
        BY <1>1 DEF Schedulers, Watched
  <2>2. QED
        BY <2>1 DEF NtyTypeOK, NtyInv, NtyTyped
<1>4. OnePlace
  <2>1. ASSUME NEW p \in Procs, Alive(p), NEW k \in Coros
        PROVE  Places(proc[p], k) = IF proc[p].pc[k] = "none" THEN 0 ELSE 1
        BY <1>1, <1>2, <2>1, OnePlaceHolds
  <2>2. ASSUME NEW p \in Procs, Alive(p), NEW f \in NtyFds, proc[p].waiting[f] # NoCo
        PROVE  /\ proc[p].fd[proc[p].waiting[f]] = f
               /\ proc[p].pc[proc[p].waiting[f]] \in {"accept", "recv"}
        BY <1>2, <2>2 DEF LiveSound, Waits, Blocking
  <2>3. ASSUME NEW p \in Procs, Alive(p)
        PROVE  /\ proc[p].interest \subseteq Open(proc[p])
               /\ \A f \in proc[p].interest : proc[p].waiting[f] # NoCo
               /\ ~proc[p].torn => \A f \in 0..MaxFd :
                     proc[p].waiting[f] # NoCo => f \in proc[p].interest
        BY <1>2, <2>3 DEF LiveSound, Polled, Watched
  <2>4. QED
        BY <2>1, <2>2, <2>3 DEF OnePlace
<1>5. NobodyMissing
      BY <1>1 DEF NobodyMissing, Sound, LiveSound, Batch, Scheduling
<1>6. OwnDescriptor
  <2>1. \A p \in Procs : proc[p].torn => setup.prog = "kv"
        BY DEF NtyInv, KvSound
  <2>2. QED
        BY <1>2, <2>1 DEF OwnDescriptor, LiveSound, Works
<1>7. LockExact
  <2>1. SUFFICES ASSUME setup.prog = "httpd"
                 PROVE  LET inside == { p \in setup.procs : proc[p].pc[Server] = "accept" }
                        IN  Cardinality(inside) <= 1 /\ accept_mtx = Cardinality(inside)
        BY DEF LockExact
  <2>2. PICK inside : inside = { p \in setup.procs : proc[p].pc[Server] = "accept" }
        OBVIOUS
  <2>3. CASE accept_mtx = 0
    <3>1. inside = {}
          BY <2>1, <2>2, <2>3 DEF NtyInv, LockSound
    <3>2. QED
          BY <2>2, <2>3, <3>1, FS_EmptySet
  <2>4. CASE accept_mtx = 1
    <3>1. PICK p \in setup.procs : \A q \in setup.procs :
                  proc[q].pc[Server] = "accept" <=> q = p
          BY <2>1, <2>4 DEF NtyInv, LockSound
    <3>2. inside = {p}
          BY <2>2, <3>1
    <3>3. Cardinality(inside) = 1
          BY <3>2, FS_Singleton
    <3>4. QED
          BY <2>2, <2>4, <3>3
  <2>5. QED
        BY <2>3, <2>4 DEF NtyInv, NtyTyped
<1>8. AbortsOnlyAtLimit
  <2>1. SUFFICES ASSUME NEW p \in Procs, proc[p].phase = "aborted", ~proc[p].torn
                 PROVE  Cardinality({ k \in Coros : proc[p].given[k] = BadFd
                                                    /\ proc[p].pc[k] = "recv" }) >= 2
        BY DEF AbortsOnlyAtLimit
  <2>2. PICK A : A = { k \in Coros : proc[p].given[k] = BadFd /\ proc[p].pc[k] = "recv" }
        OBVIOUS
  <2>3. PICK k, j \in Coros : k # j /\ k \in A /\ j \in A
        BY <1>1, <2>1, <2>2 DEF Sound, Failed
  <2>4. IsFiniteSet(Coros)
    <3>1. PICK n \in Nat : n = MaxReaders
          BY CoroFacts
    <3>2. IsFiniteSet(0..n)
          BY FS_Interval
    <3>3. QED
          BY <3>1, <3>2 DEF Coros
  <2>5. IsFiniteSet(A) /\ Cardinality(A) \in Nat
        BY <2>2, <2>4, FS_Subset, FS_CardinalityType
  <2>6. IsFiniteSet({k} \cup {j}) /\ Cardinality({k} \cup {j}) = 2
    <3>1. IsFiniteSet({k}) /\ Cardinality({k}) = 1
          BY FS_Singleton
    <3>2. IsFiniteSet({k} \cup {j}) /\ Cardinality({k} \cup {j}) = Cardinality({k}) + 1
          BY <2>3, <3>1, FS_AddElement
    <3>3. QED
          BY <3>1, <3>2
  <2>7. Cardinality({k} \cup {j}) <= Cardinality(A)
        BY <2>3, <2>5, FS_Subset
  <2>8. QED
        BY <2>2, <2>5, <2>6, <2>7
<1>9. QED
      BY <1>3, <1>4, <1>5, <1>6, <1>7, <1>8 DEF NtySound

\* Whatever the program, the clients and the descriptors, the scheduler of NtyCo keeps
\* every coroutine in one place and finds one for each event, and the lock is held by one
\* process.  A reader works on the descriptor accepted for it, and the assertion fails only
\* at the limit of descriptors, unless a reader of kv has read cli_fd off a stack another
\* coroutine was resumed on (nty_schedule_run, nty_poll_inner, server).
THEOREM CoroutinesSound == NtySpec => []NtySound
<1>1. NtyInit => NtyInv
      BY NtyInitInv
<1>2. NtyInv /\ [NtyNext]_ntyVars => NtyInv'
      BY NtyStep
<1>3. NtyInv => NtySound
      BY NtyInvSound
<1>4. QED
      BY <1>1, <1>2, <1>3, PTL DEF NtySpec

=============================================================================
