------------------------------ MODULE MCParts -------------------------------
(***************************************************************************)
(* Smaller parts side by side: the buffers of the user-space stack; NtyCo  *)
(* and the web servers on it; the chat room; the thread pool and the       *)
(* counter.  They share nothing here, so a behaviour is one of one of      *)
(* them.                                                                   *)
(***************************************************************************)
EXTENDS UPacketPath, NtyCo, TinyHttp, KcpRoom, ThreadPool, Counter, TLC

CONSTANTS e1, e2, p1, p2, x1, x2, x3

VARIABLE part    \* which of them

coroVars == <<ntyVars, httpVars>>
restVars == <<roomVars, poolVars, counterVars>>
partVars == <<pathVars, coroVars, restVars, part>>

\* Station e1 changes its address; e2 sends something for the kernel, and ARP.
MCFrames ==
  {[kind |-> "app", src |-> e1, mac |-> "m1"], [kind |-> "app", src |-> e1, mac |-> "m2"],
   [kind |-> "icmp", src |-> e2, mac |-> "m3"], [kind |-> "arp", src |-> e2, mac |-> "m3"]}

\* One process with descriptors enough or too few, or two that share a lock.
MCSetups ==
    { [prog |-> "kv", procs |-> {p1}, limit |-> 2],
      [prog |-> "kv", procs |-> {p1}, limit |-> 1],
      [prog |-> "echo", procs |-> {p1}, limit |-> 2],
      [prog |-> "httpd", procs |-> {p1, p2}, limit |-> 1] }
MCSites == {Single(2), Single(1), Mulcore(1)}

Parts == {"path", "nty", "http", "room", "pool", "counter"}

\* What is not the part of this behaviour starts in one state only.
Init ==
  /\ part \in Parts
  /\ PathInit /\ NtyInit /\ HttpInit /\ RoomInit /\ PoolInit /\ CounterInit
  /\ part # "nty" => setup.prog = "echo"
  /\ part # "http" => site = Single(1) /\ worker[p1] = "new"
  /\ clients[e1].addr = x1 /\ clients[e2].addr = x2
  /\ part # "counter" => how = "xadd"

PathPart == part = "path" /\ PathNext /\ UNCHANGED <<coroVars, restVars, part>>
NtyPart  == part = "nty" /\ NtyNext /\ UNCHANGED <<pathVars, httpVars, restVars, part>>
HttpPart == part = "http" /\ HttpNext /\ UNCHANGED <<pathVars, ntyVars, restVars, part>>
RoomPart == part = "room" /\ RoomNext /\ UNCHANGED <<pathVars, coroVars, poolVars, counterVars, part>>
PoolPart == part = "pool" /\ PoolStep /\ UNCHANGED <<pathVars, coroVars, roomVars, counterVars, part>>
CounterPart ==
  part = "counter" /\ CounterNext /\ UNCHANGED <<pathVars, coroVars, roomVars, poolVars, part>>

Next == \/ PathPart \/ NtyPart \/ HttpPart \/ RoomPart
        \/ PoolPart \/ CounterPart

\* Each part with the fairness of its own.  What can run for a process, core, thread
\* or worker r runs.  The coroutines of NtyCo are scheduled for ever and the clock
\* of the room goes on; clients may stop at any time, and a thread that counts is
\* not promised that its compare and exchange hits.
OfPath(A) == part = "path" /\ A /\ UNCHANGED <<coroVars, restVars, part>>
OfNty(A)  == part = "nty" /\ A /\ UNCHANGED <<pathVars, httpVars, restVars, part>>
OfHttp(A) == part = "http" /\ A /\ UNCHANGED <<pathVars, ntyVars, restVars, part>>
OfRoom(A) == part = "room" /\ A /\ UNCHANGED <<pathVars, coroVars, poolVars, counterVars, part>>
OfPool(A) ==
  part = "pool" /\ fault = "none" /\ A /\ UNCHANGED <<pathVars, coroVars, roomVars, counterVars, part>>
OfCounter(A) == part = "counter" /\ A /\ UNCHANGED <<pathVars, coroVars, roomVars, poolVars, part>>

Runs(r) ==
  \/ OfPath(IF r = p1 THEN MainCore ELSE PktCore)
  \/ OfNty(Run(r)) \/ OfHttp(Process(r)) \/ (r = p1 /\ OfRoom(Elapse))
  \/ OfPool(Worker(r)) \/ OfCounter(CountTurn(r))

\* The port and the kernel that the buffers go to; the coroutine that serves e; the
\* thread that closes e's session; and the manager of the pool within a call.
ServesFor(e) ==
  \/ OfPath(IF e = e1 THEN PortDone ELSE KernelDone)
  \/ OfHttp(Serves(e)) \/ OfRoom(CloseSession(e)) \/ (e = e1 /\ OfPool(BossGoes))

\* A worker that wants the mutex again and again gets it, and so does the manager,
\* as each holder soon lets go.
Spec ==
  /\ Init /\ [][Next]_partVars
  /\ \A r \in {p1, p2} : WF_partVars(Runs(r)) /\ SF_partVars(OfPool(TakeMutex(r)))
  /\ \A e \in {e1, e2} : WF_partVars(ServesFor(e))
  /\ SF_partVars(OfPool(WakeAll))

-----------------------------------------------------------------------------
\* What counting and a destroyed pool owe, to nobody in particular.
Total == "total"
Owes(e) ==
  CASE part = "counter" -> e = Total /\ CountBegun
    [] e = Total        -> part = "pool" /\ Destroyed
    [] part = "path" -> PathOwes(e) [] part = "nty" -> NtyOwes(e) [] part = "http" -> HttpOwes(e)
    [] part = "room" -> RoomOwes(e) [] OTHER -> PoolOwes(e)
Gives(e) ==
  CASE part = "counter" -> CountOver
    [] e = Total        -> part = "pool" /\ CrewGone
    [] part = "path" -> PathGives(e) [] part = "nty" -> NtyGives(e) [] part = "http" -> HttpGives(e)
    [] part = "room" -> RoomGives(e) [] OTHER -> PoolGives(e)

\* Whatever a part owes to a buffer, a client, a session or a task, it gives in the
\* end, whatever the others do; a pool that was destroyed is left by all its workers,
\* and counting comes to an end.  What the code loses is owed no more: a frame the
\* kernel's FIFO had no room for, and the clients of kv once a reader has found the
\* wrong descriptor (tcp.c:802, 2700, nty_schedule.c:288, kcp_server.cc:65,
\* threadpool.c:69, CAS.c:23).
EveryoneGetsTheirs == \A e \in {e1, e2, Total} : Owes(e) ~> Gives(e)
=============================================================================
